# Forgemill, specified

TLA+ modules that model Forgemill's own logic (what its services, handlers,
hubs, providers and database do to state that others see), TLC configurations
that check them on small instances, and TLAPS proofs of the properties that
matter most, for every instance. Paths are relative to the repository;
`service/` stands for `src/internal/service/`, and so on.

To check one configuration: `tlc -workers 2 -config MCDeploymentSafety.cfg MCDeployment`.
To check the proofs of a module: `tlapm DeploymentProofs.tla`.

## 1. The system and its parts

Forgemill is one Go process with a SQLite database. The database has one
connection, so every statement and every transaction is atomic and they are
totally ordered. HTTP handlers call services; services start goroutines that
talk to hypervisors (VMware, Proxmox), to Packer or to guests over SSH, write
the outcome into rows, and push messages to browsers through hubs. Nothing but
rows survives a restart.

| Part | State it keeps | Operations | What is hard |
|---|---|---|---|
| Single deployment (`service/deploy.go`) | `deployments` row, `cancels` map, a context per goroutine | Start, runDeploy, Cancel | a request, a goroutine, a cancel, a 4 h deadline, history clearing and target deletion interleave; the process may die |
| Providers (`provider/proxmox`, `provider/vmware`) | machines, snippets, disks at the hypervisor | DeployVM, power, delete, adapters | a deployment is many requests, each of which may be refused or lose its answer; numbers, names and files are shared |
| Bulk deployment (`service/bulk.go`) | `bulk_deployments` row, two counters under a mutex | Start, runSequential, runParallel | ten starts side by side, panics |
| Execution (`service/executor.go`, `ssh.go`) | `action_executions` row, `cancels` map, the session, the reader | Execute, runExecution, Cancel | limits are counted and used in different statements; the guest hangs, breaks, or is killed; the output ends later than the command |
| Execution output hub (`api/ws/execution_hub.go`) | buffers, connections, timers | SendOutput, HandleExecutionWS | replay and live output race; buffers are full; connections break |
| Progress hubs and the pages that watch (`api/ws/hub.go`, `factory/progress.go`, `frontend/src/pages/DeployLive.tsx`, `FactoryBuildProgress.tsx`) | connections; what a page shows | send, join, leave, drop; connect, poll, retry | no replay: a message, a poll and a reconnect race with the end |
| VM inventory (`service/vm.go`, `discovery.go`) | `managed_vms` rows | Create, Adopt, Delete, PowerAction, SyncState, SyncAll | long passes write what they computed from rows read minutes earlier; names are reused; listings fail |
| VM hardware and snapshots (`service/vm.go`, `provider/*/disk.go`) | sizes and snapshots on the row and on the VM | Resize, ListDisks, ExpandDisk, AddDisk, AddNIC, snapshots | read, change, write, each apart, and a sync five seconds later |
| Template factory (`factory/engine.go`, `scheduler.go`, `service/factory.go`) | `template_builds` rows, the running build and its cancel func, families | StartBuild, RebuildTemplate, CancelBuild, DeleteBuild, executeBuild, schedules | check and act on "the running build" are separate; versions are read early; the lineage is several transactions |
| Templates, families, versions (`db/sqlite.go`, `service/target.go`) | `templates`, `template_families` | SyncTemplates, link, supersede, delete | a synchronisation deletes and inserts rows others refer to |
| Actions catalogue (`db/actions.go`, `handlers/actions.go`) | actions, past versions, drafts | create, update, publish, roll back, delete | a handler writes what it computed from a row read earlier |
| AI jobs (`service/ai_jobs.go`, `ai_draft.go`, ...) | a map of jobs | start, ask, attach, save | a save into a draft that is published meanwhile |
| Targets and the health checker (`service/target*.go`) | the evaluation on record | tests, daily sweep, reminders | answers stored later than asked; a sweep over a stale list |
| Accounts, sessions, API keys (`handlers/auth.go`, `settings.go`, `api_keys.go`, `service/ldap.go`) | users, token versions, keys | log in and out, disable, change roles, follow the directory | count, then write; revoke against requests in progress |
| Rate limiter (`api/middleware/ratelimit.go`) | a bucket per address, a limited map | allow, cleanup, evict | what is forgotten must not matter |
| Credentials and export, audit log (`service/credential*.go`, `audit.go`) | logins of VMs; a queue of 1000 and its writer | set, test, clear, export; Log, LogSync | an export must not leave unrecorded, whatever fails |
| Webhooks and notifications (`service/webhook.go`, `notification.go`) | webhooks, notices | announce, read, dismiss, retention | a fan-out that waits for places; users and webhooks come and go |
| Database (`db/sqlite.go`, `db/migrations`) | the tables that refer to each other; `schema_version` | deletions in several tables, migrations | references without ON DELETE; a start that dies between two steps |
| Server wiring, CLI, other pages | none of their own | | |

How they meet: `Deployment` uses what a provider's DeployVM promises
(`DeployContract`, which both providers are shown to keep); a deployment that
completes writes into the VM inventory and fires announcements; bulk requests and
blueprints start deployments; history clearing and target deletion remove rows
under all of them; deleting a VM removes the executions that run on it; an
execution sends to the output hub, deployments and builds to theirs; a pass of
`SyncAll` is started by a timer and by every power action and change of
hardware; AI jobs write into the catalogue.

`PROJECT.json` lists the components with what is and is not modelled of each,
and under `hazards` the places where the code could go wrong in a way that is
hard to test, each with its line and the property that would notice.

## 2. The modules

| Module | Models | Composed in | Proved in |
|---|---|---|---|
| `DeploymentLifecycle` | abstract: what a deployment record promises | refined by `Deployment` | |
| `Deployment` | `DeployService` and what surrounds it | `MCDeployment` | `DeploymentProofs` |
| `DeployContract` | abstract: what DeployVM promises | refined by `Proxmox`, `VSphere` | |
| `Proxmox`, `VSphere` | the two providers | `MCPlatform` | `MachineProofs` |
| `Bulk` | `BulkDeployService` | `MCPlatform` | `MachineProofs` |
| `Execution` | `ExecutorService`, the SSH session, the guest | `MCExecution` | `ExecutionProofs` |
| `ExecutionHub` | `ExecutionHub` | `MCExecutionHub` | `ExecutionHubProofs` |
| `Progress` | both progress hubs and their pages | `MCFrontDoor` | `FrontDoorProofs` |
| `VMInventory` | `VMService`'s rows and observers | `MCVMInventory` | `VMInventoryProofs` |
| `Hardware` | sizes, disks, adapters and snapshots of a VM | `MCPlatform`, `MCHardware` | `MachineProofs` |
| `Factory` | engine, builds, schedule, templates and families | `MCFactory` | `FactoryProofs` |
| `Catalogue` | actions, versions, drafts and AI jobs | `MCPlatform` | `PlatformProofs` |
| `Reminders` | evaluations, tests, sweep and reminders | `MCPlatform` | `PlatformProofs` |
| `Access` | accounts, sessions, keys, directory | `MCFrontDoor` | `FrontDoorProofs` |
| `TokenBucket` | abstract: one bucket per address, kept for ever | refined by `RateLimit` | |
| `RateLimit` | the limiter's map | `MCFrontDoor` | `FrontDoorProofs` |
| `Vault` | logins, their export, the audit log | `MCFrontDoor` | `FrontDoorProofs` |
| `Notices` | webhooks and notices | `MCPlatform` | `PlatformProofs` |
| `Schema` | the tables, their references, every deletion | `MCPlatform` | `PlatformProofs` |
| `Migrations` | the start of the program on an older database | `MCPlatform` | `PlatformProofs` |

In every module a step is a stretch of code between two points at which another
actor can get in: a statement, a remote call, a lock. `pc`, `at` and `stage`
labels are those points. Definitions whose comment starts with "Slip:" are not
part of the specification: each is a plausible mistake in the definition that
follows it, kept to show that a property notices it.

Components that share state are in one module (engine, templates and schedule;
catalogue and jobs; logins, export and audit log; hubs and pages). Where one
component touches another's rows, the other's effect is an action of its
surroundings (`RemoveVM`, `DeleteTarget`, `ClearHistory` in `Deployment`;
`DeleteVM` in `Execution`; `Register` in `VMInventory`; `Deploy` in `Factory`).
Where one relies on another's promise, the promise is an abstract module.
`MCPlatform` and `MCFrontDoor` put components that share *no* state side by side:
`focus` chooses the one that moves in a behaviour, so each is explored from its
start through all its interleavings and none is multiplied by the others.

### Deployment, providers, bulk

`Deployment`: `row`, `tracked` are the status column and the VM row; `pc`,
`cancels`, `ctx` the goroutine, the map of cancel funcs, the context; `vm` the clone
as the hypervisor sees it; `request` a cancel on its way from the handler's check
to the lookup under the mutex to the signal after the unlock. `Begin`, `Connect`,
the `Clone...` actions, `Poll...`, `Ask`, `AttachExtras` are `runDeploy`; `Exit...`
its exits, each a status write, a VM row and an event in that exit's order.
`UpdateDeploymentStatus` moves a row only from the states its WHERE clause lists,
and its refusal is logged, not acted on. History variables: `disturbed` (a crash or
a refused write), `raced` (Cancel wrote the row while the deployment was in progress).

`Proxmox` and `VSphere` take DeployVM request by request. Every request may be
refused, or take effect without an answer; the context may end at any point. The
roll-back, the partial result and the plain failure are the three exits the service
tells apart, and `DeployContract` says what each promises: a success is the whole
machine, a partial one is configured, one reported removed is gone.

`Bulk`: one goroutine per machine in parallel mode, one after the other in
sequence; the tally is counted under the mutex and written to the row before it is
released; a panic counts as refused in parallel and ends the request in sequence.

### Execution, its output, the pages

`Execute` counts twice and inserts (`CountForVM`, `CountTotal`, `Create`,
`Register`); `runExecution` marks, connects, waits in the select (`Exited`,
`Stopped`, `Lost`), kills over a second session, hangs up, drains, and winds up.
`job`, `out`, `hung` are the guest. `overtaken`: another row was inserted between
this request's counts and its insert. In `ExecutionHub`, `SendOutput` holds the
mutex throughout and is one step; the replay's copy is made under the mutex and
written without it, one message at a time. In `Progress` a send writes to one socket
after the other under the read lock and drops the broken ones under the write lock,
so a page may join between the two; the page's timers and requests are actions.
`Upgrade` opens the page's connection, `Join` enters it into the hub's map: what is told
in between passes it by. `work.run` says whether a cancel finds the goroutine;
one that does not writes the row itself (`CancelWrites`), and `Record` goes on
whether its write was made, refused or failed. `work.parted` (history): the record has lost an end
that was told, or had one replaced. A page retries without counting, so it may also stop.

### Inventory and hardware

A row of `VMInventory` keeps its power state and the bookkeeping of the running time
(`applyPowerStateTransition` is `Observed`). Requests and passes hold a copy of the
row from the statement that reads it to the statement that writes it. `steady`
(history): the VMs that have been on the hypervisor since a pass read its rows.
`Hardware` does the same for sizes, disks and snapshots of one VM; `owed` (history)
says that a failure or an outdated pass has left the row to a sync that is not
scheduled.

### Factory, catalogue, reminders

`Factory`: `call` is a request up to the engine, `engine` the running build and
whether its context was cancelled, `stage` where `executeBuild` and `onBuildComplete`
stand, `conn` whether a transaction that failed was left open on the only
connection. A synchronisation by a user lists first and stores later, and so does the
engine's (`answer`): while `stage` is `listing` or `capabilities` the hypervisor
has been asked, without a deadline, and `HypervisorAnswers` is the hypervisor's step.
A listing is stored by the names it was taken with, also when a template has gone
meanwhile. With `WriteFaults` any status of a build, and each statement of the completion,
may fail; the code logs it and goes on. History:
`overtaken` (a build was handed over with a version read before another was
linked), `unwritten` (builds whose last status could not be written), `cut` (a supersede
that failed, or a crash just before it, not made up for by a later one). In
`Catalogue` a request reads and writes in two steps, and what could be run under
which version number is remembered in `seen`. `Reminders` keeps the evaluation on record,
the checker's copy of it, and answers of the host under way.

### Front door, announcements, database

`Access`: a request is authenticated when it enters, and its handler reads, checks and
writes apart; any statement may fail. A token version that cannot be written is only
logged by the user's own sign-out and by a disable (`BumpFails`), which answer
success: `spared` (history) are the sessions that leaves as they were. `RateLimit`: `visitors` with ticks since use; a tick is the time one
token takes. `Vault`: an export checks the password, reads one login after another,
writes the file, records it, and only then sends it. `Notices`: an announcement goes
to its webhooks and its users in the code's order, with a limit on requests under
way. `Schema`: `db` is the set of rows and the references set between them; a
deletion is a sequence of statements in one transaction, and a statement that would
leave a reference to nothing refuses all of it. `Migrations`: `opening` is where a
start stands; the process may die between any two commits.

## 3. The runs

| Run | Configuration | Properties | What it shows |
|---|---|---|---|
| `deployment_safety` | two deployments, no faults | `CompletedIsTracked`, `CompletedWebhookHasVM`, `OutcomeAgreement`, `ImplementsLifecycle` | record, inventory and webhooks agree under cancels, deadlines, history clearing and target deletion; the service implements the abstract record |
| `deployment_live` | one deployment, all faults | `LiveRowHasOwner`, `EveryDeploymentSettles`, `GoroutinesReturn` | a live row has somebody who will settle it, and the deadline settles everything |
| `deployment_cancel` | one deployment | `SignalledIsNotFailed` | **violated**: a cancel during a hypervisor call ends as "failed" |
| `execution_faults` | one execution, all faults | `LiveRowHasOwner`, `ToldIsRecorded`, `OutcomeIsFinal`, `EveryExecutionSettles` | the record says what happened, once, and settles wherever the guest answers |
| `execution_limits` | two executions, one slot | `LimitsUnlessOvertaken` | the limits hold for whoever was not overtaken between count and insert |
| `execution_kill` | one execution | `CancelledJobIsKilled` | **violated**: the kill may come before the job has the name it is looked for by |
| `hub_replay` | two browsers, three messages | `NothingMissed`, `BrokenClientsLeave`, `StatusFreesBuffer` | nothing falls between replay and live output; broken connections leave; a final status frees the buffer |
| `inventory_safety` | one name, one pass, one request | `RuntimeWithinLifetime`, `OnlyMissingRemoved` | running time stays sane under outdated writes; a pass removes only what was missing |
| `factory_builds` | two builds of one family, users, schedule, failing writes, a hypervisor that may not answer, crashes | `FactoryTypeOK`, `ActiveRowHasOwner`, `VersionsDistinct`, `OneActivePerFamily`, `EngineComesFree` | rows, versions and the engine agree up to what was lost or overtaken; the engine comes free if the hypervisor answers |
| `front_door` | `MCFrontDoor` | `FrontTypeOK`, `AdminRemains`, `RevokedStayOut`, `NoExportOffRecord`, `EndsAreSeen`, `OneBucketForEver` | accounts, limiter, exports and the pages |
| `platform` | `MCPlatform` | `PlatformTypeOK`, `HistoryFaithful`, `NothingRunsUnpublished`, `NoSilentEvaluation`, `NeverRefused`, `MigratedOnce`, `TallyHolds`, `SnapshotsStayListed`, `SizesCatchUp`, `NoticesKept`, `ProxmoxKeepsContract`, `VSphereKeepsContract` | the nine components around deployments |
| `hardware_keys` | `MCHardware`, Proxmox | `KeysAreStable` | **violated**: a disk's key moves while somebody holds it |

Each property says in the comment above it which code it is about, and each has
a mutant in `PROJECT.json`: a plausible slip in a definition that makes TLC find
it violated.

**Bounds, and why they are enough.** Every bound is a constant that appears in a
guard.

- Deployments meet one another only where the history is cleared or a target is
  deleted, so two of them show every meeting; faults are left to the run of one.
- Executions share only the two limits: two of them and one slot.
- Three messages against a buffer of two: one is dropped, one more follows it.
- `VMInventory`: one name, two row ids, two instants, one pass and one request
  are the smallest instance in which a row is read by one, written by another,
  deleted, and its name taken over. The proofs cover the rest.
- `Factory`: two builds (of one family), two ISO images, two acts of users: a
  version is read before another build takes it, a build is cancelled while the next one starts;
  two searches for a finished template, so that one is not the last. `MCSpec` also bounds the
  faults: one status at a time is unwritten, and after a lost status or supersede there
  is one build or there is less for users to do (`Fewer`); of the searches for
  a template that is there only the last fails, since an earlier one costs but an attempt. The proofs are about `Spec`, without these bounds.
- `MCFrontDoor`: three users, one of them from the directory, so that two administrators
  may disable each other while a third logs in; two keys against a limit of one;
  four requests, two at a time; a burst of two, a map of two, three addresses; a queue of one;
  two pages of a deployment with a connection each (`crowd`), one page of a deployment
  or a build with three, one after the other (`return`), and a line before the end.
- `MCPlatform`: two actions, two scripts, four changes and a job; five rows at
  once, so that each chain of references of the schema exists entire; three
  migrations and three starts; two numbers for two Proxmox deployments and somebody
  else who takes numbers; three vSphere guests of one name, two of them on a
  standalone host; four machines, two workers, two server starts; three disk
  bays, two visitors, one pass; two people, two webhooks, one place.

Deadlock is checked in the runs of `Deployment` and in `execution_faults` and
`execution_kill`. In the others the finitely many ids, messages, changes or acts
end, and the system then rests.

**Fairness.** A goroutine that can take a step takes it; a timer that is set
fires; a call made with a context returns once the context has ended; a guest that is
not hung answers. In `Factory`: the steps of the engine's goroutine (`EngineStep`; what it
calls with the build's context, the checksum and Packer's plugins, returns by
the end of that context) and the two-hour limit. Never assumed: that a clone, a
script, Packer or a remote call ends by itself, that somebody cancels, clears or
connects, or that a broken connection is noticed without a write or a read.
`EveryExecutionSettles` excepts guests that hang while a second session is opened
(finding below). `EngineComesFree` excepts a transaction left open, and states as its
premise that the hypervisor answers (`WF_vars(HypervisorAnswers)`): the synchronisation
after a build is asked for under `context.Background()` (`service/factory.go:390`), so
without that premise it is false (finding below).

## 4. What the code says and does not keep

Three disagreements are shown by a run; the others were met while the modules were
written, and in each the module does what the code does. `PROJECT.json`
quotes the comment, message or document for each.

- **Deployments.** A cancel in a hypervisor call is recorded as a failure
  (`deploy.go:518`, run `deployment_cancel`), and told to its page as an error in any case
  (`DeployLive.tsx:86`). Clearing the history is refused as a whole as long as
  a tracked VM refers to one of the records (`sqlite.go:765`). A cancel that comes before
  the goroutine can be found writes the row while the pages are told that the
  deployment is complete (`deploy.go:564`); a page whose connection the hub has not yet
  entered misses what is told (`ws/hub.go:243`).
- **Executions.** A cancel while the job starts does not kill it (`ssh.go:312`,
  run `execution_kill`); the second session's opening is not bounded
  (`ssh.go:330`); only a final status frees an output buffer (`execution_hub.go:73`).
- **Inventory and hardware.** The running time is computed from a row that may have
  been overwritten (`vm.go:168`); disk keys of Proxmox are positions
  (`disk.go:45`, run `hardware_keys`); two requests choose one slot for an adapter
  (`nic.go:242`); sizes stay wrong if the older of two passes writes last
  (`vm.go:829`).
- **Factory and templates.** A schedule on updates keeps comparing the
  superseded template (`service/factory.go:446`); a version is taken twice by builds
  that read it early (`factory.go:143`), and when such a build ends under the name of an
  older version, the family may have two active templates (`sqlite.go:1788`), as it has after a
  supersede that failed and was logged (`service/factory.go:449`); the engine waits for the
  hypervisor without a deadline, out of reach of a cancel (`service/factory.go:390`); a cancel
  may overwrite the end of a build it takes for an orphan (`service/factory.go:204`); one build for all targets, not one per
  target (`handlers/factory.go:124`); retention, target deletion and
  synchronisation are refused by references (`sqlite.go:1966`, `:282`,
  `target.go:138`); the user of a build that fails is not told
  (`notification.go:159`); a build's socket does not echo its subprotocol
  (`factory/progress.go:205`).
- **Accounts.** The last administrator and the limit on keys are checked in another
  statement than the one that writes (`settings.go:485`, `api_keys.go:121`). Sessions outlive a
  sign-out or a disable whose token version could not be written (`settings.go:510`).
- **Catalogue.** A job may overwrite what was published meanwhile
  (`ai_draft.go:200`); an update keeps the old review (`handlers/actions.go:299`).
- **Providers.** The roll-back of a clone uses the context whose end caused it
  (`client.go:1935`); the snippet with the initial settings is named after the VM
  (`client.go:580`).
- **Others.** The steps in Go of a migration run after its transaction
  (`migrations.go:482`); each connection test restarts the ladder of reminders
  (`target_evaluation.go:40`); the audit queue is not drained at the end
  (`audit.go:52`); renaming a webhook may turn it on again (`webhooks.go:188`).

Some weak points contradict nothing the repository says and are in the modules all
the same: a clone that a cancel leaves behind, rows that stay live after a
restart, a limit on executions exceeded by requests that count together, a build's row
that stays live because its last status could not be written. The
properties are stated so that they except exactly these (`disturbed`,
`overtaken`, `spared`, `parted`, `unwritten`, `cut`, `owed`), and nothing more.

## 5. What is proved

The proofs hold for every value of the constants that satisfies the module's named
`ASSUME`s. One other assumption is made, in the theorems' own statements: the two
about Proxmox that need it assume `OwnNames`, that no two of the deployments considered
share a name. The provider names the file with a machine's user data after the
machine (`client.go:580`), so two deployments of one name would share it; the run gives
each deployment its own name for the same reason.

Each proof has the same form: an inductive invariant, one lemma per action, and
the properties as its consequences.

| Module | Theorems | Inductive argument |
|---|---|---|
| `DeploymentProofs` | `TypeCorrect`, `Invariance`, `LiveRowsHaveOwners`, `RunningIsCancellable`, `RecordsAreKept`, `CompletedAreTracked`, `WebhooksFollowInventory`, `OutcomesAgree`, `RefinesLifecycle` | for each deployment, `Sound(d)`: what row, VM row, event and map may be at each `pc`, weakened by `disturbed` and `raced`. The properties alone are not inductive: they look at the end of an exit, and the exit's steps have to be known. The refinement needs it too: a write is a step of the abstract record only because of where the goroutine stands |
| `ExecutionProofs` | `ExecutionTypeCorrect`, `ExecutionInvariance`, `LiveExecutionsHaveOwners`, `RunningExecutionsAreCancellable`, `CompletedExecutionsRan`, `EndsToldAreRecorded`, `OutcomesAreFinal`, `LimitsHold` | the same, and for the limits: whoever has counted and has not been overtaken since would count the same now |
| `ExecutionHubProofs` | `HubSound`, `HubTypeCorrect`, `NothingIsMissed` | what was kept in the buffer, what a browser's copy contains, and what it has seen together have no hole |
| `VMInventoryProofs` | `InventorySound`, `InventoryTypeCorrect`, `RuntimeIsBounded`, `RunningHasStart`, `OrphansWereMissing` | the bookkeeping is sound on each row *and on each copy of a row in an observer's hands*, and stays so as time passes; so an outdated write is wrong but bounded |
| `FactoryProofs` | `FactoryInvariant`, `FactoryTypes`, `BuildsHaveOwners`, `FamilyVersionsDistinct`, `FamilyHasOneActive`, `LinkedTemplatesStay` | a template made by a build and the build refer to each other (`Paired`), and a build that was not overtaken carries a higher version than all of its family (`Ahead`). From the first, no deletion can take a linked template, so the highest version of a family never falls; from both, what a build supersedes is everything that was active. A status may fail to be written at any point, so what the row says is only tied to where the engine stands for builds not in `unwritten`; a completion may give up at each of its statements, and whatever it has done by then keeps both facts |
| `FrontDoorProofs` | `AccessInvariant`, `AccessTypes`, `ServerKeepsAnAdmin`, `RevokedSessionsStayOut`; `LimitInvariance`, `ForgettingIsFree`; `VaultInvariant`, `VaultTypes`, `ExportsAreRecorded`; `ProgressInvariant`, `ProgressTypes`, `EndsReachPages`; `FrontComposes`, `FrontTypes` | what a request knows when it enters still holds when it writes, or somebody overtook it, and a session is at most at its account's version, a revoked one below it or spared; a limiter's entry holds at least a token for each tick since its use, so what is old enough to be forgotten is full; the entry is filed before the file is sent; an open connection is at most one message behind, which the send under way owes it; an end that a page has, or is about to be told, is the record's, or the record lost it |
| `MachineProofs` | `BulkInvariance`, `BulkTallyHolds`, `BulkTypes`; `ProxmoxInvariant`, `ProxmoxTypes`, `ProxmoxImplements`; `VSphereInvariant`, `VSphereTypes`, `VSphereImplements`; `HardwareInvariant`, `HardwareTypes`, `SnapshotsInTheList`, `SizesAreRight` | bulk: the counters count the machines that have passed the mutex, the row has the counters whenever nobody holds it, and in sequence no machine begins before the one before it is done. Providers: whose settings, disk and user data a machine has at each position of its deployment (`Furnished`, `GuestInv`); every step of a provider is then a step of `DeployContract` or leaves its variables alone, since DeployVM answers "ok" only where the machine is whole, "partial" where it is configured, and reports as removed only what is gone. Hardware: the sizes on the row are the hypervisor's, or a pass, a visitor or a timer is about to correct them, or something is owed |
| `PlatformProofs` | `CatalogueInvariance`, `CatalogueTypes`, `HistoryIsFaithful`, `NothingUnpublishedRuns`; `MigrationsInvariance`, `MigrationsTypes`, `MigrationsHappenOnce`; `SchemaInvariant`, `SchemaTypes`, `DeletionsGoThrough`; `NoticesInvariant`, `NoticesTypes`, `NoticesAreKept`; `RemindInvariant`, `RemindTypes`, `RemindersGoOut`; `PlatformComposes`, `PlatformTypes` | every change of an action stays, appears, advances by one version or goes, and a job saves into what it saw to be a draft; the recorded versions are an initial stretch, and the runner passes over exactly those; references are those the tables allow, so a deletion, followed statement by statement, leaves none behind; an announcement past its notices has left one for everybody it addresses; what a row of an evaluation, or a copy of it, says was sent has been sent, and is not behind the day |

`FrontComposes` and `PlatformComposes` show that the specifications the runs
`front_door` and `platform` check imply those of their components, so every theorem
about a component is one about the run's specification too.

Three arguments are less direct than the rest.

- *Version numbers* (`CatalogueTypes`). That a version stays within `Versions` is not
  inductive: a request that has been counted may write later, and another
  may be counted in between. Each open request or job can make one version at most, so
  the number of open ones (`Load`) is kept in the invariant: an action's version and
  the load together are at most one more than the requests and jobs so far (`Paid`).
- *Sums and maxima* (`Hardware`, `Schema`, `Factory`, `Proxmox`). The library's
  induction theorems cannot be used (below), so what a sum, a maximum or a least free
  number is comes from well-foundedness instead: a set of counterexamples that is
  not empty would have a least member, and that is refuted.
- *One active template* (`FamilyHasOneActive`). A build that was handed over with a
  version read too early may link the row of an older version and make it active
  again, after the newer one was activated; so the property excepts templates
  of such builds (`overtaken`), and `FamilyVersionsDistinct` does the same. A supersede
  that never took place (`cut`) is excepted until the next one makes up for it.

Some theorems state more than the runs' properties: that what runs can be cancelled
(`RunningIsCancellable`, `RunningExecutionsAreCancellable`), that a tracked VM's
record is kept (`RecordsAreKept`), that completed executions ran
(`CompletedExecutionsRan`), that a running VM has a start (`RunningHasStart`), that
linked templates stay (`LinkedTemplatesStay`).

**Model-checked only.** Liveness (`EveryDeploymentSettles`, `GoroutinesReturn`,
`EveryExecutionSettles`, `BrokenClientsLeave`, `StatusFreesBuffer`,
`EngineComesFree`): it rests on fairness and `ENABLED`, which TLAPS does not
reason about. `SignalledIsNotFailed`, `CancelledJobIsKilled` and `KeysAreStable` do
not hold of the code; their runs show it. Every other property a run checks is
the statement of a theorem. Out of reach as well is induction over data: the
library's induction theorems take an operator as a parameter, which none of the
provers used can instantiate.

## 6. Not modelled, and what is left

Not modelled, because no state that anything relies on is kept there or because it
is data: validation of requests; generated documents (cloud-init, clone
specifications, Packer templates, network settings); wording of logs and messages; the
linter, prompts, redaction and the model; hashing, tokens, encryption and LDAP
as libraries; settings and preferences; limits on bodies and headers;
inventories of templates, datastores and networks, consoles, host updates;
plain reads; the wiring of the server; the command line client and all pages but two.

Left out of a component that is modelled, and worth adding:

- host keys: two first connections to one VM each store the key they see
  (`ssh.go:89`), and a row taken over for a reused number keeps the old one
  (`sqlite.go:1097`);
- flow control of an SSH session (`ssh.go:216` reads the error stream after the
  output) and the time a write to a slow browser takes (`execution_hub.go:100`);
- edits of a target's address and login while it is in use, the ignore list of
  the inventory, schedules by interval;
- a restart of the server under a page that watches.

Next, in this order: `Deployment` and `VMInventory` on the same rows, where a pass may
meet a VM between its clone and its registration, with their invariants joined;
that the failing properties hold under the condition their runs show to be
missing (a cancel outside a hypervisor call, a disk added while nobody holds a
key); host keys.
