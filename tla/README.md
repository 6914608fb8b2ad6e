# TLA+ models of FluffyFoundation (ShuGu)

ShuGu drives many phones and displays from a browser: a NestJS + socket.io server, a
manager application (SvelteKit, with a node graph editor), a client application for phones, a
display application, and the packages they share. This directory holds TLA+ modules of the
parts in which several of these act at once, the TLC configurations that check them on small
instances, and TLAPS proofs of what they promise for every instance. Paths below are relative
to `src/`.

1. [The system](#1-the-system) — components, state, operations, interactions, hard behaviours
2. [The modules](#2-the-modules) — what each models and how it corresponds to the code
3. [Properties and runs](#3-properties-and-runs) — what is checked, on which bounds
4. [Fairness](#4-fairness)
5. [Proofs](#5-proofs)
6. [Disagreements found](#6-disagreements-found)
7. [What is left out](#7-what-is-left-out)
8. [Plan](#8-plan)

`PROJECT.json` names, for every definition that models code, the lines it models; for every
property a seeded fault (an operator with the comment "Seeded fault" in the module) that a plausible bug would be
and that violates it; and the hazards of the code, each with its line.

Run a model with `tlc -config MCClientRegistry_identity.cfg MCClientRegistry` and check the
proofs with `tlapm ClientRegistryProofs.tla`.

## 1. The system

### The connections

```
 client / display tab --- socket --- server --- socket --- manager page
   ClientSDK                         EventsGateway           ManagerSDK
   node executor                     ClientRegistryService   node engine, node canvas
   multimedia-core                   MessageRouterService    display bridge, serial and
                                     SemanticGraphAuthority  printer bridges
                                     AiAgentRuntime, assets
```

Every message goes through the server, on one socket.io connection per tab or page: first in
first out in each direction, and what is under way is lost when the connection is. The server
is one process (`apps/server/src/bootstrap/state-strategy.ts:83` refuses Redis in production) with
one event loop: a handler runs to its first `await` without interruption. Only the semantic
graph, the assets and the settings survive a restart; presence, ownership and held messages do
not. A manager page and its local display window also talk directly, over a message port.

### Components

| Component | State | Operations | Hard behaviours | What makes it correct | Module |
|---|---|---|---|---|---|
| **Client registry and gateway** (`apps/server/src/client-registry`, `events`) | records by client id, socket → id map, grace timers, managers, selection | register, take over, disconnect, grace expiry, manager connect, select | a tab reconnects before the server notices the old socket; duplicated tabs share an identity; confirmations are lost; restarts | one record per tab, maps agree, no live client purged, ghosts vanish, managers and sensors follow | `ClientRegistry` |
| **Control routing** (`apps/server/src/message-router`, `packages/protocol/src/delivery-contract.ts`) | held latest-state values, replay timers, last broadcast times | route control, batch, plugin and media messages; replay; presence and semantic broadcasts | timers run late, the audience crosses the throttling threshold, batches pass held values | values of a key arrive in order, the last one always does, none twice | `RouterDelivery`, `LatestValue` |
| **Manager delivery queue** (`packages/sdk-manager/src/delivery-queue.ts`) | microtask queue per target, held values, timers | send, coalesce, throttle, flush, replay, disconnect | coalescing within a task, socket lost between send and flush, late timers | reliable and scheduled controls are neither dropped nor altered, values in order | `ManagerDeliveryQueue` |
| **Semantic graph authority** (`apps/server/src/semantic`) | graph and revision, the file | dispatch a command, snapshot, restart | memory changes before the file is written, writes fail | what was confirmed survives a restart | `SemanticSync` |
| **Manager semantic sync** (`apps/manager/src/lib/semantic`, `.../node-canvas/adapters/semantic-command-adapter.ts`) | pending commands, latest revision, migration key, the engine's graph | optimistic edits, snapshots, results, expiry, import of a local project | refusals, reconnects, late snapshots, two importers | every manager ends up showing the server's graph | `SemanticSync` |
| **AI agent runtime and orchestrator** (`apps/server/src/ai`) | the run, one pending trigger, the screenshot waiter | enqueue, drain, turns over AI spaces, plan, dry run, repair, idle tick | supersession between turns, idle against user triggers, managers edit while the model thinks | no trigger is lost, a plan is applied whole, what was applied is broadcast | `AiAgentRuntime`, `SemanticSync` |
| **Group ownership and command policy** (`client-registry/group-ownership-registry.ts`, `events/*policy*.ts`) | owner, owners before, archived flag per group | reclaim, release, archive, restore, authorise a command | interleaved reclaims by managers and services | ownership leads back to the server, open groups stay open | `GroupOwnership` |
| **Semantic command bus** (`packages/node-core/src/semantic-command-bus.ts`, `graph-state/history.ts`; `packages/ai-core`) | graph, groups, partitions, proposals, history, rollback tokens | commands, two rollbacks, executing and undoing a proposal | old tokens, unrecorded revisions, proposals applied in part | a rollback restores what it names, a stale expectation is refused | `SemanticBus` |
| **Node runtime and engine** (`packages/node-core/src/runtime.ts`, `apps/manager/src/lib/nodes/engine.ts`) | graph, caches of what sinks were handed, enabled state, running flag | load, start, stop, clear, tick, edit, disable, offload | hooks are the engine's part, loading clears caches, a tick has a budget | effects end with their cause, sinks follow their values | `NodeRuntime` |
| **Node executor of a client** (`packages/sdk-client/src/node-executor.ts`) | deployed loop, overrides, running flag | deploy, start, stop, remove, override, report | controls and reports are lost with the connection, overrides expire | obeys what arrives; records elsewhere are true | `NodeExecutor` |
| **Patch runtime of the node canvas** (`apps/manager/.../node-canvas/runtime`) | records of deployments, compiled graph, plan, timers | plan, reconcile, deploy, stop, override, commit | nothing acknowledges; triggers, caches, commits that outlive a deployment | the selected clients end up running the graph as it is | `PatchDeployment` |
| **Display bridge, transport, display app** (`apps/manager/src/lib/display`, `apps/display/src/lib/stores`) | ports offered and taken, readiness, route | open, pair with retries, choose a route, fall back | retries race a slow answer, fallback races pairing | a control reaches a display that listens | `DisplayPairing` |
| **multimedia-core** (`packages/multimedia-core`) | manifest, preload status, cached assets, media engine | preload, prioritise, abort, retry, play | concurrent workers, an aborted run's late answers | status describes the newest manifest | `AssetPreload` |
| **Client app, and the stores of a manager it feeds** (`apps/client/src/lib/stores/client`, `apps/manager/src/lib/stores`) | last reports, permissions; what a manager shows | report on change and on every update of the SDK; apply, forget | reports lost with a connection, managers that open later, restarts | a manager shows what the client is | `ReadinessReports` |
| **Arduino serial bridge** (`apps/manager/src/lib/hardware/arduino-uno`) | active pins, write chain, connection | connect, tick, write, disconnect | a rejected write, a tick during disconnect, a connect that fails | pins follow the graph and are off after disconnect | `SerialBridge` |
| **Printing** (`apps/manager/src/lib/hardware/printer`, `apps/server/src/printer`) | printed signatures, submit chain | derive jobs, submit, change server | refused jobs, another server | each change is printed once | `PrintQueue` |
| **Assets** (`apps/server/src/assets`) | index, mutation and persist chains, files | upload, deduplicate, pin, discard, delete | capacity, stale references, failed writes, a stop between two steps | no asset without its file, only spare assets discarded | `AssetStore` |
| **Protocol** (`packages/protocol/src`) | clock offset estimate | validate, target, synchronise time | — | pure | see section 7 |
| **AI memory and prompts, login, image / speech / geo proxies, plugins, effects, ui-kit, cli** | none shared, or caches | — | — | — | see section 7 |

### Interactions

* A tab's socket connects (`ClientSDK.connect`) → `EventsGateway.handleConnection` →
  `ClientRegistryService.registerConnection` → the router confirms to the tab and broadcasts
  `clientJoined` and the client list to all managers → `ManagerSDK` patches its state.
* A manager's control → `ManagerDeliveryQueue` (a microtask later) → gateway → policy →
  `MessageRouterService.routeControlMessage` → the sockets of the target, now or from a replay timer.
* A graph edit → the engine at once, and a semantic command → the authority → file → a result to the
  sender and a snapshot to every manager. The AI runtime calls the same authority and the
  gateway broadcasts its snapshots at the end of a run.
* The patch runtime exports a part of the graph as controls to the executors of the selected clients, and
  knows of them only what the list of clients and their reports tell it.
* A client's SDK tells its page of every update of its state; the page repeats its reports; the gateway keeps the
  permissions, passes readiness on, and the stores of each manager apply both.

## 2. The modules

| Module | Models |
|---|---|
| `ClientRegistry`, `ClientRegistryProofs` | registry, gateway connection handlers, presence broadcasts, the registration half of ClientSDK, the client list of ManagerSDK |
| `LatestValue` | abstract specification: what a latest-state key promises its audience |
| `RouterDelivery`, `RouterDeliveryProofs` | routing of latest-state controls and batches on the server; implements `LatestValue` |
| `ManagerDeliveryQueue`, `ManagerDeliveryQueueProofs` | the queue of the manager's SDK |
| `SemanticSync`, `SemanticSyncProofs` | authority, its file, the AI runs that edit the graph, and the managers' copies |
| `NodeExecutor` | the executor of a client and the connection by which it is controlled |
| `PatchDeployment`, `PatchDeploymentProofs` | the patch runtime of a manager; extends `NodeExecutor`, its other end |
| `AiAgentRuntime` | triggers, turns and plans of the AI agent |
| `GroupOwnership` | owners of groups and the commands that pass |
| `SemanticBus` | a command bus with history, tokens, rollbacks and proposals |
| `NodeRuntime` | the node runtime under the engine of a manager |
| `AssetStore`, `AssetPreload` | the assets of the server; a client's preload of them |
| `ReadinessReports` | what a client reports of itself and what managers show of it |
| `SerialBridge`, `PrintQueue`, `DisplayPairing` | the manager's hardware and its display |
| `ServerComponentsProofs` | theorems about `AiAgentRuntime`, `GroupOwnership`, `AssetStore` and `SemanticBus` |
| `PageComponentsProofs` | theorems about `AssetPreload`, `NodeRuntime`, `PrintQueue`, `SerialBridge`, `DisplayPairing` and `ReadinessReports` |
| `SequenceLemmas` | lemmas about sequences and folds that the proofs share |
| `MC*` | instances for TLC: identities of tabs, symmetry sets, and the bench of components |

Each module states its properties at its end, and next to the operators they replace its
*seeded faults*: the plausible bugs that its properties are meant to catch.

### ClientRegistry

`clients`, `idOf`, `managers` and `graceTimers` are the maps of `ClientRegistryService`; a record is its
socket, instance, `connected` and `selected`. An id `<<device, n>>` is a device id with the
suffix `allocateClientId` gave it, `<<"c", n>>` a generated one. `inbox[s]` is what was emitted on a socket and not
read. A connection is *open*, *lost* (cut, the server has not noticed) or *closed* (the
server is done with it; the remote end has yet to notice).

* `ConnectNew`, `TakeOver`: `registerConnection`, with the confirmation and the broadcasts that follow;
  a takeover moves record and selection to the new socket and closes the old one.
* `DisconnectClient`, `DisconnectManager`, `DisconnectUnmapped`: the three ways through
  `unregisterBySocketId`; the last is the late event of a socket that was replaced.
* `GraceExpires`: `purgeClient` from its timer. Time is abstracted: an armed timer may fire at any moment, which
  covers every length of the grace period.
* `ConnectManager`, `SelectClients`: the manager's half. `thisMs` is the id generated in the current
  millisecond: `generateManagerId` has that resolution, so two managers can be given one id, and the model
  keeps that possible.
* `Reload`, `NoticeClosed`, `ReceiveTab`, `NoticeManagerClosed`, `ReceiveManager`: the ends.
  `stored` is the client id in the tab's session storage and socket handshake.
* `Cut`, `ServerRestart`: failures.

### RouterDelivery and LatestValue

A key is a target and an action; its values are numbered as they are routed. `age` is the time since the last
broadcast, `wait` the time left to a due time, both in units of which `Interval` make the
minimal broadcast interval. `RouteLatestState` is `routeControlMessage` with both of its branches, and with the flush of
everything due that every routed control ends with; `RouteBatch` is a control batch, which the delivery
contract classifies as reliable and which therefore passes the throttle; `ReplayTimer` the timer's
callback. `AudienceChanges` stands for joins, expiries and group changes.
`steady` is chosen at the start. A steady server runs due timers before the next message, is sent no batches, and its
audiences are large or empty; a server that is not steady is free of all three. `LatestValue` says that the audience is given
an increasing selection of the values accepted; `RouterDelivery` implements it as long as the server is steady. A server that is
not may send an older value last, which no document rules out.

### ManagerDeliveryQueue

`SendLatest` and `SendPlain` are `sendControl` with its paths: held back, throttled and due, or
queued; `AddItem` and `Merge` are the coalescing; `FlushQueuedControls` the microtask, which runs
before any other task (`TaskOver`), so only more sends of the same task come before it. Items
with an `executeAt` carry `at`. `Disconnect` is `ManagerSDK.disconnect`, and may share a task
with sends. `disturbed` is a history variable: it remembers that a timer was late or that the
number of clients fell under a held value, the two ways the code can send an older value last.

### SemanticSync

A graph maps an entity (node or connection) to the number of the command that last wrote it: two graphs
are equal exactly when the same commands took effect last, so parameters and types of nodes need
no detail. `memory` and `disk` are the authority's graph and its file. `Serve` is a command with result
and broadcast; `ServeFails` the same with a failing write, after which memory is ahead of the file
and nobody has been told; `ServerRestart` goes back to the file.
`AiTurn`, `AiRunEnds`, `AiSuperseded`, `AiFails` are an AI run over several
spaces: each turn applies a command, the snapshots are broadcast only at the end, and not at all
when a trigger superseded the run. `Edit` is an optimistic edit; `ReceiveSnapshot`, `ReceiveResult`, `Expire`
are the sync's callbacks, `Overlay` lays what is pending over a snapshot. An import is a `replace` command sent when a snapshot
shows an empty graph (`ImportsAt`).
`gap` is a history variable: whether the newest revision was never broadcast, and why.

Abstractions: a turn applies one command (several of a turn are broadcast as one snapshot); a
user's import of a graph file is an untracked replace and is left out; a command's request id is its kind and node, as in the
code, so two updates of one node have one id.

### NodeExecutor and PatchDeployment

`exec[c]` is the executor of client `c`: the loop it holds, the version of its payload, the value of one field of it, an override of
that field and whether it runs. `link` and `server` are the connection as the client and as the server see it, `down` and `up` what is on
its way. `Obey…` are the methods behind `handlePluginControl`, each answered by `Report`; `OverrideExpires` is an override whose
time to live is over. `ClientDrops`, `ServerNotices` and `ClientReturns` are the connection; the client comes back reloaded or not.

`graph` is what the patch runtime plans from: whether the patch has a root, the clients it goes to, and a version that every change of
its topology raises. `records` is `deployedPatchByClientId`, with the connection time as revision. `ReconcilePatchDeployment` is the
whole of `reconcilePatchDeployment`: it plans, stops what is no longer wanted, skips what is up to date and deploys the rest.
It is called by `PatchDeployTimerFires`, by `Tick` when the signature of plan and payload has changed, and by
`SetGate`/`SetRunning`; `HearClients` schedules it when the *set* of connected clients changes. `EditTopology` is an edit here and `ApplySnapshot` one
that comes with a snapshot of the server; `planned` is the compiled graph, which only the first invalidates. `EditLive` sends an override and
arms a commit; `CommitFires` sets the value for good.

### AiAgentRuntime

`aiRun` is the run, `aiPending` the one trigger that waits, `aiShot` the screenshot an idle tick asked for. `Enqueue` is the decision between the
two with supersession; `Trigger`, `RunIdleTick`, `HandleClientScreenshot` and `ScreenshotTimesOut` lead to it. A turn begins
with the snapshot taken for the event; `CompletionArrives` is the model's answer: a plan, tried on a copy (`DryRun`), refused
(`PlanFails`, with a repair or the next turn) or applied command by command to the graph of now (`PlanPasses`). `DrainNext`
ends a run. `ManagerEdits` change the graph between any two of them. What a language model answers is any plan of one or two commands.

### GroupOwnership, SemanticBus, NodeRuntime

A group's entry is its `owner` and the owners `below` it. `Allowed` is the gateway's policy, `HandleMessage` a command that passes it, with
what `After` makes of the entry.

`bus` is the state of a command bus: revision, nodes, the owner of a group, one partition with its bound revision (`Bound`), and custom
definitions. `busTokens` keep the state before a command, `busHistory` the states that differ in the semantic hash, `busSeen` (a history
variable) the snapshots that were handed out. `Dispatch` validates and applies one command; `Rollback` and `RollbackToRevision` make
new revisions of old states; `ExecuteProposal` dry-runs the commands of a proposal one by one, applies them until one fails,
and keeps the token of the first.

`rtShown[n]` is what sink `n` has started outside. `rtSunk` and the other caches are those by which a tick knows what changed.
`SinkPass` goes through the sinks in execution order within the budget of one tick. `AddNode`, `RemoveConnection`, `LoadGraph`
and the rest are the engine's operations; they load the graph anew (`LoadRuntime`, which runs no hook) and run the
disable hooks of `ToDisable`.

### AssetStore, AssetPreload, ReadinessReports

`AssetStore` keeps `assets` (the index), `assetSaved` (the index on disk) and `assetFiles`; mutations wait in a chain and go through
one await after the other: making room (`EnsureCapacity`, the oldest of the candidates at a time), moving the file, changing the index, writing it, unlinking. A write may
fail, and the server may stop between any two steps.

`AssetPreload` keeps the state that subscribers see and the runs so far, the aborted ones included, each with its workers. A worker
looks whether its run is aborted at each round only, and reports without looking. `PrioritizeFetch` pauses workers, who resume when it
is over. A reference that names no asset counts as loaded at once.

`ReadinessReports` has the page of a client (`repPage`, and what it last reported on a change), a record on the server that keeps the
permissions, and what each manager shows (`repView`). `Registered` and `Pong` are updates of the state of the SDK, at which everything is
reported again; `PreloadChanges` and `PermissionsChange` the subscriptions, which report what is new while connected.
`ClientLoses`, `ManagerLoses`, `ServerRestarts`, `ClientExpires` and reloads lose what is under way, or what was known.

### SerialBridge, PrintQueue, DisplayPairing

The chain of writes is a sequence, and a disconnect a count beside it (`serAwaits`): it resets the pins, awaits the commands that are in the chain by then, and
closes the port; with no board it is over at once. Connecting is two steps, since the user chooses a port in between (`serChooser`),
and the second closes what is connected when it fails. A tick and a change of the graph flush in the step in which they happen. A write that fails
leaves the chain rejected (`serBroken`). `serLeft` marks the exceptions of `PinsFollow`. `PrintQueue` keeps the signatures `prtPrinted` and the chain of jobs;
`prtPaper` is what came out. `DisplayPairing` numbers the ports a manager offers; the display takes the first offer it hears
(`pairTaken`), `HearReady` is its answer on that port. Offers, answers and controls are in `pairFlight` and arrive in any order
between ports, in order on one.

## 3. Properties and runs

| Property | Says | Run |
|---|---|---|
| `SocketsMatchRecords` | a record counts as connected exactly when its socket maps back to it | `registry_identity` |
| `TimersMatchGrace` | the armed grace timers are those of the disconnected records | `registry_identity` |
| `RegistryInv` | the inductive invariant of the proof holds | `registry_identity` |
| `NoLiveClientPurged` | no step but a restart drops a record whose connection is open | `registry_identity` |
| `SensorsFollowSelection` | a tab that has read its stream senses exactly when selected | `registry_selection` |
| `ViewsConverge` | a manager that has read its stream shows the registry | `registry_selection` |
| `GhostsVanish` | a record whose connection is gone is taken over or removed | `registry_selection` |
| `NoDuplicates` | one record per tab — *violated* | `registry_duplicates` |
| `DeliversInOrder` | a steady server implements `LatestValue` | `router_replay` |
| `NoDeadPending`, `EmittedOnce` | whatever the timing, held values and timers correspond and no value goes out twice | `router_replay` |
| `HeldIsReplayed`, `LastValueArrives` | no value stays held; on a steady server the last one arrives without a later command | `router_replay` |
| `NoDeadPending`, `FlushIsScheduled`, `InOrder`, `HeldIsReplayed` | the same for the manager's queue; what is queued has a microtask | `queue_any` |
| `ReliableKept` | reliable controls are neither lost, repeated nor reordered | `queue_any` |
| `ScheduledKept` | a scheduled control is not altered by later sends — *violated* | `queue_scheduled` |
| `TypeOK` | the types of the copies, commands and messages | `sync_mirror` |
| `Mirrored` | at rest every manager shows the server's graph, unless the newest revision was never broadcast | `sync_mirror` |
| `PendingIsUnderWay` | a command is pending only while it or its result is under way | `sync_mirror` |
| `ConfirmedIsDurable` | what was confirmed is in the file | `sync_mirror` |
| `MirroredAfterAi` | `Mirrored` also after a superseded run — *violated* | `sync_ai` |
| `ImportIntoEmpty` | an import only ever changes an empty graph — *violated* | `sync_import` |
| `RecordsAreTrue` | a record made for the present connection of a client is true of it | `patch_deploy` |
| `LiveValueArrives` | the newest value of a field arrives, by deployment or override | `patch_deploy` |
| `SettledAtRest` | at rest a client the graph selects runs the graph as it is | `patch_deploy` |
| `WithdrawnStops` | a client without a record has stopped, unless it lost its connection meanwhile | `patch_deploy` |
| `StructureDeploys` | a root that a snapshot brings is deployed as well — *violated* | `patch_structure` |
| `NewestIsServed` | the newest trigger has run, runs, or waits behind a run | `components` |
| `PartialOnlyWhenStale` | a plan is applied in part only if the graph changed since it was tried | `components` |
| `AssetsHaveFiles` | wherever the server stops, an indexed asset has its file | `components` |
| `DiscardsSpareAssets` | room is made only of generated assets that nothing pins or refers to | `components` |
| `ReadyIsTrue`, `PreloadSettles` | a manifest reported ready is in the cache; a core at rest reports the end of its last run | `components` |
| `ManagersInformed` | once everything is read a manager shows the client's permissions, and its readiness since the last repetition | `components` |
| `PinsFollow` | the board shows the active pins, and none once it is closed, the named exceptions apart | `components` |
| `PrintsChanges` | each change is printed once it can be, and not twice | `components` |
| `ControlsReach` | a control sent to a display that listens reaches it | `components` |
| `GroupsReturn` | every group leads back to the server, and groups open to all managers are taken by none | `components` |
| `ExpectedIsFresh`, `RollbackRestores` | a named revision that passes is the one that was seen; a rollback restores what it names | `components` |
| `EffectsEnd`, `SinksFollow` | what a sink started ends with its cause; a graph left alone hands every sink its value within as many ticks as there are sinks | `components` |

**The bench.** The components of the run `components` share no state. `MCComponents` puts them side by side, and an initial choice, the `subject`,
says which one moves in a behaviour while the others rest: their state spaces add up to some 350,000 where a composition
would multiply them, and one run checks all of them. Nothing is lost by it, as no action of one reads a variable of another. Components that do
interact are composed in one state space: registry and ends, authority and managers, patch runtime and executors.

### Bounds, and why they are enough

* `registry_identity`: three tabs of one browser and three sockets, two tabs duplicated (one instance id), one suffix
  and one generated id. Three tabs exhaust the suffixes and reach the generated id; a socket whose ends have both forgotten it
  is used again, so three sockets are three *at once*: one tab's old and new, and another tab's. `MaxInbox` 3
  holds a confirmation, a sensor state and a selection. One restart suffices, as it resets the registry.
* `registry_selection`: one tab and one manager on three sockets, so that either may be between two connections while the other
  acts; streams hold a notice and a list. No symmetry, since `GhostsVanish` is temporal.
* `router_replay`: one target with two actions, so that a flush for one delivers for the other and a batch carries a held key and one
  that is not; values 1 to 3: one sent, one held, one that replaces it; audiences of 0, 1 and 2 with threshold 1: gone, small,
  large.
* `queue_any`: one target, a throttled latest-state action and a reliable one, three values each, scheduled or not, and every
  point at which the socket drops. Two targets exceed a million states; what they would add, the
  grouping by target in a flush, is recorded among the hazards.
* `sync_mirror`: two managers, both with a project to import; two entities; two edits among managers and AI, and one
  outage (a connection or the server), with failing writes. Two edits are the least with which an
  edit is refused because of another's, with which a result and a broadcast overtake each other, and with which a late
  snapshot of a run is older than what is shown. The two imports come on top of the edits. About two million states.
* `patch_deploy`: two clients, one without the capability the graph requires, so that a plan has a client it must pass over; two edits
  and one lost connection, reloaded or not. Two edits are what it takes to change a graph, or take it back, while the deployment of the first is
  on its way; live values are numbered by the edits.
* `components`: three triggers (one runs, one waits, one replaces or supersedes) over two AI spaces with one repair and one edit of a
  manager; four mutations with three contents, up to renaming, on a store of two assets, so that an upload finds two candidates for discarding while another mutation waits; two runs of two workers over
  manifests of up to two assets and a reference that names none, one of them bad; two pins, two changes and four openings and disconnects; two print nodes, three changes and two
  configurations; two retries, one reconnection by hand and one reload; two groups, two managers, one service and two
  owners on top of the server; four revisions of a bus; two sinks in order with three values, one of them above the budget;
  one manager that opens twice, two changes of a page and two losses.

When edits and outages are used up and everything is read, an instance of `SemanticSync`, of `PatchDeployment` and of the components is at rest, so deadlock is
not checked in their runs; it is in all others.

`MaxValue`, `MaxCommands`, `MaxEdits`, `MaxOutages`, `MaxDrops`, `MaxRestarts`, `MaxInbox`, and the constants of the components that are marked as bounds,
are bounds of the models and of nothing in the code. An action that would exceed `MaxInbox` or `RepBacklog` is not taken: sockets in
the program have buffers without a limit of this kind.

## 4. Fairness

* `ClientRegistry!FairSpec`: the server notices a cut connection (socket.io's ping timeout), an armed timer fires, and an end
  with a message or a closed socket handles it. Nothing makes a page connect, a network fail or an operator select.
* `RouterDelivery!FairSpec`: time passes and a due timer's callback runs, as `setTimeout` promises, at some time
  at or after its delay. No fairness for messages: the last value arrives although no later command comes.
* `ManagerDeliveryQueue!FairSpec`: the same for the browser, and the microtask runs.

All of it is weak fairness. The other modules have safety properties only. Where something must happen at last, they speak about states at rest
(`Mirrored`, `SettledAtRest`, `PreloadSettles`, `PinsFollow`, `PrintsChanges`): nothing is left that could happen by itself, and the state is
as it should be. `SinksFollow` counts ticks instead, which bounds the time as well.

## 5. Proofs

TLAPS proves, for every value of the constants that meets the named assumptions:

| Module | Theorem | Says |
|---|---|---|
| `ClientRegistryProofs` | `RegistryInvariant` | `Spec => []RegistryInv` |
| | `TypeCorrect`, `MapsAgree`, `TimersAgree` | its parts: `TypeOK`, `SocketsMatchRecords`, `TimersMatchGrace` |
| | `LiveClientsKept` | `Spec => NoLiveClientPurged` |
| | `SelectedTabsSend`, `ManagersSeeRegistry` | `Spec => []SensorsFollowSelection`, `Spec => []ViewsConverge` |
| `RouterDeliveryProofs` | `NothingHeldIsForgotten`, `NothingIsRepeated` | `Spec => []NoDeadPending`, `Spec => []EmittedOnce` |
| | `DeliveryRefinesLatestValue` | `Spec => DeliversInOrder`: a steady server implements `LatestValue` |
| `ManagerDeliveryQueueProofs` | `HeldHasItsTimer`, `QueuedHasItsMicrotask` | `Spec => []NoDeadPending`, `Spec => []FlushIsScheduled` |
| | `LatestValuesInOrder`, `ReliableControlsKept` | `Spec => []InOrder`, `Spec => ReliableKept` |
| | `QueueRefinesLatestValue` | `Spec /\ []~disturbed => Contract!Spec`: the queue implements `LatestValue` |
| | `ScheduledCommandsKept` | `Spec => [][ReliableScheduled]_vars` |
| `SemanticSyncProofs` | `TypeCorrect`, `PendingSettles`, `CopiesConverge` | `Spec => []TypeOK`, `Spec => []PendingIsUnderWay`, `Spec => []Mirrored` |
| | `Durability` | `Spec => []ConfirmedIsDurable` |
| | `OneTurnIsMirrored` | `Turns = 1 /\ Spec => []MirroredAfterAi` |
| `PatchDeploymentProofs` | `DeploymentsAreKept`, `NewestValueShows`, `ForgottenClientsStop` | `PatchSpec => []RecordsAreTrue`, `[]LiveValueArrives`, `[]WithdrawnStops` |
| | `PlansAreCarriedOut`, `OwnStructureDeploys` | `~Remote /\ PatchSpec => []SettledAtRest`, `[]StructureDeploys` |
| `ServerComponentsProofs` | `NewestServed`, `PartialWhenStale` | `AiSpec => []NewestIsServed`, `AiSpec => []PartialOnlyWhenStale` |
| | `GroupsLeadBack` | `GrpSpec => []GroupsReturn` |
| | `IndexedAssetsHaveFiles`, `OnlySpareAssetsGo` | `AssetSpec => []AssetsHaveFiles`, `AssetSpec => []DiscardsSpareAssets` |
| | `RevisionsNamePartitions`, `RollbacksRestore` | `BusSpec => []ExpectedIsFresh`, `BusSpec => []RollbackRestores` |
| `PageComponentsProofs` | `ReadyIsCached`, `PreloadEnds` | `PreSpec => []ReadyIsTrue`, `PreSpec => []PreloadSettles` |
| | `EffectsHaveCauses`, `SinksAreServed` | `RtSpec => []EffectsEnd`, `RtSpec => []SinksFollow` |
| | `PrintsOncePerChange` | `PrtSpec => []PrintsChanges` |
| | `BoardsFollow` | `SerSpec => []PinsFollow` |
| | `DisplaysAreReached` | `PairSpec => []ControlsReach` |
| | `ManagersAreInformed` | `RepSpec => []ManagersInformed` |
`SequenceLemmas` has what several of these cite: how the head, the tail, an appended or replaced element and a concatenation of
sequences are related to their elements, and two principles of induction over the naturals and over folds (below).

**Assumptions.** Each module of a component names what it asks of its constants: bounds and intervals are naturals, functions have
the domains they are applied to, one set of actors is part of another, and `None` is none of the values it stands beside.
The last kind stands for `null` and `undefined`, which are no ids and no records in the code: `DeliveryAssumption` and
`QueueAssumption` say it of held values, `SyncAssumption` of commands and nodes, `NoneAssumption` of `PatchDeployment` of patches, dates
and overrides, `AiNoneAssumption` of runs and triggers, `ReportAssumption` of records and statuses. The nodes with a printer and the pins of a
board are finitely many; the marks of a preload's workers are no assets. `RegistryAssumption` says
besides that no device is called `"c"` or `"m"`, the tags of generated ids and manager ids in the model (in the code the three kinds
differ by their form: `c_` and random digits, `c_` with a time and a counter, `m_` with a time). `GroupAssumption`: the server is neither a
manager nor a service. `QueueAssumption`: no action is both latest-state and reliable, and only latest-state actions are throttled, as the
classification in `delivery-contract.ts` has it. TLC evaluates all of them in its runs.

**The registry.** Neither part of the registry's promise is inductive alone. That a disconnect is about the
record its socket maps to needs `SocketsMatchRecords`; that the map still agrees after a takeover unmaps the replaced
socket needs that no two records share a socket (`UniqueSockets`); and that the timer purges no live client
needs that the socket of a disconnected record is down (`OfflineIsDown`), as well as `TimersMatchGrace`. Their conjunction
with `TypeOK` is `RegistryInv`. It is preserved by each action: `StepTyped` for types, and one lemma
for each change of the maps (`RegisterAgrees`, `TakeOverAgrees`, `DisconnectAgrees`, `GraceAgrees`,
`SelectAgrees`) for the rest. `LiveClientsKept` follows from the invariant: the only
step that removes a record besides a restart is a purge, and a purged record is disconnected, hence its socket down,
or is purged by the very disconnect of that socket.

What tabs and managers see is a second invariant on top, `PageInv`, about the streams. `Tells` says that the last sensor
state in a stream, or what the tab has if there is none, is whether its record is selected; `Shows` the same of the last client list
and the registry. Both are stated about every stream of an open connection, read or not, so that any emission
can only restore them. That no emission reaches the wrong page needs `PagesApart`: a socket is one tab's or one manager's.

**Held values.** In the router `Inv` joins the two directions of `NoDeadPending` (a value is held exactly if its timer is armed,
with the same time left) with `KeyInv`: what a key has emitted and what it holds are different values, none above the number routed.
`EmittedOnce` follows. For the refinement `SteadyInv` says of a server that runs its timers on time that the values emitted increase and
the value held is above all of them; then each step of the code is one of the abstract specification, with `Continues` to
show that a step only adds to what was emitted. A server that is not steady has no such invariant, and no order.

The manager's queue needs more, because between a send and the socket there are coalesced items. `OrderInv` orders the three
places where a value of a key can be: as long as nothing was disturbed the wire is in order, what is queued is newer than the wire and what is
held newer than both. `OneInv` says that the queue of a target has at most one item of a latest-state action, so that coalescing replaces the only
one; `HeldInv` that a held value falls due no later than the interval since the last of its action, `CrowdInv` that timers are armed only
while the audience is crowded. The flush concatenates the items of all targets, a fold; `Placed` says where each of them ends up.

`ReliableKept` is about one step: what went out of a reliable key and what a flush would add stays as it is or gains the newest value at its end.
The values of a key are collected by another fold, which goes along with appending and concatenating (`ValuesOfAppend`, `ValuesOfConcat`) and
sees only the controls that fit (`ValuesAlike`). As a target has one entry, a flush emits its values from that entry alone (`EmissionOfEntry`), so
that queueing an item adds its value there (`EnqueueExtends`) and a merge, which needs a latest-state action, alters none of a reliable one.
That a replay queues nothing reliable is `HeldInv`.

`LatestValue` is also what the queue promises of a latest-state key: `Contract` reads the values accepted from `sent` and those
emitted from the wire, scheduled ones left out. As long as nothing is disturbed `OrderInv` says that the wire is in order (`WireInPlace`), and a flush
only adds to it, so that each step is one of the abstract specification (`StepKeepsContract`). `ScheduledCommandsKept` is the
part of `ScheduledKept` that the code keeps: its violation (section 6) needs a latest-state action, and a scheduled command of a reliable one
waits in the queue unaltered.

**The semantic sync.** `Mirrored` says something of states at rest only. The invariant that leads there, `CoverInv`, says of every state in
which the newest revision was broadcast that each connected manager is *covered*: it shows that revision, or a message on its way to
it carries it. It needs that no message and no view is newer than the authority's memory and that equal revisions are equal graphs
(`Known`), that a result is never older than what was sent or shown before it, although a broadcast of an AI run may be (`Ordered`), that no two
pending commands have one request id and none adds again what another removes (`PendingInv`), and that a pending command has itself or its answer under way (`WayInv`,
from which `PendingSettles` follows).
`Overlay` and the replay of commands are folds. Laying the same commands over the same graph gives the same result, whatever it is, so
that most of the proof needs no induction; that a command which is settled can be left out of the overlay does (`Laid`, `LeavesOut`).
`Durability` is independent of all that: that what was confirmed is in the file, with revisions being naturals, is inductive. A write
makes the file's revision that of the memory, only what was written is confirmed, and a restart sets the memory to the file.
`OneTurnIsMirrored` delimits a disagreement of section 6: where a run visits one space there is nothing between two turns to skip, `gap` is never
`"superseded"`, and managers show the server's graph after AI runs too.

**The patch runtime.** Nothing acknowledges a deployment, so an invariant must speak of controls that are still on their way. `Ends(e, q, n)` says where an
executor `e` will be once it has obeyed the controls `q`: it runs version `n`, and of its value and override the newest
value is the outcome, unless a commit that will set it is still armed. `Withdrawn` is the same for a client that is to stop. `Good` says of one client that
its record, if it is of the present connection, is true at the end of its queue, and `DeployInv` says `Good` of each. Every action
of the runtime changes one client by sending controls, and every action of a client takes one from the queue, so the proof is about one client at a
time: what an added control makes of the ends, and what an obeyed one (`Obeyed`) leaves of them.

`PlansAreCarriedOut` adds `PlanInv`: the compiled graph is the graph there is, and on a running page with a root a plan that was made was
carried out, unless a timer is still to do it. It is stated for pages whose graph only they edit (`~Remote`). With snapshots of a server it is false, and for the reason
`StructureDeploys` shows: the gate goes on, a snapshot removes the root, the gate goes off, a snapshot adds a root; the compiled graph is still the one with
a root, nothing is scheduled, and no client runs the patch. Four changes are more than the instance of `patch_deploy` allows, so that TLC
finds nothing there; the proof attempt found it. `OwnStructureDeploys` follows from the same invariant: with the edits of one manager alone a root
it adds is deployed, so that the remote editor is what the disagreement of section 6 needs.

**The agent.** `NewestIsServed` alone is not inductive: that a run which ends hands over to the newest trigger needs that
the trigger which waits *is* the newest, whenever it is not the one that started last. `Served` says so, and `AiInv`
is `Served` with the types and `PartialOnlyWhenStale`. The second theorem needs nothing of the first: a plan that
passes is tried on the snapshot of its run and applied to the graph of now by the same fold, so that on an
unchanged graph both end alike. That is why no induction over the plan is needed.

**Groups.** What `GroupsReturn` says of the chain of owners is turned around into a statement about one entry (`Good`): the
server owns it and nobody is below, or the server is the first below and nowhere else. `Reclaimed` appends the owner to those
below and `Released` takes the last of them: one lemma each about positions of sequences, and `CommandIsGood` for the
commands that the policy lets through: a manager commands a group that the server made and owns without reclaiming it.

**Assets.** Between two awaits of a mutation an asset may be in one of index, index on disk and files only. `UnderWay` says, for each program counter of the
mutation that runs, what is still true: a content that is being uploaded has no entry yet and room is made for it (`MakesRoom`), its file is
there before the entry is (`HasPlace`), an entry is gone from both indexes before its file is unlinked (`Writes`). A stop
between any two of them then leaves no entry without its file. `DiscardsSpareAssets` is about one step, and needs the same facts to know that the victim
chosen among the candidates is still as it was when it was chosen.

**The bus.** Bound revisions are dates: `BornIn` says that a partition of the bus, of a token or of an entry of the history is bound to a revision that was announced
and in which it was what it is now; `Announced` that revisions are numbered as they go out. Rollbacks and undone proposals make new revisions of old states,
so that no number is given twice. `Recalls` says that history and tokens keep states that were seen, up to custom
definitions, which the semantic hash leaves out. A proposal is a fold over its commands; `Underway` is the invariant of that fold.

**The pages.** `PageComponentsProofs` has one invariant for each of six components.

* *Preload.* `Working` says of a run that has not failed that every asset before its next one is cached or in the hands of a worker, so that
  a run that is over has them all. Aborted runs share the cache with the current one and only add to it. `RunOK` says that a worker waits only
  while priority fetches hold the queue back; as those resume it when they end, nothing waits once nothing is under way.
* *Node runtime.* A tick is a fold over the nodes, and `PassGood` its invariant: a sink shows what the cache says it was handed, and something new only if
  it is connected. A pass may stop at the budget, but a sink that was handed what it carries costs the next tick nothing, so that `RtInv` can say how far
  the sinks are served after `rtCalm` ticks in which nothing changed (`Settled`), unless a bundle above the whole budget stands before them (`Clear`). That the fold keeps it is an induction over its steps.
* *Printers.* `PaidFor` is an account: sheets that came out, jobs in the chain and changes not yet taken are together no more than the changes and servers.
  `Remembered` says that what the bridge notes as printed is the node's last job in the chain, or came out last if it has none there.
* *Boards.* `Agrees`, for each pin: the last command for it in the chain, or the board itself if there is none, has it as the bridge takes it for active. Every write takes the
  head of the chain and every flush appends the difference of two sets of pins. A disconnect has appended the switching off of all pins
  and awaits the whole chain (`AwaitsAll`), unless a tick or a new board came in between (`serLeft`). No command of the chain is for a board that has just been opened.
* *Display.* `ReadyIsPaired`: a manager that takes the display for ready has the port that the display took, and a display that took one keeps it.
  Only a display that listens is owed a control (`NothingOwed`).
* *Readiness.* A report goes over two streams in a row, and a manager may open while it is on its way. `MicComes` says that the last permission on its way to the server is
  the one of the page, or the record has it; `ListsCome` that the last list on its way to a manager has the record, or the manager shows it.
  `ReadyComes` says the same of the readiness, which no record keeps, for those managers that were there at the last update; it needs that
  a list without the client, which resets what a manager shows, is followed by a report (`StatusComes`), and that a page never
  has a status again that it reported before (`LastIsOld`), since it would not repeat it.

That the last element of a kind decides is said in three of these (`LastIs`, `Places`), with the lemmas for what an appended, a removed and a concatenated element do to it.

**Folds and induction.** The library's induction theorems take an operator as parameter, which no installed prover instantiates. Their second-order
form can be avoided: the set of indices for which a claim holds is an ordinary set, and a set of naturals that has
zero and is closed under successor has every natural (`SetInduction`). What a fold computes is stated as a function of the index, and unfolded by
the definitions of `FoldLeft`, `FlattenSeq` and `ValuesIn`, which are recursive functions. No module declares a RECURSIVE operator.

**Only model-checked.** `GhostsVanish`, `LastValueArrives` and `HeldIsReplayed` are liveness properties, beyond the prover, which has
neither fairness nor ENABLED. The violated properties of section 6 have, of course, no proof.

## 6. Disagreements found

Each has a run that ends in a counterexample, and an entry in `PROJECT.json` with the line quoted.

* **Duplicate records** (`registry_duplicates`). When the connection is cut before a tab has read its confirmation, it asks
  again for an id another tab holds and is given a second record; its first one lingers until the grace timer. A
  plan document promises no repeated ids after a short disconnect.
* **Scheduled control altered** (`queue_scheduled`). A latest-state control sent in the same task as a scheduled one of
  the same action replaces its payload and is put off to its time.
* **AI changes not broadcast** (`sync_ai`). A run superseded between two turns has applied the first; nobody is told.
* **Import over a graph that is not empty** (`sync_import`). The import carries no expected revision.
* **Remote structure not deployed** (`patch_structure`). The graph subscription of the node canvas skips
  `onGraphStateChanged` while a snapshot of the server is applied, and only there is the compiled planning graph invalidated. A patch
  root that another manager or the AI adds is not deployed until somebody edits the graph on this page, restarts the engine or
  reloads. A plan document says that structural changes trigger a redeploy.

Some properties state an exception instead: behaviour the code has, that no document rules out. They are named where they are
stated: a commit timer that outlives its deployment (`LiveValueArrives`), a stop sent to a client that is not connected
(`WithdrawnStops`), a connection taken over before its loss was noticed (`SettledAtRest`), an index write that failed (`AssetsHaveFiles`), the
late report of an aborted run (`PreloadSettles`), a tick during a disconnect,
a board connected meanwhile, and a connect that fails on a connected board, which closes it with its pins on, so that pressing Disconnect after it
shows "disconnected" with pins on (`PinsFollow`), a display reloaded after it was
ready (`ControlsReach`), a bundle above the budget of a tick, which starves the sinks behind it (`SinksFollow`).

## 7. What is left out

* *Within the modelled components*: url sessions of a record; sensor telemetry, system and
  plugin messages of the router, and the boolean variables it relays; group policies, capabilities, connections of a bus;
  what a language model answers, memory and prompts; tone, screenshots and user interface events of a client; the watchdog, the
  asynchronous AI runtime and graph changes of a node executor; loops deployed by hand, MIDI and the local display as a target
  of a patch; groups, gates and what nodes compute in the node runtime; the keys of a node's configuration in `SemanticSync`, where a node has one value (the engine of a manager
  merges the keys of a snapshot into its own, so that one that the snapshot lacks would stay); several boards, several printers; the audio dropbox, local
  media and bulk deletion beside the asset store; closing the display window and what else goes over its port.
* *Not modelled*: the methods of ManagerSDK that format one message each; validation of messages and the clock estimate (pure, a
  median of samples); the login (signed cookies without server state); the proxies to outside services (one request per call);
  plugins, effects and the ui-kit (signal processing and rendering); the command line tool, scripts and deployment.
* *Size*. Of the repository's 110,000 lines of implementation some 6,700 are mapped to definitions. Most of the others are
  Svelte components, node definitions that compute numbers, rendering, audio, validation tables and wiring: lines without state that two
  actors share. What is left to model of those that have it are variations of what is here (the items of the first list), so that
  the greater part of the lines will stay outside any model that is an abstraction.

## 8. Plan

Done: the registry, routing against its abstract specification, the manager's queue, the semantic sync, the node executor and the
patch runtime, the AI agent, groups, the bus, the node runtime, assets and preloading, readiness, the hardware bridges and
the display.

Proved: every safety property that a passing run checks, the refinement of `LatestValue` by the router and by the manager's queue, and the
conditions under which three of the violated properties hold.

To be proved, where it would say more than the instances do: that the client and the patch runtime refine an abstract deployment (one version per client,
with the newest value), and that the semantic sync refines a single graph.

To be modelled, where it would add a behaviour of a new kind: the asynchronous AI runtime of a client, connections and group
policies in `SemanticBus`, several targets in `ManagerDeliveryQueue` once the instance is small enough.
