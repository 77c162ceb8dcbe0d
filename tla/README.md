# Verification of the orchestrator

The orchestrator (`src/orchestrator-main`) stands between a billing system
(FOSSBilling) and the resources a subscription buys: VPN clients on 3x-ui nodes
and S3 storage. Billing events arrive as webhooks, are recorded once, put on a
Bull queue, and handled by a worker that provisions, renews, suspends or deletes
and reports back. This directory holds TLA+ models of that system, their TLC
runs, and TLAPS proofs. `PROJECT.json` relates every definition to source lines,
every run and theorem to its properties, and lists the hazards they are for.

Paths below are relative to `src/orchestrator-main/src/` unless they start with
`src/`; "FLOWS" is `src/Orchestrator — FLOWS v1.0.txt`.

## Inventory

| Component | State | Operations | Hard behaviour | Correct when |
|---|---|---|---|---|
| Event intake: `webhook/`, `modules/processed-events/` | `processed_events` rows | claim, markStatus, manual retry, purge | claim, queue and status update are three awaits; status updates are unconditional | an acknowledged event has a job; a completed row was applied |
| Queue and worker: `queue/` | Bull jobs, attempts, stalls | add, take, complete, fail, promote, stall check | crashes, lapsed locks, redelivery, overlapping retries | bounded starts, runs of a job at once, every accepted event ends |
| Provisioning: `modules/provisioning/`, `modules/provisions/` | `provisions` rows | pay or renew, suspend, delete, plan change, cleanup, purge | handlers keep a row they read across a dozen awaits; two handlers of one subscription overlap | sticky backend, no lost bucket, billing told the truth |
| Storage backends: `modules/storage-backends/` | capacity, `current_load`, `is_active` | select, increment, decrement, edit, disable | check-then-increment, whole-entity saves, releases after failures | load in `0..capacity`, each unit counted once |
| Device access: `modules/configurator/configurator-runtime.service.ts` | device configs, provider accesses, config snapshots | sync, revoke, regenerate, switch of node or transport profile | create client / count / save in separate awaits; quiet failures of deletes; rows found or made without a constraint | no live client without an access, loads match clients, a device's row and what billing has follow the last call |
| VPN nodes: `modules/nodes/vpn-nodes.service.ts` | node rows, health, load | create, edit, disable, purge, check, sweep, select, increment, decrement | entity read before a network call is saved after it; checks overwrite the counter | a drained or purged node stays so, the counter counts nobody who is not there, a sweep counts every node |
| Transport profiles: `modules/nodes/transport-profiles.service.ts` | profile rows, panel inbounds | create, edit, remove, sync, check, apply, select | panel and row change separately; each apply maps the row to the inbound and back | row and panel agree, an inbound has one profile, clients and keys survive an apply |
| 3x-ui client: `integrations/vpn/providers/` | session cache | login, calls with one re-login | expired sessions, concurrent calls | the one retry is enough |
| Telemetry: `modules/telemetry/` | events, hourly aggregates | record, refresh, report, decide | refresh reads before its lock, windows of different length overlap; thresholds on rounded rates | an event counts once, decision and reason and matrix agree |
| Catalogue: `modules/configurator/configurator.service.ts`, `domain-endpoints.service.ts` | templates, apps, endpoints | create, update, delete | clear-then-save, check-then-save | a config carries the default last chosen and the active domains |
| HTTP edge: `common/`, `config/validate-env.ts`, webhook validation | rate-limit windows, environment | boot, limit, authenticate, parse | windows, boundary times, every shape of a field | at most `max` per window, what is let in can be handled |
| Admin UI: `src/orchestrator-main/admin-ui/` | hooks of the page, requests in flight | filter, turn pages, select, act, refresh | answers overtake each other | the page settles on what was asked for, not older than the last action |
| YooKassa adapter: `src/fossbilling-extensions/YooKassa/` | transactions, client credit | create payment, process a callback | repeated callbacks and runs, a run that stops midway | a payment is credited once, the orchestrator hears of paid invoices only |
| Plans: `modules/plans/` | plans, the plan a `provisions` row names | create, edit, remove, resolve, sync the observed limit | removal in three statements, edits and syncs save a row read before | an active subscription has its plan |
| Audit logs, jobs, health, migrations | rows | append, read | none over time | — |

How they interact: the webhook calls processed-events, then the queue; the
worker calls provisioning, which calls provisions, plans, storage backends, the
storage provider, the configurator runtime (which calls VPN nodes, transport
profiles and the 3x-ui client) and the billing provider. The process is one Node
event loop: statements between two `await`s are atomic, and everything else
interleaves. Bull adds up the concurrency of the named processors of
`billing.worker.ts`, so handlers of different events, of one subscription too,
run at once.

## Plan

1. `EventDelivery`, `EventPipeline`, `EventPipelineProofs` — done.
2. `Provisioning`, `ProvisioningProofs` — done.
3. `DeviceAccess`, `DeviceAccessProofs`, `DeviceRows` (proofs in `ServicesProofs`) — done.
4. Nodes and panels — done: `NodeFleet`, `TransportProfiles`, `PanelSession`,
   `InboundMapping`, and `RuntimeConfig`, which extends it to the device.
5. Telemetry — done: `TelemetryHourly`, `RouteDecisions`.
6. Catalogue, plans and edge — done: `Catalogue`, `PlanMapping`, `RateLimit`, `WebhookGate`.
7. The two clients — done: `AdminConsole`, `PaymentCallback`.
8. Proofs about 4 to 7 — done: `NodeFleetProofs`, `PanelProofs` (`PanelSession`,
   `InboundMapping`, `RuntimeConfig`), `ClientProofs` (`PaymentCallback`,
   `AdminConsole`), `ServicesProofs` (`TransportProfiles`, `TelemetryHourly`,
   `RouteDecisions`, `RateLimit`, `WebhookGate`, `Catalogue`, `DeviceRows`,
   `PlanMapping`) and `MCServicesProofs` (all of them together).

`Provisioning` and `DeviceAccess` meet in the status of the provisions row;
`DeviceAccess` has the part of the provisioning handlers that writes it or calls
the configurator. `NodeFleet` has the other side of the nodes' loads: what device
handlers book there is `DeviceAccess`'s `Count` and `Uncount`. `RuntimeConfig` composes
`InboundMapping` with the parsers, so that a profile is followed to the config a
device gets. `DeviceRows` has the identity of the rows that `DeviceAccess` takes as
given. `MCServices` puts `DeviceRows` and the modules of 4 to 7, which share no state
they keep, into one run.

## EventPipeline

State: `row` is the status column of `processed_events` ("none" without a row);
`job`, `attempts`, `stalls` and `lock` are Bull's view of each job; `slot` is what each
concurrently running job of the worker is about to do, with the attempts it was taken
with (`made`), `req` the same for each
HTTP request; `acked`, `handled`, `starts` and `lapsed` are history variables.
Job `<<e, 0>>` is the webhook's (`jobId = eventId`), `<<e, k>>` the k-th manual
retry. The queue's jobs are kept (`removeOnComplete: false`), so `Add` of a known
job does nothing.

| Actions | Code |
|---|---|
| `Claim` `Enqueue` `MarkQueued` `RequestFails` | `enqueuePayload` and `claim`; no try block, so a failing call leaves what was done |
| `RetryCheck` `RetryEnqueue` `RetryMark` `Purge` | `processed-events.controller.ts` retry and purge |
| `Take` `MarkProcessing` `Handle` `MarkCompleted` `Throw` `MarkFailed` | `billing.worker.ts handleBillingEvent` |
| `Complete` `Fail` `Promote` `Lapse` `StallCheck` `Crash` | Bull 4 and the process, from the options in `queue.service.ts` and Bull's defaults (external) |

`EventDelivery` is the abstract promise for one event: unseen, pending, done or
dead; done needs an applied handler and is final; only an operator reopens dead.
`Delivery == INSTANCE EventDelivery` with `outcome` computed from the job states
is the refinement mapping; `DeliverySpec` and `DeliveryFairSpec` are the two
forms (without and with the promise that a pending event ends).

A request that purges only takes rows at least a day old; a delivery of such an
event is not still between its awaits, which is `InFlight` in `Purge`. A retry
jobId contains the millisecond: `RetryEnqueue` may reuse a waiting retry job.

A run renews the lock of its job; when it cannot for 30 s (the event loop is blocked,
Redis does not answer) the lock expires (`Lapse`) and the run does not learn of it. The
stall check looks at the lock only, so the job may be run again beside the first run.
A run that ends needs the lock to settle the job (`Unlock`); without it Bull reports a
missing lock, and a failing run still saves its attempts, which may set the job's back.
Both runs belong to one queue instance and have the same token: the first to end uses
the lock, whichever of them it is. `OneRunPerJob` and `StartBudget` say what is left
then: each stall pays for one run more, and may cost another round of attempts.

## Provisioning

State: `status`, `home`, `due`, `rid` (the id) are columns of `provisions`; `load`,
`capacity`, `open` of `storage_backends`; `buckets` are the buckets that exist in storage, named by
subscription; `billing` the status last reported; `worker` the handler each
worker runs, with the row as it read it (`row`), the backend it has chosen
(`nb`) and, for a cleanup, the rest of its list (`todo`); `edit` an operator's
PATCH between its read and its save. The rest is history: `wiped` and `counted`
(buckets a deletion took, units counted), `writer` (who wrote a row's status last),
`most` (the largest capacity a backend has had), and two kinds of overlap: `crossed`,
subscriptions of which two payments overlapped, and `late`, those of which a
payment that makes a bucket overlapped a deletion.

| Actions | Code |
|---|---|
| `Start` | `handleBillingEvent`, `deleteProvisionNow`, `getOrCreateFromEvent`: the row is read (or created) |
| `MarkProvisioning` … `Apologize` | `provisionOrRenew`, try and catch, one step per awaited call with an effect |
| `MarkEnded` `Release` `Report` | `suspend` |
| `DeleteBucket` `Release` `MarkDeleted` `PushConfig` | `deleteProvisionResources` |
| `StartCleanup` `NextDue` `Restore` | `cleanupDueProvisions` |
| `Report` alone | `updatePlan`, which changes none of this state but billing's |
| `Throw` `Crash` | any awaited call throws without effect; the process dies |
| `Purge` `GraceEnds` `EditBackend` `SaveBackend` | purge of deleted rows, time, `StorageBackendsService.update` |

Details left out: credentials, quotas, plan limits, error texts, test mode, and
the branches for a provision-level `vpnLogin`, which `markActive` always sets to
null. The push of the device config is merged into the report that follows it.
`getOrCreateFromEvent` is one step: of two overlapping inserts the second ends
in a unique violation before anything else happens. `save` of a whole entity
writes the columns that differ from the database, which for a stale
`current_load` is all that matters.

Nothing keeps two handlers of a subscription apart, since Bull runs whatever is
waiting, and a purge removes a row whichever handlers have read it: their updates are
by `id`, so they touch nothing any more (`Live`), not even the row that the next payment
makes. What the overlaps break is said in the properties: two first payments may
each choose a backend (`crossed`), and a bucket made during a deletion outlives it
(`late`). Of all other overlaps the properties hold.

## DeviceAccess

State, for one subscription: `provision` is its status, `conf` the status of each
device config, `access` the access row of each device and part ("normal" or
"away": providers `3x-ui` and `3x-ui:away`) with status, login and the node and
transport profile its metadata names. `live` is the set of clients on the panels,
each a login; `place` says for which device and part, on which node and in which
inbound it was created. `load` is `current_load` of the nodes. `worker` is what
each handler is doing: its step, the status of the provision and the rows as it
read them, and per part what it has got from the provider (`got`, `fresh` when it
created it). `undone` and `leaked` are history variables: clients deleted by the
catch blocks, and units of load whose handler failed before giving them back. So is
`met`: devices that two handlers minded at once (`Minds`: all of them for an end or a
deletion, none for a payment), or at which one broke off for good, by a database call
that failed outside the catch blocks or a crash.

| Actions | Code |
|---|---|
| `StartSync` `ReadRows` | `activateDevice`, an operator's refresh, start of `syncDeviceSnapshot` |
| `MapConfig` `MapAccess` | the service is not active (272-297) |
| `Select` `Drop` `DropSkipped` `Uncount` `Count` `CountRefused` `Create` `CreateRefused` `CreateLost` `Uncreate` | `resolveDeviceProviderMaterialForNode`, for both parts, with `incrementLoad`, `decrementLoad` and the panel |
| `Link` `LinkFails` | `buildRuntimeSnapshotFromLink` |
| `SelectAway` `SaveAway` | `buildAwayProfile` |
| `Ready` `Grant` | the two saves at the end of `syncDeviceSnapshot` |
| `Undo` `Return` `FailConfig` `FailAccess` | the two catch blocks |
| `StartRevoke` `StartSuspend` `StartDelete` `ReadForRevoke` `Cut` `CutSkipped` `GiveBack` `CloseAccess` `CloseConfig` `MarkDeleted` | `revokeDevice`, `suspend`, `deleteProvisionResources`, `revokeDeviceSnapshot`, `revokeProvisionDeviceAccesses` |
| `StartPay` `Activate` `PayFails` `PayEnds` | `provisionOrRenew`, of which only the status matters here |
| `Throw` `Crash` | a database call throws without effect; the process dies |

`Catch` is where an exception leads: inside the away profile to its own catch
block, else to the normal one's, by way of the deletion of the client the part
has created (`createdClient`, which comes with `loadIncremented`).

Details left out: the rows exist from the start (how they are found and made, and
the service-level config row, which has no client, is `DeviceRows`'s subject), and so
are the links, policies and snapshots, and a purge under a running handler. The subscription has its node, which is sticky. Which transport profile
is selected, if any, and whether a node is active are free choices at each
step: operators and health checks change both at any time. Health checks also
recount the loads; between two of them the counters are as here. Pending and
cancelled are treated like provisioning and suspended.

## DeviceRows

`configRow` is `device_configs` of one subscription, with the device and installation
each row names; `rowCall` each handler with the row, or the list of rows, it has read;
`pushed` the devices whose config billing holds as ready. `outcome`, `doubled` and
`untold` are history: what the last call on a device came to if no other overlapped
with it, devices whose first row two activations made at once, and pushes that failed.

| Actions | Code |
|---|---|
| `StartDeviceCall` `ReadService` `FindRow` `CreateRow` `ServeDevice` | `activateDevice`, `syncDeviceSnapshot`, `getOrCreateDeviceConfig`, `findDeviceConfig` |
| `StartDeviceCall` `FindRow` `CloseDevice` | `revokeDevice`, `revokeDeviceSnapshot` |
| `StartEnd` `StartDelete` `ListRows` `CloseNext` `MarkDeleted` | `suspend`, `deleteProvisionResources`, `revokeProvisionDeviceAccesses` |
| `StartPayment` `SettlePayment` | `provisionOrRenew`, of which only the status matters here |
| `ReadForService` `SaveService` | `syncProvisionSnapshot`, whose failures `syncConfiguratorSnapshot` catches |
| `StartRegenerate` `ListRows` `RegenerateNext` `PushNext` | `regenerateServiceConfig`, `syncProvisionAndDeviceSnapshots` |
| `ThrowRowCall` | a statement or a push throws, or the process stops |

Whether a config can be generated is a free choice; the panels are `DeviceAccess`'s. The
service's own row is made and saved in one step, since nothing reads it in between that
tells its states apart. An installation id belongs to one device
(`DeviceRowsAssumption`): were it shared, the second device would take over the row of
the first. Suspended and cancelled are one status, and every device names itself, which
`requireDeviceId` sees to.

## NodeFleet

State: `nodeRow` is `vpn_nodes` (of the status only "active" and "draining", which the
code writes itself; capacity and usage scope are its `setup`); `home` the node a
provision links to; `clients` what the panel has, in whichever inbound; `creating` and
`giving` the device handlers between counting a client in and hearing of it, and those
about to count one out; `nodeCall` what each request and the sweep of the health job
are doing, with the entity each has read. History: `wanted` and `raced`, the
operator's last word on a node and nodes where a save overlapped another write;
`outdated`, calls that hold a load a handler has since counted out of, and `inflated`,
nodes such a load was saved to or that lost a handler or a client.

| Actions | Code |
|---|---|
| `CreateNode` `EditNode` `SaveEdit` `PurgeNode` | `vpn-nodes.controller.ts`; `create`, `update` and `disable` (read, then save of the entity), `remove` |
| `CheckNode` `PanelAnswers` `SaveCheck` | `checkNode`, by hand and in the sweep |
| `StartSweep` `SweepNext` `Reread` `EndSweep` | `checkAllNodes`: its loop, the catch that reads the row again, and the end when that read throws too |
| `AssignHome` `IncrementLoad` `DecrementLoad` | `selectLeastLoaded`, the two counters |
| `PanelCreates` `PanelDeletes` `LoseBacking` | what device handlers ask of the panel, `deleteCreatedClientQuietly` with its swallowed failures; a handler that never comes to the counter |

`NodeObeysOperator` holds wherever no save overlapped; where one did, the code does
lose the operator's word. `LoadIsBacked` is what is left of the counter's meaning: a
deletion that failed is counted out, and a check counts the node's own inbound while
clients of a transport profile are in others, so the load may be too low; but it
counts nobody who is not there, or some history says why, and a check that finds the
panel and is not overtaken puts that right.

## TransportProfiles

State: `profile` the rows (status and inbound), `inbound` the panel (enabled, and its
clients), `tpCall` each request with what it has read: the row, the clients it will
send back, or for a sync the list and the rows. `stale` marks requests that others
have outdated; `settled`, `owned`, `intact` and `made` are what the properties are
about. `StartEdit`/`FinishEdit`, `StartCheck`/`FinishCheck`,
`StartApply`/`SendApply`/`FinishApply` and `StartSync`/`ReadProfiles`/`SyncInbound`/`FinishSync`
are `update`, `check`, `applyToProvider` and `syncFromProvider` cut at their awaits.
A panel call is answered, carried out with the answer lost, or refused; `Restart`
drops the requests under way; `PanelByHand` and `ChangeClients` are the panel's
administrator and the device handlers.

## PanelSession

`cached` is the client's `sessions` entry of a node, `valid` the cookies the panel
still accepts, `pcall` each call: logging in, storing the cookie, requesting, or at
rest. `Request` is `getWithSession` and `postWithSessionResult`; `AfterRefusal` the
retry with a new login; `StartPanelCall` with `force` is `checkNode`, which forgets
the session first.

## InboundMapping and RuntimeConfig

One profile row and one inbound as records of the fields that pass between them;
`TypedRows` and `HandMade` are what an operator may type and what may be on the panel,
every protocol, transport and security with each optional field given or not (fields
nothing tells apart vary together). `WireFor` is `providerInboundInput` with
`providerStreamSettings` and `providerSecuritySettings`; `PatchedRow` is
`profilePatchFromInbound`; `Apply` and `SyncRow` are the two requests as single steps,
since their interleaving is `TransportProfiles`'s subject. `RuntimeConfig` adds no state:
`LinkOf` is the panel's link (external), `RuntimeOf` what the parsers and
`buildStreamSettings` make of it, `Accepts` what an inbound takes.

## TelemetryHourly and RouteDecisions

`TelemetryHourly` counts time in half hours, so that a cutoff can fall inside an hour.
`copies` says how often the hourly rows count each event; `report` is each request:
it reads the events (`ReadEvents`), replaces the window's rows under the lock
(`WriteHourly`), then reads the totals of its own window (`ReadTotals`).
`RouteDecisions` is one profile and route: `tally` counts the samples by
classification and result, and the operators are the functions of
`telemetry.service.ts` on those counts, rates in tenths of a per cent.

## RateLimit, WebhookGate

`RateLimit` is the middleware with its `store` and `sinceCleanup`; a request is one step,
as there is no await in it. `WebhookGate` is one request at one of four routes of a
process that booted with some environment: `Boot` is `validateEnv`; the four handlers
make their checks in the order of the code and answer with the first that fails;
`RunJob` and `InsertReport` are what the accepted request comes to.

## Catalogue

`template` and `domain` are the tables, `edit` each administrator's request between its
awaits: read and checked, defaults cleared (`ClearDefaults`), saved. `ClientPolicies` and
`DomainBundle` are what a config generated at this moment takes. `chosen` and `offered`
are history, `tangled` the types and domains with overlapping or broken-off edits.

## PlanMapping

`plan` is the plans table ("removed" once its row is gone), `provision` the status and
plan of each subscription's row, with suspended and cancelled both "ended"; `planCall`
the calls under way between their awaits.

| Actions | Code |
|---|---|
| `Pay` `Resolve` `SyncLimit` `MarkProvisioning` `MarkActive` `MarkFailed` | `provisionOrRenew`: the row, the plan, `syncObservedMaxDevices`, and the status updates |
| `ChangePlan` `Resolve` `SyncLimit` `NamePlan` | `updatePlan` |
| `EndService` `DeleteService` `PurgeService` | the other writers of the status and the purge |
| `CreatePlan` `EditPlan` `SavePlan` | `PlansService.create`, `update` (read, then save of the entity) |
| `DeletePlan` `CountRows` `DetachRows` `RemovePlan` | `PlansService.delete` |
| `Throw` | an awaited call of the worker throws |

`SyncLimit` and `SavePlan` save the plan as it was read, so they may undo another's
edit and put a removed plan back; `ActiveHasPlan` holds all the same. A plan's terms
are one value, and the storage calls of a payment are left to `Provisioning`.

## PaymentCallback, AdminConsole

`PaymentCallback`: `transaction` and `stage` are FOSSBilling's transactions and the run
of `processTransaction` on each, a step for each call that has an effect; a run may
stop after any of them (`BreakRun`), and FOSSBilling may then give the transaction
back. The claim of a transaction is FOSSBilling's and taken to be atomic.

`AdminConsole`: `panel` and `app` are React state, `ask` and `read` the list and details
request that is not cancelled, `late` the cancelled ones still to be answered, `act` the
operator's actions. React runs the effects of a change before the next event, so each
handler is one step with the effects it causes (`Effects`): a changed dependency cancels
the request and sends the next. Three panels have this shape (provisions, events,
configurator); `Regenerate` is the configurator's only.

## Runs

| Run | Checks | Bounds, and why they are enough |
|---|---|---|
| `event_pipeline` | `TypeOK` `AckedIsAccepted` `CompletedIsApplied` `StartBudget` `OneRunPerJob` `RetryIsNotFirst` `DeliverySpec` | 1 event (events do not share state but the slots), 1 request at a time and 2 slots (a run beside one that lost its lock), 2 attempts (a delayed one and a last one), 1 retry job, 1 tolerated stall, 1 crash and lapses of the delivery's job at any time (together more stalls than tolerated) |
| `event_pipeline_live` | `DeliveryFairSpec` | 2 requests (pairwise races) and 1 slot, which a run without its lock may hold; the rest as above. It includes the refinement without fairness |
| `duplicate_is_known`, `done_is_completed` | one documented claim each, violated | 3 attempts as in the code, one request, one slot |
| `provisioning` | `TypeOK` `LoadWithinCapacity` `CountedOnce` | 2 subscriptions compete for one backend of capacity 1 or 2, 2 workers (pairwise races), 3 handlers, a failing call anywhere, 1 operator edit |
| `provisioning_long` | `BucketLostByDeletion` `DeletedHasNoBucket` `StickyBackend` `ReportsCurrentStatus` | 1 subscription (subscriptions share the backends' loads only), 2 backends to move between, 4 handlers (a row made, ended, deleted and purged under a late one), 2 at a time, every failure, 1 crash |
| `capacity_respected`, `active_has_bucket` | one documented claim each, violated | one worker and no failure: no race is needed |
| `device_access` | `TypeOK` `RowNamesNode` `UndoneIsNotGranted` `NoUnitLeaks` | 1 device (devices share the nodes' loads only), 2 overlapping handlers and 3 in all, 3 logins, 2 away nodes of capacity 1 to switch and to be refused, every failure, 1 crash; no transport profiles |
| `device_access_apart` | `ReadyIsLive` `EndedNotReady` | 2 devices (one left alone while the other is not), 3 handlers of all kinds, 2 at a time, the node's own profile and another one, 2 logins, panels and database calls fail; no crash, which the theorems cover |
| `revoked_has_no_client` | one documented claim, violated | one handler at a time, 1 device, 1 profile, no failure |
| `services` | `ServicesTypeOK` and the property or properties of `DeviceRows` and each module below it, from `NodeObeysOperator` to `NothingDrifts` | see below |

`services` runs `DeviceRows` and the modules of plan items 4 to 7 in one state space. They share no variable, so
`MCServices` chooses a component (`which`), lets it run alone and keeps the others in an
initial state: the state graph is the union of the components' own, and a property of
one component holds in it exactly when it holds of that component alone
(`ComponentsApart` proves that nothing is lost). Bounds: 2 nodes,
a request and the sweep, 2 calls besides purges and creations; 2 profiles, 2 inbounds, 2
overlapping requests, 3 requests or changes by hand; 2 calls on one session cache, 2
drops of the sessions, 4 logins; 2 applies of any row, between them any syncs; 2 reports over 2
windows and 3 half hours, where the default window is an hour and the longest two (the
code: 72 and 720); up to 11 samples, past every threshold (3 samples, 2 and 3 failures,
10, 25 and 60 per cent); 2 senders, windows of 2 ticks with 2 requests, pruning
every 3; every request that differs from a good one in one field or one header, each
under the default environment, and a good one under every environment; 2
templates, 2 types, 2 domains, 1 url in 3 edits by 2 administrators; 3 callbacks of one
payment in 3 runs; 2 plans, 1 subscription and 3 calls, 2 at a time (a payment,
another or a change, and a removal or an edit); a device in two installations, without a
row or with one already served, 3 rows and 2 overlapping handlers; 2 moves and 2 actions on a list of 2 pages.

Subscriptions, backends, devices, logins, workers, events, requests and slots
are interchangeable, so the safety runs use symmetry; the liveness run does not. Deadlock is not
checked: with every bound used up the system may stop.

`cancel` differs from `expire` in the word it writes only, so a run has one of the two;
the theorems include both.

Each property has a mutant: the "faulty variants" section of a module holds
plausible mistakes in the code (a dropped await, an off-by-one, a missing
rollback), and a property is kept only if it fails with one of them in place.

### Fairness

`FairSpec` assumes weak fairness of each worker slot (Bull polls and Node
continues a started handler), of promotion of delayed jobs and of the stall
check (Bull's timers). Nothing is assumed of the billing system, operators, open
HTTP requests, that locks are kept or that calls succeed; crashes and retries are bounded.

## What the runs say about the documents

Five claims of the documents do not hold (see "findings" in `PROJECT.json`):

* `DuplicateIsKnown`: `queued=false` is also answered for an event that was
  claimed and never queued (`webhook.service.ts:87-98`, `src/API.txt:99`).
* `DoneIsCompleted`: a late "queued" replaces "completed"
  (`webhook.service.ts:99`, FLOWS:74).
* `CapacityRespected`: renewals of suspended subscriptions are not counted
  (`provisioning.service.ts:189` and `:324`, FLOWS:213-214, 268-270).
* `ActiveHasBucket`: paying after a deletion activates a subscription without
  its bucket (`provisioning.service.ts:167`, FLOWS:62-72).
* `RevokedHasNoClient`: after a refresh that found no transport profile the
  revocation looks for the client in the wrong inbound
  (`configurator-runtime.service.ts:769`, `:390`,
  `docs/subscription-configurator-v2.md:166-168`).

Smaller divergences seen while modelling: the worker does not look whether the
event was processed (FLOWS:30-31 says it does); "failed" is written after every
attempt, not after the last; a failed payment leaves its bucket
(FLOWS:107-108 says rollback) and relies on the bucket's name being a function of the
subscription when it is tried again. In `configurator-runtime.service.ts`: an
access that failed keeps its client, and the next activation creates a second
one beside it (775-816); a revoked access that is activated with another profile
or node releases its unit again (791-813); when an away profile fails after its
old client was dropped, its row stays active with a client that is gone
(799, 1536-1565); a refresh of a suspended service marks the access revoked
without deleting the client, and a later revocation skips it (279-281, 877).

Seen in the later modules, each visible in the model as an exemption or a branch:

* Device rows: two activations that make a device's first row at once leave two rows; a
  revocation then reaches the latest only, and a regeneration serves the device again
  (`configurator-runtime.service.ts:613-629`, `:655-661`; `doubled`).
* Edge: `status` of a payment, a device id of blanks and a telemetry date that is
  none pass the gate and fail in the worker or the insert
  (`provisioning.service.ts:609-616`, `:648-652`; `webhook.service.ts:142-204`).
* YooKassa: `sendOrchestratorPaymentPaid` sends no `deviceLimit`, so the orchestrator
  refuses its `payment_paid` with 400 (`webhook.service.ts:206-259`); the transaction is
  processed by then and nothing sends it again. If FOSSBilling gives the transaction
  back, another callback credits again.
* Profiles: shadowsocks over anything but plain tcp gets a config that cannot connect,
  since `parseShadowsocks` drops the query.
* Telemetry: the matrix groups by classification, so that failures have rows of
  their own: three of them are "blocked_suspected" while the decision for the same
  route may be "preferred".
* Admin page: the webhook tester's `payment_paid`, `plan_changed` and device events lack
  fields the gate requires (`App.tsx:6150-6163`); `loadTransportProfiles` (1806-1823)
  and the DPI monitor's `load` (3564-3597) are not cancelled, so the answer of another
  node or window may stay; `detailsLoading` stays set when the list empties while details are in
  flight; a page beyond the first that always fails makes the panel alternate between it
  and the first; overlapping refreshes may leave the dashboard older than the last
  action (`overlapped`).

## Proofs

`EventPipelineProofs` (any numbers of events, requests, slots, attempts, stalls,
retries and crashes):

* `TypeCorrect`.
* `Invariance`: the inductive invariant `IInv`. The checked properties are not
  inductive: that a completed row was applied needs that a slot past its handler
  has applied it and that a completed job was applied; the budget of a job whose lock
  never lapsed needs the ledger `Ledger` of starts against attempts, stalls and the
  current state, and `Alone`: such a job's run has the lock, is its only run and knows
  its attempts; `OneRunPerJob` needs `Paid`, the runs and the run that is due against
  the stalls;
  `AckedIsAccepted` and `RetryIsNotFirst` need what an open request knows of
  the jobs.
* `AcceptedEvents`, `CompletedEvents`, `BoundedStarts`, `ExclusiveRuns`,
  `RetriesFollow`: the safety properties, from `IInv`. Of `StartBudget` the case of jobs
  whose lock never lapsed is proved (`UnlapsedBudget`); the other needs a sum over the
  runs of a job and is model-checked only.
* `PipelineImplementsDelivery`: initial states map to initial states and each
  step to a step of `EventDelivery` or a stutter. `OutcomeCases` is the lemma
  that reads an event's outcome off its jobs.

`ProvisioningProofs` (any numbers of subscriptions, backends, workers and
handlers, any capacities, plans and kinds; no assumption on what overlaps):

* `TypeInvariance`, `TypeCorrect`: with `Fits`, which handler can be at which step.
* `CapacityBound`: `LoadWithinCapacity` by way of `LoadInv` (a stale edit holds a
  load that was in range of some capacity).
* `HomeInv`, of the subscriptions that are not `crossed`: what a handler knows of the row
  it has read, as long as that row is there (`RowsSeen`, `PaymentsKnow`), that payments
  are alone, that a counted unit is on the row or in a payment's hand (`UnitsHeld`), that
  while the payment of a purged row goes on the next row has nothing yet (`Strays`), and
  that a recorded bucket exists or was wiped (`BucketsKept`). `HomeStep` is the crux: any
  step of a handler that is `Lawful` in its own subscription keeps all of it; then one
  lemma per action. `StickyAllocation`, `UnitsCountedOnce`, `BucketsLostByDeletion` follow.
* `LateInv`, of those that are not `late` either: a row on its way to deletion names the
  backend the table does (`DelSeen`), and past its bucket there is none (`BucketGone`),
  because no payment that makes one has met the deletion (`NoMeeting`):
  `DeletionsDeleteBuckets`.
* `WriterInv`: a handler that wrote its row last finds there what it is going to report
  (`WritersTold`), and one whose row is gone did not write the row there is
  (`GoneUnwritten`): `BillingIsToldTheStatus`. No bound on overlaps, failures,
  crashes, purges or edits in any of these.

`DeviceAccessProofs` (any numbers of devices, handlers, nodes, profiles and
logins, any kinds, capacity and failures):

* `Invariance`: `IInv` is the types, that every handler is at a step that fits
  its kind and what it holds, and `Names`: not only the stored rows but also the
  rows each handler has read, and what it has got for each part, name the node
  of their client. The stored rows alone are not inductive, since handlers save
  rows as they were read. `Added` is the crux: a new client takes a login that
  nothing names yet, so what the rows say of theirs stays true.
* `TypeCorrect`, `RowsNameNodes` follow.
* `UInv`: an undone login is not only out of the stored rows but out of every row a
  handler has read and of every hand but that of the handler undoing it (`Tidy`), and
  a login that is fresh, the only kind that is undone, is in one hand and no
  row (`Private`). So a handler that saves rows read long ago cannot grant it.
  `UndoneClientsNotGranted` holds under any overlap, failure and crash.
* `LInv`: the live clients are finitely many, and each unit counted is charged to a
  client, to a handler that owes one or to a loss that was recorded:
  `UnitsAccounted`. The lemmas say how the three cardinalities change with a step.
* `SInv`: a row, and a handler, name only clients of their own device and part
  (`Owned`), and each handler is at a step of its kind (`Stages`). Of a device that is
  not `met`, one handler at most minds it; that handler has made of it what its step
  says (`Serves`, `Ends`), and while none does a ready device has its client (`Fine`)
  and is not ready in an ended subscription (`Rests`). `KeptFine` and `KeptPromise` say
  that a step leaving the device alone keeps all this, `OwnStep` that the minding
  handler's does; then there is a lemma per action. `ReadyDevicesAreLive`,
  `EndedDevicesNotReady`: no bound on overlaps, failures or crashes; what they break is
  the device they happen at, and that is recorded.

`NodeFleetProofs` (any numbers of nodes, of requests that edit and check them and of
device handlers, any capacities):

* `FleetInv` is the types; `NodeKnown` for every node that has not raced; the
  sweep's books; and `LoadInv`. `NodeKnown` says what the properties say of the row and, which makes
  it inductive, that each call on the node still holds the words of the row as it is
  (an edit: with its own), so that saving the whole entity changes only what the call
  is about. `WriteFacts` is the crux: a write that leaves its node out of `raced`
  has found no other call on it.
* `LoadInv` is `LoadIsBacked` with the same of what every call is about to save
  (`Current`), unless the call is out of date: a handler that counts a client out makes
  the calls that hold the row's old load so, and a load saved by such a call, or read
  from a row one was saved to, passes the mark on.
* `FleetTypeCorrect`, `OperatorIsObeyed`, `LoadIsBackedByClients`, `SweepIsComplete`
  follow.

`PanelProofs` has a section for the panel's session cache and one for its inbounds:

* `PanelSession` (any number of concurrent calls): `RetryIsFresh`, that a call
  on its retry has a cookie of its own login, makes `RefusedOnlyIfDropped`
  inductive: `SessionTypeCorrect`, `OneRetrySuffices`.
* `InboundMapping`, `RuntimeConfig` (any number of applies): `MappingInv`. An inbound has
  the settings of its security and network, complete, and no others (`WireFits`);
  a row that knows its inbound says of it what a sync would write (`RowOfWire`); and
  one that does not, since its creation was refused or its answer lost, still has the
  secrets of the inbound it made (`SecretsInRow`), so a second creation repeats
  them. `ApplySettles` is the crux: an apply of a row that describes its inbound writes
  back what clients hold of it. `NothingEverDrifts`, `MappingTypeCorrect` follow, and
  from the completeness alone `ConfigsReachInbound`, by going through the
  parsers (`LinkSays`, `StreamSays`, `OutboundAccepted`).

`ClientProofs` has a section for each of the two programs that call the Orchestrator:

* `PaymentCallback` (any numbers of payments, callbacks and runs): `OneRun`, for
  each payment that is not excused: one run at a time between claim and mark; a
  credit has left a processed transaction or a run that will mark one; and a run
  that may still credit comes before any credit. With what a run has established by
  each step (`StageInv`) it gives `PaymentTypeCorrect` and `PaymentIsCreditedOnce`.
* `AdminConsole` (any actions, pages, lists and moves): `ConsoleInv`. Of each effect
  either its request is in flight, not cancelled and for the present dependencies,
  or what it shows is for them (`ListFits`, `DetailsFit`). While all is calm, with no
  action under way and no error shown, neither is older than the last action done, and a
  refresh that no other overlaps with shows it (`ViewFits`). `EffectsKeep` is the crux:
  a handler need only answer for the dependencies it leaves alone, since an effect
  asks again for the others. `PanelsSettle` follows. `ConsoleTypeCorrect` needs a count
  besides: its types bound every version by the operator's moves, which is not inductive.
  `MovesCover` charges to a move each write done or on its way and each version the panel
  asks for, with the actions still under way and a regenerate not yet answered; the
  lemmas say how the cardinalities change with a step.

`ServicesProofs` has a section for each of the modules that share the run `services`
and are small enough to need no module of proofs of their own:

* `TransportProfiles` (any profiles, inbounds, clients, administrators): `TpInv` says
  what each request still knows of the row it read, of the inbound it sends, of
  the panel's list and of the table, unless something marked it out of date. This
  is what makes `OwnedOnce` and `ClientsSurviveApply` inductive: a save
  that is not out of date writes back what is stored but for its own word.
  `RowsAgreeWithPanel`, `InboundsOwnedOnce`, `ClientsSurvive`, `ProfilesTypeCorrect`.
* `TelemetryHourly` (any events, reports, hours and default window): `HourlyInv`.
  A cutoff is a whole hour no earlier than the window asked for (`CutoffFacts`); a
  rebuild that has read and is not stale has read exactly what is recorded
  (`ReadFacts`); and what is due was recorded. `EventsCountedOnce`,
  `TelemetryTypeCorrect`.
* `RouteDecisions`: no state but the counts, so `DecisionsNeverConflict` is about the
  operators: `RateBounds`, `RateAtLeast`, `RateCounted` and `RateUncounted` bound
  the rounded rates, and `RowIsHealthy`, `TooManyForTheRows`, `MatrixWarns` and
  `StandingFollows` compare the thresholds of the row with those of the matrix.
  `DecisionTypeCorrect` needs that the counts add up to the samples (`CountsBounded`).
* `RateLimit` (any window, limit and pruning interval): `LimitInv` ties a counter to the
  requests it let through. A pruned counter has ended, a kept one counts
  those since its window began, and no span of that length meets more than two
  windows (`SpansHold`). `LimiterHolds`, `LimitTypeCorrect`.
* `WebhookGate` (any clock offsets): `GateInv` says which answers a settled environment
  and a request can have got; `EdgeLetsServableIn` follows by going through
  the checks in the order the code makes them (`AnswerSays`). `GateTypeCorrect`.
* `Catalogue` (any templates, types, domains, urls and editors): `CatalogueInv`. A
  type that is not tangled has at most one default, and it is the chosen one
  (`DefaultFits`); an editor between clear and save is alone on its type
  and no default is left (`AloneFits`, `ClearedFirst`). `ConfigsFollowTheCatalogue`,
  `CatalogueTypeCorrect`.
* `DeviceRows` (any devices, installations, rows and handlers): `RowsInv`. A row once
  made stays with its device, whichever copy of it is saved back (`RowsStay`); two calls
  under way on one device both know it (`Crossing`); and a call that no other overlaps
  with on a device finds what it has itself done there so far (`Alone`): still to list
  or serve it, its row closed, or its snapshot in hand and as the row is. A
  call that has overlapped promises nothing, and leaves the outcome open.
  There is a lemma per action; `DevicesFollowCalls` follows, and with the counts of
  `RowCounts` `DeviceRowsTypeCorrect`.
* `PlanMapping` (any numbers of plans, subscriptions and calls): `ActiveHasPlan` is
  inductive with the types. `PlanRowWritten` is the crux for the worker (a row is only
  ever written with a plan that is stored, or with the one it names), `DeletionsKeep`
  for operators (the detaching UPDATE looks at the status again, and the foreign key
  keeps a plan that a row has come to name): `PlanTypeCorrect`, `PlanIsNeverTaken`.

`MCServicesProofs` is about the composition that the run `services` checks.
`EachStepsAlone`: a step of it is a step of the component that runs and leaves the
others' variables alone. So a behaviour of it is one of each component
(`ComponentsApart`), and the theorems above carry over: `ServicesTypeCorrect` and
`ServicesHold` state, for every value of the constants, everything the run checks. Only
`InboundMapping` rests in a state it never starts from (no row typed, no inbound made);
there `MappingInv`, which that state satisfies, takes the place of its specification.

The assumptions are `PipelineAssumption`, `ProvisioningAssumption`,
`AccessAssumption`, `FleetAssumption`, `SessionAssumption`, `PaymentAssumption`,
`PlanAssumption`, `ProfilesAssumption`, `TelemetryAssumption`, `SamplesAssumption`,
`LimitAssumption`, `GateAssumption`, `CatalogueAssumption`, `DeviceRowsAssumption`,
`MappingAssumption`, `ConsoleAssumption` and `MarkersAssumption` (ranges of the constants, that no client, item
or request is a marker such as "none", and that a device that is served has a row; all
evaluated by TLC).

Only model-checked: the liveness property `DeliveryFairSpec` (fairness is out of the
prover's reach). Every other property of the passing runs
has a theorem, for every value of the constants.

## Not modelled

* Audit logs, job and health endpoints: append-only rows and views of other
  components' state.
* What each column of a plan does, but `storageEnabled`, which decides branches of
  provisioning; the quota and the flags go to the providers as they are.
* Policy apps: rows with a unique package name, whose checks are those of the
  domain endpoints.
* The branches of `syncProvisionSnapshot` for VPN material at the service level, which no
  write of the code leaves there.
* Migrations and the data source, and of `validateEnv` what the edge does not read.
* Of the admin page the forms, formatting and the panels without a paged list. Of the
  YooKassa adapter amounts and currencies.
* Everything the code only formats: errors, logs, links, billing configs.
