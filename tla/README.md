# MyHomeHub in TLA+

MyHomeHub is a NestJS server that keeps the devices of a home (ESP32 boards, Zigbee, Shelly, Tuya and Philips
devices), the scenarios that act on them, and the accounts of the people who live there. It stores its documents in
MongoDB, its reset tokens in Redis, talks to devices over MQTT and HTTP, and runs cron jobs.

The hub is one Node process: between two `await`s a handler runs alone, at every `await` any other handler may run.
Almost all of its difficult behaviour comes from this: documents are read, awaited upon, changed and saved, while a
cron tick, a message of a device, the file watcher or another request reads and saves the same documents. The models
are therefore written **one action per section between two awaits**; a document that was read is kept in the
handler's record until the handler saves it.

- [Components](#components): what the system consists of
- [Modules](#modules): which module models which part, and how it corresponds to the code
- [Runs](#runs): what TLC checks, within which bounds
- [Fairness](#fairness)
- [Proofs](#proofs): what TLAPS proves, for every value of the constants
- [Where the code and what is said of it differ](#where-the-code-and-what-is-said-of-it-differ)
- [What is not modelled](#what-is-not-modelled), [Plan](#plan)

Paths are relative to `src/src/` of the repository. `PROJECT.json` lists, for each definition of a module, the lines
it translates; for each run its properties; for each property a change of the code's model that breaks it; and every
hazard the properties are there for.

## Components

| component | state it keeps | operations | what is hard about it | what makes it correct |
|---|---|---|---|---|
| **Scenarios** (`scenarios/`, registry of `scheduler/`) | the collections `scenarios` and `scenario_groups`; the cron-job registry, in memory, keyed by scenario *name* | add, update, remove; create, delete, purge groups; execution by a cron tick, a device update or a command, which counts `repeatTimes` down | document, group counts and registry are updated in separate awaited steps, each of which may fail; jobs are keyed by a name that an update changes; executions save documents they read earlier; the registry is lost with the process | every active cron scenario has its job and no other does; counts are exact; a scenario is executed as often as its `repeatTimes` says; a refused schedule is rolled back |
| **Trigger logic** (`common/services/conditions-evaluator.service.ts`, `scenarios/schemas/`) | none | accept, parse and evaluate a boolean expression over trigger sources; compare conditions with devices and commands | the expression is accepted by a regular expression and parsed by a hand-written parser | what is accepted is evaluated as it reads |
| **Device configurations** (`device-configs/device-configs.service.ts`) | YAML files; the collection `deviceConfigs`; an in-memory cache; debounce timer, watcher | synchronise at boot and after edits: list, read, upsert, remove, clear the cache; look up a configuration | edits during a synchronisation, failing requests, replies that arrive after the cache was cleared, restarts | the collection is what the files say; the cache is what the collection says |
| **Payload translation** (`device-configs/device-configs-{parser,mapper,validator}.service.ts`) | none | normalise a file; translate payloads to and from a device; validate them; default payloads | names, paths and values are looked up in different ways in the two directions | a value sent and reported back is the same value; defaults are acceptable; a condition that is accepted can be met |
| **Devices** (`devices/`, `devices-control/`) | the collection `devices` with controls and measurements; the physical devices | add, update, remove; ESP32 pairing, state and measurement reports; reconciliation after changed configurations; sending controls | read, validate, send, save with awaits between; a message may be lost; a save may fail after the message was sent | an update changes only what it names; hub and device have the same controls; stored entries are the declared ones |
| **Zigbee names** (`zigbee/`) | friendly names in `devices`, in zigbee2mqtt's bridge, and in a static cache | rename from either side, device lists, rename responses, state reports, interviews, health | three copies of one name, kept equal by messages; lists, responses and updates cross; a unique index | hub and bridge agree in the end, without sending each other's renames back |
| **Accounts** (`users/`, `auth/`) | `registrationRequests`, `users`, reset tokens | create, cancel, approve, reject and black-list requests; register, sign in with Google, link, unlink; reset a password | check-then-act across awaits, partially failing sequences, tokens used twice | nobody gets in, or gets a role, without an approval; a Google account signs in to one user; a token works once |
| **Day-time adjustment** (`scheduler/scheduler.service.ts`) | none of its own; the cron strings in documents and jobs | moves adjustable crons to sunrise or sunset each night, through `updateScenario` | a sequence of updates, the first failure of which ends it; users act between them; rollbacks reschedule with the old string | the job ticks at the time the document says; a night adjusts every adjustable scenario up to the first at which it fails |
| **Scenario validation** (`scenarios/scenarios-validator.service.ts`) | none | refuses scenarios with unknown devices or unacceptable conditions and actions | what is accepted is sent, reported and compared by other parts, each with its own idea of the value | an action that was saved brings about what it says, and a condition on it is met, unless the brand refuses |
| **Automation** (the events between `devices/` and `scenarios/`) | pending events and updates | a completed update, or a command, makes the scenarios that name the device evaluate their conditions and ask for updates, which complete in turn | the conditions of one scenario are read at different instants; events overlap; scenarios answer each other | a scenario whose conditions become met reacts; one command executes it once; cascades end |
| Device providers and transports (`devices-control/`) | connections | send a payload to a device | | |
| Zigbee health monitor, tokens and guards, mDNS discovery, MQTT client, throttling, HTTP layer, database set-up, configuration files | see [What is not modelled](#what-is-not-modelled) | | | |

How they interact: a request or a report calls `DevicesService.updateDevice`, which asks `DeviceConfigsValidatorService`
(through the cache of `DeviceConfigsService`), sends controls through the transport, saves the document, calls
`ZigbeeService.renameDevice` if a name differs, and emits `DeviceUpdateCompletedEvent`.
`ScenariosExecutionService` listens to that event and to `DeviceCommandExecutedEvent`, and cron jobs call it as well; it
evaluates the trigger logic and emits `DeviceUpdateRequestedEvent`s, which lead back to `updateDevice`.
`DeviceConfigsService` emits `DeviceConfigsChangedEvent` after a synchronisation, upon which `DevicesService` reconciles
its documents. zigbee2mqtt's messages reach `ZigbeeService`, which emits `DeviceUpdateRequestedEvent`s.

## Modules

In every module a handler in flight is a record (`proc[p]`, `sync[t]`, `reader[r]`) whose `pc` names the await it
stands at; the record holds what the handler has read and what it is going to write. Operators that are introduced by
a comment beginning with *Fault* are not part of the specifications: each is a plausible mistake in the code, and
`PROJECT.json` names the property that finds it when the operator takes the place of the right one.

### Scenarios

`scenarios.service.ts`, `scenario-groups.service.ts`, `scenarios-execution.service.ts`, and the registry of
`scheduler.service.ts`.

| variable | code |
|---|---|
| `scenarios` | the collection `scenarios`: name, group, active, repeatTimes, and which kinds of trigger sources a document has |
| `groups` | `scenariosCount` of the documents of `scenario_groups` |
| `jobs` | `SchedulerRegistry`: by scenario name, the scenario whose id the job's closure holds |
| `proc` | handlers of HTTP requests, cron ticks and device events, at an await |
| `quota` | history: how many executions the last user's change of `repeatTimes` still allows |

| actions | code |
|---|---|
| `StartAdd`, `Insert`, `ScheduleAdded`, `RemoveAdded` | `addScenario`: look for the name, `save` under the unique index, increment the group, schedule, and remove the scenario again when `CronJob` or the registry refuses |
| `StartUpdate`, `SaveUpdate`, `Reschedule`, `Rollback`, `RescheduleOld` | `updateScenario` and its `onFailure`. `Merge` is Mongoose's `save()`, which sends the modified paths; `Rollback` is the `$set` of the old document's defined paths |
| `StartRemove`, `Delete`, `Unschedule` | `removeScenario` |
| `GroupRead`, `GroupSave` | `upsertGroup`, with its read, its absolute count and the schema's `min: 0`; used by additions, updates, removals and `createGroup` |
| `StartDeleteGroup`, `ClearGroup`, `DropGroup` | `deleteGroup`, with `deleteScenarios` or without |
| `Fire`, `DeviceEvent`, `Execute`, `SkipExecution`, `ReadCounted` | the cron job's handler, `onDeviceUpdateCompleted` and `onDeviceCommandExecuted`, `execute`, `updateScenarioRepeatTimes` (which goes through `updateScenario`) |
| `Restart` | the process ends and starts again: `onModuleInit` schedules what is stored |

The trigger of a scenario is abstracted to whether it has a cron source, device sources or both; `"bad"` is a cron
expression that the DTO's validation lets through and `CronJob` refuses. Whether the device conditions of a scenario
are met is a choice (`SkipExecution`); [TriggerLogic](#triggerlogic) and [Automation](#automation) are about that part. The constant `Requests`
selects which stimuli a run has, so that one module serves runs with quite different questions. `Fresh` lets an id be
used again only when nothing in the hub refers to it any more, as the real ids are random. `MCScenarios` lists the
documents at boot and the DTOs of each run.

The run of overlapping executions uses `CalmSpec`, the specification without the steps from positions at which
`CalmInv`'s `HandlerCalm` allows no handler; a handler that reached such a position would still violate `CalmInv`. The
theorems are about `Spec`.

### DayTime

`scheduler.service.ts` on top of `Scenarios`: the same actions, with the cron strings carried along. A string is
abstracted to the day it was computed for: `clock` is what the document says, `jobClock` what the registry's job ticks at,
`carry` the strings a handler has read and is going to save. `Nightfall` is the nightly cron with
`getScenariosWithAdjustableTime`; `AdjustNext` is one turn of the loop in `handleDayTimeAdjustments`, which submits the
trigger that was *fetched* (and so takes back a trigger a user changed meanwhile), and whose string `updateScenario` computes
once more; `Awaits` ends the loop when that update throws. What throws before anything is saved is `Fails`: an `adjustTo`
stored as `null` (the triggers of `NullAdjust`: the query's `$exists` finds them, `updateCronTime` has no time of day for
them), a scenario that was removed meanwhile, or a trigger that `validateScenario` refuses (`Valid`).
`sensor` is the device that triggers name, all of them the same one with the same conditions: it fits them, or its configuration,
brand, type or protocol has been altered so that the conditions are refused (`AlterDevice`, there and back), or it
has been removed (`RemoveDevice`). Only a submitted trigger is validated, never the stored one. A handler validates before its writes, so an
alteration during a handler is taken as one after it. Failures of the database, and places and days without sunrise or sunset,
where the computed string is refused, are left out. Handlers take turns, and the night gives way between its updates; a night
begins when no handler is in progress. The night's updates have the kind `"count"`, as they change no quota. The copy of a
trigger by spreading is taken to keep its logic, as its getter does.

### Automation

The composition of `Devices` and `Scenarios`, by the two events that connect them. It extends `Scenarios`: the handlers of the
scenarios side are that module's, with the coin flip of `SkipExecution` replaced by the stored state.

| actions | code |
|---|---|
| `SubmitWork`, `RemoveDevice`, `Refuse` | the API, a device, or a device that does not accept what it is sent |
| `ReadDevice`, `SaveDevice` | `updateDevice` around its awaits, and `DeviceUpdateCompletedEvent`, which is emitted even if nothing has changed |
| `SendCommand` | `sendCommand`, `DeviceCommandExecutedEvent`, and the controls that came in the same Zigbee message |
| `OnDeviceUpdateCompleted`, `OnDeviceCommandExecuted` | the listeners of `ScenariosExecutionService` |
| `Evaluate` | `extractConditions`, one awaited device at a time, then `evaluate` and `executeScenario`; the error of a device that was removed ends that scenario, not the handler |
| `Tick`, `Count` | the cron job's handler; `updateScenarioRepeatTimes` |

A device has one control here, with two values; a scenario combines its sources by AND or OR (`TriggerLogic` has the
expressions). Events are lost with the process, which does not restart here. `due` is a history variable: the
scenarios whose conditions have become met on the stored state since they were last executed. Two consequences of the code that the
properties state as conditions: scenarios that are not counted may answer each other for ever, as an update that changes nothing
triggers as well (`CascadeEnds` assumes `repeatTimes`); a scenario of alternatives of which one names a removed device never
runs again.

### DeviceConfigs

`device-configs/device-configs.service.ts`. `disk` is what each file holds (a version, `Broken`, or `NoFile`), `db` the
collection, `cache` the map `configsCache` (which caches misses, too), `watching` and `timer` the watcher and its
debounce timer, `sync` the synchronisations in flight (`Boot` is the one `onApplicationBootstrap` awaits before it
starts the watcher; the others are started by the timer, without regard to each other), `reader` the calls of
`getConfig` that missed the cache. `List`, `Read`, `Upsert`, `RemoveStale` and `Finish` are `syncFromDisk` and
`syncToDatabase` await by await, `Promise.all` being the free order of `Read` and `Upsert`. `Fail` is a directory or
database error of a synchronisation: `Promise.all` rejects at the first failing upsert while the others still arrive
(`"abandoned"`), and the remaining steps are skipped. `missed` is a history variable: an edit that no synchronisation
is bound to see (made before the watcher runs and after the boot has read the file), or an error, neither of which the
hub makes up for before the next edit or restart.

`PromptReplies` says whether a reply to a lookup is handled before a later change of the database; `FALSE` allows the
opposite order, see [below](#where-the-code-and-what-is-said-of-it-differ).

### DeviceStore and Devices

`DeviceStore` is the abstract specification: clients submit requests, and each takes effect at one instant, on the
documents as they are at that instant (`Update`, `Add`, `Remove`, `Tidy`), or is refused. An update gives the
entries it names their new values and leaves all others alone; a reconciliation adds declared entries that are missing
and removes undeclared ones.

`Devices` is `devices/devices.service.ts` with `devices-mqtt.service.ts`, `devices-control.service.ts` and the
validation of `device-configs-validator.service.ts`. `docs` is the collection (the configuration key, i.e. brand, type
and protocol, and the entries of controls and measurements), `config` what `getConfig` answers, `device` the controls
the physical device has, `reports` the states it has published.

| actions | code |
|---|---|
| `ApiUpdate`, `ApiRekey`, `Report`, `Measure`, then `ReadDoc`, `Merge`, `Defaults`, `Send`, `Save`, `SaveRefused` | `updateDevice`: read; `mergeValidateControls/-Measurements`; `applyConfigDefaults` when the key changed; `setControls` (every error of which is swallowed); `save` of the modified sections |
| `ApiAdd`, `LookupName`, `Merge`, `Defaults`, `Insert` | `addDevice` |
| `ApiRemove`, `Delete` | `removeDevice` |
| `PairRequest`, `LookupByIp`, `Reply` | `handleEsp32DevicePairRequest` and `PairAcceptDto` |
| `ConfigsChanged`, `FindDevices`, `BulkWrite`, `ReconcileEnds` | `onDeviceConfigsChanged`, `reconcileDevicePayloads` |
| `DeviceActs` | somebody uses the device itself |

A pair request of a known device may carry no measurements: `updateDevice` is then called with `measurements: undefined`,
which cannot be validated or merged, and the pairing is rejected (`Unmeasured`).

`Devices` implements `DeviceStore` under the mapping `Store`: `docs` without the keys, and `RequestOf`, which reads off
a handler's record what it has taken on and not yet carried out. The effect is at the `save`. `Exclusive` keeps handlers
that would write the *same section of the same device* from overlapping; handlers of different sections, of different
devices do overlap. A reconciliation writes whatever its configuration concerns and counts as a writer of everything, so under `Exclusive`
nothing that writes runs beside it. Without `Exclusive` the refinement does not hold, which is a
property of the code and described [below](#where-the-code-and-what-is-said-of-it-differ). `astray` and `loose` are history
variables for the two things the hub knowingly leaves open: a message that did not reach the device, and
an override (or a new key) that leaves a document with other entries than its configuration declares.

### ZigbeeNames

`zigbee/zigbee.service.ts`, `ZigbeePairableDevices`, and the parts of `devices.service.ts` that concern the friendly
name. `stored`, `cache` and `bridge` are the three copies of a name; `toBridge` and `toHub` are the MQTT topics, in
order. `HandleList` + `SyncFriendlyNames` is `onConnectedDevicesListChange`, `HandleResponse` +
`Select` `onDeviceFriendlyNameChange`, `HandleState` `handleDeviceStateUpdate`, `HandleHealth` `onBridgeHealthCheck`;
`Read`, `Save`, `Compare` are the update that each of them, or the API, requests through `updateDevice`, whose end
compares the stored name with the *cached* one and publishes a rename if they differ; `Check`, `Insert`, `Announce`
and `Delete`, `Expel` are adding and removing. `BridgeApplies`, `BridgeRenames`, `BridgeJoins`, `Interview`,
`DeviceState`, `HealthReport` are zigbee2mqtt, which is external and modelled from what the hub expects of it: it
publishes its list after every change and before the response, the broker retains the list (so the hub gets it after a
restart), names are unique, and a rename to a name that is taken is refused. It is assumed that messages of one
sender arrive in order, and that nobody adds the same device twice at once.

History variables: `asked`, the name the API asked for last; `astray`, a rename that was dropped because the bridge is not connected,
or refused by the bridge; `blocked`, a name that the unique index refused.

### Accounts

`users/registration-requests.service.ts`, `users/users.service.ts`, `auth/auth.service.ts`,
`auth/google-auth.service.ts`, `auth/password-reset-tokens.service.ts`. `requests` and `users` are the collections, by address,
`tokens` the reset tokens in Redis. A request or a user is read, judged, and saved at a later
step (`ReadRequest`/`SaveRequest`, `Reread`/`SaveUser`), as modified fields only (`Written`). The unique indexes on
addresses and Google hashes and Redis' `GETDEL` are atomic and modelled as such. `Fail` ends any handler at any
of its steps: an error of the database or of Redis, or the end of the process. Histories: `granted`, the roles an
administrator approved; `credit`, tokens issued less passwords changed; `raced`, addresses for which two handlers that
write the same document ran at once, about which some properties promise nothing.

### TriggerLogic

A pure part: the state is a request being written token by token (`Write`) and saved (`Save`) if `Accepts`
(`validateTriggerLogic`) and `ValidSources` let it. `Parse` and `Evaluated` follow `parseTriggerExpression` and
`evaluateExpression` token by token, with the recursive calls on a stack (`callers`, `outer`): what the parser pushes as
a nested array is written as its elements in parentheses (`Group`), and the loop that evaluates a nested array is begun
and ended by them (`EvaluateItem`). `Reading` is an independent reference, which splits an expression at its last outer
operator. `Conditions` and `Executes` are `extractConditions` and `execute`.

### ConfigPayloads

Another pure part: the state is a configuration file being written item by item, and whether it is strict. `Config` is
what `DeviceConfigsParserService` makes of it, `ToDevice`, `FromDevice` and `Categorized` are the translations of
`DeviceConfigsMapperService`, `AcceptsField`, `PayloadErrors`, `ConditionErrors`, `Sanitized` and `Defaults` those of
`DeviceConfigsValidatorService`, `ScenarioRefused` is `ScenariosValidatorService.validateConditions`. The properties
hold of *clear* files (`Clear`): no two items are the same to the device, names are unique. Two items may share the name
they have on the device (several booleans packed into one field) only if each declares values, and what the one sends the
other does not understand (`Apart`). That the first must declare values at all came out of the proof of `MqttEcho`: an
item without values sends its own `true`, which the other item may read as its own. Which values can make the
way there and back is stated by `Settable` and `Reportable`.

### ScenarioPayloads

Extends `ConfigPayloads` by scenarios about one device with that configuration. `Validated` and `Storable` are
`ScenariosValidatorService.validateScenario` and the validators of the schemas; `Executed` is `executeScenario` with
`updateDevice`; `Echo` is the device's report of what it was sent, mapped and merged back; `IsMet` is `deviceConditionIsMet`.
`Updated` is `mergeValidateControls` after the configuration's rules: the brand's DTO judges the merged controls, those that were stored before
as well, and what it throws leaves the document as it was (`BrandRefuses`). Every field of these DTOs is optional and judged by
itself, so a brand is the set `BrandRefused` of fields it refuses.
`ActionMeets` puts them together: an action that was saved, executed on a device that holds acceptable values, leaves the device
as the action says, the device's report changes none of it, and a condition on the same value is met; unless the brand refuses,
which nobody asked when the action was saved. It refuses only the value that is set, or the default of another control:
defaults are stored without asking it, and until they are replaced bar every update of the device. A configuration that changes after the
scenario was saved is left out (its actions may then be refused with a log line). An action that sets only measurements is
saved and does nothing; objects are compared by identity and are excluded.

### Proof modules

Eight modules named `…_proofs` extend the modules they are about: `Scenarios_proofs` and, on top of it,
`DayTime_proofs`; `Automation_proofs`, `DeviceConfigs_proofs`, `Devices_proofs`, `ZigbeeNames_proofs`, `Accounts_proofs`,
and `ScenarioRules_proofs`, which is about `ConfigPayloads`, `ScenarioPayloads` and `TriggerLogic`. The `MC…` modules only give values and symmetries.

## Runs

Each run asks a question of its own. States are distinct states, up to the symmetry of the run.

| run | question | bounds | states |
|---|---|---|---|
| `scenarios_seq` | Are schedules, cron strings, group counts and `repeatTimes` right, are refused updates undone, and does a night reach every scenario, when requests do not overlap? | module `DayTime`: 2 ids, 2 names, 1 group, 1 handler, `repeatTimes` ≤ 2, 1 night; additions, updates, removals, groups, ticks, device events, `adjustTo` null, a removed or altered device | 1.67 M |
| `scenarios_executions` | Do schedules stay right when executions, deactivations, removals and restarts overlap? `CalmInv` is the inductive invariant of the proof | 2 ids, 2 names, 2 handlers, `repeatTimes` ≤ 2 | 697 k |
| `automation` | Do scenarios react to what becomes true, once per command, and do cascades and counted schedules end, although executions overlap? | 2 scenarios, a lamp and a fan, 2 handlers, 5 homes, 2 calls, `repeatTimes` ≤ 3, ticks only while fewer than 2 updates and events are pending | 94 k |
| `scenarios_inactive` | *Violation:* an inactive scenario is executed on its schedule | 2 ids, 2 names, 1 group, 1 handler | |
| `configs_sync` | Do collection and cache follow the files, through edits during a synchronisation, errors, restarts and lookups? | 2 keys, 1 version, `Broken` and `NoFile`, boot and one synchronisation, 1 reader, 2 edits, 1 error, 1 restart | 72 k |
| `devices_updates` | Does every request take effect at one instant? Do device and hub agree, and documents conform, when nothing is under way? | 1 device, 2 controls, 1 measurement, 2 handlers, 2 keys, 4 configurations, 1 lost message, 3 requests or actions | 557 k |
| `zigbee_pair` | Do two devices that take over each other's names end with the bridge's? | 2 devices, 3 names, 1 call, 2 renames at the bridge, 1 interview, 1 restart | 1.44 M |
| `zigbee_live` | Do hub and bridge agree in the end, and does the hub never send a rename back? | 1 device, 2 names, one of each event | 312 k |
| `accounts` | Does nobody get in, or get a role, without an approval? Are Google accounts and reset tokens used once? | 2 addresses, 2 Google accounts, 1 token, 2 roles, 2 handlers, 5 requests | 700 k |
| `trigger_logic` | Is every accepted expression evaluated the way it reads? | 7 tokens, 3 sources: cron, conditions on controls, conditions on commands | 195 k |
| `trigger_foreign` | *Violation:* a command of one device meets a condition on the commands of another | 3 tokens, 2 sources | |
| `config_payloads` | Does a value that is sent and reported come back as it was? Are defaults accepted, accepted conditions meetable, and do saved actions bring about what they say? | 2 items in three sections, of all types, with and without values, paths, constraints, defaults; strict or not; a brand that refuses some values and a default | 18 k |

Why these bounds are enough to meet the interesting cases:

- *Scenarios.* Two ids and two names give a rename onto a taken name, a swap, and a job left under the name of another
  scenario; the one group can be left, joined, deleted and re-created. `repeatTimes` 2 tells the last execution from
  the one before. Two overlapping handlers show every
  race of a read with a save; a device event holds a whole queue of scenarios besides. One night suffices for the day-time
  adjustment, as a string is either today's or older; it can fall before, between and after any of the requests. The
  updates of `scenarios_seq` leave out a DTO that activates a scenario and has its trigger refused: that alone
  leaves the job of an inactive scenario, the finding of `scenarios_inactive`.
- *Automation.* Two scenarios can answer each other, wait for each other's devices, or overlap in counting; `repeatTimes` 3 lets
  a stale save raise a count again. The five homes are: a cascade, a scenario about two devices, two schedules, a schedule
  that sets off a scenario of alternatives, and a switch whose messages hold a command and its state.
  Handlers are alike, so a new one takes the first free slot.
- *DeviceConfigs.* Two edits put one inside a synchronisation, and one after it began; two keys tell "deleted"
  from "everything deleted" and let one upsert fail while the other is under way.
- *Devices.* Two controls and a measurement are the least that tells an entry, a section and a document apart; the four
  configurations are strict with all items, with one less, with only a measurement, and not strict.
- *ZigbeeNames.* Three names let two devices exchange theirs. Each kind of outside event is bounded on its own (the
  constants `Max…`), because what matters is their order, not their number.
- *Accounts.* Five requests are: create, approve, register or sign in, and two more that overlap with them.
- *TriggerLogic.* Seven tokens hold three operands, two operators and a pair of parentheses; the accepted expressions
  of fewer tokens include those with parentheses left open or one too many.

`CHECK_DEADLOCK FALSE` stands where a counter in a guard lets every handler run out of requests (`accounts`,
`automation`, `configs_sync`, `devices_updates`, `zigbee_pair`, `zigbee_live`), and where a file or an expression is written
to its end (`config_payloads`, `trigger_logic`, `trigger_foreign`). The other runs have no such bound, and deadlock is checked
in them.
Symmetry is used only in runs without liveness.

## Fairness

- *Automation* (`AutoFairness`): weak fairness of the steps of each handler and of the updates being served, because Node
  resumes an `await` once its promise is settled. Strong fairness of the events of each device and of the tick of each job: an emitted
  event reaches its listener, a registered cron job ticks again and again, and the hub has no limit on handlers, so that
  neither is turned away. It has to be strong because `Procs` bounds the model: a handler that occupies the last slot
  disables them for a while. Users, devices, refusals and removals are never bound to act.
- *DeviceConfigs*: weak fairness of the steps of a synchronisation, including the timer, and of lookups.
  Edits, errors and restarts are never bound to happen.
- *ZigbeeNames*: weak fairness of the steps of handlers, of the arrival of messages, of the bridge carrying out requests, and of
  the bridge reporting that it is back (`HealthReport(TRUE)`), which zigbee2mqtt does at an interval. Renames, joins,
  outages, restarts and API requests are never bound to happen.

The other modules state safety only.

## Proofs

TLAPS proves these for every value of the constants that satisfies the modules' named assumptions.

| theorem | says | argument |
|---|---|---|
| `Scenarios_proofs!TypeCorrect` | `Spec => []TypeOK` | `TypeOK` is not inductive: a handler at `"save"` has an old document, one at `"groupRead"` has a group to leave or to join. `Shape` says what a record holds at each await, `Typed` is `TypeOK` and `Shape` |
| `Scenarios_proofs!CalmInvariant`, `CalmSchedules`, `CalmNoZombies` | under `Calm`: `CalmInv`, and from it `NoMissedSchedule` and `NoZombieJob`, for any number of handlers and restarts | see below |
| `Scenarios_proofs!TurnsSchedule`, `TurnsNoZombies`, `TurnsCount`, `TurnsQuota`, `TurnsFetch` | under `Turns`: `NoMissedSchedule`, `NoZombieJob`, `CountsExact`, `QuotaRespected`, `FetchedActive`, through every addition, update, removal, refused schedule, group operation and execution | see below |
| `Scenarios_proofs!TurnsRollback` | under `Turns` and `RefusedAlone`: `RollbackRestores` | see below |
| `DayTime_proofs!AdjustedSchedules`, `AdjustedNights` | under `Turns`: `ScheduleCurrent` and `NightReaches`, for any number of nights | see below |
| `DayTime_proofs!AdjustedRegistry` | under `Turns`: what `Turns` guarantees of registry and counts survives the nights | the nightly update is one that counts down, with other strings |
| `Automation_proofs!ScenariosReact` | `AutoSpec => []Reacts`, however handlers overlap | see below |
| `Automation_proofs!CommandsExecuteOnce` | `AutoSpec => []CommandOnce`, however handlers overlap | see below |
| `DeviceConfigs_proofs!TypeCorrect` | `Spec => []TypeOK`, which says, too, that only parsed files are upserted | inductive |
| `DeviceConfigs_proofs!SerialSyncsReflectDisk` | for `Syncs = {s}`: `DiskReflected`, for all keys, versions, edits, errors, restarts and lookups | see below |
| `DeviceConfigs_proofs!CacheStaysFresh` | under `PromptReplies`, and either `MaxFailures = 0` with any number of overlapping synchronisations, or one slot and any number of failures: `CacheFresh` | see below |
| `Devices_proofs!TypeCorrect` | `Spec => []TypeOK`, handlers taking turns or not; no refused control is ever stored | `Typed`: `Shaped` says what a handler holds at each await, `Effect` that what it has computed is a merge of its payload into what it has read, `Limited` which sections it leaves alone |
| `Devices_proofs!ImplementsStore` | for `Exclusive = TRUE`: `UpdatesAtomic`, i.e. `Devices` implements `DeviceStore` | see below |
| `Devices_proofs!ConfigurationsHold` | for `Exclusive = TRUE`: `Conforms` | see below |
| `Devices_proofs!HubAndDevicesAgree` | for `Exclusive = TRUE`: `DeviceAgrees`, for any number of lost messages | see below |
| `ZigbeeNames_proofs!NamesStayApart` | `Spec => []TypeOK`, which includes that no two devices of the hub, and no two of the bridge, have one name, for any overlap | `Typed` and `Unique`: every write of a name is checked by the unique index or by the bridge at the step that writes it |
| `ZigbeeNames_proofs!NamesAgree` | for `Exclusive = TRUE`: `Synced`, for any number of devices, messages, outages and restarts | see below |
| `ZigbeeNames_proofs!RenamesAreAsked` | for `Exclusive = TRUE`, as long as no name is given to two devices (`OneOwner`, for any assignment `Owner` of names to devices): `NoEcho`, for any number of devices, messages, outages and restarts | see below |
| `Accounts_proofs!TypeCorrect` | `Spec => []TypeOK` | `Typed`: what is stored (`Stored`), what a handler holds at each step (`Shaped`), and that what it has read is still there (`Backed`) |
| `Accounts_proofs!GoogleAccountsUnique` | `OneUserPerGoogle` | only `InsertUser` and `SaveUser` write users (`UsersWrites`); each writes a hash that no other user has, at the step that checks it |
| `Accounts_proofs!UsersCanSignIn` | every user has a password or a Google account | unlinking saves one modified field. It does so only for a user that was read with a password, and a password is never taken away (`PasswordKept`, part of `Backed`) |
| `Accounts_proofs!LinksAreKept` | `LinkKept` | see below |
| `Accounts_proofs!RolesAreGranted`, `ShutOutStays` | `RoleGranted`, `ShutOut` | `Decisions`: what a handler is going to write about an address is what an administrator decided (`Judgements`), as long as no other handler for that address ran beside it (`Sole`), or the address is `raced` |
| `ScenarioRules_proofs!ReportsComeBack` | controls of any number, reported as they were sent, are sorted and translated into exactly those controls, and no command or measurement | see below |
| `ScenarioRules_proofs!ZigbeeEchoes`, `MqttEchoes` | `ZigbeeEcho`, `MqttEcho`, for every file | see below |
| `ScenarioRules_proofs!DefaultsAreAccepted` | `DefaultsAccepted`, for every file | a default was judged by the item it was declared with, which is the item of its name if names are unique (`DefaultsAre`) |
| `ScenarioRules_proofs!ConditionsAreMeetable` | `ConditionsMeetable`, for every file | the report that meets a condition is named: the path of the entry with the condition's value, or its text |
| `ScenarioRules_proofs!ActionsMeet` | `ActionMeets`, for every file | see below |
| `ScenarioRules_proofs!ExpressionsEvaluateAsRead` | `EvaluatesAsRead`, for expressions of any length and depth, any sources and conditions | see below |
| `ScenarioRules_proofs!MoreIsExecuted`, `CommandsAreForgotten` | `MoreIsMore`, `CommandsPass`, for every accepted expression, operand 0 and surplus parentheses included | `Steady`: evaluated under more met conditions, a sequence of tokens leads from a loop to one that is not behind, and under none to a loop that is not met; everything the parser builds is steady |
| `Accounts_proofs!ResetsAreOnce` | `ResetOnce`, for finitely many tokens and handlers | tokens in Redis and handlers that took one are counted together (`Covered`), by cardinalities: `GETDEL` moves one from here to there |

**Calm schedules.** `NoMissedSchedule` and `NoZombieJob` speak of moments at which no handler is in progress, so they
say nothing that an induction could use. `Calm` restricts requests to those that deactivate, count down or remove, and
that name no groups; then activity only ever ends. `CalmInv` says: names and ids correspond one to one in documents, in what handlers have read and in jobs
(`NamesFixed`); a handler that has read a document holds one at least as active as the stored one (`HandlerCalm`);
every scheduled scenario has its job; and a job whose scenario is no longer scheduled is owed its deletion by a handler
at its last await (`Owes`). The proof has one lemma per action, and a lemma about weakening a document (`WeakenCalm`)
and one about releasing a job (`ReleaseCalm`) that several of them share. `CalmInv` is also an invariant of the run
`scenarios_executions`.

Without `Calm` both statements are false of overlapping requests: two updates of one scenario, or an update and
an execution, reschedule from old documents they read at different times. These hazards are listed in `PROJECT.json`.

**Handlers that take turns.** With one handler at a time the statements hold of all requests but those `Turns` excludes: a restart
between two awaits; `deleteGroup` with `deleteScenarios`, which leaves jobs and is the finding of `scenarios_inactive`; and an update
that submits a cron expression `CronJob` refuses together with a group or the activation, or that activates and moves without a
trigger, and so may meet a stored one. The rollback restores the document, not the groups it had left and joined by then, and
schedules it whether it was active or not. `RefusedAlone` excludes a refused trigger together with `repeatTimes`, as the rollback's `$set` does not
take back a field the old document lacked. The values of `scenarios_seq` satisfy `Turns`. The invariant `TurnInv` is again about the
moments between. `Registry`: the jobs are those of the documents the registry was told of last, which is the old document while a handler
stands between its save and its job (`Registered`). `Counted`: each group's count, plus what the handler still owes it (`Moves`), is the number of its
scenarios. `Quotas`: executions allowed by the document are those the user granted, less the one a handler is about to count.
`Position` says what a handler knows of the stored document at each await, and carries the others.

**Day-time adjustment.** `DayInv` adds to `TurnInv` the cron strings. `Ticking`: a job ticks at its document's string,
except for the document a handler has saved and not yet rescheduled (`Pending`). `Nightly`: while the night's loop runs, every adjustable scenario is
adjusted to the day or is still on the loop's list (`Due`), including what users' handlers have read and are going to write; and the update the loop
awaits cannot fail once it has been validated, because what it submits was scheduled before. So the night ends when the list is empty, or at a
scenario on the list of which `Fails` holds, and what it leaves is on the list: neither renames, deactivations, rollbacks nor what else
users do between its updates makes it skip a scenario or stop.

**Scenarios react.** `Reacts` speaks of a hub in which nothing is in progress. `Reacting` says of every moment: a scenario that is due has its
conditions met by what is stored; and, if it is active, either a completed update of a device it names has still to be heard
(`Awake`), or some handler has an entry of it in its queue, and has found true whatever now holds among the conditions it has read so far
(`Opened`). Only a save can make a scenario due, and each save emits an event; a save that ends what a handler has read ends the
scenario's being due as well (`Track`), so a handler that finds a condition false leaves nothing behind. `Steady` and `Sourced` say that documents keep
their names and that a handler always has a condition left to read, which is why it decides in the end. No assumption is made
on the number of handlers, and none on their order.

**One command, one execution.** `credit` falls below zero only if something is executed twice for a command. `Paid` says that it is at
least the number of command events not yet heard plus that of queue entries of handlers that heard one and have still to
decide, by cardinalities: each step leaves the balance as it is, adds to both sides, moves from one count to the other,
or takes from both (`Balanced`). An execution is one of the last kind: all conditions are required, so the command's was found true, which
happens only in a handler whose context is a command (`Heard`). Where the conditions are alternatives this is not so, nor is
it claimed.

**Serial synchronisations.** `Serial` says that one synchronisation is in charge (the boot's until the watcher
runs, the watcher's from then on), that no other runs, and that unless the timer is set or something was given up, the one
in charge *covers* each key: it has still to read it, or has read what is on disk and has still to upsert it, or has
upserted it, or has still to delete it, and so on for each await (`Covered`). `Syncs = {s}` says that the timer does not fire
while a synchronisation runs. The code does not prevent that; it makes it unlikely, by a debounce of the
watcher's events.

**Fresh caches.** `CacheFresh` says that the cache holds what is stored unless a synchronisation runs or something was
missed. The invariant says whose duty a stale entry is: some synchronisation is still going to clear the cache (`WillClear`), or was
abandoned (`AbandonedMissed`), and a lookup in flight has read what is stored (`RepliesCurrent`). With overlapping
synchronisations *and* failures the statement does not hold: one that has failed clears nothing, and the
other may have cleared before.

**Devices implement a store.** The abstract effect is at the `save`, of what was computed awaits earlier from a document
read before. The invariant `InTurn` adds to `Typed` that no two handlers in flight conflict (`Apart`) and that what a handler has read
of the entries it may write is still stored (`Fresh`). A step stores only what its handler may write (`Within`), which is why
the others stay fresh. Then a save is a merge into what is stored *now* (`WrittenMerges`), an insertion is one into nothing, a bulk write tidies
(`TidiedTidies`), and each of the others is a stutter, a submission or a refusal of `DeviceStore`.

**Devices conform.** A document may disagree with its configuration while a reconciliation that will look after it is in
flight (`Due`). `Conforming` says so of every document that is not `loose`; and that a handler has computed nothing the
configuration does not declare (`Fitting`) and a bulk write holds the operations that make the documents fit
(`Converting`). What carries the proof is that a reconciliation writes everything, so that whoever runs beside it writes nothing
(`BesideReconcile`), including those that were merged under the old configuration.

**Names agree.** `Synced` speaks of the moments at which nothing is in flight. `Agreeing` says of the others: the last device list
under way has the names the bridge has (`LastList`); once none is, the cache holds no other name than the bridge's, and a handler looking up
documents does so for the bridge's names (`Told`); and a name that still differs is astray or blocked, or a rename to the stored name is queued
at the bridge, or the work of some handler will give the document the bridge's name or ask the bridge for the document's
(`Settles`), or a handler is about to look up the documents (`Coming`). A rename from either side thus has a list, a piece of work or a request
that follows it. `Exclusive` is needed for one thing: that no handler of an older list is left when the last one is handled. TLC finds the counterexample
without it, in which the older list's handler ends what is noted of a dropped rename.

**Renames are asked.** `NoEcho` is about one step, the publication of a rename; what makes it true is what has been stored before.
A name is `Rightful` for a device if the API asked for it last, or if it is the one in the cache (then `Compare` publishes nothing), or if the
cache has none. Every stored name is rightful, or a handler in flight is about to overwrite it (`StoredRight`), and every name a handler holds is
rightful (`Right`). A device list changes the cache and may deny what was asked: its handler then has the names the cache has, so every document whose name
the list made wrongful has drifted and is corrected before the next handler starts. An API request that makes the stored name wrongful is
itself the work that overwrites it, and a restart empties the cache. A response comes right behind the list that has
told its name, so that what it stores is in the cache (`ResponsesTold`). With one device, as in `zigbee_live`, `OneOwner` always holds. With more it is
needed: TLC finds that, when a device is renamed on the bridge and the API gives its old name to another before the response is handled,
`onDeviceFriendlyNameChange` finds the other device's document by that name and renames that device too. `Exclusive` is needed as well: where two
handlers of one device overlap, the first may publish its name after the API has asked for another.

**Links are kept.** `LinkKept` excludes users about whose links two requests ran at once. For the others at most one handler in flight writes
the link (`SoleLinks`), so what a linking handler found at its last read, a user without a Google account, is what it saves over
(`FoundUnlinked`); unlinking takes the account away and puts none in its place.

**Hub and devices agree.** `DeviceAgrees` speaks of a device with nothing under way. `Agreeing` says of every moment that a
stored document has the controls of its device, or the device is known to be in doubt (`astray`), or it has published a
state that is still queued, or somebody is going to settle it (`Mends`): a handler that carries a published state (`Carries`;
no configuration can make it stop short of its save, `CarriesOn`), or one that owes a new device its reply (`Answers`).
`Honest` says what makes a save settle it: what a device told is still what it has unless it has published since (`Told`), what was
taken from it and what was sent to it will be saved (`Taken`, `Sent`), and what was not sent is in doubt (`Unsent`). A message
carries all the merged controls, which is why it also settles what was lost before. Handlers that speak of controls write the whole section
(`ToldWrites`), so no two of them run side by side, and a published state waits for the handlers before it. `Queued` says that the last
state in the queue is the one the device has.

**Payloads come back.** Files have any number of items here, with any values, and payloads of `ReportsComeBack` any number of
fields. The translations are folds over payloads. A fold is a recursive function that is *chosen*, so
the first thing shown of it is that such a function exists (`FoldIterates`), level by level along the naturals; induction itself
is derived from the library's theorem that `<` is well-founded (`LeastElement`, `Stepwise`), as the provers cannot use an
induction theorem that takes an operator. From then on a fold is a sequence `acc` with one result for each prefix of its argument
(`AssignedSteps`, `KeptSteps`). What is needed of a configuration is `Formed`, which parsing guarantees (`ConfigIsFormed`:
names and types are given, entries have names, no entry is named twice), and `Clear`, which is up to its author. `RoundTrip` is about one item:
the value of a settable control is found again among the item's entries. `OnlyTaker` is about the others: no
other item takes what was meant for this one, in any section. `Sorted` puts them together along the payload.

**Saved actions meet.** `SavedFits` says what the validation of a scenario lets through, `StoredControls` what the document holds after
an update of it: a merge into controls the device has (`MergedStored`), or into its defaults (`DefaultsStored`). What the brand refuses of stored controls is
there from the start (`HoldingsStored`), because every merge that was stored had passed it; and merged controls are those stored with
the new one in its place (`MergedMembers`), which tells for what the brand may refuse the next. The document has one field per
control, so the whole of it can be sent and reported, by `ReportsComeBack`; `EchoKeeps` says that the report takes nothing back.

The assumptions of these two are what the schemas say (`ValuesAssumption`, `ItemsAssumption`: values and items have their fields; an
item has a list of values) and `PathsAssumption`: `Values`, the set a report is taken from, has the texts that files declare. The real set
has all texts.

**Expressions.** Parser and evaluator are loops over tokens, so what is said of a sequence is what it does to a loop, and sequences
are taken one after the other (`EvaluatedConcat`). Three things make up `EvaluatesAsRead`. First, the parser changes nothing:
after each token of an accepted expression it holds one call for every loop that the evaluator would be in if it were given
the tokens themselves, each of which has parsed what takes a new loop there (`Beside`, by `Parallel`: one lemma for each kind of
token). That needs the regular expression: an operand or an opening parenthesis comes only where no group is waiting
(`Fresh`), and so at most one ever waits. Groups left open are closed by the end of the tokens as by the parentheses of `Closed`
(`ParseIs`). Second, a whole expression (`Whole`: viable, and its parentheses match) is an operand, or two whole ones around
its last outer operator (`WholeAround`), or one in parentheses (`WholeInside`), which is about balances only. Third, evaluating and
`Reading` agree, by induction over the length of a part (`SpanStep`): it gives a new loop the result that it reads
(`Results`), and one without outer operators acts on any loop as an operand does (`Judges`), which is how left to right
without precedence comes out. No constant needs an assumption.

Only model-checked is liveness (`CountdownEnds`, `CascadeEnds`, `EditsReachStore`, `Converges`), which is out of the prover's reach.

## Where the code and what is said of it differ

Two disagreements are kept as runs whose violation TLC finds:

- `scenarios_inactive`: `onFailure` of a refused update schedules the old document without asking whether it was active
  (`scenarios/scenarios.service.ts:139`), and neither does the job when it ticks. The run shows the sequential way there:
  `deleteGroup` with `deleteScenarios` leaves the job of a deleted scenario; an inactive scenario is activated and renamed
  to that name; the registry refuses; and the rollback schedules the inactive scenario.
  `dto/update-scenario.dto.ts:72` says of `active` that it "determines if the scenario should be executed".
- `trigger_foreign`: the commands of an event are compared with the conditions of every source of a scenario, whichever
  device executed them (`scenarios/scenarios-execution.service.ts:84`), while `scenarios/dto/common.dto.ts:91` calls
  them the device's.

Others were seen while modelling. The properties exclude them by an explicit condition, constant or history
variable, and they are hazards in `PROJECT.json`:

- Devices: two overlapping updates of one section are both merged into the document as it was, and the second save takes
  the first one back (`devices/devices.service.ts:182`), although `devices/dto/update-device.dto.ts:140` says that
  controls are merged into the stored ones. `Exclusive = FALSE` shows it at once, by `UpdatesAtomic`. With it, too, a
  device added during a reconciliation keeps entries that the configuration no longer declares, or lacks new ones.
- Devices: a changed brand, type or protocol keeps the entries of the old configuration (`loose`); defaults that a
  reconciliation fills in are not sent to the device (`astray`).
- Scenarios: two overlapping executions both count down from the count they read, and the scenario runs more often than
  `repeatTimes`; two overlapping additions to a group increment `scenariosCount` once. `QuotaRespected` and `CountsExact`
  are therefore checked in the sequential run. Removing an active scenario that has no cron source answers with an
  error, after it has been deleted (`scenarios/scenarios.service.ts:148`).
- DeviceConfigs: with `PromptReplies = FALSE`, a lookup's reply that arrives after the cache was cleared is cached until
  the next synchronisation. With two slots in `Syncs`, the older of two overlapping synchronisations may upsert last.
- ZigbeeNames, with `Exclusive = FALSE`: a rename response selects its device by the old name, which another device may
  have by then (`zigbee/zigbee.service.ts:58`); hub and bridge, each following the other, can swap two names for ever,
  although `zigbee/zigbee.service.ts:66` calls the bridge the source of truth. Two names exchanged at the bridge are
  refused by the hub's unique index, both of them, at every list (`blocked`). A device whose interview is incomplete
  is not in the cache, and every update of it asks for a rename again.
- Accounts: an approval that has read a request before its owner cancels it is saved afterwards, although
  `users/registration-requests.service.spec.ts:325` expects that a cancelled request cannot be approved; an approval that
  read `blackListed` as false leaves it true when it was set meanwhile; two links of one user at once replace each other
  (`raced` in all three).
- Trigger logic: `validateTriggerLogic` accepts operand 0, the same operand repeatedly in place of another, and
  a closing parenthesis too many, after which the rest of the expression is ignored; its message asks for "a valid
  boolean expression" (`scenarios/schemas/scenario.validators.ts:57`).
- Payload translation: `mapValueToDevice` sends the *path* of an item in place of its value if the item is neither boolean
  nor an enumeration (`device-configs/device-configs-mapper.service.ts:125`); a command hides a control of the same name.
  The test at `device-configs-mapper.service.spec.ts:120` says that such values are not translated, and has no path.
- Scenario validation: conditions on objects (compared by identity), on `null`, and on enumeration values of another
  JavaScript type are accepted and never met, whereas the comment of `collectConditionErrors` says that a condition that
  can never be met is reported.
- Scenario validation: `collectPayloadErrors` judges an action by the configuration, and its comment says that these are the rules "the device
  update itself applies" (`device-configs/device-configs-validator.service.ts:54`). The update also asks the brand's DTO about the merged controls
  (`devices-control/devices-control.service.ts:58`), so an action may be saved and refused at every execution. Defaults are never
  asked about: one that the brand refuses bars every update of the device (`ActionMeets`).
- Day-time adjustment: an `adjustTo` stored as `null` counts as adjustable in the query and as fixed in `addScenario`; the night ends at it
  (`scheduler/scheduler.service.ts:76`), and the scenarios after it keep yesterday's times.

## What is not modelled

- *Device providers and transports* (`devices-control/` except `devices-control.service.ts`): a payload is sent or lost;
  the protocols are external.
- *Zigbee health monitor*, *mDNS discovery*, *MQTT client*: timers and sockets around events that the models take from
  their environment.
- *Tokens and guards*: checks of a signature and an expiry; cryptography is out of reach, and the rest is one comparison.
- *Throttling, HTTP layer, DTO validation, configuration files, database set-up*: no state of the home depends on their
  order. What a DTO refuses is left out of the inputs.

## Plan

The order was set by what the hub would suffer from most: schedules, configurations, devices, names, accounts, then the pure
parts, then the composition and the nightly adjustment, then the proofs. What is left:

1. `Devices`: required items, and overrides in `Sanitized`.
2. `Automation`: a restart, which loses the events that were not handled.
3. The health monitor of the Zigbee bridge.
