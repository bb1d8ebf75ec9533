# TLA+ verification of VOLTTRON AEMS

Models, TLC runs and TLAPS proofs for the concurrent core of this repository: the edge Manager
agent that commands the units of a building, the server that configures it, keeps the users' roles
in Keycloak and runs backups, and the sidecar that carries these out.
Paths below are relative to the repository.

## 1. The system

AEMS has two halves. On the **edge** (`aems-edge`) one VOLTTRON agent per unit, the *Manager*,
keeps the unit's occupancy, setpoints and lockouts; it reaches the device through an actuator or
the *Normal Framework* driver, by RPC. In the **app** (`aems-app`) a NestJS server with a Postgres
database holds what the users configure, pushes it to the Managers over HTTP, and runs backups with
a sidecar container.

### Inventory

| Component | State | Operations | Interacts with | Hard behaviour | What makes it correct |
|---|---|---|---|---|---|
| Occupancy overrides, `Manager/manager/occupancy_override_manager.py` | `current_id`, `override_greenlets`, scheduled events | `load_override`, `create_override`, `update_override`, `_do_control_action` | RPC `set_occupancy_override`, config store, scheduler, `sync_occupancy_state`, actuator | state changed after a command that blocks for minutes; reloads in between; restart | a loaded override ends; what is pending can be cancelled; nothing is left after an empty payload |
| Weather lockouts, `lock_out_manager.py` | two flags, configuration, one periodic | `evaluate`, `update_configuration`, `release_all`, `_reinforce_active_lockouts`, optimal-start lockout | data messages, RPC `set_configurations`, config store, driver | three greenlets write the same points; lost writes; two lockouts share one periodic | lockouts follow the weather and reach the device; none outlives its equipment |
| Manager agent, `main_manager.py` | configuration, schedule, setpoints, greenlets | RPC and config-store handlers, `sync_occupancy_state`, `change_occupancy`, `rpc_set_point` | everything on the edge | late and failed commands, own config-store updates coming back | the unit's occupancy is the one the highest source asks for |
| Optimal start, `optimal_start_manager.py`, `optimal_start_models.py` | run and transition greenlets, models | `set_up_run`, `run_method`, cron, transitions | schedule, holidays, `change_occupancy` | a schedule change around a running start | one start per day, inside the window, cancelled by a holiday |
| After-hours service, `after_hours_manager.py` | merged windows, next transition | `update_schedule`, start/stop service, `_schedule_next_transition` | setpoints, `change_occupancy` | windows replaced while a transition waits | service ends with its window, setpoints are restored |
| Holidays, `holiday_manager.py` | rules | `is_holiday`, load | optimal start, sync | calendar edges | none concurrent |
| Normal driver, `Normal/nf/driver.py` | point map | get/set/scrape | external gateway | lost and late answers | faithful relay |
| Weather publisher | none | publish forecast | Manager | missing data | none concurrent |
| Backup scheduling, `server/src/services/backup/backup.service.ts` | policy cron | `poll`, `enqueueScheduledRun`, `recoverStaleRuns` | `BackupRun` rows | check then create; sweep by id | runs do not overlap; an abandoned run is failed |
| Backup worker API, `server/src/worker` | `BackupRun` rows | claim, heartbeat, archive, finalize, reconcile | sidecar over HTTP | lost calls and lost answers | rows tell what happened to the archive |
| Backup sidecar, `docker/backup/worker/index.js` | current run, child, heartbeat interval | `tick`, `executeRun`, `finalizeRun`, key sync | worker API, `backup.sh` | crash at any step, cancel, spawn error | each claimed run is reported |
| `backup.sh`, destinations, `backup-restore.sh` | archive files | dump, encrypt, copy, prune, restore | sidecar, disk, database | partial copies; a dump of its own row | success means an archive |
| Backup keys, `rotateBackupKey`, `ensureActiveKey` | key rows, key files | rotate, archive, generate | claim, `encrypt.sh` | rotation during a run | every archive has its key |
| Config push, `server/src/services/config`, `volttron.service.ts` | unit `stage`, the rows | `task` every 10 s, up to eight calls per unit, retries, start-up marking | Managers over HTTP, the mutations of units | edits, deletions and restarts at every await; calls given up that are carried out later | what is Complete was delivered; a mark is honoured |
| Unit and configuration mutations, `graphql/unit`, `graphql/configuration` | the same rows | update data, then mark | config push | two writes, with publications that may throw between them | an edit that was marked is delivered |
| Keycloak sync, `server/src/keycloak` | Keycloak client roles, `running` | start-up sync, daily sync, User events, internal controller | users table, Keycloak over HTTP | syncs of one user overlap, each with a difference it read earlier | no race takes or grants a role wrongly |
| Control push, `services/control` | control `stage` | same pattern, one call | same | same | same |
| Historian, throttled logs, subscriptions, auth, GraphQL CRUD, client, deployment | records | I/O | | | no protocol of their own |

`PROJECT.json` lists these with their status and, under `hazards`, each hard spot with its line.

### How the modelled parts interact

The edge agent is cooperative: a greenlet runs until it blocks, and everything else may run while it waits.
In the modelled code it blocks in
- RPCs to the driver (`rpc_set_point`, `main_manager.py:391-418`: four attempts of 10 s, with about 30 s between them,
  and a result nobody looks at; `is_system_occupied` reads one point): steps of their own wherever they occur;
- publications (`main_manager.py:389`, `.get(timeout=10.0)`, which raises in the end). `run_method` publishes between
  the cancellation of its handle and the scheduling of the transitions (`optimal_start_manager.py:328`), which is a step of
  its own (`_publish_start_times`); no other modelled handler changes state after one;
- the writes to the config store (`config_set`) of the RPC handlers: the last thing they do before they publish, and a step
  of its own in `OccupancyOverride` and `LockOut`, where the agent acts on the update that comes back;
- the sleep of 30 s and the forecast with which `evaluate_optimal_start_lockout` begins (`lock_out_manager.py:180`), before
  it looks at any state, and calls at start-up, before the handlers are there.

Code between two of these is one step. The server is Node: code between two
`await`s is one step, and each HTTP request of the sidecar is a step of the server whose answer may
not arrive.

## 2. Modules

| Module | What it is |
|---|---|
| `OccupancyOverride` | overrides of one unit, their handlers, scheduler, actuator, restart |
| `OccupancySync` | all that commands the occupancy of one unit: schedule, holidays, optimal start, lockout, overrides |
| `LockOut` | heating and cooling lockouts of one unit |
| `AfterHours` | the service scheduler and the setpoint writers of one unit |
| `ConfigPush` | the push of configurations and the mutations beside it; refines `PushPromise` |
| `PushPromise` | abstract specification: what a push promises for one part of one unit |
| `BackupRun` | server, sidecar and `backup.sh` as far as the rows depend on them; refines `BackupLifecycle` |
| `BackupLifecycle` | abstract specification: the life of a `BackupRun` |
| `BackupKeys` | key files, key rows, and which key a run is encrypted with |
| `KeycloakSync` | the syncs of client roles with the users table |
| `MC...` | small instances for TLC; `BackupKeys` and `KeycloakSync` need none, their constants are bounds and model values |
| `..._proofs` | the theorems of section 4, one module for each but the two abstract ones |

The unit has three models that overlap: `OccupancyOverride` and `LockOut` know how a current override or
an active lockout comes about, `OccupancySync` takes them as given and knows what else commands
occupancy. `BackupRun` and `BackupKeys` share the sidecar's loop in the same way: the first has its
reports and heartbeats, the second its keys.

A definition named `X...` next to a comment "Mutant of X" is X with a plausible bug; it is used by
no specification, only put in X's place to see that a property notices.

### OccupancyOverride

Time is a day of `Horizon` slots. A payload gives each identity `gid` (`<date>_<index>`, in the order
of the loop) a window, nothing, or an entry that raises. `timers` are the events in the agent's
scheduler, `override_greenlets` the pair each gid tracks (an event identity stands for the list of
two), `calls` the `_do_control_action` greenlets inside `change_occupancy`. `loaded` is history: what
the last payload said.

- `set_occupancy_override` loads, and `config_set` stores, which notifies the agent of its own
  update (`update_from_config_store`). An entry that raises ends the loop and the storing.
- `ClearEntries` ends by calling `sync_occupancy_state`, which first reads the unit over RPC: `syncing`
  is that call, `sync_occupancy_state` what follows it, which also runs from a cron at any time. Under
  an override it reloads the stored payload if the unit is unoccupied; otherwise the schedule
  decides, here as either occupancy.
- `Restart` keeps the store and the unit; the store then delivers its entry to the new process (`notify`).
  `StoredOverridePending` is about what that brings back, `LoadedOverridePending` about what one process has loaded.
- `Fire` starts `_do_control_action`; `rpc_set_point` or `rpc_set_point_fails` answers it;
  `_do_control_action` is what the code does after the answer.
- `PromptDriver` chooses between two environments: with TRUE a command is answered before anything
  else runs, as in the repository's tests; with FALSE anything may come in between.

### LockOut

Each of the greenlets *evaluate*, *configure* and *reinforce* has a list `todo` of writes and the
`step` that follows their return. `tracked` says that `_reinforce_greenlet` holds a periodic,
`stray` that one runs which the attribute has forgotten. `device` says which points are overridden.
Configurations are those `config.service.ts` can send: no threshold for equipment the unit lacks.
Several evaluations that overlap are not modelled (data messages are handled one at a time by one
greenlet), nor is a config-store update that overlaps a push. The hourly optimal-start lockout that
`update_configuration` also reschedules has its own flag and is left out; the write of the economizer
setpoint is kept only as the point where `configure` yields.

### BackupRun

A row is `status`, `cancelRequested`, and three facts about its other columns: `fresh` (heartbeat
younger than five minutes), `stamped` (`keyFingerprint` set) and `recorded` (archive columns set). `disk`
is what the local destination has under the run's name. `worker` is where the sidecar's main loop
is, `child` where `backup.sh` is, `beating` the runs with a heartbeat interval. `FinalizeLost` is a
report that does not arrive, `FinalizeReplyLost` one that is carried out while the sidecar sees an
error; both lead to the `catch` of `tick`. `Restore` puts the row back as the run's own dump has it.
With `AtomicSweep` the two statements of `recoverStaleRuns` run with nothing in between; `backup_refines` has it,
`backup_ends` has not, so there a run may end between them and be failed all the same.

`BackupLifecycle` is what a user of the runs page may rely on: a run is started at most once, Success
and Cancelled are final, Failed may be revised by the truth. The refinement mapping is the identity
on `status`.

### OccupancySync

A day is a cycle of `Day` ticks; a tick stands for the fifteen minutes after which `run_method` looks again, so
a day with hours has room for a start that is earlier or later, and several syncs happen in one
tick. Each greenlet has a list `todo` of what it will still do, built by `Decide` from the branches of
`sync_occupancy_state`; reading the unit (`is_system_occupied`) and commanding it
(`change_occupancy`) are steps of their own, and `view` is the schedule the greenlet began with. `timers` are
the agent's scheduled events: `run` the one `run_schedule_greenlet` holds, `forgotten run` one whose handle
was overwritten or dropped, `start` and `end` the transitions, `end_obj` the one nobody can cancel.
`armed` says that the handle is not `None`, which is what keeps syncs from planning a run. The model's prediction
is any of `Predictions`. `committing` are the runs that have given up the handle and are publishing: `_publish_start_times`
either goes on to schedule the transitions (`_schedule_occupancy_transitions`) or raises and schedules none, and any number
of other runs, pushes and syncs come in between. The clock waits for it, as for the events that are due: ten seconds are no tick. `missed` is history: a run met a day without hours, raised, and kept its handle.

### AfterHours

Time is a cycle of `Period` ticks, and a schedule the set of ticks inside its merged windows. `_next_transition` is
the first change from now on. A write blocks its greenlet: `work` is what each is writing, so a
callback that fires (`_fire`) and what it does once the write has returned (`Fired`) are two steps, with updates,
pushes, the periodic and the clock in between. A callback and the events it goes on to schedule are a
*chain*; `event` is the chain `_event` holds and so the only one `stop` can cancel. `raced` and
`unenforced` are history and name the two situations in which the code promises nothing: a write was
overlapped, or a schedule that is off now replaced one whose service was on.

### ConfigPush

A row is its version. `findMany` takes the copy the whole task works on, and every await of
`ConfigService.task` is a step: authentication, the stage Process, each call, the stage Complete, the publications
inside the `try`, the `catch`. `Calls` is the series of calls, all eight or some. A call is attempted up to three times.
An attempt that times out may be carried out all the same, at once or later, whether the call then succeeds on a retry
(`makeApiCall`) or all attempts fail (`makeApiCallFails`): `LeaveBehind` puts it into `late`, and `LateCall` carries it out at any
time, after any newer push, and more than once, since several attempts of a call may be on their way. `overtaken` is
history: the parts whose version such an attempt set last. `updateUnit`, `updateConfiguration`, the push button, nested edits and `deleteUnit` write the same
rows; `marking` and `finding` are mutations that have written data and not yet the stage.

`PushPromise` says what that amounts to for one part of one unit: a push takes what the database holds
while the unit is marked, and the unit becomes Complete only while the Manager holds what the push
took, or what an attempt that timed out (`out`) has put in its place since. `set_service_schedule`, whose failure is only
logged, is `Optional`: a unit becomes Complete without it, but nothing of it that no push took reaches the Manager either. `Promise(u, p)` is its instance for each unit and part, `KeepsPromise` the conjunction of all of them.

### KeycloakSync

A user is the roles the row asks for and those Keycloak has granted. A `sync` is one
`syncUserRoles`: it reads the row, then the roles, then applies the difference one call at a time. Any number of
`Handlers` (User events, calls of the internal controller) and `syncAllUsers` may be at the same user. `ever`,
`always` and `excused` are history: what the row has asked for, and whether something since the last
undisturbed sync explains a difference.

### BackupKeys

Keypairs are numbered as they are generated. `age_key` and `age_pub` are the files, `archive` the private keys in the
archive directory, `recipient` the environment of the sidecar, `active` and `rotatedAt` the rows. The
loop goes `ensure`, `upsert` and `retire` (the two statements of `upsertKey`), `check` (the files),
`upsert again` and `retire again` for a new pair, `claim`, `backup`, `report`. A call that fails or whose caller
crashes may still be carried out (`late`). `Regenerate` is what `ensureActiveKey` does with an incomplete
pair, with its failures: the old files cannot be moved, or no new pair is made. A run is stamped by `claimNextRun`,
encrypted by `backup_sh`, and named by the relayed event, by `finalizeRun`, or, if it is recovered, after the key
that is active then. The environment is taken not to preset `BACKUP_AGE_RECIPIENT`.

## 3. Runs

| Run | Instance | Shows |
|---|---|---|
| `override_prompt` | two gids, five payloads (in progress, moved, two in a row, refused entry, empty), three edits | the table is exact when commands are answered promptly; `StoredOverridePending` over restarts and refused payloads |
| `override_async` | one gid, two windows, two edits, a lost command, a late schedule command, a restart | `LoadedOverridePending`, and `EndIsCommanded` under fairness |
| `occupancy_sync` | a day of seven ticks with hours, without, or all on; two pushes, a fault | `DemandIsMet`: with enough syncs in a tick the unit is put, and kept, where it is demanded to be; `HandleIsPending`, `StartsHaveEnds` |
| `lockout_prompt` | four temperatures and *invalid*, all four kinds of unit, two reconfigurations, a lost write, a restart | the lockouts, their periodic and the device agree; `HeatingEnforced` |
| `lockout_async` | four temperatures and *invalid*, two kinds of unit, two reconfigurations | `LockoutFollowsWeather`, also in the dead band, with greenlets interleaved at every write |
| `after_hours` | two schedules that replace each other, two updates, one push, a lost write, a restart, two chains | `NextIsScheduled`, `OneChain`, `FollowsSchedule`; `ModeIsEnforced` under fairness |
| `config_push` | two units with one configuration, two calls, one edit, one fault | `CompleteWasDelivered`, the refinement `KeepsPromise`, `MarkIsHonoured` |
| `keycloak_sync` | one user, two roles, one handler beside `syncAllUsers`, one change, event, fault and restart | `SettledInSync`, `RacesAreHarmless`, `StartupCompletes` |
| `backup_refines` | two runs, two requesters, a lost call, spawn error, outage and crash | the refinement `FollowsLifecycle`, `KnownRows` |
| `backup_ends` | one requester, a sweep in two steps, a lost call, a lost answer, a crash, a restore | `EveryRunEnds`, `SuccessHasArchive`, `OneInFlight`, `EndsForGood` |
| `backup_keys` | two runs, a rotation, a removed public key, two faults, a crash | `Restorable`, `ActiveKeyInUse` |
| `backup_rotation` | one rotation, no faults | `RotationTakes` fails |

**Bounds.** Every hazard modelled is a conflict of two things (a load and a late answer, two
lockouts on one attribute, two requesters, a run and the one after it, an update and a callback, a push and a
mutation), so two of each meet. Two event identities suffice because a load takes one no pending event
or outstanding command of the gid has; a third would need a third overlapping reload, which the
bound on edits excludes. Horizon 3 has slots before, in and after each window; seven ticks are the one before the
earliest start, the lead in which a run waits a tick and then commits an early start, the hours and the one after; a cycle of
three has a window, a tick before and a tick after it in any order. The two calls of a push are one that may fail without
stopping it and one that may not. The temperatures include one at which both lockouts are active and one in
the dead band. Faults, restarts, edits, outages and restores are bounded by constants because each only
repeats what one does; two of them in `backup_keys` are what it takes for a run to fail with neither its key nor its
archive known. The second lost call that `SuccessHasArchive` speaks of is beyond `backup_ends`; theorem `SuccessIsArchived` has it. One prediction
stands for all in `occupancy_sync`, where two multiply the states; `HandleHolds` and `StartIsEnded` are about any. The theorems hold for every value of all these constants.

`CHECK_DEADLOCK FALSE` is set where the model comes to its end: the horizon is reached, all
runs are used, no unit is marked, no user changes any more.

### What the violation says

`backup_rotation`: `rotateBackupKey` retires the active row, and the comments around it and
`docker/backup/README.md:133` say that the sidecar then archives the pair and makes another. But
`ensureActiveKey` (`index.js:197`) first registers the public key it finds, which makes the same row active again,
and regenerates only if a file is missing. So the rotation lasts until the next tick. No archive is lost by
it (`Restorable`), and the active key is the one in use (`ActiveKeyInUse`): the old one.

### Known differences between the code and its own words

The passing runs mark the boundary up to which the code keeps its promises. Beyond it, met while modelling:

- *Overrides.* `_do_control_action` pops the gid after a blocking command
  (`occupancy_override_manager.py:164-167`). If the gid was reloaded meanwhile, the new pair leaves the table and
  neither an update nor an empty payload can cancel it. So `TrackedForCleanup` is checked with prompt
  answers; `LoadedOverridePending` holds without: the override ends by itself.
- *Occupancy.* `earliest_start` is the `time()` of the start minus a duration (`__init__.py:113`). For hours that begin
  sooner after midnight than that it is late in the evening, `current_time < _earliest` holds during the
  hours as well (`main_manager.py:855`), and every sync commands occupied and then unoccupied. The schedules of
  `occupancy_sync` begin later.
- *Lockouts.* `_reinforce_active_lockouts` says it enforces the active lockouts, but looks at cooling in an
  `elif` (`lock_out_manager.py:294-297`). Both can be active between the two thresholds. So enforcement is checked for heating.
- *Setpoints.* They are stored under `set_points`, while changes are subscribed to as `temperature_setpoints`
  (`main_manager.py:438`), so a change made in the config store reaches the unit with the next periodic only.
- *Keycloak.* `dailySync` calls `schedule()`, which sets `running`, and only `execute()` resets it
  (`keycloak-sync.service.ts:94-98`). The first midnight sync is the last until a restart, and a difference no
  event announces stays. Nor does the start-up sync clean up the roles of deleted users (`:210`): it asks the users
  table for whom to look at. So `SettledInSync` is about users with a row, and `StartupCompletes` about starts.
- *Backups.* The comment on `enqueueScheduledRun` promises no overlap; counting and creating are two
  statements there and in `triggerBackupRun`, so two requesters may have two runs in flight (one sidecar
  serialises the execution). The copy is made under its final name and `findLocalArchive` looks at the name, so a
  crash during it may be taken for a success. So may a copy that failed, if the archive event and the report are both
  lost: the catch then reports Failed without a fingerprint, which is the clause `reconcileStale` recovers, at the
  boot after the next restore. Since `claimNextRun` stamps `keyFingerprint`, a restored row that the
  hourly sweep fails before the sidecar boots no longer matches the clause that would recover it. Retention looks for
  `<project>-*.tar.*` (`destination-local.sh:42`) while archives are named `<runId>.tar.gz.age`.
- *Keys.* `docker/backup/README.md:141` says that backups refuse to run without an active key; `claimNextRun` does not
  look, and `backup.sh` uses its environment. Every key row has the same `privateKeyPath`, so downloading
  an older key returns the current file.

Accordingly `SuccessHasArchive` leaves out what a crash, or two lost calls and a restore, may leave, and
`OneInFlight` has one requester; both also suppose that the enabled destination is the local one and nobody deletes archives.

### Fairness

- *OccupancyOverride*: weak fairness of the scheduler, of the answers (`rpc_set_point` gives up after
  four attempts), of what follows them, of config-store delivery and of time. No fairness for edits,
  restarts or the cron.
- *OccupancySync*: weak fairness for the periodic and the steps of the sync it starts, for due events and for
  publications, which end or raise. None for the other greenlets, which may hang in a call for good, and none
  for the clock: `DemandIsMet` is about what the syncs do while it stands, for as long as they need.
- *LockOut*: gevent runs greenlets in the order they became ready, so one that is ready again and
  again gets its turn: strong fairness for `Evaluate`, `Reinforce` and the config-store handler, whose
  `Runnable` guard is a turn others may take (data messages keep coming, the periodic keeps firing);
  weak fairness for each greenlet's writes and what follows a release. None for the weather or for pushes.
- *AfterHours*: weak fairness for events that are due, the return of writes, the periodic and the clock.
- *ConfigPush*: weak fairness for the task (its cron fires every ten seconds, each await ends) and for the second
  writes of mutations under way. None for users, faults, restarts or calls that were given up.
- *KeycloakSync*: weak fairness for each sync, the service and the daily cron; strong fairness for finding a handler
  for an event, since `Handlers` is a bound of the model and not of the server. `WF_vars(dailySync)` asks nothing
  of a cron that is disabled by `running`.
- *BackupRun*: weak fairness for the sidecar's loop, intervals and relays, for `backup.sh` (it ends), for
  the hourly sweep and for time passing on a run without heartbeats. None for requests, cancellations,
  faults, crashes or restores.
- *BackupKeys*: weak fairness for the loop, for the second statement of a rotation and for what the server has begun.

## 4. Proofs

All theorems are checked by `tlapm` to the last leaf and hold for every value of the constants that
satisfies the module's assumptions.

- **Types.** `TypeCorrect` in each proof module. In `OccupancyOverride` it needs that the entries the
  loop reaches are never malformed (`LoadType`); in `BackupRun` that the sidecar has a run exactly while its
  loop is past the claim (a conjunct of `TypeOK`), as in `BackupKeys`, where keys are typed by how many have been
  generated; in `ConfigPush` that the task has a unit to push while it runs (`Working`); in `AfterHours` that there
  are setpoints, so that a write differs from none; in `OccupancySync` that a greenlet's list only has steps
  `Decide` puts there.
- **`NoOverrideForgotten`** (`LoadedOverridePending`). Inductive with the types. The case that matters is
  a reload (`LoadKeepsPending`): an entry that is live gets a new pair, one that is not live is over, one the loop
  does not reach keeps both its old entry and its old events. Nothing is assumed about the actuator.
- **`NoStoredOverrideForgotten`** (`StoredOverridePending`), from the former: what is stored never ends a load in the
  middle, since only a payload that was loaded to its end is (`StoreInv`), so whenever the store and the agent have
  nothing in flight each stored override was loaded. It holds for any number of restarts, and again nothing is assumed
  about the actuator.
- **`Tracked`**, **`CurrentEnds`**, **`Cleared`** (`TrackedForCleanup`, `CurrentOverrideEnds`, `ClearedIsIdle`), assuming
  `PromptDriver` and windows that start before they end. `TrackedForCleanup` is not inductive: an end could pop
  a pair whose start is still pending. `PromptInv` adds that each gid has one pair in order, that each start
  has its end, and what the one outstanding command knows of them.
- **`HandleHolds`** (`HandleIsPending`). A sync plans a run and takes the handle in one step; whatever drops
  or overwrites a run's event leaves another or drops the handle, but for the run that raises.
- **`StartIsEnded`** (`StartsHaveEnds`): an optimal start that is to come has its end to come. The two are scheduled and
  cancelled together, once the publication before them has returned, and by whichever run that is;
  the invariant is about starts that are not due, since of two that are due either may fire first, and needs that
  hours do not end before they start, also those of a commitment.
- **`NewDay`**: when the day changes nothing of it is left, neither an event nor an override nor a commitment nor (by
  `HandleIsPending`) a handle that would keep the syncs of the next day from planning its run, unless a run has raised.
- **`LockoutsHaveEquipment`**, **`LockoutsReinforced`** (`LockoutHasEquipment`, `ReinforcedWhileActive`), assuming
  `PromptDriver`. The invariant `PromptInv` says for each step of each greenlet which flag is about to change and
  that no other greenlet is in the middle of one.
- **`DeviceFollows`** (`DeviceFollowsFlags`), assuming `PromptDriver`. `WriteInv` follows a write on its way:
  the points it has been carried out for already have the value its greenlet is about to give the flag
  (`HeatWritten`, `CoolingWritten`), the others still have the old one, and what is left of `todo` are just those
  (`WritesFitStep`). Once a write is lost or the agent restarts nothing is claimed, and that is for good
  (`DisturbanceStays`).
- **`NeverSilent`**, **`SingleEvent`**, **`Followed`** (`NextIsScheduled`, `OneChain`, `FollowsSchedule`). All rest on
  one lemma about schedules: the next transition is the first change, it is found within one cycle
  (by the well-foundedness of `<`), and a tick that is no transition leaves it the next one. `OneChain`
  needs that a callback keeps its chain while it writes, and that an update has cancelled all others
  (`ChainsAreOwned`). `FollowsSchedule` is only about quiet states; `TransitionsAgree` (a pending transition goes where the
  schedule goes) and `ServiceAgrees` (so does the service, but for transitions that are due) are kept by every step.
- **`Delivery`** (`CompleteWasDelivered`). `PushInv`: calls before the current one were delivered, but for the parts a late
  attempt has overtaken, and whoever is still in the queue is still marked. Nothing is assumed about which attempts are on their
  way: a late one of the running push, or of a call that had succeeded, overtakes like any other.
- **`Implementation`** (`KeepsPromise`): `ConfigPush` implements `PushPromise` for every unit and part. Each step of
  the task is Take, Begin, Give, Complete, Fail or Abandon for the unit it is at, and a stutter for the others; `LateCall` is Stray
  for one part and a stutter for the others; mutations are Edit. Beside `PushInv` it needs that no copy is newer than the
  database (`Versions`).
- **`MarkIsAnswered`**, the safety half of `MarkIsHonoured`: only SetComplete and SetFail take a mark away (`Unmarks`), for
  the unit at the head of the queue, and `Delivery` says what a unit then shown as Complete holds. The copy may be
  older than an edit marked during the push (section 5).
- **`Harmless`** (`RacesAreHarmless`). `Entitled`: what a sync wants is between what the user was always and was ever
  entitled to, and it only removes what it does not want.
- **`Settled`** (`SettledInSync`). `Settling`: a user without excuse has at most one sync (`Alone`), and an event on its
  way, a sync that will read, or one whose remaining calls make up the difference, explains it (`Explained`).
- **`RowsAreKnown`, `PipelineFollowsLifecycle`**, assuming `AtomicSweep`, no lost answers and no
  restores. `KnownRows` is what a step needs to be a step of the lifecycle: the sidecar, the sweep
  and the reconciliation only hold rows that are running or were given up. `StepFollowsLifecycle` maps each
  action: claim to Start, reports to End or Revise, the sweep to GiveUp, the rest to stuttering. A
  lost answer to a report breaks it in the code too (Success, then Failed by the `catch`), which is why it is assumed away
  and not proved away.
- **`SuccessIsArchived`** (`SuccessHasArchive`), without assumptions. Four facts carry it. `OrderInv`: rows are claimed in
  the order of their creation, and the sidecar, the sweep and the reconciliation hold only rows that were claimed; so a
  restore, which concerns the last row, finds no report under way. `ChildInv`: how far `backup.sh` has come says what is at the
  destination. `PartInv`: a part of an archive has a report under way, or a row that ended and says that an archive was
  announced, or there was a crash or a second lost call. `BootInv`: so the reconciliation, which looks at rows that say
  nothing, meets a part only then. The property did not hold in its first form, which had only crashes as an exception:
  `PartInv` failed for the copy described above.
- **`NoOverlap`** (`OneInFlight`), assuming one requester: while it enqueues nothing is in flight. **`OverlapBounded`** is what
  remains of it for any finite number: runs in flight and requesters that have counted are together no more than there
  are requesters, since nobody counts before all runs are over.
- **`StartedOnce`**, **`EndedForGood`** (`EndsForGood`), what is left of the lifecycle without the assumptions above: no run is
  claimed twice, and Success or Cancelled is only taken back by a sweep that had found the run stale, by the report of
  the `catch`, or by a restore. `HeldRows` is `KnownRows` with these exceptions, and inductive under all faults.
- **`BackupsOpen`** (`Restorable`). `KeysAreKept` adds that the sidecar encrypts with a key that is kept, that the run it
  works on has no end yet, and that what it is about to report is the key of the archive. No step loses a
  private key (`KeptGrows`): `Moved` takes along what `init_keys` replaces. Nothing is assumed about faults. **`KeysStay`** states that step for
  itself, and **`NoKeyIsLost`** its consequence: of every keypair ever generated the private key is there, also of those
  no archive names yet.

**Only model-checked:** liveness (`EndIsCommanded`, `DemandIsMet`, `LockoutFollowsWeather`, `HeatingEnforced`,
`ModeIsEnforced`, `MarkIsHonoured`, `StartupCompletes`, `EveryRunEnds`, `ActiveKeyInUse`), which TLAPS cannot
prove. Every invariant of the runs is a theorem, some under the assumptions named above: `PromptDriver`, windows
that start before they end, one requester, or for `KnownRows` and the lifecycle an atomic sweep without lost answers
and restores.

## 5. Left out, and plan

**Known limits** that are in the models but state no property:

- *Overrides and lockouts.* A non-empty payload that drops an entry leaves its events scheduled; a lost release is
  not repeated; a reconfiguration in the middle of an evaluation can leave a cooling lockout nobody evaluates.
- *Occupancy.* `end_obj` is never cancelled, so the end of an earlier schedule may still command unoccupied (the next
  sync repairs it); `set_up_run` overwrites a handle whose event stays; a run that meets a day without hours raises and
  leaves its handle.
- *After hours.* `update_schedule` forgets the last state, so a schedule that is off now does not stop a service
  that runs; it goes on until the next transition.
- *Config push.* `findFirst` marks one unit of a configuration that several share, edits of schedules, setpoints and
  the like mark none, and an edit marked between the copy and Complete is overwritten by it.
- *Backups.* A spawn error whose report is lost leaves a heartbeat interval that keeps its run Running; a restart of
  the server between the two statements of an enqueue is not distinguished from never creating the run. A lost
  answer to the reconciliation call has the effect of the call and is not modelled apart.
- *Keys.* A recovered run is named after the active key, a best effort the code documents.

**Not modelled, and why.** Most of the repository's lines have no state that several actors share: the web
client and its generated GraphQL code, the historian's SQL, record CRUD and schema, charts,
seeds, authentication by library middleware, deployment scripts. A model of these would restate them. That is
why the map covers a small share of the lines although it covers the protocols. Of the modelled parts these are
left out:

- the models and the training of optimal start (numerical: any prediction stands for them), the calendar of
  holidays, data frames and conversions of the Manager, the Normal driver and the weather publisher;
- the control push, which has the stage machine of `ConfigPush` with a single call;
- `createUser`, `createUnit`, and failed database writes in a push other than those of a deleted unit;
- in the backups what goes into an archive, S3, gpg, pruning, download and deletion of archives, and the
  interactive part of the restore.

**Plan.** What of the prompt theorems survives without `PromptDriver`: which writes of overrides and lockouts may
overlap, and that a flag or a table entry only goes wrong after such an overlap. Then action properties of the
Keycloak synchronisation, and the control push as an instance of `ConfigPush`.

## 6. Running

    tlc -workers 2 -config MCBackupRun_refines.cfg MCBackupRun
    tlc -workers 2 -config MCBackupKeys.cfg BackupKeys
    tlapm BackupRun_proofs.tla

Each configuration is named after its module and run; `PROJECT.json` has the list, the mutants and
the lines of code each definition stands for.
