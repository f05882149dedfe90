# PowerMeter V2: TLA+ specifications and proofs

PowerMeter V2 is a FastAPI server (`src/backend`), a periodic worker
(`src/worker`) and a web frontend, around one PostgreSQL database. ESP32
sensors talk to the server over signed HTTP requests: they send readings and
heartbeats, and the response to a heartbeat carries the durable commands queued
for them; the results of commands come with later heartbeats. Nothing is pushed
to a sensor, and every request and every response may be lost.

The specifications here model the parts of the server where several actors
change the same rows or files: sensors' requests (which overlap, are retried
and arrive late), operators' requests, the worker and its cycles; and the two
pieces of arithmetic on which bills rest, the sum of a cycle's usage and the
evaluation of a rate schedule.

## 1. Inventory

| Component | State | Operations | Interacts with | What is hard | What makes it correct |
|---|---|---|---|---|---|
| Credential rotation (`routes/devices.py`, `services/commands.py`, `routes/settings.py`) | `device_credentials`, three commands per rotation, `devices.revoked_at` | rotate, cancel, revoke; prepare / commit / cancel results; expiry | authentication, command queue | overlap of two keys, results seen late through a stale session, cancel against commit, silence of the sensor | a sensor keeps a usable key, at most two are usable, revocation is immediate, a rotation ends |
| Device authentication (`security/device_auth.py`) | `device_nonces`, credential rows in the session | authenticate a request | everything a sensor sends | reads rows before any lock | only live keys are accepted |
| Command queue (`services/commands.py`) | `device_commands`, attempts | create, deliver, expire, apply results | all device features | redelivery, duplicate and contradictory results, attempt limit | outcomes are final |
| OTA deployments (`services/firmware_deployments.py`, `routes/firmware.py`) | batches, deployments, their `ota_install` commands | deploy, retry, cancel, archive, restore, hold, delete, retention, download, results, confirmation, deadlines, promotion | command queue, worker, releases | three kinds of actors promote, failures must halt a rollout, aggregates, unflushed rows | one staged sensor at a time, failures stop the rollout, ended jobs stay ended, no stall |
| Firmware releases and artifacts (`routes/firmware.py`, `services/firmware_deployments.py`) | release rows, image files under final, pending and quarantine names | upload, make current, pin, archive, restore, delete, reconcile | deployments, worker | crash between file system and database, repair against requests in flight | no live image lost, what is served is there, pending files settle |
| Reading ingestion (`services/ingestion.py`) | `raw_readings`, `unavailable_sequence_ranges`, the device's acknowledgement, maximum and generation | batches, loss reports, heartbeats, completed data resets | command queue, pricing | stale device row behind a row lock, resets against batches in flight | an acknowledgement never passes a hole or moves back, generations do not mix |
| Stateless telemetry (`services/stateless_telemetry.py`) | samples, live state, energy events, history buckets, selections | ingest a sample, finalise, price, retain | pricing, usage | late, repeated, misdated samples, counters reset, worker's open transaction | energy counted once, none lost unseen, live state moves forward, prices follow energy |
| Interval pricing (`worker/app/jobs.py`) | cost runs, cost rows, selections | price pending intervals | ingestion, rates | one long transaction against ingestion and activation | a price counts the energy before its interval and uses the assigned rate |
| Usage of a cycle (`services/billing_usage.py`, `routes/billing.py`, `services/tiered_billing.py`) | seeds, acknowledged resets | sum, judge, estimate short gaps | telemetry, branches | gaps across a seed or a cycle, two implementations | usage shown as resolved is the usage; the two sums agree |
| Branches and billing scope (`routes/settings.py`) | circuits, member sensors, measurement scopes, the account's cost scope | create, edit, delete, designate, include, scope, revoke | usage | checks on rows that are not locked | one home total, members and scope stay |
| Destructive commands (`services/commands.py`, `routes/dashboard.py`) | prepare and commit commands, confirmation tokens, the device's generation | prepare, commit, cancel, expire, complete | command queue, ingestion, worker | a token used twice or late, prepares made from a stale device row, completions reported twice | one prepare, one commit, after readiness; one generation per confirmed reset; no token outlives its expiry |
| Rate sources (`services/rate_sync.py`, `rate_sources.py`, `sce_catalog.py`) | sources, revisions, artifacts, candidates, catalog inventory | check, fetch, store, parse, crawl | rate workflow, worker | overlapping checks, 304 answers, crashes before the commit, cyclic pages under limits | a revision has its file, nothing readable is hidden, closure omits nothing |
| Rate workflow (`services/rate_workflow.py`, `routes/billing.py`) | candidates, reviews, bills, versions, assignments, thresholds | sync, enter, review, reject, publish, activate, import, correct, delete | pricing | two homes at once, clipping, withdrawal against an open worker | numbered versions with their provenance, one rate a day, one allowance for it |
| Cost engine (`services/cost_engine.py`, validation in `rate_workflow.py`) | none | resolve a period, split and round an interval | pricing | tier bounds, holidays, wrapping seasons, rounding | what can be published has one price everywhere; slices add up |
| Worker loop (`worker/app/main.py`, `jobs.py`) | advisory lock, scan cursor file | run cycles | everything | one transaction for all jobs | one cycle at a time, nothing starved |
| Alerts (`jobs.py`, `routes/settings.py`) | conditions, alerts, windows | observe, debounce, open, resolve, acknowledge | heartbeats | flapping, windows, rolled-back cycles | one live alert per condition; alerts follow faults |
| Users (`routes/users.py`, `routes/auth.py`, `security/auth.py`) | accounts, sessions, throttle rows | bootstrap, login, administer, change password, revoke | all operator routes | snapshots of permissions, overlapping administration, parallel guesses | the home keeps an owner, sessions end with their credential, guesses are bounded |
| Bill parsing, frontend, migrations, backup and deployment scripts | files | I/O | | | not a subject of these models |

The hazards of this code that tests hardly reach are listed, with the
properties that cover each, in `PROJECT.json`.

## 2. Modules

| Module | Models |
|---|---|
| `CredentialRotation`, `CredentialRotation_proofs` | one sensor's credential rotation; its theorems |
| `UserAccess` | users of the home, their sessions and the administration of both |
| `LoginThrottle` | failed logins per source and per principal |
| `OtaRollout` | firmware deployment batches |
| `FirmwareReleases` | releases, their image files, crashes and the reconciler |
| `DestructiveCommands`, `DestructiveCommands_proofs` | storage format and data reset of one sensor; its theorems |
| `AckCursor` | abstract: what an acknowledgement promises |
| `ReadingIngestion` | readings, losses, resets of one sensor; implements `AckCursor` |
| `ReadingCosts` | `ReadingIngestion` composed with the worker's pricing transaction |
| `StatelessTelemetry` | samples, energy, history buckets and the worker's passes on them |
| `BillingUsage` | the energy of a billing cycle and what may be said of it |
| `ServiceBranches` | which sensors the bill is summed from |
| `RateSync` | checks of one official rate page |
| `CatalogCrawl` | the crawl of the rate catalog |
| `RateWorkflow` | from a candidate or a bill to an assigned rate and its prices |
| `Tariff` | validation and evaluation of a schedule, pricing of an interval |
| `Alerts` | one alert condition |
| `Firmware_proofs` | theorems about `OtaRollout` and `FirmwareReleases` |
| `ServiceBranches_proofs` | theorems about `ServiceBranches` |
| `Worker_proofs` | theorems about `Alerts` and `RateSync` |
| `Authentication_proofs` | theorems about `UserAccess` and `LoginThrottle` |
| `Readings_proofs` | theorems about `ReadingIngestion`, `ReadingCosts` and `StatelessTelemetry` |
| `Rates_proofs` | theorems about `RateWorkflow`, `CatalogCrawl` and `Tariff` |
| `MCAuthentication` | TLC: `CredentialRotation`, `UserAccess`, `LoginThrottle` |
| `MCCommands` | TLC: `DestructiveCommands`, `OtaRollout`, `FirmwareReleases`, `CredentialRotation` |
| `MCEvidence` | TLC: `ReadingIngestion`, `ReadingCosts`, `StatelessTelemetry`, `BillingUsage`, `ServiceBranches` |
| `MCRates` | TLC: `RateWorkflow`, `CatalogCrawl`, `Tariff` |
| `MCWorker` | TLC: `RateSync`, `Alerts` |
| `MCCredentialRotation`, `MCOtaRollout`, `MCReadingCosts`, `MCStatelessTelemetry` | TLC: one component each |

The five larger MC modules bring several components into one run. Their parts
share no row, so a behaviour of the whole is one behaviour of each; a variable
`focus`, chosen at the start, names the part that runs while the others rest.
Where parts do meet in the code, the meeting is inside a component module:
pricing against ingestion in `ReadingCosts`, pricing against activation in
`RateWorkflow`, the data reset in `ReadingIngestion`, the deletion of a
release against its deployments in `FirmwareReleases`. Fairness is restated for
a sum as the fairness of `Run(part, A)`, the step `A` of the part that runs:
nothing is asked of a part at rest.

### Transactions, sessions and locks

Four facts about the code decide where the models split a handler:

* Sessions are made with `autoflush=False` (`db.py`) and a row that a session
  holds is not refreshed by a later query, `SELECT ... FOR UPDATE` included,
  unless the query says `populate_existing`. PostgreSQL runs at READ COMMITTED.
* `authenticate_device_request` inserts a nonce whose foreign key share-locks
  the device row until the end of the request. The operator's rotation and
  revocation routes take the device row `FOR UPDATE`, which conflicts with it.
  They can therefore come between the query that loads the credentials and the
  flush of the nonce, and not later. That is the boundary between
  `AuthenticateRequest` and `HandleRequest`.
* A heartbeat's plain `UPDATE` of the device row is compatible with the share
  locks of other requests, `FOR UPDATE` is not. `ForUpdate(s)` is that rule, and
  `Flush` the rule that a session writes the columns it changed relative to
  the row it had read.
* The worker runs all its jobs in one transaction, under an advisory lock that
  PostgreSQL releases with that transaction (`acquire_worker_lease`). Cycles do
  not overlap each other; everything else comes in between a job's reads and
  the commit, and a failure of any job rolls back all of them.

### CredentialRotation

`db` holds the committed rows: the state of each credential version, which of
them have `revoked_at`, the state and delivery attempts of the commands
`<<phase, version>>`, and whether the device is revoked. `elapsed` are the
rotations whose ten minutes are over, `seen` the commands that reached the
sensor, `req` the requests between authentication and commit with the rows
they loaded.

`RotateDeviceCredential`, `CancelRotation` and `RevokeDevice` are the
operator's routes; `AuthenticateRequest` and `HandleRequest` the two halves of a
heartbeat or stateless sample: results, expiry of rotations, expiry of
commands, delivery, commit. `OtherDeviceDelivery` is the heartbeat of any other
sensor, whose delivery expires overdue rotations of all devices.
`AbandonRequest` is every refusal and every lost connection: all of them roll
back. Redelivered commands, lost responses and repeated results need no
actions of their own: a sensor may report on any command it ever saw, any
number of times, with any key it has.

### OtaRollout

`w` holds the rows: the state of every job (batch, sensor), of its command,
whether `completed_at` is set, the stored aggregate, release, rollout kind and
filing of every batch, and the identity each sensor reported last. Every
mutator locks command, release, batch and deployment in this order, so each is
one action. The exception is the deadline pass, `ReconcileStale`, which is one
transaction but queries rows whose change it has not flushed;
`PromoteAfterHalt` computes what those queries return. The troubleshooting hold
and the retention period only delay a deletion and are left to nondeterminism;
retention and the operator's deletion are the same action. A job of a release
that is not available any more, artifacts and manifests are not represented.

### ReadingIngestion and AckCursor

`device` is the committed row (`contiguous_ack`, `maximum_sequence`,
`reset_generation`), `stored` and `losses` the evidence, `sensor` what the
firmware guarantees: sequences of a generation lie above its floor, and the
reset floor is not below anything it used before. A request reads the row in
`BeginRequest` and works on that copy in `IngestBatch`,
`RecordPermanentLoss` or `Heartbeat`. `FindGaps` and
`AdvanceContiguousCursor` are the loops of the code over the sorted coverage, as
recursive functions of the first sequence of a range; `GapsExact` compares the
first with a definition by maximal runs, and `AckCursor!RunEnd` is the reference
for the second. `lost` is a history variable, see `MaximumCoversEvidence`.

### ReadingCosts

The sequence of a reading stands for its interval's place in time. A price is
represented by its basis, the set of earlier intervals it counted, which is all
that a tiered price takes from other rows. `cycle` is the worker's open
transaction; `raced` is a history variable. A request is taken at the instant of
its `DELETE`; a worker cycle that begins and commits between that and the
request's `COMMIT` is the choice of `kept`, the selections it leaves behind.

### DestructiveCommands

`db` holds the rows: command states, per prepare its token (`live` until it is
consumed or redacted), its payload (`order`) and the floor of its evidence
(`ready`), and the device's generation and maximum. Queueing a prepare reads the
device row without a lock, so it is two actions (`ReadDevice`, `QueuePrepare`);
commit and cancel lock the prepare and are one each. `RepeatPrepare` is the
prepare request sent again with its idempotency key, `WorkerExpiresTokens` the
worker's pass, `Heartbeat` a result followed by expiry and delivery, of which
any part may fail, be sent, or be lost. Evidence fields that the server only
compares with the command's own payload are not represented: a result that
contradicts them is refused, which is the same as not sent. The four progress
states a sensor may report act alike, and so do `failed` and `rolled_back`.
Heartbeats do not overlap in this module; `ReadingIngestion` has that case,
with the reset as one of its steps.

### StatelessTelemetry

Time is counted in telemetry intervals and a meter counts one unit in each, so
a counter is the time since its last reset and energy counted twice or dropped
shows as a difference. `air` holds the requests under way, which are delayed,
repeated and lost. `Accept` is the whole of `ingest_stateless_sample`: effective
time, live state, energy evidence (allocation, recovered or unresolved gap,
reset), bucket, finalising of earlier buckets, withdrawal of the selection.
`WorkerScans` reads what a cycle will finalise, price and delete; the queries of
the pricing job see the buckets the same cycle finalised only once a first
group is flushed, so those are priced in the next cycle or `joined` to this one.
A sample, too, is taken at the instant of its `DELETE`. `WorkerCommits` writes
what was read, `WorkerRollsBack` does not, because some job failed
or because the database refuses a deletion (`DeletionRefused`).

### BillingUsage

Every member draws one unit per interval, so the true usage of the cycle is the
elapsed time. `AccountCycleUsage` and `OverviewUsage` are the two
implementations, each with its own treatment of seeds, gaps and intervals
without energy. `Estimate` is the energy of a short gap at the average rate of the
measured intervals next to it, with bounds from the two rates: a bucket that is
cut by the gap, still open, or holds energy of the bucket before has a rate of
its own, and `EstimatesPlausible` says how far off that can be.
`ResolvedUsageIsComplete` compares the sum with the truth,
`OverviewAgrees` the two sums with each other. Two exceptions are part of the
property: a gap recovered across the end of a seed, and samples with power but
without a counter, are counted twice by the code.

### ServiceBranches

A request is a transaction between its statements: which rows it has locked,
what it has read without a lock. `LockMembers`, `LockAccount` and the commits
are separate steps; the unlocked reads are the source check of a move, the
scopes of the members of a designation and the account's cost scope in a scope
request. The two action properties name exactly those reads as the only way a
member or the backing of the cost scope is lost.

### UserAccess and LoginThrottle

A request carries the permissions it was authenticated with (`current_user`
commits), locks its target and, where owners are concerned, the home, and
commits. `change_password` takes no row lock; a login that overlaps it is the
one way to a session with an old credential. In `LoginThrottle` an attempt
judges by the time its transaction began, which may be older than the row it
waited for; `GuessesBounded` gives the bound that follows for the guesses at a
password, twice the limit less two in any span as long as the shorter of window
and lockout, less the time a transaction may wait.

### FirmwareReleases

Rows and files change in steps a crash can separate: write, commit, rename of an
upload; move, commit, unlink of a deletion. The coordinator row serialises
uploads, deletions, promotions and the reconciler; archive and restore lock the
release only; the rename after the commit and the restore after a failed
deletion hold no lock. `stranded` records the one way a deleted release keeps
its image. One deployment of each release and its `ota_install` command stand for
what protects the release: a heartbeat ends a deployment and leaves its command
open (`EndDeployment`), and a late result makes such a deployment active again
(`ReviveDeployment`), also when the release was archived in between, because
archiving looks at active deployments only. `ServedImagesInPlace` says that the
image is in place all the same, as deletion looks at commands too. One exception
is part of the property: deletion looks at the commands before it waits for the
coordinator, so it overlooks one that a promotion creates meanwhile
(`overtaken`).

### RateSync and CatalogCrawl

A check loads the source's row (`LoadSource`) and then takes the lease, whose
`FOR UPDATE` does not refresh that row, or is refused it; it fetches with the
validator it had loaded, stores the artifact
file, then inserts revision and candidate; the rows are one transaction and the
file precedes it. The page and the parser change, fetches fail or are retried,
the deadline strikes at any await and processes die. In `CatalogCrawl` the
content of a page is chosen when it is fetched, so that the runs cover every
graph of links, cycles included, under limits of depth, documents and bytes.

### RateWorkflow and Tariff

A publication holds the rows it locked from its first query to its commit
(`publishing`); the worker's price is computed from the assignment it read and
committed later (`pricing`). `Assign` is `replace_rate_assignment`, the
replacement of the account's threshold and the withdrawal of prices, in one
transaction on the account row, taken at the instant of its `DELETE` (`kept` is
what the worker prices before the commit). `ResolvedThresholds` is the resolver of
the allowance of a day, which prefers the day's season to `all`. Replacement cuts
short the rows of one season only, so an earlier summer allowance outlives a newer
version's allowance for all seasons; `EachVersionKeepsItsAllowance` states this as
its exception. A candidate comes from a synchronisation
(`RecordRun`) or is entered by hand for one home (`EnterCandidate`).

`Tariff` has the two readings of a schedule that the code has: publishing picks
the most specific periods and looks at their tiers, pricing picks the periods
whose tier holds and then the most specific. `PublishedScheduleResolves` says
that what the first accepts the second resolves everywhere. The second part is
the loop of `price_sensor_interval`, minute by minute and tier by tier, with the
integer split of the energy and the rounding of its costs; the instant at which a
minute is split and the rounding of credits are left out, as are schedules of
dated prices, which have no tiers.

### Alerts

One condition and its alert. A cycle observes, applies and commits in three
steps with heartbeats, acknowledgements and windows between them. Ages are
relative and capped past every threshold, so behaviours have no end and
liveness can be checked.

## 3. Runs

| Run | Bounds | Shows |
|---|---|---|
| `authentication` | 2 keys, 2 attempts, 2 requests; 2 users, 2 requests; 2 sources, 1 principal, 2 attempts, 5 instants | at most one active key and one candidate; authenticated takeover; a key is lost only by a commit and a cancel both reported; revocation is immediate; outcomes are final; the home keeps an owner and sessions end with their credential; guesses are bounded |
| `rotation_lockout` | 2 keys, 2 attempts, 1 request | violation: a cancelled commit leaves no key |
| `commands` | 2 prepares with 2 commits; 1 batch of 2 sensors with every report and filing; 2 releases, one of them deployed and deleted (`Contested`), 2 deletions | a confirmation is used once, after readiness; generations and confirmed resets correspond; no reset gives up accepted readings; aggregates agree with jobs, decided jobs stay decided, deleted batches stay quiet; no live image is lost, and a revived deployment has its image |
| `commands_live` | 1 prepare; 2 keys; 2 releases, 2 batches, 2 silent sensors; 1 image with 2 deletions | tokens vanish, rotations end, rollouts do not stall, pending files settle |
| `ota_staged` | 2 batches (the second may be archived and deleted), 2 sensors | one staged sensor at a time, one job per sensor, cancelled before delivery, failures halt a rollout |
| `ota_revived` | 1 batch, 2 sensors | violation: a late result revives an ended job |
| `ota_halted` | 1 batch, 2 sensors | violation: the deadline pass promotes a job it halted |
| `evidence` | 3 sequences, 1 reset, 2 requests, or one at a time beside the pricing cycle; 1 sensor, 5 intervals with the change of cycle at 5, 2 faults; 1 meter, 8 intervals, 1 odd sample; 3 sensors, 2 branches, 2 editors, 4 edits | refinement of `AckCursor`, evidence and gaps; no stale price without a race; energy counted once, live state forward; resolved usage is the usage; branches and scopes |
| `worker` | 2 page texts, 2 edits, 2 attempts, 2 checks; lag and heartbeats up to 2 | revisions and their files, 304 answers, order of commits, readable pages reach review; alerts |
| `rates` | 2 homes, a candidate (allowance for all seasons) or an entry (summer), a bill (summer), 3 days, 2 versions; 5 link targets, depth 1, 3 documents, 4 bytes; schedules of up to 3 rows, 3 days of 3 minutes, 5 mWh | the published record, days without a rate, closure of the crawl, schedules resolve, intervals are priced exactly |
| `costs_race` | 3 sequences | violation: a stale price after a race |
| `history_retention` | 2 sensors, 6 intervals | violation: retention asks for the deletion of priced history |

Why the bounds are enough. Credential versions interact in pairs
(the active one and the candidate), which two versions give; that a third adds
nothing is what the theorems below establish for the invariants. Two requests
suffice for one to work on rows the other has changed. Two attempts give a first
delivery, a redelivery and the exhausted counter. A rollout needs two sensors
for a sibling to halt or to promote, two batches of one release for their jobs
to compete, two releases for the deadline pass to promote twice. Three sequences
give a hole with evidence on both sides and two gaps with evidence between,
one more than `MaxGaps`. Two prepares give one
made from a row that the other's completion has changed, two commits a second use
of a confirmation, one sequence a floor that readings overtake. Two users are
two owners that demote each other. Five telemetry intervals touch three buckets,
with a gap of more than two intervals that ends before the change of cycle and is
recovered, or crosses it and is not. Eight intervals of usage hold a recovered gap
inside the cycle, and an unresolved one with measured intervals on both sides.
One release that is deployed and deleted is enough for what protects an image; the
other one is there to replace it. An allowance for all seasons and a summer one,
each before or after the bill's, are the ways in which seasons meet. Three sensors
and two branches let a member move out of a home total of two. Two releases let
one replace the other as the current one while it is deleted. Two page texts let the
utility go back to an older one. Three documents and three pages let the crawl
meet a cycle and each of its limits. Two versions on three days let one cut the
other short and end before it. Three period rows are a base, its second tier and
a more specific row. Slots, requests, users, editors and homes are
interchangeable, so runs without liveness use symmetry on them.

Deadlock checking is on except in `authentication`, `rates` and
`history_retention`, whose parts come to rest at the bounds on time, credentials
and versions.

### Fairness

* Rotation: time passes (`OverlapElapses`) and some sensor keeps sending
  heartbeats (`OtherDeviceDelivery`): `deliver_commands` expires overdue
  rotations of every device. Nothing is assumed of the sensor that is rotating.
* Rollout: the worker runs: its loop calls `advance_staged_rollouts` every
  fifteen seconds. Nothing is assumed of sensors or operators.
* Destructive commands: time passes (`ExpiryPasses`), and the same loop calls
  `expire_prepare_tokens`.
* Images: requests in progress end, files grow old, and the reconciler's pass is
  not interrupted for ever by crashes or by requests that hold the coordinator
  row (strong fairness of its steps: the loop repeats it every cycle).
* Source checks: checks fall due, the worker begins them and they advance; and
  checks do not fail for ever (`<>[]` no further failure). A source that is
  never reachable never comes up for review.
* Alerts: time passes, cycles begin, and cycles are not rolled back for ever
  (strong fairness of applying and committing).

### Disagreements with the code's own text

Five runs end in a counterexample; each states what a comment, docstring or
message of the code says (quoted in `PROJECT.json`).

* **A cancelled commit locks the sensor out.** Cancel is queued while the
  prepare result is on its way; the result queues the commit as well. The sensor
  reports the commit (old key revoked, new key active), then the cancel, and the
  cancel revokes the new key. `LockoutCharacterised` proves that this is
  the only way.
* **A late result revives an ended job.** Confirmation ends a deployment and
  leaves its command open (a deadline ends both); a further result sets the
deployment's state
  unconditionally. `DecidedJobsStayDecided` shows that nothing else revives a job.
* **The deadline pass undoes its own halt.** The cancellation of staged
  siblings is not flushed when the next stage is promoted.
  `HaltUndoneOnlyByDeadlinePass` shows that every other path halts for good.
* **A pricing cycle commits a stale price.** Energy ingested during a cycle
  removes committed selections only. `PricesStaleOnlyByRace` shows that
  without such a race no order of arrival leaves a stale price.
* **Retention trips over its own history.** Sensors of an account are priced
  together. A late sample withdraws the selection of its own bucket only; the
  group is not priced again while another selection of it is left. The bucket
  keeps its cost evidence without a selection, retention tries to delete it when
  it expires, the foreign key refuses, and the worker's cycle is rolled back,
  with all its jobs, in every cycle from then on.

The first four have a companion property in a passing run that fences the
case in; two properties about promotion (`StagedRolloutSerial`,
`OneJobPerSensor`) set aside jobs revived in the second way, and
`MaximumCoversEvidence` sets aside the lost update of two overlapping heartbeats
(`devices.py`, `device.maximum_sequence = max(...)` on a row read before).
That lost update is not harmless: with the maximum too low, a data reset may be
accepted from a floor below recorded evidence, and the acknowledgement may then
move back. `GapsExact` and `CursorSpec` therefore state what holds with and
without it.

### Behaviour the models reproduce and no property forbids

No text of the repository promises otherwise for these; they are recorded because
a reader of the models will meet them.

* Confirmation ends a deployment and leaves its command in `awaiting_heartbeat`,
  which nothing expires: a sensor that never sends the final result keeps its
  batch from being deleted or retried (`firmware_deployments.py`).
* Cancelling a data reset whose token was consumed leaves its commit queued
  (`cancel_data_reset_prepare`).
* A prepare withdrawn while its result is on the way makes the server refuse the
  whole heartbeat, again with every retry (`apply_command_results`).
* An alert of a sensor that is revoked stays open (`evaluate_sensor_alerts`).
* Excluding or revoking sensors thins out the home total below the two members
  its designation asks for, and a home total with a revoked member refuses every
  edit until another one is selected (`update_service_branch`).
* A session opened by a login that overlaps `change_password` survives it.
* A bounded rate version activated over an open-ended one leaves the days after
  it without a rate (`replace_rate_assignment`).
* An allowance for all seasons does not replace an earlier one for a named season,
  which the resolver prefers for as long as its row lasts
  (`replace_utility_account_tier_threshold`).
* A deployment of an archived release, or of one deleted while its command was
  created, may become active again (`archive_firmware_release`,
  `permanently_delete_firmware_release`, `apply_command_results`).
* An interval stays unpriced when an account allowance ends inside one of its
  milliwatt-hours (`price_sensor_interval`; `UnpricedOnlyAtAllowance`).
* A gap recovered across the end of a seed, or around samples without a counter,
  is counted whole beside the time it covers (`account_cycle_usage`).

## 4. Proofs

`CredentialRotation_proofs` proves, for every number of key versions, every
attempt limit and any set of request slots (`ConstantsAssumption`: the first
two are positive):

* `InductiveInvariant`: `Spec => []IndInv`;
* `TypeCorrect`, `OverlapBounded`, `LockoutCharacterised`, `RevocationFinal`:
  the invariants `TypeOK`, `BoundedOverlap`, `LockoutOnlyByCancelledCommit`
  and `RevocationImmediate`;
* `OutcomesFinal`, `TakeoversAuthenticated`: the action properties
  `CommandOutcomeFinal` and `TakeoverIsAuthenticated`.

The argument. None of the invariants is inductive alone: a result is applied to
the candidate as the session loaded it, so one must know what the committed row
can be by then. `IndInv` says how far the commands of a rotation have come in
each state of its candidate (`CommandsFollowCandidate`): an unused version has
no commands, a pending candidate no commit, a prepared one a successful
prepare, an active one a successful commit or no commands at all, and a commit
that is still open belongs to a prepared candidate or to a rotation whose cancel
was reported. Then a successful prepare finds a pending row, a successful commit
finds a prepared one, and exactly one key changes hands. `RevokedRows` relates
`revoked_at` to the device's revocation, `SeenCommandsExist` says that
reports are about commands that exist. A request is a chain of
functions on the database (`ApplyResult`, `ExpireRotationCredentials`,
`ExpireCommands`, `DeliverCommands`); each is shown by a lemma of its own to
preserve `DBInv`, and the step `HandleRequest` composes the lemmas.

`DestructiveCommands_proofs` proves, for any number of prepares, commits and
sequences, `InductiveInvariant`, `TypeCorrect` (`TypeOK`), `UsedOnce`
(`ConfirmationUsedOnce`), `ReadyFirst` (`CommitFollowsReadiness`), `Accounted`
(`GenerationsAccounted`) and `MaximumKept` (`MaximumNeverMovesBack`).

The argument. `CommitsConfirmed` ties a commit to a consumed token and to
evidence of the sensor. A live token therefore means that no commit exists yet,
and queueing one consumes it. `SucceededIsReady` supplies the evidence at that
moment; it stays when the prepare is cancelled or expires later, which is why
the invariant cannot speak of the prepare's state. `ResetsCounted` says
that completed resets and generations 1 to `gen` correspond one to one; the check
`generation = reset_generation + 1` gives a completion the first free number.
All other steps are `Quiet`, and one lemma covers them.

`Firmware_proofs` proves, for any number of batches, sensors and releases,
`RolloutInvariant` (`Spec => []RolloutInv`), `BatchesCorrect` (`BatchesSound`),
`RolloutsCorrect` (`RolloutDisciplined`), `DecidedStaysDecided`
(`DecidedJobsStayDecided`) and `HaltsKeptButByDeadlines`
(`HaltUndoneOnlyByDeadlinePass`).

The argument. A rollout stays serial because a job that ended has
`completed_at`: a late result that revives it does not make a second fresh job.
A cancelled job was never delivered because a staged job has no command and a
queued command was not sent. A deleted batch stays quiet because deletion waits
for the commands as well as the jobs. A failure stops its rollout because no job
beside a failed one is staged, `PromoteAfterHalt` aside. `RolloutInv` says this
of the rows (`RowsInv`) and of what sensors received (`SeenSound`). A request is
a chain of row transitions (result, identity, delivery), so the argument is
about rows: `LawfulStep` says job by job what a link of the chain may do,
`LawfulStepKeeps` that such a link keeps the invariant and what is decided, and
one lemma for each link that it is lawful.

`Firmware_proofs` also proves `ImagesCorrect` (`ImagesSound`) for any
releases and deletion requests. `ImagesSound` does not say why an upload's row
may be committed or a quarantined file purged. The invariant adds what the
coordinator's lock protects: an upload before its commit has its file and no
row, a deletion before its commit holds a release that nobody serves or will
serve (`Unserved`), a deletion after it has left a tombstone; that a release has
its image not only while a deployment is active but while a command is left that
could make one active again (`Referenced`); and that nobody can bring back the image of a
release that was deleted while nobody else had it.

`ServiceBranches_proofs` proves `BranchesCorrect` (`BranchesSound`),
`HomeTotalProtected` (`HomeTotalKeepsMembers`) and `CostScopeProtected`
(`CostScopeStaysBacked`) for any sensors, branches and requests in flight. The
invariant is about row locks: requests hold disjoint rows, and what a request
has read of rows it holds still is so when it commits. `BranchesAssumption` says
that the absence of a branch is neither a branch nor a sensor.

`Worker_proofs` proves `AlertsCorrect` (`AlertsSound`), `RevisionsCorrect`
(`RevisionsSound`) and `ChecksInOrder` (`ChecksCommitInFetchOrder`). For
alerts, the invariant adds that what a cycle is about to commit fits the alert
it found. For the checks of a source it adds the lease, and that what a check
holds between its steps fits the committed rows: the validator it loaded before
its lease is that of a parsed page (`LoadedOfParsedPage`), its revision has an
artifact,
its validator belongs to a parsed page or to its own candidate, and its look at
the page is not older than the last committed one.

`Authentication_proofs` proves `AccessCorrect` (`AccessSound`) for any users and
requests and `ThrottleCorrect` (`ThrottleSound`) for any limits, window, lockout
and wait. The invariant for users: who holds the home's row leaves another
owner, who does not hold it takes none away, and a change of the password in
flight has all sessions in hand but those of overlapping logins. The throttle:
an attempt goes on only with rows that are not in a lockout at its time, and
they stay as it found them (`ThrottleInv`); the row counts the last `failures`
guesses since the last success, the first of them was committed soon after the
window started, and the window started long after all but `Limit - 2` of the
guesses before it (`GuessesFit`). An unlocked window had at most `Limit - 1`
guesses, the first of them long before; after a locked one the next guess waits
for the lockout. Two windows hold `2 * Limit - 2` guesses of one span, and a
third one is too late for it.

`Readings_proofs` proves, for any number of sequences, generations, requests in
flight, contents and listed gaps, `EvidenceInvariant`, `EvidenceCorrect`
(`EvidenceSound`), `AckImplementsCursor` (`CursorSpec`, the refinement of
`AckCursor`) and `PricesCorrect` (`PricesStaleOnlyByRace`). The invariant says
of the sensor that it is at most one reset ahead of the server, that its floors
ascend and that whatever is stored or under way was used in the generation it
names (`SensorInv`); and of a request that the row it holds covers the evidence
(`MaxInv`). The two loops, the cursor and the gaps, are recursive functions; that
they compute what is claimed is shown by the least round at which it would fail,
which needs only first-order facts about the order of the naturals.

For stateless samples it proves, for any sensors, bucket length, skew, delay and
retention, `LiveStateForward` (`LiveStateNeverRegresses`) and
`PricesFollowEnergy` (`PriceStaleOnlyWhenOvertaken`, one of the four parts of
`EnergyAccountedOnce`). The second needs that a selected price is of a final
bucket, that the prices of the worker's open transaction are of buckets that are
final when it commits and that it does not delete, and that what it deletes has
no price (`PriceInv`).

`Rates_proofs` proves, for any homes, plans, candidates, bills, ranges,
intervals and versions, `RecordCorrect` (`RateRecordSound`) and `DaysKeepRates`
(`RateLostOnlyAfterBoundedVersion`), and, for any link graph, families and limits,
`CrawlCorrect` (`CrawlSound`). `WorkflowAssumption` asks that offered ranges and
intervals are not empty and that evidence and bills name known plans;
`CrawlAssumption` that the targets on the host are finitely many and distinct
from off-site ones. The argument for the record: an open publication holds the
next number of its plan and the review it started from, and two of them differ in
plan and candidate (`PublicationsSound`); a published review keeps its version's
range and rule (`ReviewSound`); the assignments of an account follow each other,
its thresholds of a season do, each threshold begins with a rate, no two with the same one
(`OneThresholdAStart`), and the rate of a version with an allowance has it for as
long as it lasts (`AccountSound`). What the resolver prefers to it therefore began
with another, earlier assignment. Both
tables are changed in one way, rows are cut at the new start and the new row ends
before the next, and one lemma (`Inserted`) says what that keeps. For the crawl:
the family of every known link has an entry, an accepted link was captured or is
off-site, a family seen on a page has an entry, and what is pending is queued
once.

It also proves `SchedulesCorrect` (`PublishedScheduleResolves`), for any periods,
seasons, calendars, usage and allowance: whatever passes the validation of
`publish_rate_candidate` the engine resolves to one period at every instant.
`TariffAssumption` asks what the code refuses otherwise, a tier that ends above
its start and an allowance above zero. The state is simple here, the argument is
about the two algorithms: the validation looks at tiers only at their bounds, and
a tier holds a usage if it holds the largest bound that is not above it
(`AxisResolves`); validating the most specific periods first and pricing the
tiers first is the same once one of the most specific holds (`SpecificFirst`); a
bound that belongs to two tiers leaves two periods that meet there, and the
engine takes one (`BoundaryResolves`); an account's allowance moves the bound its
two tiers share (`AccountAxis`); and the day type the engine computes is one the
validation went through (`PriorityValidated`).

Only model-checked, because the prover cannot do it:

* liveness under fairness: `RotationResolves`, `RolloutNotStalled`,
  `TokensVanish`, `ImagesSettle`, `SourceReachesReview`, `AlertsFollowFaults`;
* what a fold over data computes, which needs induction: the sums of
  `EnergyHolds`, `UsageHolds` and `PricingHolds`.

## 5. Not modelled, and the plan

Not modelled for good: cryptography (a signature names its key), wording,
formatting and logging, the parsing of bills and rate documents (an outcome), the
frontend, migrations, backup and deployment scripts, routes that only read.

Not modelled yet: multi-factor codes and CSRF tokens, one-time enrollment
tokens, silencing and dismissal of alerts, commands whose results change no
other row, bill projections and cost true-ups, the scan-cursor file of the
pricing job (a scan wraps round, so a cursor ahead of its transaction delays
intervals and skips none), a commit whose acknowledgement is lost.
