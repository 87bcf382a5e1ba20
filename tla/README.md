# GARD: TLA+ models, checks and proofs

GARD ("src/gard") keeps an inventory of network devices, decides from a firmware catalogue
which of them must be upgraded, decides whether each of those is ready, and lets people plan
upgrades in waves and excuse blocked devices, with two-person approval and an audit trail.
It is a FastAPI service on PostgreSQL. This directory models its concurrent core in TLA+.

## Inventory

| Part | State | Operations | What is hard |
|---|---|---|---|
| Uplift state machines (`core/uplift_state_machine.py`) | none | `wave_decide`, `exception_decide` | the tables must agree with every caller |
| Waves, F5 (`core/uplift_wave_controller.py`) | `uplift_waves`, `uplift_wave_devices`, `devices.lifecycle_state` | draft, submit, approve, reject, cancel, invalidate | racing decisions, members changed between read and write, deadlocks with the reload |
| Exceptions, F5 (`core/uplift_exception_controller.py`) | `uplift_exceptions`, `devices.lifecycle_state` | file, approve, reject, withdraw, expire | check-then-insert, expiry against withdrawal, two exceptions of one device |
| Readiness, F4 (`core/readiness_evaluation_controller.py`) | `readiness_evaluations`, `devices.lifecycle_state` | evaluate, evaluate many, summaries | skips writes when the verdict is unchanged; trusts the latest F3 row |
| Selectors, predicates, path graph, actions (`core/scope_selector.py`, `prereq_predicates.py`, `upgrade_path_graph.py`, `recommended_actions.py`, `drift_rules.py`) | none | match, evaluate a rule, shortest path, build actions | unknown facts; rules that test what evaluation itself writes |
| Compliance, F3 (`core/compliance_evaluation_controller.py`) | `compliance_evaluations` | evaluate, evaluate many, summaries | idempotent insert by comparison with the latest row |
| Target lifecycle, F2 (`core/compliance_controller.py`) | `devices.lifecycle_state` | evaluate | overwrites whatever state it finds |
| Catalogue (`catalog/firmware_loader.py`, `core/firmware_catalog_controller.py`, `core/catalog_editor.py`) | firmware targets, packages, prerequisites, upgrade paths; YAML files | load, reload, edit | soft deletes; one transaction that re-evaluates many devices and survives errors |
| Import (`core/import_controller.py`, `core/device_controller.py`) | devices, observations, import jobs | upload a file, renormalize the estate | duplicates by file and by identity; a coroutine that blocks its own event loop |
| Normalization (`core/normalization_engine.py`, `catalog/normalization_loader.py`) | `normalization_rules` | normalize a row, load the catalogue, add an override | rules change while a file is read |
| Audit (`core/audit.py`, `worker.py`) | `audit_events`, `audit_chain_heads` | emit, seal a day | a second session commits on its own; rows that arrive after the seal |
| NetBox (`core/netbox_sync_controller.py`, `integrations/netbox/*`, `core/ipam_alignment_controller.py`) | sync runs, findings, and NetBox itself | sync, write back, align | remote writes are not rolled back |
| Packages (`api/routers/firmware_packages.py`, `core/blob_store`) | blobs and rows | upload, download, remove | rename of the blob against the commit of the row |
| Tokens, roles, middleware, MCP tools, reports, web UI | tokens | look-ups | sequential, or no state of their own |

How the parts interact: every HTTP request opens one session for its own rows and one for
the audit log; each is a database transaction at READ COMMITTED, committed when the handler
returns (`db/session.py`). Nothing locks a device while it is examined. `devices.lifecycle_state`
is written by F2, F4, waves, exceptions and import: it is the shared variable of the system,
and most of the hazards in `PROJECT.json` are about it.

What makes each part correct:
- waves: the state machine is followed under races, a parked device can always be released,
  an approved device was approved through a wave, nobody approves their own wave, requests end;
- exceptions: the state machine is followed under races, one approved exception per device
  and blocker, expiry is neither early nor skipped, no device stays excused without one;
- evaluation: the lifecycle of a device agrees with its latest verdict;
- catalogue: after a reload the live rows are those of the files, and every device a change
  touches was examined again;
- rules: the detailed rules amount to what the evaluators take for the catalogue, and missing
  data never lets a device through;
- import: a file is imported once, its counters account for every row, no fact is forgotten;
- audit: what it says of a request is what became of it, a sealed day covers the rows committed on it;
- NetBox: rows and NetBox devices are linked one to one, write-back overwrites nothing it
  could have seen, every request ends.

## Modules

`UpliftStateMachine` holds the two edge tables as sets of pairs, with the actor kinds and the
separation-of-duties edges, and the two decision functions in the order the code makes its
checks. Nothing in it depends on a state.

### `UpliftWaves`: waves under concurrent requests

| Model | Code |
|---|---|
| `wave[w]` | the committed row of `uplift_waves` and its `uplift_wave_devices` |
| `life[d]` | the committed `devices.lifecycle_state`; `blocked` stands for every value that waves never test for |
| `tx[r]` | what the request of worker `r` has read and not yet committed |
| `tx[r].won`, `tx[r].held` | the wave and device rows it has updated, and therefore locks |
| `tx[r].put` | device values assigned in the session, written or still to be written |

A request is a sequence of actions with a commit of anybody else possible between any two:
`Begin` (the row is read, `wave_decide` decides), `Guard` or `GuardLost` (the
`UPDATE ... WHERE state = :expected`, which waits for the row lock and then looks at the row
again), `Load` (the members are read and those to move are set in memory), `Flush` (one
`UPDATE devices` by primary key for each, in primary-key order), `Commit`. `Abort` is any
rollback: a crash, an error, a lost connection. A catalogue reload is the request
`Reload`, `Flush`, `Candidates`, then for each candidate `Pick`, `Guard`, `Load`; its order of
devices is that of a Python set. `Evaluate` is one device's re-verdict by F2 or F4, whose
computation is outside this module: it may commit any verdict at any time.

`WaveLifecycle` is the promise: waves move along the legal edges one at a time (a reload may
invalidate several at once), terminal states are final, the approver is not the drafter.
`ImplementsWaveLifecycle` maps it to the committed rows.

### `UpliftExceptions`: exceptions under concurrent requests

The same reading of a transaction, with `exc[e]` for rows of `uplift_exceptions`,
`verdict[d]` for the latest `readiness_evaluations` row, and a clock. `File` covers
`file_exception` up to its INSERT, which `Commit` performs: that is the check-then-insert
window. `Begin` and `Guard` are approve, reject and withdraw; `IndexSettled` and `Duplicate`
are the partial unique index on approved rows, which makes an approval wait for another
transaction that is changing the entry, and fail on a committed one. `ReadDevice` is the
re-read of the device after the guarded UPDATE (`_apply_state_guard` ends in `expire_all`,
so the session really reads again). `Evaluate` to `Decide` is F4's `evaluate` on one device: the
sweep over the overdue exceptions, the carve-out for an active one, the idempotency check and
the lifecycle write, which the ORM omits when the value it holds is already the new one
(`Assign`). In a catalogue reload `Reload` comes before it: F2 assigns and flushes the device in the same
transaction, which therefore holds the device (`put` is `other`) when its sweep waits for an exception.
`PassOver` is the F3 row that is too old, where a batch and a reload keep what the sweep wrote and go on.
`OtherWriter` is a status query (F2) or a wave committing a lifecycle of its own. The F3 state and
the set of blockers found are free choices at `Decide`.

`ExceptionLifecycle` is the promise: legal edges, no self-approval, at most one approved
exception for a device and blocker, expiry of overdue exceptions only.

### `DeviceEvaluation`: the three evaluators on one device

| Model | Code |
|---|---|
| `cat` | what the committed catalogue says about the device: whether its target is live and covers it, the version asked for, the rules it fails, the versions an upgrade edge leads to, the upgrade paths within the weight cap |
| `obs` | the latest observed firmware and the latest observation date |
| `life` | `devices.lifecycle_state` |
| `f3`, `f4` | the latest rows of `compliance_evaluations` and `readiness_evaluations`, by `evaluated_at`, which is all that anybody reads of them |
| `tx[r]` | the transaction of request `r`: the next call, the lifecycle as read and as assigned (`seen`, `put`), whether the device row is locked, the rows to insert |
| `tx[r].late`, `tx[r].alone`, `serial` | who else has committed meanwhile: `late` decides whether this request's row will be the latest, `alone` and `serial` are only for the properties |

| Action | Code |
|---|---|
| `Begin(r, op)` | `GET /devices/{id}/firmware-compliance` ("status"), `POST /compliance/evaluate`, `POST /readiness/evaluate` or `GET /devices/{id}/readiness`, an import |
| `BeginReload` | a catalogue reload up to the choice of the devices to evaluate (`_reevaluate_compliance_post_reload`), then the calls F2, F3 and F4 in that order |
| `F2` | `compliance_controller.evaluate`: verdict and, when it differs from the lifecycle held, a flushed write |
| `F3` | `compliance_evaluation_controller.evaluate`, which calls F2 and inserts a row unless the latest says the same |
| `F4Judge` | `readiness_evaluation_controller.evaluate`: a verdict on the latest F3 row |
| `F4Refuse`, `F4Skip` | the F3 row is too old: the 409 of a request for one device; `evaluate_many` and a reload count the device and go on |
| `Observe` | one import row of a known device: `upsert_from_row` and the observation |
| `Commit`, `Abort`, `DaysPass` | the end of the transaction; the clock |

One call of an evaluator is one step. Other transactions commit between the calls of a
request, and after them. Commits between the reads within one call are not modelled: a verdict that mixes
an old catalogue with a newer observation is missing; a verdict that is out of date when it
commits is not, since it is committed later than it is taken. One reload runs at a time. Several matching targets are represented by the one that
wins. A catalogue is a free choice of a small set, so that the
loader and the predicates are abstracted to what they yield. Left out: package drift and
evidence drift, recommended blockers and recommended actions (they change rows, never a verdict), the active-exception carve-out
(`UpliftExceptions` has it), the waves' lifecycle states (`UpliftWaves`), scopes and predicates
that test `lifecycle_state` themselves (`EvaluationRules` has these), the unused state `target_defined`.

The properties speak of requests that nothing overlapped (`alone`), because nothing in the
repository promises more: two evaluations of one device may overlap, and the later commit
then stands although it was decided on older rows. The overlapping steps are in the
model all the same, and the invariants hold across them.


### `EvaluationRules`: what makes a verdict

One device again, an evaluation is one step: this module has the content of the evaluators,
`DeviceEvaluation` their interleaving. Its state is the device's facts, its observations, the live rules, targets, edges and
packages, and what F2, F3 and F4 leave (`ev`). Selectors are functions from keys to what they
ask for; `Resolve` is the stable sort by specificity over targets in the order of `loaded_at`;
`EvaluateRule` is the dispatch table with its answers for unknown facts; `ShortestWeight` is
the search over a platform's edges, by rounds of one hop more (`Within`), whose result F4 holds against the cap,
while F3 asks only for some edge to the target (`EdgeReaches`); `SortBlockers`, `DriftReasons` and
`BuildActions` are the precedences of blockers, drift and actions. `Learn` and `Observe` are imports and syncs,
`LoadRule` to `RemoveEdge` are reloads, `ReloadPass` the three evaluations of one device in a reload.

It ties the two levels together: `Pipeline` is an INSTANCE of `DeviceEvaluation`, and
`PassAgreesWithPipeline` says that a reload's pass leaves what the operators of that module
compute from `Summary`, a catalogue in the sense of that module, made from the rows in another way (walks of bounded weight instead of a
search, the set of best targets instead of a sort).

What the module leaves out or assumes: versions are numbered in
the order of their strings, which is the order `min_current_version` compares; the graph is built for
each query (`UpgradePathGraphCache` lives as long as one call, so that it is never stale); the texts of
reasons. Two things it shows on the way: F2 uses the newest observation that names a
firmware, `min_current_version` the latest observation, so that F4 may cite
`missing_observation_field` for a version that F2 knows; and a standalone readiness evaluation
alternates when a rule is `not_in_state: [ready_for_uplift]`, since the verdict changes the fact that the
rule tests (`specs/004` FR-015, FR-024 and SC-004 promise the opposite). A reload's pass does not, because
F2 has just set `outside_target`.

### `FirmwareCatalog`: files, rows and blobs

| Model | Code |
|---|---|
| `disk`, `head` | the YAML files of the work tree and of the commit checked out |
| `rows` | target, package, edge and prerequisite rows, live and soft-deleted, by natural key and copy |
| `store` | the checksums whose bytes are in the blob store |
| `req[r]` | a boot, a reload, an edit or an upload: its step, what it read (`base`), what it will write (`plan`), what it has written and locks (`locked`) |
| `rules` | the rows of the normalization rules, which a boot updates and holds |
| `audits`, `committed` | rows of the audit log, and transactions that committed |

A reload goes through the kinds in the order of the code, each `Read` (the files, the look-ups
by natural key, the comparison and the deltas) and `Flush` (INSERTs and UPDATEs, which wait for
locks and fail on the partial unique indexes), then commits the tables and the audit row in the
order of its caller. An edit reads a file, truncates it and writes it, then reloads. An upload
takes the lock of the blob store, writes the bytes, flags the row, commits the audit session
and then its own. `Pull` replaces the tree at any moment; `Crash` ends one request anywhere.
`Undone` is a database error after the load, in the re-evaluation or at the commit: a request gives up
both sessions, a boot commits the audit session all the same, and an error that the re-evaluation swallows makes
the commit of the catalogue a rollback that nobody notices.
An entry has one value that stands for its fields, a package's is its checksum. `Pull` is one step, a crash
ends a request and not the process, and what the re-evaluation computes is
`DeviceEvaluation`'s.

### `Intake`: uploads, normalization, the audit log

| Model | Code |
|---|---|
| `dev`, `rules`, `jobs`, `observed` | `devices`, `normalization_rules`, `import_jobs`, `device_observations` |
| `req[r]` | a request: the row of the file it is at, the device it holds and has changed, what it has flushed and locks |
| `setting.procs` | which process runs a request: `upload_csv` is a coroutine and owns the event loop of its process until it returns |
| `audits`, `heads`, `sealer`, `day` | `audit_events`, `audit_chain_heads`, the worker's seal in progress, the clock |

A request is `Begin`, the job (`find_existing_job`, INSERT), then for each row the look-up of the device,
the merge, the normalization (`Recognises`, `Outranks`, `Normalized`) and the flush, then the
audit commit and, when the loop gets to the dependencies of the request, the commit of the session.
Other requests add an override, load the rules of the catalogue, renormalize the estate or evaluate a device.
`Crash` takes a process with all its requests, `Midnight` and `SealRead`/`SealCommit` are the days and the
worker. A rule has the set of raw values that it matches, the platform family that it puts out, if any
(`zyxel-vendor-fallback` of the rule schema has none), and a confidence that asks for review or not
(`normalization_loader` takes `manual_review_required`, which the schema does not). The family is set when there is one, the
class when the confidence suffices: two guards of `upsert_from_row`. A family that a rule gives as null is left out;
rules of one load share `created_at`, so that equal ones come in any order. ILIKE is `Like`,
in which `_` is a wildcard and a NULL column matches nothing (`LikeAssumption`).

### `NetBoxSync`, with `NetworkAlignment` and `LifecycleMirror`

`NetBoxSync` is `POST /integrations/netbox/sync`, from the trigger to the commit of the second
session: `PullPage` reads NetBox page by page, `Look` and `Flush` reconcile record by record
under row locks and unique keys, `Align` and `AlignFails` run the alignment with the NetBox
and the manifest of that moment, `Get` and `Patch` write back device by device, `Commit` and `AuditCommit` end it.
Two requests overlap, operators edit NetBox (`Operator`), devices are evaluated (`Evaluate`), answers get lost
(`PullFails`, `PatchFails`), processes die (`Crash`). `NetworkAlignment` has no state: the manifest's checks,
the choice of the management address, the findings for interfaces, VRFs and VLANs, the
statuses they give. `LifecycleMirror` has the fields and tags write-back wants and what it
decides for one device; the six fields that follow the evaluations are one.

## Runs

| Run | Instance | What it shows |
|---|---|---|
| `uplift_waves` | 2 waves, 2 devices, 2 requests of which one may be a reload, drafter who may approve | no device is stranded at `approval_pending`, none is `approved` without an approved wave, a drafter's own approval stops before any write, deadlocks need a reload, the requests implement `WaveLifecycle` |
| `uplift_progress` | 1 wave, 2 devices, 2 requests, one reload | every request that started ends |
| `revert_reverdicted` | 1 wave, 2 devices, 2 requests, no reload | a counterexample: reject or cancel overwrites a verdict committed after the members were read |
| `uplift_exceptions` | 2 exceptions, 1 device, 2 blockers, 2 requests, clock 0..2 | no excuse without an approved exception, overdue exceptions do not survive an evaluation, a deadlock needs an evaluation that waits for the second of two overdue exceptions, or for any in a reload whose F2 wrote the device, the requests implement `ExceptionLifecycle` |
| `exceptions_duplicate` | 2 exceptions, 1 device, 1 blocker | a counterexample: two concurrent filings for the same pair both commit |
| `device_evaluation` | 2 versions, 1 rule, 3 catalogues, 2 requests, 2 imports or reloads, days 0 and 2 | without overlap the lifecycle, the F3 row and the F4 row agree with each other and with their inputs, a device with a readiness verdict is outside its target, an evaluation of the unchanged writes nothing |
| `stale_refresh` | the same, 1 request | a counterexample: the refresh that the 409 asks for does not refresh |
| `evaluation_rules` | 3 versions, 5 rules, 3 targets, 4 edges, 2 changes of facts or rows between evaluations | rules, selectors and paths amount to the pipeline of `DeviceEvaluation` (`PassAgreesWithPipeline`); learning a fact, another edge or one rule less never turns ready into blocked (`ReadyKept`) |
| `firmware_catalog` | 3 requests, 2 targets, a package, 2 edges, 4 files, 7 deployments | an undisturbed reload serves the tree and audits exactly what it changed, checksums change only by removal, the audit log tells what became of a request unless a database error undid a load, an undisturbed upload can be downloaded, every request ends |
| `intake` | 3 requests, 6 files, 4 devices, 1 or 2 processes, 7 starts | one audited job for a file, counters that add up, no fact forgotten, an undisturbed upload leaves its last rows and what the rule that decides puts out, also without a family or for review, a sealed day covers the rows committed on it, requests that share no event loop with an upload end |
| `upload_freeze` | 2 uploads of one file in one process | a counterexample: neither ends |
| `netbox_sync` | 2 syncs, 3 NetBox devices, 5 rows, 4 estates, 2 disturbances | records and rows are linked one to one, statuses stand on findings, one writer for a NetBox device while links are not changed by others, operators' edits that could be seen survive, what is reported updated holds, every request ends |

Why these bounds are enough to be interesting: every race in the code is between two
transactions, so two workers reach it, and a third party is present as the committed rows that
other actions leave behind. Two overlapping waves, or two exceptions of one device, are what it takes for
one request to release a device that another still claims. Two devices make two flushes, so
that a lock order exists and a commit fits between them. The clock needs three values for an
exception to be filed, to be at its instant of expiry, and to be past it; `MaxLife` 1 makes
both reachable. `DeviceEvaluation` needs a day on which a row is fresh and one on which it is older than
the threshold of one day (`Pauses` passes two days at once), observations as old as the clock and
of today (`Lags`), and two changes, so that a verdict can be reached and be overtaken. Its three catalogues
are the target with a path, the target turned round with no path back, and a device no longer
covered that fails a rule. `EvaluationRules` has one rule for each way to judge (a number, a set, the
lifecycle, tags, advice), a target older and more specific than another, a path by way of a
third version that is within the cap or not, and a direct edge that never is. Its run begins with a platform known
and targets loaded, which `Init` reaches, but in more changes than the run allows. `FirmwareCatalog`, `Intake` and `NetBoxSync` begin in several
states each (`Starts`), chosen so that each hazard is a few steps away: tables empty, filled, and soft-deleted; production
and not; files whose devices come in opposite orders; estates with and without serials, and already linked.
A start also says which requests are made there and how many faults there are, which keeps each small. Three requests let
a third come between two that wait for each other.

Symmetry is used for waves, exceptions, blockers and requests in runs without
liveness properties, and never for devices, whose order is the flush order, nor for principals. The proofs
below remove the bounds for every safety property and action property.

Deadlock is checked where an idle worker can always take another request. `FirmwareCatalog`,
`Intake` and `NetBoxSync` have finitely many requests and stop when these have ended;
their liveness properties say that none of them is left waiting.

Fairness. `uplift_progress`: `SF_vars(Step(r))`, since the server runs every request it
has accepted and PostgreSQL hands a row lock to a waiting transaction that would otherwise find
the row locked now and free now; and `WF_vars(DeadlockVictim(r))`, since the deadlock
detector runs after `deadlock_timeout` and always chooses a victim. The three modules with
`Starts`: weak fairness of the union of all requests' steps, which is all that is needed since
they are finitely many and each takes finitely many steps: something that can run does run. Nothing makes a
request arrive, a fault happen, an operator edit, or the clock advance.

## Disagreements between the code and its words

Each of these has a run that finds it (`findings` in `PROJECT.json`):

- `RevertsOnlyParked`: the docstring of `_revert_pending_members_to_ready` says that devices F4
  re-verdicted are not touched. The test is on the value that was read, the write is by primary
  key alone; an evaluation that commits between the two is overwritten by `ready_for_uplift`.
- `RefreshClearsStale`: F4 refuses an F3 row older than `readiness_stale_days` and tells the
  caller to refresh it with a compliance evaluation. When that finds the verdict unchanged it
  inserts no row, so the latest one is as old as before: a device that is observed every day and never
  changes is refused from then on.
- `OneActivePerBlocker`: the specification promises a 409 for a second active exception; two
  concurrent filings both succeed, and the unique index looks at approved rows only. The
  weaker promise, one approved exception per pair, does hold and is proved.
- `RacingUploadsEnd`: a comment in `imports.py` has the loser of two racing uploads answered with
  a 409. `upload_csv` is a coroutine that waits in the database on the event loop, for a key whose owner can
  only commit when the same loop gets to its dependencies. The same happens when an upload meets a device row that a
  sync request of its process has flushed and not committed.

These are steps of the models as well, and were met while they were written; no run is spent on them:

- The audit rows of loads and removals are in the audit session before the devices are
  evaluated. When that or the commit raises, `reload_safe` rolls the catalogue back and commits the audit
  session, of which its docstring expects a `reload_failed` row; the log, by `specs/002` the auditable
  history of the catalogue, has loads that did not happen (`Undone`, then `AuditCommit`).
- A reload passes over a wave: `invalidate_affected_waves` calls a lost guard a racing terminal
  transition, but a submit loses it the guard too, and the submitted wave keeps its affected device.
- An unchanged F4 verdict is not written into a lifecycle that a status query has reset to
  `outside_target` (data model of F4: an `outside_target` device gets `ready_for_uplift` or `blocked`).
- The research notes of F4 count `ready_for_uplift` and `blocked` among the states a reload evaluates again;
  the list in the code does not, and deltas of upgrade paths contribute to no set. A reload that
  withdraws a path leaves the ready device alone.
- Two retries of one draft that overlap both look for the first; the unique index on plan and key refuses the
  second INSERT, and the retry is answered with an internal error instead of the draft.
- Write-back takes GARD's own older value for an operator's edit and reports a conflict
  from then on (`specs/010` has fields updated). Alignment manifests are validated after the reconciliation,
  although FR-015 has the sync fail closed. A failure in the middle of the alignment commits statuses without findings and
  leaves the run row unfinished. A serial held by an orphaned row, or two serials swapped, is a duplicate key, and an unaudited 500 on
  every sync. Offset paging skips or repeats devices when the list changes.
- A target renamed inside its file keeps its old row live (FR-002). A package resurrected with another
  checksum keeps `blob_present`. Two reloads that overlap can change a live package's checksum, two edits can lose one edge.
  A refused edit leaves the file it wrote, and every later reload fails on it. The audit row
  of a failed reload or of a rejected upload is rolled back with the request over HTTP. `_git_file_sha` looks
  for the file relative to the wrong directory and finds no commit.
- The audit row of an upload is committed before the upload: a crash in between leaves an import
  that is audited and did not happen. A file that could not be read leaves a failed job, and the same file is then refused
  as a duplicate. Rows committed after midnight, or after the seal, are missing from the head until the day is sealed again, which
  overwrites it. An import may overwrite a verdict committed between its look-up and its flush; a renormalization may overwrite a
  newer family with one derived from a raw value that has changed.
- Rules of one load are ordered by nothing when tier, priority, specificity and `created_at` are equal,
  although the engine speaks of a deterministic tiebreaker. Loading never removes a rule. Identity look-ups by ILIKE match
  hostnames with `_` or `%` to others, although they are meant as case-insensitive equality; `QuietIntakeServes` speaks
  of the others only. (`NetBoxSync` has equality in the place of ILIKE: its serials and places are no patterns.)
- F4 ignores deferred selector keys. `scope_selector` of the two batch endpoints is matched against facts without `tags`.
  `fetch_device_list` pages by evaluation id: a device evaluated again in between is skipped.

## Proofs

The eight proof modules hold for all values of the constants under each `ConstantsAssumption`
(`IntakeServes_proofs` also under `LikeAssumption`, that a NULL column is LIKE nothing, and `EvaluationRules_proofs` under
`NoneIsNoRow`, that `None` is no row of F3):
devices are naturals because they are compared as primary keys, as are requests where their order is
theirs (`Nobody` is not one); `None` and `NoSlot` are no row, principal, fact, number or file; the set of exceptions is finite (needed
only to count the overdue ones), and so are the NetBox devices and the rows of `Intake`, which are
counted, and in `EvaluationRules` the rules, targets and edges of the files, of which targets of one `loaded_at` are one;
in `DeviceEvaluation` the thresholds are at least one day, as the settings require; a NetBox id is positive, a page
is not empty, and no verdict is the tag `Foreign`. The starts are any that satisfy `IsStart`: rows that exist, and
keys that are unique as the indexes have them (those of `NetBoxSync` need not be: its theorems
do not use it).

`UpliftWaves_proofs`. The safety properties are about committed rows, and not inductive: a
commit writes what a transaction decided several steps earlier. `IInv` adds, for each request,
what its private state is worth against the committed rows: a wave row is held by one transaction
(`WonExclusive`) and its decision is still a legal edge (`WonLegal`); only a submit has
`approval_pending` to write and only an approval `approved`, to members of the wave it holds
(`PutOrigin`). `Carried` strengthens `PendingHasSubmittedWave`: the parked device has a
submitted wave whose holder, if there is one, has either not loaded the members yet or is about to
write this device. A request that closes a wave therefore releases what the wave had parked,
because it loads the members after it won the row. The lock-order
theorem carries a second invariant, that a request which is no reload has flushed only
devices below those it has still to flush, from which a cycle of two or three waiting
requests contradicts the order of the primary keys.

`UpliftExceptions_proofs`. `IInv` has six parts. `RowsExclusive`: an exception row is held by
one transaction. `ReqInv`: for a filing, that its row is not there yet; for a decision,
that the edge from the state read is legal, and that the row is still in that state once it
is held; for an evaluation, that every exception it found overdue is held, or still to be tried,
or no longer approved, and that what it has written to the device before its verdict comes from F2 or from an
exception it closed. `ApprovalsApart`: an approval that holds its row is alone with its
device and blocker, which is what the index gives. `Excused` strengthens
`ExceptionApprovedHasException` to the form that survives a commit: the excused device has an
approved exception whose holder, if there is one, either has not read the device yet or has a write
of it pending. This is where the order inside `withdraw` and `expire_overdue_exceptions`
(first the guarded UPDATE, then the device) is used: a holder that read the device after it won
saw any approval that could still have been undone.

`DeviceEvaluation_proofs`. `IInv` adds to the two invariants what each request holds while
nobody has overlapped it (`AloneInv`): the lifecycle it has seen is the committed one unless
it holds the row; a readiness verdict it is about to write stands on an `outside_target` row,
its own or the committed one; a compliance or readiness request past its call holds
exactly what the evaluator computes from the committed catalogue, observations and rows. Any
commit and any passing day ends the claim for everybody else (`NobodyAlone`), so a step
only has to be looked at in the request that takes it (`PrivateStep`). The three action
properties then follow from what a commit leaves behind (`QuietCommit`).

`Intake_proofs`. Three arguments meet in `IInv`. `RowsInv` is about what a session holds: the device
it has loaded is still there under the same identity (`LoadedSound`), a row it inserts is
nobody else's, the rows it has written are its own (`LocksApart`), and no two rows, committed or
not, have one key (`KeysApart`); what it is about to write keeps what it loaded, and what it
wrote keeps what is committed (`Keeps`), from which `KnownFactsKept`. `CountsInv` follows a file row by row:
through row `n` the counters add up to `n`, created and updated to the valid rows, accepted and review
to their identities. `JobsInv` has one claimant of a file, from the look-up of the job to its
commit, and says where the audit row of each job is. `SealInv`: a head, and a seal in
progress, have every audit row that was committed on its own day, once that is over, because the clock does not go back.

`IntakeServes_proofs` goes on from there to `QuietIntakeServes`. `QuietInv` says what a request that no commit has overlapped
(`Serving`) has served up to the row it is at: what it has loaded is what the session would find again (`Mirrors`), each valid
row has its device (`RowsPlaced`), the last row of an identity so far has left its raw value there and what a
deciding rule puts out (`RowsServed`, `Ruled`), each device has the last fact the file says of it so far, or its old one (`FactsServed`), and
what is about to be flushed serves the row at hand (`PlanServes`). A row finds the device of its own
identity because that identity is no pattern, and no two devices have one key; here
`LikeAssumption` is needed, for a row that names no host. The merge turns `FactsServed` of one row into that of the next (`Leaves`).
That the rule which nothing outranks is found among the matching ones is where the ranks of the
rules enter. At the commit nothing is left to serve.

`EvaluationRules_proofs`. Here the invariant is only where facts and rows come from; the work is in the operators. The library's
induction rules cannot be used, but what they are for can be had from well-foundedness: a set of
natural numbers with no least element is empty (`NatLeast`). On it rest the lemmas about the recursive functions. After `n`
rounds each version has the least weight of the chains to it of at most `n` edges (`WithinMeans`);
a lightest chain passes no version twice, or the part between could be left out, so that as many rounds as
versions are enough (`ArrivesSoon`, `WithinSettles`); and a chain within a weight is a walk within it
(`WithinSound`, `WithinComplete`). Hence `ShortestMeans`. Sorting is counting: in a finite set with an order each element
has its own number of predecessors, by the pigeonhole principle (`RankBijection`), from which `BlockersSorted` and, for
targets, `ResolveBest`. `ReadyStays` then takes a row to be ready if nothing in it blocks and there is a path (`ReadyMeans`),
which a fact that nothing selects by, a rule less or a lighter edge leaves so (`ClearKept`, `WalksKept`). `PassAgrees`
compares target, reasons, path and blockers with `Summary` one after the other. It is what showed that
F3 and F4 mean different things by a path, which `DeviceEvaluation` had as one: an edge that exceeds the cap
by itself is a path for F3 only, hence the field `reached`; and that two branches of `F2Verdict` overlapped.

`FirmwareCatalog_proofs`. `RowsInv` says that what a reload plans are rows of entries, one for a
natural key, over rows that were there; that one live row of a key is in everybody's view;
and that two sessions hold neither one row nor two live rows of one key. `AuditInv` places
each audit row at the step of its request, with "undone" for those that outlive their load, and `Unloaded` gives the boot its alibi: until some
reload commits, the tables still hold the rows they started with, so that a flush that fails
was failed by another. `QuietSound` is about sessions that nothing has disturbed: what
they read is committed, what they locked is what they planned, and the outcome of their plan over the
committed rows serves the tree, kind by kind (`Serves`), but for live rows whose key is
planned elsewhere. Those make the flush fail, which is why `Serves` cannot leave them out and
the commit can.

`NetBoxSync_proofs`. `Batch` and `Progress` follow a request through its records: every
record looked up has one row in the plan, every row planned is of a record, and at write-back
all are flushed. `RowsSound` has the keys: no row that a request can see has a key of a row it has
flushed, because PostgreSQL makes the others wait; and unless somebody committed meanwhile,
it has flushed what it planned over what is committed. `Apart`: two requests hold different
rows and different keys. `Mirrored` is what a request knows of NetBox: a PATCH under way
was decided on the fields and tags the device still has, and a device reported is what the
report says, as long as nobody has touched it. The two halves meet where another request patches:
by the keys it is another device (`OneWriter`).
The exception in `OneWriterPerDevice`, `Relinked`, came out of this proof. An UPDATE writes the columns that
changed: a request that finds its link unchanged does not write it, and so does not hold it when a
second request relinks the row and commits before the flush. With two requests such a link is
never written twice, and the run shows so; with four, two of them can relink rows between a
third's look-ups and flushes, after which the fourth may link a new row to a device that the third
still writes back. This is why the theorem is about requests whose links are still theirs.

The first two modules prove type correctness, every safety property and action property
of their passing run, and the refinement of their abstract specification, step by step
(`StepRefines`); the others every safety property and
action property of the runs `device_evaluation`, `evaluation_rules`, `firmware_catalog`, `netbox_sync` and `intake`.

Model-checked only: `RequestEnds` and the other liveness properties, because liveness under fairness is beyond the
prover. The four counterexamples are runs, not theorems.

## What is not modelled

- Lock waits inside the database other than row locks and unique keys (foreign-key
  checks, index page locks). No action of these controllers updates a referenced key.
- The computation of verdicts in `UpliftWaves` and `UpliftExceptions`: any verdict is possible
  there. `DeviceEvaluation` computes them, from a catalogue whose rule results are given, and `EvaluationRules` computes these.
- The wave plan (`draft_wave`'s classification of the scope, its idempotency key and window):
  `Draft` gives a wave any non-empty scope of at most `WaveMax` devices, at any time.
- Many devices in one evaluation request, apart from a reload in `UpliftWaves`: the batches are
  modelled for one of their devices.
- In the NetBox integration: the creation of custom fields, tags and device types, overlay services, the orphan
  report. `Linked` looks among the rows of the batch; the query would also find a row outside it that a third request
  linked to one of its devices meanwhile, after a second took the link of the batch's own row.
- Texts, cells and expressions: CSV cells, YAML fields, regular expressions and version strings are choices or small sets.
- The audit chain's hash: a head stands for the rows it was computed from.
- Request parsing, token look-up and permission tables: the permissions are guards. MCP tools call the controllers modelled here
  the same way as the routers; reports, evidence and device views only read; the web interface is an HTTP client.

## Plan

| Order | Module | Composes | Runs |
|---|---|---|---|
| 1 (done) | `UpliftStateMachine` | pure | through 2 and 3 |
| 2 (done) | `UpliftWaves`, abstract `WaveLifecycle`, proofs | 1 | `uplift_waves`, `uplift_progress`, `revert_reverdicted` |
| 3 (done) | `UpliftExceptions`, abstract `ExceptionLifecycle`, proofs | 1 | `uplift_exceptions`, `exceptions_duplicate` |
| 4 (done) | `DeviceEvaluation`, proofs | F4 rows as in 3 | `device_evaluation`, `stale_refresh` |
| 5 (done) | `EvaluationRules`, proofs | 4, as an INSTANCE | `evaluation_rules` |
| 6 (done) | `FirmwareCatalog`, proofs | | `firmware_catalog` |
| 7 (done) | `Intake`, proofs | | `intake`, `upload_freeze` |
| 8 (done) | `NetBoxSync`, proofs | `NetworkAlignment`, `LifecycleMirror` | `netbox_sync` |
| 9 | the draft's plan and idempotency window in `UpliftWaves` | 2 | `uplift_waves` |

Nothing a passing run checks is left to prove but liveness; the next theorems are those of step 9.
