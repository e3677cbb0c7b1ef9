# NGFabric: a TLA+ model of its core

NGFabric (the repository beside this directory) is a network management
application: a FastAPI process serves the API, Celery workers run the long jobs,
PostgreSQL keeps everything but the configuration that is on the devices. This
project models first the part in which a mistake costs most: a configuration change, from
the draft through approval to a deployment that touches real devices, and the drift
detection that compares the devices with it afterwards. Around it, it models what the
change rests on: who may log in and what the audit log says of it, the inventory and its
writers, the topology and the analyses that read it, the order of a plan, recommendations
and the versions of designs.

The source is Python; every path below is relative to `src/backend/app`.

## 1. The system

### Components

| component | state | operations | hard because |
|---|---|---|---|
| deployment engine (`domains/deployment`, `workers/tasks/deployment.py`) | `deployment_jobs`, `resource_locks`, events, results | create, start, `execute_deployment` (lock, precheck, backup, apply, verify, roll back) | one transaction for the whole run against devices that do not roll back; locks; crashes |
| configuration (`domains/configuration`) | jobs, objects, dependencies, versions | create, add object, generate, validate, submit, `record_version` | read-check-write without row locks |
| approval (`domains/approval`) | one request per job, its actions | create, approve, reject | four eyes; two services write one transaction |
| backup (`domains/backup`) | backups | live backup, restore, offline import | a restore is a merge and takes no lock |
| drivers (`drivers`) | a connection | connect, deploy, verify, backup, rollback | any call can fail with the device changed or not |
| drift (`domains/drift`) | runs, findings | analyse, accept, ignore, remediate, close | runs beside deployments; lost tasks |
| notifications (`domains/notifications`) | a row per user and event | notify, mark read | told once, by a run that may be delivered twice |
| audit (`domains/audit`) | hash-chained events | append | chain order, advisory lock, clock |
| identity (`domains/identity`) | users, roles, lockout counters | login, create user and role | counter races across a wait for the lock |
| discovery (`domains/discovery`) | jobs, results | create, run, cancel, reconcile | cancel against run; duplicate and lost deliveries |
| assets (`domains/assets`) | inventory, catalogs, relationships | create, update, delete, CSV import | check-then-insert; row locks taken in the order of a file |
| topology (`domains/topology`) | nodes, links | sync from the inventory, draw | derived on every read, by overlapping transactions |
| best practice (`domains/best_practice`) | runs, findings | analyse, triage | replaces findings while they are triaged |
| recommendation (`domains/architecture_recommendation`) | drafts, gaps | path search, generate | a search with a hop limit; sums that depend on its paths |
| design (`domains/design`) | designs, versions | edit, new version, approve | one approved version; edits against approval |
| reporting, credentials | none, encrypted secrets | reads | little protocol |
| frontend (`src/frontend`) | tokens | API client | token refresh |

### How they interact

* The router of `configuration` calls `approval` in the transaction of submit-approval;
  `approval` calls back `mark_approved` and `mark_rejected`.
* `deployment` reads configuration jobs (approved or not) and objects, and calls
  `backup` (before applying, and to roll back), `drivers`, `configuration.record_version`,
  `drift.mark_remediated_by_configuration_job` and `notifications`.
* `drift` reads versions and devices, and creates configuration jobs that go through the
  same pipeline. Such a job is one CreateJob and one added object in a single transaction.
  It calls `notifications` when a run found something.
* Every changing request calls `audit` in its own transaction. The advisory lock taken there
  is kept to the commit, so that from its event on a request runs alone.
* `best_practice` calls the sync of `topology`, which reads `assets`; `GET /topology` calls it
  too. `discovery` and the CSV import write the same asset rows as the API.
* `recommendation` reads the topology and writes a design; `design` keeps its versions.
* API and workers share only the database and the broker (Redis). Sessions are
  `autoflush=False`; a flush makes a write part of the transaction, the commit at the end
  of the request or task makes it visible. PostgreSQL runs at its default, READ COMMITTED.

### What makes each part correct

* Deployment: one deployment at a time on a device; a rollback gives back what was
  there; success means the configuration is on the devices; history has no gap and no
  duplicate; nothing is left locked; a task ends; failures are announced.
* Change control: nobody approves their own change; what is deployed is what was
  generated, validated and approved; job and request agree; a resolution is final.
* Drift: a run ends and reports what it found; a finding is closed by the success of its
  remediation, and by nothing else; triage is not undone.
* Audit: one chain, every creation in it once. Identity: the lockout follows the wrong
  passwords, and a lock in force holds.
* Inventory: a new asset duplicates none that could be seen; a failed row leaves nothing; a
  job's counters are those of its rows; a queued job ends although transactions deadlock.
* Topology and best practice: findings are those of the inventory's neighbours; triage survives
  every analysis. Plans: each object after what it depends on. Recommendation: shortest paths,
  and gaps that follow them. Design: one approved version, whose content stays.

The hazards behind these are listed, line by line, in `PROJECT.json`.

## 2. Modules

| module | what it is |
|---|---|
| `Deployment` | the engine: API calls, tasks, transactions, locks, devices |
| `AssetExclusion` | the abstract specification of the locks: an owner per asset |
| `ChangeControl` | configuration jobs and approval requests under overlapping requests |
| `Drift` | drift runs, findings, triage, remediation, notifications; deployments by their interface |
| `Access` | login with lockout, accounts and roles, and the audit chain they extend |
| `Inventory` | assets and catalogs, written by the API, CSV imports and discovery jobs |
| `Topology` | the graph derived from the inventory, and its sync |
| `BestPractice` | extends `Topology`: analyses, findings and their triage |
| `PlanOrder` | the dependency order of a plan: objects, dependencies, Kahn's algorithm |
| `Recommendation` | path search, protection and scale gaps |
| `Designs` | versions of a design, their edits, copies and approval |
| `MCDeployment`, `MCChangeControl`, `MCDrift`, `MCAccess`, `MCInventory`, `MCBestPractice` | a small instance of each |
| `MCPlanning` | small instances of `PlanOrder`, `Recommendation` and `Designs`, side by side |
| `Deployment_proofs` | proofs about `Deployment`: types; the locks and the refinement; what a deployment leaves behind |
| `ChangeControl_proofs`, `Drift_proofs`, `Access_proofs`, `Inventory_proofs`, `BestPractice_proofs`, `Designs_proofs` | proofs about each |
| `Planning_proofs` | proofs about `PlanOrder` and `Recommendation` |

### Deployment

The committed rows are `status`, `lockRow`, `versions`, `backups`, `notified` and
`remediated`. What a task has written and not committed is its `txn`; `Commit` merges it,
`Abort` drops it. `device` is outside both. `pc[w]` is the place in
`execute_deployment`; every device call is an action of its own, which other workers,
manual restores, crashes and expiring locks can come between.

The locks deserve a word. `_acquire_locks` reads each asset's row, then inserts rows for
all assets in one flush. The rows are deleted in the same transaction, so no other session
ever reads one. Exclusion comes from the primary key: an insert of a key that
another open transaction has inserted or deleted waits for that transaction to end
(`Free`, `held`). `held[w]` is therefore kept until the transaction ends, not until the row is deleted. A waiting
cycle is broken by the server (`DeadlockVictim`); the error is no `AppError`, so the task
rolls back.

Device calls have every outcome the drivers allow: `DeployObject` may change the device
and report a failure, or report success without a change; restoring may fail with or
without effect. The Windows drivers verify that an item exists and never restore
(`Windows`).

Credentials and drivers are looked up before a connection is tried. While objects are applied
nothing guards these lookups, and in a backup or a restore a secret that does not decrypt is
no `AppError`: what they raise ends the task (`LookUpRaises`), as does what `driver.disconnect()`
raises (`DisconnectRaises`). A lookup that only yields no password is a connection that may fail.

Left out: event and result rows, timestamps, the messages of notifications. External, modelled from how the code
uses it: PostgreSQL's key waits and deadlock detection, Celery's delivery with early
acknowledgement and its worker processes.

Assumptions: a device accepts the lines of its own backup; a stranded lock row (in
`lockRow` initially, as the test suite inserts one by hand) belongs to a deployment that is
not running here; a database session does not die while its worker lives; a lock row found
expired is looked at again when it is deleted, which is the same as SQLAlchemy's delete of
no row; manual live backups, which only add rows, are not made.

### AssetExclusion

`owner[a]` is the worker that has asset `a`. `Take` gains all assets of a deployment in one
step and only if all are free; `GiveBack` returns all of them. `Deployment` maps `owner` to
the worker that is between its lock acquisition and its return (`LockedPhases`).

### ChangeControl

Each request is a session with a reading step and a writing step (approve and reject have
two reading steps: the request, then the job), since nothing locks the rows in between.
SQLAlchemy writes an attribute only if it differs from the value the session read: `Assign`, and for
the job status `MarkApproved` and `MarkRejected`.
`rendered` and `checked` are the objects that generate and validate have looked at.
`raced` is a history variable: the pairs of job and stage ("prepare": add object,
generate, validate, submit; "decide": approve, reject) on which two requests overlapped.
The properties that need sequential requests say so through it, per stage, so that a race
in one stage does not excuse the other.

Left out: names, descriptions, the content of an object, dependencies (a cycle is an
outcome of generate), profiles, comments, and reject actions.

### Drift

A key stands for an (asset, technology, object type), and its state for the set of fields that
hold their intended values: enough for `diff_fields`, which compares field by field, and for
the severity, which depends on how much is missing. `ReadExpected` and `ReadDevice` are the two
readings of a run for one key, in this order and without a lock. `EndRun` commits findings,
counters, status and notifications together; `FailRun`, the exception handler, commits
with the status failed what the session holds: the findings made until then and, when the
exception comes after the loop, the counters and some of the notifications; `LoseRun`, a worker or a database session
that dies, commits nothing. The broker may refuse a message or deliver it twice (`Analyze`,
`Redeliver`).

A triage request reads a finding (`BeginTriage`) and writes its status later without looking
again (`EndDecision`); `EndRestore` creates the remediation job and leaves the status. The deployment of a job is
four steps: it changes the device, reads the findings it may close, and commits with the
version and the closed findings, or fails. A job stays approved and may be deployed again after
either; `succeeded` is the history that one of its deployments did. What else a deployment does is `Deployment`'s.

The history variables excuse nothing but what they name: `lost` (a run whose message or worker
was lost), `redelivered`, `settled` (findings decided while no deployment had read them open),
and in a finding `clean` (no deployment of the key between the two readings) and `drifted` (the
two really differed).

### Access

Each request is one transaction: `Begin` reads, checks the permission and decides; `Insert` puts
in a new row and waits for an equal name; `LockChain` takes the advisory lock, `AppendEvent`
reads clock and last event, `Commit` ends it. A login's account row is flushed only under the
lock, with values computed from what was read before waiting for it: the race of the lockout
counter. A login of a locked account writes nothing and commits nothing, and is no step. The hash is
abstracted to the index of the event it is computed over. `StepBack` sets the host's clock back,
once.
`stepped`, `overlapped` (accounts on which a login wrote over another commit) and `misses`
(wrong passwords since the last success) are history.

### Inventory

`tx[s]` is a transaction of an API request, an import or a discovery job. Its `mine` are rows
written and not committed: as in PostgreSQL they are locked until it ends, and nobody
else sees them. `Work` is the next step of a transaction. An import takes a savepoint for every row
(`save`), and a row that fails restores it, catalog rows included. A discovery job reads its row
when its task is taken and writes counters and status from that at the end; the row is locked in
between, and a cancellation that has read a cancellable status waits and then overwrites. Two
transactions that wait for each other's rows are resolved by the server
(`Victim`). Of an asset, the identity factors and the code are kept, as duplicates are found by
them; parsing a row is one of three outcomes (fails before, fails after the catalog lookups, or
succeeds). A catalog row is looked for by its name first where the code does so (`LookedFor`: all but
locations). An update reads its asset once more before it writes (`GetAsset`) and fails if it is gone;
a column that a discovery row leaves empty is written empty (`Blank`), one that is missing keeps its
value. `disturbed`, `overlapped` and `lost` are history.

### Topology and BestPractice

A sync reads nodes and assets, inserts and deletes nodes, reads nodes, links and relationships, inserts
links, all in its caller's transaction: `GET /topology`, or an analysis. Each query is a step of its
own, between which others commit. The unique key on a
node's asset makes a second sync wait; nothing does that for links, so their number is kept.
`alone` and `doubled` are history. `BestPractice` adds the run: it reads nodes, links and assets once
more for the contexts, deletes the findings in state
new that it can see, and evaluates a rule on the degree of each critical asset. Of the rules, those
on the degree are modelled, for they are the ones that depend on another component. Triage
may come between any two steps. An exception at any of them, the loading of the rules included, commits
the run as failed with what was written so far (`FailRun`); one of a flush leaves nothing (`Undo`).

### PlanOrder, Recommendation, Designs

They share no state; `MCPlanning` runs them side by side, a behaviour being of one of them.

* `PlanOrder` adds objects and dependencies by requests that check the draft status before they
  write, and orders the objects turn by turn of Kahn's loop (`Visit`). Any number of `Generators` may
  have found the job a draft: each reads the job, the objects and the dependencies in a step of its own, and
  the one that commits last has written its places over the others'. They commit one after the
  other, for all write the job's row first. A place that was computed as it was loaded is not written
  (`Kept`: the session compares the two), so when a third request has moved it in between, the places are
  a mixture of two plans. `late` are the rows that were committed after the last generate had
  read, and the objects whose place it left like that. The runs compare the order with its definition.
* `Recommendation` is the breadth-first search turn by turn (`Explore`, `Reach`, `GiveUp`), then
  the protection and the scale gaps of one capability. It is compared with a definition
  by all simple paths.
* `Designs` is versions, edits under the draft check, the copy of a version (`CopyComponents`,
  `CopyMappings`, `CopyJoins`), asset mappings and approval. `overtaken` are edits whose version
  was approved between their check and their commit, `raced` says that two approvals overlapped.

## 3. Runs

| run | configuration | question | distinct states |
|---|---|---|---|
| `deployment` | 2 starts in all, 1 crash, 1 manual restore, 1 device with a possibly stranded lock | are the engine's safety properties right in every interleaving? | 821,708 |
| `deployment_progress` | 2 starts, no crash, one Windows device, fairness | does each task end, and do the locks refine `AssetExclusion`? | about 320,000 |
| `rollback_replaces` | as `deployment`, no crash | does a rolled back device hold its backup and nothing else? No. | violated |
| `history_of_success` | " | do only successful deployments add versions? No. | violated |
| `changes_trail` | " | does a device change leave a status? No. | violated |
| `change_control` | 1 job, 2 objects, 3 users, 3 requests at a time | do four eyes, job and request, reviewed and deployed agree? | 90,811 |
| `resolved_is_final` | " | is a resolution final? No. | violated |
| `drift` | 1 key of 3 fields, 1 run delivered up to twice, 1 worker, 1 triage request at a time; either 1 finding with 2 jobs, 2 successful deployments and a change by hand, or 2 findings with 1 job and 1 successful deployment; fairness | is what a run reports real, is a finding's status what its remediation and triage made it, and do runs end? | 2,302,032 |
| `access` | 2 requests at a time, 3 audited, 2 attempts, lockout of 2 ticks, 1 tick and 1 step back of the clock, fairness | one audit chain, an exact lockout, audited creations, no request waiting for ever? | 253,068 |
| `inventory` | 4 assets, 2 transactions at a time, 2 API requests or imports, 1 job delivered up to twice, fairness | do rows, answers, counters and duplicates agree, and do jobs end? | 774,929 |
| `best_practice` | 3 assets, 1 drawn node, 2 transactions at a time, 2 analyses, 2 edits | are findings those of the inventory, and does triage stay? | 2,722,576 |
| `planning` | 4 objects, 3 dependencies, 1 generate at a time, or 3 objects, 2 dependencies, 2 generates; 5 hosts, 8 possible links, 3 hops; 2 users, 3 versions, 2 edits | are order, paths, gaps and approved versions right? | 2,830,029 |

Bounds, and why they are enough:

* Two workers and two deployments over the same two devices in opposite order are the least
  that deadlock, collide on a history, and overwrite each other's objects. A task touches
  nobody's state but its devices', lock keys and histories, and each of these is contended
  by the two. With `MaxStarts = 2` both may run, or one of them twice, at once or one after
  the other. The run with three starts, one crash and no manual restore (8,650,000 states)
  passes too; it takes too long to keep.
* `MaxCrashes` and `MaxRestores` count events that are independent of one another.
* Three sessions let a third request come between the two steps of two racing ones; three
  users are a creator and two approvers. Jobs do not interact, so one is enough.
  `DeleteCounts = {0}` because `compute_change_type` yields no deletion: no job asks for
  two approvals today. The theorem covers those that would.
* `drift`: keys do not interact but through the counters of a run. A run delivered twice may find
  the same difference twice, two jobs may remediate one finding, and three fields give each
  severity. The worker that dies with a run may be the one that takes it again. `MaxVersions`
  bounds the successful deployments, which may be of one job or of both; failed deployments are not
  bounded, and may leave a second difference where no hand does. Two jobs around two findings
  at once (4,765,752 states with one successful deployment) pass too and take too long to keep.
* `access`: with two attempts allowed the second of two misses sets the lock, and two that
  overlap may be counted once; three events are two misses and what comes after them, before or
  after the lock has expired.
* `inventory`: an import and a job that update two assets in opposite order deadlock; another import
  has a row that fails after it made a catalog row; the two free ids are for two creations of
  one device. Two deliveries of a job overlap or follow each other.
* `best_practice`: two syncs at a time double a link, so do two relationships of one pair. The
  critical asset has one neighbour and may get or lose a second one.
* `planning`: four objects and three dependencies hold each shape that the algorithm tells
  apart: chains, forks, joins, cycles with and without a tail. With eight possible links there are paths
  of equal length, longer than the limit, and around a capable host. Two users make each pair of requests on three
  versions overlap.
  Two generates that overlap overwrite each other, or one loads the places that the other wrote. That a third may
  move a place in between, of which `late` leaves the object out, takes three: the theorem covers it.

Symmetry is used where the members are interchangeable model values and the properties name none:
sessions and objects in `change_control`, sessions and analyses in `best_practice`, three
objects, users and the requests that generate in `planning`; never in a run with a liveness property.

Deadlock is not checked: when the bounds are used up nothing need happen.

Fairness, and why the code justifies it:

* `Deployment` (`FairSpec`): weak fairness of each worker's next step, since a running process
  goes on (device calls have timeouts in their libraries), and of the server's deadlock
  detection, which PostgreSQL runs after `deadlock_timeout`. Nothing is assumed of starts,
  deliveries, crashes or expiry. Weak fairness is enough: a step that waits for a key stays
  enabled once the key is free, until it is taken, and keys are taken a bounded number of
  times since starts are.
* `Drift`: weak fairness of each worker's steps, which include taking a message that is there.
* `Access`: weak fairness of what waits for nobody (`AppendEvent`, `Commit`), strong fairness of
  what waits for the advisory lock or a name (`LockChain`, `Insert`): PostgreSQL serves those
  who wait for a lock in a queue.
* `Inventory`: weak fairness of each transaction's next step, the resolution of its deadlocks
  included, and strong fairness of taking a job's task, since sessions (the pool of the workers)
  come and go and the broker keeps the message.

### What the violated runs show

* `rollback_replaces`: the drivers declare `CONFIG_REPLACE`, their rollback sends the
  backup's lines with `send_config_set`. What the deployment created stays.
* `history_of_success`: versions are recorded object by object; a deployment that ends
  `verify_failed` commits those it recorded. Drift is then judged against them.
* `changes_trail`: the driver and credential lookups of the apply loop and `driver.disconnect()` are
  not guarded. What they raise rolls back the trail of a deployment that did change its devices, the
  loss the comment in the verification loop warns of, and, but for the last `disconnect()`, skips
  the device rollback.
* `resolved_is_final`: an approval and a rejection that overlap both succeed.

`PROJECT.json` lists these as findings, with eight that no run is spent on:

* a failed verification does not roll back, as the repository's README says it does;
* lock rows are never visible to another session, so their expiry decides nothing;
* `compute_change_type` yields no deletion, so risk is never high and two approvals are never asked for;
* `accept_current` changes the finding's status and no baseline, so the next run finds it again;
* `_last_hash` takes the event with the latest timestamp, which after a step back of the clock
  is not the last one, so that the chain forks;
* `sync_links_from_relationships` makes two links of two relationships of one pair, and the degree
  that the best practice rules read counts both;
* the sync deletes device nodes that were drawn by hand;
* the failed status of an analysis whose flush failed is lost with the transaction.

The clock that is set back and the doubled link are in the models: `ChainLinear` and `FindingsTrue`
name them, by the history variables `stepped` and `doubled`, as the cases in which they do not hold.

## 4. Proofs

TLAPS proves 36 results that `PROJECT.json` lists, for all values of the constants that satisfy the
named assumptions. Each comes from an inductive invariant that TLC had checked first on the small
instance.

### Deployment

* **`Deployment_proofs!TypeCorrect`** (`Spec => []TypeOK`). `TypeOK` is not inductive. The
  invariant `TypeInv` adds three parts. *NumbersBounded*: the numbers of every history, committed and in
  transactions, have a bound. Without it `CHOOSE` of the highest number, and so the next
  one, has no type. *BackedUp*: from the apply phase on, a task has a backup of every asset it was asked
  to. *RollsBackOwn*: what remains to be rolled back is among those. Both are needed so that
  restoring writes contents and not `NoBackup`. The lemmas show that a bounded set of
  numbers has a greatest one, that an iteration order exists, and what each session write
  does to the type of a transaction.
* **`Deployment_proofs!Excludes`** (`Spec => []DeviceExclusion`). The invariant
  `LockInv` is the argument for the locks: no two transactions have written one
  key (`HeldDisjoint`), an acquiring task has each of its assets held, pending or still to
  look at (`AcquiringAll`), so when the flush returns it holds them all (`HoldsAll`).
* **`Deployment_proofs!LeavesNoLock`** (`Spec => NoLockLeak`): the part `ReleasedAll`
  of the invariant says that a transaction about to commit has deleted what it inserted.
* **`Deployment_proofs!Refines`** (`Spec => ImplementsExclusion`): initial states map to
  initial states, `LocksAcquired` to `Take`, leaving the locked phases to
  `GiveBack`, everything else to a stutter.
* **`Deployment_proofs!FailuresAreNotified`** and **`ClosedIsRecorded`**, from `LocalInv`:
  what one task knows whatever the others do. It works on its own assets and
  objects (`WorksOnOwn`), writes versions of them only (`WritesOwn`), closes findings on
  success only (`ClosesOnSuccess`), holds its assets to the end (`HoldsToTheEnd`), has told of a
  failure it is about to commit (`HasTold`) and recorded what it has verified (`HasRecorded`).
* **`Deployment_proofs!HistoriesAreNumbered`**, from `NumbersInv`: each history is
  numbered without gap or duplicate, committed and with what each task has added. The step that
  needs the locks is the commit: no other task has added to that history (`HistoriesApart`), since
  the key names the asset (`KeyAssumption`) and the two tasks would share it (`LockInv`).
* **`Deployment_proofs!SuccessIsApplied`** and **`RollbackGivesBack`**, from `DeviceInv`:
  what a task vouches for, the objects it has verified or the backups it has restored, is on the
  devices, but for the ones a manual restore touched. Another task's device call
  leaves it alone, as it works on other assets (`OwnDevices`, `VouchesStays`).

### ChangeControl

* **`TypeCorrect`**, with the invariant that generate and validate have read objects that exist.
* **`SomeoneElse`** (`Spec => []SomeoneElseApproved`), for any number
  of overlapping requests and for every number of deletions. The invariant `FourEyes` says
  that approvals are never the creator's (`ApprovalsAreOthers`), that a user in the course of
  approving is not the creator and that, if approvals were read, one is somebody else's still
  (`ApprovingIsOther`), and that approved, deployable or about to be deployable means signed
  (`ApprovedIsSigned`).
* **`RequestIsFollowed`**, **`ReviewIsComplete`**, **`DeploymentIsApproved`** and
  **`ResolutionStays`**, from the invariant `Stories`: a job that has not raced in a stage has one
  session of that stage at most (`Alone`), what this one read still holds (`Prepared`, `Decided`); if it has raced in neither,
  job and request tell the same story (`Agrees`).

### Drift

`Typed` is the types. **`RemediationIsEarned`** and **`SuccessClosesItsFinding`** follow from
`Closing`: the job that a finding names was created for it, and a job closes only the finding
it was created for (`Linked`); a deployment about to commit has read the open findings of its job
(`ReadAll`), and none whose decision is settled (`Untouched`).
**`DecisionsStay`** follows from it with `Reads`, which says what a triage request in
progress has read.

**`RunsReport`** and **`DifferencesAreReal`** follow from `Reporting`, about a run and the worker
that executes it. A message that was not delivered twice is executed once, by a worker that has
read the row as it still is (`Once`): this is what redelivery takes away, and why the property
is about the other runs. The findings the worker has not committed are of its own run, at
most one for each key it has checked, and, if no deployment came between their readings,
of what the last version and the device differ in (`Found`). Findings, counters and notifications become visible
together with the status (`Reported`), and no later step adds to them. The lemma `KeepsFindings` says that
triage and deployments change the status of a finding and nothing the report counts.

### Access

`Typed` is the types (**`TypeCorrect`**). **`AuditIsOneChain`**: the order of the events is that of
their times (`Ordered`) and the holder of the advisory lock is about to chain to the last (`ChainedNext`).
**`LockoutIsExact`** and **`LockIsKept`**: the counter and the lock are those of the wrong passwords
(`Lockout`), since a login on an account without overlap has read what is
there still (`LoginsRead`), and nobody logs in to an account before it exists (`Unborn`).
**`CreationsAreAudited`**: a name in the course of creation is nobody else's (`Fresh`), each actor
has the permission still (`Authorised`, as permissions are only added) and each row has one event (`Once`).

### Inventory

The properties of the inventory are one argument, `IInv` (**`Invariance`**), as each needs the others.
`Typed` is the types. `Unborn`: a job that is not there has no task, worker or result. `Exclusive`: no two transactions have written one row or
inserted one unique name, which is what PostgreSQL's row locks and key waits give; it is what makes the
order of commits irrelevant to what each has counted. From it follow:

* **`TypeCorrect`** with `NamesOnce` and `CodesApart`: a unique name in the course of insertion is not committed, and
  no two rows, committed or not, have one asset code. This one looks at others' uncommitted rows: a code that another transaction has
  inserted makes the second one wait and then fail.
* **`ImportsAreWhole`** with `Counted`: the number of rows a transaction counts as created is the number
  of those it has inserted, so that rolling back to a row's savepoint has to restore the
  counter with the rows (`Carries`, `Wrote`).
* **`CountersAgree`** with `Tallies`: a job that runs alone has read the counters as they are.
* **`CreatedAreNew`** (an action property) with `LooksNew`: whatever a transaction sees live and like the asset it is about to create, it
  has updated itself, or others have committed since it looked. The check is not repeated at the insert.

### PlanOrder

**`PlansAreOrdered`** (`OrderSpec => []OrderRespects`) is the correctness of Kahn's algorithm for any
finite graph, for rows that other requests add while it runs, and for any number of requests that generate
at one time. `Entered` is the types and the
rows' own constraints, `HasRead` says that each generate orders what was there when it read (all but
its `late`), and `Sorting` is the loop invariant: each object ordered once, after all that it depends
on; `inDegree` counts the dependencies on objects not yet ordered; those for which it is zero are ordered or
queued. `LoopStarts`, `LoopTurns` and `LoopEnds` are about one call of the algorithm and mention no state.
The last one needs no induction: if objects are left and the queue is empty, each of the rest depends on
one of the rest, and that set is the ring which `Cyclic` asks for. `StaysCyclic` and `LeavesOut` say that rows
added later neither break a cycle nor enter the order, `TurnsKeep` that a generate's steps are none of
the others' business, and `Ending` that a commit leaves its own order in place but for the places it
did not write.

### Recommendation

**`SearchesAreExact`** (`PathSpec => []SearchIsExact`) is the correctness of a breadth-first search
with a hop limit, for any finite set of hosts and any links. `Levelled` is its loop
invariant, with the number of hops `d[h]` in which a host was first reached: the queue holds simple
routes whose hosts are visited, and goes from one level to the next; a host whose route has left the queue
has its neighbours visited, at most one hop further on, unless it is at the limit. `Walks` draws the conclusion that the algorithm
needs: if the neighbours of all hosts of the lower levels are visited, then along any route that is no
longer than these levels the host after `i` hops was reached in at most `i`. It is the induction over a
route, put as the least `i` at which it would fail, since the prover has no induction over data. `FirstIsShortest` and `NoneIsNone` are what
follows when the goal is met and when the queue is empty; `SearchTurns` keeps the invariant over a turn, whatever the
order of the neighbours.

**`GapsArePaths`** (`PathSpec => []GapsFollowPaths`) needs that every crossing was searched once
and each finding is exact (`Searched`), and that the gaps were computed after the last search (`Decided`).
`BoundariesJudged` is the step from paths to boundaries: the code judges a boundary by the one
shortest path it has for each pair, the property by all of them, and the two agree where all
of the shortest paths do.

### BestPractice and Designs

* **`BestPractice_proofs!FindingsAreTrue`** (`Spec => []FindingsTrue`): the findings of an analysis whose
  sync nobody disturbed are those of the inventory's neighbours. The invariant `Analysing` has three parts:
  unless links were doubled, there is one at most for a pair, and it is of a relationship (`Counted`); a
  transaction inserts links of relationships only (`Linking`); and what an undisturbed transaction has read,
  decided to insert and found broken is so still (`Fresh`). The degree is the number of link ends at a
  node, and `OneLinkEach` is the bijection between those and the neighbours, from which `CountsRelated`
  concludes that the two cardinalities are equal. A failed run may commit from any step; it makes no claim
(`settled` is false then), but what it commits must leave `Counted` true (`LinksCommitted`).

* **`BestPractice_proofs!DecisionsSurvive`** (`Spec => TriagedStays`): a run deletes what it found
  in state new, and nobody triages a row that is being deleted, which its row lock prevents (`DeletesNew`).
* **`Designs_proofs!ApprovedKeepsContent`** (`DesignSpec => ApprovedFrozen`): a request that edits
  a version that is no draft any more is in `overtaken` (`Overtaking`), and a copy goes into a version
  with a number of its own that is not committed yet (`Numbered`).
* **`Designs_proofs!ApprovedIsOne`** (`DesignSpec => []OneApproved`): the approvals so far are
  increasing and only the last is approved (`Ordered`), and there is one approving request at most, of a
  draft above all approvals, which reads the approved version as it is (`Single`).

### Assumptions

TLC evaluates them in every run of the module that names them.

| module | assumption | says |
|---|---|---|
| `Deployment` | `ConstantsAssumption`, `BoundsAssumption` | finitely many assets, plans over objects, numbers |
| | `KeyAssumption` | a history's key names its asset |
| `ChangeControl` | `JobOfAssumption`, `DeleteCountsAssumption` | an object belongs to a job |
| `Drift` | `KeyAssumption`, `StateAssumption`, `RecordedAssumption`, `BoundAssumption`, `TriagerAssumption`, `NoneAssumption` | types; histories begin with one version or none; finitely many users; `None` is no job |
| `Access` | `SeedAssumption`, `BoundAssumption`, `NoneAssumption` | what is seeded is among what may exist |
| | `LimitAssumption` | at least one attempt is allowed |
| `Inventory` | `CatalogAssumption`, `BoundAssumption`, `RowAssumption` | unique names and those looked for are names; rows, files and scopes have their types |
| | `NoneAssumption`, `SeedAssumption` | no asset row is `None`; finitely many assets, those seeded are there |
| `PlanOrder` | `ObjectsAssumption`, `PairsAssumption` | finitely many objects; an id is no pair of ids |
| `Recommendation` | `HopsAssumption`, `HostsAssumption`, `NoPathAssumption` | types; finitely many hosts, links join hosts |
| | `BoundaryAssumption`, `RuleAssumption` | what `safe_pins.yaml` says: a boundary joins two places, a rule has one of three forms |
| `Topology`, `BestPractice` | `NodeAssumption`, `EditBoundAssumption`, `CableAssumption`, `RuleAssumption` | finitely many assets, drawn nodes are no assets; a cable has two ends |
| `Designs` | `TemplateAssumption`, `VersionsAssumption` | a template's links join its components |

### Only model-checked

Liveness: `TaskEnds`, `RunEnds`, `RequestEnds`, `JobSettles`. Liveness under fairness and
`ENABLED` are out of the prover's reach. Every invariant and every action property that a passing run
checks, and the refinement, is a theorem.

## 5. Not modelled, and what could come next

* Reporting only reads. Credentials are storage; what their lookup raises is in `Deployment`.
  The frontend is presentation; its token refresh is its one protocol, and stateless
  tokens are left out of `Access`, as are groups, which no endpoint edits.
* Configuration profiles, the CSV format and its export, views and layouts of the topology,
  `update_link` and `validate_topology`, `update_design`, the diff of versions and recommendation
  mappings: they only read, or write what nothing else reads.
* Location gaps, coverage warnings and keyword matching of the recommendation, and the
  best practice rules that test one column of one asset: sums over data without an order of events.
* Manual and offline backups, which only add rows that can be restored; event and result rows of a
  deployment, which share the fate of its transaction.
* Hazards without a property: a start whose task the broker refuses, a database session lost while
  its worker lives, and the result rows of a deployment that is started again. `PROJECT.json` has the reasons.

Next would be a refinement of the deployments of `Drift` by `Deployment`, and the audit log as an
implementation of an append-only list.
