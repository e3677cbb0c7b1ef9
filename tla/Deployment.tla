------------------------------ MODULE Deployment ------------------------------
(***************************************************************************)
(* The deployment engine: Celery workers that run execute_deployment, each *)
(* in one PostgreSQL transaction, against devices that do not roll back    *)
(* with it.                                                                *)
(*                                                                         *)
(* A worker's session flushes its writes into a transaction that only the  *)
(* task wrapper commits, after execute_deployment has returned.  So this   *)
(* module keeps the committed rows (status, lockRow, versions, backups,    *)
(* notified, remediated), which every session reads, apart from what a     *)
(* session has written and not committed (txn), and apart from the         *)
(* devices (device), whose changes take effect at once and survive an      *)
(* abort.  held[w] is the set of resource_locks keys on which the          *)
(* transaction of w has an uncommitted insert or delete: PostgreSQL makes  *)
(* any other transaction that inserts such a key wait until w ends.        *)
(***************************************************************************)
EXTENDS Naturals, Sequences, FiniteSets

CONSTANTS
    Workers,        \* Celery worker processes
    Deployments,    \* deployment jobs
    Assets,         \* devices
    Windows,        \* those behind the Windows DNS and DHCP drivers
    Items,          \* configurable things on a device: a VLAN, a zone, ...
    Objects,        \* configuration objects
    Keys,           \* (asset, technology, object type): one version history each
    Plan,           \* Plan[d]: the objects of d's configuration job, by execution_order
    ItemOf,         \* the item an object configures
    Home,           \* the asset an item is on
    KeyOf,          \* the history an object's versions go to
    StrandedAssets, \* assets that may have a lock row no running deployment owns
    MaxStarts,      \* bound: calls of start, and task messages delivered twice
    MaxCrashes,     \* bound: worker processes that die
    MaxRestores,    \* bound: restores made through the backup API
    NoJob, NoBackup, Absent, Original

SeqRange(s) == {s[i] : i \in DOMAIN s}
AssetOf(o) == Home[ItemOf[o]]
ObjectsOf(d) == SeqRange(Plan[d])
AssetsOf(d) == {AssetOf(o) : o \in ObjectsOf(d)}

Value == Objects \cup {Absent, Original}
Contents == [Items -> Value]

FailedStatus == {"precheck_failed", "backup_failed", "verify_failed"}
FinalStatus == FailedStatus \cup {"success", "rolled_back", "rollback_failed"}
RunningStatus == {"precheck", "backup", "applying", "verifying", "rolling_back"}
Status == {"absent", "queued"} \cup RunningStatus \cup FinalStatus

ASSUME ConstantsAssumption ==
    /\ IsFiniteSet(Assets)
    /\ Windows \subseteq Assets
    /\ Plan \in [Deployments -> Seq(Objects)]
    /\ ItemOf \in [Objects -> Items]
    /\ Home \in [Items -> Assets]
    /\ KeyOf \in [Objects -> Keys]
    /\ NoJob \notin Deployments \cup Workers
    /\ NoBackup \notin Contents

ASSUME BoundsAssumption ==
    /\ MaxStarts \in Nat
    /\ MaxCrashes \in Nat
    /\ MaxRestores \in Nat

\* A history belongs to one asset: the key names it.
ASSUME KeyAssumption ==
    \A o1, o2 \in Objects : KeyOf[o1] = KeyOf[o2] => AssetOf(o1) = AssetOf(o2)

VARIABLES
    \* committed rows
    status,      \* deployment_jobs.status
    lockRow,     \* resource_locks
    versions,    \* configuration_versions
    backups,     \* contents of the committed backups
    notified,    \* <<d, s>>: d's creator was told that d ended in s
    remediated,  \* deployments whose configuration job's drift findings were closed
    \* the broker, and the world outside the database
    queue,       \* task messages not yet delivered
    starts, crashes, restores,
    device,      \* the running configuration
    \* one task per worker
    pc, job,
    order,       \* the iteration order of asset_ids, a Python set
    todoAssets, todoObjects,
    pending,     \* lock rows added to the session and not flushed
    held,        \* resource_locks keys of the transaction
    conns,       \* assets with an open driver connection
    allGood,     \* all_verified, and all_rolled_back during a rollback
    txn,         \* rows written and not committed
    touched      \* history: assets restored by hand while the task runs

committed == <<status, lockRow, versions, backups, notified, remediated>>
bounds == <<starts, crashes, restores>>
cursor == <<order, todoAssets, todoObjects>>
vars == <<committed, bounds, queue, device, pc, job, cursor, pending, held, conns,
          allGood, txn, touched>>

\* status is deployment.status as the session has it; "unchanged" once an assignment of
\* the value it already had leaves nothing to write.
NoTxn == [status |-> "unchanged", locks |-> {}, removed |-> {}, versions |-> {},
          saved |-> [a \in Assets |-> NoBackup], told |-> {}, remediates |-> FALSE]

Init ==
    /\ status = [d \in Deployments |-> "absent"]
    /\ lockRow \in {r \in [Assets -> {"none", "live"}] :
                      \A a \in Assets : r[a] = "live" => a \in StrandedAssets}
    /\ versions = {}
    /\ backups = {}
    /\ notified = {}
    /\ remediated = {}
    /\ queue = [d \in Deployments |-> 0]
    /\ starts = 0 /\ crashes = 0 /\ restores = 0
    /\ device \in [Items -> {Absent, Original}]
    /\ pc = [w \in Workers |-> "idle"]
    /\ job = [w \in Workers |-> NoJob]
    /\ order = [w \in Workers |-> <<>>]
    /\ todoAssets = [w \in Workers |-> <<>>]
    /\ todoObjects = [w \in Workers |-> <<>>]
    /\ pending = [w \in Workers |-> <<>>]
    /\ held = [w \in Workers |-> {}]
    /\ conns = [w \in Workers |-> {}]
    /\ allGood = [w \in Workers |-> TRUE]
    /\ txn = [w \in Workers |-> NoTxn]
    /\ touched = [w \in Workers |-> {}]

-----------------------------------------------------------------------------
(***************************************************************************)
(* The API process.                                                        *)
(***************************************************************************)

\* create_deployment_job, for a configuration job that is approved and has objects.
CreateDeploymentJob(d) ==
    /\ status[d] = "absent"
    /\ ObjectsOf(d) # {}
    /\ status' = [status EXCEPT ![d] = "queued"]
    /\ UNCHANGED <<lockRow, versions, backups, notified, remediated, bounds, queue, device,
                   pc, job, cursor, pending, held, conns, allGood, txn, touched>>

\* start_deployment looks at no status: a deployment may be started again, whatever
\* became of it.  A message the broker delivers twice is one more start.
StartDeployment(d) ==
    /\ status[d] # "absent"
    /\ starts < MaxStarts
    /\ starts' = starts + 1
    /\ queue' = [queue EXCEPT ![d] = @ + 1]
    /\ UNCHANGED <<committed, crashes, restores, device, pc, job, cursor, pending, held,
                   conns, allGood, txn, touched>>

\* What a device holds after the lines of a backup are sent to it: send_config_set
\* adds and overwrites, and removes nothing.
Merged(saved, a) ==
    [i \in Items |-> IF Home[i] = a /\ saved[i] # Absent THEN saved[i] ELSE device[i]]

\* restore_backup through the API: it takes no resource lock.  The Windows drivers restore
\* nothing: their rollback always reports failure.
RestoreByHand(b) ==
    /\ b.asset \notin Windows
    /\ restores < MaxRestores
    /\ restores' = restores + 1
    /\ device' = Merged(b.content, b.asset)
    /\ touched' = [w \in Workers |-> IF pc[w] = "idle" THEN {} ELSE touched[w] \cup {b.asset}]
    /\ UNCHANGED <<committed, starts, crashes, queue, pc, job, cursor, pending, held, conns,
                   allGood, txn>>

-----------------------------------------------------------------------------
(***************************************************************************)
(* A task begins and ends.                                                 *)
(***************************************************************************)

Orders(d) ==
    {q \in [1..Cardinality(AssetsOf(d)) -> AssetsOf(d)] : SeqRange(q) = AssetsOf(d)}

\* The message is acknowledged as the worker takes it: a task that dies is not run again.
Deliver(w, d) ==
    /\ pc[w] = "idle"
    /\ queue[d] > 0
    /\ queue' = [queue EXCEPT ![d] = @ - 1]
    /\ job' = [job EXCEPT ![w] = d]
    /\ \E q \in Orders(d) :
          /\ order' = [order EXCEPT ![w] = q]
          /\ todoAssets' = [todoAssets EXCEPT ![w] = q]
    /\ pc' = [pc EXCEPT ![w] = "acquire"]
    /\ txn' = [txn EXCEPT ![w].status = status[d]]
    /\ UNCHANGED <<committed, bounds, device, todoObjects, pending, held, conns, allGood,
                   touched>>

\* The transaction of w has ended: its index entries block nobody any more.
KeepKeys(w) == UNCHANGED held  \* mutant: the session is not closed
DropKeys(w) == held' = [held EXCEPT ![w] = {}]

\* The session closes, and the task's local state goes.
CloseSession(w) ==
    /\ pc' = [pc EXCEPT ![w] = "idle"]
    /\ job' = [job EXCEPT ![w] = NoJob]
    /\ order' = [order EXCEPT ![w] = <<>>]
    /\ todoAssets' = [todoAssets EXCEPT ![w] = <<>>]
    /\ todoObjects' = [todoObjects EXCEPT ![w] = <<>>]
    /\ pending' = [pending EXCEPT ![w] = <<>>]
    /\ DropKeys(w)
    /\ conns' = [conns EXCEPT ![w] = {}]
    /\ allGood' = [allGood EXCEPT ![w] = TRUE]
    /\ txn' = [txn EXCEPT ![w] = NoTxn]
    /\ touched' = [touched EXCEPT ![w] = {}]

\* db.commit() in execute_deployment_task.
Commit(w) ==
    /\ pc[w] = "commit"
    /\ LET t == txn[w]
       IN  /\ status' = [status EXCEPT ![job[w]] = IF t.status = "unchanged" THEN @
                                                    ELSE t.status]
           /\ lockRow' = [a \in Assets |-> IF a \in t.locks THEN "live"
                                           ELSE IF a \in t.removed THEN "none"
                                           ELSE lockRow[a]]
           /\ versions' = versions \cup t.versions
           /\ backups' = backups \cup {[asset |-> a, content |-> t.saved[a]] :
                                          a \in {x \in Assets : t.saved[x] # NoBackup}}
           /\ notified' = notified \cup t.told
           /\ remediated' = IF t.remediates THEN remediated \cup {job[w]} ELSE remediated
    /\ CloseSession(w)
    /\ UNCHANGED <<bounds, queue, device>>

\* db.rollback(): the devices keep what was done to them.
Abort(w) ==
    /\ CloseSession(w)
    /\ UNCHANGED <<committed, queue, device>>

\* The worker process dies: the server aborts the transaction of a lost connection.
Crash(w) ==
    /\ pc[w] # "idle"
    /\ crashes < MaxCrashes
    /\ crashes' = crashes + 1
    /\ Abort(w)
    /\ UNCHANGED <<starts, restores>>

\* _release_locks.
WithLocks(t) == t  \* mutant: the rows are not deleted
WithoutLocks(t) == [t EXCEPT !.locks = {}]

\* _fail: the final status, the locks released, a notification for the creator.
FailedSilently(t, d, s) ==  \* mutant: nobody is notified
    [WithoutLocks(t) EXCEPT !.status = IF t.status = s THEN "unchanged" ELSE s]
Failed(t, d, s) ==
    [WithoutLocks(t) EXCEPT !.status = IF t.status = s THEN "unchanged" ELSE s,
                            !.told = @ \cup {<<d, s>>}]

\* execute_deployment returns through _fail.
Fail(w, s) ==
    /\ txn' = [txn EXCEPT ![w] = Failed(@, job[w], s)]
    /\ pc' = [pc EXCEPT ![w] = "commit"]

-----------------------------------------------------------------------------
(***************************************************************************)
(* _acquire_locks: read each asset's lock row, then insert all rows in one *)
(* flush, in the order they were added.                                    *)
(***************************************************************************)

Free(w, a) == \A v \in Workers \ {w} : a \notin held[v]

\* No committed row: one is added to the session.
AddLock(w) ==
    /\ pc[w] = "acquire"
    /\ todoAssets[w] # <<>>
    /\ lockRow[Head(todoAssets[w])] = "none"
    /\ pending' = [pending EXCEPT ![w] = Append(@, Head(todoAssets[w]))]
    /\ todoAssets' = [todoAssets EXCEPT ![w] = Tail(@)]
    /\ UNCHANGED <<committed, bounds, queue, device, pc, job, order, todoObjects, held, conns,
                   allGood, txn, touched>>

\* An expired row is deleted and the session flushed, then one is added.
ReplaceLock(w) ==
    /\ pc[w] = "acquire"
    /\ todoAssets[w] # <<>>
    /\ lockRow[Head(todoAssets[w])] = "expired"
    /\ pending[w] = <<>>
    /\ Free(w, Head(todoAssets[w]))
    /\ held' = [held EXCEPT ![w] = @ \cup {Head(todoAssets[w])}]
    /\ txn' = [txn EXCEPT ![w].removed = @ \cup {Head(todoAssets[w])}]
    /\ pending' = [pending EXCEPT ![w] = <<Head(todoAssets[w])>>]
    /\ todoAssets' = [todoAssets EXCEPT ![w] = Tail(@)]
    /\ UNCHANGED <<committed, bounds, queue, device, pc, job, order, todoObjects, conns,
                   allGood, touched>>

\* A row that has not expired: ConflictError, which execute_deployment catches.
LockConflict(w) ==
    /\ pc[w] = "acquire"
    /\ todoAssets[w] # <<>>
    /\ lockRow[Head(todoAssets[w])] = "live"
    /\ pc' = [pc EXCEPT ![w] = "conflict"]
    /\ todoAssets' = [todoAssets EXCEPT ![w] = <<>>]
    /\ UNCHANGED <<committed, bounds, queue, device, job, order, todoObjects, pending, held,
                   conns, allGood, txn, touched>>

\* The flush is due: at the end of the loop, before an expired row is deleted, and when
\* _fail logs its event.
FlushDue(w) ==
    \/ pc[w] = "conflict"
    \/ pc[w] = "acquire" /\ todoAssets[w] = <<>>
    \/ pc[w] = "acquire" /\ todoAssets[w] # <<>> /\ lockRow[Head(todoAssets[w])] = "expired"

\* The flush inserts the next row; it waits while another transaction holds the key.
InsertLock(w) ==
    /\ FlushDue(w)
    /\ pending[w] # <<>>
    /\ Free(w, Head(pending[w]))
    /\ held' = [held EXCEPT ![w] = @ \cup {Head(pending[w])}]
    /\ txn' = [txn EXCEPT ![w].locks = @ \cup {Head(pending[w])}]
    /\ pending' = [pending EXCEPT ![w] = Tail(@)]
    /\ UNCHANGED <<committed, bounds, queue, device, pc, job, cursor, conns, allGood, touched>>

\* The session has added all its lock rows and the flush has returned.
AddedLocks(w) ==  \* mutant: no flush after the loop
    /\ pc[w] = "acquire"
    /\ todoAssets[w] = <<>>
AcquiredLocks(w) ==
    /\ pc[w] = "acquire"
    /\ todoAssets[w] = <<>>
    /\ pending[w] = <<>>

LocksAcquired(w) ==
    /\ AcquiredLocks(w)
    /\ txn' = [txn EXCEPT ![w].status = "precheck"]
    /\ pc' = [pc EXCEPT ![w] = "precheck"]
    /\ UNCHANGED <<committed, bounds, queue, device, job, cursor, pending, held, conns, allGood,
                   touched>>

LocksRefused(w) ==
    /\ pc[w] = "conflict"
    /\ pending[w] = <<>>
    /\ Fail(w, "precheck_failed")
    /\ UNCHANGED <<committed, bounds, queue, device, job, cursor, pending, held, conns, allGood,
                   touched>>

\* The key that w's session is about to write in resource_locks.
NextKey(w) ==
    CASE FlushDue(w) /\ pending[w] # <<>> -> {Head(pending[w])}
      [] FlushDue(w) /\ pending[w] = <<>> /\ todoAssets[w] # <<>> -> {Head(todoAssets[w])}
      [] OTHER -> {}

WaitsFor(w, v) == v # w /\ NextKey(w) \cap held[v] # {}

\* PostgreSQL ends a cycle of waiting transactions by aborting one of them; the error
\* is no AppError, so the task rolls back.
DeadlockVictim(w) ==
    /\ \E cycle \in SUBSET Workers :
          /\ w \in cycle
          /\ \A v \in cycle : /\ \E u \in cycle : WaitsFor(v, u)
                              /\ \E u \in cycle : WaitsFor(u, v)
    /\ Abort(w)
    /\ UNCHANGED bounds

\* Time passes: a lock row's expires_at is reached.
Expire(a) ==
    /\ lockRow[a] = "live"
    /\ lockRow' = [lockRow EXCEPT ![a] = "expired"]
    /\ UNCHANGED <<status, versions, backups, notified, remediated, bounds, queue, device, pc,
                   job, cursor, pending, held, conns, allGood, txn, touched>>

-----------------------------------------------------------------------------
(***************************************************************************)
(* The phases of execute_deployment that hold the locks.                   *)
(***************************************************************************)

\* Every asset needs a management address and a credential profile.
Precheck(w) ==
    /\ pc[w] = "precheck"
    /\ \/ /\ txn' = [txn EXCEPT ![w].status = "backup"]
          /\ todoAssets' = [todoAssets EXCEPT ![w] = order[w]]
          /\ pc' = [pc EXCEPT ![w] = "backup"]
       \/ Fail(w, "precheck_failed") /\ UNCHANGED todoAssets
    /\ UNCHANGED <<committed, bounds, queue, device, job, order, todoObjects, pending, held,
                   conns, allGood, touched>>

\* create_backup_from_live_device for the next asset.
BackupAsset(w) ==
    /\ pc[w] = "backup"
    /\ todoAssets[w] # <<>>
    /\ LET a == Head(todoAssets[w])
           running == [i \in Items |-> IF Home[i] = a THEN device[i] ELSE Absent]
       IN  \/ /\ txn' = [txn EXCEPT ![w].saved[a] = running]
              /\ todoAssets' = [todoAssets EXCEPT ![w] = Tail(@)]
              /\ UNCHANGED pc
           \/ Fail(w, "backup_failed") /\ UNCHANGED todoAssets
    /\ UNCHANGED <<committed, bounds, queue, device, job, order, todoObjects, pending, held,
                   conns, allGood, touched>>

BeginApply(w) ==
    /\ pc[w] = "backup"
    /\ todoAssets[w] = <<>>
    /\ txn' = [txn EXCEPT ![w].status = "applying"]
    /\ todoObjects' = [todoObjects EXCEPT ![w] = Plan[job[w]]]
    /\ pc' = [pc EXCEPT ![w] = "apply"]
    /\ UNCHANGED <<committed, bounds, queue, device, job, order, todoAssets, pending, held,
                   conns, allGood, touched>>

\* One connection per asset, opened at the asset's first object.
ConnectAsset(w) ==
    /\ pc[w] = "apply"
    /\ todoObjects[w] # <<>>
    /\ AssetOf(Head(todoObjects[w])) \notin conns[w]
    /\ \/ /\ conns' = [conns EXCEPT ![w] = @ \cup {AssetOf(Head(todoObjects[w]))}]
          /\ UNCHANGED pc
       \/ /\ pc' = [pc EXCEPT ![w] = "abandon"]
          /\ UNCHANGED conns
    /\ UNCHANGED <<committed, bounds, queue, device, job, cursor, pending, held, allGood, txn,
                   touched>>

\* driver.deploy: the device may have taken the lines or not whatever the driver reports;
\* it reports success when the session to the device did not fail.
DeployObject(w) ==
    /\ pc[w] = "apply"
    /\ todoObjects[w] # <<>>
    /\ AssetOf(Head(todoObjects[w])) \in conns[w]
    /\ LET o == Head(todoObjects[w])
       IN  device' \in {device, [device EXCEPT ![ItemOf[o]] = o]}
    /\ \/ /\ todoObjects' = [todoObjects EXCEPT ![w] = Tail(@)]
          /\ UNCHANGED pc
       \/ /\ pc' = [pc EXCEPT ![w] = "abandon"]
          /\ UNCHANGED todoObjects
    /\ UNCHANGED <<committed, bounds, queue, job, order, todoAssets, pending, held, conns,
                   allGood, txn, touched>>

\* An object failed: the connections are closed and _rollback begins.
BeginRollback(w) ==
    /\ pc[w] = "abandon"
    /\ txn' = [txn EXCEPT ![w].status = "rolling_back"]
    /\ todoAssets' = [todoAssets EXCEPT ![w] = order[w]]
    /\ conns' = [conns EXCEPT ![w] = {}]
    /\ pc' = [pc EXCEPT ![w] = "rollback"]
    /\ UNCHANGED <<committed, bounds, queue, device, job, order, todoObjects, pending, held,
                   allGood, touched>>

\* One restore or one verification did not succeed: all_rolled_back, all_verified.
StillGood(w) == UNCHANGED allGood  \* mutant: the failure is not remembered
NotGood(w) == allGood' = [allGood EXCEPT ![w] = FALSE]

\* restore_backup for the next asset; an AppError is noted and the loop goes on.
RestoreAsset(w) ==
    /\ pc[w] = "rollback"
    /\ todoAssets[w] # <<>>
    /\ LET a == Head(todoAssets[w])
           restored == Merged(txn[w].saved[a], a)
       IN  \/ a \notin Windows /\ device' = restored /\ UNCHANGED allGood
           \/ /\ device' \in IF a \in Windows THEN {device} ELSE {device, restored}
              /\ NotGood(w)
    /\ todoAssets' = [todoAssets EXCEPT ![w] = Tail(@)]
    /\ UNCHANGED <<committed, bounds, queue, pc, job, order, todoObjects, pending, held, conns,
                   txn, touched>>

RollbackStatusOfEnum(good) == IF good THEN "rolled_back" ELSE "apply_failed"  \* mutant
RollbackStatus(good) == IF good THEN "rolled_back" ELSE "rollback_failed"

\* _rollback ends without _fail: nobody is notified.
EndRollback(w) ==
    /\ pc[w] = "rollback"
    /\ todoAssets[w] = <<>>
    /\ txn' = [txn EXCEPT ![w] =
                  [WithoutLocks(@) EXCEPT !.status = RollbackStatus(allGood[w])]]
    /\ pc' = [pc EXCEPT ![w] = "commit"]
    /\ UNCHANGED <<committed, bounds, queue, device, job, cursor, pending, held, conns, allGood,
                   touched>>

BeginVerify(w) ==
    /\ pc[w] = "apply"
    /\ todoObjects[w] = <<>>
    /\ txn' = [txn EXCEPT ![w].status = "verifying"]
    /\ todoObjects' = [todoObjects EXCEPT ![w] = Plan[job[w]]]
    /\ pc' = [pc EXCEPT ![w] = "verify"]
    /\ UNCHANGED <<committed, bounds, queue, device, job, order, todoAssets, pending, held,
                   conns, allGood, touched>>

\* record_version: one more than the highest number the session sees in the history.
SeenNumbers(w, k) ==
    {0} \cup {v.number : v \in {x \in versions \cup txn[w].versions : x.key = k}}
LatestNumber(w, k) == CHOOSE n \in SeenNumbers(w, k) : \A m \in SeenNumbers(w, k) : m <= n
LastNumberOrOne(w, k) ==  \* mutant: only the first version is numbered anew
    IF LatestNumber(w, k) = 0 THEN 1 ELSE LatestNumber(w, k)
NextNumber(w, k) == LatestNumber(w, k) + 1
Recorded(w, o) ==
    [key |-> KeyOf[o], number |-> NextNumber(w, KeyOf[o]), object |-> o, deployment |-> job[w]]

\* What driver.verify looks at: a switch or firewall driver compares the item with the
\* object, a Windows driver is content with an item that exists.
AsWanted(o) ==
    IF AssetOf(o) \in Windows THEN device[ItemOf[o]] # Absent ELSE device[ItemOf[o]] = o

\* driver.verify raises, or tells whether the item is as the object wants it; the
\* version is recorded as soon as its object matches.
VerifyObject(w) ==
    /\ pc[w] = "verify"
    /\ todoObjects[w] # <<>>
    /\ LET o == Head(todoObjects[w])
       IN  \/ /\ AsWanted(o)
              /\ txn' = [txn EXCEPT ![w].versions = @ \cup {Recorded(w, o)}]
              /\ UNCHANGED allGood
           \/ /\ NotGood(w)
              /\ UNCHANGED txn
    /\ todoObjects' = [todoObjects EXCEPT ![w] = Tail(@)]
    /\ UNCHANGED <<committed, bounds, queue, device, pc, job, order, todoAssets, pending, held,
                   conns, touched>>

\* The connections are closed and the outcome is decided.
EndVerify(w) ==
    /\ pc[w] = "verify"
    /\ todoObjects[w] = <<>>
    /\ conns' = [conns EXCEPT ![w] = {}]
    /\ \/ /\ allGood[w]
          /\ txn' = [txn EXCEPT ![w] =
                       [WithoutLocks(@) EXCEPT !.status = "success", !.remediates = TRUE]]
          /\ pc' = [pc EXCEPT ![w] = "commit"]
       \/ /\ ~allGood[w]
          /\ Fail(w, "verify_failed")
    /\ UNCHANGED <<committed, bounds, queue, device, job, cursor, pending, held, allGood,
                   touched>>

\* driver.disconnect() is not guarded, before the rollback or after the verification: what
\* it raises ends the task.  A Windows driver only forgets its session.
DisconnectRaises(w) ==
    /\ pc[w] = "abandon" \/ (pc[w] = "verify" /\ todoObjects[w] = <<>>)
    /\ conns[w] \ Windows # {}
    /\ Abort(w)
    /\ UNCHANGED bounds

\* Before a connection is tried its driver and its credentials are looked up.  While objects
\* are applied nothing the lookups raise is caught; in a backup or a restore an AppError is,
\* a secret that does not decrypt is not.
LooksUp(w) ==
    \/ /\ pc[w] = "apply"
       /\ todoObjects[w] # <<>>
       /\ AssetOf(Head(todoObjects[w])) \notin conns[w]
    \/ pc[w] \in {"backup", "rollback"} /\ todoAssets[w] # <<>>

LookUpRaises(w) ==
    /\ LooksUp(w)
    /\ Abort(w)
    /\ UNCHANGED bounds

-----------------------------------------------------------------------------

\* What execute_deployment does next, whatever else may happen.
Step(w) ==
    \/ AddLock(w) \/ ReplaceLock(w) \/ LockConflict(w) \/ InsertLock(w)
    \/ LocksAcquired(w) \/ LocksRefused(w)
    \/ Precheck(w) \/ BackupAsset(w)
    \/ BeginApply(w) \/ ConnectAsset(w) \/ DeployObject(w)
    \/ BeginRollback(w) \/ RestoreAsset(w) \/ EndRollback(w)
    \/ BeginVerify(w) \/ VerifyObject(w) \/ EndVerify(w)
    \/ LookUpRaises(w) \/ DisconnectRaises(w)
    \/ Commit(w)

Next ==
    \/ \E d \in Deployments : CreateDeploymentJob(d) \/ StartDeployment(d)
    \/ \E b \in backups : RestoreByHand(b)
    \/ \E a \in Assets : Expire(a)
    \/ \E w \in Workers : Step(w) \/ Crash(w) \/ DeadlockVictim(w)
    \/ \E w \in Workers, d \in Deployments : Deliver(w, d)

Spec == Init /\ [][Next]_vars

\* A worker goes on with its task, and the server breaks deadlocks.
Fairness == \A w \in Workers : WF_vars(Step(w)) /\ WF_vars(DeadlockVictim(w))

FairSpec == Spec /\ Fairness
-----------------------------------------------------------------------------
(***************************************************************************)
(* Correctness.                                                            *)
(***************************************************************************)

Phases == {"idle", "acquire", "conflict", "precheck", "backup", "apply", "abandon", "rollback",
           "verify", "commit"}

\* The phases in which execute_deployment has the locks it asked for.
LockedPhases == {"precheck", "backup", "apply", "abandon", "rollback", "verify"}

TxnType ==
    [status : Status \cup {"unchanged"}, locks : SUBSET Assets, removed : SUBSET Assets,
     versions : SUBSET [key : Keys, number : Nat, object : Objects, deployment : Deployments],
     saved : [Assets -> Contents \cup {NoBackup}],
     told : SUBSET (Deployments \X FailedStatus), remediates : BOOLEAN]

\* Every variable has its type: committed rows, sessions and devices.
TypeOK ==
    /\ status \in [Deployments -> Status]
    /\ lockRow \in [Assets -> {"none", "live", "expired"}]
    /\ versions \subseteq [key : Keys, number : Nat, object : Objects, deployment : Deployments]
    /\ backups \subseteq [asset : Assets, content : Contents]
    /\ notified \subseteq Deployments \X FailedStatus
    /\ remediated \subseteq Deployments
    /\ queue \in [Deployments -> Nat]
    /\ starts \in Nat /\ crashes \in Nat /\ restores \in Nat
    /\ device \in Contents
    /\ pc \in [Workers -> Phases]
    /\ job \in [Workers -> Deployments \cup {NoJob}]
    /\ \A w \in Workers : pc[w] # "idle" => job[w] \in Deployments
    /\ order \in [Workers -> Seq(Assets)]
    /\ todoAssets \in [Workers -> Seq(Assets)]
    /\ todoObjects \in [Workers -> Seq(Objects)]
    /\ pending \in [Workers -> Seq(Assets)]
    /\ held \in [Workers -> SUBSET Assets]
    /\ conns \in [Workers -> SUBSET Assets]
    /\ allGood \in [Workers -> BOOLEAN]
    /\ txn \in [Workers -> TxnType]
    /\ touched \in [Workers -> SUBSET Assets]

\* "at most one in-flight deployment per device": two tasks between lock acquisition and
\* return never share an asset, although no lock row is ever visible to another session.
DeviceExclusion ==
    \A v, w \in Workers :
        v # w /\ pc[v] \in LockedPhases /\ pc[w] \in LockedPhases
        => AssetsOf(job[v]) \cap AssetsOf(job[w]) = {}

\* The assets a task has to itself, as AssetExclusion sees them.
Owner(a) ==
    LET owners == {w \in Workers : pc[w] \in LockedPhases /\ a \in AssetsOf(job[w])}
    IN  IF owners = {} THEN NoJob ELSE CHOOSE w \in owners : TRUE

Exclusion == INSTANCE AssetExclusion WITH
    Owners <- Workers, NoOwner <- NoJob, owner <- [a \in Assets |-> Owner(a)]

\* The insert-and-wait protocol on resource_locks implements asset exclusion: a task gains
\* all its assets at once, when its flush returns, from nobody, and gives up all at once.
ImplementsExclusion == Exclusion!Spec

\* No execution leaves a lock row behind: every path from _acquire_locks to the commit goes
\* through _release_locks, so a commit can take a lock row away and never add one.
NoLockLeak == [][\A a \in Assets : lockRow[a] = "none" => lockRow'[a] = "none"]_vars

\* An asset of w's deployment that nobody restored by hand while w ran.
Undisturbed(w) == AssetsOf(job[w]) \ touched[w]

\* A rollback that reports success gave back every item the device had when it was backed
\* up: nothing else wrote to the device in between.
RollbackRestores ==
    \A w \in Workers : pc[w] = "commit" /\ txn[w].status = "rolled_back" =>
        \A i \in Items : Home[i] \in Undisturbed(w) =>
            LET was == txn[w].saved[Home[i]][i]
            IN  was # Absent => device[i] = was

\* When a deployment is about to report success, every object of its job is on its device
\* as far as its driver looks, those verified first included.
SuccessMeansApplied ==
    \A w \in Workers : pc[w] = "commit" /\ txn[w].status = "success" =>
        \A o \in ObjectsOf(job[w]) : AssetOf(o) \in Undisturbed(w) => AsWanted(o)

\* Committed or about to be, the versions of a history are numbered 1, 2, 3, ... without gap
\* or repetition: max + 1 is read and written under the asset's lock.
HistoryNumbered ==
    LET all == versions \cup UNION {txn[w].versions : w \in Workers}
        history(k) == {v \in all : v.key = k}
    IN  \A k \in Keys :
            /\ {v.number : v \in history(k)} = 1..Cardinality(history(k))
            /\ \A w \in Workers : \A v \in versions, x \in txn[w].versions :
                   v.key = k /\ x.key = k => v.number < x.number
            /\ \A v \in Workers, w \in Workers : v # w =>
                   {x \in txn[v].versions : x.key = k} = {}
                   \/ {x \in txn[w].versions : x.key = k} = {}

\* A configuration job's drift findings are closed, and success is shown, only when
\* configuration history holds a version of every object of the job.
ClosedMeansRecorded ==
    \A d \in Deployments : status[d] = "success" \/ d \in remediated =>
        \A o \in ObjectsOf(d) : \E v \in versions : v.object = o /\ v.deployment = d

\* A deployment that shows a failure, but for one of a rollback, was notified to its creator.
FailureIsNotified ==
    \A d \in Deployments : status[d] \in FailedStatus => <<d, status[d]>> \in notified

\* A task that a worker took ends: no lock order, conflict or failure leaves it waiting.
TaskEnds == \A w \in Workers : pc[w] # "idle" ~> pc[w] = "idle"

-----------------------------------------------------------------------------
(***************************************************************************)
(* What the repository says of the engine and the code does not keep.      *)
(***************************************************************************)

\* The drivers declare their rollback to be a config replace: a rolled back device would
\* hold its backup and nothing else.
RollbackReplaces ==
    \A w \in Workers : pc[w] = "commit" /\ txn[w].status = "rolled_back" =>
        \A i \in Items : Home[i] \in Undisturbed(w) => device[i] = txn[w].saved[Home[i]][i]

\* "successful, verified deployments are recorded as configuration history": a deployment
\* that ends otherwise would add no version.
HistoryOfSuccess ==
    \A w \in Workers : pc[w] = "commit" /\ txn[w].versions # {} => txn[w].status = "success"

\* A deployment that changed a device and runs no more has a status that says how it ended,
\* as the comment on the verification loop demands (no worker dies here: MaxCrashes = 0).
ChangesLeaveATrail ==
    \A d \in Deployments, i \in Items :
        device[i] \in ObjectsOf(d) /\ (\A w \in Workers : job[w] # d) => status[d] # "queued"
=============================================================================
