------------------------------- MODULE Drift -------------------------------
(***************************************************************************)
(* Drift detection: runs that compare devices with the versions recorded,  *)
(* the triage of what they find, remediation jobs, and notifications.  The *)
(* deployment engine is here by its interface: it changes a device before  *)
(* it commits, and its commit records the version and closes findings.     *)
(*                                                                         *)
(* A key stands for an (asset, technology, object type); the state of a    *)
(* key is the set of the fields that hold their intended values.           *)
(***************************************************************************)
EXTENDS Naturals, Sequences, FiniteSets

CONSTANTS
    Keys, AssetOf,      \* what is configured, and on which asset
    Assets,
    Fields,
    Targets,            \* states that configuration jobs ask for
    Edits,              \* states that a change by hand leaves behind
    Recorded,           \* what was deployed before: histories of one version, or of none
    Runs, Workers,
    MaxJobs,            \* bound: configuration jobs created
    MaxVersions,        \* bound: versions of a key when a deployment of it begins
    Sessions,           \* triage requests in progress
    Users, Triagers,    \* users, and those with the permission drift.triage
    MaxFindings,        \* bound: findings committed
    MaxEdits,           \* bound: changes by hand
    None

ASSUME KeyAssumption == AssetOf \in [Keys -> Assets]
ASSUME StateAssumption == Targets \subseteq SUBSET Fields /\ Edits \subseteq SUBSET Fields
ASSUME RecordedAssumption ==
    Recorded \subseteq {<<>>} \cup {<<state>> : state \in SUBSET Fields}
ASSUME BoundAssumption ==
    MaxJobs \in Nat /\ MaxVersions \in Nat /\ MaxFindings \in Nat /\ MaxEdits \in Nat
ASSUME TriagerAssumption == Triagers \subseteq Users /\ IsFiniteSet(Users)
ASSUME NoneAssumption == None \notin 1 .. MaxJobs

VARIABLES
    device,      \* what the device of a key holds
    versions,    \* configuration_versions of a key, oldest first
    deleted,     \* assets soft-deleted
    run,         \* drift_runs
    messages,    \* broker: task messages of a run
    worker,      \* Celery workers
    findings,    \* drift_results, in the order of their commits
    job,         \* configuration jobs and their deployments
    triage,      \* triage requests in progress
    notes,       \* notifications, in the order of their commits
    edits,       \* changes by hand made
    lost,        \* history: runs whose message or worker was lost
    redelivered, \* history: runs whose message the broker delivered twice
    settled      \* history: findings decided when no deployment was about to close them

pipeline == <<device, versions, deleted, job, edits>>
vars == <<pipeline, run, messages, worker, findings, triage, notes, lost, redelivered,
          settled>>

Jobs == 1 .. MaxJobs   \* in the order of their creation

Free == [pc |-> "free"]
NoRun == [status |-> "absent", checked |-> 0, found |-> 0]
NoJob == [status |-> "absent", key |-> None, target |-> {}, finding |-> 0, closes |-> {},
          succeeded |-> FALSE]

Init ==
    /\ versions \in [Keys -> Recorded]
    /\ device = [k \in Keys |-> IF versions[k] = <<>> THEN {} ELSE versions[k][1]]
    /\ deleted = {}
    /\ run = [r \in Runs |-> NoRun]
    /\ messages = [r \in Runs |-> 0]
    /\ worker = [w \in Workers |-> Free]
    /\ findings = <<>>
    /\ job = [j \in Jobs |-> NoJob]
    /\ triage = [s \in Sessions |-> Free]
    /\ notes = <<>>
    /\ edits = 0
    /\ lost = {} /\ redelivered = {} /\ settled = {}

-----------------------------------------------------------------------------
(***************************************************************************)
(* Configuration jobs, deployments, devices and assets, by what they do to *)
(* versions, findings and devices.                                         *)
(***************************************************************************)

\* get_latest_version_state
OldestState(k) == Head(versions[k])           \* mutant: order_by without desc
LatestState(k) == versions[k][Len(versions[k])]

\* The status of a job is that of its deployment in progress; succeeded is a history: one of
\* its deployments was.
InProgress(k) == {j \in Jobs : job[j].status \in {"applied", "closing"} /\ job[j].key = k}

\* A worker that is between its two readings of a key sees a deployment of it pass.
Disturb(k) ==
    worker' = [w \in Workers |-> IF worker[w].pc = "compare" /\ worker[w].key = k
                                 THEN [worker[w] EXCEPT !.clean = FALSE] ELSE worker[w]]

IsNext(j) == job[j].status = "absent" /\ \A i \in 1 .. j - 1 : job[i].status # "absent"

\* A configuration job of a user; the life of a job until its deployment is ChangeControl's.
CreateJob(j, k, target) ==
    /\ IsNext(j)
    /\ job' = [job EXCEPT ![j] = [NoJob EXCEPT !.status = "idle", !.key = k, !.target = target]]
    /\ UNCHANGED <<device, versions, deleted, edits, run, messages, worker, findings, triage,
                   notes, lost, redelivered, settled>>

\* execute_deployment up to the verification; resource_locks admit one deployment of an asset.
\* A job stays approved, and may be deployed again whatever became of its last deployment.
Apply(j) ==
    /\ job[j].status = "idle"
    /\ Len(versions[job[j].key]) < MaxVersions
    /\ \A k \in Keys : AssetOf[k] = AssetOf[job[j].key] => InProgress(k) = {}
    /\ job' = [job EXCEPT ![j].status = "applied"]
    /\ device' = [device EXCEPT ![job[j].key] = job[j].target]
    /\ Disturb(job[j].key)
    /\ UNCHANGED <<versions, deleted, edits, run, messages, findings, triage, notes, lost,
                   redelivered, settled>>

ClosableOfAny(j) == {i \in DOMAIN findings : findings[i].job = j}   \* mutant: status not asked
ClosableOfNone(j) == {}                          \* mutant: the deployment does not ask at all
ClosableOf(j) ==
    {i \in DOMAIN findings : findings[i].job = j /\ findings[i].status = "new"}

\* The last part of a successful deployment: mark_remediated_by_configuration_job reads ...
ReadClosable(j) ==
    /\ job[j].status = "applied"
    /\ job' = [job EXCEPT ![j].status = "closing", ![j].closes = ClosableOf(j)]
    /\ UNCHANGED <<device, versions, deleted, edits, run, messages, worker, findings, triage,
                   notes, lost, redelivered, settled>>

\* ... and the task commits, with the version recorded.
Succeed(j) ==
    /\ job[j].status = "closing"
    /\ job' = [job EXCEPT ![j].status = "idle", ![j].succeeded = TRUE, ![j].closes = {}]
    /\ versions' = [versions EXCEPT ![job[j].key] = Append(@, job[j].target)]
    /\ findings' = [i \in DOMAIN findings |->
                       IF i \in job[j].closes THEN [findings[i] EXCEPT !.status = "remediated"]
                                              ELSE findings[i]]
    /\ Disturb(job[j].key)
    /\ UNCHANGED <<device, deleted, edits, run, messages, triage, notes, lost, redelivered, settled>>

\* A deployment that fails leaves the device as it is, or restores what it can; so does one
\* whose worker dies.
FailDeployment(j) ==
    /\ job[j].status \in {"applied", "closing"}
    /\ job' = [job EXCEPT ![j].status = "idle", ![j].closes = {}]
    /\ \E state \in {device[job[j].key]} \cup Edits :
           device' = [device EXCEPT ![job[j].key] = state]
    /\ Disturb(job[j].key)
    /\ UNCHANGED <<versions, deleted, edits, run, messages, findings, triage, notes, lost,
                   redelivered, settled>>

EditDevice(k, state) ==
    /\ edits < MaxEdits
    /\ device[k] # state
    /\ device' = [device EXCEPT ![k] = state]
    /\ edits' = edits + 1
    /\ UNCHANGED <<versions, deleted, job, run, messages, worker, findings, triage, notes, lost,
                   redelivered, settled>>

DeleteAsset(a) ==
    /\ a \notin deleted
    /\ deleted' = deleted \cup {a}
    /\ UNCHANGED <<device, versions, job, edits, run, messages, worker, findings, triage, notes,
                   lost, redelivered, settled>>

-----------------------------------------------------------------------------
(***************************************************************************)
(* Drift runs.                                                             *)
(***************************************************************************)

\* analyze: the run is committed RUNNING, then its message is sent, or the broker refuses it.
Analyze(r) ==
    /\ run[r].status = "absent"
    /\ run' = [run EXCEPT ![r].status = "running"]
    /\ \/ messages' = [messages EXCEPT ![r] = 1] /\ UNCHANGED lost
       \/ lost' = lost \cup {r} /\ UNCHANGED messages
    /\ UNCHANGED <<pipeline, worker, findings, triage, notes, redelivered, settled>>

\* The broker gives a message that waits for its worker too long to a second worker as well.
Redeliver(r) ==
    /\ messages[r] = 1 /\ r \notin redelivered
    /\ messages' = [messages EXCEPT ![r] = 2]
    /\ redelivered' = redelivered \cup {r}
    /\ UNCHANGED <<pipeline, run, worker, findings, triage, notes, lost, settled>>

\* _baseline_keys
BaselineKeys == {k \in Keys : versions[k] # <<>>}

\* execute_drift_run begins, whatever the status of the run is.
Deliver(w, r) ==
    /\ messages[r] > 0
    /\ worker[w].pc = "free"
    /\ messages' = [messages EXCEPT ![r] = @ - 1]
    /\ worker' = [worker EXCEPT ![w] =
                     [pc |-> "loop", run |-> r, read |-> run[r], todo |-> BaselineKeys,
                      key |-> None, expected |-> {}, clean |-> FALSE, checked |-> 0,
                      pending |-> <<>>]]
    /\ UNCHANGED <<pipeline, run, findings, triage, notes, lost, redelivered, settled>>

\* The next key.  Its asset has an address and credentials, for a version was deployed to it
\* and update_asset never clears a column; that it was deleted since is not asked.
ReadExpected(w, k) ==
    /\ worker[w].pc = "loop"
    /\ k \in worker[w].todo
    /\ worker' = [worker EXCEPT ![w].todo = @ \ {k}, ![w].pc = "compare", ![w].key = k,
                                ![w].expected = LatestState(k),
                                ![w].clean = InProgress(k) = {},
                                ![w].checked = @ + 1]
    /\ UNCHANGED <<pipeline, run, messages, findings, triage, notes, lost, redelivered, settled>>

\* diff_fields: the fields that differ.
DiffFields(actual, expected) == (actual \ expected) \cup (expected \ actual)
Severity(diff) ==
    IF Cardinality(diff) >= 3 THEN "high" ELSE IF Cardinality(diff) >= 2 THEN "medium" ELSE "low"

\* What the history needs of a reading: the device differs from the last version.
Drifted(k) == versions[k] # <<>> /\ device[k] # versions[k][Len(versions[k])]

\* The device is read, and a difference becomes a finding of the transaction; a device that
\* does not answer is passed over.
ReadDevice(w) ==
    LET me == worker[w]
        diff == DiffFields(device[me.key], me.expected)
        finding == [run |-> me.run, key |-> me.key, expected |-> me.expected,
                    severity |-> Severity(diff), status |-> "new", job |-> None,
                    clean |-> me.clean, drifted |-> Drifted(me.key)]
    IN  /\ me.pc = "compare"
        /\ \/ worker' = [worker EXCEPT ![w].pc = "loop"]
           \/ /\ diff # {}
              /\ Len(findings) + Len(me.pending) < MaxFindings
              /\ worker' = [worker EXCEPT ![w].pc = "loop", ![w].pending = Append(@, finding)]
        /\ UNCHANGED <<pipeline, run, messages, findings, triage, notes, lost, redelivered, settled>>

\* The unit of work writes an attribute when it differs from the value read.
Assign(new, read, current) == IF new = read THEN current ELSE new

Ended(w, status, checked, found) ==
    LET read == worker[w].read
    IN  run' = [run EXCEPT ![worker[w].run] =
                   [status |-> Assign(status, read.status, @.status),
                    checked |-> Assign(checked, read.checked, @.checked),
                    found |-> Assign(found, read.found, @.found)]]

\* notify_users: a notification for every recipient.
NotifyAnyway(r, found) ==                                 \* mutant: found is not asked
    LET order == CHOOSE s \in [1 .. Cardinality(Triagers) -> Triagers] :
                     \A u \in Triagers : \E i \in DOMAIN s : s[i] = u
    IN  [i \in DOMAIN order |-> [user |-> order[i], run |-> r, read |-> FALSE]]
Notifications(r, found) == IF found = 0 THEN <<>> ELSE NotifyAnyway(r, found)

EndRun(w) ==
    LET me == worker[w]
        found == Len(me.pending)
    IN  /\ me.pc = "loop" /\ me.todo = {}
        /\ Ended(w, "success", me.checked, found)
        /\ findings' = findings \o me.pending
        /\ notes' = notes \o Notifications(me.run, found)
        /\ worker' = [worker EXCEPT ![w] = Free]
        /\ UNCHANGED <<pipeline, messages, triage, lost, redelivered, settled>>

\* An exception: the run is committed FAILED, with what the session holds.
LeftRunning(w, checked, found) == UNCHANGED run       \* mutant: the handler only re-raises
MarkedFailed(w, checked, found) == Ended(w, "failed", checked, found)

\* In the loop that is the findings made until then; after it, the counters too, and the
\* notifications written before the exception.
FailRun(w) ==
    LET me == worker[w]
        found == Len(me.pending)
        due == Notifications(me.run, found)
    IN  /\ me.pc = "loop"
        /\ \/ MarkedFailed(w, me.read.checked, me.read.found) /\ UNCHANGED notes
           \/ /\ me.todo = {}
              /\ MarkedFailed(w, me.checked, found)
              /\ \E n \in 0 .. Len(due) : notes' = notes \o SubSeq(due, 1, n)
        /\ findings' = findings \o me.pending
        /\ worker' = [worker EXCEPT ![w] = Free]
        /\ UNCHANGED <<pipeline, messages, triage, lost, redelivered, settled>>

\* The database refuses a statement, so that the handler's commit fails too, or the worker
\* dies: nothing is committed, and nothing starts the task again.
LoseRun(w) ==
    /\ worker[w].pc # "free"
    /\ lost' = lost \cup {worker[w].run}
    /\ worker' = [worker EXCEPT ![w] = Free]
    /\ UNCHANGED <<pipeline, run, messages, findings, triage, notes, redelivered, settled>>

-----------------------------------------------------------------------------
(***************************************************************************)
(* Triage, and the reading of notifications.                               *)
(***************************************************************************)

\* A triage request reads the finding.  restore-desired reads its asset too, which must not
\* be deleted, and ignore demands a reason.
BeginTriage(s, op, i) ==
    /\ triage[s].pc = "free"
    /\ op = "restore" => AssetOf[findings[i].key] \notin deleted
    /\ triage' = [triage EXCEPT ![s] = [pc |-> op, finding |-> i, read |-> findings[i]]]
    /\ UNCHANGED <<pipeline, run, messages, worker, findings, notes, lost, redelivered, settled>>

\* accept_current, ignore_drift: a status is set, whatever it was.
Decision == [accept |-> "accepted", ignore |-> "ignored"]
EndDecision(s) ==
    LET me == triage[s]
    IN  /\ me.pc \in DOMAIN Decision
        /\ findings' = [findings EXCEPT ![me.finding].status =
                           Assign(Decision[me.pc], me.read.status, @)]
        /\ settled' = IF /\ findings'[me.finding].status = Decision[me.pc]
                         /\ \A j \in Jobs : job[j].status = "closing" =>
                                me.finding \notin job[j].closes
                      THEN settled \cup {me.finding} ELSE settled
        /\ triage' = [triage EXCEPT ![s] = Free]
        /\ UNCHANGED <<pipeline, run, messages, worker, notes, lost, redelivered>>

\* create_remediation_job: a draft job with the expected state; the finding stays as it is.
RemediatedAtOnce(finding, j) == [finding EXCEPT !.job = j, !.status = "remediated"] \* mutant
Remediating(finding, j) == [finding EXCEPT !.job = j]

EndRestore(s, j) ==
    LET me == triage[s]
    IN  /\ me.pc = "restore"
        /\ IsNext(j)
        /\ job' = [job EXCEPT ![j] = [NoJob EXCEPT !.status = "idle", !.key = me.read.key,
                                                   !.target = me.read.expected,
                                                   !.finding = me.finding]]
        /\ findings' = [findings EXCEPT ![me.finding] = Remediating(@, j)]
        /\ triage' = [triage EXCEPT ![s] = Free]
        /\ UNCHANGED <<device, versions, deleted, edits, run, messages, worker, notes, lost,
                       redelivered, settled>>

TriageDies(s) ==
    /\ triage[s].pc # "free"
    /\ triage' = [triage EXCEPT ![s] = Free]
    /\ UNCHANGED <<pipeline, run, messages, worker, findings, notes, lost, redelivered, settled>>

\* mark_read is refused for the notification of another user.
MarkRead(u, n) ==
    /\ notes[n].user = u /\ ~notes[n].read
    /\ notes' = [notes EXCEPT ![n].read = TRUE]
    /\ UNCHANGED <<pipeline, run, messages, worker, findings, triage, lost, redelivered, settled>>

MarkAllRead(u) ==
    /\ \E n \in DOMAIN notes : notes[n].user = u /\ ~notes[n].read
    /\ notes' = [n \in DOMAIN notes |-> IF notes[n].user = u THEN [notes[n] EXCEPT !.read = TRUE]
                                                            ELSE notes[n]]
    /\ UNCHANGED <<pipeline, run, messages, worker, findings, triage, lost, redelivered, settled>>

-----------------------------------------------------------------------------
Deployments ==
    \/ \E j \in Jobs : \/ \E k \in Keys, target \in Targets : CreateJob(j, k, target)
                       \/ Apply(j) \/ ReadClosable(j) \/ Succeed(j) \/ FailDeployment(j)
    \/ \E k \in Keys, state \in Edits : EditDevice(k, state)
    \/ \E a \in Assets : DeleteAsset(a)

Task(w) == \/ \E r \in Runs : Deliver(w, r)
           \/ \E k \in Keys : ReadExpected(w, k)
           \/ ReadDevice(w) \/ EndRun(w) \/ FailRun(w)

Triage(s) == \/ \E op \in {"accept", "ignore", "restore"}, i \in DOMAIN findings :
                    BeginTriage(s, op, i)
             \/ EndDecision(s)
             \/ \E j \in Jobs : EndRestore(s, j)
             \/ TriageDies(s)

Next ==
    \/ Deployments
    \/ \E r \in Runs : Analyze(r) \/ Redeliver(r)
    \/ \E w \in Workers : Task(w) \/ LoseRun(w)
    \/ \E s \in Sessions : Triage(s)
    \/ \E u \in Users : MarkAllRead(u) \/ \E n \in DOMAIN notes : MarkRead(u, n)

\* The workers go on, and take the messages there are.
Fairness == \A w \in Workers : WF_vars(Task(w))

Spec == Init /\ [][Next]_vars /\ Fairness

-----------------------------------------------------------------------------
(***************************************************************************)
(* Properties.                                                             *)
(***************************************************************************)

FindingsOf(r) == {i \in DOMAIN findings : findings[i].run = r}
NotesOf(r) == {n \in DOMAIN notes : notes[n].run = r}

\* A run that succeeded and was executed once reports as many findings as it committed, of no
\* more objects than it checked; and every user who triages was told, once, if there are any.
\* A run in progress shows none (execute_drift_run, notify_users).
RunReports ==
    \A r \in Runs \ redelivered :
        /\ run[r].status = "running" => FindingsOf(r) = {}
        /\ run[r].status = "success" =>
              /\ run[r].found = Cardinality(FindingsOf(r))
              /\ run[r].found <= run[r].checked
              /\ Cardinality(NotesOf(r)) = IF run[r].found = 0 THEN 0 ELSE Cardinality(Triagers)
              /\ \A u \in Triagers : run[r].found > 0 => \E n \in NotesOf(r) : notes[n].user = u

\* A finding is a difference between a device and the last version recorded for it, unless a
\* deployment of the object was in progress, or passed, between the two readings: a run takes
\* no lock on the asset (execute_drift_run, get_latest_version_state, diff_fields).
FindingsAreReal == \A i \in DOMAIN findings : findings[i].clean => findings[i].drifted

\* A finding is remediated only after the deployment of a job that was created for it
\* succeeded, whatever triage and other remediations happened in between
\* (create_remediation_job's comment, mark_remediated_by_configuration_job).
RemediatedIsEarned ==
    \A i \in DOMAIN findings :
        findings[i].status = "remediated" =>
            \E j \in Jobs : job[j].finding = i /\ job[j].succeeded

\* The success of the job that a finding names leaves it open no longer, however often the job
\* is deployed, before or after.
NoOpenAfterSuccess ==
    \A i \in DOMAIN findings :
        findings[i].status = "new" /\ findings[i].job # None
            => ~job[findings[i].job].succeeded

\* Triage is not undone by a deployment: a finding that was accepted or ignored stays decided,
\* unless a deployment had read it open, and not committed, when the decision was committed
\* (mark_remediated_by_configuration_job's status condition).
DecidedStays == \A i \in settled : findings[i].status \in {"accepted", "ignored"}

\* A run ends, unless its message or its worker is lost: then it is RUNNING for ever
\* (execute_drift_run's exception handler).
RunEnds == \A r \in Runs : run[r].status = "running" ~> (run[r].status # "running" \/ r \in lost)
=============================================================================
