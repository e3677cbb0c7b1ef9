------------------------------ MODULE Inventory ------------------------------
(***************************************************************************)
(* The asset inventory and its four writers: the API's requests, the CSV   *)
(* import, the catalog requests and the discovery jobs of the workers.     *)
(*                                                                         *)
(* Each is one transaction at READ COMMITTED: a statement sees the rows    *)
(* committed when it starts and the transaction's own; a row written stays *)
(* locked until the transaction ends, and so does a unique key inserted.   *)
(* An import runs every row under a savepoint and goes on after a row that *)
(* fails; a discovery job has no savepoints and is rolled back as a whole. *)
(***************************************************************************)
EXTENDS Naturals, Sequences, FiniteSets

CONSTANTS
    Assets,          \* ids of asset rows
    Factors,         \* identity factors: serial number, management ip, hostname, mac address
    Values,          \* values of the factors
    Codes,           \* asset codes that a CSV file gives; a generated one is None
    Names,           \* catalog entries: vendors, sites, locations, zones, environments, OSs
    Unique,          \* those that a unique constraint covers
    LookedFor,       \* those that a catalog request looks for first: all but locations
    SeedAssets,      \* rows at first, a partial function from Assets
    Imports,         \* CSV files, sequences of rows
    Scopes,          \* discovery scopes, sequences of records; None is a method without adapter
    Payloads,        \* bodies of API requests
    Jobs,            \* discovery jobs
    Sessions,        \* transactions in progress at one time
    MaxRequests,     \* bound: API requests and imports begun
    MaxDeliveries,   \* bound: deliveries of one job's task
    Blank,           \* the empty string: a value that is given, but no identity factor
    None

ASSUME CatalogAssumption == Unique \cup LookedFor \subseteq Names /\ None \notin Names
ASSUME BoundAssumption == MaxRequests \in Nat /\ MaxDeliveries \in Nat

Given == [Factors -> Values \cup {Blank, None}]

\* A row of a file, a record or a body: fault "early" is one found before the catalog lookups
\* (no type, a bad address, an unknown owner), "late" one found after them (a bad date).
Row == [code : Codes \cup {None}, ids : Given, name : Names \cup {None},
        fault : {"none", "early", "late"}]

AssetRow == [state : {"absent", "live", "deleted"}, code : Codes \cup {None}, ids : Given]

ASSUME NoneAssumption == None \notin AssetRow
ASSUME SeedAssumption ==
    /\ IsFiniteSet(Assets)
    /\ DOMAIN SeedAssets \subseteq Assets
    /\ \A a \in DOMAIN SeedAssets : SeedAssets[a] \in AssetRow /\ SeedAssets[a].state # "absent"
    /\ \A a, b \in DOMAIN SeedAssets :
           a # b /\ SeedAssets[a].code # None => SeedAssets[a].code # SeedAssets[b].code
ASSUME RowAssumption ==
    /\ Imports \subseteq Seq(Row) /\ Scopes \subseteq Seq(Row) \cup {None} /\ Payloads \subseteq Row

VARIABLES
    asset,       \* assets, committed
    catalog,     \* how many rows every catalog entry has, committed
    job,         \* discovery_jobs
    results,     \* discovery_results and discovery_errors of every job, counted
    tasks,       \* deliveries of the job's task: those waiting, and all so far
    tx,          \* transactions in progress
    requests,    \* requests and imports begun
    answered,    \* the audit log: assets created, and entries named by what succeeded
    disturbed,   \* history: assets committed by others since a transaction began, or updated by it
    overlapped,  \* history: jobs with two tasks at one time
    lost         \* history: jobs a task of which was lost or failed

vars == <<asset, catalog, job, results, tasks, tx, requests, answered, disturbed, overlapped, lost>>
committed == <<asset, catalog, job, results, answered, tasks>>

NoAsset == [state |-> "absent", code |-> None, ids |-> [f \in Factors |-> None]]
NoJob == [status |-> "none", scope |-> None, discovered |-> 0, updated |-> 0, failed |-> 0]
NoCount == [created |-> 0, updated |-> 0, failed |-> 0]

\* A transaction: the rows left, its uncommitted writes, what a savepoint would restore, the
\* asset it has looked up, and its counts.
Idle == [pc |-> "idle", kind |-> "none", job |-> None, todo |-> <<>>,
         mine |-> [a \in Assets |-> None], named |-> {},
         save |-> [mine |-> [a \in Assets |-> None], named |-> {}],
         target |-> None, read |-> NoAsset, seen |-> NoJob, count |-> NoCount, good |-> {}]

Init ==
    /\ asset = [a \in Assets |-> IF a \in DOMAIN SeedAssets THEN SeedAssets[a] ELSE NoAsset]
    /\ catalog = [n \in Names |-> 0]
    /\ job = [j \in Jobs |-> NoJob]
    /\ results = [j \in Jobs |-> NoCount]
    /\ tasks = [j \in Jobs |-> [waiting |-> 0, sent |-> 0]]
    /\ tx = [s \in Sessions |-> Idle]
    /\ requests = 0
    /\ answered = [created |-> 0, names |-> {}]
    /\ disturbed = [s \in Sessions |-> {}]
    /\ overlapped = {}
    /\ lost = {}

-----------------------------------------------------------------------------
(***************************************************************************)
(* What a statement sees and waits for.                                    *)
(***************************************************************************)

\* The row of an asset as the transaction's next statement sees it.
Seen(s, a) == IF tx[s].mine[a] = None THEN asset[a] ELSE tx[s].mine[a]
Live(s) == {a \in Assets : Seen(s, a).state = "live"}

Known(s, n) == n \in {None} \cup tx[s].named \cup {m \in Names : catalog[m] > 0}

Shares(ids, other) == \E f \in Factors : ids[f] \notin {Blank, None} /\ ids[f] = other[f]

\* find_duplicate: any of the identity factors given, among the live assets.
AllFactors(s, ids) ==                                       \* mutant: and_ for or_
    {a \in Live(s) : \A f \in Factors : ids[f] \notin {Blank, None} => ids[f] = Seen(s, a).ids[f]}
Duplicates(s, ids) == {a \in Live(s) : Shares(ids, Seen(s, a).ids)}

\* What a transaction has locked until it ends: rows written, codes and unique names inserted,
\* the row of the job that it runs.
HoldsAsset(t, a) == tx[t].mine[a] # None
HoldsCode(t, code) ==
    \E a \in Assets : HoldsAsset(t, a) /\ asset[a].state = "absent" /\ tx[t].mine[a].code = code
Unconstrained(n) == FALSE                          \* mutant: unique=True is forgotten
Constrained(n) == n \in Unique
HoldsName(t, n) == Constrained(n) /\ n \in tx[t].named
HoldsJob(t, j) == tx[t].kind = "job" /\ tx[t].job = j /\ tx[t].pc \in {"row", "get", "write", "end"}

\* The transactions, one at most, whose end a transaction's next statement waits for.
Holders(s) ==
    {t \in Sessions \ {s} :
        \/ tx[s].pc = "write" /\ HoldsAsset(t, tx[s].target)
        \/ /\ tx[s].pc = "write" /\ Seen(s, tx[s].target).state = "absent"
           /\ Head(tx[s].todo).code # None /\ HoldsCode(t, Head(tx[s].todo).code)
        \/ tx[s].pc = "name" /\ HoldsName(t, Head(tx[s].todo).name)
        \/ tx[s].pc \in {"start", "cancel"} /\ HoldsJob(t, tx[s].job)}

\* A transaction begins, and ends without or with its writes.
Begin(s, new) ==
    /\ tx[s].pc = "idle"
    /\ tx' = [tx EXCEPT ![s] = new]
    /\ disturbed' = [disturbed EXCEPT ![s] = {}]

End(s) == tx' = [tx EXCEPT ![s] = Idle]

RollBack(s) ==
    /\ End(s)
    /\ lost' = IF tx[s].kind = "job" THEN lost \cup {tx[s].job} ELSE lost
    /\ UNCHANGED <<committed, requests, disturbed, overlapped>>

-----------------------------------------------------------------------------
(***************************************************************************)
(* The requests.                                                           *)
(***************************************************************************)

Ask(s, new) ==
    /\ requests < MaxRequests
    /\ Begin(s, new)
    /\ requests' = requests + 1
    /\ UNCHANGED <<committed, overlapped, lost>>

\* import_assets_csv; a file without the required columns changes nothing and is no step.
BeginImport(s, rows) ==
    Ask(s, [Idle EXCEPT !.pc = IF rows = <<>> THEN "end" ELSE "row", !.kind = "import", !.todo = rows])

\* POST /assets
BeginCreate(s, row) ==
    Ask(s, [Idle EXCEPT !.pc = "row", !.kind = "create", !.todo = <<row>>])

\* PUT /assets/{id}: get_asset, then update_asset without a search for duplicates.
BeginUpdate(s, a, row) ==
    /\ asset[a].state = "live"
    /\ Ask(s, [Idle EXCEPT !.pc = "get", !.kind = "update", !.todo = <<row>>, !.target = a,
                           !.read = asset[a]])

\* DELETE /assets/{id}
BeginDelete(s, a) ==
    /\ asset[a].state = "live"
    /\ Ask(s, [Idle EXCEPT !.pc = "write", !.kind = "delete", !.target = a, !.read = asset[a],
                           !.todo = <<[code |-> None, ids |-> NoAsset.ids, name |-> None,
                                       fault |-> "none"]>>])

\* POST to a catalog: the name must not be there yet, where that is looked for.
BeginCatalog(s, n) ==
    /\ n \in LookedFor => ~Known(s, n)
    /\ Ask(s, [Idle EXCEPT !.pc = "name", !.kind = "catalog",
                           !.todo = <<[code |-> None, ids |-> NoAsset.ids, name |-> n,
                                       fault |-> "none"]>>])

-----------------------------------------------------------------------------
(***************************************************************************)
(* The rows of a request, of an import and of a discovery job.             *)
(***************************************************************************)

\* The row is done: the savepoint is released and the next row begins.
NextRow(t, outcome, names) ==
    [t EXCEPT !.todo = Tail(@), !.target = None, !.read = NoAsset,
              !.pc = IF Len(t.todo) = 1 THEN "end" ELSE "row",
              !.count[outcome] = @ + 1, !.good = @ \cup (names \ {None}),
              !.save = [mine |-> t.mine, named |-> t.named]]

\* The row fails: what it wrote is undone, the catalog rows it created with it.
KeptSoFar(t) == t                                        \* mutant: no savepoint for the row
Restored(t) == [t EXCEPT !.mine = t.save.mine, !.named = t.save.named]

Fail(s) ==
    IF tx[s].kind = "import"
    THEN /\ tx' = [tx EXCEPT ![s] = NextRow(Restored(@), "failed", {})]
         /\ UNCHANGED <<committed, requests, disturbed, overlapped, lost>>
    ELSE RollBack(s)

\* _normalize_row: the checks that come first, then _get_or_create, then the dates.
RejectRow(s) ==
    /\ tx[s].pc = "row"
    /\ LET row == Head(tx[s].todo)
       IN  \/ row.fault = "early"
           \/ row.fault = "late" /\ Known(s, row.name)
    /\ IF tx[s].kind = "job"
       THEN /\ tx' = [tx EXCEPT ![s] = NextRow(@, "failed", {})]
            /\ UNCHANGED <<committed, requests, disturbed, overlapped, lost>>
       ELSE Fail(s)

LookUpName(s) ==
    /\ tx[s].pc = "row"
    /\ tx[s].kind = "import"
    /\ Head(tx[s].todo).fault # "early"
    /\ ~Known(s, Head(tx[s].todo).name)
    /\ tx' = [tx EXCEPT ![s].pc = "name"]
    /\ UNCHANGED <<committed, requests, disturbed, overlapped, lost>>

\* The insert: it waits for another of the same unique name, and fails if that committed.
InsertName(s) ==
    /\ tx[s].pc = "name"
    /\ Holders(s) = {}
    /\ LET n == Head(tx[s].todo).name
       IN  IF Constrained(n) /\ catalog[n] > 0
           THEN Fail(s)
           ELSE /\ tx' = [tx EXCEPT ![s].named = @ \cup {n},
                                    ![s].pc = IF tx[s].kind = "catalog" THEN "end" ELSE "row",
                                    ![s].good = IF tx[s].kind = "catalog" THEN {n} ELSE @]
                /\ UNCHANGED <<committed, requests, disturbed, overlapped, lost>>

\* The asset that a row is about: the one with its code, else a duplicate, else a new one,
\* whose id nobody else has.
Fresh(s) ==
    {a \in Assets : /\ asset[a].state = "absent"
                    /\ \A t \in Sessions : tx[t].mine[a] = None /\ tx[t].target # a}

LookUpAsset(s) ==
    LET row == Head(tx[s].todo)
        coded == IF row.code = None \/ tx[s].kind # "import" THEN {}
                 ELSE {a \in Live(s) : Seen(s, a).code = row.code}
        twins == Duplicates(s, row.ids)
        Target(a, place) ==
            /\ tx' = [tx EXCEPT ![s].pc = place, ![s].target = a, ![s].read = Seen(s, a)]
            /\ UNCHANGED <<committed, requests, disturbed, overlapped, lost>>
    IN  /\ tx[s].pc = "row"
        /\ row.fault = "none"
        /\ tx[s].kind = "import" => Known(s, row.name)
        /\ \/ coded # {} /\ \E a \in coded : Target(a, "get")
           \/ coded = {} /\ twins # {} /\ tx[s].kind = "job" /\ \E a \in twins : Target(a, "get")
           \/ coded = {} /\ twins # {} /\ tx[s].kind # "job" /\ Fail(s)
           \/ coded = {} /\ twins = {} /\ Fresh(s) # {}
              /\ Target(CHOOSE a \in Fresh(s) : TRUE, "write")

\* update_asset reads the row once more, and finds none that was deleted since.
GetAsset(s) ==
    /\ tx[s].pc = "get"
    /\ IF tx[s].target \in Live(s)
       THEN /\ tx' = [tx EXCEPT ![s].pc = "write"]
            /\ UNCHANGED <<committed, requests, disturbed, overlapped, lost>>
       ELSE Fail(s)

\* Then the values that are given, empty ones too, and differ from those read are written into
\* the row as it is now; soft_delete_asset writes deleted_at.
Updated(row, read, now) ==
    [now EXCEPT !.ids = [f \in Factors |-> IF row.ids[f] \in {None, read.ids[f]} THEN now.ids[f]
                                                                             ELSE row.ids[f]]]

\* create_asset_record, and the flush of an update: a code of a row that was deleted is taken.
Write(s) ==
    LET row == Head(tx[s].todo)
        a == tx[s].target
        now == Seen(s, a)
        done(new, outcome) ==
            /\ tx' = [tx EXCEPT ![s] = NextRow([@ EXCEPT !.mine[a] = new], outcome, {row.name})]
            /\ UNCHANGED <<committed, requests, overlapped, lost>>
    IN  /\ tx[s].pc = "write"
        /\ Holders(s) = {}
        /\ \/ /\ now.state # "absent"
              /\ done(IF tx[s].kind = "delete" THEN [now EXCEPT !.state = "deleted"]
                                               ELSE Updated(row, tx[s].read, now), "updated")
              /\ disturbed' = [disturbed EXCEPT ![s] = @ \cup {a}]
           \/ /\ now.state = "absent"
              /\ row.code = None \/ \A b \in Assets : Seen(s, b).code # row.code
              /\ done([state |-> "live", code |-> row.code, ids |-> row.ids], "created")
              /\ UNCHANGED disturbed
           \/ /\ now.state = "absent"
              /\ row.code # None /\ \E b \in Assets : Seen(s, b).code = row.code
              /\ Fail(s)

\* Everyone waits for everyone: PostgreSQL ends one statement of the circle with an error.
Victim(s) ==
    /\ \E C \in SUBSET Sessions :
          /\ s \in C
          /\ \A c \in C : Holders(c) \cap C # {}
          /\ C = UNION {Holders(c) \cap C : c \in C}
    /\ Fail(s)

\* The audit event, and db.commit of a request.
Committed(s) ==
    /\ asset' = [a \in Assets |-> Seen(s, a)]
    /\ catalog' = [n \in Names |-> catalog[n] + (IF n \in tx[s].named THEN 1 ELSE 0)]
    /\ answered' = [created |-> answered.created + tx[s].count.created,
                    names |-> answered.names
                                \cup (IF tx[s].kind \in {"import", "catalog"} THEN tx[s].good ELSE {})]
    /\ disturbed' = [t \in Sessions |->
                        disturbed[t] \cup {a \in Assets : t # s /\ tx[s].mine[a] # None}]
    /\ End(s)

CommitRequest(s) ==
    /\ tx[s].pc = "end"
    /\ tx[s].kind # "job"
    /\ Committed(s)
    /\ UNCHANGED <<job, results, tasks, requests, overlapped, lost>>

-----------------------------------------------------------------------------
(***************************************************************************)
(* Discovery jobs.                                                         *)
(***************************************************************************)

Cancellable == {"queued", "running", "partial"}

\* create_discovery_job: committed, then the task is sent; the broker may refuse it.
CreateJob(j, scope) ==
    /\ job[j] = NoJob
    /\ job' = [job EXCEPT ![j].status = "queued", ![j].scope = scope]
    /\ \/ tasks' = [tasks EXCEPT ![j] = [waiting |-> 1, sent |-> 1]] /\ UNCHANGED lost
       \/ UNCHANGED tasks /\ lost' = lost \cup {j}
    /\ UNCHANGED <<asset, catalog, results, tx, requests, answered, disturbed, overlapped>>

\* The broker delivers a task again that it takes for lost.
Redeliver(j) ==
    /\ tasks[j].sent \in 1 .. (MaxDeliveries - 1)
    /\ tasks' = [tasks EXCEPT ![j].waiting = @ + 1, ![j].sent = @ + 1]
    /\ UNCHANGED <<asset, catalog, job, results, tx, requests, answered, disturbed, overlapped, lost>>

\* A worker takes the task: a cancelled job is left alone.
Running(j) == {s \in Sessions : tx[s].kind = "job" /\ tx[s].job = j}

MayRun(j) == job[j].status # "cancelled"

TakeTask(s, j) ==
    /\ tasks[j].waiting > 0
    /\ tasks' = [tasks EXCEPT ![j].waiting = @ - 1]
    /\ IF MayRun(j)
       THEN /\ Begin(s, [Idle EXCEPT !.pc = "start", !.kind = "job", !.job = j, !.seen = job[j]])
            /\ overlapped' = IF Running(j) = {} THEN overlapped ELSE overlapped \cup {j}
       ELSE UNCHANGED <<tx, disturbed, overlapped>>
    /\ UNCHANGED <<asset, catalog, job, results, requests, answered, lost>>

\* The flush of RUNNING locks the job's row; the adapter turns the scope into records.
StartJob(s) ==
    /\ tx[s].pc = "start"
    /\ Holders(s) = {}
    /\ LET scope == tx[s].seen.scope
       IN  tx' = [tx EXCEPT ![s].todo = IF scope = None THEN <<>> ELSE scope,
                            ![s].pc = IF scope \in {None, <<>>} THEN "end" ELSE "row"]
    /\ UNCHANGED <<committed, requests, disturbed, overlapped, lost>>

\* The job's counters are those it read, plus what this run added.
FailuresForgotten(seen, count) ==                  \* mutant: failed_count is not incremented
    [seen EXCEPT !.discovered = @ + count.created, !.updated = @ + count.updated]
Tallied(seen, count) ==
    [seen EXCEPT !.discovered = @ + count.created, !.updated = @ + count.updated,
                 !.failed = @ + count.failed]

StillRunning(row) ==                    \* mutant: no adapter, and the job is left as it is
    IF row.scope = None THEN "running" ELSE IF row.failed = 0 THEN "success" ELSE "partial"
FinalStatus(row) ==
    IF row.scope = None THEN "failed"
    ELSE IF row.failed = 0 THEN "success"
    ELSE IF row.discovered + row.updated > 0 THEN "partial"
    ELSE "failed"

FinishJob(s) ==
    LET j == tx[s].job
        count == tx[s].count
        end == Tallied(tx[s].seen, count)
        written(f, old) == IF end[f] = tx[s].seen[f] THEN old[f] ELSE end[f]
    IN  /\ tx[s].pc = "end"
        /\ tx[s].kind = "job"
        /\ job' = [job EXCEPT ![j] =
                      [status |-> FinalStatus(end), scope |-> @.scope,
                       discovered |-> written("discovered", @), updated |-> written("updated", @),
                       failed |-> written("failed", @)]]
        /\ results' = [results EXCEPT ![j] = [created |-> @.created + count.created,
                                              updated |-> @.updated + count.updated,
                                              failed |-> @.failed + count.failed
                                                  + (IF end.scope = None THEN 1 ELSE 0)]]
        /\ Committed(s)
        /\ UNCHANGED <<tasks, requests, overlapped, lost>>

\* cancel_discovery_job: the status is read, and written when the row's lock is free.
BeginCancel(s, j) ==
    /\ job[j].status \in Cancellable
    /\ Ask(s, [Idle EXCEPT !.pc = "cancel", !.kind = "cancel", !.job = j])

Cancel(s) ==
    /\ tx[s].pc = "cancel"
    /\ Holders(s) = {}
    /\ job' = [job EXCEPT ![tx[s].job].status = "cancelled"]
    /\ End(s)
    /\ UNCHANGED <<asset, catalog, results, tasks, requests, answered, disturbed, overlapped, lost>>

\* A process dies, a connection breaks, or a value does not fit its column.
Crash(s) == tx[s].pc # "idle" /\ RollBack(s)

Work(s) ==
    \/ RejectRow(s) \/ LookUpName(s) \/ InsertName(s) \/ LookUpAsset(s) \/ GetAsset(s) \/ Write(s)
    \/ Victim(s) \/ CommitRequest(s) \/ StartJob(s) \/ FinishJob(s) \/ Cancel(s)

Request(s) ==
    \/ \E rows \in Imports : BeginImport(s, rows)
    \/ \E row \in Payloads : BeginCreate(s, row)
    \/ \E a \in Assets : BeginDelete(s, a) \/ \E row \in Payloads : BeginUpdate(s, a, row)
    \/ \E n \in Names : BeginCatalog(s, n)
    \/ \E j \in Jobs : BeginCancel(s, j)

Next ==
    \/ \E s \in Sessions : Request(s) \/ Work(s) \/ Crash(s) \/ \E j \in Jobs : TakeTask(s, j)
    \/ \E j \in Jobs : Redeliver(j) \/ \E scope \in Scopes : CreateJob(j, scope)

\* Threads and workers go on, and PostgreSQL serves those that wait for a lock in turn.
Fairness ==
    /\ \A s \in Sessions : WF_vars(Work(s))
    /\ \A j \in Jobs : SF_vars(\E s \in Sessions : TakeTask(s, j))

Spec == Init /\ [][Next]_vars /\ Fairness

-----------------------------------------------------------------------------
(***************************************************************************)
(* Properties.                                                             *)
(***************************************************************************)

Count == [created : Nat, updated : Nat, failed : Nat]

\* Rows have their types; no two transactions have written one asset or one unique name, and
\* no unique name or code is committed twice.
TypeOK ==
    /\ asset \in [Assets -> AssetRow]
    /\ catalog \in [Names -> Nat]
    /\ \A j \in Jobs : job[j].status \in {"none", "cancelled", "success", "failed"} \cup Cancellable
    /\ results \in [Jobs -> Count]
    /\ \A s \in Sessions : tx[s].mine \in [Assets -> AssetRow \cup {None}]
    /\ \A s, t \in Sessions : s # t =>
           /\ \A a \in Assets : None \in {tx[s].mine[a], tx[t].mine[a]}
           /\ tx[s].named \cap tx[t].named \cap Unique = {}
    /\ \A n \in Unique : catalog[n] <= 1
    /\ \A a, b \in Assets : a # b /\ asset[a].code # None => asset[a].code # asset[b].code

\* An asset is created only if no live one shares a serial number, address or hostname with
\* it, apart from those that other transactions committed while its own was in progress and
\* those its own updated (find_duplicate, create_asset, _process_row, _reconcile_record).
CreatedIsNew ==
    [][\A s \in Sessions, a, b \in Assets :
          (/\ tx[s].mine[a] # None /\ a # b
           /\ asset[a].state = "absent" /\ asset'[a].state = "live"
           /\ asset'[b].state = "live" /\ Shares(asset'[a].ids, asset'[b].ids))
              => a \in disturbed[s] \/ b \in disturbed[s]]_vars

\* What the answers and the job's counts say is what the database holds: every asset is
\* reported as created once, and a catalog entry is there because of a row that succeeded.  A
\* row reported as an error leaves nothing (import_assets_from_csv and its savepoints).
ImportWhole ==
    /\ answered.created = Cardinality({a \in Assets \ DOMAIN SeedAssets : asset[a].state # "absent"})
    /\ \A n \in Names : catalog[n] > 0 => n \in answered.names

\* A job's counters count its result rows and its errors, and its status follows from them,
\* through repeated runs too, unless two ran at one time (execute_discovery_job).
CountersMatch ==
    \A j \in Jobs \ overlapped :
        /\ job[j].discovered = results[j].created
        /\ job[j].updated = results[j].updated
        /\ job[j].scope # None => job[j].failed = results[j].failed
        /\ job[j].status = "success" => results[j].failed = 0
        /\ job[j].status = "partial" =>
               results[j].failed > 0 /\ results[j].created + results[j].updated > 0

\* A queued job ends, whatever it waits for, or one of its tasks was lost or failed
\* (the commit before the task is sent, and the final statuses of execute_discovery_job).
Pending(j) == job[j].status \in {"queued", "running"}
JobSettles == \A j \in Jobs : Pending(j) ~> (~Pending(j) \/ j \in lost)
=============================================================================
