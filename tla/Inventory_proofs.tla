--------------------------- MODULE Inventory_proofs ---------------------------
(***************************************************************************)
(* Proofs about Inventory for any assets, catalogs, files, jobs and        *)
(* numbers of overlapping transactions: type correctness with the          *)
(* exclusion of row locks and unique keys, that imports are whole, that    *)
(* the counters of a job match its rows, and that what is created is new.  *)
(***************************************************************************)
EXTENDS Inventory, FiniteSetTheorems, SequenceTheorems, TLAPS

Mine == [Assets -> AssetRow \cup {None}]
JobStatus == {"none", "cancelled", "success", "failed"} \cup Cancellable
JobType == [status : JobStatus, scope : Seq(Row) \cup {None},
            discovered : Nat, updated : Nat, failed : Nat]
TxType ==
    [pc : {"idle", "row", "name", "get", "write", "start", "cancel", "end"},
     kind : {"none", "import", "create", "update", "delete", "catalog", "job", "cancel"},
     job : Jobs \cup {None}, todo : Seq(Row), mine : Mine, named : SUBSET Names,
     save : [mine : Mine, named : SUBSET Names], target : Assets \cup {None},
     read : AssetRow, seen : JobType, count : Count, good : SUBSET (Names \cup {None})]

\* What a transaction in progress carries, by its place.
Carries(t) ==
    /\ t.pc = "idle" => t = Idle
    /\ t.pc \in {"row", "name", "get", "write"} => t.todo # <<>>
    /\ t.pc = "name" => t.kind \in {"import", "catalog"} /\ Head(t.todo).name \in Names \ {None}
    /\ t.pc \in {"get", "write"} => t.target \in Assets
    /\ t.pc = "start" => t.kind = "job"
    /\ t.pc \in {"start", "cancel"} => t.mine = Idle.mine /\ t.count = NoCount
    /\ t.kind = "job" => t.job \in Jobs
    /\ t.pc = "cancel" => t.kind = "cancel" /\ t.job \in Jobs

\* What it has written; the names that only the row in progress vouches for.
Wrote(t) ==
    /\ t.save.mine = t.mine
    /\ \A a \in Assets : t.mine[a] # None => t.mine[a].state # "absent"
    /\ None \notin t.named
    /\ t.kind \notin {"import", "catalog"} => t.named = {}
    /\ t.pc = "name" /\ t.kind = "catalog" => t.named = {}
    /\ t.save.named \subseteq t.named
    /\ t.save.named \subseteq t.good
    /\ \A n \in t.named : n \in t.good \/ (t.pc \in {"row", "name", "get", "write"} /\ n = Head(t.todo).name)

Typed ==
    /\ asset \in [Assets -> AssetRow]
    /\ catalog \in [Names -> Nat]
    /\ job \in [Jobs -> JobType]
    /\ results \in [Jobs -> Count]
    /\ answered.created \in Nat /\ answered.names \subseteq Names \cup {None}
    /\ answered = [created |-> answered.created, names |-> answered.names]
    /\ tx \in [Sessions -> TxType]
    /\ disturbed \in [Sessions -> SUBSET Assets]
    /\ \A s \in Sessions : Carries(tx[s]) /\ Wrote(tx[s])

\* No two transactions have written one row, or inserted one unique name.
Exclusive ==
    \A s, t \in Sessions : s # t =>
        /\ \A a \in Assets : tx[s].mine[a] = None \/ tx[t].mine[a] = None
        /\ tx[s].named \cap tx[t].named \cap Unique = {}

\* A unique name that is inserted is not committed yet.
NamesOnce ==
    \A n \in Unique : /\ catalog[n] <= 1
                      /\ \A s \in Sessions : n \in tx[s].named => catalog[n] = 0

\* The codes of rows written: an update keeps the code, a new row's is nobody else's.
CodeKept(t, a) ==
    tx[t].mine[a] # None /\ asset[a].state # "absent" => tx[t].mine[a].code = asset[a].code
CodeFree(t, a) ==
    tx[t].mine[a] # None /\ asset[a].state = "absent" /\ tx[t].mine[a].code # None =>
        \A b \in Assets \ {a} :
           /\ asset[b].code # tx[t].mine[a].code
           /\ \A u \in Sessions : tx[u].mine[b] # None => tx[u].mine[b].code # tx[t].mine[a].code
CodesApart ==
    /\ \A a \in Assets : asset[a].state = "absent" => asset[a].code = None
    /\ \A a, b \in Assets : a # b /\ asset[a].code # None => asset[a].code # asset[b].code
    /\ \A t \in Sessions, a \in Assets : CodeKept(t, a) /\ CodeFree(t, a)

\* What is counted as created is what will be committed.
Creating(s) == {a \in Assets : asset[a].state = "absent" /\ tx[s].mine[a] # None}
Created == {a \in Assets \ DOMAIN SeedAssets : asset[a].state # "absent"}
Counted ==
    /\ \A a \in DOMAIN SeedAssets : asset[a].state # "absent"
    /\ \A s \in Sessions : tx[s].count.created = Cardinality(Creating(s))
    /\ ImportWhole

\* A job that is not there yet has no task, no worker and no result.
Unborn ==
    /\ tasks = [j \in Jobs |-> tasks[j]]
    /\ \A j \in Jobs : job[j] = NoJob =>
          tasks[j] = [waiting |-> 0, sent |-> 0] /\ results[j] = NoCount /\ Running(j) = {}

\* A job that runs alone has read the counters as they are.
Tallies ==
    /\ \A s \in Sessions : tx[s].kind = "job" =>
          /\ tx[s].seen.scope = job[tx[s].job].scope
          /\ tx[s].job \notin overlapped =>
                /\ \A t \in Running(tx[s].job) : t = s
                /\ tx[s].seen.discovered = job[tx[s].job].discovered
                /\ tx[s].seen.updated = job[tx[s].job].updated
                /\ tx[s].seen.failed = job[tx[s].job].failed
    /\ CountersMatch

\* What a transaction sees live and like the asset it is about to create, or has created, it
\* has updated itself or others have committed meanwhile.
Alike(ids, s, b) == Seen(s, b).state = "live" /\ Shares(ids, Seen(s, b).ids)
LooksNew ==
    \A s \in Sessions :
        /\ tx[s].pc = "write" /\ Seen(s, tx[s].target).state = "absent" =>
              \A b \in Assets : Alike(Head(tx[s].todo).ids, s, b) => b \in disturbed[s]
        /\ \A a \in Assets :
              tx[s].mine[a] # None /\ asset[a].state = "absent" /\ tx[s].mine[a].state = "live" =>
              \A b \in Assets \ {a} : Alike(tx[s].mine[a].ids, s, b) =>
                 a \in disturbed[s] \/ b \in disturbed[s]

-----------------------------------------------------------------------------
(***************************************************************************)
(* The steps of a transaction, by what they do to what others see.         *)
(***************************************************************************)

Moves(s) == /\ tx' = [tx EXCEPT ![s] = tx'[s]]
            /\ tx'[s] \in TxType /\ Carries(tx'[s]) /\ Wrote(tx'[s])
Keeping == UNCHANGED <<asset, catalog, results, answered>>
SameTask(s) == tx'[s].kind = tx[s].kind /\ tx'[s].job = tx[s].job /\ tx'[s].seen = tx[s].seen

\* It begins.
Opens(s) ==
    /\ tx[s] = Idle
    /\ Moves(s) /\ Keeping /\ UNCHANGED job
    /\ tx'[s].mine = Idle.mine /\ tx'[s].named = {} /\ tx'[s].count = NoCount
    /\ disturbed' = [disturbed EXCEPT ![s] = {}]
    /\ tx'[s].pc = "write" => asset[tx'[s].target].state # "absent"
    /\ \/ tx'[s].kind # "job" /\ UNCHANGED overlapped
       \/ /\ tx'[s].kind = "job" /\ tx'[s].seen = job[tx'[s].job] /\ job[tx'[s].job] # NoJob
          /\ overlapped' = IF Running(tx'[s].job) = {} THEN overlapped
                                                      ELSE overlapped \cup {tx'[s].job}

\* It reads, or a row of it fails.
Reads(s) ==
    /\ Moves(s) /\ Keeping /\ UNCHANGED <<job, disturbed, overlapped>>
    /\ SameTask(s)
    /\ tx'[s].mine = tx[s].mine /\ tx'[s].named \subseteq tx[s].named
    /\ tx'[s].count.created = tx[s].count.created
    /\ tx'[s].pc = "write" => LookUpAsset(s) \/ Seen(s, tx'[s].target).state = "live"

\* It inserts a catalog entry.
Inserts(s) ==
    /\ Moves(s) /\ Keeping /\ UNCHANGED <<job, disturbed, overlapped>>
    /\ SameTask(s)
    /\ tx'[s].mine = tx[s].mine /\ tx'[s].count = tx[s].count
    /\ tx'[s].pc # "write"
    /\ \E n \in Names : /\ tx'[s].named = tx[s].named \cup {n}
                        /\ n \in Unique => /\ catalog[n] = 0
                                           /\ \A t \in Sessions \ {s} : n \notin tx[t].named

\* It writes an asset that is there, or a new one.
Writing(s, a, new) ==
    /\ Moves(s) /\ Keeping /\ UNCHANGED <<job, overlapped>>
    /\ SameTask(s)
    /\ a \in Assets /\ new \in AssetRow /\ new.state # "absent"
    /\ \A t \in Sessions \ {s} : tx[t].mine[a] = None
    /\ tx'[s].mine = [tx[s].mine EXCEPT ![a] = new]
    /\ tx'[s].named = tx[s].named
    /\ tx'[s].pc # "write"
Updates(s, a, new) ==
    /\ Writing(s, a, new)
    /\ Seen(s, a).state # "absent"
    /\ new.code = Seen(s, a).code
    /\ tx'[s].count.created = tx[s].count.created
    /\ disturbed' = [disturbed EXCEPT ![s] = @ \cup {a}]
Creates(s, a, new) ==
    /\ Writing(s, a, new)
    /\ Seen(s, a).state = "absent"
    /\ tx[s].pc = "write" /\ tx[s].target = a
    /\ new.ids = Head(tx[s].todo).ids
    /\ new.code # None =>
          \A b \in Assets : /\ Seen(s, b).code # new.code
                           /\ \A t \in Sessions \ {s} :
                                 tx[t].mine[b] # None /\ asset[b].state = "absent"
                                     => tx[t].mine[b].code # new.code
    /\ tx'[s].count.created = tx[s].count.created + 1
    /\ UNCHANGED disturbed

\* It is rolled back, or it was a cancellation.
Drops(s) ==
    /\ Moves(s) /\ Keeping /\ UNCHANGED <<disturbed, overlapped>>
    /\ tx'[s] = Idle
    /\ \/ UNCHANGED job
       \/ \E j \in Jobs : job' = [job EXCEPT ![j].status = "cancelled"]

\* It commits.
Commits(s) ==
    /\ tx[s].pc = "end"
    /\ Moves(s) /\ tx'[s] = Idle
    /\ Committed(s)
    /\ UNCHANGED overlapped
    /\ (tx[s].kind # "job" /\ UNCHANGED <<job, results>>) \/ FinishJob(s)

\* The broker and the creation of jobs.
Waits ==
    /\ UNCHANGED <<tx, disturbed, overlapped>> /\ Keeping
    /\ \/ UNCHANGED job
       \/ \E j \in Jobs, scope \in Scopes :
             job[j] = NoJob /\ job' = [job EXCEPT ![j].status = "queued", ![j].scope = scope]

Step(s) == \/ Opens(s) \/ Reads(s) \/ Inserts(s) \/ Drops(s) \/ Commits(s)
           \/ \E a, new : Updates(s, a, new) \/ Creates(s, a, new)

-----------------------------------------------------------------------------
(***************************************************************************)
(* Every step is one of these.                                             *)
(***************************************************************************)

LEMMA IdleFacts ==
    /\ NoAsset \in AssetRow /\ NoAsset.state = "absent" /\ NoAsset.code = None
    /\ Idle \in TxType /\ Carries(Idle) /\ Wrote(Idle)
    /\ Idle.pc = "idle" /\ Idle.kind = "none" /\ Idle.named = {} /\ Idle.count = NoCount
    /\ \A a \in Assets : Idle.mine[a] = None
    /\ Idle.target = None
    /\ NoCount \in Count /\ NoCount.created = 0
    /\ NoJob \in JobType
  <1>1. NoAsset \in AssetRow /\ NoAsset.state = "absent" /\ NoAsset.code = None
    BY DEF NoAsset, AssetRow, Given
  <1>2. NoJob \in JobType
    BY DEF NoJob, JobType, JobStatus
  <1>3. NoCount \in Count /\ NoCount.created = 0
    BY DEF NoCount, Count
  <1>4. Idle \in TxType
    BY <1>1, <1>2, <1>3 DEF Idle, TxType, Mine
  <1>5. /\ Idle.pc = "idle" /\ Idle.kind = "none" /\ Idle.named = {} /\ Idle.count = NoCount
        /\ Idle.mine = [a \in Assets |-> None] /\ Idle.save = [mine |-> Idle.mine, named |-> {}]
        /\ Idle.target = None /\ Idle.good = {}
    BY DEF Idle
  <1>6. Carries(Idle)
    BY <1>5 DEF Carries
  <1>7. Wrote(Idle)
    BY <1>5 DEF Wrote
  <1> QED
    BY <1>1, <1>2, <1>3, <1>4, <1>5, <1>6, <1>7

\* The next row of a transaction, after one that succeeded or failed.
LEMMA NextRowFacts ==
    ASSUME NEW t \in TxType, t.todo # <<>>, NEW outcome \in {"created", "updated", "failed"},
           NEW names \in SUBSET (Names \cup {None}), NEW r, r = NextRow(t, outcome, names)
    PROVE  /\ r \in TxType
           /\ r.pc \in {"row", "end"} /\ (r.pc = "row" => r.todo # <<>>)
           /\ r.kind = t.kind /\ r.job = t.job /\ r.seen = t.seen
           /\ r.mine = t.mine /\ r.named = t.named
           /\ r.save.mine = t.mine /\ r.save.named = t.named
           /\ r.good = t.good \cup (names \ {None})
           /\ r.count = [t.count EXCEPT ![outcome] = @ + 1]
           /\ r.count.created = t.count.created + (IF outcome = "created" THEN 1 ELSE 0)
  <1>1. /\ Len(t.todo) \in Nat /\ Len(t.todo) # 0
        /\ Tail(t.todo) \in Seq(Row) /\ Len(Tail(t.todo)) = Len(t.todo) - 1
    BY DEF TxType
  <1>2. Len(t.todo) # 1 => Tail(t.todo) # <<>>
    <2> DEFINE q == Tail(t.todo)
    <2>1. q \in Seq(Row) /\ (Len(t.todo) # 1 => Len(q) # 0)
      BY <1>1
    <2> HIDE DEF q
    <2>2. Len(t.todo) # 1 => q # <<>>
      BY <2>1, EmptySeq
    <2> QED
      BY <2>2 DEF q
  <1>3. /\ [t.count EXCEPT ![outcome] = @ + 1] \in Count
        /\ [t.count EXCEPT ![outcome] = @ + 1].created
                = t.count.created + (IF outcome = "created" THEN 1 ELSE 0)
    BY DEF TxType, Count
  <1>4. /\ r.pc = IF Len(t.todo) = 1 THEN "end" ELSE "row"
        /\ r.todo = Tail(t.todo)
        /\ r.kind = t.kind /\ r.job = t.job /\ r.seen = t.seen
        /\ r.mine = t.mine /\ r.named = t.named
        /\ r.save = [mine |-> t.mine, named |-> t.named]
        /\ r.good = t.good \cup (names \ {None})
        /\ r.count = [t.count EXCEPT ![outcome] = @ + 1]
        /\ r.target = None /\ r.read = NoAsset
        /\ r = [pc |-> r.pc, kind |-> r.kind, job |-> r.job, todo |-> r.todo, mine |-> r.mine,
                named |-> r.named, save |-> r.save, target |-> r.target, read |-> r.read,
                seen |-> r.seen, count |-> r.count, good |-> r.good]
    BY DEF NextRow, TxType
  <1>5. /\ t.kind \in {"none", "import", "create", "update", "delete", "catalog", "job", "cancel"}
        /\ t.job \in Jobs \cup {None} /\ t.seen \in JobType
        /\ t.mine \in Mine /\ t.named \in SUBSET Names /\ t.good \in SUBSET (Names \cup {None})
    BY DEF TxType
  <1>6. r \in TxType
    <2>1. r.save \in [mine : Mine, named : SUBSET Names] /\ r.good \in SUBSET (Names \cup {None})
      BY <1>4, <1>5
    <2>2. r.read \in AssetRow
      BY <1>4, IdleFacts
    <2> QED
      BY <1>1, <1>3, <1>4, <1>5, <2>1, <2>2 DEF TxType
  <1>7. r.save.mine = t.mine /\ r.save.named = t.named
    BY <1>4
  <1> QED
    BY <1>1, <1>2, <1>3, <1>4, <1>6, <1>7

LEMMA NextRowKept ==
    ASSUME NEW t \in TxType, t.todo # <<>>, NEW outcome \in {"created", "updated", "failed"},
           NEW names \in SUBSET (Names \cup {None}),
           \A a \in Assets : t.mine[a] # None => t.mine[a].state # "absent",
           None \notin t.named, t.kind \notin {"import", "catalog"} => t.named = {},
           t.named \subseteq t.good \cup names, t.kind = "job" => t.job \in Jobs,
           NEW r, r = NextRow(t, outcome, names)
    PROVE  Carries(r) /\ Wrote(r)
  <1>1. /\ r.pc \in {"row", "end"} /\ (r.pc = "row" => r.todo # <<>>)
        /\ r.kind = t.kind /\ r.job = t.job
        /\ r.mine = t.mine /\ r.named = t.named
        /\ r.save.mine = t.mine /\ r.save.named = t.named
        /\ r.good = t.good \cup (names \ {None})
    <2>1. r.pc \in {"row", "end"} /\ (r.pc = "row" => r.todo # <<>>)
      BY NextRowFacts
    <2> QED
      BY <2>1 DEF NextRow, TxType
  <1>2. Carries(r)
    BY <1>1 DEF Carries
  <1>3. t.named \subseteq r.good
    BY <1>1
  <1>4. Wrote(r)
    BY <1>1, <1>3 DEF Wrote
  <1> QED
    BY <1>2, <1>4

\* What is known of a transaction in every state.
LEMMA TxFacts ==
    ASSUME Typed, NEW s \in Sessions
    PROVE  /\ tx[s] \in TxType /\ Carries(tx[s]) /\ Wrote(tx[s])
           /\ tx[s].todo \in Seq(Row) /\ tx[s].mine \in Mine /\ tx[s].named \subseteq Names
           /\ tx[s].save \in [mine : Mine, named : SUBSET Names]
           /\ tx[s].count \in Count /\ tx[s].seen \in JobType
           /\ tx[s].good \in SUBSET (Names \cup {None})
           /\ tx[s].todo # <<>> => Head(tx[s].todo) \in Row
           /\ \A a \in Assets : Seen(s, a) \in AssetRow
           /\ tx[s].pc = "idle" => tx[s] = Idle
  <1>1. tx[s] \in TxType /\ Carries(tx[s]) /\ Wrote(tx[s])
    BY DEF Typed
  <1>2. tx[s].todo # <<>> => Head(tx[s].todo) \in Row
    BY <1>1 DEF TxType
  <1>3. \A a \in Assets : Seen(s, a) \in AssetRow
    BY <1>1 DEF Typed, TxType, Mine, Seen
  <1>4. tx[s].pc = "idle" => tx[s] = Idle
    BY <1>1 DEF Carries
  <1> QED
    BY <1>1, <1>2, <1>3, <1>4 DEF TxType

\* A row that fails: an import goes on with the next one, everything else is rolled back.
LEMMA FailShape ==
    ASSUME Typed, NEW s \in Sessions, Fail(s),
           tx[s].kind = "import" => tx[s].todo # <<>>
    PROVE  Reads(s) \/ Drops(s)
  <1>0. tx[s] \in TxType /\ Carries(tx[s]) /\ Wrote(tx[s])
    BY TxFacts
  <1>1. CASE tx[s].kind = "import"
    <2> DEFINE t == Restored(tx[s])
               r == NextRow(t, "failed", {})
    <2>1. /\ tx' = [tx EXCEPT ![s] = r]
          /\ UNCHANGED <<committed, requests, disturbed, overlapped, lost>>
      BY <1>1 DEF Fail
    <2>2. tx'[s] = r /\ tx' = [tx EXCEPT ![s] = tx'[s]]
      BY <2>1 DEF Typed
    <2>3. /\ t \in TxType /\ t.todo = tx[s].todo /\ t.kind = tx[s].kind /\ t.job = tx[s].job
          /\ t.seen = tx[s].seen /\ t.count = tx[s].count /\ t.good = tx[s].good
          /\ t.mine = tx[s].save.mine /\ t.named = tx[s].save.named
      BY <1>0 DEF Restored, TxType
    <2>4. /\ tx[s].save.mine = tx[s].mine /\ tx[s].save.named \subseteq tx[s].named
          /\ tx[s].save.named \subseteq tx[s].good /\ None \notin tx[s].named
          /\ \A a \in Assets : tx[s].mine[a] # None => tx[s].mine[a].state # "absent"
      BY <1>0 DEF Wrote
    <2> HIDE DEF t, r
    <2>5. /\ r \in TxType /\ r.pc \in {"row", "end"} /\ r.kind = t.kind /\ r.job = t.job
          /\ r.seen = t.seen /\ r.mine = t.mine /\ r.named = t.named
          /\ r.count.created = t.count.created
      <3>1. r \in TxType /\ r.pc \in {"row", "end"} /\ t.todo # <<>>
        BY <1>1, <2>3, NextRowFacts DEF r
      <3> QED
        BY <2>3, <3>1 DEF r, NextRow, TxType, Count
    <2>6. Carries(r) /\ Wrote(r)
      BY <1>1, <2>3, <2>4, NextRowKept DEF r
    <2>7. r.count.created = tx[s].count.created
      BY <1>0, <2>3, <2>5 DEF TxType, Count
    <2> QED
      BY <2>1, <2>2, <2>3, <2>4, <2>5, <2>6, <2>7 DEF Reads, Moves, Keeping, SameTask, committed
  <1>2. CASE tx[s].kind # "import"
    <2>1. tx' = [tx EXCEPT ![s] = Idle] /\ UNCHANGED <<committed, disturbed, overlapped>>
      BY <1>2 DEF Fail, RollBack, End
    <2>2. tx'[s] = Idle /\ tx' = [tx EXCEPT ![s] = tx'[s]]
      BY <2>1 DEF Typed
    <2> QED
      BY <2>1, <2>2, IdleFacts DEF Drops, Moves, Keeping, committed
  <1> QED
    BY <1>1, <1>2

\* A transaction begins: it holds nothing and has counted nothing.
LEMMA OpensShape ==
    ASSUME Typed, NEW s \in Sessions, NEW new \in TxType, Begin(s, new), Carries(new),
           new.mine = Idle.mine, new.save = Idle.save, new.named = {}, new.count = NoCount,
           Keeping, UNCHANGED job,
           new.pc = "write" => asset[new.target].state # "absent",
           \/ new.kind # "job" /\ UNCHANGED overlapped
           \/ /\ new.kind = "job" /\ new.seen = job[new.job] /\ job[new.job] # NoJob
              /\ overlapped' = IF Running(new.job) = {} THEN overlapped
                                                        ELSE overlapped \cup {new.job}
    PROVE  Opens(s)
  <1>1. /\ tx[s].pc = "idle" /\ tx' = [tx EXCEPT ![s] = new]
        /\ disturbed' = [disturbed EXCEPT ![s] = {}]
    BY DEF Begin
  <1>2. tx[s] = Idle /\ tx'[s] = new /\ tx' = [tx EXCEPT ![s] = tx'[s]]
    BY <1>1, TxFacts DEF Typed
  <1>3. new.save.mine = Idle.mine /\ new.save.named = {}
    BY DEF Idle
  <1>4. Wrote(new)
    BY <1>3, IdleFacts DEF Wrote
  <1>5. Moves(s)
    BY <1>2, <1>4 DEF Moves
  <1> HIDE DEF Running
  <1> QED
    BY <1>1, <1>2, <1>5 DEF Opens

LEMMA RequestShape ==
    ASSUME Typed, NEW s \in Sessions, Request(s)
    PROVE  Opens(s)
  <1> DEFINE rowOf(n) == [code |-> None, ids |-> NoAsset.ids, name |-> n, fault |-> "none"]
             Asked(new) == /\ new \in TxType /\ Begin(s, new) /\ Carries(new) /\ new.mine = Idle.mine
                           /\ new.save = Idle.save /\ new.named = {} /\ new.count = NoCount
                           /\ new.pc = "write" => asset[new.target].state # "absent"
                           /\ new.kind # "job"
                           /\ Keeping /\ UNCHANGED job /\ UNCHANGED overlapped
  <1>0. \A new : Asked(new) => Opens(s)
    <2> SUFFICES ASSUME NEW new, Asked(new) PROVE Opens(s)
      OBVIOUS
    <2> QED
      BY OpensShape
  <1>1. \A new : Ask(s, new) => /\ Begin(s, new)
                                /\ Keeping /\ UNCHANGED job /\ UNCHANGED overlapped
    BY DEF Ask, Keeping, committed
  <1>2. \A n \in Names \cup {None} : rowOf(n) \in Row
    BY DEF Row, NoAsset, Given
  <1>3. \A row \in Row : <<row>> \in Seq(Row) /\ <<row>> # <<>> /\ Head(<<row>>) = row
    OBVIOUS
  <1> HIDE DEF rowOf
  <1>4. CASE \E rows \in Imports : BeginImport(s, rows)
    <2>1. PICK rows \in Imports : BeginImport(s, rows)
      BY <1>4
    <2> DEFINE p == IF rows = <<>> THEN "end" ELSE "row"
               new == [Idle EXCEPT !.pc = p, !.kind = "import", !.todo = rows]
    <2>2. Ask(s, new) /\ p \in {"row", "end"} /\ (p = "row" => rows # <<>>)
      BY <2>1 DEF BeginImport
    <2> HIDE DEF p
    <2>3. rows \in Seq(Row)
      BY RowAssumption
    <2>4. /\ new \in TxType /\ new.mine = Idle.mine /\ new.save = Idle.save /\ new.named = {}
          /\ new.count = NoCount /\ new.kind = "import" /\ new.todo = rows
          /\ new.pc = p
      BY <2>2, <2>3, IdleFacts DEF TxType, Idle
    <2> HIDE DEF new
    <2>5. Carries(new)
      BY <2>2, <2>4 DEF Carries
    <2>6. Asked(new)
      BY <1>1, <2>2, <2>4, <2>5
    <2> QED
      BY <1>0, <2>6
  <1>5. CASE \E row \in Payloads : BeginCreate(s, row)
    <2>1. PICK row \in Payloads : BeginCreate(s, row)
      BY <1>5
    <2> DEFINE new == [Idle EXCEPT !.pc = "row", !.kind = "create", !.todo = <<row>>]
    <2>2. Ask(s, new)
      BY <2>1 DEF BeginCreate
    <2>3. <<row>> \in Seq(Row) /\ <<row>> # <<>>
      BY <1>3, RowAssumption
    <2>4. /\ new \in TxType /\ new.mine = Idle.mine /\ new.save = Idle.save /\ new.named = {}
          /\ new.count = NoCount /\ new.kind = "create" /\ new.todo = <<row>> /\ new.pc = "row"
      BY <2>3, IdleFacts DEF TxType, Idle
    <2> HIDE DEF new
    <2>5. Carries(new)
      BY <2>3, <2>4 DEF Carries
    <2>6. Asked(new)
      BY <1>1, <2>2, <2>4, <2>5
    <2> QED
      BY <1>0, <2>6
  <1>6. CASE \E a \in Assets : BeginDelete(s, a) \/ \E row \in Payloads : BeginUpdate(s, a, row)
    <2>1. PICK a \in Assets : BeginDelete(s, a) \/ \E row \in Payloads : BeginUpdate(s, a, row)
      BY <1>6
    <2>2. PICK k \in {"delete", "update"}, p \in {"get", "write"}, row \in Row :
              /\ asset[a].state = "live"
              /\ Ask(s, [Idle EXCEPT !.pc = p, !.kind = k, !.todo = <<row>>,
                                     !.target = a, !.read = asset[a]])
      <3>1. CASE BeginDelete(s, a)
        <4>1. asset[a].state = "live"
              /\ Ask(s, [Idle EXCEPT !.pc = "write", !.kind = "delete", !.todo = <<rowOf(None)>>,
                                     !.target = a, !.read = asset[a]])
          <5>1. [Idle EXCEPT !.pc = "write", !.kind = "delete", !.target = a, !.read = asset[a],
                             !.todo = <<rowOf(None)>>]
                 = [Idle EXCEPT !.pc = "write", !.kind = "delete", !.todo = <<rowOf(None)>>,
                                !.target = a, !.read = asset[a]]
            BY DEF Idle
          <5> QED
            BY <3>1, <5>1, Zenon DEF BeginDelete, rowOf
        <4> QED
          BY <1>2, <4>1
      <3>2. CASE \E row \in Payloads : BeginUpdate(s, a, row)
        BY <3>2, RowAssumption DEF BeginUpdate
      <3> QED
        BY <2>1, <3>1, <3>2
    <2> DEFINE new == [Idle EXCEPT !.pc = p, !.kind = k, !.todo = <<row>>,
                                   !.target = a, !.read = asset[a]]
    <2>3. <<row>> \in Seq(Row) /\ <<row>> # <<>> /\ asset[a] \in AssetRow
      BY <1>3 DEF Typed
    <2>4. /\ new \in TxType /\ new.mine = Idle.mine /\ new.save = Idle.save /\ new.named = {}
          /\ new.count = NoCount /\ new.kind = k /\ new.todo = <<row>> /\ new.pc = p
          /\ new.target = a
      BY <2>3, IdleFacts DEF TxType, Idle
    <2>5. Ask(s, new)
      BY <2>2
    <2> HIDE DEF new
    <2>6. Carries(new)
      BY <2>3, <2>4 DEF Carries
    <2>7. asset[a].state # "absent"
      BY <2>2
    <2>8. Asked(new)
      BY <1>1, <2>4, <2>5, <2>6, <2>7
    <2> QED
      BY <1>0, <2>8
  <1>7. CASE \E n \in Names : BeginCatalog(s, n)
    <2>1. PICK n \in Names : BeginCatalog(s, n)
      BY <1>7
    <2> DEFINE new == [Idle EXCEPT !.pc = "name", !.kind = "catalog", !.todo = <<rowOf(n)>>]
    <2>2. Ask(s, new) /\ n # None
      BY <2>1, CatalogAssumption DEF BeginCatalog, rowOf
    <2>3. /\ <<rowOf(n)>> \in Seq(Row) /\ <<rowOf(n)>> # <<>> /\ Head(<<rowOf(n)>>) = rowOf(n)
          /\ rowOf(n).name = n
      BY <1>2, <1>3 DEF rowOf
    <2>4. /\ new \in TxType /\ new.mine = Idle.mine /\ new.save = Idle.save /\ new.named = {}
          /\ new.count = NoCount /\ new.kind = "catalog" /\ new.todo = <<rowOf(n)>>
          /\ new.pc = "name"
      BY <2>3, IdleFacts DEF TxType, Idle
    <2> HIDE DEF new
    <2>5. Carries(new)
      BY <2>2, <2>3, <2>4 DEF Carries
    <2>6. Asked(new)
      BY <1>1, <2>2, <2>4, <2>5
    <2> QED
      BY <1>0, <2>6
  <1>8. CASE \E j \in Jobs : BeginCancel(s, j)
    <2>1. PICK j \in Jobs : BeginCancel(s, j)
      BY <1>8
    <2> DEFINE new == [Idle EXCEPT !.pc = "cancel", !.kind = "cancel", !.job = j]
    <2>2. Ask(s, new)
      BY <2>1 DEF BeginCancel
    <2>4. /\ new \in TxType /\ new.mine = Idle.mine /\ new.save = Idle.save /\ new.named = {}
          /\ new.count = NoCount /\ new.kind = "cancel" /\ new.job = j /\ new.pc = "cancel"
      BY IdleFacts DEF TxType, Idle
    <2> HIDE DEF new
    <2>5. Carries(new)
      BY <2>4 DEF Carries
    <2>6. Asked(new)
      BY <1>1, <2>2, <2>4, <2>5
    <2> QED
      BY <1>0, <2>6
  <1> QED
    BY <1>4, <1>5, <1>6, <1>7, <1>8 DEF Request

\* A step that only moves the transaction on, with what it has written as it was.
LEMMA ReadsShape ==
    ASSUME Typed, NEW s \in Sessions, NEW new \in TxType, tx' = [tx EXCEPT ![s] = new],
           UNCHANGED <<committed, disturbed, overlapped>>, Carries(new), Wrote(new),
           new.kind = tx[s].kind, new.job = tx[s].job, new.seen = tx[s].seen,
           new.mine = tx[s].mine, new.named = tx[s].named,
           new.count.created = tx[s].count.created, new.pc = "write" => LookUpAsset(s) \/ Seen(s, new.target).state = "live"
    PROVE  Reads(s)
  <1>1. tx'[s] = new /\ tx' = [tx EXCEPT ![s] = tx'[s]]
    BY DEF Typed
  <1>2. Keeping /\ UNCHANGED job
    BY DEF Keeping, committed
  <1> QED
    BY <1>1, <1>2 DEF Reads, Moves, SameTask

LEMMA RejectShape ==
    ASSUME Typed, NEW s \in Sessions, RejectRow(s)
    PROVE  Reads(s) \/ Drops(s)
  <1>0. /\ tx[s] \in TxType /\ Carries(tx[s]) /\ Wrote(tx[s]) /\ tx[s].count \in Count
        /\ tx[s].pc = "row"
    BY TxFacts DEF RejectRow
  <1>1. tx[s].todo # <<>>
    BY <1>0 DEF Carries
  <1>2. CASE tx[s].kind = "job"
    <2> DEFINE new == NextRow(tx[s], "failed", {})
    <2>1. tx' = [tx EXCEPT ![s] = new] /\ UNCHANGED <<committed, disturbed, overlapped>>
      BY <1>2 DEF RejectRow
    <2>2. new \in TxType /\ new.pc \in {"row", "end"}
      BY <1>0, <1>1, NextRowFacts
    <2>3. /\ \A a \in Assets : tx[s].mine[a] # None => tx[s].mine[a].state # "absent"
          /\ tx[s].named = {} /\ tx[s].job \in Jobs
      BY <1>0, <1>2 DEF Wrote, Carries
    <2>4. Carries(new) /\ Wrote(new)
      BY <1>0, <1>1, <1>2, <2>3, NextRowKept
    <2>5. /\ new.kind = tx[s].kind /\ new.job = tx[s].job /\ new.seen = tx[s].seen
          /\ new.mine = tx[s].mine /\ new.named = tx[s].named
          /\ new.count.created = tx[s].count.created
      BY <1>0 DEF NextRow, TxType, Count
    <2> HIDE DEF new
    <2> QED
      BY <2>1, <2>2, <2>4, <2>5, ReadsShape
  <1>3. CASE tx[s].kind # "job"
    <2>1. Fail(s)
      BY <1>3 DEF RejectRow
    <2> QED
      BY <1>1, <2>1, FailShape
  <1> QED
    BY <1>2, <1>3

LEMMA LookUpNameShape ==
    ASSUME Typed, NEW s \in Sessions, LookUpName(s)
    PROVE  Reads(s)
  <1> DEFINE new == [tx[s] EXCEPT !.pc = "name"]
  <1>0. tx[s] \in TxType /\ Carries(tx[s]) /\ Wrote(tx[s]) /\ tx[s].pc = "row" /\ tx[s].kind = "import"
    BY TxFacts DEF LookUpName
  <1>1. tx' = [tx EXCEPT ![s] = new] /\ UNCHANGED <<committed, disturbed, overlapped>>
    BY DEF LookUpName
  <1>2. tx[s].todo # <<>> /\ Head(tx[s].todo) \in Row
    BY <1>0, TxFacts DEF Carries
  <1>3. Head(tx[s].todo).name \in Names \ {None}
    BY <1>2 DEF LookUpName, Known, Row
  <1>4. /\ new \in TxType /\ new.pc = "name" /\ new.kind = "import" /\ new.job = tx[s].job
        /\ new.seen = tx[s].seen /\ new.mine = tx[s].mine /\ new.named = tx[s].named
        /\ new.save = tx[s].save /\ new.good = tx[s].good /\ new.todo = tx[s].todo
        /\ new.count = tx[s].count
    BY <1>0 DEF TxType
  <1> HIDE DEF new
  <1>5. Carries(new)
    BY <1>2, <1>3, <1>4 DEF Carries
  <1>6. Wrote(new)
    BY <1>0, <1>4 DEF Wrote
  <1> QED
    BY <1>0, <1>1, <1>4, <1>5, <1>6, ReadsShape

LEMMA InsertNameShape ==
    ASSUME Typed, NEW s \in Sessions, InsertName(s)
    PROVE  Reads(s) \/ Inserts(s) \/ Drops(s)
  <1> DEFINE n == Head(tx[s].todo).name
             new == [tx[s] EXCEPT !.named = @ \cup {n},
                                  !.pc = IF tx[s].kind = "catalog" THEN "end" ELSE "row",
                                  !.good = IF tx[s].kind = "catalog" THEN {n} ELSE @]
  <1>0. tx[s] \in TxType /\ Carries(tx[s]) /\ Wrote(tx[s]) /\ tx[s].pc = "name"
    BY TxFacts DEF InsertName
  <1>1. tx[s].todo # <<>> /\ n \in Names \ {None} /\ tx[s].kind \in {"import", "catalog"}
    BY <1>0 DEF Carries
  <1>2. CASE Constrained(n) /\ catalog[n] > 0
    <2>1. Fail(s)
      BY <1>2 DEF InsertName
    <2> QED
      BY <1>1, <2>1, FailShape
  <1>3. CASE ~(Constrained(n) /\ catalog[n] > 0)
    <2>1. tx' = [tx EXCEPT ![s].named = @ \cup {n},
                           ![s].pc = IF tx[s].kind = "catalog" THEN "end" ELSE "row",
                           ![s].good = IF tx[s].kind = "catalog" THEN {n} ELSE @]
          /\ UNCHANGED <<committed, disturbed, overlapped>>
      BY <1>3, Zenon DEF InsertName
    <2>2. tx'[s] = new /\ tx' = [tx EXCEPT ![s] = tx'[s]]
      BY <1>0, <2>1 DEF Typed
    <2>3. /\ new \in TxType /\ new.kind = tx[s].kind /\ new.job = tx[s].job
          /\ new.seen = tx[s].seen /\ new.mine = tx[s].mine /\ new.named = tx[s].named \cup {n}
          /\ new.save = tx[s].save /\ new.todo = tx[s].todo /\ new.count = tx[s].count
          /\ new.pc = (IF tx[s].kind = "catalog" THEN "end" ELSE "row")
          /\ new.good = (IF tx[s].kind = "catalog" THEN {n} ELSE tx[s].good)
      BY <1>0, <1>1 DEF TxType
    <2>4. n \in Unique => catalog[n] = 0 /\ \A t \in Sessions \ {s} : n \notin tx[t].named
      <3>1. \A t \in Sessions \ {s} : ~HoldsName(t, n)
        BY <1>0 DEF InsertName, Holders
      <3>2. catalog[n] \in Nat
        BY <1>1 DEF Typed
      <3> QED
        BY <1>3, <3>1, <3>2 DEF HoldsName, Constrained
    <2>5. Keeping /\ UNCHANGED job
      BY <2>1 DEF Keeping, committed
    <2> HIDE DEF new
    <2>6. Carries(new)
      BY <1>0, <1>1, <2>3 DEF Carries
    <2>7. Wrote(new)
      BY <1>0, <1>1, <2>3 DEF Wrote, Carries
    <2>8. new.pc # "write"
      BY <2>3
    <2> QED
      BY <1>1, <2>1, <2>2, <2>3, <2>4, <2>5, <2>6, <2>7, <2>8 DEF Inserts, Moves, SameTask
  <1> QED
    BY <1>2, <1>3

LEMMA LookUpAssetShape ==
    ASSUME Typed, NEW s \in Sessions, LookUpAsset(s)
    PROVE  Reads(s) \/ Drops(s)
  <1>0. /\ tx[s] \in TxType /\ Carries(tx[s]) /\ Wrote(tx[s]) /\ tx[s].count \in Count
        /\ tx[s].pc = "row" /\ \A a \in Assets : Seen(s, a) \in AssetRow
    BY TxFacts DEF LookUpAsset
  <1>1. tx[s].todo # <<>>
    BY <1>0 DEF Carries
  <1>2. Fail(s) \/ \E a \in Assets, p \in {"get", "write"} :
                      /\ tx' = [tx EXCEPT ![s].pc = p, ![s].target = a,
                                          ![s].read = Seen(s, a)]
                      /\ UNCHANGED <<committed, requests, disturbed, overlapped, lost>>
    <2>1. /\ {a \in Live(s) : Seen(s, a).code = Head(tx[s].todo).code} \subseteq Assets
          /\ Duplicates(s, Head(tx[s].todo).ids) \subseteq Assets
          /\ Fresh(s) # {} => (CHOOSE a \in Fresh(s) : TRUE) \in Assets
      BY DEF Live, Duplicates, Fresh
    <2> HIDE DEF Duplicates, Fresh, Live
    <2> QED
      BY <2>1, Zenon DEF LookUpAsset
  <1>3. CASE Fail(s)
    BY <1>1, <1>3, FailShape
  <1>4. ASSUME NEW a \in Assets, NEW p \in {"get", "write"},
               tx' = [tx EXCEPT ![s].pc = p, ![s].target = a, ![s].read = Seen(s, a)],
               UNCHANGED <<committed, requests, disturbed, overlapped, lost>>
        PROVE  Reads(s)
    <2> DEFINE new == [tx[s] EXCEPT !.pc = p, !.target = a, !.read = Seen(s, a)]
    <2>1. tx' = [tx EXCEPT ![s] = new]
      BY <1>4 DEF Typed, TxType
    <2>2. /\ new \in TxType /\ new.pc = p /\ new.kind = tx[s].kind /\ new.job = tx[s].job
          /\ new.seen = tx[s].seen /\ new.mine = tx[s].mine /\ new.named = tx[s].named
          /\ new.save = tx[s].save /\ new.good = tx[s].good /\ new.todo = tx[s].todo
          /\ new.count = tx[s].count /\ new.target = a
      BY <1>0 DEF TxType
    <2> HIDE DEF new
    <2>3. Carries(new)
      BY <1>0, <1>1, <2>2 DEF Carries
    <2>4. Wrote(new)
      BY <1>0, <2>2 DEF Wrote
    <2> HIDE DEF LookUpAsset
    <2> QED
      BY <1>0, <1>4, <2>1, <2>2, <2>3, <2>4, ReadsShape
  <1> QED
    BY <1>2, <1>3, <1>4

LEMMA GetAssetShape ==
    ASSUME Typed, NEW s \in Sessions, GetAsset(s)
    PROVE  Reads(s) \/ Drops(s)
  <1> DEFINE new == [tx[s] EXCEPT !.pc = "write"]
  <1>0. tx[s] \in TxType /\ Carries(tx[s]) /\ Wrote(tx[s]) /\ tx[s].pc = "get"
    BY TxFacts DEF GetAsset
  <1>1. tx[s].todo # <<>> /\ tx[s].target \in Assets
    BY <1>0 DEF Carries
  <1>2. CASE tx[s].target \in Live(s)
    <2>1. tx' = [tx EXCEPT ![s] = new] /\ UNCHANGED <<committed, disturbed, overlapped>>
      BY <1>2 DEF GetAsset
    <2>2. /\ new \in TxType /\ new.pc = "write" /\ new.kind = tx[s].kind /\ new.job = tx[s].job
          /\ new.seen = tx[s].seen /\ new.mine = tx[s].mine /\ new.named = tx[s].named
          /\ new.save = tx[s].save /\ new.good = tx[s].good /\ new.todo = tx[s].todo
          /\ new.count = tx[s].count /\ new.target = tx[s].target
      BY <1>0 DEF TxType
    <2> HIDE DEF new
    <2>3. Carries(new)
      BY <1>0, <1>1, <2>2 DEF Carries
    <2>4. Wrote(new)
      BY <1>0, <2>2 DEF Wrote
    <2>5. Seen(s, new.target).state = "live"
      BY <1>2, <2>2 DEF Live
    <2> QED
      BY <2>1, <2>2, <2>3, <2>4, <2>5, ReadsShape
  <1>3. CASE tx[s].target \notin Live(s)
    <2>1. Fail(s)
      BY <1>3 DEF GetAsset
    <2> QED
      BY <1>1, <2>1, FailShape
  <1> QED
    BY <1>2, <1>3

\* The row that a transaction waits for is nobody else's when it goes on.
LEMMA WriteShape ==
    ASSUME Typed, NEW s \in Sessions, Write(s)
    PROVE  \/ Reads(s) \/ Drops(s)
           \/ \E a, new : Updates(s, a, new) \/ Creates(s, a, new)
  <1> DEFINE row == Head(tx[s].todo)
             a == tx[s].target
             now == Seen(s, a)
             written(new, outcome) == NextRow([tx[s] EXCEPT !.mine[a] = new], outcome, {row.name})
             done(new, outcome) ==
                 /\ tx' = [tx EXCEPT ![s] = written(new, outcome)]
                 /\ UNCHANGED <<committed, requests, overlapped, lost>>
  <1>0. /\ tx[s] \in TxType /\ Carries(tx[s]) /\ Wrote(tx[s]) /\ tx[s].pc = "write"
        /\ Holders(s) = {}
    BY TxFacts DEF Write
  <1>1. tx[s].todo # <<>> /\ row \in Row /\ a \in Assets
    BY <1>0, TxFacts DEF Carries
  <1>2. now \in AssetRow
    BY <1>1, TxFacts
  <1>3. \A t \in Sessions \ {s} : tx[t].mine[a] = None
    BY <1>0 DEF Holders, HoldsAsset
  <1>4. ASSUME NEW new \in AssetRow, new.state # "absent",
               NEW outcome \in {"created", "updated"}, done(new, outcome)
        PROVE  /\ Writing(s, a, new)
               /\ tx'[s].count.created
                      = tx[s].count.created + (IF outcome = "created" THEN 1 ELSE 0)
    <2> DEFINE t == [tx[s] EXCEPT !.mine[a] = new]
               r == NextRow(t, outcome, {row.name})
    <2>1. tx' = [tx EXCEPT ![s] = r] /\ UNCHANGED <<committed, overlapped>>
      BY <1>4
    <2>2. /\ t \in TxType /\ t.mine = [tx[s].mine EXCEPT ![a] = new] /\ t.named = tx[s].named
          /\ t.todo = tx[s].todo /\ t.kind = tx[s].kind /\ t.job = tx[s].job
          /\ t.good = tx[s].good /\ t.count = tx[s].count /\ t.seen = tx[s].seen
      BY <1>0, <1>1 DEF TxType, Mine
    <2>3. {row.name} \in SUBSET (Names \cup {None})
      BY <1>1 DEF Row
    <2>4. tx[s].mine \in Mine
      BY <1>0 DEF TxType
    <2>5. \A b \in Assets : t.mine[b] # None => t.mine[b].state # "absent"
      BY <1>0, <1>1, <1>4, <2>2, <2>4 DEF Wrote, Mine
    <2>6. /\ None \notin t.named /\ (t.kind \notin {"import", "catalog"} => t.named = {})
          /\ t.named \subseteq t.good \cup {row.name} /\ (t.kind = "job" => t.job \in Jobs)
      BY <1>0, <2>2 DEF Wrote, Carries
    <2> HIDE DEF t, row
    <2>7. r \in TxType /\ r.pc \in {"row", "end"}
      BY <1>1, <2>2, <2>3, NextRowFacts
    <2>8. Carries(r) /\ Wrote(r)
      BY <1>1, <2>2, <2>3, <2>5, <2>6, NextRowKept
    <2>9. /\ r.kind = tx[s].kind /\ r.job = tx[s].job /\ r.seen = tx[s].seen
          /\ r.mine = [tx[s].mine EXCEPT ![a] = new] /\ r.named = tx[s].named
          /\ r.count.created = tx[s].count.created + (IF outcome = "created" THEN 1 ELSE 0)
      <3>1. /\ r.kind = t.kind /\ r.job = t.job /\ r.seen = t.seen
            /\ r.mine = t.mine /\ r.named = t.named
            /\ r.count = [t.count EXCEPT ![outcome] = @ + 1] /\ t.count \in Count
        BY <2>2 DEF NextRow, TxType
      <3> HIDE DEF r
      <3>2. r.count.created = t.count.created + (IF outcome = "created" THEN 1 ELSE 0)
        BY <3>1 DEF Count
      <3> QED
        BY <2>2, <3>1, <3>2
    <2> HIDE DEF r
    <2>10. tx'[s] = r /\ tx' = [tx EXCEPT ![s] = tx'[s]]
      BY <2>1 DEF Typed
    <2>11. Keeping /\ UNCHANGED job /\ UNCHANGED overlapped
      BY <2>1 DEF Keeping, committed
    <2> QED
      BY <1>1, <1>3, <1>4, <2>7, <2>8, <2>9, <2>10, <2>11 DEF Writing, Moves, SameTask
  <1>5. ASSUME now.state # "absent",
               done(IF tx[s].kind = "delete" THEN [now EXCEPT !.state = "deleted"]
                                             ELSE Updated(row, tx[s].read, now), "updated"),
               disturbed' = [disturbed EXCEPT ![s] = @ \cup {a}]
        PROVE  \E new : Updates(s, a, new)
    <2> DEFINE new == IF tx[s].kind = "delete" THEN [now EXCEPT !.state = "deleted"]
                                               ELSE Updated(row, tx[s].read, now)
    <2>1. new \in AssetRow /\ new.state # "absent" /\ new.code = now.code
      <3>1. [f \in Factors |-> IF row.ids[f] \in {None, tx[s].read.ids[f]} THEN now.ids[f]
                                                                           ELSE row.ids[f]] \in Given
        BY <1>1, <1>2 DEF Row, AssetRow, Given
      <3>2. /\ Updated(row, tx[s].read, now) \in AssetRow
            /\ Updated(row, tx[s].read, now).state = now.state
            /\ Updated(row, tx[s].read, now).code = now.code
        BY <1>2, <3>1 DEF Updated, AssetRow
      <3>3. /\ [now EXCEPT !.state = "deleted"] \in AssetRow
            /\ [now EXCEPT !.state = "deleted"].state = "deleted"
            /\ [now EXCEPT !.state = "deleted"].code = now.code
        BY <1>2 DEF AssetRow
      <3> QED
        BY <1>5, <3>2, <3>3
    <2>2. done(new, "updated")
      BY <1>5
    <2> HIDE DEF new, done
    <2>3. Writing(s, a, new) /\ tx'[s].count.created = tx[s].count.created + 0
      BY <1>4, <2>1, <2>2
    <2>4. tx'[s].count.created = tx[s].count.created
      BY <1>0, <2>3 DEF TxType, Count
    <2> QED
      BY <1>5, <2>1, <2>3, <2>4 DEF Updates
  <1>6. ASSUME now.state = "absent",
               row.code = None \/ \A b \in Assets : Seen(s, b).code # row.code,
               done([state |-> "live", code |-> row.code, ids |-> row.ids], "created"),
               UNCHANGED disturbed
        PROVE  \E new : Creates(s, a, new)
    <2> DEFINE new == [state |-> "live", code |-> row.code, ids |-> row.ids]
    <2>1. new \in AssetRow /\ new.state # "absent" /\ new.code = row.code /\ new.ids = row.ids
      BY <1>1 DEF AssetRow, Row
    <2>2. done(new, "created")
      BY <1>6
    <2> HIDE DEF new, done
    <2>3. Writing(s, a, new) /\ tx'[s].count.created = tx[s].count.created + 1
      BY <1>4, <2>1, <2>2
    <2>4. new.code # None =>
              \A b \in Assets : /\ Seen(s, b).code # new.code
                                /\ \A t \in Sessions \ {s} :
                                      tx[t].mine[b] # None /\ asset[b].state = "absent"
                                          => tx[t].mine[b].code # new.code
      BY <1>0, <1>6, <2>1 DEF Holders, HoldsCode, HoldsAsset
    <2> QED
      BY <1>0, <1>6, <2>1, <2>3, <2>4 DEF Creates
  <1>7. CASE Fail(s)
    BY <1>1, <1>7, FailShape
  <1>8. Write(s) =>
            \/ /\ now.state # "absent"
               /\ done(IF tx[s].kind = "delete" THEN [now EXCEPT !.state = "deleted"]
                                                ELSE Updated(row, tx[s].read, now), "updated")
               /\ disturbed' = [disturbed EXCEPT ![s] = @ \cup {a}]
            \/ /\ now.state = "absent"
               /\ row.code = None \/ \A b \in Assets : Seen(s, b).code # row.code
               /\ done([state |-> "live", code |-> row.code, ids |-> row.ids], "created")
               /\ UNCHANGED disturbed
            \/ Fail(s)
    BY Zenon DEF Write
  <1> HIDE DEF done, now, row, a
  <1> QED
    BY <1>5, <1>6, <1>7, <1>8, Zenon

LEMMA VictimShape ==
    ASSUME Typed, NEW s \in Sessions, Victim(s)
    PROVE  Reads(s) \/ Drops(s)
  <1>1. tx[s] \in TxType /\ Carries(tx[s])
    BY TxFacts
  <1>2. Holders(s) # {}
    BY DEF Victim
  <1>3. tx[s].pc \in {"write", "name", "start", "cancel"}
    BY <1>2 DEF Holders
  <1>4. tx[s].kind = "import" => tx[s].todo # <<>>
    BY <1>1, <1>3 DEF Carries
  <1>5. Fail(s)
    BY DEF Victim
  <1> QED
    BY <1>4, <1>5, FailShape

LEMMA CrashShape ==
    ASSUME Typed, NEW s \in Sessions, Crash(s)
    PROVE  Drops(s)
  <1>1. tx' = [tx EXCEPT ![s] = Idle] /\ UNCHANGED <<committed, disturbed, overlapped>>
    BY DEF Crash, RollBack, End
  <1>2. tx'[s] = Idle /\ tx' = [tx EXCEPT ![s] = tx'[s]]
    BY <1>1 DEF Typed
  <1> QED
    BY <1>1, <1>2, IdleFacts DEF Drops, Moves, Keeping, committed

LEMMA CancelShape ==
    ASSUME Typed, NEW s \in Sessions, Cancel(s)
    PROVE  Drops(s)
  <1>1. /\ tx' = [tx EXCEPT ![s] = Idle] /\ Keeping /\ UNCHANGED <<disturbed, overlapped>>
        /\ job' = [job EXCEPT ![tx[s].job].status = "cancelled"]
    BY DEF Cancel, End, Keeping
  <1>2. tx'[s] = Idle /\ tx' = [tx EXCEPT ![s] = tx'[s]]
    BY <1>1 DEF Typed
  <1>3. tx[s].job \in Jobs
    BY TxFacts DEF Cancel, Carries
  <1> QED
    BY <1>1, <1>2, <1>3, IdleFacts DEF Drops, Moves

LEMMA StartShape ==
    ASSUME Typed, NEW s \in Sessions, StartJob(s)
    PROVE  Reads(s)
  <1> DEFINE scope == tx[s].seen.scope
             rows == IF scope = None THEN <<>> ELSE scope
             place == IF scope \in {None, <<>>} THEN "end" ELSE "row"
             new == [tx[s] EXCEPT !.todo = rows, !.pc = place]
  <1>0. tx[s] \in TxType /\ Carries(tx[s]) /\ Wrote(tx[s]) /\ tx[s].pc = "start"
    BY TxFacts DEF StartJob
  <1>1. /\ tx' = [tx EXCEPT ![s].todo = rows, ![s].pc = place]
        /\ UNCHANGED <<committed, disturbed, overlapped>>
    BY DEF StartJob
  <1>2. rows \in Seq(Row) /\ place \in {"row", "end"} /\ (place = "row" => rows # <<>>)
    <2>1. scope \in Seq(Row) \cup {None}
      BY <1>0 DEF TxType, JobType
    <2> QED
      BY <2>1
  <1> HIDE DEF rows, place
  <1>3. tx' = [tx EXCEPT ![s] = new]
    BY <1>1 DEF Typed, TxType
  <1>4. /\ new \in TxType /\ new.pc = place /\ new.kind = tx[s].kind /\ new.job = tx[s].job
        /\ new.seen = tx[s].seen /\ new.mine = tx[s].mine /\ new.named = tx[s].named
        /\ new.save = tx[s].save /\ new.good = tx[s].good /\ new.todo = rows
        /\ new.count = tx[s].count
    BY <1>0, <1>2 DEF TxType
  <1> HIDE DEF new
  <1>5. Carries(new)
    BY <1>0, <1>2, <1>4 DEF Carries
  <1>6. tx[s].named = {}
    BY <1>0 DEF Carries, Wrote
  <1>7. Wrote(new)
    BY <1>0, <1>4, <1>6 DEF Wrote
  <1>8. new.pc # "write"
    BY <1>2, <1>4
  <1> QED
    BY <1>1, <1>3, <1>4, <1>5, <1>7, <1>8, ReadsShape

LEMMA CommitShape ==
    ASSUME Typed, NEW s \in Sessions, CommitRequest(s) \/ FinishJob(s)
    PROVE  Commits(s)
  <1>1. /\ tx[s].pc = "end" /\ Committed(s) /\ UNCHANGED overlapped
        /\ (tx[s].kind # "job" /\ UNCHANGED <<job, results>>) \/ FinishJob(s)
    BY DEF CommitRequest, FinishJob
  <1>2. tx' = [tx EXCEPT ![s] = Idle]
    BY <1>1 DEF Committed, End
  <1>3. tx'[s] = Idle /\ tx' = [tx EXCEPT ![s] = tx'[s]]
    BY <1>2 DEF Typed
  <1> QED
    BY <1>1, <1>3, IdleFacts DEF Commits, Moves

LEMMA TakeShape ==
    ASSUME Typed, Unborn, NEW s \in Sessions, NEW j \in Jobs, TakeTask(s, j)
    PROVE  Opens(s) \/ Waits
  <1> DEFINE new == [Idle EXCEPT !.pc = "start", !.kind = "job", !.job = j, !.seen = job[j]]
  <1>1. Keeping /\ UNCHANGED job
    BY DEF TakeTask, Keeping
  <1>2. CASE ~MayRun(j)
    BY <1>1, <1>2 DEF TakeTask, Waits
  <1>3. CASE MayRun(j)
    <2>1. /\ Begin(s, new)
          /\ overlapped' = IF Running(j) = {} THEN overlapped ELSE overlapped \cup {j}
      BY <1>3, Zenon DEF TakeTask
    <2>2. job[j] \in JobType
      BY DEF Typed
    <2>3. /\ new \in TxType /\ new.mine = Idle.mine /\ new.save = Idle.save /\ new.named = {}
          /\ new.count = NoCount /\ new.kind = "job" /\ new.job = j /\ new.pc = "start"
          /\ new.seen = job[j]
      BY <2>2, IdleFacts DEF TxType, Idle
    <2> HIDE DEF new
    <2>4. Carries(new)
      BY <2>3 DEF Carries
    <2>5. job[j] # NoJob
      BY DEF TakeTask, Unborn
    <2> QED
      BY <1>1, <2>1, <2>3, <2>4, <2>5, OpensShape
  <1> QED
    BY <1>2, <1>3

LEMMA EveryStep ==
    ASSUME Typed, Unborn, [Next]_vars
    PROVE  Waits \/ \E s \in Sessions : Step(s)
  <1>1. ASSUME NEW s \in Sessions, Request(s) PROVE Step(s)
    BY <1>1, RequestShape DEF Step
  <1>2. ASSUME NEW s \in Sessions, Work(s) PROVE Step(s)
    <2>1. CASE RejectRow(s)
      BY <2>1, RejectShape DEF Step
    <2>2. CASE LookUpName(s)
      BY <2>2, LookUpNameShape DEF Step
    <2>3. CASE InsertName(s)
      BY <2>3, InsertNameShape DEF Step
    <2>4. CASE LookUpAsset(s)
      BY <2>4, LookUpAssetShape DEF Step
    <2>5. CASE Write(s)
      BY <2>5, WriteShape DEF Step
    <2>11. CASE GetAsset(s)
      BY <2>11, GetAssetShape DEF Step
    <2>6. CASE Victim(s)
      BY <2>6, VictimShape DEF Step
    <2>7. CASE CommitRequest(s)
      BY <2>7, CommitShape DEF Step
    <2>8. CASE StartJob(s)
      BY <2>8, StartShape DEF Step
    <2>9. CASE FinishJob(s)
      BY <2>9, CommitShape DEF Step
    <2>10. CASE Cancel(s)
      BY <2>10, CancelShape DEF Step
    <2> QED
      BY <1>2, <2>1, <2>2, <2>3, <2>4, <2>5, <2>6, <2>7, <2>8, <2>9, <2>10, <2>11 DEF Work
  <1>3. ASSUME NEW s \in Sessions, Crash(s) PROVE Step(s)
    BY <1>3, CrashShape DEF Step
  <1>4. ASSUME NEW s \in Sessions, NEW j \in Jobs, TakeTask(s, j) PROVE Step(s) \/ Waits
    BY <1>4, TakeShape DEF Step
  <1>5. ASSUME NEW j \in Jobs, Redeliver(j) \/ \E scope \in Scopes : CreateJob(j, scope)
        PROVE  Waits
    BY <1>5 DEF Redeliver, CreateJob, Waits, Keeping
  <1>6. CASE UNCHANGED vars
    BY <1>6 DEF vars, Waits, Keeping
  <1> QED
    BY <1>1, <1>2, <1>3, <1>4, <1>5, <1>6 DEF Next

-----------------------------------------------------------------------------
(***************************************************************************)
(* Types, and what the steps of a transaction leave to the others.         *)
(***************************************************************************)

LEMMA MovesFacts ==
    ASSUME Typed, NEW s \in Sessions, Moves(s)
    PROVE  /\ \A t \in Sessions \ {s} : tx'[t] = tx[t]
           /\ tx' \in [Sessions -> TxType]
           /\ \A t \in Sessions : Carries(tx'[t]) /\ Wrote(tx'[t])
           /\ tx'[s].mine \in Mine
  <1>1. tx' = [tx EXCEPT ![s] = tx'[s]] /\ tx'[s] \in TxType /\ Carries(tx'[s]) /\ Wrote(tx'[s])
    BY DEF Moves
  <1>2. \A t \in Sessions \ {s} : tx'[t] = tx[t]
    BY <1>1 DEF Typed
  <1>3. tx' \in [Sessions -> TxType]
    BY <1>1 DEF Typed
  <1>4. \A t \in Sessions : Carries(tx'[t]) /\ Wrote(tx'[t])
    BY <1>1, <1>2 DEF Typed
  <1> QED
    BY <1>1, <1>2, <1>3, <1>4 DEF TxType

LEMMA TalliedFacts ==
    ASSUME NEW seen \in JobType, NEW count \in Count
    PROVE  LET end == Tallied(seen, count)
           IN  /\ end \in JobType /\ end.scope = seen.scope
               /\ end.discovered = seen.discovered + count.created
               /\ end.updated = seen.updated + count.updated
               /\ end.failed = seen.failed + count.failed
  <1>1. /\ seen.discovered + count.created \in Nat /\ seen.updated + count.updated \in Nat
        /\ seen.failed + count.failed \in Nat
    BY DEF JobType, Count
  <1>2. Tallied(seen, count) = [seen EXCEPT !.discovered = seen.discovered + count.created,
                                            !.updated = seen.updated + count.updated,
                                            !.failed = seen.failed + count.failed]
    BY DEF Tallied, JobType
  <1> QED
    BY <1>1, <1>2 DEF JobType

\* What the last step of a job writes: counters that were not read as they are stay.
LEMMA FinishFacts ==
    ASSUME Typed, NEW s \in Sessions, FinishJob(s)
    PROVE  LET j == tx[s].job
               seen == tx[s].seen
               count == tx[s].count
               end == Tallied(seen, count)
               old == job[j]
           IN  /\ j \in Jobs /\ tx[s].kind = "job"
               /\ job' \in [Jobs -> JobType] /\ results' \in [Jobs -> Count]
               /\ \A i \in Jobs \ {j} : job'[i] = job[i] /\ results'[i] = results[i]
               /\ job'[j].scope = old.scope /\ job'[j].status = FinalStatus(end)
               /\ job'[j].discovered = (IF count.created = 0 THEN old.discovered ELSE end.discovered)
               /\ job'[j].updated = (IF count.updated = 0 THEN old.updated ELSE end.updated)
               /\ job'[j].failed = (IF count.failed = 0 THEN old.failed ELSE end.failed)
               /\ results'[j].created = results[j].created + count.created
               /\ results'[j].updated = results[j].updated + count.updated
               /\ results'[j].failed = results[j].failed + count.failed
                                           + (IF end.scope = None THEN 1 ELSE 0)
               /\ end.scope = seen.scope
               /\ end.discovered = seen.discovered + count.created
               /\ end.updated = seen.updated + count.updated
               /\ end.failed = seen.failed + count.failed
  <1> DEFINE j == tx[s].job
             seen == tx[s].seen
             count == tx[s].count
             end == Tallied(seen, count)
             old == job[j]
             written(f) == IF end[f] = seen[f] THEN old[f] ELSE end[f]
             row == [status |-> FinalStatus(end), scope |-> old.scope,
                     discovered |-> written("discovered"), updated |-> written("updated"),
                     failed |-> written("failed")]
             rest == [created |-> results[j].created + count.created,
                      updated |-> results[j].updated + count.updated,
                      failed |-> results[j].failed + count.failed
                                     + (IF end.scope = None THEN 1 ELSE 0)]
  <1>1. tx[s].kind = "job" /\ j \in Jobs /\ seen \in JobType /\ count \in Count /\ old \in JobType
    BY TxFacts DEF FinishJob, Carries, Typed
  <1>2. /\ end \in JobType /\ end.scope = seen.scope
        /\ end.discovered = seen.discovered + count.created
        /\ end.updated = seen.updated + count.updated
        /\ end.failed = seen.failed + count.failed
        /\ seen.discovered \in Nat /\ seen.updated \in Nat /\ seen.failed \in Nat
        /\ count.created \in Nat /\ count.updated \in Nat /\ count.failed \in Nat
    BY <1>1, TalliedFacts DEF JobType, Count
  <1> HIDE DEF end
  <1> HIDE DEF seen, count, old
  <1>3. /\ written("discovered") = (IF count.created = 0 THEN old.discovered ELSE end.discovered)
        /\ written("updated") = (IF count.updated = 0 THEN old.updated ELSE end.updated)
        /\ written("failed") = (IF count.failed = 0 THEN old.failed ELSE end.failed)
    <2>1. written("discovered") = (IF count.created = 0 THEN old.discovered ELSE end.discovered)
      BY <1>1, <1>2 DEF JobType, Count
    <2>2. written("updated") = (IF count.updated = 0 THEN old.updated ELSE end.updated)
      BY <1>1, <1>2 DEF JobType, Count
    <2>3. written("failed") = (IF count.failed = 0 THEN old.failed ELSE end.failed)
      BY <1>1, <1>2 DEF JobType, Count
    <2> QED
      BY <2>1, <2>2, <2>3
  <1>4. FinalStatus(end) \in JobStatus
    BY DEF FinalStatus, JobStatus, Cancellable
  <1>5. row \in JobType
    <2>1. /\ written("discovered") \in Nat /\ written("updated") \in Nat
          /\ written("failed") \in Nat /\ old.scope \in Seq(Row) \cup {None}
      BY <1>1, <1>2, <1>3 DEF JobType
    <2> HIDE DEF written
    <2> QED
      BY <1>4, <2>1 DEF JobType
  <1>6. results[j] \in Count /\ rest \in Count
    BY <1>1 DEF Typed, Count
  <1>7. job' = [job EXCEPT ![j] = row] /\ results' = [results EXCEPT ![j] = rest]
    BY Zenon DEF FinishJob, seen, count, old, end
  <1>8. /\ row.scope = old.scope /\ row.status = FinalStatus(end)
        /\ row.discovered = written("discovered") /\ row.updated = written("updated")
        /\ row.failed = written("failed")
        /\ rest.created = results[j].created + count.created
        /\ rest.updated = results[j].updated + count.updated
        /\ rest.failed = results[j].failed + count.failed + (IF end.scope = None THEN 1 ELSE 0)
    OBVIOUS
  <1> HIDE DEF row, rest, written, end
  <1>9. /\ job' \in [Jobs -> JobType] /\ results' \in [Jobs -> Count]
        /\ \A i \in Jobs \ {j} : job'[i] = job[i] /\ results'[i] = results[i]
        /\ job'[j] = row /\ results'[j] = rest
    BY <1>1, <1>5, <1>6, <1>7 DEF Typed
  <1> QED
    BY <1>1, <1>2, <1>3, <1>8, <1>9 DEF end, seen, count, old

LEMMA CommittedFacts ==
    ASSUME Typed, NEW s \in Sessions, Committed(s)
    PROVE  /\ asset' \in [Assets -> AssetRow]
           /\ \A a \in Assets : asset'[a] = Seen(s, a)
           /\ catalog' \in [Names -> Nat]
           /\ \A n \in Names : catalog'[n] = catalog[n] + (IF n \in tx[s].named THEN 1 ELSE 0)
           /\ disturbed' \in [Sessions -> SUBSET Assets]
           /\ \A t \in Sessions \ {s} :
                 disturbed'[t] = disturbed[t] \cup {a \in Assets : tx[s].mine[a] # None}
           /\ disturbed'[s] = disturbed[s]
           /\ answered'.created = answered.created + tx[s].count.created
           /\ answered'.names = answered.names
                  \cup (IF tx[s].kind \in {"import", "catalog"} THEN tx[s].good ELSE {})
           /\ answered' = [created |-> answered'.created, names |-> answered'.names]
           /\ answered'.created \in Nat /\ answered'.names \subseteq Names \cup {None}
  <1>0. /\ \A a \in Assets : Seen(s, a) \in AssetRow
        /\ tx[s].count.created \in Nat /\ tx[s].good \in SUBSET (Names \cup {None})
    BY TxFacts DEF Count
  <1>1. asset' \in [Assets -> AssetRow] /\ \A a \in Assets : asset'[a] = Seen(s, a)
    BY <1>0 DEF Committed
  <1>2. /\ catalog' \in [Names -> Nat]
        /\ \A n \in Names : catalog'[n] = catalog[n] + (IF n \in tx[s].named THEN 1 ELSE 0)
    BY DEF Committed, Typed
  <1>3. /\ disturbed' \in [Sessions -> SUBSET Assets]
        /\ \A t \in Sessions \ {s} :
              disturbed'[t] = disturbed[t] \cup {a \in Assets : tx[s].mine[a] # None}
        /\ disturbed'[s] = disturbed[s]
    <2>1. disturbed' = [t \in Sessions |->
                           disturbed[t] \cup {a \in Assets : t # s /\ tx[s].mine[a] # None}]
      BY DEF Committed
    <2> QED
      BY <2>1 DEF Typed
  <1>4. answered' = [created |-> answered.created + tx[s].count.created,
                     names |-> answered.names
                         \cup (IF tx[s].kind \in {"import", "catalog"} THEN tx[s].good ELSE {})]
    BY DEF Committed
  <1>5. answered.created \in Nat /\ answered.names \subseteq Names \cup {None}
    BY DEF Typed
  <1> QED
    BY <1>0, <1>1, <1>2, <1>3, <1>4, <1>5

LEMMA TypedStep ==
    ASSUME Typed, Waits \/ \E s \in Sessions : Step(s)
    PROVE  Typed'
  <1>1. CASE Waits
    <2>1. job' \in [Jobs -> JobType]
      <3>1. ASSUME NEW j \in Jobs, NEW scope \in Scopes,
                   job' = [job EXCEPT ![j].status = "queued", ![j].scope = scope]
            PROVE  job' \in [Jobs -> JobType]
        <4>1. scope \in Seq(Row) \cup {None}
          BY RowAssumption
        <4> QED
          BY <3>1, <4>1 DEF Typed, JobType, JobStatus, Cancellable
      <3> QED
        BY <1>1, <3>1 DEF Waits, Typed
    <2>2. UNCHANGED <<asset, catalog, results, answered, tx, disturbed>>
      BY <1>1 DEF Waits, Keeping
    <2> QED
      BY <2>1, <2>2 DEF Typed
  <1>2. ASSUME NEW s \in Sessions, Step(s)
        PROVE  Typed'
    <2>0. Moves(s)
      BY <1>2 DEF Step, Opens, Reads, Inserts, Drops, Commits, Updates, Creates, Writing
    <2>1. tx' \in [Sessions -> TxType] /\ \A t \in Sessions : Carries(tx'[t]) /\ Wrote(tx'[t])
      BY <2>0, MovesFacts
    <2>2. ASSUME Keeping, disturbed' \in [Sessions -> SUBSET Assets], job' \in [Jobs -> JobType]
          PROVE  Typed'
      BY <2>1, <2>2 DEF Typed, Keeping
    <2>3. CASE Opens(s)
      BY <2>2, <2>3 DEF Opens, Typed
    <2>4. CASE Reads(s)
      BY <2>2, <2>4 DEF Reads, Typed
    <2>5. CASE Inserts(s)
      BY <2>2, <2>5 DEF Inserts, Typed
    <2>6. CASE Drops(s)
      <3>1. job' \in [Jobs -> JobType]
        BY <2>6 DEF Drops, Typed, JobType, JobStatus
      <3> QED
        BY <2>2, <2>6, <3>1 DEF Drops, Typed
    <2>7. CASE \E a, new : Updates(s, a, new) \/ Creates(s, a, new)
      <3>1. PICK a, new : Updates(s, a, new) \/ Creates(s, a, new)
        BY <2>7
      <3>2. Keeping /\ UNCHANGED job /\ a \in Assets
        BY <3>1 DEF Updates, Creates, Writing
      <3>3. disturbed' \in [Sessions -> SUBSET Assets]
        BY <3>1, <3>2 DEF Updates, Creates, Typed
      <3> QED
        BY <2>2, <3>2, <3>3 DEF Typed
    <2>8. CASE Commits(s)
      <3>1. job' \in [Jobs -> JobType] /\ results' \in [Jobs -> Count]
        BY <2>8, FinishFacts DEF Commits, Typed
      <3> QED
        BY <2>1, <2>8, <3>1, CommittedFacts DEF Commits, Typed
    <2> QED
      BY <1>2, <2>3, <2>4, <2>5, <2>6, <2>7, <2>8 DEF Step
  <1> QED
    BY <1>1, <1>2

\* What a step does to the uncommitted writes, by its shape.
LEMMA MineStep ==
    ASSUME Typed, NEW s \in Sessions, Step(s)
    PROVE  /\ \A t \in Sessions \ {s} : tx'[t] = tx[t]
           /\ \/ /\ Opens(s) \/ Drops(s) \/ Commits(s)
                 /\ tx'[s].named = {} /\ \A a \in Assets : tx'[s].mine[a] = None
              \/ Reads(s) /\ tx'[s].mine = tx[s].mine /\ tx'[s].named \subseteq tx[s].named
              \/ Inserts(s) /\ tx'[s].mine = tx[s].mine
              \/ /\ tx'[s].named = tx[s].named
                 /\ \E a \in Assets, new \in AssetRow :
                       /\ Updates(s, a, new) \/ Creates(s, a, new)
                       /\ new.state # "absent"
                       /\ \A t \in Sessions \ {s} : tx[t].mine[a] = None
                       /\ tx'[s].mine[a] = new
                       /\ \A b \in Assets \ {a} : tx'[s].mine[b] = tx[s].mine[b]
  <1>1. Moves(s)
    BY DEF Step, Opens, Reads, Inserts, Drops, Commits, Updates, Creates, Writing
  <1>2. \A t \in Sessions \ {s} : tx'[t] = tx[t]
    BY <1>1, MovesFacts
  <1>3. CASE Opens(s) \/ Drops(s) \/ Commits(s)
    <2>1. tx'[s].named = {} /\ tx'[s].mine = Idle.mine
      BY <1>3, IdleFacts DEF Opens, Drops, Commits
    <2> QED
      BY <1>2, <1>3, <2>1, IdleFacts
  <1>4. CASE Reads(s)
    BY <1>2, <1>4 DEF Reads
  <1>5. CASE Inserts(s)
    BY <1>2, <1>5 DEF Inserts
  <1>6. CASE \E a, new : Updates(s, a, new) \/ Creates(s, a, new)
    <2>1. PICK a, new : Updates(s, a, new) \/ Creates(s, a, new)
      BY <1>6
    <2>2. Writing(s, a, new)
      BY <2>1 DEF Updates, Creates
    <2>3. tx[s].mine \in Mine
      BY TxFacts
    <2>4. /\ a \in Assets /\ new \in AssetRow /\ new.state # "absent"
          /\ tx'[s].named = tx[s].named
          /\ \A t \in Sessions \ {s} : tx[t].mine[a] = None
          /\ tx'[s].mine[a] = new
          /\ \A b \in Assets \ {a} : tx'[s].mine[b] = tx[s].mine[b]
      BY <2>2, <2>3 DEF Writing, Mine
    <2> QED
      BY <1>2, <2>1, <2>4
  <1> QED
    BY <1>3, <1>4, <1>5, <1>6 DEF Step

LEMMA ExclusiveStep ==
    ASSUME Typed, Exclusive, Waits \/ \E s \in Sessions : Step(s)
    PROVE  Exclusive'
  <1>1. CASE Waits
    BY <1>1 DEF Waits, Exclusive
  <1>2. ASSUME NEW s \in Sessions, Step(s) PROVE Exclusive'
    <2>1. \A t \in Sessions \ {s} : tx'[t] = tx[t]
      BY <1>2, MineStep
    <2>2. \A t \in Sessions \ {s}, a \in Assets : tx'[s].mine[a] = None \/ tx[t].mine[a] = None
      BY <1>2, MineStep DEF Exclusive
    <2>3. \A t \in Sessions \ {s} : tx'[s].named \cap tx[t].named \cap Unique = {}
      <3>1. CASE tx'[s].named \subseteq tx[s].named
        BY <3>1 DEF Exclusive
      <3>2. CASE Inserts(s)
        BY <3>2 DEF Inserts, Exclusive
      <3> QED
        BY <1>2, <3>1, <3>2, MineStep
    <2> QED
      BY <2>1, <2>2, <2>3 DEF Exclusive
  <1> QED
    BY <1>1, <1>2

LEMMA NamesStep ==
    ASSUME Typed, Exclusive, NamesOnce, Waits \/ \E s \in Sessions : Step(s)
    PROVE  NamesOnce'
  <1>1. CASE Waits
    BY <1>1 DEF Waits, Keeping, NamesOnce
  <1>2. ASSUME NEW s \in Sessions, Step(s) PROVE NamesOnce'
    <2>1. \A t \in Sessions \ {s} : tx'[t] = tx[t]
      BY <1>2, MineStep
    <2>2. CASE tx'[s].named \subseteq tx[s].named /\ UNCHANGED catalog
      BY <2>1, <2>2 DEF NamesOnce
    <2>3. CASE Inserts(s)
      BY <2>1, <2>3 DEF Inserts, Keeping, NamesOnce
    <2>4. CASE Commits(s)
      <3>1. \A n \in Names : catalog[n] \in Nat /\ catalog'[n] = catalog[n] + (IF n \in tx[s].named THEN 1 ELSE 0)
        BY <2>4, CommittedFacts DEF Commits, Typed
      <3>2. tx'[s].named = {}
        BY <2>4, IdleFacts DEF Commits
      <3>3. \A n \in Unique : catalog'[n] <= 1
        BY <3>1, CatalogAssumption DEF NamesOnce
      <3>4. \A n \in Unique, t \in Sessions : n \in tx'[t].named => catalog'[n] = 0
        BY <2>1, <3>1, <3>2, CatalogAssumption DEF NamesOnce, Exclusive
      <3> QED
        BY <3>3, <3>4 DEF NamesOnce
    <2>5. CASE \E a, new : Updates(s, a, new) \/ Creates(s, a, new)
      <3>1. tx'[s].named = tx[s].named /\ UNCHANGED catalog
        BY <2>5 DEF Updates, Creates, Writing, Keeping
      <3> QED
        BY <2>2, <3>1
    <2>6. CASE Opens(s) \/ Drops(s) \/ Reads(s)
      <3>1. UNCHANGED catalog
        BY <2>6 DEF Opens, Drops, Reads, Keeping
      <3>2. tx'[s].named \subseteq tx[s].named
        BY <2>6, IdleFacts DEF Opens, Drops, Reads
      <3> QED
        BY <2>2, <3>1, <3>2
    <2> QED
      BY <1>2, <2>3, <2>4, <2>5, <2>6 DEF Step
  <1> QED
    BY <1>1, <1>2

LEMMA CodesStep ==
    ASSUME Typed, Exclusive, CodesApart, Waits \/ \E s \in Sessions : Step(s)
    PROVE  CodesApart'
  <1>0. /\ \A a \in Assets : asset[a].state = "absent" => asset[a].code = None
        /\ \A a, b \in Assets : a # b /\ asset[a].code # None => asset[a].code # asset[b].code
        /\ \A t \in Sessions, a \in Assets : CodeKept(t, a) /\ CodeFree(t, a)
    BY DEF CodesApart
  <1>1. CASE Waits
    BY <1>1 DEF Waits, Keeping, CodesApart, CodeKept, CodeFree
  <1>2. ASSUME NEW s \in Sessions, Step(s) PROVE CodesApart'
    <2>1. \A t \in Sessions \ {s} : tx'[t] = tx[t]
      BY <1>2, MineStep
    <2>2. CASE /\ UNCHANGED asset
               /\ \A a \in Assets : tx'[s].mine[a] = None \/ tx'[s].mine[a] = tx[s].mine[a]
      <3>1. \A t \in Sessions, a \in Assets : tx'[t].mine[a] = None \/ tx'[t].mine[a] = tx[t].mine[a]
        BY <2>1, <2>2
      <3>2. \A t \in Sessions, a \in Assets : CodeKept(t, a)'
        BY <1>0, <2>2, <3>1 DEF CodeKept
      <3>3. \A t \in Sessions, a \in Assets : CodeFree(t, a)'
        BY <1>0, <2>2, <3>1 DEF CodeFree
      <3> QED
        BY <1>0, <2>2, <3>2, <3>3 DEF CodesApart
    <2>3. ASSUME NEW a \in Assets, NEW new \in AssetRow, Updates(s, a, new) \/ Creates(s, a, new),
                 tx'[s].mine[a] = new,
                 \A b \in Assets \ {a} : tx'[s].mine[b] = tx[s].mine[b],
                 \A t \in Sessions \ {s} : tx[t].mine[a] = None
          PROVE  CodesApart'
      <3>1. UNCHANGED asset
        BY <2>3 DEF Updates, Creates, Writing, Keeping
      <3>2. CASE Updates(s, a, new)
        <4>1. new.code = Seen(s, a).code /\ Seen(s, a).state # "absent"
          BY <3>2 DEF Updates
        <4>2. \A t \in Sessions, b \in Assets : CodeKept(t, b)'
          BY <1>0, <2>1, <2>3, <3>1, <4>1 DEF CodeKept, Seen
        <4>3. \A t \in Sessions, b \in Assets : CodeFree(t, b)'
          <5> SUFFICES ASSUME NEW t \in Sessions, NEW b \in Assets, tx'[t].mine[b] # None,
                              asset[b].state = "absent", tx'[t].mine[b].code # None,
                              NEW c \in Assets \ {b}
                       PROVE  /\ asset[c].code # tx'[t].mine[b].code
                              /\ \A u \in Sessions : tx'[u].mine[c] # None =>
                                     tx'[u].mine[c].code # tx'[t].mine[b].code
            BY <3>1 DEF CodeFree
          <5>1. tx[t].mine[b] # None /\ tx'[t].mine[b].code = tx[t].mine[b].code
            BY <2>1, <2>3, <4>1 DEF Seen
          <5>2. /\ asset[c].code # tx[t].mine[b].code
                /\ \A u \in Sessions : tx[u].mine[c] # None =>
                       tx[u].mine[c].code # tx[t].mine[b].code
            BY <1>0, <5>1 DEF CodeFree
          <5>3. \A u \in Sessions : tx'[u].mine[c] # None =>
                    \/ tx[u].mine[c] # None /\ tx'[u].mine[c].code = tx[u].mine[c].code
                    \/ tx'[u].mine[c].code = asset[c].code
            BY <2>1, <2>3, <4>1 DEF Seen
          <5> QED
            BY <5>1, <5>2, <5>3
        <4> QED
          BY <1>0, <3>1, <4>2, <4>3 DEF CodesApart
      <3>3. CASE Creates(s, a, new)
        <4>1. Wrote(tx[s])
          BY TxFacts
        <4>2. tx[s].mine[a] = None /\ asset[a].state = "absent"
          BY <3>3, <4>1 DEF Creates, Seen, Wrote
        <4>3. \A t \in Sessions, b \in Assets : CodeKept(t, b)'
          BY <1>0, <2>1, <2>3, <3>1, <4>2 DEF CodeKept
        <4>4. ASSUME new.code # None, NEW b \in Assets \ {a}
              PROVE  /\ asset[b].code # new.code
                     /\ \A u \in Sessions : tx[u].mine[b] # None => tx[u].mine[b].code # new.code
          <5>1. /\ Seen(s, b).code # new.code
                /\ \A t \in Sessions \ {s} : tx[t].mine[b] # None /\ asset[b].state = "absent"
                                                => tx[t].mine[b].code # new.code
            BY <3>3, <4>4 DEF Creates
          <5>2. asset[b].code # new.code
            BY <1>0, <4>4, <5>1 DEF Seen, CodeKept
          <5> QED
            BY <1>0, <5>1, <5>2 DEF Seen, CodeKept
        <4>5. \A t \in Sessions, b \in Assets : CodeFree(t, b)'
          <5> SUFFICES ASSUME NEW t \in Sessions, NEW b \in Assets, tx'[t].mine[b] # None,
                              asset[b].state = "absent", tx'[t].mine[b].code # None,
                              NEW c \in Assets \ {b}
                       PROVE  /\ asset[c].code # tx'[t].mine[b].code
                              /\ \A u \in Sessions : tx'[u].mine[c] # None =>
                                     tx'[u].mine[c].code # tx'[t].mine[b].code
            BY <3>1 DEF CodeFree
          <5>1. CASE b = a
            <6>1. t = s /\ tx'[t].mine[b] = new
              BY <2>1, <2>3, <5>1
            <6>2. \A u \in Sessions : tx'[u].mine[c] = tx[u].mine[c]
              BY <2>1, <2>3, <5>1
            <6> QED
              BY <4>4, <5>1, <6>1, <6>2
          <5>2. CASE b # a
            <6>1. tx'[t].mine[b] = tx[t].mine[b]
              BY <2>1, <2>3, <5>2
            <6>2. /\ asset[c].code # tx[t].mine[b].code
                  /\ \A u \in Sessions : tx[u].mine[c] # None =>
                         tx[u].mine[c].code # tx[t].mine[b].code
              BY <1>0, <6>1 DEF CodeFree
            <6>3. \A u \in Sessions : tx'[u].mine[c] # None =>
                      tx'[u].mine[c] = tx[u].mine[c] \/ (c = a /\ tx'[u].mine[c] = new)
              <7>1. \A u \in Sessions \ {s} : tx'[u].mine[c] = tx[u].mine[c]
                BY <2>1
              <7>2. tx'[s].mine[c] = tx[s].mine[c] \/ (c = a /\ tx'[s].mine[c] = new)
                BY <2>3
              <7> QED
                BY <7>1, <7>2
            <6>4. c = a => new.code # tx[t].mine[b].code
              BY <4>4, <5>2, <6>1
            <6> QED
              BY <6>1, <6>2, <6>3, <6>4
          <5> QED
            BY <5>1, <5>2
        <4> QED
          BY <1>0, <3>1, <4>3, <4>5 DEF CodesApart
      <3> QED
        BY <2>3, <3>2, <3>3
    <2>4. CASE Commits(s)
      <3>1. /\ \A a \in Assets : asset'[a] = Seen(s, a)
            /\ \A a \in Assets : tx'[s].mine[a] = None
            /\ Wrote(tx[s])
        BY <2>4, CommittedFacts, IdleFacts, TxFacts DEF Commits
      <3>2. \A a \in Assets : asset'[a].state = "absent" => asset'[a].code = None
        BY <1>0, <3>1 DEF Seen, Wrote
      <3>3. \A a \in Assets : \/ asset'[a].code = asset[a].code
                              \/ /\ tx[s].mine[a] # None /\ asset[a].state = "absent"
                                 /\ asset'[a] = tx[s].mine[a]
        BY <1>0, <3>1 DEF Seen, CodeKept
      <3>4. \A a, b \in Assets : a # b /\ asset'[a].code # None => asset'[a].code # asset'[b].code
        <4> SUFFICES ASSUME NEW a \in Assets, NEW b \in Assets, a # b, asset'[a].code # None,
                            asset'[a].code = asset'[b].code
                     PROVE  FALSE
          OBVIOUS
        <4>1. CASE asset'[a].code = asset[a].code /\ asset'[b].code = asset[b].code
          BY <1>0, <4>1
        <4>2. ASSUME NEW c \in Assets, NEW d \in Assets, c # d, asset'[c].code = asset'[d].code,
                     asset'[c].code # None,
                     tx[s].mine[c] # None /\ asset[c].state = "absent" /\ asset'[c] = tx[s].mine[c]
              PROVE  FALSE
          <5>1. /\ asset[d].code # tx[s].mine[c].code
                /\ tx[s].mine[d] # None => tx[s].mine[d].code # tx[s].mine[c].code
            BY <1>0, <4>2 DEF CodeFree
          <5> QED
            BY <3>1, <4>2, <5>1 DEF Seen
        <4> QED
          BY <3>3, <4>1, <4>2
      <3>5. ASSUME NEW t \in Sessions, NEW a \in Assets, tx'[t].mine[a] # None
            PROVE  CodeKept(t, a)' /\ CodeFree(t, a)'
        <4>1. t # s /\ tx'[t] = tx[t]
          BY <2>1, <3>1, <3>5
        <4>2. tx[s].mine[a] = None /\ asset'[a] = asset[a]
          BY <3>1, <3>5, <4>1 DEF Exclusive, Seen
        <4>3. CodeKept(t, a)'
          BY <1>0, <4>1, <4>2 DEF CodeKept
        <4>4. CodeFree(t, a)'
          <5> SUFFICES ASSUME asset[a].state = "absent", tx[t].mine[a].code # None,
                              NEW c \in Assets \ {a}
                       PROVE  /\ asset'[c].code # tx[t].mine[a].code
                              /\ \A u \in Sessions : tx'[u].mine[c] # None =>
                                     tx'[u].mine[c].code # tx[t].mine[a].code
            BY <4>1, <4>2 DEF CodeFree
          <5>1. /\ asset[c].code # tx[t].mine[a].code
                /\ \A u \in Sessions : tx[u].mine[c] # None =>
                       tx[u].mine[c].code # tx[t].mine[a].code
            BY <1>0, <3>5, <4>1 DEF CodeFree
          <5> QED
            BY <2>1, <3>1, <5>1 DEF Seen
        <4> QED
          BY <4>3, <4>4
      <3>6. \A t \in Sessions, a \in Assets : CodeKept(t, a)' /\ CodeFree(t, a)'
        BY <3>5 DEF CodeKept, CodeFree
      <3> QED
        BY <3>2, <3>4, <3>6 DEF CodesApart
    <2>5. CASE Opens(s) \/ Drops(s) \/ Reads(s) \/ Inserts(s)
      <3>1. UNCHANGED asset
        BY <2>5 DEF Opens, Drops, Reads, Inserts, Keeping
      <3>2. \A a \in Assets : tx'[s].mine[a] = None \/ tx'[s].mine[a] = tx[s].mine[a]
        BY <2>5, IdleFacts DEF Opens, Drops, Reads, Inserts
      <3> QED
        BY <2>2, <3>1, <3>2
    <2>6. CASE \E a \in Assets, new \in AssetRow :
                  /\ Updates(s, a, new) \/ Creates(s, a, new)
                  /\ tx'[s].mine[a] = new
                  /\ \A b \in Assets \ {a} : tx'[s].mine[b] = tx[s].mine[b]
                  /\ \A t \in Sessions \ {s} : tx[t].mine[a] = None
      BY <2>3, <2>6
    <2> QED
      BY <1>2, <2>4, <2>5, <2>6, MineStep
  <1> QED
    BY <1>1, <1>2

-----------------------------------------------------------------------------
(***************************************************************************)
(* What was counted is what is there.                                      *)
(***************************************************************************)

LEMMA CountedStep ==
    ASSUME Typed, Exclusive, Counted, Waits \/ \E s \in Sessions : Step(s)
    PROVE  Counted'
  <1>0. /\ \A a \in DOMAIN SeedAssets : asset[a].state # "absent"
        /\ \A s \in Sessions : tx[s].count.created = Cardinality(Creating(s))
        /\ answered.created = Cardinality(Created)
        /\ \A n \in Names : catalog[n] > 0 => n \in answered.names
    BY DEF Counted, ImportWhole, Created
  <1>1. /\ \A s \in Sessions : Creating(s) \subseteq Assets /\ IsFiniteSet(Creating(s))
        /\ IsFiniteSet(Created)
    BY SeedAssumption, FS_Subset DEF Creating, Created
  <1>2. ASSUME UNCHANGED <<asset, answered, catalog>>,
               \A s \in Sessions : tx'[s].count.created = Cardinality(Creating(s)')
        PROVE  Counted'
    <2>1. Created' = Created
      BY <1>2 DEF Created
    <2> QED
      BY <1>0, <1>2, <2>1 DEF Counted, ImportWhole, Created
  <1>3. CASE Waits
    <2>1. UNCHANGED <<asset, answered, catalog, tx>>
      BY <1>3 DEF Waits, Keeping
    <2>2. \A s \in Sessions : Creating(s)' = Creating(s)
      BY <2>1 DEF Creating
    <2> QED
      BY <1>0, <1>2, <2>1, <2>2
  <1>4. ASSUME NEW s \in Sessions, Step(s) PROVE Counted'
    <2>1. \A t \in Sessions \ {s} : tx'[t] = tx[t]
      BY <1>4, MineStep
    <2>2. ASSUME Keeping, tx'[s].count.created = Cardinality(Creating(s)')
          PROVE  Counted'
      <3>1. \A t \in Sessions \ {s} : Creating(t)' = Creating(t)
        BY <2>1, <2>2 DEF Creating, Keeping
      <3>2. \A t \in Sessions : tx'[t].count.created = Cardinality(Creating(t)')
        BY <1>0, <2>1, <2>2, <3>1
      <3> QED
        BY <1>2, <2>2, <3>2 DEF Keeping
    <2>3. CASE Opens(s) \/ Drops(s)
      <3>1. Keeping /\ tx'[s].mine = Idle.mine /\ tx'[s].count = NoCount
        BY <2>3, IdleFacts DEF Opens, Drops
      <3>2. Creating(s)' = {}
        BY <3>1, IdleFacts DEF Creating
      <3> QED
        BY <2>2, <3>1, <3>2, FS_EmptySet, IdleFacts
    <2>4. CASE Reads(s) \/ Inserts(s)
      <3>1. Keeping /\ tx'[s].mine = tx[s].mine /\ tx'[s].count.created = tx[s].count.created
        BY <2>4 DEF Reads, Inserts
      <3>2. Creating(s)' = Creating(s)
        BY <3>1 DEF Creating, Keeping
      <3> QED
        BY <1>0, <2>2, <3>1, <3>2
    <2>5. ASSUME NEW a \in Assets, NEW new \in AssetRow,
                 Updates(s, a, new) \/ Creates(s, a, new), new.state # "absent",
                 tx'[s].mine[a] = new, \A b \in Assets \ {a} : tx'[s].mine[b] = tx[s].mine[b]
          PROVE  Counted'
      <3>1. Keeping /\ UNCHANGED asset /\ new # None
        BY <2>5, NoneAssumption DEF Updates, Creates, Writing, Keeping
      <3>2. CASE Updates(s, a, new)
        <4>1. Seen(s, a).state # "absent" /\ tx'[s].count.created = tx[s].count.created
          BY <3>2 DEF Updates
        <4>2. Creating(s)' = Creating(s)
          BY <2>5, <3>1, <4>1 DEF Creating, Seen
        <4> QED
          BY <1>0, <2>2, <3>1, <4>1, <4>2
      <3>3. CASE Creates(s, a, new)
        <4>1. Seen(s, a).state = "absent" /\ tx'[s].count.created = tx[s].count.created + 1
          BY <3>3 DEF Creates
        <4>2. tx[s].mine[a] = None /\ asset[a].state = "absent"
          BY <4>1, TxFacts DEF Seen, Wrote
        <4>3. Creating(s)' = Creating(s) \cup {a} /\ a \notin Creating(s)
          BY <2>5, <3>1, <4>2 DEF Creating
        <4>4. Cardinality(Creating(s) \cup {a}) = Cardinality(Creating(s)) + 1
          BY <1>1, <4>3, FS_AddElement
        <4> QED
          BY <1>0, <2>2, <3>1, <4>1, <4>3, <4>4
      <3> QED
        BY <2>5, <3>2, <3>3
    <2>6. CASE Commits(s)
      <3>1. /\ \A a \in Assets : asset'[a] = Seen(s, a)
            /\ \A a \in Assets : tx'[s].mine[a] = None
            /\ Wrote(tx[s]) /\ tx'[s] = Idle /\ tx[s].pc = "end"
        BY <2>6, CommittedFacts, IdleFacts, TxFacts DEF Commits
      <3>2. \A a \in DOMAIN SeedAssets : asset'[a].state # "absent"
        BY <1>0, <3>1, SeedAssumption DEF Seen, Wrote
      <3>3. Created' = Created \cup Creating(s) /\ Created \cap Creating(s) = {}
        BY <1>0, <3>1 DEF Created, Creating, Seen, Wrote
      <3>4. Cardinality(Created') = Cardinality(Created) + Cardinality(Creating(s))
        <4>1. /\ Cardinality(Created \cup Creating(s))
                     = Cardinality(Created) + Cardinality(Creating(s))
                          - Cardinality(Created \cap Creating(s))
              /\ Cardinality(Created) \in Nat /\ Cardinality(Creating(s)) \in Nat
          BY <1>1, FS_Union, FS_CardinalityType
        <4>2. Cardinality(Created \cap Creating(s)) = 0
          BY <3>3, FS_EmptySet
        <4>3. Cardinality(Created)' = Cardinality(Created \cup Creating(s))
          BY <3>3
        <4> QED
          BY <4>1, <4>2, <4>3
      <3>5. answered'.created = Cardinality(Created')
        BY <1>0, <2>6, <3>4, CommittedFacts DEF Commits
      <3>6. \A n \in Names : catalog'[n] > 0 => n \in answered'.names
        <4> SUFFICES ASSUME NEW n \in Names, catalog'[n] > 0 PROVE n \in answered'.names
          OBVIOUS
        <4>1. /\ catalog'[n] = catalog[n] + (IF n \in tx[s].named THEN 1 ELSE 0)
              /\ answered'.names = answered.names
                     \cup (IF tx[s].kind \in {"import", "catalog"} THEN tx[s].good ELSE {})
          BY <2>6, CommittedFacts DEF Commits
        <4>2. CASE n \in tx[s].named
          BY <3>1, <4>1, <4>2 DEF Wrote
        <4>3. CASE n \notin tx[s].named
          BY <1>0, <4>1, <4>3 DEF Typed
        <4> QED
          BY <4>2, <4>3
      <3>7. \A t \in Sessions : tx'[t].count.created = Cardinality(Creating(t)')
        <4>1. Creating(s)' = {}
          BY <3>1 DEF Creating
        <4>2. ASSUME NEW t \in Sessions \ {s} PROVE Creating(t)' = Creating(t)
          <5>1. \A a \in Assets : tx[t].mine[a] # None => asset'[a] = asset[a]
            BY <3>1, <4>2 DEF Exclusive, Seen
          <5> QED
            BY <2>1, <4>2, <5>1 DEF Creating
        <4>3. tx'[s].count.created = 0
          BY <3>1, IdleFacts
        <4> QED
          BY <1>0, <2>1, <4>1, <4>2, <4>3, FS_EmptySet
      <3> QED
        BY <3>2, <3>5, <3>6, <3>7 DEF Counted, ImportWhole, Created
    <2> QED
      BY <1>4, <2>3, <2>4, <2>5, <2>6, MineStep
  <1> QED
    BY <1>3, <1>4

LEMMA UnbornStep ==
    ASSUME Typed, Unborn, [Next]_vars
    PROVE  Unborn'
  <1>0. \A j \in Jobs : job[j] \in JobType /\ results[j] \in Count
    BY DEF Typed
  <1>1. ASSUME NEW j \in Jobs, Redeliver(j) PROVE Unborn'
    <2>1. /\ tasks[j].sent \in 1 .. (MaxDeliveries - 1) /\ UNCHANGED <<job, results, tx>>
          /\ \A i \in Jobs \ {j} : tasks'[i] = tasks[i]
          /\ tasks' = [i \in Jobs |-> tasks'[i]]
      BY <1>1 DEF Redeliver, Unborn
    <2> QED
      BY <2>1 DEF Unborn, Running
  <1>2. ASSUME NEW j \in Jobs, NEW scope \in Scopes, CreateJob(j, scope) PROVE Unborn'
    <2>1. /\ job'[j].status = "queued" /\ UNCHANGED <<results, tx>>
          /\ \A i \in Jobs \ {j} : job'[i] = job[i]
      BY <1>0, <1>2 DEF CreateJob, Typed, JobType
    <2>3. (\A i \in Jobs \ {j} : tasks'[i] = tasks[i]) /\ tasks' = [i \in Jobs |-> tasks'[i]]
      BY <1>2 DEF CreateJob, Unborn
    <2>2. job'[j] # NoJob
      BY <2>1 DEF NoJob
    <2> QED
      BY <2>1, <2>2, <2>3 DEF Unborn, Running
  <1>3. ASSUME NEW s \in Sessions, NEW j \in Jobs, TakeTask(s, j) PROVE Unborn'
    <2>1. /\ tasks[j].waiting > 0 /\ UNCHANGED <<job, results>>
          /\ \A i \in Jobs \ {j} : tasks'[i] = tasks[i]
          /\ tasks' = [i \in Jobs |-> tasks'[i]]
      BY <1>3 DEF TakeTask, Unborn
    <2>2. job[j] # NoJob
      BY <2>1 DEF Unborn
    <2>3. \A i \in Jobs \ {j} : Running(i)' \subseteq Running(i)
      <3>1. CASE UNCHANGED tx
        BY <3>1 DEF Running
      <3>2. CASE Begin(s, [Idle EXCEPT !.pc = "start", !.kind = "job", !.job = j, !.seen = job[j]])
        <4>1. tx'[s].job = j /\ \A t \in Sessions \ {s} : tx'[t] = tx[t]
          BY <3>2 DEF Begin, Typed, Idle
        <4> QED
          BY <4>1 DEF Running
      <3> QED
        BY <1>3, <3>1, <3>2, Zenon DEF TakeTask
    <2> QED
      BY <2>1, <2>2, <2>3 DEF Unborn
  <1>4. ASSUME NEW s \in Sessions, Step(s), UNCHANGED tasks,
               Opens(s) => tx'[s].kind # "job"
        PROVE  Unborn'
    <2>1. \A t \in Sessions \ {s} : tx'[t] = tx[t]
      BY <1>4, MineStep
    <2>2. \A j \in Jobs : Running(j)' \subseteq Running(j)
      <3>1. tx'[s].kind # "job" \/ (tx'[s].kind = tx[s].kind /\ tx'[s].job = tx[s].job)
        BY <1>4, IdleFacts DEF Step, Opens, Reads, Inserts, Updates, Creates, Writing, SameTask,
                               Drops, Commits
      <3> QED
        BY <2>1, <3>1 DEF Running
    <2>3. \A j \in Jobs : job'[j] = NoJob => job[j] = NoJob /\ results'[j] = results[j]
      <3>1. CASE UNCHANGED <<job, results>>
        BY <3>1
      <3>2. ASSUME NEW j \in Jobs, job' = [job EXCEPT ![j].status = "cancelled"], UNCHANGED results
            PROVE  \A i \in Jobs : job'[i] = NoJob => job[i] = NoJob /\ results'[i] = results[i]
        <4>1. job'[j].status = "cancelled" /\ \A i \in Jobs \ {j} : job'[i] = job[i]
          BY <1>0, <3>2 DEF Typed, JobType
        <4>2. job'[j] # NoJob
          BY <4>1 DEF NoJob
        <4> QED
          BY <3>2, <4>1, <4>2
      <3>3. CASE FinishJob(s)
        <4> DEFINE j == tx[s].job
        <4>1. /\ \A i \in Jobs \ {j} : job'[i] = job[i] /\ results'[i] = results[i]
              /\ job'[j].status = FinalStatus(Tallied(tx[s].seen, tx[s].count))
          BY <3>3, FinishFacts
        <4>2. job'[j].status # "none"
          BY <4>1 DEF FinalStatus
        <4>3. job'[j] # NoJob
          BY <4>2 DEF NoJob
        <4> QED
          BY <4>1, <4>3
      <3> QED
        BY <1>4, <3>1, <3>2, <3>3 DEF Step, Opens, Reads, Inserts, Updates, Creates, Writing,
                                       Drops, Commits, Keeping
    <2> QED
      BY <1>4, <2>2, <2>3 DEF Unborn
  <1>5. ASSUME NEW s \in Sessions, Request(s) PROVE Unborn'
    <2>1. Opens(s)
      BY <1>5, RequestShape
    <2>2. \E new : new.kind # "job" /\ Ask(s, new)
      BY <1>5 DEF Request, BeginImport, BeginCreate, BeginUpdate, BeginDelete, BeginCatalog,
                  BeginCancel, Idle
    <2>3. UNCHANGED tasks /\ tx'[s].kind # "job"
      BY <2>2 DEF Ask, Begin, committed, Typed
    <2> QED
      BY <1>4, <2>1, <2>3 DEF Step
  <1>6. ASSUME NEW s \in Sessions, Work(s) \/ Crash(s) PROVE Unborn'
    <2>1. UNCHANGED tasks
      BY <1>6 DEF Work, Crash, RollBack, RejectRow, Fail, LookUpName, InsertName, LookUpAsset,
                  GetAsset, Write, Victim, CommitRequest, StartJob, FinishJob, Cancel, committed
    <2>2. tx[s].pc # "idle"
      BY <1>6 DEF Work, Crash, RejectRow, LookUpName, InsertName, LookUpAsset, GetAsset,
                  Write, Victim, CommitRequest, StartJob, FinishJob, Cancel, Holders
    <2>3. ~Opens(s)
      BY <2>2, IdleFacts DEF Opens
    <2>4. Step(s)
      BY <1>6, RejectShape, LookUpNameShape, InsertNameShape, LookUpAssetShape, GetAssetShape, WriteShape,
         VictimShape, CommitShape, StartShape, CancelShape, CrashShape DEF Work, Step
    <2> QED
      BY <1>4, <2>1, <2>3, <2>4
  <1>7. CASE UNCHANGED vars
    BY <1>7 DEF vars, Unborn, Running
  <1> QED
    BY <1>1, <1>2, <1>3, <1>5, <1>6, <1>7 DEF Next

\* The parts of Tallies, for one transaction and for one job.
ReadTrue(s) ==
    tx[s].kind = "job" =>
        /\ tx[s].seen.scope = job[tx[s].job].scope
        /\ tx[s].job \notin overlapped =>
              /\ \A t \in Running(tx[s].job) : t = s
              /\ tx[s].seen.discovered = job[tx[s].job].discovered
              /\ tx[s].seen.updated = job[tx[s].job].updated
              /\ tx[s].seen.failed = job[tx[s].job].failed
Match(j) ==
    /\ job[j].discovered = results[j].created
    /\ job[j].updated = results[j].updated
    /\ job[j].scope # None => job[j].failed = results[j].failed
    /\ job[j].status = "success" => results[j].failed = 0
    /\ job[j].status = "partial" =>
           results[j].failed > 0 /\ results[j].created + results[j].updated > 0

LEMMA TalliesStep ==
    ASSUME Typed, Unborn, Tallies, Waits \/ \E s \in Sessions : Step(s)
    PROVE  Tallies'
  <1>0. /\ \A s \in Sessions : ReadTrue(s)
        /\ \A j \in Jobs \ overlapped : Match(j)
    BY DEF Tallies, CountersMatch, ReadTrue, Match
  <1>1. /\ \A j \in Jobs : job[j] \in JobType /\ results[j] \in Count
        /\ \A s \in Sessions : tx[s].kind = "job" => tx[s].job \in Jobs
        /\ \A j \in Jobs : job[j] = NoJob => results[j] = NoCount /\ Running(j) = {}
    BY TxFacts DEF Typed, Unborn, Carries
  <1>2. ASSUME \A s \in Sessions : ReadTrue(s)', \A j \in Jobs \ overlapped' : Match(j)'
        PROVE  Tallies'
    BY <1>2 DEF Tallies, CountersMatch, ReadTrue, Match
  <1>3. CASE Waits
    <2>1. UNCHANGED <<tx, results, overlapped>>
      BY <1>3 DEF Waits, Keeping
    <2>2. CASE UNCHANGED job
      BY <2>1, <2>2 DEF Tallies, CountersMatch, Running
    <2>3. ASSUME NEW j \in Jobs, NEW scope \in Scopes, job[j] = NoJob,
                 job' = [job EXCEPT ![j].status = "queued", ![j].scope = scope]
          PROVE  Tallies'
      <3>1. /\ \A i \in Jobs \ {j} : job'[i] = job[i]
            /\ job'[j].status = "queued" /\ job'[j].discovered = 0 /\ job'[j].updated = 0
            /\ job'[j].failed = 0
        BY <1>1, <2>3 DEF Typed, JobType, NoJob
      <3>2. Match(j)'
        BY <1>1, <2>1, <2>3, <3>1 DEF Match, NoCount
      <3>3. \A i \in Jobs \ overlapped' : Match(i)'
        BY <1>0, <2>1, <3>1, <3>2 DEF Match
      <3>4. \A s \in Sessions : tx[s].kind = "job" => tx[s].job # j
        BY <1>1, <2>3 DEF Running
      <3>5. \A s \in Sessions : ReadTrue(s)'
        BY <1>0, <1>1, <2>1, <3>1, <3>4 DEF ReadTrue, Running
      <3> QED
        BY <1>2, <3>3, <3>5
    <2> QED
      BY <1>3, <2>2, <2>3 DEF Waits
  <1>4. ASSUME NEW s \in Sessions, Step(s) PROVE Tallies'
    <2>1. \A t \in Sessions \ {s} : tx'[t] = tx[t]
      BY <1>4, MineStep
    <2>2. CASE SameTask(s) /\ UNCHANGED <<job, results, overlapped>>
      <3>1. \A j \in Jobs : Running(j)' = Running(j)
        BY <2>1, <2>2 DEF SameTask, Running
      <3>2. \A t \in Sessions : /\ tx'[t].kind = tx[t].kind /\ tx'[t].job = tx[t].job
                                /\ tx'[t].seen = tx[t].seen
        BY <2>1, <2>2 DEF SameTask
      <3>3. \A t \in Sessions : ReadTrue(t)'
        BY <1>0, <1>1, <2>2, <3>1, <3>2 DEF ReadTrue
      <3>4. \A j \in Jobs \ overlapped' : Match(j)'
        BY <1>0, <2>2 DEF Match
      <3> QED
        BY <1>2, <3>3, <3>4
    <2>3. CASE Opens(s)
      <3>1. UNCHANGED <<job, results>>
        BY <2>3 DEF Opens, Keeping
      <3>2. CASE tx'[s].kind # "job" /\ UNCHANGED overlapped
        <4>1. \A j : Running(j)' \subseteq Running(j)
          BY <2>1, <3>2 DEF Running
        <4>2. \A t \in Sessions : ReadTrue(t)'
          BY <1>0, <2>1, <3>1, <3>2, <4>1 DEF ReadTrue
        <4> QED
          BY <1>0, <1>2, <3>1, <3>2, <4>2 DEF Match
      <3>3. CASE /\ tx'[s].kind = "job" /\ tx'[s].seen = job[tx'[s].job]
                 /\ overlapped' = IF Running(tx'[s].job) = {} THEN overlapped
                                                             ELSE overlapped \cup {tx'[s].job}
        <4>1. overlapped \subseteq overlapped'
          BY <3>3
        <4>2. \A j : Running(j)' \subseteq Running(j) \cup {s} /\ (j # tx'[s].job => Running(j)' \subseteq Running(j))
          BY <2>1 DEF Running
        <4>3. ReadTrue(s)'
          BY <3>1, <3>3, <4>2 DEF ReadTrue
        <4>4. ASSUME NEW t \in Sessions \ {s} PROVE ReadTrue(t)'
          <5>1. CASE tx[t].kind = "job" /\ tx[t].job = tx'[s].job
            <6>1. Running(tx'[s].job) # {}
              BY <5>1 DEF Running
            <6>2. tx[t].job \in overlapped'
              BY <3>3, <5>1, <6>1
            <6> QED
              BY <1>0, <2>1, <3>1, <6>2 DEF ReadTrue
          <5>2. CASE ~(tx[t].kind = "job" /\ tx[t].job = tx'[s].job)
            BY <1>0, <2>1, <3>1, <4>1, <4>2, <5>2 DEF ReadTrue
          <5> QED
            BY <5>1, <5>2
        <4>5. \A t \in Sessions : ReadTrue(t)'
          BY <4>3, <4>4 DEF ReadTrue
        <4>6. \A j \in Jobs \ overlapped' : Match(j)'
          BY <1>0, <3>1, <4>1 DEF Match
        <4> QED
          BY <1>2, <4>5, <4>6
      <3> QED
        BY <2>3, <3>2, <3>3 DEF Opens
    <2>4. ASSUME tx'[s].kind = "none", UNCHANGED overlapped, NEW j \in Jobs,
                 \A i \in Jobs \ {j} : job'[i] = job[i] /\ results'[i] = results[i],
                 job'[j].scope = job[j].scope, j \notin overlapped => Match(j)',
                 \A t \in Sessions \ {s} : tx[t].kind = "job" /\ tx[t].job = j /\ j \notin overlapped =>
                     /\ job'[j].discovered = job[j].discovered /\ job'[j].updated = job[j].updated
                     /\ job'[j].failed = job[j].failed
          PROVE  Tallies'
      <3>1. \A i : Running(i)' \subseteq Running(i)
        BY <2>1, <2>4 DEF Running
      <3>2. \A t \in Sessions : ReadTrue(t)'
        BY <1>0, <1>1, <2>1, <2>4, <3>1 DEF ReadTrue
      <3>3. \A i \in Jobs \ overlapped' : Match(i)'
        BY <1>0, <2>4 DEF Match
      <3> QED
        BY <1>2, <3>2, <3>3
    <2>5. ASSUME tx'[s].kind = "none", UNCHANGED <<job, results, overlapped>> PROVE Tallies'
      <3>1. \A i : Running(i)' \subseteq Running(i)
        BY <2>1, <2>5 DEF Running
      <3>2. \A t \in Sessions : ReadTrue(t)'
        BY <1>0, <2>1, <2>5, <3>1 DEF ReadTrue
      <3> QED
        BY <1>0, <1>2, <2>5, <3>2 DEF Match
    <2>6. CASE Drops(s)
      <3>1. tx'[s].kind = "none" /\ UNCHANGED <<results, overlapped>>
        BY <2>6, IdleFacts DEF Drops, Keeping
      <3>2. ASSUME NEW j \in Jobs, job' = [job EXCEPT ![j].status = "cancelled"] PROVE Tallies'
        <4>1. /\ \A i \in Jobs \ {j} : job'[i] = job[i]
              /\ job'[j].scope = job[j].scope /\ job'[j].status = "cancelled"
              /\ job'[j].discovered = job[j].discovered /\ job'[j].updated = job[j].updated
              /\ job'[j].failed = job[j].failed
          BY <1>1, <3>2 DEF Typed, JobType
        <4>2. j \notin overlapped => Match(j)'
          BY <1>0, <3>1, <4>1 DEF Match
        <4> QED
          BY <2>4, <3>1, <4>1, <4>2
      <3> QED
        BY <2>5, <2>6, <3>1, <3>2 DEF Drops
    <2>7. CASE Commits(s)
      <3>1. tx'[s].kind = "none" /\ UNCHANGED overlapped
        BY <2>7, IdleFacts DEF Commits
      <3>2. CASE FinishJob(s)
        <4>0. PICK j \in Jobs, seen \in JobType, count \in Count, end \in JobType :
                  /\ j = tx[s].job /\ seen = tx[s].seen /\ count = tx[s].count
                  /\ end = Tallied(seen, count)
          BY <3>2, FinishFacts, TxFacts, TalliedFacts
        <4>1. /\ j \in Jobs /\ tx[s].kind = "job"
              /\ \A i \in Jobs \ {j} : job'[i] = job[i] /\ results'[i] = results[i]
              /\ job'[j].scope = job[j].scope
          BY <3>2, <4>0, FinishFacts
        <4>2. ASSUME j \notin overlapped PROVE Match(j)'
          <5>1. /\ job'[j].scope = job[j].scope /\ job'[j].status = FinalStatus(end)
                /\ job'[j].discovered = (IF count.created = 0 THEN job[j].discovered ELSE end.discovered)
                /\ job'[j].updated = (IF count.updated = 0 THEN job[j].updated ELSE end.updated)
                /\ job'[j].failed = (IF count.failed = 0 THEN job[j].failed ELSE end.failed)
                /\ results'[j].created = results[j].created + count.created
                /\ results'[j].updated = results[j].updated + count.updated
                /\ results'[j].failed = results[j].failed + count.failed
                                            + (IF end.scope = None THEN 1 ELSE 0)
                /\ end.scope = seen.scope
                /\ end.discovered = seen.discovered + count.created
                /\ end.updated = seen.updated + count.updated
                /\ end.failed = seen.failed + count.failed
            BY <3>2, <4>0, FinishFacts
          <5>2. /\ seen.scope = job[j].scope /\ seen.discovered = job[j].discovered
                /\ seen.updated = job[j].updated /\ seen.failed = job[j].failed
            BY <1>0, <4>0, <4>1, <4>2 DEF ReadTrue
          <5>3. /\ job[j].discovered = results[j].created /\ job[j].updated = results[j].updated
                /\ job[j].scope # None => job[j].failed = results[j].failed
            BY <1>0, <4>1, <4>2 DEF Match
          <5>4. /\ count.created \in Nat /\ count.updated \in Nat /\ count.failed \in Nat
                /\ job[j].discovered \in Nat /\ job[j].updated \in Nat /\ job[j].failed \in Nat
                /\ results[j].created \in Nat /\ results[j].updated \in Nat
                /\ results[j].failed \in Nat
            <6>1. count \in Count /\ job[j] \in JobType /\ results[j] \in Count
              BY <1>1, <4>1
            <6> QED
              BY <6>1 DEF Count, JobType
          <5>5. job'[j].discovered = results'[j].created /\ job'[j].updated = results'[j].updated
            BY <5>1, <5>2, <5>3, <5>4
          <5>6. job'[j].scope # None => /\ job'[j].failed = results'[j].failed
                                        /\ end.failed = results'[j].failed
            BY <5>1, <5>2, <5>3, <5>4
          <5>7. /\ end.discovered = results'[j].created /\ end.updated = results'[j].updated
            BY <5>1, <5>2, <5>3, <5>4
          <5>8. job'[j].status = "success" => results'[j].failed = 0
            BY <5>1, <5>2, <5>6 DEF FinalStatus
          <5>9. job'[j].status = "partial" =>
                    results'[j].failed > 0 /\ results'[j].created + results'[j].updated > 0
            <6>1. job'[j].status = "partial" => /\ end.scope # None /\ end.failed # 0
                                                /\ end.discovered + end.updated > 0
              BY <5>1 DEF FinalStatus
            <6> QED
              BY <5>1, <5>2, <5>4, <5>6, <5>7, <6>1
          <5> QED
            BY <5>5, <5>6, <5>8, <5>9 DEF Match
        <4>3. \A t \in Sessions \ {s} : ~(tx[t].kind = "job" /\ tx[t].job = j /\ j \notin overlapped)
          <5> SUFFICES ASSUME NEW t \in Sessions \ {s}, tx[t].kind = "job", tx[t].job = j,
                              j \notin overlapped
                       PROVE  FALSE
            OBVIOUS
          <5>1. t \in Running(j)
            BY DEF Running
          <5> QED
            BY <1>0, <4>0, <4>1, <5>1 DEF ReadTrue
        <4> QED
          BY <2>4, <3>1, <4>1, <4>2, <4>3
      <3>3. CASE UNCHANGED <<job, results>>
        BY <2>5, <3>1, <3>3
      <3> QED
        BY <2>7, <3>2, <3>3 DEF Commits
    <2>8. CASE Reads(s) \/ Inserts(s) \/ \E a, new : Updates(s, a, new) \/ Creates(s, a, new)
      BY <2>2, <2>8 DEF Reads, Inserts, Updates, Creates, Writing, Keeping
    <2> QED
      BY <1>4, <2>3, <2>6, <2>7, <2>8 DEF Step
  <1> QED
    BY <1>3, <1>4

-----------------------------------------------------------------------------
(***************************************************************************)
(* What is created is new.                                                 *)
(***************************************************************************)

\* The parts of LooksNew, for one transaction and two assets.
Excused(s, a, b) == a \in disturbed[s] \/ b \in disturbed[s]
MayCreate(s) ==
    tx[s].pc = "write" /\ Seen(s, tx[s].target).state = "absent" =>
        \A b \in Assets : Alike(Head(tx[s].todo).ids, s, b) => b \in disturbed[s]
IsNew(s, a) ==
    tx[s].mine[a] # None /\ asset[a].state = "absent" /\ tx[s].mine[a].state = "live" =>
        \A b \in Assets \ {a} : Alike(tx[s].mine[a].ids, s, b) => Excused(s, a, b)

LEMMA FailNotWriting ==
    ASSUME Typed, NEW s \in Sessions, Fail(s)
    PROVE  tx'[s].pc # "write"
  <1>1. CASE tx[s].kind = "import"
    <2> DEFINE t == Restored(tx[s])
    <2>1. tx'[s] = NextRow(t, "failed", {})
      BY <1>1 DEF Fail, Typed
    <2>2. t \in TxType
      BY TxFacts DEF Restored, TxType
    <2> HIDE DEF t
    <2> QED
      BY <2>1, <2>2 DEF NextRow, TxType
  <1>2. CASE tx[s].kind # "import"
    BY <1>2, IdleFacts DEF Fail, RollBack, End, Typed
  <1> QED
    BY <1>1, <1>2

\* An asset that is looked up to be created has no duplicate.
LEMMA LookedUp ==
    ASSUME Typed, NEW s \in Sessions, LookUpAsset(s), tx'[s].pc = "write"
    PROVE  /\ tx'[s].todo = tx[s].todo
           /\ Seen(s, tx'[s].target).state = "absent" =>
                  \A b \in Assets : ~Alike(Head(tx[s].todo).ids, s, b)
  <1> DEFINE row == Head(tx[s].todo)
             twins == Duplicates(s, row.ids)
  <1>1. ~Fail(s)
    BY FailNotWriting
  <1>2. \E a \in Assets, p \in {"get", "write"} :
                          /\ tx' = [tx EXCEPT ![s].pc = p, ![s].target = a,
                                              ![s].read = Seen(s, a)]
                          /\ Seen(s, a).state = "live" \/ twins = {}
    <2>1. /\ Live(s) \subseteq Assets /\ \A a \in Live(s) : Seen(s, a).state = "live"
          /\ twins \subseteq Live(s)
          /\ {a \in Live(s) : Seen(s, a).code = row.code} \subseteq Live(s)
          /\ Fresh(s) # {} => (CHOOSE a \in Fresh(s) : TRUE) \in Assets
      BY DEF Live, Duplicates, Fresh
    <2> HIDE DEF twins
    <2>2. \/ \E a \in {c \in Live(s) : Seen(s, c).code = row.code} :
                tx' = [tx EXCEPT ![s].pc = "get", ![s].target = a, ![s].read = Seen(s, a)]
          \/ \E a \in twins :
                tx' = [tx EXCEPT ![s].pc = "get", ![s].target = a, ![s].read = Seen(s, a)]
          \/ /\ twins = {} /\ Fresh(s) # {}
             /\ tx' = [tx EXCEPT ![s].pc = "write", ![s].target = CHOOSE a \in Fresh(s) : TRUE,
                                 ![s].read = Seen(s, CHOOSE a \in Fresh(s) : TRUE)]
      BY <1>1, Zenon DEF LookUpAsset, twins
    <2> QED
      BY <2>1, <2>2, Zenon
  <1>3. PICK a \in Assets, p \in {"get", "write"} :
                            /\ tx' = [tx EXCEPT ![s].pc = p, ![s].target = a,
                                                ![s].read = Seen(s, a)]
                            /\ Seen(s, a).state = "live" \/ twins = {}
    BY <1>2
  <1>4. tx'[s].todo = tx[s].todo /\ tx'[s].target = a
    BY <1>3 DEF Typed, TxType
  <1>5. twins = {} => \A b \in Assets : ~Alike(row.ids, s, b)
    BY DEF Duplicates, Live, Alike
  <1> HIDE DEF twins, row
  <1>6. Seen(s, a).state = "absent" => \A b \in Assets : ~Alike(row.ids, s, b)
    BY <1>3, <1>5
  <1> QED
    BY <1>4, <1>6 DEF row

LEMMA NewStep ==
    ASSUME Typed, Exclusive, LooksNew, Waits \/ \E s \in Sessions : Step(s)
    PROVE  LooksNew'
  <1>0. \A s \in Sessions : MayCreate(s) /\ \A a \in Assets : IsNew(s, a)
    BY DEF LooksNew, MayCreate, IsNew, Excused
  <1>1. ASSUME \A s \in Sessions : MayCreate(s)' /\ \A a \in Assets : IsNew(s, a)'
        PROVE  LooksNew'
    BY <1>1 DEF LooksNew, MayCreate, IsNew, Excused
  <1>2. CASE Waits
    BY <1>2 DEF Waits, Keeping, LooksNew, Alike, Seen
  <1>3. ASSUME NEW s \in Sessions, Step(s) PROVE LooksNew'
    <2>1. \A t \in Sessions \ {s} : tx'[t] = tx[t]
      BY <1>3, MineStep
    <2>2. ASSUME UNCHANGED asset, NEW t \in Sessions \ {s}, disturbed'[t] = disturbed[t]
          PROVE  MayCreate(t)' /\ \A a \in Assets : IsNew(t, a)'
      <3>1. \A a : Seen(t, a)' = Seen(t, a)
        BY <2>1, <2>2 DEF Seen
      <3>2. \A ids, b : Alike(ids, t, b)' <=> Alike(ids, t, b)
        BY <3>1 DEF Alike
      <3>3. MayCreate(t)'
        BY <1>0, <2>1, <2>2, <3>1, <3>2 DEF MayCreate
      <3>4. \A a \in Assets : IsNew(t, a)'
        BY <1>0, <2>1, <2>2, <3>2 DEF IsNew, Excused
      <3> QED
        BY <3>3, <3>4
    <2>3. ASSUME UNCHANGED asset, \A t \in Sessions \ {s} : disturbed'[t] = disturbed[t],
                 MayCreate(s)', \A a \in Assets : IsNew(s, a)'
          PROVE  LooksNew'
      <3>1. \A t \in Sessions \ {s} : MayCreate(t)' /\ \A a \in Assets : IsNew(t, a)'
        BY <2>2, <2>3
      <3>2. \A t \in Sessions : MayCreate(t)' /\ \A a \in Assets : IsNew(t, a)'
        BY <2>3, <3>1 DEF MayCreate, IsNew
      <3> QED
        BY <1>1, <3>2
    <2>4. CASE Opens(s) \/ Drops(s)
      <3>1. /\ UNCHANGED asset /\ \A t \in Sessions \ {s} : disturbed'[t] = disturbed[t]
            /\ \A a \in Assets : tx'[s].mine[a] = None
            /\ tx'[s].pc = "write" => /\ tx'[s].target \in Assets
                                      /\ asset[tx'[s].target].state # "absent"
        BY <2>4, IdleFacts DEF Opens, Drops, Keeping, Typed, Moves, Carries
      <3>2. MayCreate(s)'
        BY <3>1 DEF MayCreate, Seen
      <3>3. \A a \in Assets : IsNew(s, a)'
        BY <3>1 DEF IsNew
      <3> QED
        BY <2>3, <3>1, <3>2, <3>3
    <2>5. CASE Reads(s) \/ Inserts(s)
      <3>1. /\ UNCHANGED asset /\ UNCHANGED disturbed /\ tx'[s].mine = tx[s].mine
            /\ tx'[s].pc = "write" => LookUpAsset(s) \/ Seen(s, tx'[s].target).state = "live"
        BY <2>5 DEF Reads, Inserts, Keeping
      <3>2. \A a : Seen(s, a)' = Seen(s, a)
        BY <3>1 DEF Seen
      <3>3. \A ids, b : Alike(ids, s, b)' <=> Alike(ids, s, b)
        BY <3>2 DEF Alike
      <3>4. \A a \in Assets : IsNew(s, a)'
        BY <1>0, <3>1, <3>3 DEF IsNew, Excused
      <3>5. MayCreate(s)'
        <4> SUFFICES ASSUME tx'[s].pc = "write", Seen(s, tx[s].target)'.state = "absent",
                            NEW b \in Assets, Alike(Head(tx[s].todo).ids, s, b)'
                     PROVE  FALSE
          BY DEF MayCreate
        <4>2. Seen(s, tx'[s].target).state = "absent"
          BY <3>1 DEF Seen
        <4>1. /\ tx'[s].todo = tx[s].todo
              /\ Seen(s, tx'[s].target).state = "absent" =>
                     \A c \in Assets : ~Alike(Head(tx[s].todo).ids, s, c)
          BY <3>1, <4>2, LookedUp
        <4>3. Alike(Head(tx[s].todo).ids, s, b)
          BY <3>1, <4>1 DEF Alike, Seen
        <4> QED
          BY <4>1, <4>2, <4>3
      <3> QED
        BY <2>3, <3>1, <3>4, <3>5
    <2>6. ASSUME NEW a \in Assets, NEW new \in AssetRow,
                 Updates(s, a, new) \/ Creates(s, a, new), new.state # "absent",
                 tx'[s].mine[a] = new, \A b \in Assets \ {a} : tx'[s].mine[b] = tx[s].mine[b]
          PROVE  LooksNew'
      <3>1. /\ UNCHANGED asset /\ new # None
            /\ \A t \in Sessions \ {s} : disturbed'[t] = disturbed[t]
            /\ disturbed[s] \subseteq disturbed'[s]
            /\ tx'[s].pc # "write"
        BY <2>6, NoneAssumption DEF Updates, Creates, Writing, Keeping, Typed
      <3>2. \A b \in Assets \ {a} : Seen(s, b)' = Seen(s, b)
        BY <2>6, <3>1 DEF Seen
      <3>3. MayCreate(s)'
        BY <3>1 DEF MayCreate
      <3>4. ASSUME NEW c \in Assets \ {a}, NEW b \in Assets \ {a, c},
                   tx'[s].mine[c] # None, asset'[c].state = "absent", tx'[s].mine[c].state = "live",
                   Alike(tx[s].mine[c].ids, s, b)'
            PROVE  Excused(s, c, b)'
        <4>1. tx[s].mine[c] = tx'[s].mine[c] /\ Alike(tx[s].mine[c].ids, s, b)
          BY <2>6, <3>2, <3>4 DEF Alike
        <4>2. Excused(s, c, b)
          BY <1>0, <3>1, <3>4, <4>1 DEF IsNew
        <4> QED
          BY <3>1, <4>2 DEF Excused
      <3>5. CASE Updates(s, a, new)
        <4>1. a \in disturbed'[s]
          BY <3>5 DEF Updates, Typed
        <4>2. \A c \in Assets : IsNew(s, c)'
          BY <3>4, <4>1 DEF IsNew, Excused
        <4> QED
          BY <2>3, <3>1, <3>3, <4>2
      <3>6. CASE Creates(s, a, new)
        <4>1. /\ Seen(s, a).state = "absent" /\ tx[s].pc = "write" /\ tx[s].target = a
              /\ new.ids = Head(tx[s].todo).ids /\ UNCHANGED disturbed
          BY <3>6 DEF Creates
        <4>2. \A b \in Assets : Alike(new.ids, s, b) => b \in disturbed[s]
          BY <1>0, <4>1 DEF MayCreate
        <4>3. IsNew(s, a)'
          BY <2>6, <3>1, <3>2, <4>1, <4>2 DEF IsNew, Excused, Alike
        <4>4. ASSUME NEW c \in Assets \ {a}, tx'[s].mine[c] # None, tx'[s].mine[c].state = "live",
                     Alike(tx[s].mine[c].ids, s, a)'
              PROVE  Excused(s, c, a)'
          <5>1. Seen(s, c) = tx'[s].mine[c] /\ Seen(s, a)' = new
            BY <2>6, <3>1, <4>4 DEF Seen
          <5>2. Shares(tx'[s].mine[c].ids, new.ids)
            BY <4>4, <5>1 DEF Alike
          <5>3. Shares(new.ids, tx'[s].mine[c].ids)
            BY <5>2 DEF Shares
          <5>4. Alike(new.ids, s, c)
            BY <4>4, <5>1, <5>3 DEF Alike
          <5> QED
            BY <4>1, <4>2, <5>4 DEF Excused
        <4>5. \A c \in Assets \ {a} : IsNew(s, c)'
          BY <3>4, <4>4 DEF IsNew
        <4> QED
          BY <2>3, <3>1, <3>3, <4>3, <4>5
      <3> QED
        BY <2>6, <3>5, <3>6
    <2>7. CASE Commits(s)
      <3>1. /\ \A a \in Assets : asset'[a] = Seen(s, a)
            /\ \A t \in Sessions \ {s} :
                  disturbed'[t] = disturbed[t] \cup {a \in Assets : tx[s].mine[a] # None}
            /\ \A a \in Assets : tx'[s].mine[a] = None
            /\ Wrote(tx[s]) /\ tx'[s].pc = "idle"
        BY <2>7, CommittedFacts, IdleFacts, TxFacts DEF Commits
      <3>2. MayCreate(s)' /\ \A a \in Assets : IsNew(s, a)'
        BY <3>1 DEF MayCreate, IsNew
      <3>3. ASSUME NEW t \in Sessions \ {s}
            PROVE  MayCreate(t)' /\ \A a \in Assets : IsNew(t, a)'
        <4>1. ASSUME NEW a \in Assets PROVE tx[s].mine[a] # None => a \in disturbed'[t]
          BY <3>1
        <4>2. ASSUME NEW a \in Assets, tx[s].mine[a] = None PROVE Seen(t, a)' = Seen(t, a)
          BY <2>1, <3>1, <4>2 DEF Seen
        <4>3. ASSUME NEW ids, NEW b \in Assets, Alike(ids, t, b)', b \notin disturbed'[t]
              PROVE  Alike(ids, t, b) /\ b \notin disturbed[t]
          <5>1. tx[s].mine[b] = None /\ b \notin disturbed[t]
            BY <3>1, <4>1, <4>3
          <5>2. Seen(t, b)' = Seen(t, b)
            BY <4>2, <5>1
          <5> QED
            BY <4>3, <5>1, <5>2 DEF Alike
        <4>4. ASSUME NEW a \in Assets, asset'[a].state = "absent"
              PROVE  asset[a].state = "absent" /\ tx[s].mine[a] = None
          BY <3>1, <4>4 DEF Seen, Wrote
        <4>5. MayCreate(t)'
          <5> SUFFICES ASSUME tx[t].pc = "write", Seen(t, tx[t].target)'.state = "absent",
                              NEW b \in Assets, Alike(Head(tx[t].todo).ids, t, b)',
                              b \notin disturbed'[t]
                       PROVE  FALSE
            BY <2>1 DEF MayCreate
          <5>1. tx[t].target \in Assets
            BY TxFacts DEF Carries
          <5>2. Seen(t, tx[t].target).state = "absent"
            <6>1. Wrote(tx[t])
              BY TxFacts
            <6> QED
              BY <2>1, <4>4, <5>1, <6>1 DEF Seen, Wrote
          <5>3. Alike(Head(tx[t].todo).ids, t, b) /\ b \notin disturbed[t]
            BY <2>1, <4>3
          <5> QED
            BY <1>0, <5>2, <5>3 DEF MayCreate
        <4>6. ASSUME NEW a \in Assets PROVE IsNew(t, a)'
          <5> SUFFICES ASSUME tx[t].mine[a] # None, asset'[a].state = "absent",
                              tx[t].mine[a].state = "live", NEW b \in Assets \ {a},
                              Alike(tx[t].mine[a].ids, t, b)', ~Excused(t, a, b)'
                       PROVE  FALSE
            BY <2>1 DEF IsNew
          <5>1. a \notin disturbed'[t] /\ b \notin disturbed'[t]
            BY DEF Excused
          <5>2. Alike(tx[t].mine[a].ids, t, b) /\ b \notin disturbed[t]
            BY <2>1, <4>3, <5>1
          <5>3. a \notin disturbed[t] /\ asset[a].state = "absent"
            BY <3>1, <4>4, <5>1
          <5> QED
            BY <1>0, <5>2, <5>3 DEF IsNew, Excused
        <4> QED
          BY <4>5, <4>6
      <3> QED
        BY <1>1, <3>2, <3>3
    <2>8. CASE \E a \in Assets, new \in AssetRow :
                  /\ Updates(s, a, new) \/ Creates(s, a, new)
                  /\ new.state # "absent"
                  /\ tx'[s].mine[a] = new
                  /\ \A b \in Assets \ {a} : tx'[s].mine[b] = tx[s].mine[b]
      BY <2>6, <2>8
    <2> QED
      BY <1>3, <2>4, <2>5, <2>7, <2>8, MineStep
  <1> QED
    BY <1>2, <1>3

-----------------------------------------------------------------------------
(***************************************************************************)
(* The invariant, and what follows from it.                                *)
(***************************************************************************)

IInv ==
    /\ Typed /\ Unborn /\ Exclusive /\ NamesOnce
    /\ CodesApart /\ Counted /\ Tallies /\ LooksNew

LEMMA InitInv == Init => IInv
  <1> SUFFICES ASSUME Init PROVE IInv
    OBVIOUS
  <1> USE DEF Init
  <1>1. \A s \in Sessions : tx[s] = Idle
    OBVIOUS
  <1>2. \A a \in Assets : /\ asset[a] \in AssetRow
                          /\ a \in DOMAIN SeedAssets => asset[a] = SeedAssets[a]
                          /\ a \notin DOMAIN SeedAssets => asset[a] = NoAsset
    BY SeedAssumption, IdleFacts
  <1>3. Typed
    <2>1. asset \in [Assets -> AssetRow]
      BY <1>2
    <2>2. /\ catalog \in [Names -> Nat] /\ job \in [Jobs -> JobType] /\ results \in [Jobs -> Count]
          /\ tx \in [Sessions -> TxType] /\ disturbed \in [Sessions -> SUBSET Assets]
      BY IdleFacts
    <2>3. /\ answered.created \in Nat /\ answered.names \subseteq Names \cup {None}
          /\ answered = [created |-> answered.created, names |-> answered.names]
      OBVIOUS
    <2>4. \A s \in Sessions : Carries(tx[s]) /\ Wrote(tx[s])
      BY <1>1, IdleFacts
    <2> QED
      BY <2>1, <2>2, <2>3, <2>4 DEF Typed
  <1>4. Unborn
    BY <1>1, IdleFacts DEF Unborn, Running
  <1>5. Exclusive /\ NamesOnce
    BY <1>1, CatalogAssumption, IdleFacts DEF Exclusive, NamesOnce
  <1>6. CodesApart
    <2>1. \A a \in Assets : asset[a].state = "absent" => asset[a].code = None
      BY <1>2, SeedAssumption, IdleFacts
    <2>2. \A a, b \in Assets : a # b /\ asset[a].code # None => asset[a].code # asset[b].code
      BY <1>2, SeedAssumption, IdleFacts
    <2>3. \A t \in Sessions, a \in Assets : CodeKept(t, a) /\ CodeFree(t, a)
      BY <1>1, IdleFacts DEF CodeKept, CodeFree
    <2> QED
      BY <2>1, <2>2, <2>3 DEF CodesApart
  <1>7. Counted
    <2>1. \A s \in Sessions : Creating(s) = {}
      BY <1>1, IdleFacts DEF Creating
    <2>2. Created = {}
      BY <1>2, IdleFacts DEF Created
    <2>3. \A a \in DOMAIN SeedAssets : asset[a].state # "absent"
      BY <1>2, SeedAssumption
    <2>4. answered.created = Cardinality(Created) /\ \A n \in Names : ~(catalog[n] > 0)
      BY <2>2, FS_EmptySet
    <2>5. ImportWhole
      BY <2>4 DEF ImportWhole, Created
    <2>6. \A s \in Sessions : tx[s].count.created = Cardinality(Creating(s))
      BY <1>1, <2>1, FS_EmptySet, IdleFacts
    <2> QED
      BY <2>3, <2>5, <2>6 DEF Counted
  <1>8. Tallies
    <2>1. \A s \in Sessions : tx[s].kind # "job"
      BY <1>1, IdleFacts
    <2>2. CountersMatch
      BY DEF CountersMatch, NoJob, NoCount
    <2> QED
      BY <2>1, <2>2 DEF Tallies
  <1>9. LooksNew
    BY <1>1, IdleFacts DEF LooksNew
  <1> QED
    BY <1>3, <1>4, <1>5, <1>6, <1>7, <1>8, <1>9 DEF IInv

LEMMA NextInv == IInv /\ [Next]_vars => IInv'
  <1> SUFFICES ASSUME IInv, [Next]_vars PROVE IInv'
    OBVIOUS
  <1>1. /\ Typed /\ Unborn /\ Exclusive /\ NamesOnce
        /\ CodesApart /\ Counted /\ Tallies /\ LooksNew
    BY DEF IInv
  <1>2. Waits \/ \E s \in Sessions : Step(s)
    BY <1>1, EveryStep
  <1>3. Typed' /\ Unborn'
    BY <1>1, <1>2, TypedStep, UnbornStep
  <1>4. Exclusive' /\ NamesOnce'
    BY <1>1, <1>2, ExclusiveStep, NamesStep
  <1>5. CodesApart' /\ Counted'
    BY <1>1, <1>2, CodesStep, CountedStep
  <1>6. Tallies' /\ LooksNew'
    BY <1>1, <1>2, TalliesStep, NewStep
  <1> QED
    BY <1>3, <1>4, <1>5, <1>6 DEF IInv

THEOREM Invariance == Spec => []IInv
  BY InitInv, NextInv, PTL DEF Spec

\* Whatever the requests, imports and discovery jobs in progress, rows keep their types, no two
\* transactions have written one asset or inserted one unique catalog name, and no unique name
\* or asset code is committed twice (the unique constraints of assets and catalogs, and the row
\* locks that the writers wait for).
THEOREM TypeCorrect == Spec => []TypeOK
  <1>1. IInv => TypeOK
    <2> SUFFICES ASSUME IInv PROVE TypeOK
      OBVIOUS
    <2>1. Typed /\ Exclusive /\ NamesOnce /\ CodesApart
      BY DEF IInv
    <2>2. asset \in [Assets -> AssetRow] /\ catalog \in [Names -> Nat] /\ results \in [Jobs -> Count]
      BY <2>1 DEF Typed
    <2>3. \A j \in Jobs :
              job[j].status \in {"none", "cancelled", "success", "failed"} \cup Cancellable
      BY <2>1 DEF Typed, JobType, JobStatus
    <2>4. \A s \in Sessions : tx[s].mine \in [Assets -> AssetRow \cup {None}]
      BY <2>1, TxFacts DEF Mine
    <2>5. \A s, t \in Sessions : s # t =>
              /\ \A a \in Assets : None \in {tx[s].mine[a], tx[t].mine[a]}
              /\ tx[s].named \cap tx[t].named \cap Unique = {}
      BY <2>1 DEF Exclusive
    <2>6. \A n \in Unique : catalog[n] <= 1
      BY <2>1 DEF NamesOnce
    <2>7. \A a, b \in Assets : a # b /\ asset[a].code # None => asset[a].code # asset[b].code
      BY <2>1 DEF CodesApart
    <2> QED
      BY <2>2, <2>3, <2>4, <2>5, <2>6, <2>7 DEF TypeOK
  <1> QED
    BY <1>1, Invariance, PTL

\* Every asset committed is counted once in the answers, and every catalog entry committed is
\* there for a row that succeeded: a row reported as an error leaves nothing
\* (import_assets_from_csv, its savepoints, and the jobs' counts).
THEOREM ImportsAreWhole == Spec => []ImportWhole
  <1>1. IInv => ImportWhole
    BY DEF IInv, Counted
  <1> QED
    BY <1>1, Invariance, PTL

\* The counters of a job match its result rows and errors, and its final status follows from
\* them, unless two tasks ran it at one time (execute_discovery_job).
THEOREM CountersAgree == Spec => []CountersMatch
  <1>1. IInv => CountersMatch
    BY DEF IInv, Tallies
  <1> QED
    BY <1>1, Invariance, PTL

\* No step creates an asset like a live one, apart from those that others committed while its
\* transaction was in progress and those it updated itself (find_duplicate, and its callers).
THEOREM CreatedAreNew == Spec => CreatedIsNew
  <1> DEFINE A == \A s \in Sessions, a, b \in Assets :
                     (/\ tx[s].mine[a] # None /\ a # b
                      /\ asset[a].state = "absent" /\ asset'[a].state = "live"
                      /\ asset'[b].state = "live" /\ Shares(asset'[a].ids, asset'[b].ids))
                         => a \in disturbed[s] \/ b \in disturbed[s]
  <1>1. IInv /\ [Next]_vars => A
    <2> SUFFICES ASSUME IInv, [Next]_vars, NEW s \in Sessions, NEW a \in Assets, NEW b \in Assets,
                        tx[s].mine[a] # None, a # b,
                        asset[a].state = "absent", asset'[a].state = "live",
                        asset'[b].state = "live", Shares(asset'[a].ids, asset'[b].ids)
                 PROVE  a \in disturbed[s] \/ b \in disturbed[s]
      OBVIOUS
    <2>1. Typed /\ Unborn /\ Exclusive /\ LooksNew
      BY DEF IInv
    <2>2. PICK u \in Sessions : Step(u)
      BY <2>1, EveryStep DEF Waits, Keeping
    <2>3. Commits(u)
      BY <2>2 DEF Step, Opens, Reads, Inserts, Updates, Creates, Writing, Drops, Keeping
    <2>4. asset'[a] = Seen(u, a) /\ asset'[b] = Seen(u, b)
      BY <2>1, <2>3, CommittedFacts DEF Commits
    <2>5. tx[u].mine[a] # None
      BY <2>4 DEF Seen
    <2>6. u = s
      BY <2>1, <2>5 DEF Exclusive
    <2>7. tx[s].mine[a].state = "live" /\ Alike(tx[s].mine[a].ids, s, b)
      BY <2>4, <2>5, <2>6 DEF Seen, Alike
    <2> QED
      BY <2>1, <2>7 DEF LooksNew
  <1>2. IInv /\ [Next]_vars => [A]_vars
    BY <1>1
  <1> HIDE DEF A
  <1>3. Spec => [][A]_vars
    BY <1>2, Invariance, PTL DEF Spec
  <1> QED
    BY <1>3 DEF CreatedIsNew, A
=============================================================================
