----------------------------- MODULE Drift_proofs -----------------------------
(***************************************************************************)
(* Proofs about Drift for any objects, runs, workers, jobs, users and      *)
(* numbers of overlapping requests: a remediated finding was remediated by *)
(* a deployment that succeeded, that success leaves no finding of its job  *)
(* open, triage is not undone, a run reports what it found, and what it    *)
(* found was there.                                                        *)
(***************************************************************************)
EXTENDS Drift, FiniteSetTheorems, SequenceTheorems, TLAPS

FindingStatus == {"new", "accepted", "ignored", "remediated"}
FindingType ==
    [run : Runs, key : Keys, expected : SUBSET Fields, severity : {"high", "medium", "low"},
     status : FindingStatus, job : Jobs \cup {None}, clean : BOOLEAN, drifted : BOOLEAN]
JobStatus == {"absent", "idle", "applied", "closing"}
JobType ==
    [status : JobStatus, key : Keys \cup {None}, target : SUBSET Fields, finding : Nat,
     closes : SUBSET Nat, succeeded : BOOLEAN]
RunType ==
    [status : {"absent", "running", "success", "failed"}, checked : Nat, found : Nat]
WorkerType ==
    [pc : {"loop", "compare"}, run : Runs, read : RunType, todo : SUBSET Keys,
     key : Keys \cup {None}, expected : SUBSET Fields, clean : BOOLEAN, checked : Nat,
     pending : Seq(FindingType)]
TriageType == [pc : {"accept", "ignore", "restore"}, finding : Nat, read : FindingType]

\* A run's findings are new until they are committed.
Unseen(p) == \A n \in DOMAIN p : p[n].status = "new" /\ p[n].job = None

Typed ==
    /\ versions \in [Keys -> Seq(SUBSET Fields)]
    /\ run \in [Runs -> RunType]
    /\ worker \in [Workers -> WorkerType \cup {Free}]
    /\ findings \in Seq(FindingType)
    /\ job \in [Jobs -> JobType]
    /\ triage \in [Sessions -> TriageType \cup {Free}]

\* What workers and requests in progress have read.
WorkerReads(me) ==
    me.pc # "free" => /\ me.todo \subseteq BaselineKeys
                      /\ me.pc = "compare" => me.key \in Keys
                      /\ Unseen(me.pending)
Reads ==
    /\ \A w \in Workers : WorkerReads(worker[w])
    /\ \A s \in Sessions : triage[s].pc # "free" => triage[s].finding \in DOMAIN findings

LEMMA FindingFacts ==
    /\ \A f \in FindingType : \A x \in FindingStatus :
          /\ [f EXCEPT !.status = x] \in FindingType
          /\ [f EXCEPT !.status = x].status = x /\ [f EXCEPT !.status = x].job = f.job
    /\ \A f \in FindingType : \A j \in Jobs :
          /\ [f EXCEPT !.job = j] \in FindingType
          /\ [f EXCEPT !.job = j].job = j /\ [f EXCEPT !.job = j].status = f.status
  BY DEF FindingType

LEMMA NoJobFacts == NoJob \in JobType /\ NoJob.status = "absent" /\ NoJob.closes = {}
                      /\ NoJob.succeeded = FALSE
  BY DEF NoJob, JobType, JobStatus

\* The records of a job after the steps of its deployments.
LEMMA JobFacts ==
    ASSUME NEW r \in JobType
    PROVE  /\ LET n == [r EXCEPT !.status = "applied"]
              IN  /\ n \in JobType /\ n.status = "applied" /\ n.finding = r.finding
                  /\ n.closes = r.closes /\ n.succeeded = r.succeeded
           /\ LET n == [r EXCEPT !.status = "idle", !.closes = {}]
              IN  /\ n \in JobType /\ n.status = "idle" /\ n.finding = r.finding
                  /\ n.closes = {} /\ n.succeeded = r.succeeded
           /\ LET n == [r EXCEPT !.status = "idle", !.succeeded = TRUE, !.closes = {}]
              IN  /\ n \in JobType /\ n.status = "idle" /\ n.finding = r.finding
                  /\ n.closes = {} /\ n.succeeded
  BY DEF JobType, JobStatus

LEMMA ClosingFacts ==
    ASSUME NEW r \in JobType, NEW x \in SUBSET Nat
    PROVE  LET n == [r EXCEPT !.status = "closing", !.closes = x]
           IN  /\ n \in JobType /\ n.status = "closing" /\ n.finding = r.finding
               /\ n.closes = x /\ n.succeeded = r.succeeded
  BY DEF JobType, JobStatus

LEMMA DraftFacts ==
    ASSUME NEW k \in Keys, NEW t \in SUBSET Fields, NEW i \in Nat
    PROVE  /\ LET n == [NoJob EXCEPT !.status = "idle", !.key = k, !.target = t]
              IN  n \in JobType /\ n.status = "idle" /\ n.closes = {} /\ ~n.succeeded
           /\ LET n == [NoJob EXCEPT !.status = "idle", !.key = k, !.target = t, !.finding = i]
              IN  /\ n \in JobType /\ n.status = "idle" /\ n.closes = {} /\ n.finding = i
                  /\ ~n.succeeded
  BY NoJobFacts DEF JobType, JobStatus

LEMMA FreeFacts == /\ Free.pc = "free" /\ Free \notin WorkerType /\ Free \notin TriageType
                   /\ \A x \in WorkerType : x.pc # "free"
                   /\ \A x \in TriageType : x.pc # "free"
  BY DEF Free, WorkerType, TriageType

\* The findings that steps make.
LEMMA SequenceFacts ==
    ASSUME Typed
    PROVE  /\ Len(findings) \in Nat /\ DOMAIN findings = 1 .. Len(findings)
           /\ DOMAIN findings \subseteq Nat
           /\ \A i \in DOMAIN findings : findings[i] \in FindingType
  <1>1. findings \in Seq(FindingType) /\ Len(findings) \in Nat /\ DOMAIN findings = 1 .. Len(findings)
    BY DEF Typed
  <1>2. \A i \in DOMAIN findings : findings[i] \in FindingType
    BY <1>1
  <1> QED
    BY <1>1, <1>2

\* A run commits the findings it has made.
LEMMA PendingFacts ==
    ASSUME Typed, Reads, NEW w \in Workers, worker[w].pc # "free"
    PROVE  LET p == worker[w].pending
           IN  /\ p \in Seq(FindingType) /\ Unseen(p)
               /\ findings \o p \in Seq(FindingType)
               /\ DOMAIN findings \subseteq DOMAIN (findings \o p)
               /\ \A i \in DOMAIN findings : (findings \o p)[i] = findings[i]
               /\ \A i \in DOMAIN (findings \o p) \ DOMAIN findings :
                     (findings \o p)[i].status = "new" /\ (findings \o p)[i].job = None
  <1> DEFINE p == worker[w].pending
             q == findings \o p
  <1>1. worker[w] \in WorkerType
    BY FreeFacts DEF Typed
  <1>2. p \in Seq(FindingType) /\ Unseen(p)
    BY <1>1 DEF WorkerType, Reads, WorkerReads
  <1>3. findings \in Seq(FindingType)
    BY DEF Typed
  <1> HIDE DEF p
  <1>4. /\ q \in Seq(FindingType) /\ Len(q) = Len(findings) + Len(p)
        /\ \A i \in 1 .. Len(q) : q[i] = IF i <= Len(findings) THEN findings[i] ELSE p[i - Len(findings)]
    BY <1>2, <1>3, ConcatProperties
  <1>5. /\ Len(findings) \in Nat /\ Len(p) \in Nat /\ DOMAIN findings = 1 .. Len(findings)
        /\ DOMAIN p = 1 .. Len(p) /\ DOMAIN q = 1 .. Len(q)
    BY <1>2, <1>3, <1>4
  <1> HIDE DEF q
  <1>6. \A i \in DOMAIN q \ DOMAIN findings : i - Len(findings) \in DOMAIN p /\ q[i] = p[i - Len(findings)]
    BY <1>4, <1>5
  <1>7. \A i \in DOMAIN findings : i \in DOMAIN q /\ q[i] = findings[i]
    BY <1>4, <1>5
  <1>8. /\ q \in Seq(FindingType)
        /\ DOMAIN findings \subseteq DOMAIN q
        /\ \A i \in DOMAIN q \ DOMAIN findings : q[i].status = "new" /\ q[i].job = None
    BY <1>2, <1>4, <1>6, <1>7 DEF Unseen
  <1> QED
    BY <1>2, <1>7, <1>8 DEF p, q

\* The workers after a deployment of an object.
LEMMA DisturbFacts ==
    ASSUME Typed, Reads, NEW k, Disturb(k), BaselineKeys \subseteq BaselineKeys'
    PROVE  worker' \in [Workers -> WorkerType \cup {Free}] /\ \A w \in Workers : WorkerReads(worker[w])'
  <1>1. ASSUME NEW w \in Workers, worker[w].pc = "compare"
        PROVE  LET n == [worker[w] EXCEPT !.clean = FALSE]
               IN  /\ n \in WorkerType /\ n.pc = "compare" /\ n.todo = worker[w].todo
                   /\ n.key = worker[w].key /\ n.pending = worker[w].pending
    <2>1. worker[w] \in WorkerType
      BY <1>1, FreeFacts DEF Typed
    <2> QED
      BY <1>1, <2>1 DEF WorkerType
  <1>2. worker' \in [Workers -> WorkerType \cup {Free}]
    BY <1>1 DEF Disturb, Typed
  <1>3. ASSUME NEW w \in Workers
        PROVE  WorkerReads(worker[w])'
    <2>1. \/ worker'[w] = worker[w]
          \/ worker[w].pc = "compare" /\ worker'[w] = [worker[w] EXCEPT !.clean = FALSE]
      BY DEF Disturb
    <2>2. WorkerReads(worker[w])
      BY DEF Reads
    <2>3. worker'[w].pc # "free" =>
             /\ worker[w].pc # "free" /\ worker'[w].pc = worker[w].pc /\ worker'[w].todo = worker[w].todo
             /\ worker'[w].key = worker[w].key /\ worker'[w].pending = worker[w].pending
      BY <1>1, <2>1
    <2> QED
      BY <2>2, <2>3 DEF WorkerReads, Unseen
  <1> QED
    BY <1>2, <1>3

LEMMA ApplyTyped ==
    ASSUME Typed, Reads, NEW j \in Jobs, Apply(j) \/ FailDeployment(j)
    PROVE  (Typed /\ Reads)'
  <1>1. job' \in [Jobs -> JobType]
    <2>1. \/ job' = [job EXCEPT ![j] = [job[j] EXCEPT !.status = "applied"]]
          \/ job' = [job EXCEPT ![j] = [job[j] EXCEPT !.status = "idle", !.closes = {}]]
      BY DEF Apply, FailDeployment, Typed
    <2>2. job[j] \in JobType
      BY DEF Typed
    <2>3. PICK n \in JobType : job' = [job EXCEPT ![j] = n]
      BY <2>1, <2>2, JobFacts
    <2> QED
      BY <2>3 DEF Typed
  <1>2. BaselineKeys' = BaselineKeys /\ Disturb(job[j].key)
    BY DEF Apply, FailDeployment, BaselineKeys
  <1>3. worker' \in [Workers -> WorkerType \cup {Free}] /\ \A w \in Workers : WorkerReads(worker[w])'
    BY <1>2, DisturbFacts
  <1> QED
    BY <1>1, <1>3 DEF Typed, Reads, Apply, FailDeployment

\* Deployments that commit, what they close, and the version they record.
LEMMA SucceedTyped ==
    ASSUME Typed, Reads, NEW j \in Jobs, Succeed(j)
    PROVE  (Typed /\ Reads)'
  <1>1. job' \in [Jobs -> JobType]
    <2>1. job' = [job EXCEPT ![j] = [job[j] EXCEPT !.status = "idle", !.succeeded = TRUE,
                                                   !.closes = {}]]
      BY DEF Succeed, Typed
    <2> QED
      BY <2>1, JobFacts DEF Typed
  <1>2. job[j].target \in SUBSET Fields
    BY DEF Typed, JobType
  <1>3. versions' \in [Keys -> Seq(SUBSET Fields)] /\ BaselineKeys \subseteq BaselineKeys'
    <2>1. \A q \in Seq(SUBSET Fields) : Append(q, job[j].target) \in Seq(SUBSET Fields)
                                       /\ Append(q, job[j].target) # <<>>
      BY <1>2, AppendProperties
    <2> QED
      BY <2>1 DEF Typed, Succeed, BaselineKeys
  <1>4. findings' \in Seq(FindingType) /\ DOMAIN findings' = DOMAIN findings
    <2>1. \A i \in DOMAIN findings : findings'[i] \in FindingType
      BY SequenceFacts, FindingFacts DEF Succeed, FindingStatus
    <2>2. DOMAIN findings' = DOMAIN findings /\ findings' = [i \in 1 .. Len(findings) |-> findings'[i]]
      BY SequenceFacts DEF Succeed
    <2> QED
      BY <2>1, <2>2, SequenceFacts
  <1>5. worker' \in [Workers -> WorkerType \cup {Free}] /\ \A w \in Workers : WorkerReads(worker[w])'
    BY <1>3, DisturbFacts DEF Succeed
  <1> QED
    BY <1>1, <1>3, <1>4, <1>5 DEF Typed, Reads, Succeed

\* The steps that change no worker and no version.
LEMMA CalmReads ==
    ASSUME Typed, Reads, UNCHANGED <<worker, versions>>, DOMAIN findings \subseteq DOMAIN findings',
           \A s \in Sessions : triage'[s].pc # "free" =>
              triage'[s] = triage[s] \/ triage'[s].finding \in DOMAIN findings
    PROVE  Reads'
  BY DEF Reads, WorkerReads, BaselineKeys

LEMMA DeploymentsTyped ==
    ASSUME Typed, Reads, Deployments
    PROVE  (Typed /\ Reads)'
  <1>1. ASSUME NEW j \in Jobs, NEW k \in Keys, NEW target \in Targets, CreateJob(j, k, target)
        PROVE  (Typed /\ Reads)'
    <2>1. target \in SUBSET Fields
      BY StateAssumption
    <2>2. [NoJob EXCEPT !.status = "idle", !.key = k, !.target = target] \in JobType
      BY <2>1, DraftFacts
    <2>3. job' \in [Jobs -> JobType]
      BY <1>1, <2>2 DEF CreateJob, Typed
    <2>4. Reads'
      BY <1>1, CalmReads DEF CreateJob
    <2> QED
      BY <1>1, <2>3, <2>4 DEF CreateJob, Typed
  <1>2. ASSUME NEW j \in Jobs, ReadClosable(j)
        PROVE  (Typed /\ Reads)'
    <2>1. ClosableOf(j) \in SUBSET Nat
      BY SequenceFacts DEF ClosableOf
    <2>2. job' = [job EXCEPT ![j] = [job[j] EXCEPT !.status = "closing", !.closes = ClosableOf(j)]]
      BY <1>2 DEF ReadClosable, Typed
    <2>3. job' \in [Jobs -> JobType]
      BY <2>1, <2>2, ClosingFacts DEF Typed
    <2>4. Reads'
      BY <1>2, CalmReads DEF ReadClosable
    <2> QED
      BY <1>2, <2>3, <2>4 DEF ReadClosable, Typed
  <1>3. ASSUME NEW k \in Keys, NEW state \in Edits, EditDevice(k, state)
        PROVE  (Typed /\ Reads)'
    BY <1>3, CalmReads DEF EditDevice, Typed
  <1>4. ASSUME NEW a \in Assets, DeleteAsset(a)
        PROVE  (Typed /\ Reads)'
    BY <1>4, CalmReads DEF DeleteAsset, Typed
  <1> QED
    BY ApplyTyped, SucceedTyped, <1>1, <1>2, <1>3, <1>4 DEF Deployments

\* A step of one worker that leaves the rest as it is, or commits.
WorkerGoes(w, me) ==
    worker' = [worker EXCEPT ![w] = me] /\ me \in WorkerType \cup {Free} /\ WorkerReads(me)
WorkerWrites(w) ==
    /\ run' \in [Runs -> RunType]
    /\ \/ findings' = findings
       \/ worker[w].pc # "free" /\ findings' = findings \o worker[w].pending
    /\ UNCHANGED <<versions, job, triage>>

LEMMA WorkerTyped ==
    ASSUME Typed, Reads, NEW w \in Workers, NEW me, WorkerGoes(w, me), WorkerWrites(w)
    PROVE  (Typed /\ Reads)'
  <1> USE DEF WorkerGoes, WorkerWrites
  <1>1. findings' \in Seq(FindingType) /\ DOMAIN findings \subseteq DOMAIN findings'
    BY PendingFacts DEF Typed
  <1>2. worker' \in [Workers -> WorkerType \cup {Free}]
    BY DEF Typed
  <1>3. \A v \in Workers : WorkerReads(worker'[v])
    BY DEF Typed, Reads
  <1>4. \A v \in Workers : WorkerReads(worker[v])'
    BY <1>3 DEF WorkerReads, BaselineKeys
  <1> QED
    BY <1>1, <1>2, <1>4 DEF Typed, Reads

LEMMA EndedTyped ==
    ASSUME Typed, NEW w \in Workers, worker[w].pc # "free", NEW status \in {"success", "failed"},
           NEW checked \in Nat, NEW found \in Nat, Ended(w, status, checked, found)
    PROVE  run' \in [Runs -> RunType]
  <1>1. worker[w] \in WorkerType
    BY FreeFacts DEF Typed
  <1>2. worker[w].run \in Runs /\ run[worker[w].run] \in RunType
    BY <1>1 DEF Typed, WorkerType
  <1> QED
    BY <1>1, <1>2 DEF Ended, Assign, RunType, Typed

LEMMA FreeReads == Free \in WorkerType \cup {Free} /\ WorkerReads(Free)
  BY FreeFacts DEF WorkerReads

LEMMA TaskTyped ==
    ASSUME Typed, Reads, NEW w \in Workers, Task(w) \/ LoseRun(w)
    PROVE  (Typed /\ Reads)'
  <1>1. ASSUME NEW r \in Runs, Deliver(w, r)
        PROVE  (Typed /\ Reads)'
    <2> DEFINE me == [pc |-> "loop", run |-> r, read |-> run[r], todo |-> BaselineKeys,
                      key |-> None, expected |-> {}, clean |-> FALSE, checked |-> 0,
                      pending |-> <<>>]
    <2>1. me \in WorkerType
      <3>1. run[r] \in RunType /\ BaselineKeys \in SUBSET Keys /\ <<>> \in Seq(FindingType)
        BY DEF Typed, BaselineKeys
      <3> QED
        BY <3>1 DEF WorkerType
    <2>2. WorkerReads(me)
      BY DEF WorkerReads, Unseen
    <2>3. WorkerGoes(w, me) /\ WorkerWrites(w)
      BY <1>1, <2>1, <2>2 DEF Deliver, Typed, WorkerGoes, WorkerWrites, pipeline
    <2> QED
      BY <2>3, WorkerTyped
  <1>2. ASSUME NEW k \in Keys, ReadExpected(w, k)
        PROVE  (Typed /\ Reads)'
    <2> DEFINE old == worker[w]
               me == [old EXCEPT !.todo = @ \ {k}, !.pc = "compare", !.key = k,
                                 !.expected = LatestState(k), !.clean = InProgress(k) = {},
                                 !.checked = @ + 1]
    <2>1. old \in WorkerType /\ old.pc # "free" /\ k \in old.todo /\ k \in BaselineKeys
      BY <1>2, FreeFacts DEF ReadExpected, Typed, Reads, WorkerReads
    <2>2. LatestState(k) \in SUBSET Fields
      BY <2>1 DEF LatestState, BaselineKeys, Typed
    <2>3. (InProgress(k) = {}) \in BOOLEAN
      OBVIOUS
    <2>4. ASSUME NEW b \in BOOLEAN, NEW e \in SUBSET Fields
          PROVE  LET n == [old EXCEPT !.todo = @ \ {k}, !.pc = "compare", !.key = k,
                                      !.expected = e, !.clean = b, !.checked = @ + 1]
                 IN  /\ n \in WorkerType /\ n.todo = old.todo \ {k} /\ n.pc = "compare" /\ n.key = k
                     /\ n.pending = old.pending
      <3> DEFINE todo == old.todo \ {k}
                 checked == old.checked + 1
                 n == [old EXCEPT !.todo = todo, !.pc = "compare", !.key = k,
                                  !.expected = e, !.clean = b, !.checked = checked]
      <3>1. todo \in SUBSET Keys /\ checked \in Nat
        BY <2>1 DEF WorkerType
      <3> HIDE DEF todo, checked, old
      <3>2. /\ n \in WorkerType /\ n.todo = todo /\ n.pc = "compare" /\ n.key = k
            /\ n.pending = old.pending
        BY <2>1, <3>1 DEF WorkerType
      <3> QED
        BY <3>2 DEF todo, checked
    <2>5. me \in WorkerType /\ me.todo = old.todo \ {k} /\ me.key = k /\ me.pending = old.pending
      BY <2>2, <2>3, <2>4
    <2>6. worker' = [worker EXCEPT ![w] = me]
      BY <1>2 DEF ReadExpected, Typed
    <2> HIDE DEF me
    <2>7. WorkerReads(me)
      BY <2>1, <2>5 DEF WorkerReads, Reads
    <2>8. WorkerGoes(w, me) /\ WorkerWrites(w)
      BY <1>2, <2>5, <2>6, <2>7 DEF ReadExpected, Typed, WorkerGoes, WorkerWrites, pipeline
    <2> QED
      BY <2>8, WorkerTyped
  <1>3. CASE ReadDevice(w)
    <2> DEFINE old == worker[w]
               diff == DiffFields(device[old.key], old.expected)
               finding == [run |-> old.run, key |-> old.key, expected |-> old.expected,
                           severity |-> Severity(diff), status |-> "new", job |-> None,
                           clean |-> old.clean, drifted |-> Drifted(old.key)]
    <2>1. old \in WorkerType /\ old.pc = "compare" /\ old.key \in Keys
      BY <1>3, FreeFacts DEF ReadDevice, Typed, Reads, WorkerReads
    <2>2. finding \in FindingType /\ finding.status = "new" /\ finding.job = None
      <3>1. Severity(diff) \in {"high", "medium", "low"}
        BY DEF Severity
      <3>2. Drifted(old.key) \in BOOLEAN
        BY DEF Drifted
      <3>3. old.run \in Runs /\ old.expected \in SUBSET Fields /\ old.clean \in BOOLEAN
        BY <2>1 DEF WorkerType
      <3> QED
        BY <2>1, <3>1, <3>2, <3>3 DEF FindingType, FindingStatus
    <2>3. CASE worker' = [worker EXCEPT ![w].pc = "loop"]
      <3> DEFINE me == [old EXCEPT !.pc = "loop"]
      <3>1. me \in WorkerType /\ me.pc = "loop" /\ me.todo = old.todo /\ me.pending = old.pending
        BY <2>1 DEF WorkerType
      <3>2. WorkerReads(me)
        BY <2>1, <3>1 DEF WorkerReads, Reads
      <3>3. worker' = [worker EXCEPT ![w] = me]
        BY <2>3 DEF Typed
      <3>4. WorkerGoes(w, me) /\ WorkerWrites(w)
        BY <1>3, <3>1, <3>2, <3>3 DEF ReadDevice, Typed, WorkerGoes, WorkerWrites, pipeline
      <3> QED
        BY <3>4, WorkerTyped
    <2>4. CASE worker' = [worker EXCEPT ![w].pc = "loop", ![w].pending = Append(@, finding)]
      <3> DEFINE p == Append(old.pending, finding)
                 me == [old EXCEPT !.pc = "loop", !.pending = p]
      <3>1. old.pending \in Seq(FindingType) /\ Unseen(old.pending)
        BY <2>1 DEF WorkerType, Reads, WorkerReads
      <3>2. p \in Seq(FindingType) /\ Unseen(p)
        <4> HIDE DEF finding
        <4>1. /\ p \in Seq(FindingType) /\ Len(p) = Len(old.pending) + 1
              /\ p[Len(old.pending) + 1] = finding
              /\ \A n \in DOMAIN old.pending : p[n] = old.pending[n]
          BY <2>2, <3>1
        <4>2. /\ DOMAIN p = 1 .. Len(p) /\ Len(old.pending) \in Nat
              /\ DOMAIN old.pending = 1 .. Len(old.pending)
          BY <3>1, <4>1
        <4> HIDE DEF p
        <4> QED
          BY <2>2, <3>1, <4>1, <4>2 DEF Unseen
      <3> HIDE DEF p, finding
      <3>3. me \in WorkerType /\ me.pc = "loop" /\ me.todo = old.todo /\ me.pending = p
        BY <2>1, <3>2 DEF WorkerType
      <3>4. worker' = [worker EXCEPT ![w] = me]
        BY <2>4 DEF Typed, p
      <3> HIDE DEF me
      <3>5. WorkerReads(me)
        BY <2>1, <3>2, <3>3 DEF WorkerReads, Reads
      <3>6. WorkerGoes(w, me) /\ WorkerWrites(w)
        BY <1>3, <3>3, <3>4, <3>5 DEF ReadDevice, Typed, WorkerGoes, WorkerWrites, pipeline
      <3> QED
        BY <3>6, WorkerTyped
    <2> QED
      BY <1>3, <2>3, <2>4 DEF ReadDevice
  <1>4. CASE EndRun(w)
    <2>1. worker[w] \in WorkerType /\ worker[w].pc # "free"
      BY <1>4, FreeFacts DEF EndRun, Typed
    <2>2. worker[w].checked \in Nat /\ Len(worker[w].pending) \in Nat
      BY <2>1 DEF WorkerType
    <2>3. run' \in [Runs -> RunType]
      BY <1>4, <2>1, <2>2, EndedTyped DEF EndRun
    <2>4. WorkerGoes(w, Free) /\ WorkerWrites(w)
      BY <1>4, <2>1, <2>3, FreeReads DEF EndRun, WorkerGoes, WorkerWrites, pipeline
    <2> QED
      BY <2>4, WorkerTyped
  <1>5. CASE FailRun(w)
    <2>1. worker[w] \in WorkerType /\ worker[w].pc # "free"
      BY <1>5, FreeFacts DEF FailRun, Typed
    <2>2. /\ worker[w].read.checked \in Nat /\ worker[w].read.found \in Nat
          /\ worker[w].checked \in Nat /\ Len(worker[w].pending) \in Nat
      BY <2>1 DEF WorkerType, RunType
    <2>3. run' \in [Runs -> RunType]
      BY <1>5, <2>1, <2>2, EndedTyped DEF FailRun, MarkedFailed
    <2>4. WorkerGoes(w, Free) /\ WorkerWrites(w)
      BY <1>5, <2>1, <2>3, FreeReads DEF FailRun, WorkerGoes, WorkerWrites, pipeline
    <2> QED
      BY <2>4, WorkerTyped
  <1>6. CASE LoseRun(w)
    <2>1. WorkerGoes(w, Free) /\ WorkerWrites(w)
      BY <1>6, FreeReads DEF LoseRun, Typed, WorkerGoes, WorkerWrites, pipeline
    <2> QED
      BY <2>1, WorkerTyped
  <1> QED
    BY <1>1, <1>2, <1>3, <1>4, <1>5, <1>6 DEF Task

LEMMA TriageTyped ==
    ASSUME Typed, Reads, NEW s \in Sessions, Triage(s)
    PROVE  (Typed /\ Reads)'
  <1>1. ASSUME NEW op \in {"accept", "ignore", "restore"}, NEW i \in DOMAIN findings,
               BeginTriage(s, op, i)
        PROVE  (Typed /\ Reads)'
    <2> DEFINE me == [pc |-> op, finding |-> i, read |-> findings[i]]
    <2>1. me \in TriageType /\ me.finding = i
      BY SequenceFacts DEF TriageType
    <2>2. triage' = [triage EXCEPT ![s] = me]
      BY <1>1 DEF BeginTriage
    <2> HIDE DEF me
    <2>3. triage' \in [Sessions -> TriageType \cup {Free}]
      BY <2>1, <2>2 DEF Typed
    <2>4. Reads'
      BY <1>1, <2>1, <2>2, CalmReads DEF BeginTriage, Typed, pipeline
    <2> QED
      BY <1>1, <2>3, <2>4 DEF BeginTriage, Typed, pipeline
  <1>2. CASE EndDecision(s)
    <2> DEFINE me == triage[s]
    <2>1. me \in TriageType /\ me.finding \in DOMAIN findings
      BY <1>2, FreeFacts DEF EndDecision, Typed, Reads, Decision
    <2>2. Assign(Decision[me.pc], me.read.status, findings[me.finding].status) \in FindingStatus
      BY <1>2, <2>1, SequenceFacts DEF EndDecision, Assign, Decision, FindingStatus, FindingType
    <2>3. findings' \in Seq(FindingType) /\ DOMAIN findings' = DOMAIN findings
      BY <1>2, <2>1, <2>2, SequenceFacts, FindingFacts DEF EndDecision, Typed
    <2>4. Reads'
      BY <1>2, <2>3, CalmReads, FreeFacts DEF EndDecision, Typed, pipeline
    <2> QED
      BY <1>2, <2>3, <2>4 DEF EndDecision, Typed, pipeline
  <1>3. ASSUME NEW j \in Jobs, EndRestore(s, j)
        PROVE  (Typed /\ Reads)'
    <2> DEFINE me == triage[s]
               n == [NoJob EXCEPT !.status = "idle", !.key = me.read.key,
                                  !.target = me.read.expected, !.finding = me.finding]
    <2>1. me \in TriageType /\ me.finding \in DOMAIN findings
      BY <1>3, FreeFacts DEF EndRestore, Typed, Reads
    <2>2. me.read.key \in Keys /\ me.read.expected \in SUBSET Fields /\ me.finding \in Nat
      BY <2>1 DEF TriageType, FindingType
    <2>3. n \in JobType
      BY <2>2, DraftFacts
    <2>4. findings' \in Seq(FindingType) /\ DOMAIN findings' = DOMAIN findings
      BY <1>3, <2>1, SequenceFacts, FindingFacts DEF EndRestore, Remediating, Typed
    <2>5. job' \in [Jobs -> JobType]
      BY <1>3, <2>3 DEF EndRestore, Typed
    <2>6. Reads'
      BY <1>3, <2>4, CalmReads, FreeFacts DEF EndRestore, Typed
    <2> QED
      BY <1>3, <2>4, <2>5, <2>6 DEF EndRestore, Typed
  <1>4. CASE TriageDies(s)
    <2>1. Reads'
      BY <1>4, CalmReads, FreeFacts DEF TriageDies, Typed, pipeline
    <2> QED
      BY <1>4, <2>1 DEF TriageDies, Typed, pipeline
  <1> QED
    BY <1>1, <1>2, <1>3, <1>4 DEF Triage

LEMMA InitTyped == Init => Typed /\ Reads
  <1> SUFFICES ASSUME Init
               PROVE  Typed /\ Reads
    OBVIOUS
  <1>1. versions \in [Keys -> Seq(SUBSET Fields)]
    <2>1. \A q \in Recorded : q \in Seq(SUBSET Fields)
      <3>1. <<>> \in Seq(SUBSET Fields) /\ \A x \in SUBSET Fields : <<x>> \in Seq(SUBSET Fields)
        OBVIOUS
      <3> QED
        BY <3>1, RecordedAssumption
    <2> QED
      BY <2>1 DEF Init
  <1>2. run \in [Runs -> RunType]
    BY DEF Init, NoRun, RunType
  <1>3. <<>> \in Seq(FindingType)
    OBVIOUS
  <1>4. Typed
    BY <1>1, <1>2, <1>3, NoJobFacts DEF Init, Typed
  <1>5. Reads
    BY FreeFacts, FreeReads DEF Init, Reads
  <1> QED
    BY <1>4, <1>5

LEMMA TypedStep == Typed /\ Reads /\ [Next]_vars => (Typed /\ Reads)'
  <1> SUFFICES ASSUME Typed, Reads, [Next]_vars
               PROVE  (Typed /\ Reads)'
    OBVIOUS
  <1>1. ASSUME UNCHANGED <<versions, worker, findings, job, triage>>, run' \in [Runs -> RunType]
        PROVE  (Typed /\ Reads)'
    BY <1>1, CalmReads DEF Typed
  <1>2. ASSUME NEW r \in Runs, Analyze(r) \/ Redeliver(r)
        PROVE  (Typed /\ Reads)'
    <2>1. run' \in [Runs -> RunType]
      BY <1>2 DEF Analyze, Redeliver, Typed, RunType
    <2> QED
      BY <1>1, <1>2, <2>1 DEF Analyze, Redeliver, pipeline
  <1>3. ASSUME NEW u \in Users, MarkAllRead(u) \/ \E n \in DOMAIN notes : MarkRead(u, n)
        PROVE  (Typed /\ Reads)'
    BY <1>1, <1>3 DEF MarkAllRead, MarkRead, pipeline, Typed
  <1>4. CASE UNCHANGED vars
    BY <1>1, <1>4 DEF vars, pipeline, Typed
  <1> QED
    BY DeploymentsTyped, TaskTyped, TriageTyped, <1>2, <1>3, <1>4 DEF Next

-----------------------------------------------------------------------------
(***************************************************************************)
(* What deployments close.                                                 *)
(***************************************************************************)

\* A finding's job was created for it, and a job closes findings that it was created for.
Linked ==
    /\ \A i \in DOMAIN findings : findings[i].job # None =>
           job[findings[i].job].finding = i /\ job[findings[i].job].status # "absent"
    /\ \A j \in Jobs : /\ \A i \in job[j].closes : job[j].finding = i
                       /\ job[j].succeeded => job[j].status # "absent"

\* A deployment that is about to commit has read every open finding of its job.
ReadAll ==
    \A i \in DOMAIN findings, j \in Jobs :
        findings[i].job = j /\ findings[i].status = "new" /\ job[j].status = "closing"
            => i \in job[j].closes

\* It has not read one whose decision is settled.
Untouched ==
    \A i \in settled : /\ i \in DOMAIN findings
                       /\ \A j \in Jobs : job[j].status = "closing" => i \notin job[j].closes

Closing == Linked /\ ReadAll /\ Untouched /\ RemediatedIsEarned /\ NoOpenAfterSuccess /\ DecidedStays

LEMMA JobOf ==
    ASSUME Typed, NEW i \in DOMAIN findings
    PROVE  findings[i].job # None => findings[i].job \in Jobs
  BY SequenceFacts DEF FindingType

\* A run commits new findings, of which no job knows.
LEMMA GrowCloses ==
    ASSUME Typed, Reads, Closing, NEW w \in Workers, worker[w].pc # "free",
           findings' = findings \o worker[w].pending, UNCHANGED <<job, settled>>
    PROVE  Closing'
  <1>1. /\ DOMAIN findings \subseteq DOMAIN findings'
        /\ \A i \in DOMAIN findings : findings'[i] = findings[i]
        /\ \A i \in DOMAIN findings' \ DOMAIN findings :
              findings'[i].status = "new" /\ findings'[i].job = None
    BY PendingFacts
  <1>2. \A j \in Jobs : j # None
    BY NoneAssumption DEF Jobs
  <1> QED
    BY <1>1, <1>2 DEF Closing, Linked, ReadAll, Untouched, RemediatedIsEarned, NoOpenAfterSuccess,
                      DecidedStays

\* A deployment begins or fails: its job changes, but not to one that commits.
LEMMA StatusCloses ==
    ASSUME Typed, Closing, NEW j \in Jobs, Apply(j) \/ FailDeployment(j)
    PROVE  Closing'
  <1>1. PICK n \in JobType : /\ job' = [job EXCEPT ![j] = n] /\ n.status \in {"applied", "idle"}
                             /\ n.finding = job[j].finding /\ n.closes \subseteq job[j].closes
                             /\ n.succeeded = job[j].succeeded
    <2>1. \/ job' = [job EXCEPT ![j] = [job[j] EXCEPT !.status = "applied"]]
          \/ job' = [job EXCEPT ![j] = [job[j] EXCEPT !.status = "idle", !.closes = {}]]
      BY DEF Apply, FailDeployment, Typed
    <2> QED
      BY <2>1, JobFacts DEF Typed
  <1>2. UNCHANGED <<findings, settled>>
    BY DEF Apply, FailDeployment
  <1>3. /\ \A i \in Jobs \ {j} : job'[i] = job[i]
        /\ job'[j] = n
    BY <1>1 DEF Typed
  <1>4. \A i \in Jobs : /\ job'[i].finding = job[i].finding /\ job'[i].closes \subseteq job[i].closes
                        /\ job'[i].status # "absent" \/ job[i].status = "absent"
                        /\ job'[i].status = "closing" => job'[i] = job[i]
                        /\ job'[i].succeeded = job[i].succeeded
    BY <1>1, <1>3
  <1> QED
    BY <1>2, <1>4, JobOf DEF Closing, Linked, ReadAll, Untouched, RemediatedIsEarned, NoOpenAfterSuccess,
                      DecidedStays

\* A job is created, for a finding or for none.
LEMMA NewJobCloses ==
    ASSUME Typed, Closing, NEW j \in Jobs, job[j].status = "absent",
           NEW n \in JobType, n.status = "idle", n.closes = {}, ~n.succeeded,
           job' = [job EXCEPT ![j] = n],
           UNCHANGED <<findings, settled>>
    PROVE  Closing'
  <1>1. \A i \in Jobs \ {j} : job'[i] = job[i]
    BY DEF Typed
  <1>2. job'[j] = n
    BY DEF Typed
  <1>3. \A i \in DOMAIN findings : findings[i].job # j
    <2>1. j # None
      BY NoneAssumption DEF Jobs
    <2> QED
      BY <2>1 DEF Closing, Linked
  <1> QED
    BY <1>1, <1>2, <1>3, JobOf DEF Closing, Linked, ReadAll, Untouched, RemediatedIsEarned,
                                    NoOpenAfterSuccess, DecidedStays

LEMMA ReadCloses ==
    ASSUME Typed, Closing, NEW j \in Jobs, ReadClosable(j)
    PROVE  Closing'
  <1> DEFINE n == [job[j] EXCEPT !.status = "closing", !.closes = ClosableOf(j)]
  <1>1. ClosableOf(j) \in SUBSET Nat
    BY SequenceFacts DEF ClosableOf
  <1>2. /\ n.status = "closing" /\ n.finding = job[j].finding /\ n.closes = ClosableOf(j)
        /\ n.succeeded = job[j].succeeded
    BY <1>1, ClosingFacts DEF Typed
  <1>3. /\ job' = [job EXCEPT ![j] = n] /\ job[j].status = "applied" /\ UNCHANGED <<findings, settled>>
    BY DEF ReadClosable, Typed
  <1> HIDE DEF n
  <1>4. /\ \A i \in Jobs \ {j} : job'[i] = job[i]
        /\ job'[j] = n
    BY <1>3 DEF Typed
  <1>5. \A i \in ClosableOf(j) : i \in DOMAIN findings /\ findings[i].job = j /\ findings[i].status = "new"
    BY DEF ClosableOf
  <1>6. j # None
    BY NoneAssumption DEF Jobs
  <1>7. Linked'
    BY <1>2, <1>3, <1>4, <1>5, <1>6, JobOf DEF Closing, Linked
  <1>8. ReadAll'
    BY <1>2, <1>3, <1>4 DEF Closing, ReadAll, ClosableOf
  <1>9. Untouched'
    BY <1>2, <1>3, <1>4, <1>5 DEF Closing, Untouched, DecidedStays
  <1>10. RemediatedIsEarned' /\ NoOpenAfterSuccess' /\ DecidedStays'
    BY <1>2, <1>3, <1>4, JobOf DEF Closing, RemediatedIsEarned, NoOpenAfterSuccess, DecidedStays
  <1> QED
    BY <1>7, <1>8, <1>9, <1>10 DEF Closing

LEMMA SucceedCloses ==
    ASSUME Typed, Closing, NEW j \in Jobs, Succeed(j)
    PROVE  Closing'
  <1> DEFINE n == [job[j] EXCEPT !.status = "idle", !.succeeded = TRUE, !.closes = {}]
  <1>1. /\ job[j].status = "closing" /\ job' = [job EXCEPT ![j] = n]
        /\ settled' = settled /\ DOMAIN findings' = DOMAIN findings
    BY DEF Succeed, Typed
  <1>2. /\ \A i \in Jobs \ {j} : job'[i] = job[i]
        /\ job'[j].status = "idle" /\ job'[j].finding = job[j].finding
        /\ job'[j].closes = {} /\ job'[j].succeeded
    <2>1. job[j] \in JobType
      BY DEF Typed
    <2>2. /\ n.status = "idle" /\ n.finding = job[j].finding
          /\ n.closes = {} /\ n.succeeded
      BY <2>1, JobFacts
    <2> HIDE DEF n
    <2>3. job'[j] = n /\ \A i \in Jobs \ {j} : job'[i] = job[i]
      BY <1>1 DEF Typed
    <2> QED
      BY <2>2, <2>3
  <1> HIDE DEF n
  <1>3. \A i \in DOMAIN findings :
           /\ findings'[i].job = findings[i].job
           /\ findings'[i].status = IF i \in job[j].closes THEN "remediated" ELSE findings[i].status
    BY SequenceFacts, FindingFacts DEF Succeed, FindingStatus
  <1>4. Linked'
    BY <1>1, <1>2, <1>3, JobOf DEF Closing, Linked
  <1>5. ReadAll'
    BY <1>1, <1>2, <1>3 DEF Closing, ReadAll
  <1>6. Untouched' /\ DecidedStays'
    BY <1>1, <1>2, <1>3 DEF Closing, Untouched, DecidedStays
  <1>7. RemediatedIsEarned'
    BY <1>1, <1>2, <1>3 DEF Closing, Linked, RemediatedIsEarned
  <1>8. NoOpenAfterSuccess'
    BY <1>1, <1>2, <1>3, JobOf DEF Closing, ReadAll, NoOpenAfterSuccess
  <1> QED
    BY <1>4, <1>5, <1>6, <1>7, <1>8 DEF Closing

LEMMA DecisionCloses ==
    ASSUME Typed, Reads, Closing, NEW s \in Sessions, EndDecision(s)
    PROVE  Closing'
  <1> DEFINE me == triage[s]
             i == me.finding
             x == Assign(Decision[me.pc], me.read.status, findings[i].status)
  <1>1. me \in TriageType /\ i \in DOMAIN findings /\ me.pc \in {"accept", "ignore"}
    BY FreeFacts DEF EndDecision, Typed, Reads, Decision
  <1>2. Decision[me.pc] \in {"accepted", "ignored"}
    BY <1>1 DEF Decision
  <1>3. x = findings[i].status \/ x \in {"accepted", "ignored"}
    BY <1>2 DEF Assign
  <1>4. findings[i] \in FindingType /\ x \in FindingStatus
    BY <1>1, <1>3, SequenceFacts DEF FindingType, FindingStatus
  <1>5. job' = job /\ findings' = [findings EXCEPT ![i] = [findings[i] EXCEPT !.status = x]]
    BY SequenceFacts DEF EndDecision, pipeline, Typed
  <1>6. settled' \subseteq settled \cup {i} /\ (i \in settled' \ settled => findings'[i].status = Decision[me.pc]
              /\ \A j \in Jobs : job[j].status = "closing" => i \notin job[j].closes)
    BY DEF EndDecision
  <1> HIDE DEF x, i
  <1>7. /\ DOMAIN findings' = DOMAIN findings
        /\ \A k \in DOMAIN findings \ {i} : findings'[k] = findings[k]
        /\ findings'[i].job = findings[i].job /\ findings'[i].status = x
    BY <1>1, <1>4, <1>5, FindingFacts
  <1>8. Linked' /\ ReadAll' /\ RemediatedIsEarned' /\ NoOpenAfterSuccess'
    BY <1>1, <1>3, <1>5, <1>7, JobOf DEF Closing, Linked, ReadAll, RemediatedIsEarned, NoOpenAfterSuccess
  <1>9. Untouched'
    BY <1>1, <1>5, <1>6, <1>7 DEF Closing, Untouched
  <1>10. DecidedStays'
    BY <1>2, <1>3, <1>6, <1>7 DEF Closing, Untouched, DecidedStays
  <1> QED
    BY <1>8, <1>9, <1>10 DEF Closing

LEMMA RestoreCloses ==
    ASSUME Typed, Reads, Closing, NEW s \in Sessions, NEW j \in Jobs, EndRestore(s, j)
    PROVE  Closing'
  <1> DEFINE me == triage[s]
             i == me.finding
             n == [NoJob EXCEPT !.status = "idle", !.key = me.read.key,
                                !.target = me.read.expected, !.finding = i]
  <1>1. me \in TriageType /\ i \in DOMAIN findings /\ i \in Nat
    BY FreeFacts, SequenceFacts DEF EndRestore, Typed, Reads
  <1>2. n.status = "idle" /\ n.finding = i /\ n.closes = {} /\ ~n.succeeded
    <2>1. me.read.key \in Keys /\ me.read.expected \in SUBSET Fields
      BY <1>1 DEF TriageType, FindingType
    <2>2. ASSUME NEW k \in Keys, NEW t \in SUBSET Fields, NEW x \in Nat
          PROVE  LET m == [NoJob EXCEPT !.status = "idle", !.key = k, !.target = t, !.finding = x]
                 IN  m.status = "idle" /\ m.finding = x /\ m.closes = {} /\ ~m.succeeded
      BY NoJobFacts DEF JobType
    <2> QED
      BY <1>1, <2>1, <2>2
  <1>3. /\ job[j].status = "absent" /\ job' = [job EXCEPT ![j] = n] /\ settled' = settled
        /\ findings' = [findings EXCEPT ![i] = [findings[i] EXCEPT !.job = j]]
    BY DEF EndRestore, IsNext, Remediating
  <1> HIDE DEF n, i
  <1>4. /\ \A k \in Jobs \ {j} : job'[k] = job[k]
        /\ job'[j] = n
    BY <1>3 DEF Typed
  <1>5. /\ DOMAIN findings' = DOMAIN findings
        /\ \A k \in DOMAIN findings \ {i} : findings'[k] = findings[k]
        /\ findings'[i].job = j /\ findings'[i].status = findings[i].status
    BY <1>1, <1>3, SequenceFacts, FindingFacts
  <1>6. \A k \in DOMAIN findings : findings[k].job # j
    <2>1. j # None
      BY NoneAssumption DEF Jobs
    <2> QED
      BY <1>3, <2>1 DEF Closing, Linked
  <1> QED
    BY <1>1, <1>2, <1>3, <1>4, <1>5, <1>6, JobOf
       DEF Closing, Linked, ReadAll, Untouched, RemediatedIsEarned, NoOpenAfterSuccess, DecidedStays

LEMMA QuietCloses ==
    ASSUME Closing, UNCHANGED <<findings, job, settled>>
    PROVE  Closing'
  BY DEF Closing, Linked, ReadAll, Untouched, RemediatedIsEarned, NoOpenAfterSuccess, DecidedStays

LEMMA ClosingStep == Typed /\ Reads /\ Closing /\ [Next]_vars => Closing'
  <1> SUFFICES ASSUME Typed, Reads, Closing, [Next]_vars
               PROVE  Closing'
    OBVIOUS
  <1>1. CASE Deployments
    <2>1. ASSUME NEW j \in Jobs, NEW k \in Keys, NEW target \in Targets, CreateJob(j, k, target)
          PROVE  Closing'
      <3> DEFINE n == [NoJob EXCEPT !.status = "idle", !.key = k, !.target = target]
      <3>1. target \in SUBSET Fields /\ 0 \in Nat
        BY StateAssumption
      <3>2. n \in JobType /\ n.status = "idle" /\ n.closes = {} /\ ~n.succeeded
        BY <3>1, DraftFacts
      <3>3. /\ job[j].status = "absent" /\ job' = [job EXCEPT ![j] = n]
            /\ UNCHANGED <<findings, settled>>
        BY <2>1 DEF CreateJob, IsNext
      <3> HIDE DEF n
      <3> QED
        BY <3>2, <3>3, NewJobCloses
    <2>2. ASSUME NEW k \in Keys, NEW state \in Edits, EditDevice(k, state)
          PROVE  Closing'
      BY <2>2, QuietCloses DEF EditDevice
    <2>3. ASSUME NEW a \in Assets, DeleteAsset(a)
          PROVE  Closing'
      BY <2>3, QuietCloses DEF DeleteAsset
    <2> QED
      BY <1>1, <2>1, <2>2, <2>3, StatusCloses, ReadCloses, SucceedCloses DEF Deployments
  <1>2. ASSUME NEW w \in Workers, Task(w) \/ LoseRun(w)
        PROVE  Closing'
    <2>1. CASE EndRun(w) \/ FailRun(w)
      BY <2>1, GrowCloses DEF EndRun, FailRun, pipeline
    <2>2. CASE \/ \E r \in Runs : Deliver(w, r)
               \/ \E k \in Keys : ReadExpected(w, k)
               \/ ReadDevice(w) \/ LoseRun(w)
      BY <2>2, QuietCloses DEF Deliver, ReadExpected, ReadDevice, LoseRun, pipeline
    <2> QED
      BY <1>2, <2>1, <2>2 DEF Task
  <1>3. ASSUME NEW s \in Sessions, Triage(s)
        PROVE  Closing'
    <2>1. CASE TriageDies(s) \/ \E op \in {"accept", "ignore", "restore"}, i \in DOMAIN findings :
                                    BeginTriage(s, op, i)
      BY <2>1, QuietCloses DEF TriageDies, BeginTriage, pipeline
    <2> QED
      BY <1>3, <2>1, DecisionCloses, RestoreCloses DEF Triage
  <1>4. CASE \/ \E r \in Runs : Analyze(r) \/ Redeliver(r)
             \/ \E u \in Users : MarkAllRead(u) \/ \E n \in DOMAIN notes : MarkRead(u, n)
             \/ UNCHANGED vars
    BY <1>4, QuietCloses DEF Analyze, Redeliver, MarkAllRead, MarkRead, pipeline, vars
  <1> QED
    BY <1>1, <1>2, <1>3, <1>4 DEF Next

LEMMA AlwaysClosing == Spec => [](Typed /\ Reads /\ Closing)
  <1>1. Init => Typed /\ Reads /\ Closing
    <2>1. Init => Closing
      BY NoJobFacts DEF Init, Closing, Linked, ReadAll, Untouched, RemediatedIsEarned,
                        NoOpenAfterSuccess, DecidedStays
    <2> QED
      BY <2>1, InitTyped
  <1>2. Typed /\ Reads /\ Closing /\ [Next]_vars => (Typed /\ Reads /\ Closing)'
    BY TypedStep, ClosingStep
  <1> QED
    BY <1>1, <1>2, PTL DEF Spec

\* A finding is remediated only after the deployment of a job created for it has succeeded,
\* whatever triage and other remediations came in between (create_remediation_job,
\* mark_remediated_by_configuration_job).
THEOREM RemediationIsEarned == Spec => []RemediatedIsEarned
  <1>1. Closing => RemediatedIsEarned
    BY DEF Closing
  <1> QED
    BY <1>1, AlwaysClosing, PTL

\* When the job that a finding names has succeeded, the finding is no longer open
\* (execute_deployment's last part).
THEOREM SuccessClosesItsFinding == Spec => []NoOpenAfterSuccess
  <1>1. Closing => NoOpenAfterSuccess
    BY DEF Closing
  <1> QED
    BY <1>1, AlwaysClosing, PTL

\* No deployment undoes the decision of a user, unless it had read the finding open and was
\* about to commit when the user decided (mark_remediated_by_configuration_job).
THEOREM DecisionsStay == Spec => []DecidedStays
  <1>1. Closing => DecidedStays
    BY DEF Closing
  <1> QED
    BY <1>1, AlwaysClosing, PTL
-----------------------------------------------------------------------------
(***************************************************************************)
(* What runs report.                                                       *)
(***************************************************************************)

NoteType == [user : Users, run : Runs, read : BOOLEAN]

\* A worker that executes a run.
OnRun(w, r) == worker[w].pc # "free" /\ worker[w].run = r

\* What a worker has found is of its run, of keys it has checked, and what it reads is the last
\* version as long as no deployment passed.
Found(me) ==
    me.pc # "free" =>
        /\ \A n \in DOMAIN me.pending : /\ me.pending[n].run = me.run
                                        /\ me.pending[n].clean => me.pending[n].drifted
        /\ me.pc = "loop" => Len(me.pending) <= me.checked
        /\ me.pc = "compare" => Len(me.pending) < me.checked
        /\ me.pc = "compare" /\ me.clean =>
               versions[me.key] # <<>> /\ me.expected = LatestState(me.key)

\* A run that was delivered once is executed once.
Once(r) ==
    /\ messages[r] <= 1
    /\ messages[r] = 1 => \A w \in Workers : ~OnRun(w, r)
    /\ \A v, w \in Workers : OnRun(v, r) /\ OnRun(w, r) => v = w
    /\ \A w \in Workers : OnRun(w, r) => worker[w].read = run[r]
    /\ messages[r] = 1 \/ (\E w \in Workers : OnRun(w, r)) => run[r].status = "running"

\* Its findings and notifications are committed with the status.
Reported(r) ==
    /\ run[r].status \in {"absent", "running"} => FindingsOf(r) = {} /\ NotesOf(r) = {}
    /\ run[r].status = "success" =>
          /\ run[r].found = Cardinality(FindingsOf(r))
          /\ run[r].found <= run[r].checked
          /\ Cardinality(NotesOf(r)) = IF run[r].found = 0 THEN 0 ELSE Cardinality(Triagers)
          /\ \A u \in Triagers : run[r].found > 0 => \E n \in NotesOf(r) : notes[n].user = u

Reporting ==
    /\ notes \in Seq(NoteType) /\ messages \in [Runs -> Nat]
    /\ \A w \in Workers : Found(worker[w])
    /\ \A r \in Runs \ redelivered : Once(r) /\ Reported(r)
    /\ FindingsAreReal

\* The findings and notifications stay those of the same runs.
KeepsFindings ==
    /\ DOMAIN findings' = DOMAIN findings
    /\ \A i \in DOMAIN findings : /\ findings'[i].run = findings[i].run
                                  /\ findings'[i].clean = findings[i].clean
                                  /\ findings'[i].drifted = findings[i].drifted
KeepsNotes ==
    /\ notes' \in Seq(NoteType) /\ DOMAIN notes' = DOMAIN notes
    /\ \A n \in DOMAIN notes : notes'[n].run = notes[n].run /\ notes'[n].user = notes[n].user

\* A worker goes on with its run, or becomes free.
GoesOn(w) ==
    worker'[w].pc # "free" => /\ worker[w].pc # "free" /\ worker'[w].run = worker[w].run
                              /\ worker'[w].read = worker[w].read

LEMMA KeepsReported ==
    ASSUME NEW r \in Runs, Reported(r), run'[r] = run[r], KeepsFindings, KeepsNotes
    PROVE  Reported(r)'
  <1>1. FindingsOf(r)' = FindingsOf(r)
    BY DEF FindingsOf, KeepsFindings
  <1>2. NotesOf(r)' = NotesOf(r)
    BY DEF NotesOf, KeepsNotes
  <1>3. \A n \in NotesOf(r) : notes'[n].user = notes[n].user
    BY DEF NotesOf, KeepsNotes
  <1> QED
    BY <1>1, <1>2, <1>3 DEF Reported

LEMMA KeepsOnce ==
    ASSUME NEW r \in Runs, Once(r), run'[r] = run[r], messages'[r] = messages[r],
           \A w \in Workers : GoesOn(w)
    PROVE  Once(r)'
  <1>1. \A w \in Workers : OnRun(w, r)' => OnRun(w, r) /\ worker'[w].read = worker[w].read
    BY DEF OnRun, GoesOn
  <1> QED
    BY <1>1 DEF Once

LEMMA KeepsReporting ==
    ASSUME Reporting, UNCHANGED <<run, messages>>, redelivered \subseteq redelivered',
           KeepsFindings, KeepsNotes, \A w \in Workers : GoesOn(w) /\ Found(worker[w])'
    PROVE  Reporting'
  <1>1. \A r \in Runs \ redelivered' : Once(r)' /\ Reported(r)'
    BY KeepsReported, KeepsOnce DEF Reporting
  <1>2. FindingsAreReal'
    BY DEF Reporting, FindingsAreReal, KeepsFindings
  <1> QED
    BY <1>1, <1>2 DEF Reporting, KeepsNotes

LEMMA Unchanged ==
    /\ UNCHANGED findings => KeepsFindings
    /\ Reporting /\ UNCHANGED notes => KeepsNotes
    /\ UNCHANGED worker => \A w \in Workers : GoesOn(w)
    /\ Reporting /\ UNCHANGED <<worker, versions>> => \A w \in Workers : Found(worker[w])'
  BY DEF KeepsFindings, KeepsNotes, GoesOn, Reporting, Found, LatestState

LEMMA FindingRun ==
    /\ \A f \in FindingType : \A x \in FindingStatus :
          /\ [f EXCEPT !.status = x].run = f.run
          /\ [f EXCEPT !.status = x].clean = f.clean /\ [f EXCEPT !.status = x].drifted = f.drifted
    /\ \A f \in FindingType : \A j \in Jobs :
          /\ [f EXCEPT !.job = j].run = f.run
          /\ [f EXCEPT !.job = j].clean = f.clean /\ [f EXCEPT !.job = j].drifted = f.drifted
  BY DEF FindingType

\* A deployment of k, at any of its steps.
LEMMA DisturbReports ==
    ASSUME Typed, Reads, Reporting, NEW k, Disturb(k), \A x \in Keys : x # k => versions'[x] = versions[x]
    PROVE  \A w \in Workers : GoesOn(w) /\ Found(worker[w])'
  <1> TAKE w \in Workers
  <1>1. CASE worker[w].pc = "compare" /\ worker[w].key = k
    <2> DEFINE n == [worker[w] EXCEPT !.clean = FALSE]
    <2>1. worker[w] \in WorkerType
      BY <1>1, FreeFacts DEF Typed
    <2>2. worker'[w] = n
      BY <1>1 DEF Disturb
    <2>3. /\ n.pc = "compare" /\ n.run = worker[w].run /\ n.read = worker[w].read /\ ~n.clean
          /\ n.pending = worker[w].pending /\ n.checked = worker[w].checked
      BY <1>1, <2>1 DEF WorkerType
    <2> HIDE DEF n
    <2> QED
      BY <1>1, <2>2, <2>3 DEF GoesOn, Found, Reporting
  <1>2. CASE ~(worker[w].pc = "compare" /\ worker[w].key = k)
    <2>1. worker'[w] = worker[w]
      BY <1>2 DEF Disturb
    <2>2. worker[w].pc = "compare" => versions'[worker[w].key] = versions[worker[w].key]
      BY <1>2 DEF Reads, WorkerReads
    <2> QED
      BY <2>1, <2>2 DEF GoesOn, Found, Reporting, LatestState
  <1> QED
    BY <1>1, <1>2

LEMMA DeploymentsReport ==
    ASSUME Typed, Reads, Reporting, Deployments
    PROVE  Reporting'
  <1>1. ASSUME NEW j \in Jobs, Apply(j) \/ FailDeployment(j)
        PROVE  Reporting'
    <2>1. /\ UNCHANGED <<run, messages, redelivered, findings, notes, versions>>
          /\ Disturb(job[j].key)
      BY <1>1 DEF Apply, FailDeployment
    <2>2. \A w \in Workers : GoesOn(w) /\ Found(worker[w])'
      BY <2>1, DisturbReports
    <2> QED
      BY <2>1, <2>2, Unchanged, KeepsReporting
  <1>2. ASSUME NEW j \in Jobs, Succeed(j)
        PROVE  Reporting'
    <2>1. /\ UNCHANGED <<run, messages, redelivered, notes>>
          /\ Disturb(job[j].key) /\ \A x \in Keys : x # job[j].key => versions'[x] = versions[x]
      BY <1>2 DEF Succeed, Typed
    <2>2. \A w \in Workers : GoesOn(w) /\ Found(worker[w])'
      BY <2>1, DisturbReports
    <2>3. KeepsFindings
      <3>1. DOMAIN findings' = DOMAIN findings
        BY <1>2 DEF Succeed
      <3>2. ASSUME NEW i \in DOMAIN findings
            PROVE  /\ findings'[i].run = findings[i].run
                   /\ findings'[i].clean = findings[i].clean
                   /\ findings'[i].drifted = findings[i].drifted
        <4>1. findings[i] \in FindingType /\ "remediated" \in FindingStatus
          BY SequenceFacts DEF FindingStatus
        <4>2. PICK x \in FindingStatus :
                 findings'[i] = findings[i] \/ findings'[i] = [findings[i] EXCEPT !.status = x]
          BY <1>2, <4>1 DEF Succeed
        <4> QED
          BY <4>1, <4>2 DEF FindingType
      <3> QED
        BY <3>1, <3>2 DEF KeepsFindings
    <2> QED
      BY <2>1, <2>2, <2>3, Unchanged, KeepsReporting
  <1>3. CASE \/ \E j \in Jobs : \/ \E k \in Keys, target \in Targets : CreateJob(j, k, target)
                                \/ ReadClosable(j)
             \/ \E k \in Keys, state \in Edits : EditDevice(k, state)
             \/ \E a \in Assets : DeleteAsset(a)
    <2>1. UNCHANGED <<run, messages, redelivered, findings, notes, versions, worker>>
      BY <1>3 DEF CreateJob, ReadClosable, EditDevice, DeleteAsset
    <2> QED
      BY <2>1, Unchanged, KeepsReporting
  <1> QED
    BY <1>1, <1>2, <1>3 DEF Deployments

LEMMA BrokerReports ==
    ASSUME Typed, Reporting, NEW r \in Runs, Analyze(r) \/ Redeliver(r)
    PROVE  Reporting'
  <1>1. CASE Redeliver(r)
    <2>1. /\ UNCHANGED <<run, findings, notes, versions, worker>>
          /\ messages' = [messages EXCEPT ![r] = 2] /\ redelivered' = redelivered \cup {r}
      BY <1>1 DEF Redeliver, pipeline
    <2>2. KeepsFindings /\ KeepsNotes /\ \A w \in Workers : GoesOn(w) /\ Found(worker[w])'
      BY <2>1, Unchanged
    <2>3. ASSUME NEW x \in Runs \ redelivered' PROVE Once(x)' /\ Reported(x)'
      <3>1. messages'[x] = messages[x] /\ x \in Runs \ redelivered
        BY <2>1 DEF Reporting
      <3> QED
        BY <2>1, <2>2, <3>1, KeepsOnce, KeepsReported DEF Reporting
    <2>4. FindingsAreReal' /\ messages' \in [Runs -> Nat]
      BY <2>1 DEF Reporting, FindingsAreReal
    <2> QED
      BY <2>2, <2>3, <2>4 DEF Reporting, KeepsNotes
  <1>2. CASE Analyze(r)
    <2>1. /\ UNCHANGED <<redelivered, findings, notes, versions, worker>>
          /\ run[r].status = "absent" /\ run' = [run EXCEPT ![r].status = "running"]
          /\ messages' = [messages EXCEPT ![r] = 1] \/ messages' = messages
      BY <1>2 DEF Analyze, pipeline
    <2>2. KeepsFindings /\ KeepsNotes /\ \A w \in Workers : GoesOn(w) /\ Found(worker[w])'
      BY <2>1, Unchanged
    <2>3. ASSUME NEW x \in Runs \ redelivered', x # r PROVE Once(x)' /\ Reported(x)'
      <3>1. messages'[x] = messages[x] /\ run'[x] = run[x] /\ x \in Runs \ redelivered
        BY <2>1, <2>3 DEF Reporting, Typed
      <3> QED
        BY <2>2, <3>1, KeepsOnce, KeepsReported DEF Reporting
    <2>4. ASSUME r \notin redelivered' PROVE Once(r)' /\ Reported(r)'
      <3>1. Once(r) /\ Reported(r)
        BY <2>1, <2>4 DEF Reporting
      <3>2. \A w \in Workers : ~OnRun(w, r)
        BY <2>1, <3>1 DEF Once
      <3>3. \A w \in Workers : ~OnRun(w, r)'
        BY <2>1, <3>2 DEF OnRun
      <3>4. run'[r].status = "running"
        <4>1. run[r] \in RunType
          BY DEF Typed
        <4> QED
          BY <2>1, <4>1 DEF Typed, RunType
      <3>5. messages'[r] <= 1
        BY <2>1, <3>1 DEF Once, Reporting
      <3>6. Once(r)'
        BY <3>3, <3>4, <3>5 DEF Once
      <3>7. Reported(r)'
        BY <2>1, <3>1, <3>4 DEF Reported, FindingsOf, NotesOf
      <3> QED
        BY <3>6, <3>7
    <2>5. FindingsAreReal' /\ messages' \in [Runs -> Nat]
      BY <2>1 DEF Reporting, FindingsAreReal
    <2> QED
      BY <2>2, <2>3, <2>4, <2>5 DEF Reporting, KeepsNotes
  <1> QED
    BY <1>1, <1>2

\* A worker begins with what is committed, and has found nothing.
LEMMA DeliverReports ==
    ASSUME Typed, Reporting, NEW w \in Workers, NEW r \in Runs, Deliver(w, r)
    PROVE  Reporting'
  <1> DEFINE me == [pc |-> "loop", run |-> r, read |-> run[r], todo |-> BaselineKeys,
                    key |-> None, expected |-> {}, clean |-> FALSE, checked |-> 0,
                    pending |-> <<>>]
  <1>1. /\ UNCHANGED <<run, redelivered, findings, notes, versions>>
        /\ messages[r] > 0 /\ worker[w].pc = "free"
        /\ messages' = [messages EXCEPT ![r] = @ - 1] /\ worker' = [worker EXCEPT ![w] = me]
    BY DEF Deliver, pipeline
  <1>2. /\ me.pc = "loop" /\ me.run = r /\ me.read = run[r] /\ me.pending = <<>> /\ me.checked = 0
    OBVIOUS
  <1> HIDE DEF me
  <1>3. worker'[w] = me /\ \A v \in Workers \ {w} : worker'[v] = worker[v]
    BY <1>1 DEF Typed
  <1>4. \A v \in Workers : Found(worker[v])'
    BY <1>1, <1>2, <1>3 DEF Found, Reporting, LatestState
  <1>5. KeepsFindings /\ KeepsNotes
    BY <1>1, Unchanged
  <1>6. ASSUME NEW x \in Runs \ redelivered' PROVE Reported(x)'
    BY <1>1, <1>5, KeepsReported DEF Reporting
  <1>7. ASSUME NEW x \in Runs \ redelivered', x # r PROVE Once(x)'
    <2>1. Once(x) /\ messages'[x] = messages[x]
      BY <1>1, <1>7 DEF Reporting
    <2>2. \A v \in Workers : OnRun(v, x)' => OnRun(v, x) /\ worker'[v] = worker[v]
      BY <1>2, <1>3, <1>7 DEF OnRun
    <2> QED
      BY <1>1, <2>1, <2>2 DEF Once
  <1>8. ASSUME r \notin redelivered' PROVE Once(r)'
    <2>1. Once(r) /\ messages[r] \in Nat
      BY <1>1, <1>8 DEF Reporting
    <2>2. messages[r] = 1 /\ messages'[r] = 0
      BY <1>1, <2>1 DEF Once, Reporting
    <2>3. run[r].status = "running" /\ \A v \in Workers : ~OnRun(v, r)
      BY <2>1, <2>2 DEF Once
    <2>4. \A v \in Workers : OnRun(v, r)' => v = w
      BY <1>3, <2>3 DEF OnRun
    <2> QED
      BY <1>1, <1>2, <1>3, <2>2, <2>3, <2>4 DEF Once
  <1>9. FindingsAreReal' /\ messages' \in [Runs -> Nat]
    BY <1>1 DEF Reporting, FindingsAreReal
  <1> QED
    BY <1>4, <1>5, <1>6, <1>7, <1>8, <1>9 DEF Reporting, KeepsNotes

\* A step of one worker that only looks.
LEMMA LookReports ==
    ASSUME Typed, Reporting, NEW w \in Workers, NEW me, worker' = [worker EXCEPT ![w] = me],
           UNCHANGED <<run, messages, redelivered, findings, notes, versions>>,
           Found(me), me.pc # "free" => worker[w].pc # "free" /\ me.run = worker[w].run
                                        /\ me.read = worker[w].read
    PROVE  Reporting'
  <1>1. worker'[w] = me /\ \A v \in Workers \ {w} : worker'[v] = worker[v]
    BY DEF Typed
  <1>2. \A v \in Workers : GoesOn(v) /\ Found(worker[v])'
    BY <1>1 DEF GoesOn, Found, Reporting, LatestState
  <1> QED
    BY <1>2, Unchanged, KeepsReporting

LEMMA ReadReports ==
    ASSUME Typed, Reads, Reporting, NEW w \in Workers, NEW k \in Keys, ReadExpected(w, k)
    PROVE  Reporting'
  <1> DEFINE old == worker[w]
             clean == InProgress(k) = {}
             e == LatestState(k)
             todo == old.todo \ {k}
             checked == old.checked + 1
             me == [old EXCEPT !.todo = todo, !.pc = "compare", !.key = k, !.expected = e,
                               !.clean = clean, !.checked = checked]
  <1>1. /\ UNCHANGED <<run, messages, redelivered, findings, notes, versions>>
        /\ old.pc = "loop" /\ k \in old.todo
    BY DEF ReadExpected, pipeline
  <1>2. old \in WorkerType /\ k \in BaselineKeys
    BY <1>1, FreeFacts DEF Typed, Reads, WorkerReads
  <1>3. worker' = [worker EXCEPT ![w] = me]
    BY DEF ReadExpected, Typed
  <1>4. old.checked \in Nat /\ Len(old.pending) \in Nat
    BY <1>2 DEF WorkerType
  <1>5. versions[k] # <<>>
    BY <1>2 DEF BaselineKeys
  <1>6. Found(old)
    BY DEF Reporting
  <1> HIDE DEF old, clean, e, todo, checked
  <1>7. /\ me.pc = "compare" /\ me.run = old.run /\ me.read = old.read /\ me.pending = old.pending
        /\ me.key = k /\ me.expected = e /\ me.checked = checked
    BY <1>2 DEF WorkerType
  <1> HIDE DEF me
  <1>8. Found(me)
    BY <1>1, <1>4, <1>5, <1>6, <1>7 DEF Found, e, checked
  <1> QED
    BY <1>1, <1>3, <1>7, <1>8, LookReports DEF old

LEMMA DiffReports ==
    ASSUME Typed, Reads, Reporting, NEW w \in Workers, ReadDevice(w)
    PROVE  Reporting'
  <1> DEFINE old == worker[w]
             diff == DiffFields(device[old.key], old.expected)
             finding == [run |-> old.run, key |-> old.key, expected |-> old.expected,
                         severity |-> Severity(diff), status |-> "new", job |-> None,
                         clean |-> old.clean, drifted |-> Drifted(old.key)]
  <1>1. /\ UNCHANGED <<run, messages, redelivered, findings, notes, versions>>
        /\ old.pc = "compare" /\ Found(old)
    BY DEF ReadDevice, pipeline, Reporting
  <1>2. old \in WorkerType
    BY <1>1, FreeFacts DEF Typed
  <1>3. old.checked \in Nat /\ old.pending \in Seq(FindingType) /\ Len(old.pending) \in Nat
    BY <1>2 DEF WorkerType
  <1>4. CASE worker' = [worker EXCEPT ![w].pc = "loop"]
    <2> DEFINE me == [old EXCEPT !.pc = "loop"]
    <2>1. /\ me.pc = "loop" /\ me.run = old.run /\ me.read = old.read /\ me.pending = old.pending
          /\ me.checked = old.checked
      BY <1>2 DEF WorkerType
    <2>2. worker' = [worker EXCEPT ![w] = me]
      BY <1>4 DEF Typed
    <2> HIDE DEF me
    <2>3. Found(me)
      BY <1>1, <1>3, <2>1 DEF Found
    <2> QED
      BY <1>1, <2>1, <2>2, <2>3, LookReports
  <1>5. CASE diff # {} /\ worker' = [worker EXCEPT ![w].pc = "loop", ![w].pending = Append(@, finding)]
    <2> DEFINE p == Append(old.pending, finding)
               me == [old EXCEPT !.pc = "loop", !.pending = p]
    <2>1. finding.run = old.run /\ finding.clean = old.clean /\ finding.drifted = Drifted(old.key)
      OBVIOUS
    <2>2. old.clean => Drifted(old.key)
      <3>1. device[old.key] # old.expected
        BY <1>5 DEF DiffFields
      <3> QED
        BY <1>1, <3>1 DEF Found, Drifted, LatestState
    <2>3. worker' = [worker EXCEPT ![w] = me]
      BY <1>5 DEF Typed
    <2> HIDE DEF finding
    <2>4. /\ Len(p) = Len(old.pending) + 1 /\ DOMAIN p = 1 .. Len(p)
          /\ \A n \in DOMAIN p : p[n] = IF n \in DOMAIN old.pending THEN old.pending[n] ELSE finding
      <3>1. /\ Len(p) = Len(old.pending) + 1 /\ p[Len(old.pending) + 1] = finding
            /\ \A n \in 1 .. Len(old.pending) : p[n] = old.pending[n]
            /\ DOMAIN p = 1 .. Len(p) /\ DOMAIN old.pending = 1 .. Len(old.pending)
        BY <1>3, LenProperties, AppendProperties
      <3> QED
        BY <1>3, <3>1
    <2> HIDE DEF p, old
    <2>5. /\ me.pc = "loop" /\ me.run = old.run /\ me.read = old.read /\ me.pending = p
          /\ me.checked = old.checked
      BY <1>2 DEF WorkerType
    <2> HIDE DEF me
    <2>6. Found(me)
      <3>1. \A n \in DOMAIN p : p[n].run = old.run /\ (p[n].clean => p[n].drifted)
        BY <1>1, <2>1, <2>2, <2>4 DEF Found
      <3>2. Len(p) <= old.checked
        BY <1>1, <1>3, <2>4 DEF Found
      <3> QED
        BY <2>5, <3>1, <3>2 DEF Found
    <2> QED
      BY <1>1, <2>3, <2>5, <2>6, LookReports DEF old
  <1> QED
    BY <1>4, <1>5 DEF ReadDevice

-----------------------------------------------------------------------------
\* A worker commits, and is free again.

LEMMA FreedOnce ==
    ASSUME Typed, Reporting, NEW w \in Workers, worker[w].pc # "free",
           worker' = [worker EXCEPT ![w] = Free], UNCHANGED <<messages, redelivered>>,
           \A r \in Runs : r # worker[w].run => run'[r] = run[r]
    PROVE  \A r \in Runs \ redelivered' : Once(r)'
  <1> TAKE r \in Runs \ redelivered'
  <1>1. Once(r) /\ messages[r] \in Nat
    BY DEF Reporting
  <1>2. worker'[w] = Free /\ \A v \in Workers \ {w} : worker'[v] = worker[v]
    BY DEF Typed
  <1>3. \A v \in Workers : GoesOn(v)
    BY <1>2, FreeFacts DEF GoesOn
  <1>4. CASE r # worker[w].run
    BY <1>1, <1>3, <1>4, KeepsOnce
  <1>5. CASE r = worker[w].run
    <2>1. messages[r] = 0
      BY <1>1, <1>5 DEF Once, OnRun
    <2>2. \A v \in Workers : ~OnRun(v, r)'
      BY <1>1, <1>2, <1>5, FreeFacts DEF Once, OnRun
    <2> QED
      BY <2>1, <2>2 DEF Once
  <1> QED
    BY <1>4, <1>5

LEMMA FreedFound ==
    ASSUME Typed, Reporting, NEW w \in Workers, worker' = [worker EXCEPT ![w] = Free],
           UNCHANGED versions
    PROVE  \A v \in Workers : Found(worker[v])'
  <1>1. worker'[w] = Free /\ \A v \in Workers \ {w} : worker'[v] = worker[v]
    BY DEF Typed
  <1> QED
    BY <1>1, FreeFacts DEF Found, Reporting, LatestState

LEMMA Interval ==
    ASSUME NEW m \in Nat, NEW k \in Nat
    PROVE  Cardinality(m + 1 .. m + k) = k
  <1>1. m + 1 \in Int /\ m + k \in Int
    OBVIOUS
  <1>2. Cardinality(m + 1 .. m + k) = IF m + 1 > m + k THEN 0 ELSE (m + k) - (m + 1) + 1
    BY <1>1, FS_Interval
  <1> QED
    BY <1>2

\* The findings a run commits are those it had made, behind the others.
LEMMA CommitsFindings ==
    ASSUME Typed, Reporting, NEW w \in Workers, worker[w].pc # "free",
           NEW x \in Runs, x = worker[w].run, NEW p, p = worker[w].pending,
           findings' = findings \o p
    PROVE  /\ \A r \in Runs : r # x => FindingsOf(r)' = FindingsOf(r)
           /\ FindingsOf(x)' = FindingsOf(x) \cup (Len(findings) + 1 .. Len(findings) + Len(p))
           /\ FindingsAreReal'
           /\ Len(findings) \in Nat /\ Len(p) \in Nat
  <1> DEFINE q == findings \o p
             m == Len(findings)
  <1>1. p \in Seq(FindingType)
    BY FreeFacts DEF Typed, WorkerType
  <1>2. \A n \in DOMAIN p : p[n].run = x /\ (p[n].clean => p[n].drifted)
    BY DEF Reporting, Found
  <1>3. findings \in Seq(FindingType)
    BY DEF Typed
  <1>4. /\ Len(q) = m + Len(p) /\ DOMAIN q = 1 .. Len(q) /\ m \in Nat /\ Len(p) \in Nat
        /\ DOMAIN p = 1 .. Len(p) /\ DOMAIN findings = 1 .. m
        /\ \A i \in 1 .. Len(q) : q[i] = IF i <= m THEN findings[i] ELSE p[i - m]
    BY <1>1, <1>3, ConcatProperties, LenProperties
  <1>5. findings' = q
    OBVIOUS
  <1> HIDE DEF q, m
  <1>6. DOMAIN q = DOMAIN findings \cup (m + 1 .. m + Len(p))
    BY <1>4
  <1>7. \A i \in DOMAIN findings : q[i] = findings[i]
    BY <1>4
  <1>8. \A i \in m + 1 .. m + Len(p) : q[i].run = x /\ (q[i].clean => q[i].drifted)
    <2> TAKE i \in m + 1 .. m + Len(p)
    <2>1. i - m \in DOMAIN p /\ q[i] = p[i - m]
      BY <1>4
    <2> QED
      BY <1>2, <2>1
  <1>9. \A r \in Runs : r # x => FindingsOf(r)' = FindingsOf(r)
    BY <1>5, <1>6, <1>7, <1>8 DEF FindingsOf
  <1>10. FindingsOf(x)' = FindingsOf(x) \cup (m + 1 .. m + Len(p))
    <2>1. FindingsOf(x)' = {i \in DOMAIN q : q[i].run = x}
      BY <1>5 DEF FindingsOf
    <2> QED
      BY <1>6, <1>7, <1>8, <2>1 DEF FindingsOf
  <1>11. FindingsAreReal'
    BY <1>5, <1>6, <1>7, <1>8 DEF FindingsAreReal, Reporting
  <1> QED
    BY <1>4, <1>9, <1>10, <1>11 DEF m

\* notify_users: one notification for every user with the permission.
LEMMA Notified ==
    ASSUME NEW r \in Runs, NEW found \in Nat
    PROVE  /\ NotifyAnyway(r, found) \in Seq(NoteType)
           /\ Len(NotifyAnyway(r, found)) = Cardinality(Triagers)
           /\ \A i \in DOMAIN NotifyAnyway(r, found) : NotifyAnyway(r, found)[i].run = r
           /\ \A u \in Triagers : \E i \in DOMAIN NotifyAnyway(r, found) :
                 NotifyAnyway(r, found)[i].user = u
  <1> DEFINE n == Cardinality(Triagers)
             All(q) == \A u \in Triagers : \E i \in DOMAIN q : q[i] = u
             order == CHOOSE q \in [1 .. n -> Triagers] : All(q)
             notice == [i \in DOMAIN order |-> [user |-> order[i], run |-> r, read |-> FALSE]]
  <1>1. IsFiniteSet(Triagers)
    <2>1. IsFiniteSet(Users) /\ Triagers \in SUBSET Users
      BY TriagerAssumption
    <2> QED
      BY <2>1, FS_Subset
  <1>2. n \in Nat /\ ExistsBijection(1 .. n, Triagers)
    BY <1>1, FS_CardinalityType
  <1>3. \E q \in [1 .. n -> Triagers] : All(q)
    <2>1. PICK q : q \in Bijection(1 .. n, Triagers)
      BY <1>2 DEF ExistsBijection
    <2>2. q \in [1 .. n -> Triagers] /\ \A u \in Triagers : \E i \in 1 .. n : q[i] = u
      BY <2>1 DEF Bijection, Injection, Surjection
    <2> QED
      BY <2>2
  <1>4. order \in [1 .. n -> Triagers] /\ All(order)
    <2> HIDE DEF All, n
    <2> QED
      BY <1>3
  <1>5. NotifyAnyway(r, found) = notice
    BY DEF NotifyAnyway
  <1> HIDE DEF order, n
  <1>6. DOMAIN order = 1 .. n /\ DOMAIN notice = 1 .. n
    BY <1>4
  <1>7. ASSUME NEW i \in 1 .. n
        PROVE  notice[i] \in NoteType /\ notice[i].run = r /\ notice[i].user = order[i]
    <2>1. order[i] \in Users
      BY <1>4, TriagerAssumption
    <2> QED
      BY <1>6, <2>1 DEF NoteType
  <1> HIDE DEF notice
  <1>8. notice \in [1 .. n -> NoteType]
    BY <1>6, <1>7 DEF notice
  <1>9. notice \in Seq(NoteType) /\ Len(notice) = n
    BY <1>2, <1>8, SeqDef, LenProperties
  <1>10. \A u \in Triagers : \E i \in DOMAIN notice : notice[i].user = u
    BY <1>4, <1>6, <1>7
  <1> QED
    BY <1>2, <1>5, <1>6, <1>7, <1>9, <1>10 DEF n

\* What is sent to the users, and what of it an exception leaves.
LEMMA NotificationFacts ==
    ASSUME NEW r \in Runs, NEW found \in Nat
    PROVE  LET s == Notifications(r, found)
           IN  /\ s \in Seq(NoteType) /\ \A i \in DOMAIN s : s[i].run = r
               /\ found = 0 => Len(s) = 0
               /\ found # 0 => /\ Len(s) = Cardinality(Triagers)
                               /\ \A u \in Triagers : \E i \in DOMAIN s : s[i].user = u
  <1> DEFINE s == Notifications(r, found)
  <1>1. CASE found = 0
    <2>1. s = <<>>
      BY <1>1 DEF Notifications
    <2> HIDE DEF s
    <2>2. s \in Seq(NoteType) /\ Len(s) = 0 /\ DOMAIN s = {}
      BY <2>1
    <2> QED
      BY <1>1, <2>2 DEF s
  <1>2. CASE found # 0
    <2> DEFINE a == NotifyAnyway(r, found)
    <2>1. s = a
      BY <1>2 DEF Notifications
    <2>2. /\ a \in Seq(NoteType) /\ Len(a) = Cardinality(Triagers)
          /\ \A i \in DOMAIN a : a[i].run = r
          /\ \A u \in Triagers : \E i \in DOMAIN a : a[i].user = u
      BY Notified
    <2> HIDE DEF a, s
    <2> QED
      BY <1>2, <2>1, <2>2 DEF s
  <1> QED
    BY <1>1, <1>2

LEMMA PrefixFacts ==
    ASSUME NEW r \in Runs, NEW s \in Seq(NoteType), \A i \in DOMAIN s : s[i].run = r,
           NEW n \in 0 .. Len(s)
    PROVE  /\ SubSeq(s, 1, n) \in Seq(NoteType)
           /\ \A i \in DOMAIN SubSeq(s, 1, n) : SubSeq(s, 1, n)[i].run = r
  <1>1. Len(s) \in Nat /\ DOMAIN s = 1 .. Len(s) /\ \A i \in 1 .. Len(s) : s[i] \in NoteType
    BY LenProperties
  <1>2. /\ SubSeq(s, 1, n) = [i \in 1 .. n |-> s[i]]
        /\ n \in Nat /\ 1 .. n \subseteq 1 .. Len(s)
    BY <1>1
  <1> DEFINE q == [i \in 1 .. n |-> s[i]]
  <1>3. q \in [1 .. n -> NoteType] /\ DOMAIN q = 1 .. n /\ \A i \in 1 .. n : q[i].run = r
    BY <1>1, <1>2
  <1>4. q \in Seq(NoteType)
    BY <1>2, <1>3, SeqDef
  <1> QED
    BY <1>2, <1>3, <1>4

\* The notifications of a run follow those there are.
LEMMA AddsNotes ==
    ASSUME Reporting, NEW r \in Runs, NEW s \in Seq(NoteType), \A i \in DOMAIN s : s[i].run = r,
           notes' = notes \o s
    PROVE  /\ notes' \in Seq(NoteType)
           /\ \A x \in Runs : x # r => NotesOf(x)' = NotesOf(x)
                                      /\ \A n \in NotesOf(x) : notes'[n].user = notes[n].user
           /\ Len(notes) \in Nat /\ Len(s) \in Nat /\ DOMAIN s = 1 .. Len(s)
           /\ NotesOf(r)' = NotesOf(r) \cup (Len(notes) + 1 .. Len(notes) + Len(s))
           /\ \A i \in Len(notes) + 1 .. Len(notes) + Len(s) :
                 i - Len(notes) \in DOMAIN s /\ notes'[i] = s[i - Len(notes)]
  <1> DEFINE m == Len(notes)
             q == notes \o s
  <1>1. notes \in Seq(NoteType)
    BY DEF Reporting
  <1>2. /\ q \in Seq(NoteType) /\ Len(q) = m + Len(s) /\ DOMAIN q = 1 .. Len(q) /\ m \in Nat
        /\ Len(s) \in Nat /\ DOMAIN s = 1 .. Len(s) /\ DOMAIN notes = 1 .. m
        /\ \A i \in 1 .. Len(q) : q[i] = IF i <= m THEN notes[i] ELSE s[i - m]
    BY <1>1, ConcatProperties, LenProperties
  <1>3. notes' = q /\ Len(notes) = m
    OBVIOUS
  <1> HIDE DEF q, m
  <1>4. DOMAIN q = DOMAIN notes \cup (m + 1 .. m + Len(s))
    BY <1>2
  <1>5. \A i \in DOMAIN notes : q[i] = notes[i] /\ i <= m
    BY <1>2
  <1>6. ASSUME NEW i \in m + 1 .. m + Len(s)
        PROVE  i - m \in DOMAIN s /\ q[i] = s[i - m] /\ q[i].run = r
    <2>1. i \in 1 .. Len(q) /\ ~(i <= m) /\ i - m \in 1 .. Len(s)
      BY <1>2
    <2>2. q[i] = s[i - m] /\ i - m \in DOMAIN s
      BY <1>2, <2>1
    <2> QED
      BY <2>2
  <1>7. \A x \in Runs : NotesOf(x)' = {i \in DOMAIN q : q[i].run = x}
    BY <1>3 DEF NotesOf
  <1>8. ASSUME NEW x \in Runs, x # r
        PROVE  NotesOf(x)' = NotesOf(x) /\ \A n \in NotesOf(x) : notes'[n].user = notes[n].user
    BY <1>3, <1>4, <1>5, <1>6, <1>7, <1>8 DEF NotesOf
  <1>9. NotesOf(r)' = NotesOf(r) \cup (m + 1 .. m + Len(s))
    BY <1>4, <1>5, <1>6, <1>7 DEF NotesOf
  <1> QED
    BY <1>2, <1>3, <1>6, <1>8, <1>9

LEMMA CommitsNotes ==
    ASSUME Reporting, NEW r \in Runs, NEW found \in Nat,
           notes' = notes \o Notifications(r, found)
    PROVE  /\ notes' \in Seq(NoteType)
           /\ \A x \in Runs : x # r => NotesOf(x)' = NotesOf(x)
                                      /\ \A n \in NotesOf(x) : notes'[n].user = notes[n].user
           /\ found = 0 => NotesOf(r)' = NotesOf(r)
           /\ found # 0 /\ NotesOf(r) = {} =>
                 /\ Cardinality(NotesOf(r)') = Cardinality(Triagers)
                 /\ \A u \in Triagers : \E n \in NotesOf(r)' : notes'[n].user = u
  <1> DEFINE s == Notifications(r, found)
             m == Len(notes)
  <1>1. /\ s \in Seq(NoteType) /\ \A i \in DOMAIN s : s[i].run = r
        /\ found = 0 => Len(s) = 0
        /\ found # 0 => /\ Len(s) = Cardinality(Triagers)
                        /\ \A u \in Triagers : \E i \in DOMAIN s : s[i].user = u
    BY NotificationFacts
  <1>2. notes' = notes \o s
    OBVIOUS
  <1> HIDE DEF s
  <1>3. /\ notes' \in Seq(NoteType)
        /\ \A x \in Runs : x # r => NotesOf(x)' = NotesOf(x)
                                   /\ \A n \in NotesOf(x) : notes'[n].user = notes[n].user
        /\ m \in Nat /\ Len(s) \in Nat /\ DOMAIN s = 1 .. Len(s)
        /\ NotesOf(r)' = NotesOf(r) \cup (m + 1 .. m + Len(s))
        /\ \A i \in m + 1 .. m + Len(s) : i - m \in DOMAIN s /\ notes'[i] = s[i - m]
    BY <1>1, <1>2, AddsNotes
  <1> HIDE DEF m
  <1>4. ASSUME found = 0 PROVE NotesOf(r)' = NotesOf(r)
    BY <1>1, <1>3, <1>4
  <1>5. ASSUME found # 0, NotesOf(r) = {}
        PROVE  /\ Cardinality(NotesOf(r)') = Cardinality(Triagers)
               /\ \A u \in Triagers : \E n \in NotesOf(r)' : notes'[n].user = u
    <2>1. NotesOf(r)' = m + 1 .. m + Len(s)
      BY <1>3, <1>5
    <2>2. Cardinality(m + 1 .. m + Len(s)) = Len(s)
      BY <1>3, Interval
    <2>3. ASSUME NEW u \in Triagers PROVE \E n \in NotesOf(r)' : notes'[n].user = u
      <3>1. PICK i \in DOMAIN s : s[i].user = u
        BY <1>1, <1>5
      <3>2. m + i \in m + 1 .. m + Len(s) /\ (m + i) - m = i
        BY <1>3
      <3>3. notes'[m + i].user = u
        BY <1>3, <3>1, <3>2
      <3> QED
        BY <2>1, <3>2, <3>3
    <2> QED
      BY <1>1, <1>5, <2>1, <2>2, <2>3
  <1> QED
    BY <1>3, <1>4, <1>5

\* A run that was delivered once has written nothing before it ends.
LEMMA Unreported ==
    ASSUME Typed, Reporting, NEW w \in Workers, worker[w].pc # "free",
           NEW x \in Runs \ redelivered, x = worker[w].run
    PROVE  /\ worker[w].read = run[x] /\ run[x].status = "running"
           /\ FindingsOf(x) = {} /\ NotesOf(x) = {}
  <1>1. worker[w].read = run[x] /\ run[x].status = "running"
    BY DEF Reporting, Once, OnRun
  <1>2. FindingsOf(x) = {} /\ NotesOf(x) = {}
    BY <1>1 DEF Reporting, Reported
  <1> QED
    BY <1>1, <1>2

LEMMA EndedOthers ==
    ASSUME Typed, NEW w \in Workers, NEW status, NEW checked, NEW found,
           Ended(w, status, checked, found)
    PROVE  \A r \in Runs : r # worker[w].run => run'[r] = run[r]
  BY DEF Ended, Typed

\* The unit of work writes what the run reports, for it read what is there.
LEMMA EndedOnce ==
    ASSUME Typed, Reporting, NEW w \in Workers, worker[w].pc # "free",
           NEW x \in Runs \ redelivered, x = worker[w].run,
           NEW status, NEW checked, NEW found, Ended(w, status, checked, found)
    PROVE  run'[x].status = status /\ run'[x].checked = checked /\ run'[x].found = found
  <1> DEFINE new == [status |-> Assign(status, worker[w].read.status, run[x].status),
                     checked |-> Assign(checked, worker[w].read.checked, run[x].checked),
                     found |-> Assign(found, worker[w].read.found, run[x].found)]
  <1>1. run' = [run EXCEPT ![x] = new]
    BY DEF Ended, Typed
  <1>2. new.status = status /\ new.checked = checked /\ new.found = found
    BY Unreported DEF Assign
  <1> HIDE DEF new
  <1>3. run'[x] = new
    BY <1>1 DEF Typed
  <1> QED
    BY <1>2, <1>3

LEMMA EndReports ==
    ASSUME Typed, Reads, Reporting, NEW w \in Workers, EndRun(w) \/ FailRun(w)
    PROVE  Reporting'
  <1> DEFINE me == worker[w]
  <1>1. /\ me.pc = "loop" /\ worker' = [worker EXCEPT ![w] = Free]
        /\ findings' = findings \o me.pending
        /\ UNCHANGED <<versions, messages, redelivered>>
    BY DEF EndRun, FailRun, pipeline
  <1>2. me \in WorkerType /\ me.pc # "free"
    BY <1>1, FreeFacts DEF Typed
  <1>3. /\ me.run \in Runs /\ me.checked \in Nat /\ Len(me.pending) \in Nat
        /\ me.read.checked \in Nat /\ me.read.found \in Nat
    BY <1>2 DEF WorkerType, RunType
  <1> PICK x \in Runs : x = me.run
    BY <1>3
  <1> PICK p : p = me.pending
    OBVIOUS
  <1> PICK found \in Nat : found = Len(p)
    BY <1>3
  <1> PICK done \in Nat : done = me.checked
    BY <1>3
  <1>4. found <= done
    BY <1>1 DEF Reporting, Found
  <1>5. /\ \A r \in Runs : r # x => FindingsOf(r)' = FindingsOf(r)
        /\ FindingsOf(x)' = FindingsOf(x) \cup (Len(findings) + 1 .. Len(findings) + found)
        /\ FindingsAreReal'
        /\ Len(findings) \in Nat
    BY <1>1, <1>2, CommitsFindings
  <1>6. Cardinality(Len(findings) + 1 .. Len(findings) + found) = found
    BY <1>3, <1>5, Interval
  <1>7. \A v \in Workers : Found(worker[v])'
    BY <1>1, FreedFound
  <1>8. CASE EndRun(w)
    <2>1. Ended(w, "success", done, found) /\ notes' = notes \o Notifications(x, found)
      BY <1>8 DEF EndRun
    <2>2. /\ \A r \in Runs : r # x => run'[r] = run[r]
          /\ x \notin redelivered =>
                /\ run'[x].status = "success" /\ run'[x].checked = done /\ run'[x].found = found
                /\ FindingsOf(x) = {} /\ NotesOf(x) = {}
      <3>1. x \notin redelivered =>
               run'[x].status = "success" /\ run'[x].checked = done /\ run'[x].found = found
        BY <1>2, <2>1, EndedOnce
      <3>2. x \notin redelivered => FindingsOf(x) = {} /\ NotesOf(x) = {}
        BY <1>2, Unreported
      <3> QED
        BY <2>1, <3>1, <3>2, EndedOthers
    <2>3. /\ notes' \in Seq(NoteType)
          /\ \A r \in Runs : r # x => NotesOf(r)' = NotesOf(r)
                                     /\ \A n \in NotesOf(r) : notes'[n].user = notes[n].user
          /\ found = 0 => NotesOf(x)' = NotesOf(x)
          /\ found # 0 /\ NotesOf(x) = {} =>
                /\ Cardinality(NotesOf(x)') = Cardinality(Triagers)
                /\ \A u \in Triagers : \E n \in NotesOf(x)' : notes'[n].user = u
      BY <1>3, <2>1, CommitsNotes
    <2>4. \A r \in Runs \ redelivered' : Once(r)'
      BY <1>1, <1>2, <2>2, FreedOnce
    <2>5. ASSUME NEW r \in Runs \ redelivered', r # x PROVE Reported(r)'
      <3>1. Reported(r) /\ run'[r] = run[r] /\ FindingsOf(r)' = FindingsOf(r)
        BY <1>1, <1>5, <2>2, <2>5 DEF Reporting
      <3>2. NotesOf(r)' = NotesOf(r) /\ \A n \in NotesOf(r) : notes'[n].user = notes[n].user
        BY <2>3, <2>5
      <3> QED
        BY <3>1, <3>2 DEF Reported
    <2>6. ASSUME x \notin redelivered' PROVE Reported(x)'
      <3>1. FindingsOf(x) = {} /\ NotesOf(x) = {}
        BY <1>1, <2>2, <2>6
      <3>2. run'[x].status = "success" /\ run'[x].checked = done /\ run'[x].found = found
        BY <1>1, <2>2, <2>6
      <3>3. Cardinality(FindingsOf(x)') = found
        BY <1>5, <1>6, <3>1
      <3>4. Cardinality(NotesOf(x)') = IF found = 0 THEN 0 ELSE Cardinality(Triagers)
        BY <1>3, <2>3, <3>1, FS_EmptySet
      <3>5. \A u \in Triagers : found > 0 => \E n \in NotesOf(x)' : notes'[n].user = u
        BY <1>3, <2>3, <3>1
      <3> QED
        BY <1>4, <3>2, <3>3, <3>4, <3>5 DEF Reported
    <2> QED
      BY <1>1, <1>5, <1>7, <2>3, <2>4, <2>5, <2>6 DEF Reporting
  <1>9. CASE FailRun(w)
    <2>1. PICK z1 \in Nat, z2 \in Nat : Ended(w, "failed", z1, z2)
      BY <1>3, <1>9 DEF FailRun, MarkedFailed
    <2>2. /\ \A r \in Runs : r # x => run'[r] = run[r]
          /\ x \notin redelivered => run'[x].status = "failed"
      <3>1. x \notin redelivered => run'[x].status = "failed"
        BY <1>2, <2>1, EndedOnce
      <3> QED
        BY <2>1, <3>1, EndedOthers
    <2>3. /\ notes' \in Seq(NoteType)
          /\ \A r \in Runs : r # x => NotesOf(r)' = NotesOf(r)
                                     /\ \A n \in NotesOf(r) : notes'[n].user = notes[n].user
      <3>1. CASE notes' = notes
        BY <3>1 DEF Reporting, NotesOf
      <3>2. CASE notes' # notes
        <4> DEFINE due == Notifications(x, found)
        <4>1. PICK n \in 0 .. Len(due) : notes' = notes \o SubSeq(due, 1, n)
          BY <1>9, <3>2 DEF FailRun
        <4>2. due \in Seq(NoteType) /\ \A i \in DOMAIN due : due[i].run = x
          BY NotificationFacts
        <4> HIDE DEF due
        <4>3. /\ SubSeq(due, 1, n) \in Seq(NoteType)
              /\ \A i \in DOMAIN SubSeq(due, 1, n) : SubSeq(due, 1, n)[i].run = x
          BY <4>2, PrefixFacts
        <4> QED
          BY <4>1, <4>3, AddsNotes
      <3> QED
        BY <3>1, <3>2
    <2>4. \A r \in Runs \ redelivered' : Once(r)'
      BY <1>1, <1>2, <2>2, FreedOnce
    <2>5. ASSUME NEW r \in Runs \ redelivered' PROVE Reported(r)'
      <3>1. CASE r = x
        BY <1>1, <2>2, <3>1 DEF Reported
      <3>2. CASE r # x
        <4>1. Reported(r) /\ run'[r] = run[r] /\ FindingsOf(r)' = FindingsOf(r)
          BY <1>1, <1>5, <2>2, <3>2 DEF Reporting
        <4>2. NotesOf(r)' = NotesOf(r) /\ \A n \in NotesOf(r) : notes'[n].user = notes[n].user
          BY <2>3, <3>2
        <4> QED
          BY <4>1, <4>2 DEF Reported
      <3> QED
        BY <3>1, <3>2
    <2> QED
      BY <1>1, <1>5, <1>7, <2>3, <2>4, <2>5 DEF Reporting
  <1> QED
    BY <1>8, <1>9

LEMMA TasksReport ==
    ASSUME Typed, Reads, Reporting, NEW w \in Workers, Task(w) \/ LoseRun(w)
    PROVE  Reporting'
  <1>1. CASE LoseRun(w)
    <2>1. /\ UNCHANGED <<run, messages, redelivered, findings, notes, versions>>
          /\ worker' = [worker EXCEPT ![w] = Free]
      BY <1>1 DEF LoseRun, pipeline
    <2>2. Found(Free) /\ Free.pc = "free"
      BY FreeFacts DEF Found
    <2> QED
      BY <2>1, <2>2, LookReports
  <1> QED
    BY <1>1, DeliverReports, ReadReports, DiffReports, EndReports DEF Task

LEMMA TriageReports ==
    ASSUME Typed, Reads, Reporting, NEW s \in Sessions, Triage(s)
    PROVE  Reporting'
  <1>1. UNCHANGED <<run, messages, redelivered, notes, versions, worker>>
    BY DEF Triage, BeginTriage, EndDecision, EndRestore, TriageDies, pipeline
  <1>2. KeepsFindings
    <2>1. CASE findings' = findings
      BY <2>1 DEF KeepsFindings
    <2>2. CASE EndDecision(s)
      <3> DEFINE me == triage[s]
                 i == me.finding
                 x == Assign(Decision[me.pc], me.read.status, findings[i].status)
      <3>1. me \in TriageType /\ i \in DOMAIN findings /\ me.pc \in {"accept", "ignore"}
        BY <2>2, FreeFacts DEF EndDecision, Typed, Reads, Decision
      <3>2. findings[i] \in FindingType /\ x \in FindingStatus
        BY <3>1, SequenceFacts DEF Assign, Decision, FindingType, FindingStatus
      <3>3. findings' = [findings EXCEPT ![i] = [findings[i] EXCEPT !.status = x]]
        BY <2>2, SequenceFacts DEF EndDecision, Typed
      <3> HIDE DEF x, i
      <3> QED
        BY <3>1, <3>2, <3>3, FindingRun DEF KeepsFindings
    <2>3. ASSUME NEW j \in Jobs, EndRestore(s, j) PROVE KeepsFindings
      <3> DEFINE i == triage[s].finding
      <3>1. i \in DOMAIN findings /\ findings[i] \in FindingType
        BY <2>3, FreeFacts, SequenceFacts DEF EndRestore, Typed, Reads
      <3>2. findings' = [findings EXCEPT ![i] = [findings[i] EXCEPT !.job = j]]
        BY <2>3 DEF EndRestore, Remediating
      <3> HIDE DEF i
      <3> QED
        BY <3>1, <3>2, FindingRun DEF KeepsFindings
    <2> QED
      BY <2>1, <2>2, <2>3 DEF Triage, BeginTriage, TriageDies
  <1> QED
    BY <1>1, <1>2, Unchanged, KeepsReporting

LEMMA MarksReport ==
    ASSUME Typed, Reporting, NEW u \in Users,
           MarkAllRead(u) \/ \E n \in DOMAIN notes : MarkRead(u, n)
    PROVE  Reporting'
  <1>1. UNCHANGED <<run, messages, redelivered, findings, versions, worker>>
    BY DEF MarkAllRead, MarkRead, pipeline
  <1>2. /\ notes \in Seq(NoteType) /\ Len(notes) \in Nat /\ DOMAIN notes = 1 .. Len(notes)
        /\ \A n \in DOMAIN notes : notes[n] \in NoteType
    BY DEF Reporting
  <1>3. /\ DOMAIN notes' = DOMAIN notes
        /\ \A n \in DOMAIN notes : notes'[n] \in {notes[n], [notes[n] EXCEPT !.read = TRUE]}
    BY <1>2 DEF MarkAllRead, MarkRead
  <1>4. \A n \in DOMAIN notes : /\ notes'[n] \in NoteType /\ notes'[n].run = notes[n].run
                                /\ notes'[n].user = notes[n].user
    BY <1>2, <1>3 DEF NoteType
  <1>5. notes' = [n \in 1 .. Len(notes) |-> notes'[n]]
    BY <1>2 DEF MarkAllRead, MarkRead
  <1>6. notes' \in [1 .. Len(notes) -> NoteType]
    BY <1>2, <1>4, <1>5
  <1>7. notes' \in Seq(NoteType)
    BY <1>2, <1>6, SeqDef
  <1>8. KeepsNotes
    BY <1>3, <1>4, <1>7 DEF KeepsNotes
  <1> QED
    BY <1>1, <1>8, Unchanged, KeepsReporting

LEMMA ReportingStep == Typed /\ Reads /\ Reporting /\ [Next]_vars => Reporting'
  <1> SUFFICES ASSUME Typed, Reads, Reporting, [Next]_vars
               PROVE  Reporting'
    OBVIOUS
  <1>1. CASE UNCHANGED vars
    <2>1. UNCHANGED <<run, messages, redelivered, findings, notes, versions, worker>>
      BY <1>1 DEF vars, pipeline
    <2> QED
      BY <2>1, Unchanged, KeepsReporting
  <1> QED
    BY <1>1, DeploymentsReport, BrokerReports, TasksReport, TriageReports, MarksReport DEF Next

LEMMA AlwaysReporting == Spec => [](Typed /\ Reads /\ Reporting)
  <1>1. Init => Reporting
    <2> SUFFICES ASSUME Init PROVE Reporting
      OBVIOUS
    <2>1. /\ findings = <<>> /\ notes = <<>> /\ \A w \in Workers : worker[w].pc = "free"
          /\ \A r \in Runs : run[r].status = "absent" /\ messages[r] = 0
          /\ messages \in [Runs -> Nat]
      BY FreeFacts DEF Init, NoRun
    <2>2. \A r \in Runs : FindingsOf(r) = {} /\ NotesOf(r) = {}
      BY <2>1 DEF FindingsOf, NotesOf
    <2> QED
      BY <2>1, <2>2 DEF Reporting, Found, Once, Reported, OnRun, FindingsAreReal
  <1>2. Typed /\ Reads /\ Reporting /\ [Next]_vars => (Typed /\ Reads /\ Reporting)'
    BY TypedStep, ReportingStep
  <1> QED
    BY <1>1, <1>2, InitTyped, PTL DEF Spec

\* A run that was delivered once reports the findings it committed, of no more objects than it
\* checked, and tells every user who triages once; until it ends it shows none, even if its
\* message or its worker is lost (execute_drift_run, notify_users).
THEOREM RunsReport == Spec => []RunReports
  <1>1. Reporting => RunReports
    BY DEF Reporting, Reported, RunReports
  <1> QED
    BY <1>1, AlwaysReporting, PTL

\* A finding is a difference from the last version recorded, however deployments, changes by
\* hand and runs interleave, but for a deployment of the object that was in progress or passed
\* (execute_drift_run, get_latest_version_state, diff_fields).
THEOREM DifferencesAreReal == Spec => []FindingsAreReal
  <1>1. Reporting => FindingsAreReal
    BY DEF Reporting
  <1> QED
    BY <1>1, AlwaysReporting, PTL
=============================================================================
