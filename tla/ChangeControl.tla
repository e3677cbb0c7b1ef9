---------------------------- MODULE ChangeControl ----------------------------
(***************************************************************************)
(* Configuration jobs from draft to approved, and the approval requests    *)
(* that gate them.                                                         *)
(*                                                                         *)
(* Every operation is one HTTP request with a database transaction of its  *)
(* own, under READ COMMITTED and without row locks: it reads the committed *)
(* rows, checks them, and writes at the end, when other requests may have  *)
(* written in between.  An operation is therefore one or two reading steps *)
(* (Begin..., ReadJob) and a writing step (End...) of a session.  The ORM  *)
(* writes an attribute only when it differs from what the session read.    *)
(***************************************************************************)
EXTENDS Naturals, Sequences, FiniteSets

CONSTANTS
    Jobs,       \* configuration jobs
    Objects,    \* configuration objects
    JobOf,      \* the job an object is for
    Users,
    Sessions,   \* requests in progress at one time
    DeleteCounts \* how many objects of a job may be deletions: compute_change_type yields none

ASSUME JobOfAssumption == JobOf \in [Objects -> Jobs]

ASSUME DeleteCountsAssumption == DeleteCounts \subseteq Nat

JobStatus == {"absent", "draft", "generated", "validated", "pending_approval", "approved",
              "rejected", "failed"}
RequestStatus == {"none", "pending", "approved", "rejected"}
Risks == {"none", "low", "medium", "high", "critical"}

\* _REQUIRED_APPROVALS_BY_RISK
NoneRequired(risk) == IF risk \in {"high", "critical"} THEN 2 ELSE 0  \* mutant
RequiredApprovals(risk) == IF risk \in {"high", "critical"} THEN 2 ELSE 1

VARIABLES
    status,      \* configuration_jobs.status
    creator,     \* configuration_jobs.created_by
    risk,        \* configuration_jobs.risk_level
    present,     \* committed objects
    rendered,    \* those that generate has given operations
    checked,     \* those that validate has given a validation status
    request,     \* approval_requests.status, one request for a job
    required,    \* approval_requests.required_approvals
    approvals,   \* approve actions of a job's request: their users, in order
    deployable,  \* jobs a deployment was created for
    session,     \* what a request in progress has read
    raced        \* history: <<job, stage>>: two requests of the stage overlapped on the job

committed == <<status, creator, risk, present, rendered, checked, request, required, approvals,
               deployable>>
vars == <<committed, session, raced>>

Idle == [op |-> "idle"]

\* Requests that change one and the same part of a job's life.
Stage == [prepare |-> {"add_object", "generate", "validate", "submit"},
          decide |-> {"approve", "reject", "approving", "rejecting"}]
ObjectsOf(j) == {o \in present : JobOf[o] = j}

Init ==
    /\ status = [j \in Jobs |-> "absent"]
    /\ creator \in [Jobs -> Users]
    /\ risk = [j \in Jobs |-> "none"]
    /\ present = {} /\ rendered = {} /\ checked = {}
    /\ request = [j \in Jobs |-> "none"]
    /\ required = [j \in Jobs |-> 1]
    /\ approvals = [j \in Jobs |-> <<>>]
    /\ deployable = {}
    /\ session = [s \in Sessions |-> Idle]
    /\ raced = {}

InProgress(job, stage) ==
    \E t \in Sessions : session[t].op \in Stage[stage] /\ session[t].job = job

\* A request begins in session s; others may be in progress.
Open(s, r) ==
    /\ session[s].op = "idle"
    /\ session' = [session EXCEPT ![s] = r]
    /\ raced' = raced \cup {<<r.job, k>> : k \in {x \in DOMAIN Stage :
                                    r.op \in Stage[x] /\ InProgress(r.job, x)}}

Close(s) ==
    /\ session' = [session EXCEPT ![s] = Idle]
    /\ UNCHANGED raced

\* A request that is refused leaves nothing behind; one that is refused by its first check
\* is no step at all.
Abandon(s) == Close(s) /\ UNCHANGED committed

\* The API process dies, or a statement fails.
RequestDies(s) ==
    /\ session[s].op # "idle"
    /\ Abandon(s)

\* A session sets an attribute to a value: written if it is not the value read.
Assign(new, read, current) == IF new = read THEN current ELSE new

\* _require_status
JobExists(j, wanted) == status[j] # "absent"  \* mutant: the status is not checked
HasStatus(j, wanted) == status[j] = wanted

-----------------------------------------------------------------------------
(***************************************************************************)
(* Configuration service.                                                  *)
(***************************************************************************)

CreateJob(j) ==
    /\ status[j] = "absent"
    /\ status' = [status EXCEPT ![j] = "draft"]
    /\ UNCHANGED <<creator, risk, present, rendered, checked, request, required, approvals,
                   deployable, session, raced>>

BeginAddObject(s, o) ==
    /\ HasStatus(JobOf[o], "draft")
    /\ o \notin present
    /\ Open(s, [op |-> "add_object", job |-> JobOf[o], object |-> o])
    /\ UNCHANGED committed

EndAddObject(s) ==
    /\ session[s].op = "add_object"
    /\ present' = present \cup {session[s].object}
    /\ Close(s)
    /\ UNCHANGED <<status, creator, risk, rendered, checked, request, required, approvals,
                   deployable>>

BeginGenerate(s, j) ==
    /\ HasStatus(j, "draft")
    /\ ObjectsOf(j) # {}
    /\ Open(s, [op |-> "generate", job |-> j, objects |-> ObjectsOf(j)])
    /\ UNCHANGED committed

\* The objects read are rendered and ordered; a cycle, or a driver that cannot render an
\* object, fails the job, and what was set on the objects before is committed with it.
EndGenerate(s) ==
    /\ session[s].op = "generate"
    /\ \/ /\ status' = [status EXCEPT ![session[s].job] = "generated"]
          /\ rendered' = rendered \cup session[s].objects
       \/ /\ status' = [status EXCEPT ![session[s].job] = "failed"]
          /\ \E done \in SUBSET session[s].objects :
                done # session[s].objects /\ rendered' = rendered \cup done
    /\ Close(s)
    /\ UNCHANGED <<creator, risk, present, checked, request, required, approvals, deployable>>

\* validate: the risk of a job.
Risk(deletes, highCriticality) ==
    LET base == IF deletes >= 3 THEN "high" ELSE IF deletes >= 1 THEN "medium" ELSE "low"
    IN  IF ~highCriticality THEN base
        ELSE IF base = "low" THEN "medium" ELSE "high"

BeginValidate(s, j) ==
    /\ HasStatus(j, "generated")
    /\ Open(s, [op |-> "validate", job |-> j, objects |-> ObjectsOf(j), risk |-> risk[j]])
    /\ UNCHANGED committed

EndValidate(s) ==
    /\ session[s].op = "validate"
    /\ \E outcome \in {"validated", "failed"} :
          status' = [status EXCEPT ![session[s].job] = outcome]
    /\ \E deletes \in DeleteCounts, high \in BOOLEAN :
          risk' = [risk EXCEPT ![session[s].job] =
                     Assign(Risk(deletes, high), session[s].risk, @)]
    /\ checked' = checked \cup session[s].objects
    /\ Close(s)
    /\ UNCHANGED <<creator, present, rendered, request, required, approvals, deployable>>

BeginSubmit(s, j) ==
    /\ HasStatus(j, "validated")
    /\ Open(s, [op |-> "submit", job |-> j, risk |-> risk[j]])
    /\ UNCHANGED committed

\* The job and its request are written in one transaction.
EndSubmit(s) ==
    /\ session[s].op = "submit"
    /\ request[session[s].job] = "none"
    /\ status' = [status EXCEPT ![session[s].job] = "pending_approval"]
    /\ request' = [request EXCEPT ![session[s].job] = "pending"]
    /\ required' = [required EXCEPT ![session[s].job] = RequiredApprovals(session[s].risk)]
    /\ Close(s)
    /\ UNCHANGED <<creator, risk, present, rendered, checked, approvals, deployable>>

\* configuration_job_id is unique in approval_requests: a second request is an error.
SubmitRefused(s) ==
    /\ session[s].op = "submit"
    /\ request[session[s].job] # "none"
    /\ Abandon(s)

-----------------------------------------------------------------------------
(***************************************************************************)
(* Approval service.                                                       *)
(***************************************************************************)

\* approve and reject read the request first...
Exists(j) == request[j] # "none"  \* mutant: resolved requests are not refused
IsPending(j) == request[j] = "pending"

BeginDecision(s, j, u, op) ==
    /\ IsPending(j)
    /\ Open(s, [op |-> op, job |-> j, user |-> u])
    /\ UNCHANGED committed

\* ...then the job, and for an approval the actions taken so far.
Approvers(j) == {approvals[j][i] : i \in DOMAIN approvals[j]}
NotYet(u, j) == u \notin Approvers(j)  \* mutant: the creator is not looked at
MayApprove(u, j) == creator[j] # u /\ u \notin Approvers(j)

ReadForApproval(s) ==
    /\ session[s].op = "approve"
    /\ LET j == session[s].job
           u == session[s].user
       IN  \/ /\ MayApprove(u, j)
              /\ session' = [session EXCEPT ![s] =
                    [op |-> "approving", job |-> j, user |-> u, status |-> status[j],
                     before |-> Len(approvals[j])]]
              /\ UNCHANGED <<committed, raced>>
           \/ ~MayApprove(u, j) /\ Abandon(s)

ReadForRejection(s) ==
    /\ session[s].op = "reject"
    /\ LET j == session[s].job
       IN  session' = [session EXCEPT ![s] =
                         [op |-> "rejecting", job |-> j, status |-> status[j]]]
    /\ UNCHANGED <<committed, raced>>

\* mark_approved and mark_rejected, which do not ask what the job's status is.
NotMarked(read, current) == current  \* mutant: the job is not told
MarkApproved(read, current) == Assign("approved", read, current)
MarkRejected(read, current) == Assign("rejected", read, current)

\* The approval is counted against those read; enough of them resolve request and job.
EndApprove(s) ==
    /\ session[s].op = "approving"
    /\ LET j == session[s].job
           enough == session[s].before + 1 >= required[j]
       IN  /\ approvals' = [approvals EXCEPT ![j] = Append(@, session[s].user)]
           /\ request' = [request EXCEPT ![j] = IF enough THEN "approved" ELSE @]
           /\ status' = [status EXCEPT ![j] =
                           IF enough THEN MarkApproved(session[s].status, @) ELSE @]
    /\ Close(s)
    /\ UNCHANGED <<creator, risk, present, rendered, checked, required, deployable>>

EndReject(s) ==
    /\ session[s].op = "rejecting"
    /\ LET j == session[s].job
       IN  /\ request' = [request EXCEPT ![j] = "rejected"]
           /\ status' = [status EXCEPT ![j] = MarkRejected(session[s].status, @)]
    /\ Close(s)
    /\ UNCHANGED <<creator, risk, present, rendered, checked, required, approvals, deployable>>

-----------------------------------------------------------------------------
(***************************************************************************)
(* create_deployment_job, the reader of it all.                            *)
(***************************************************************************)

BeginDeploy(s, j) ==
    /\ HasStatus(j, "approved")
    /\ ObjectsOf(j) # {}
    /\ Open(s, [op |-> "deploy", job |-> j])
    /\ UNCHANGED committed

EndDeploy(s) ==
    /\ session[s].op = "deploy"
    /\ deployable' = deployable \cup {session[s].job}
    /\ Close(s)
    /\ UNCHANGED <<status, creator, risk, present, rendered, checked, request, required,
                   approvals>>

Next ==
    \/ \E j \in Jobs : CreateJob(j)
    \/ \E s \in Sessions, o \in Objects : BeginAddObject(s, o)
    \/ \E s \in Sessions, j \in Jobs :
          \/ BeginGenerate(s, j) \/ BeginValidate(s, j) \/ BeginSubmit(s, j) \/ BeginDeploy(s, j)
          \/ \E u \in Users, op \in {"approve", "reject"} : BeginDecision(s, j, u, op)
    \/ \E s \in Sessions :
          \/ EndAddObject(s) \/ EndGenerate(s) \/ EndValidate(s)
          \/ EndSubmit(s) \/ SubmitRefused(s)
          \/ ReadForApproval(s) \/ ReadForRejection(s) \/ EndApprove(s) \/ EndReject(s)
          \/ EndDeploy(s) \/ RequestDies(s)

Spec == Init /\ [][Next]_vars
-----------------------------------------------------------------------------
(***************************************************************************)
(* Correctness.                                                            *)
(***************************************************************************)

SessionType ==
    {Idle}
    \cup [op : {"add_object"}, job : Jobs, object : Objects]
    \cup [op : {"generate"}, job : Jobs, objects : SUBSET Objects]
    \cup [op : {"validate"}, job : Jobs, objects : SUBSET Objects, risk : Risks]
    \cup [op : {"submit"}, job : Jobs, risk : Risks]
    \cup [op : {"approve", "reject"}, job : Jobs, user : Users]
    \cup [op : {"approving"}, job : Jobs, user : Users, status : JobStatus, before : Nat]
    \cup [op : {"rejecting"}, job : Jobs, status : JobStatus]
    \cup [op : {"deploy"}, job : Jobs]

\* Every variable has its type, and an approval request asks for one or two approvals.
TypeOK ==
    /\ status \in [Jobs -> JobStatus]
    /\ creator \in [Jobs -> Users]
    /\ risk \in [Jobs -> Risks]
    /\ present \subseteq Objects
    /\ rendered \subseteq present
    /\ checked \subseteq present
    /\ request \in [Jobs -> RequestStatus]
    /\ required \in [Jobs -> {1, 2}]
    /\ approvals \in [Jobs -> Seq(Users)]
    /\ deployable \subseteq Jobs
    /\ session \in [Sessions -> SessionType]
    /\ raced \subseteq Jobs \X {"prepare", "decide"}

\* Whatever requests overlap, a job that is approved, or that a deployment was created for,
\* was approved by somebody, never by its creator, and by two users when its risk asks for
\* two: the four eyes of approve().
SomeoneElseApproved ==
    \A j \in Jobs : status[j] = "approved" \/ j \in deployable =>
        /\ Approvers(j) # {}
        /\ creator[j] \notin Approvers(j)
        /\ required[j] = 2 => \E u, v \in Approvers(j) : u # v

Sequential(j, stage) == <<j, stage>> \notin raced

\* Job and request tell the same story, written by two services in one transaction: as long
\* as no two requests of one stage overlap.
JobFollowsRequest ==
    \A j \in Jobs : Sequential(j, "prepare") /\ Sequential(j, "decide") =>
        /\ request[j] = "none" <=> status[j] \in {"absent", "draft", "generated", "validated",
                                                 "failed"}
        /\ request[j] = "pending" <=> status[j] = "pending_approval"
        /\ request[j] = "approved" <=> status[j] = "approved"
        /\ request[j] = "rejected" <=> status[j] = "rejected"

\* What is waiting for approval, approved or deployable is what was generated and
\* validated: no object joins the job after the reviewers' diff was made.
ApprovedIsReviewed ==
    \A j \in Jobs : Sequential(j, "prepare")
                    /\ (status[j] \in {"pending_approval", "approved"} \/ j \in deployable) =>
        ObjectsOf(j) \subseteq rendered \cap checked

\* No deployment is made of a job whose request is not approved, if no two decisions on it
\* overlap, however the preparation was interleaved.
DeployableIsApproved ==
    \A j \in Jobs : Sequential(j, "decide") /\ j \in deployable => request[j] = "approved"

Resolved(j) == request[j] \in {"approved", "rejected"}

\* A resolved request keeps its resolution, if no two decisions on it overlap.
ResolvedStays ==
    [][\A j \in Jobs : Resolved(j) /\ Sequential(j, "decide") => request'[j] = request[j]]_vars

\* "Approval request is already ...": approve and reject refuse what is resolved, so no
\* request would ever change its resolution.
ResolvedIsFinal == [][\A j \in Jobs : Resolved(j) => request'[j] = request[j]]_vars
=============================================================================
