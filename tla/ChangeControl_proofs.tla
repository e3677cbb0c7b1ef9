------------------------- MODULE ChangeControl_proofs -------------------------
(***************************************************************************)
(* Proofs about ChangeControl for any jobs, objects, users and numbers of  *)
(* overlapping requests: type correctness, that nothing is deployable that *)
(* somebody other than its creator did not approve, and what holds of jobs *)
(* whose requests did not overlap.                                         *)
(***************************************************************************)
EXTENDS ChangeControl, SequenceTheorems, TLAPS

\* What a session in progress carries, by its operation.
LEMMA SessionFacts ==
    ASSUME TypeOK, NEW s \in Sessions
    PROVE  LET r == session[s]
           IN  /\ r.op # "idle" => r.job \in Jobs
               /\ r.op = "add_object" => r.object \in Objects
               /\ r.op \in {"generate", "validate"} => r.objects \subseteq Objects
               /\ r.op \in {"validate", "submit"} => r.risk \in Risks
               /\ r.op \in {"approve", "reject", "approving"} => r.user \in Users
               /\ r.op \in {"approving", "rejecting"} => r.status \in JobStatus
               /\ r.op = "approving" => r.before \in Nat
  <1>1. session[s] \in SessionType
    BY DEF TypeOK
  <1> QED
    BY <1>1 DEF SessionType, Idle

\* The records a request starts with and goes on with.
LEMMA RecordFacts ==
    /\ Idle \in SessionType
    /\ \A j \in Jobs, o \in Objects :
          [op |-> "add_object", job |-> j, object |-> o] \in SessionType
    /\ \A j \in Jobs, os \in SUBSET Objects :
          [op |-> "generate", job |-> j, objects |-> os] \in SessionType
    /\ \A j \in Jobs, os \in SUBSET Objects, r \in Risks :
          [op |-> "validate", job |-> j, objects |-> os, risk |-> r] \in SessionType
    /\ \A j \in Jobs, r \in Risks : [op |-> "submit", job |-> j, risk |-> r] \in SessionType
    /\ \A j \in Jobs, u \in Users, op \in {"approve", "reject"} :
          [op |-> op, job |-> j, user |-> u] \in SessionType
    /\ \A j \in Jobs, u \in Users, st \in JobStatus, n \in Nat :
          [op |-> "approving", job |-> j, user |-> u, status |-> st, before |-> n] \in SessionType
    /\ \A j \in Jobs, st \in JobStatus :
          [op |-> "rejecting", job |-> j, status |-> st] \in SessionType
    /\ \A j \in Jobs : [op |-> "deploy", job |-> j] \in SessionType
  BY DEF SessionType

LEMMA OpenType ==
    ASSUME TypeOK, NEW s \in Sessions, NEW r \in SessionType, r.job \in Jobs, Open(s, r)
    PROVE  session' \in [Sessions -> SessionType] /\ raced' \subseteq Jobs \X {"prepare", "decide"}
  <1>1. DOMAIN Stage = {"prepare", "decide"}
    BY DEF Stage
  <1> QED
    BY <1>1 DEF TypeOK, Open

LEMMA CloseType ==
    ASSUME TypeOK, NEW s \in Sessions, Close(s)
    PROVE  session' \in [Sessions -> SessionType] /\ raced' \subseteq Jobs \X {"prepare", "decide"}
  BY RecordFacts DEF TypeOK, Close

\* Generate and validate have read objects that exist.
ReadsPresent ==
    \A s \in Sessions : session[s].op \in {"generate", "validate"} => session[s].objects \subseteq present

TypeInv == TypeOK /\ ReadsPresent

LEMMA InitTypeInv == Init => TypeInv
  <1> SUFFICES ASSUME Init
               PROVE  TypeInv
    OBVIOUS
  <1>1. session \in [Sessions -> SessionType]
    BY RecordFacts DEF Init
  <1>2. TypeOK
    BY <1>1 DEF Init, TypeOK, JobStatus, Risks, RequestStatus
  <1>3. ReadsPresent
    BY DEF Init, ReadsPresent, Idle
  <1> QED
    BY <1>2, <1>3 DEF TypeInv

\* A request that ends adds nothing to what the others have read.
LEMMA CloseReads ==
    ASSUME TypeInv, NEW s \in Sessions, Close(s), present \subseteq present'
    PROVE  ReadsPresent'
  BY DEF TypeInv, TypeOK, ReadsPresent, Close, Idle

THEOREM TypeInvStep == TypeInv /\ [Next]_vars => TypeInv'
  <1> SUFFICES ASSUME TypeInv, [Next]_vars
               PROVE  TypeInv'
    OBVIOUS
  <1> USE DEF committed
  <1>1. ASSUME NEW j \in Jobs, CreateJob(j)
        PROVE  TypeInv'
    BY <1>1 DEF CreateJob, TypeInv, TypeOK, ReadsPresent, JobStatus
  <1>2. ASSUME NEW s \in Sessions, NEW o \in Objects, BeginAddObject(s, o)
        PROVE  TypeInv'
    <2> DEFINE r == [op |-> "add_object", job |-> JobOf[o], object |-> o]
    <2>1. r \in SessionType /\ r.job \in Jobs
      BY JobOfAssumption, RecordFacts
    <2>2. session' \in [Sessions -> SessionType] /\ raced' \subseteq Jobs \X {"prepare", "decide"}
      BY <1>2, <2>1, OpenType DEF BeginAddObject, TypeInv
    <2>3. ReadsPresent'
      BY <1>2 DEF BeginAddObject, Open, TypeInv, TypeOK, ReadsPresent
    <2> QED
      BY <1>2, <2>2, <2>3 DEF BeginAddObject, TypeInv, TypeOK
  <1>3. ASSUME NEW s \in Sessions, NEW j \in Jobs, BeginGenerate(s, j) \/ BeginValidate(s, j)
        PROVE  TypeInv'
    <2>1. PICK r \in {[op |-> "generate", job |-> j, objects |-> ObjectsOf(j)],
                      [op |-> "validate", job |-> j, objects |-> ObjectsOf(j), risk |-> risk[j]]} :
             Open(s, r) /\ UNCHANGED committed
      BY <1>3 DEF BeginGenerate, BeginValidate
    <2>2. ObjectsOf(j) \subseteq present /\ ObjectsOf(j) \in SUBSET Objects /\ risk[j] \in Risks
      BY DEF ObjectsOf, TypeInv, TypeOK
    <2>3. r \in SessionType /\ r.job = j /\ r.objects = ObjectsOf(j)
      BY <2>2, RecordFacts
    <2>4. session' \in [Sessions -> SessionType] /\ raced' \subseteq Jobs \X {"prepare", "decide"}
      BY <2>1, <2>3, OpenType DEF TypeInv
    <2>5. ReadsPresent'
      BY <2>1, <2>2 DEF Open, TypeInv, TypeOK, ReadsPresent
    <2> QED
      BY <2>1, <2>4, <2>5 DEF TypeInv, TypeOK
  <1>4. ASSUME NEW s \in Sessions, NEW j \in Jobs, BeginSubmit(s, j) \/ BeginDeploy(s, j)
        PROVE  TypeInv'
    <2>1. PICK r \in {[op |-> "submit", job |-> j, risk |-> risk[j]], [op |-> "deploy", job |-> j]} :
             Open(s, r) /\ UNCHANGED committed
      BY <1>4 DEF BeginSubmit, BeginDeploy
    <2>2. r \in SessionType /\ r.job \in Jobs /\ r.op \notin {"generate", "validate"}
      BY RecordFacts DEF TypeInv, TypeOK
    <2>3. session' \in [Sessions -> SessionType] /\ raced' \subseteq Jobs \X {"prepare", "decide"}
      BY <2>1, <2>2, OpenType DEF TypeInv
    <2>4. ReadsPresent'
      BY <2>1, <2>2 DEF Open, TypeInv, TypeOK, ReadsPresent
    <2> QED
      BY <2>1, <2>3, <2>4 DEF TypeInv, TypeOK
  <1>5. ASSUME NEW s \in Sessions, NEW j \in Jobs, NEW u \in Users, NEW op \in {"approve", "reject"},
               BeginDecision(s, j, u, op)
        PROVE  TypeInv'
    <2> DEFINE r == [op |-> op, job |-> j, user |-> u]
    <2>1. r \in SessionType /\ r.job \in Jobs
      BY RecordFacts
    <2>2. session' \in [Sessions -> SessionType] /\ raced' \subseteq Jobs \X {"prepare", "decide"}
      BY <1>5, <2>1, OpenType DEF BeginDecision, TypeInv
    <2>3. ReadsPresent'
      BY <1>5 DEF BeginDecision, Open, TypeInv, TypeOK, ReadsPresent
    <2> QED
      BY <1>5, <2>2, <2>3 DEF BeginDecision, TypeInv, TypeOK
  <1>6. ASSUME NEW s \in Sessions, Close(s), present \subseteq present', present' \subseteq Objects,
               rendered' \subseteq present', checked' \subseteq present',
               status' \in [Jobs -> JobStatus], risk' \in [Jobs -> Risks],
               request' \in [Jobs -> RequestStatus], required' \in [Jobs -> {1, 2}],
               approvals' \in [Jobs -> Seq(Users)], deployable' \subseteq Jobs, creator' = creator
        PROVE  TypeInv'
    BY <1>6, CloseType, CloseReads DEF TypeInv, TypeOK
  <1>7. ASSUME NEW s \in Sessions, EndAddObject(s) \/ EndDeploy(s)
        PROVE  TypeInv'
    BY <1>6, <1>7, SessionFacts DEF EndAddObject, EndDeploy, TypeInv, TypeOK
  <1>8. ASSUME NEW s \in Sessions, EndGenerate(s)
        PROVE  TypeInv'
    <2>1. session[s].job \in Jobs /\ session[s].objects \subseteq present
      BY <1>8, SessionFacts DEF EndGenerate, TypeInv, ReadsPresent
    <2>2. status' \in [Jobs -> JobStatus] /\ rendered' \subseteq present
      BY <1>8, <2>1 DEF EndGenerate, TypeInv, TypeOK, JobStatus
    <2> QED
      BY <1>6, <1>8, <2>2 DEF EndGenerate, TypeInv, TypeOK
  <1>9. ASSUME NEW s \in Sessions, EndValidate(s)
        PROVE  TypeInv'
    <2>1. session[s].job \in Jobs /\ session[s].objects \subseteq present
      BY <1>9, SessionFacts DEF EndValidate, TypeInv, ReadsPresent
    <2>2. \A n \in DeleteCounts, high \in BOOLEAN : Risk(n, high) \in Risks
      BY DEF Risk, Risks
    <2>2a. risk' \in [Jobs -> Risks]
      BY <1>9, <2>1, <2>2 DEF EndValidate, TypeInv, TypeOK, Assign
    <2>3. /\ status' \in [Jobs -> JobStatus] /\ risk' \in [Jobs -> Risks]
          /\ checked' \subseteq present
      BY <1>9, <2>1, <2>2a DEF EndValidate, TypeInv, TypeOK, JobStatus
    <2> QED
      BY <1>6, <1>9, <2>3 DEF EndValidate, TypeInv, TypeOK
  <1>10. ASSUME NEW s \in Sessions, EndSubmit(s)
         PROVE  TypeInv'
    <2>1. session[s].job \in Jobs /\ session[s].risk \in Risks
      BY <1>10, SessionFacts DEF EndSubmit, TypeInv
    <2>2. /\ status' \in [Jobs -> JobStatus] /\ request' \in [Jobs -> RequestStatus]
          /\ required' \in [Jobs -> {1, 2}]
      BY <1>10, <2>1 DEF EndSubmit, TypeInv, TypeOK, JobStatus, RequestStatus, RequiredApprovals
    <2> QED
      BY <1>6, <1>10, <2>2 DEF EndSubmit, TypeInv, TypeOK
  <1>11. ASSUME NEW s \in Sessions, Abandon(s)
         PROVE  TypeInv'
    BY <1>6, <1>11 DEF Abandon, TypeInv, TypeOK
  <1>12. ASSUME NEW s \in Sessions, ReadForApproval(s) \/ ReadForRejection(s), ~ Abandon(s)
         PROVE  TypeInv'
    <2>1. session[s].job \in Jobs
      BY <1>12, SessionFacts DEF ReadForApproval, ReadForRejection, TypeInv
    <2> DEFINE j == session[s].job
               r1 == [op |-> "approving", job |-> j, user |-> session[s].user, status |-> status[j],
                      before |-> Len(approvals[j])]
               r2 == [op |-> "rejecting", job |-> j, status |-> status[j]]
    <2>2. r2 \in SessionType /\ (ReadForApproval(s) => r1 \in SessionType)
      BY <2>1, SessionFacts, RecordFacts DEF ReadForApproval, TypeInv, TypeOK
    <2>3. /\ \/ ReadForApproval(s) /\ session' = [session EXCEPT ![s] = r1]
             \/ session' = [session EXCEPT ![s] = r2]
          /\ UNCHANGED <<committed, raced>>
      BY <1>12 DEF ReadForApproval, ReadForRejection
    <2>4. session' \in [Sessions -> SessionType]
      BY <2>2, <2>3 DEF TypeInv, TypeOK
    <2>5. ReadsPresent'
      <3>1. /\ session'[s].op \notin {"generate", "validate"}
            /\ \A t \in Sessions \ {s} : session'[t] = session[t]
            /\ present' = present
        BY <2>3 DEF TypeInv, TypeOK
      <3> QED
        BY <3>1 DEF TypeInv, ReadsPresent
    <2> QED
      BY <2>3, <2>4, <2>5 DEF TypeInv, TypeOK
  <1>13. ASSUME NEW s \in Sessions, EndApprove(s) \/ EndReject(s)
         PROVE  TypeInv'
    <2>1. /\ session[s].job \in Jobs /\ session[s].status \in JobStatus
          /\ EndApprove(s) => session[s].user \in Users
      BY <1>13, SessionFacts DEF EndApprove, EndReject, TypeInv
    <2>2. status' \in [Jobs -> JobStatus] /\ request' \in [Jobs -> RequestStatus]
      BY <1>13, <2>1 DEF EndApprove, EndReject, TypeInv, TypeOK, Assign, MarkApproved, MarkRejected, JobStatus, RequestStatus
    <2>3. approvals' \in [Jobs -> Seq(Users)]
      <3>1. CASE EndApprove(s)
        <4>1. Append(approvals[session[s].job], session[s].user) \in Seq(Users)
          BY <2>1, <3>1 DEF TypeInv, TypeOK
        <4>2. approvals' = [approvals EXCEPT ![session[s].job] =
                              Append(approvals[session[s].job], session[s].user)]
          BY <3>1 DEF EndApprove
        <4> QED
          BY <4>1, <4>2 DEF TypeInv, TypeOK
      <3>2. CASE EndReject(s)
        BY <3>2 DEF EndReject, TypeInv, TypeOK
      <3> QED
        BY <1>13, <3>1, <3>2
    <2> QED
      BY <1>6, <1>13, <2>2, <2>3 DEF EndApprove, EndReject, TypeInv, TypeOK
  <1>14. CASE UNCHANGED vars
    BY <1>14 DEF vars, TypeInv, TypeOK, ReadsPresent
  <1> QED
    BY <1>1, <1>2, <1>3, <1>4, <1>5, <1>7, <1>8, <1>9, <1>10, <1>11, <1>12, <1>13, <1>14
       DEF Next, SubmitRefused, RequestDies

\* Every reachable state is well typed.
THEOREM TypeCorrect == Spec => []TypeOK
  <1>1. TypeInv => TypeOK
    BY DEF TypeInv
  <1> QED
    BY <1>1, InitTypeInv, TypeInvStep, PTL DEF Spec

-----------------------------------------------------------------------------
(***************************************************************************)
(* Nothing is deployable that somebody else did not approve.               *)
(***************************************************************************)

\* The approvals that a job needs before it is approved.
Signed(j) ==
    /\ Approvers(j) # {}
    /\ creator[j] \notin Approvers(j)
    /\ required[j] = 2 => \E u, v \in Approvers(j) : u # v

\* Approvals belong to a request, and are never the creator's.
ApprovalsAreOthers ==
    \A j \in Jobs : creator[j] \notin Approvers(j) /\ (request[j] = "none" => Approvers(j) = {})

\* A user in the course of approving is not the creator, and whoever approved before is
\* somebody else still, although more approvals may have been added since they were read.
ApprovingIsOther ==
    \A s \in Sessions :
        LET r == session[s]
        IN  /\ r.op \in {"approve", "approving"} => request[r.job] # "none"
            /\ r.op = "approving" => r.user # creator[r.job]
            /\ r.op = "approving" /\ r.before # 0 => \E v \in Approvers(r.job) : v # r.user

Deploying(j) == \E s \in Sessions : session[s].op = "deploy" /\ session[s].job = j

ApprovedIsSigned ==
    \A j \in Jobs : status[j] = "approved" \/ j \in deployable \/ Deploying(j) => Signed(j)

FourEyes == ApprovalsAreOthers /\ ApprovingIsOther /\ ApprovedIsSigned

LEMMA InitFourEyes == Init => FourEyes
  BY DEF Init, FourEyes, ApprovalsAreOthers, ApprovingIsOther, ApprovedIsSigned, Approvers, Deploying,
         Idle

\* A step that changes nothing that was approved.
LEMMA SameApproved ==
    ASSUME FourEyes, UNCHANGED <<creator, required, approvals, deployable>>,
           \A j \in Jobs : request'[j] = "none" => request[j] = "none",
           \A j \in Jobs : status'[j] = "approved" => status[j] = "approved",
           \A t \in Sessions : session'[t].op = "deploy" => session'[t] = session[t]
    PROVE  ApprovalsAreOthers' /\ ApprovedIsSigned'
  <1>1. ApprovalsAreOthers'
    BY DEF FourEyes, ApprovalsAreOthers, Approvers
  <1>2. ASSUME NEW j \in Jobs
        PROVE  Deploying(j)' => Deploying(j)
    BY DEF Deploying
  <1>3. ApprovedIsSigned'
    BY <1>2 DEF FourEyes, ApprovedIsSigned, Signed, Approvers
  <1> QED
    BY <1>1, <1>3

\* A step of session s that approves nothing, be it a job or a request.
LEMMA NothingApproved ==
    ASSUME TypeOK, FourEyes, NEW s \in Sessions, UNCHANGED <<creator, approvals, required>>,
           \A j \in Jobs : request'[j] = "none" => request[j] = "none",
           \A j \in Jobs : status'[j] = "approved" => status[j] = "approved",
           \A j \in Jobs : j \in deployable' => j \in deployable \/ Deploying(j),
           \A t \in Sessions \ {s} : session'[t] = session[t],
           session'[s].op # "approving",
           session'[s].op = "approve" => request'[session'[s].job] # "none",
           session'[s].op = "deploy" => status[session'[s].job] = "approved"
    PROVE  FourEyes'
  <1>1. ApprovalsAreOthers'
    BY DEF FourEyes, ApprovalsAreOthers, Approvers
  <1>2. ApprovingIsOther'
    <2> SUFFICES ASSUME NEW t \in Sessions, t # s
                 PROVE  LET r == session[t]
                        IN  /\ r.op \in {"approve", "approving"} => request'[r.job] # "none"
                            /\ r.op = "approving" => r.user # creator[r.job]
                            /\ r.op = "approving" /\ r.before # 0
                               => \E v \in Approvers(r.job) : v # r.user
      BY DEF ApprovingIsOther, Approvers
    <2> QED
      BY SessionFacts DEF FourEyes, ApprovingIsOther
  <1>3. ASSUME NEW j \in Jobs
        PROVE  Deploying(j)' => Deploying(j) \/ status[j] = "approved"
    BY DEF Deploying
  <1>4. ApprovedIsSigned'
    BY <1>3 DEF FourEyes, ApprovedIsSigned, Signed, Approvers
  <1> QED
    BY <1>1, <1>2, <1>4 DEF FourEyes

\* An approval adds its user to the approvers.
LEMMA AppendRange ==
    ASSUME NEW q \in Seq(Users), NEW u \in Users
    PROVE  {Append(q, u)[i] : i \in DOMAIN Append(q, u)} = {q[i] : i \in DOMAIN q} \cup {u}
  <1> DEFINE r == Append(q, u)
  <1>1. /\ DOMAIN q = 1..Len(q) /\ Len(q) \in Nat
        /\ DOMAIN r = 1..(Len(q) + 1)
        /\ \A i \in 1..Len(q) : r[i] = q[i]
        /\ r[Len(q) + 1] = u
    BY AppendProperties, LenProperties
  <1>2. \A i \in 1..(Len(q) + 1) : i \in 1..Len(q) \/ i = Len(q) + 1
    BY <1>1
  <1>3. Len(q) + 1 \in 1..(Len(q) + 1) /\ 1..Len(q) \subseteq 1..(Len(q) + 1)
    BY <1>1
  <1> HIDE DEF r
  <1>4. {r[i] : i \in DOMAIN r} = {q[i] : i \in DOMAIN q} \cup {u}
    BY <1>1, <1>2, <1>3
  <1> QED
    BY <1>4 DEF r

LEMMA ReadApproval ==
    ASSUME TypeOK, FourEyes, NEW s \in Sessions, ReadForApproval(s)
    PROVE  FourEyes'
  <1>0. session[s].job \in Jobs /\ session[s].user \in Users
    BY SessionFacts DEF ReadForApproval
  <1>j. PICK j \in Jobs : j = session[s].job
    BY <1>0
  <1>u. PICK u \in Users : u = session[s].user
    BY <1>0
  <1>1. approvals[j] \in Seq(Users)
    BY DEF TypeOK
  <1>2. CASE Abandon(s)
    BY <1>2, NothingApproved DEF Abandon, Close, committed, Idle, TypeOK
  <1>3. CASE /\ MayApprove(u, j)
             /\ session' = [session EXCEPT ![s] =
                   [op |-> "approving", job |-> j, user |-> u, status |-> status[j],
                    before |-> Len(approvals[j])]]
             /\ UNCHANGED <<committed, raced>>
    <2>1. Len(approvals[j]) # 0 => \E v \in Approvers(j) : v # u
      <3> SUFFICES ASSUME Len(approvals[j]) # 0
                   PROVE  \E v \in Approvers(j) : v # u
        OBVIOUS
      <3>1. 1 \in DOMAIN approvals[j]
        BY <1>1, LenProperties
      <3>2. approvals[j][1] \in Approvers(j)
        BY <3>1 DEF Approvers
      <3> QED
        BY <1>3, <3>2 DEF MayApprove
    <2>2. request[j] # "none" /\ u # creator[j]
      BY <1>j, <1>u, <1>3 DEF MayApprove, FourEyes, ApprovingIsOther, ReadForApproval
    <2>3. /\ session'[s].op = "approving" /\ session'[s].job = j /\ session'[s].user = u
          /\ session'[s].before = Len(approvals[j])
          /\ \A t \in Sessions \ {s} : session'[t] = session[t]
          /\ UNCHANGED <<status, creator, request, required, approvals, deployable>>
      BY <1>3 DEF TypeOK, committed
    <2>4. ApprovingIsOther'
      <3>1. ASSUME NEW t \in Sessions
            PROVE  LET r == session'[t]
                   IN  /\ r.op \in {"approve", "approving"} => request[r.job] # "none"
                       /\ r.op = "approving" => r.user # creator[r.job]
                       /\ r.op = "approving" /\ r.before # 0
                          => \E v \in Approvers(r.job) : v # r.user
        <4>1. CASE t = s
          BY <2>1, <2>2, <2>3, <4>1
        <4>2. CASE t # s
          BY <2>3, <4>2 DEF FourEyes, ApprovingIsOther
        <4> QED
          BY <4>1, <4>2
      <3>2. UNCHANGED <<creator, request, approvals>>
        BY <2>3
      <3> QED
        BY <3>1, <3>2 DEF ApprovingIsOther, Approvers
    <2>5. \A t \in Sessions : session'[t].op = "deploy" => session'[t] = session[t]
      BY <2>3
    <2> QED
      BY <2>3, <2>4, <2>5, SameApproved DEF FourEyes
  <1> QED
    BY <1>j, <1>u, <1>2, <1>3 DEF ReadForApproval

LEMMA Approves ==
    ASSUME TypeOK, FourEyes, NEW s \in Sessions, EndApprove(s)
    PROVE  FourEyes'
  <1>0. session[s].job \in Jobs /\ session[s].user \in Users /\ session[s].before \in Nat
    BY SessionFacts DEF EndApprove
  <1>j. PICK j \in Jobs : j = session[s].job
    BY <1>0
  <1>u. PICK u \in Users : u = session[s].user
    BY <1>0
  <1>1. approvals[j] \in Seq(Users)
    BY DEF TypeOK
  <1>2. /\ u # creator[j] /\ request[j] # "none"
        /\ session[s].before # 0 => \E v \in Approvers(j) : v # u
    BY <1>j, <1>u DEF EndApprove, FourEyes, ApprovingIsOther
  <1>3. /\ approvals' = [approvals EXCEPT ![j] = Append(approvals[j], u)]
        /\ \A i \in Jobs : request'[i] # request[i] => request'[i] = "approved"
        /\ \A i \in Jobs : status'[i] = "approved" =>
              status[i] = "approved" \/ (i = j /\ session[s].before + 1 >= required[j])
        /\ session'[s].op = "idle" /\ \A t \in Sessions \ {s} : session'[t] = session[t]
        /\ UNCHANGED <<creator, required, deployable>>
    BY <1>j, <1>u DEF EndApprove, TypeOK, Close, Idle, Assign, MarkApproved, MarkRejected
  <1>4. /\ Approvers(j)' = Approvers(j) \cup {u}
        /\ \A i \in Jobs \ {j} : Approvers(i)' = Approvers(i)
    <2>1. approvals'[j] = Append(approvals[j], u)
      BY <1>3 DEF TypeOK
    <2>2. \A i \in Jobs \ {j} : approvals'[i] = approvals[i]
      BY <1>3 DEF TypeOK
    <2>3. Approvers(j)' = Approvers(j) \cup {u}
      BY <1>1, <2>1, AppendRange DEF Approvers
    <2> QED
      BY <2>2, <2>3 DEF Approvers
  <1>5. ApprovalsAreOthers'
    BY <1>1, <1>2, <1>3, <1>4 DEF FourEyes, ApprovalsAreOthers
  <1>6. ApprovingIsOther'
    <2> SUFFICES ASSUME NEW t \in Sessions, t # s
                 PROVE  LET r == session[t]
                        IN  /\ r.op \in {"approve", "approving"} => request'[r.job] # "none"
                            /\ r.op = "approving" => r.user # creator[r.job]
                            /\ r.op = "approving" /\ r.before # 0
                               => \E v \in Approvers(r.job)' : v # r.user
      BY <1>3 DEF ApprovingIsOther
    <2>1. session[t].op \in {"approve", "approving"} => session[t].job \in Jobs
      BY SessionFacts
    <2> QED
      BY <1>3, <1>4, <2>1 DEF FourEyes, ApprovingIsOther
  <1>7. ApprovedIsSigned'
    <2> SUFFICES ASSUME NEW i \in Jobs,
                        status'[i] = "approved" \/ i \in deployable' \/ Deploying(i)'
                 PROVE  Signed(i)'
      BY DEF ApprovedIsSigned
    <2>1. Deploying(i)' => Deploying(i)
      BY <1>3 DEF Deploying
    <2>2. CASE Signed(i)
      BY <1>2, <1>3, <1>4, <2>2 DEF Signed
    <2>3. CASE i = j /\ session[s].before + 1 >= required[j]
      <3>1. required[j] = 2 => session[s].before # 0
        BY <1>0, <2>3
      <3> QED
        BY <1>1, <1>2, <1>3, <1>4, <1>5, <2>3, <3>1 DEF Signed, ApprovalsAreOthers
    <2> QED
      BY <1>3, <2>1, <2>2, <2>3 DEF FourEyes, ApprovedIsSigned
  <1> QED
    BY <1>5, <1>6, <1>7 DEF FourEyes

LEMMA Submits ==
    ASSUME TypeOK, FourEyes, NEW s \in Sessions, EndSubmit(s)
    PROVE  FourEyes'
  <1> DEFINE j == session[s].job
  <1>1. j \in Jobs /\ request[j] = "none" /\ Approvers(j) = {}
    BY SessionFacts DEF EndSubmit, FourEyes, ApprovalsAreOthers
  <1>2. /\ status'[j] = "pending_approval"
        /\ \A i \in Jobs \ {j} : status'[i] = status[i] /\ required'[i] = required[i]
        /\ \A i \in Jobs : request'[i] = "none" => request[i] = "none"
        /\ session'[s].op = "idle" /\ \A t \in Sessions \ {s} : session'[t] = session[t]
        /\ UNCHANGED <<creator, approvals, deployable>>
    BY <1>1 DEF EndSubmit, TypeOK, Close, Idle
  <1> HIDE DEF j
  <1>3. ApprovalsAreOthers'
    BY <1>2 DEF FourEyes, ApprovalsAreOthers, Approvers
  <1>4. ApprovingIsOther'
    <2> SUFFICES ASSUME NEW t \in Sessions, t # s
                 PROVE  LET r == session[t]
                        IN  /\ r.op \in {"approve", "approving"} => request'[r.job] # "none"
                            /\ r.op = "approving" => r.user # creator[r.job]
                            /\ r.op = "approving" /\ r.before # 0
                               => \E v \in Approvers(r.job) : v # r.user
      BY <1>2 DEF ApprovingIsOther, Approvers
    <2> QED
      BY <1>2, SessionFacts DEF FourEyes, ApprovingIsOther
  <1>5. ApprovedIsSigned'
    <2> SUFFICES ASSUME NEW i \in Jobs,
                        status'[i] = "approved" \/ i \in deployable' \/ Deploying(i)'
                 PROVE  Signed(i)'
      BY DEF ApprovedIsSigned
    <2>1. Deploying(i)' => Deploying(i)
      BY <1>2 DEF Deploying
    <2>2. i # j /\ Signed(i)
      BY <1>1, <1>2, <2>1 DEF FourEyes, ApprovedIsSigned, Signed
    <2> QED
      BY <1>2, <2>2 DEF Signed, Approvers
  <1> QED
    BY <1>3, <1>4, <1>5 DEF FourEyes

THEOREM FourEyesStep == TypeOK /\ FourEyes /\ [Next]_vars => FourEyes'
  <1> SUFFICES ASSUME TypeOK, FourEyes, [Next]_vars
               PROVE  FourEyes'
    OBVIOUS
  <1> USE DEF committed
  <1>1. ASSUME NEW j \in Jobs, CreateJob(j)
        PROVE  FourEyes'
    <2>1. /\ \A i \in Jobs : status'[i] = "approved" => status[i] = "approved"
          /\ UNCHANGED <<creator, request, required, approvals, deployable, session>>
      BY <1>1 DEF CreateJob, TypeOK
    <2>2. ApprovingIsOther'
      BY <2>1 DEF FourEyes, ApprovingIsOther, Approvers
    <2> QED
      BY <2>1, <2>2, SameApproved DEF FourEyes
  <1>2. ASSUME NEW s \in Sessions, NEW r \in SessionType, Open(s, r), UNCHANGED committed,
               r.op # "approving", r.op = "approve" => request[r.job] # "none",
               r.op = "deploy" => status[r.job] = "approved"
        PROVE  FourEyes'
    <2>1. session'[s] = r /\ \A t \in Sessions \ {s} : session'[t] = session[t]
      BY <1>2 DEF Open, TypeOK
    <2> QED
      BY <1>2, <2>1, NothingApproved
  <1>3. ASSUME NEW s \in Sessions, NEW o \in Objects, BeginAddObject(s, o)
        PROVE  FourEyes'
    <2>1. [op |-> "add_object", job |-> JobOf[o], object |-> o] \in SessionType
      BY JobOfAssumption, RecordFacts
    <2> QED
      BY <1>2, <1>3, <2>1 DEF BeginAddObject
  <1>4. ASSUME NEW s \in Sessions, NEW j \in Jobs, BeginGenerate(s, j) \/ BeginValidate(s, j)
        PROVE  FourEyes'
    <2>1. ObjectsOf(j) \in SUBSET Objects
      BY DEF ObjectsOf, TypeOK
    <2>2. /\ [op |-> "generate", job |-> j, objects |-> ObjectsOf(j)] \in SessionType
          /\ [op |-> "validate", job |-> j, objects |-> ObjectsOf(j), risk |-> risk[j]] \in SessionType
      BY <2>1, RecordFacts DEF TypeOK
    <2> QED
      BY <1>2, <1>4, <2>2 DEF BeginGenerate, BeginValidate
  <1>5. ASSUME NEW s \in Sessions, NEW j \in Jobs, BeginSubmit(s, j) \/ BeginDeploy(s, j)
        PROVE  FourEyes'
    <2>1. /\ [op |-> "submit", job |-> j, risk |-> risk[j]] \in SessionType
          /\ [op |-> "deploy", job |-> j] \in SessionType
      BY RecordFacts DEF TypeOK
    <2> QED
      BY <1>2, <1>5, <2>1 DEF BeginSubmit, BeginDeploy, HasStatus
  <1>6. ASSUME NEW s \in Sessions, NEW j \in Jobs, NEW u \in Users, NEW op \in {"approve", "reject"},
               BeginDecision(s, j, u, op)
        PROVE  FourEyes'
    <2>1. [op |-> op, job |-> j, user |-> u] \in SessionType
      BY RecordFacts
    <2> QED
      BY <1>2, <1>6, <2>1 DEF BeginDecision, IsPending
  <1>7. ASSUME NEW s \in Sessions, Close(s), UNCHANGED <<creator, approvals, required>>,
               \A j \in Jobs : request'[j] = "none" => request[j] = "none",
               \A j \in Jobs : status'[j] = "approved" => status[j] = "approved",
               \A j \in Jobs : j \in deployable' => j \in deployable \/ Deploying(j)
        PROVE  FourEyes'
    BY <1>7, NothingApproved DEF Close, Idle, TypeOK
  <1>8. ASSUME NEW s \in Sessions,
               EndAddObject(s) \/ EndGenerate(s) \/ EndValidate(s) \/ EndDeploy(s) \/ Abandon(s)
        PROVE  FourEyes'
    <2>1. \A j \in Jobs : status'[j] = "approved" => status[j] = "approved"
      BY <1>8 DEF EndAddObject, EndGenerate, EndValidate, EndDeploy, Abandon, TypeOK
    <2>2. \A j \in Jobs : j \in deployable' => j \in deployable \/ Deploying(j)
      BY <1>8 DEF EndAddObject, EndGenerate, EndValidate, EndDeploy, Abandon, Deploying
    <2> QED
      BY <1>7, <1>8, <2>1, <2>2 DEF EndAddObject, EndGenerate, EndValidate, EndDeploy, Abandon
  <1>9. ASSUME NEW s \in Sessions, EndReject(s)
        PROVE  FourEyes'
    <2>1. /\ \A j \in Jobs : status'[j] = "approved" => status[j] = "approved"
          /\ \A j \in Jobs : request'[j] = "none" => request[j] = "none"
      BY <1>9 DEF EndReject, Assign, MarkApproved, MarkRejected, TypeOK
    <2> QED
      BY <1>7, <1>9, <2>1 DEF EndReject
  <1>10. ASSUME NEW s \in Sessions, ReadForRejection(s)
         PROVE  FourEyes'
    <2>1. /\ session'[s].op = "rejecting"
          /\ \A t \in Sessions \ {s} : session'[t] = session[t]
          /\ UNCHANGED committed
      BY <1>10 DEF ReadForRejection, TypeOK
    <2> QED
      BY <2>1, NothingApproved
  <1>11. CASE UNCHANGED vars
    <2>1. UNCHANGED <<status, creator, request, required, approvals, deployable, session>>
      BY <1>11 DEF vars, committed
    <2>2. ApprovingIsOther'
      BY <2>1 DEF FourEyes, ApprovingIsOther, Approvers
    <2> QED
      BY <2>1, <2>2, SameApproved DEF FourEyes
  <1> QED
    BY <1>1, <1>3, <1>4, <1>5, <1>6, <1>8, <1>9, <1>10, <1>11, ReadApproval, Approves, Submits
       DEF Next, SubmitRefused, RequestDies

\* Whatever requests overlap, an approved or deployable job was approved by somebody other
\* than its creator, and by two users when two are required.
THEOREM SomeoneElse == Spec => []SomeoneElseApproved
  <1>1. FourEyes => SomeoneElseApproved
    BY DEF FourEyes, ApprovedIsSigned, SomeoneElseApproved, Signed
  <1> QED
    BY <1>1, TypeCorrect, InitFourEyes, FourEyesStep, PTL DEF Spec

-----------------------------------------------------------------------------
(***************************************************************************)
(* Requests that do not overlap.  What is known of a job depends on which  *)
(* of its stages has been sequential: what a request has read then still   *)
(* holds when it writes.                                                   *)
(***************************************************************************)
Early == {"absent", "draft", "generated", "validated", "failed"}
Preparing == {"add_object", "generate", "validate", "submit"}
Deciding == {"approve", "reject", "approving", "rejecting"}

LEMMA Stages == DOMAIN Stage = {"prepare", "decide"} /\ Stage["prepare"] = Preparing /\ Stage["decide"] = Deciding
  BY DEF Stage, Preparing, Deciding

In(s, j, stage) == session[s].op \in Stage[stage] /\ session[s].job = j

\* One request of a sequential stage is in progress.
Alone(j, stage) == Sequential(j, stage) => \A s, t \in Sessions : In(s, j, stage) /\ In(t, j, stage) => s = t

\* What a request in progress knows of its job, whatever it is and in a sequential stage.
Asked(r, j) == r.op \in Deciding /\ r.job = j => request[j] # "none"
Adds(r) == r.op = "add_object" => JobOf[r.object] = r.job
FitsPrepare(r, j) ==
    r.job = j =>
        /\ r.op = "add_object" => status[j] = "draft"
        /\ r.op = "generate" => status[j] = "draft" /\ r.objects = ObjectsOf(j)
        /\ r.op = "validate" => status[j] = "generated" /\ r.objects = ObjectsOf(j)
        /\ r.op = "submit" => status[j] = "validated"
FitsDecide(r, j) == r.op \in Deciding /\ r.job = j => request[j] = "pending"
FitsBoth(r, j) == r.op \in {"approving", "rejecting"} /\ r.job = j => r.status = status[j]

\* What is known of a job whose preparation has been sequential, whose decision has, or both.
Prepared(j) ==
    /\ request[j] = "none" <=> status[j] \in Early
    /\ status[j] \notin {"absent", "draft", "failed"} => ObjectsOf(j) \subseteq rendered
    /\ status[j] \notin {"absent", "draft", "failed", "generated"} => ObjectsOf(j) \subseteq checked
    /\ j \in deployable \/ Deploying(j) => status[j] \notin Early
    /\ \A s \in Sessions : FitsPrepare(session[s], j)
Decided(j) ==
    /\ status[j] = "approved" => request[j] = "approved"
    /\ j \in deployable \/ Deploying(j) => request[j] = "approved"
    /\ \A s \in Sessions : FitsDecide(session[s], j)
Agrees(j) ==
    /\ request[j] = "pending" <=> status[j] = "pending_approval"
    /\ request[j] = "approved" <=> status[j] = "approved"
    /\ request[j] = "rejected" <=> status[j] = "rejected"
    /\ \A s \in Sessions : FitsBoth(session[s], j)

Story(j) ==
    /\ \A s \in Sessions : Asked(session[s], j) /\ Adds(session[s])
    /\ Sequential(j, "prepare") => Prepared(j)
    /\ Sequential(j, "decide") => Decided(j)
    /\ Sequential(j, "prepare") /\ Sequential(j, "decide") => Agrees(j)

Stories == \A j \in Jobs : Story(j) /\ Alone(j, "prepare") /\ Alone(j, "decide")

LEMMA InitStories == Init => Stories
  <1> SUFFICES ASSUME Init, NEW j \in Jobs PROVE Story(j) /\ Alone(j, "prepare") /\ Alone(j, "decide")
    BY DEF Stories
  <1>1. \A s \in Sessions : session[s].op = "idle"
    BY DEF Init, Idle
  <1>2. Alone(j, "prepare") /\ Alone(j, "decide")
    BY <1>1, Stages DEF Alone, In, Preparing, Deciding
  <1>3. status[j] = "absent" /\ request[j] = "none" /\ deployable = {}
    BY DEF Init
  <1>4. \A s \in Sessions : Asked(session[s], j) /\ Adds(session[s]) /\ FitsPrepare(session[s], j)
                            /\ FitsDecide(session[s], j) /\ FitsBoth(session[s], j)
    BY <1>1 DEF Asked, Adds, FitsPrepare, FitsDecide, FitsBoth, Deciding
  <1>5. ~Deploying(j)
    BY <1>1 DEF Deploying
  <1> QED
    BY <1>2, <1>3, <1>4, <1>5 DEF Story, Prepared, Decided, Agrees, Early

\* A request that begins alone on its job.
LEMMA OpenAlone ==
    ASSUME TypeOK, NEW s \in Sessions, NEW r, Open(s, r), NEW j \in Jobs, NEW k \in {"prepare", "decide"}, Alone(j, k)
    PROVE  Alone(j, k)'
  <1> SUFFICES ASSUME Sequential(j, k)', NEW t \in Sessions, NEW w \in Sessions, In(t, j, k)', In(w, j, k)'
               PROVE  t = w
    BY DEF Alone
  <1>1. /\ session'[s] = r /\ \A x \in Sessions \ {s} : session'[x] = session[x]
        /\ raced' = raced \cup {<<r.job, i>> : i \in {x \in DOMAIN Stage : r.op \in Stage[x] /\ InProgress(r.job, x)}}
    BY DEF Open, TypeOK
  <1>2. Sequential(j, k)
    BY <1>1 DEF Sequential
  <1>3. CASE t # s /\ w # s
    BY <1>1, <1>2, <1>3 DEF Alone, In
  <1>4. CASE t = s \/ w = s
    <2> SUFFICES ASSUME t # w PROVE FALSE
      OBVIOUS
    <2>1. r.op \in Stage[k] /\ r.job = j
      BY <1>1, <1>4 DEF In
    <2>2. PICK x \in Sessions \ {s} : In(x, j, k)'
      BY <1>4
    <2>3. session[x].op \in Stage[k] /\ session[x].job = j
      BY <1>1, <2>2 DEF In
    <2>4. InProgress(r.job, k)
      BY <2>1, <2>3 DEF InProgress
    <2>5. <<j, k>> \in raced'
      BY <1>1, <2>1, <2>4, Stages
    <2> QED
      BY <2>5 DEF Sequential
  <1> QED
    BY <1>3, <1>4

\* A request that goes on in its stage, or ends.
LEMMA GoesOnAlone ==
    ASSUME TypeOK, NEW s \in Sessions, NEW r, session' = [session EXCEPT ![s] = r], raced' = raced,
           NEW j \in Jobs, NEW k \in {"prepare", "decide"}, Alone(j, k),
           r.op \in Stage[k] => session[s].op \in Stage[k] /\ r.job = session[s].job
    PROVE  Alone(j, k)'
  <1>1. session'[s] = r /\ \A x \in Sessions \ {s} : session'[x] = session[x]
    BY DEF TypeOK
  <1>2. \A x \in Sessions : In(x, j, k)' => In(x, j, k)
    BY <1>1 DEF In
  <1> QED
    BY <1>2 DEF Alone, Sequential

LEMMA AloneStep ==
    ASSUME TypeOK, [Next]_vars, NEW j \in Jobs, NEW k \in {"prepare", "decide"}, Alone(j, k)
    PROVE  Alone(j, k)'
  <1>1. ASSUME NEW s \in Sessions, Close(s)
        PROVE  Alone(j, k)'
    <2>1. Idle.op \notin Stage[k]
      BY Stages DEF Idle, Preparing, Deciding
    <2> QED
      BY <1>1, <2>1, GoesOnAlone DEF Close
  <1>2. ASSUME NEW s \in Sessions, ReadForApproval(s) \/ ReadForRejection(s)
        PROVE  Alone(j, k)'
    <2> DEFINE q == session[s]
               a == [op |-> "approving", job |-> q.job, user |-> q.user, status |-> status[q.job],
                     before |-> Len(approvals[q.job])]
               b == [op |-> "rejecting", job |-> q.job, status |-> status[q.job]]
    <2>0. q.op \in {"approve", "reject"}
      BY <1>2 DEF ReadForApproval, ReadForRejection
    <2>1. \/ Close(s)
          \/ raced' = raced /\ session' = [session EXCEPT ![s] = a]
          \/ raced' = raced /\ session' = [session EXCEPT ![s] = b]
      BY <1>2 DEF ReadForApproval, ReadForRejection, Abandon
    <2>2. \A r \in {a, b} : r.op \in {"approving", "rejecting"} /\ r.job = q.job
      OBVIOUS
    <2> HIDE DEF a, b
    <2>3. \A r \in {a, b} : r.op \in Stage[k] => q.op \in Stage[k] /\ r.job = q.job
      BY <2>0, <2>2, Stages DEF Preparing, Deciding
    <2>4. ASSUME NEW r \in {a, b}, raced' = raced, session' = [session EXCEPT ![s] = r]
          PROVE  Alone(j, k)'
      BY <2>3, <2>4, GoesOnAlone
    <2> QED
      BY <1>1, <2>1, <2>4
  <1>3. CASE UNCHANGED <<session, raced>>
    BY <1>3 DEF Alone, In, Sequential
  <1>4. \/ UNCHANGED <<session, raced>>
        \/ \E s \in Sessions : \E r : Open(s, r)
        \/ \E s \in Sessions : Close(s) \/ ReadForApproval(s) \/ ReadForRejection(s)
    BY DEF Next, vars, CreateJob, BeginAddObject, BeginGenerate, BeginValidate, BeginSubmit, BeginDeploy,
           BeginDecision, EndAddObject, EndGenerate, EndValidate, EndSubmit, SubmitRefused, EndApprove,
           EndReject, EndDeploy, RequestDies, Abandon
  <1> QED
    BY <1>1, <1>2, <1>3, <1>4, OpenAlone

\* A request that has read what holds now.
Current(r, j) ==
    /\ Adds(r) /\ Asked(r, j)
    /\ Sequential(j, "prepare") => FitsPrepare(r, j)
    /\ Sequential(j, "decide") => FitsDecide(r, j)
    /\ Sequential(j, "prepare") /\ Sequential(j, "decide") => FitsBoth(r, j)
    /\ r.op = "deploy" /\ r.job = j => status[j] = "approved"

LEMMA EndedIsCurrent == \A j \in Jobs : Current(Idle, j)
  BY DEF Current, Idle, Adds, Asked, FitsPrepare, FitsDecide, FitsBoth, Deciding

\* Nothing of the job changes but what requests have read of it.
LEMMA Untouched ==
    ASSUME NEW j \in Jobs, Story(j), raced \subseteq raced',
           status'[j] = status[j], request'[j] = request[j], ObjectsOf(j)' = ObjectsOf(j),
           rendered \subseteq rendered', checked \subseteq checked',
           j \in deployable' => j \in deployable \/ Deploying(j),
           \A t \in Sessions : session'[t] = session[t] \/ Current(session'[t], j)
    PROVE  Story(j)'
  <1>1. \A k : Sequential(j, k)' => Sequential(j, k)
    BY DEF Sequential
  <1>2. Deploying(j)' => Deploying(j) \/ status[j] = "approved"
    BY DEF Deploying, Current
  <1>3. \A t \in Sessions : Asked(session'[t], j) /\ Adds(session'[t])
    BY DEF Story, Current
  <1>4. ASSUME Sequential(j, "prepare") PROVE Prepared(j)'
    <2>1. Prepared(j)
      BY <1>4 DEF Story
    <2>2. \A t \in Sessions : FitsPrepare(session'[t], j)
      BY <1>4, <2>1 DEF Prepared, Current
    <2>3. \A t \in Sessions : FitsPrepare(session[t], j)'
      BY <2>2 DEF FitsPrepare
    <2>4. j \in deployable' \/ Deploying(j)' => status[j] \notin Early
      BY <1>2, <2>1 DEF Prepared, Early
    <2> QED
      BY <2>1, <2>3, <2>4 DEF Prepared
  <1>5. ASSUME Sequential(j, "decide") PROVE Decided(j)'
    <2>1. Decided(j)
      BY <1>5 DEF Story
    <2>2. \A t \in Sessions : FitsDecide(session'[t], j)
      BY <1>5, <2>1 DEF Decided, Current
    <2>3. \A t \in Sessions : FitsDecide(session[t], j)'
      BY <2>2 DEF FitsDecide
    <2>4. j \in deployable' \/ Deploying(j)' => request[j] = "approved"
      BY <1>2, <2>1 DEF Decided
    <2> QED
      BY <2>1, <2>3, <2>4 DEF Decided
  <1>6. ASSUME Sequential(j, "prepare"), Sequential(j, "decide") PROVE Agrees(j)'
    <2>1. Agrees(j)
      BY <1>6 DEF Story
    <2>2. \A t \in Sessions : FitsBoth(session'[t], j)
      BY <1>6, <2>1 DEF Agrees, Current
    <2>3. \A t \in Sessions : FitsBoth(session[t], j)'
      BY <2>2 DEF FitsBoth
    <2> QED
      BY <2>1, <2>3 DEF Agrees
  <1>7. \A t \in Sessions : Asked(session[t], j)' /\ Adds(session[t])'
    BY <1>3 DEF Asked, Adds
  <1> QED
    BY <1>1, <1>4, <1>5, <1>6, <1>7 DEF Story

\* A preparing request writes its own job, and ends.
LEMMA PrepareWrites ==
    ASSUME TypeOK, NEW s \in Sessions, NEW j \in Jobs, session[s].job = j, session[s].op \in Preparing,
           Story(j), Alone(j, "prepare"), session' = [session EXCEPT ![s] = Idle], UNCHANGED <<raced, deployable>>,
           Sequential(j, "prepare") =>
               /\ request'[j] = "none" <=> status'[j] \in Early
               /\ status'[j] \notin {"absent", "draft", "failed"} => ObjectsOf(j)' \subseteq rendered'
               /\ status'[j] \notin {"absent", "draft", "failed", "generated"} => ObjectsOf(j)' \subseteq checked',
           status'[j] = "approved" => status[j] = "approved",
           \/ request'[j] = request[j]
           \/ request[j] = "none" /\ request'[j] = "pending" /\ status'[j] = "pending_approval",
           Sequential(j, "prepare") /\ request'[j] = request[j] => status'[j] \in Early
    PROVE  Story(j)'
  <1>1. /\ session'[s].op = "idle" /\ \A t \in Sessions \ {s} : session'[t] = session[t]
        /\ \A k : Sequential(j, k)' <=> Sequential(j, k)
    BY DEF TypeOK, Idle, Sequential
  <1>2. Deploying(j)' => Deploying(j)
    BY <1>1 DEF Deploying
  <1>3. \A t \in Sessions : Asked(session[t], j)' /\ Adds(session[t])'
    BY <1>1 DEF Story, Asked, Adds, Deciding
  <1>4. ASSUME Sequential(j, "prepare")
        PROVE  /\ request[j] = "none" /\ status[j] \in Early
               /\ j \notin deployable /\ ~Deploying(j)
               /\ \A t \in Sessions : session[t].job = j => session[t].op \notin Deciding
               /\ \A t \in Sessions \ {s} : session[t].job = j => session[t].op \notin Preparing
    <2>1. Prepared(j)
      BY <1>4 DEF Story
    <2>2. status[j] \in Early
      BY <2>1 DEF Prepared, FitsPrepare, Preparing, Early
    <2>3. request[j] = "none" /\ j \notin deployable /\ ~Deploying(j)
      BY <2>1, <2>2 DEF Prepared
    <2>4. \A t \in Sessions : session[t].job = j => session[t].op \notin Deciding
      BY <2>3 DEF Story, Asked
    <2>5. \A t \in Sessions \ {s} : session[t].job = j => session[t].op \notin Preparing
      BY <1>4, Stages DEF Alone, In
    <2> QED
      BY <2>2, <2>3, <2>4, <2>5
  <1>5. ASSUME Sequential(j, "prepare") PROVE Prepared(j)'
    <2>1. \A t \in Sessions : FitsPrepare(session[t], j)'
      BY <1>1, <1>4, <1>5 DEF FitsPrepare, Preparing
    <2>2. ~(j \in deployable' \/ Deploying(j)')
      BY <1>2, <1>4, <1>5
    <2> QED
      BY <1>5, <2>1, <2>2 DEF Prepared
  <1>6. ASSUME Sequential(j, "decide") PROVE Decided(j)'
    <2>1. Decided(j)
      BY <1>6 DEF Story
    <2>2. \A t \in Sessions : FitsDecide(session[t], j)'
      BY <1>1, <2>1 DEF Decided, FitsDecide, Deciding, Story, Asked
    <2>3. status'[j] = "approved" => request'[j] = "approved"
      BY <2>1 DEF Decided
    <2>4. j \in deployable' \/ Deploying(j)' => request'[j] = "approved"
      BY <1>2, <2>1 DEF Decided
    <2> QED
      BY <2>2, <2>3, <2>4 DEF Decided
  <1>7. ASSUME Sequential(j, "prepare"), Sequential(j, "decide") PROVE Agrees(j)'
    <2>1. \A t \in Sessions : FitsBoth(session[t], j)'
      BY <1>1, <1>4, <1>7 DEF FitsBoth, Deciding
    <2>2. request[j] = "none"
      BY <1>4, <1>7
    <2> QED
      BY <1>7, <2>1, <2>2 DEF Agrees, Early
  <1> QED
    BY <1>1, <1>3, <1>5, <1>6, <1>7 DEF Story

\* A decision writes its own job, and ends.
LEMMA DecisionWrites ==
    ASSUME TypeOK, NEW s \in Sessions, NEW j \in Jobs, session[s].job = j, session[s].op \in {"approving", "rejecting"},
           Story(j), Alone(j, "decide"), session' = [session EXCEPT ![s] = Idle],
           UNCHANGED <<raced, deployable, present, rendered, checked>>,
           \/ UNCHANGED <<status, request>>
           \/ request'[j] = "approved" /\ status'[j] = MarkApproved(session[s].status, status[j])
           \/ request'[j] = "rejected" /\ status'[j] = MarkRejected(session[s].status, status[j])
    PROVE  Story(j)'
  <1>1. /\ session'[s].op = "idle" /\ \A t \in Sessions \ {s} : session'[t] = session[t]
        /\ \A k : Sequential(j, k)' <=> Sequential(j, k)
    BY DEF TypeOK, Idle, Sequential
  <1>2. Deploying(j)' => Deploying(j)
    BY <1>1 DEF Deploying
  <1>3. request[j] # "none" /\ request'[j] # "none"
    BY DEF Story, Asked, Deciding
  <1>4. \A t \in Sessions : Asked(session[t], j)' /\ Adds(session[t])'
    BY <1>1, <1>3 DEF Story, Asked, Adds
  <1>5. status'[j] \in {status[j], "approved", "rejected"}
    BY DEF MarkApproved, MarkRejected, Assign
  <1>6. ASSUME Sequential(j, "prepare") PROVE Prepared(j)'
    <2>1. Prepared(j) /\ status[j] \notin Early
      BY <1>3, <1>6 DEF Story, Prepared
    <2>2. status'[j] \notin Early /\ ObjectsOf(j)' = ObjectsOf(j)
      BY <1>5, <2>1 DEF Early, ObjectsOf
    <2>3. \A t \in Sessions : FitsPrepare(session[t], j)'
      BY <1>1, <2>1 DEF Prepared, FitsPrepare, Early
    <2>4. ObjectsOf(j) \subseteq rendered /\ ObjectsOf(j) \subseteq checked
      BY <2>1 DEF Prepared, Early
    <2> QED
      BY <1>3, <2>2, <2>3, <2>4 DEF Prepared
  <1>7. ASSUME Sequential(j, "decide")
        PROVE  /\ Decided(j) /\ request[j] = "pending" /\ status[j] # "approved"
               /\ j \notin deployable /\ ~Deploying(j)
               /\ \A t \in Sessions \ {s} : session[t].job = j => session[t].op \notin Deciding
    <2>1. Decided(j) /\ request[j] = "pending"
      BY <1>7 DEF Story, Decided, FitsDecide, Deciding
    <2>2. \A t \in Sessions \ {s} : session[t].job = j => session[t].op \notin Deciding
      BY <1>7, Stages DEF Alone, In, Deciding
    <2> QED
      BY <2>1, <2>2 DEF Decided
  <1>8. ASSUME Sequential(j, "decide") PROVE Decided(j)'
    <2>1. \A t \in Sessions : FitsDecide(session[t], j)'
      BY <1>1, <1>7, <1>8 DEF FitsDecide, Deciding
    <2>2. status'[j] = "approved" => request'[j] = "approved"
      BY <1>7, <1>8 DEF MarkApproved, MarkRejected, Assign
    <2>3. ~(j \in deployable' \/ Deploying(j)')
      BY <1>2, <1>7, <1>8
    <2> QED
      BY <2>1, <2>2, <2>3 DEF Decided
  <1>9. ASSUME Sequential(j, "prepare"), Sequential(j, "decide") PROVE Agrees(j)'
    <2>1. Agrees(j) /\ request[j] = "pending" /\ status[j] = "pending_approval" /\ session[s].status = status[j]
      BY <1>7, <1>9 DEF Story, Agrees, FitsBoth
    <2>2. \A t \in Sessions : FitsBoth(session[t], j)'
      BY <1>1, <1>7, <1>9 DEF FitsBoth, Deciding
    <2> QED
      BY <2>1, <2>2 DEF Agrees, MarkApproved, MarkRejected, Assign
  <1> QED
    BY <1>1, <1>4, <1>6, <1>8, <1>9 DEF Story

LEMMA CreateStory ==
    ASSUME TypeOK, NEW j \in Jobs, Story(j), CreateJob(j)
    PROVE  Story(j)'
  <1>1. /\ status[j] = "absent" /\ status'[j] = "draft"
        /\ UNCHANGED <<present, rendered, checked, request, deployable, session, raced>>
    BY DEF CreateJob, TypeOK
  <1>2. /\ \A k : Sequential(j, k)' <=> Sequential(j, k)
        /\ Deploying(j)' <=> Deploying(j)
    BY <1>1 DEF Sequential, Deploying
  <1>3. \A s \in Sessions : Asked(session[s], j)' /\ Adds(session[s])'
    BY <1>1 DEF Story, Asked, Adds
  <1>4. ASSUME Sequential(j, "prepare") PROVE Prepared(j)'
    <2>1. Prepared(j)
      BY <1>4 DEF Story
    <2>2. \A s \in Sessions : FitsPrepare(session[s], j)'
      BY <1>1, <2>1 DEF Prepared, FitsPrepare
    <2> QED
      BY <1>1, <1>2, <2>1, <2>2 DEF Prepared, Early
  <1>5. ASSUME Sequential(j, "decide") PROVE Decided(j)'
    <2>1. Decided(j)
      BY <1>5 DEF Story
    <2>2. \A s \in Sessions : FitsDecide(session[s], j)'
      BY <1>1, <2>1 DEF Decided, FitsDecide
    <2> QED
      BY <1>1, <1>2, <2>1, <2>2 DEF Decided
  <1>6. ASSUME Sequential(j, "prepare"), Sequential(j, "decide") PROVE Agrees(j)'
    <2>1. Agrees(j) /\ Prepared(j) /\ Decided(j)
      BY <1>6 DEF Story
    <2>2. request[j] = "none"
      BY <1>1, <2>1 DEF Prepared, Early
    <2>3. \A s \in Sessions : FitsBoth(session[s], j)'
      BY <1>1, <2>1, <2>2 DEF Decided, FitsDecide, FitsBoth, Deciding
    <2> QED
      BY <1>1, <2>2, <2>3 DEF Agrees
  <1> QED
    BY <1>2, <1>3, <1>4, <1>5, <1>6 DEF Story

\* A request that begins has read what holds now.
LEMMA OpenStory ==
    ASSUME TypeOK, NEW s \in Sessions, NEW r, Open(s, r), UNCHANGED committed, NEW j \in Jobs, Story(j), Current(r, j)
    PROVE  Story(j)'
  <1>1. /\ raced \subseteq raced'
        /\ \A t \in Sessions : session'[t] = session[t] \/ session'[t] = r
    BY DEF Open, TypeOK
  <1>2. UNCHANGED <<status, request, present, rendered, checked, deployable>>
    BY DEF committed
  <1> QED
    BY <1>1, <1>2, Untouched DEF ObjectsOf

LEMMA BeginStory ==
    ASSUME TypeOK, NEW j \in Jobs, Story(j), NEW s \in Sessions, NEW k \in Jobs,
           \/ \E o \in Objects : k = JobOf[o] /\ BeginAddObject(s, o)
           \/ BeginGenerate(s, k) \/ BeginValidate(s, k) \/ BeginSubmit(s, k) \/ BeginDeploy(s, k)
           \/ \E u \in Users, op \in {"approve", "reject"} : BeginDecision(s, k, u, op)
    PROVE  Story(j)'
  <1> USE DEF Current, Adds, Asked, FitsPrepare, FitsDecide, FitsBoth, Deciding
  <1>1. ASSUME NEW o \in Objects, k = JobOf[o], BeginAddObject(s, o)
        PROVE  Story(j)'
    <2> DEFINE r == [op |-> "add_object", job |-> JobOf[o], object |-> o]
    <2>1. Current(r, j)
      BY <1>1 DEF BeginAddObject, HasStatus
    <2> HIDE DEF Current
    <2> QED
      BY <1>1, <2>1, OpenStory DEF BeginAddObject
  <1>2. CASE BeginGenerate(s, k)
    <2> DEFINE r == [op |-> "generate", job |-> k, objects |-> ObjectsOf(k)]
    <2>1. Current(r, j)
      BY <1>2 DEF BeginGenerate, HasStatus
    <2> HIDE DEF Current
    <2> QED
      BY <1>2, <2>1, OpenStory DEF BeginGenerate
  <1>3. CASE BeginValidate(s, k)
    <2> DEFINE r == [op |-> "validate", job |-> k, objects |-> ObjectsOf(k), risk |-> risk[k]]
    <2>1. Current(r, j)
      BY <1>3 DEF BeginValidate, HasStatus
    <2> HIDE DEF Current
    <2> QED
      BY <1>3, <2>1, OpenStory DEF BeginValidate
  <1>4. CASE BeginSubmit(s, k)
    <2> DEFINE r == [op |-> "submit", job |-> k, risk |-> risk[k]]
    <2>1. Current(r, j)
      BY <1>4 DEF BeginSubmit, HasStatus
    <2> HIDE DEF Current
    <2> QED
      BY <1>4, <2>1, OpenStory DEF BeginSubmit
  <1>5. CASE BeginDeploy(s, k)
    <2> DEFINE r == [op |-> "deploy", job |-> k]
    <2>1. Current(r, j)
      BY <1>5 DEF BeginDeploy, HasStatus
    <2> HIDE DEF Current
    <2> QED
      BY <1>5, <2>1, OpenStory DEF BeginDeploy
  <1>6. ASSUME NEW u \in Users, NEW op \in {"approve", "reject"}, BeginDecision(s, k, u, op)
        PROVE  Story(j)'
    <2> DEFINE r == [op |-> op, job |-> k, user |-> u]
    <2>1. Current(r, j)
      BY <1>6 DEF BeginDecision, IsPending
    <2> HIDE DEF Current
    <2> QED
      BY <1>6, <2>1, OpenStory DEF BeginDecision
  <1> QED
    BY <1>1, <1>2, <1>3, <1>4, <1>5, <1>6

\* approve and reject go on with what holds now.
LEMMA ReadStory ==
    ASSUME TypeOK, NEW j \in Jobs, Story(j), NEW s \in Sessions,
           ReadForApproval(s) \/ ReadForRejection(s) \/ Abandon(s)
    PROVE  Story(j)'
  <1> DEFINE q == session[s]
             a == [op |-> "approving", job |-> q.job, user |-> q.user, status |-> status[q.job],
                   before |-> Len(approvals[q.job])]
             b == [op |-> "rejecting", job |-> q.job, status |-> status[q.job]]
  <1>1. /\ UNCHANGED <<committed, raced>>
        /\ \/ session' = [session EXCEPT ![s] = Idle]
           \/ q.op \in Deciding /\ \/ session' = [session EXCEPT ![s] = a]
                                   \/ session' = [session EXCEPT ![s] = b]
    BY DEF ReadForApproval, ReadForRejection, Abandon, Close, Deciding
  <1>2. ASSUME q.op \in Deciding, NEW r \in {a, b}
        PROVE  Current(r, j)
    <2>1. r.op \in {"approving", "rejecting"} /\ r.job = q.job /\ (r.job = j => r.status = status[j])
      BY <1>2
    <2>2. r.job = j => request[j] # "none" /\ (Sequential(j, "decide") => request[j] = "pending")
      BY <1>2, <2>1 DEF Story, Asked, Decided, FitsDecide
    <2> HIDE DEF a, b, q
    <2> QED
      BY <2>1, <2>2 DEF Current, Adds, Asked, FitsPrepare, FitsDecide, FitsBoth
  <1>3. UNCHANGED <<status, request, present, rendered, checked, deployable, raced>>
    BY <1>1 DEF committed
  <1>4. \A t \in Sessions : session'[t] = session[t] \/ Current(session'[t], j)
    <2> HIDE DEF a, b, q
    <2> QED
      BY <1>1, <1>2, EndedIsCurrent DEF TypeOK
  <1> QED
    BY <1>3, <1>4, Untouched DEF ObjectsOf

\* A request ends without writing its job, or writes another one.
LEMMA EndElsewhere ==
    ASSUME TypeOK, NEW j \in Jobs, Story(j), NEW s \in Sessions, Close(s),
           status'[j] = status[j], request'[j] = request[j], ObjectsOf(j)' = ObjectsOf(j),
           rendered \subseteq rendered', checked \subseteq checked',
           j \in deployable' => j \in deployable \/ Deploying(j)
    PROVE  Story(j)'
  <1>1. \A t \in Sessions : session'[t] = session[t] \/ Current(session'[t], j)
    BY EndedIsCurrent DEF Close, TypeOK
  <1> QED
    BY <1>1, Untouched DEF Close

LEMMA EndStory ==
    ASSUME TypeOK, NEW j \in Jobs, Story(j), Alone(j, "prepare"), Alone(j, "decide"), NEW s \in Sessions,
           \/ EndAddObject(s) \/ EndGenerate(s) \/ EndValidate(s) \/ EndSubmit(s)
           \/ EndApprove(s) \/ EndReject(s) \/ EndDeploy(s)
    PROVE  Story(j)'
  <1> DEFINE k == session[s].job
  <1>0. k \in Jobs /\ session[s].op # "idle"
    BY SessionFacts DEF EndAddObject, EndGenerate, EndValidate, EndSubmit, EndApprove, EndReject, EndDeploy
  <1>1. Close(s) /\ session' = [session EXCEPT ![s] = Idle] /\ raced' = raced
    BY DEF EndAddObject, EndGenerate, EndValidate, EndSubmit, EndApprove, EndReject, EndDeploy, Close
  <1>2. CASE EndDeploy(s)
    <2>1. j \in deployable' => j \in deployable \/ Deploying(j)
      BY <1>2 DEF EndDeploy, Deploying
    <2> QED
      BY <1>1, <1>2, <2>1, EndElsewhere DEF EndDeploy, ObjectsOf
  <1>3. CASE j # k /\ ~EndDeploy(s)
    <2>1. status'[j] = status[j] /\ request'[j] = request[j] /\ deployable' = deployable
          /\ rendered \subseteq rendered' /\ checked \subseteq checked'
      BY <1>0, <1>3 DEF EndAddObject, EndGenerate, EndValidate, EndSubmit, EndApprove, EndReject, TypeOK
    <2>2. ObjectsOf(j)' = ObjectsOf(j)
      <3>1. CASE EndAddObject(s)
        <4>1. JobOf[session[s].object] = k
          BY <3>1 DEF EndAddObject, Story, Adds
        <4> QED
          BY <1>3, <3>1, <4>1 DEF EndAddObject, ObjectsOf
      <3>2. CASE ~EndAddObject(s)
        BY <1>3, <3>2 DEF EndGenerate, EndValidate, EndSubmit, EndApprove, EndReject, ObjectsOf
      <3> QED
        BY <3>1, <3>2
    <2> QED
      BY <1>1, <2>1, <2>2, EndElsewhere
  <1>4. CASE j = k /\ (EndApprove(s) \/ EndReject(s))
    <2>1. /\ session[s].op \in {"approving", "rejecting"}
          /\ UNCHANGED <<deployable, present, rendered, checked>>
      BY <1>4 DEF EndApprove, EndReject
    <2>2. \/ UNCHANGED <<status, request>>
          \/ request'[j] = "approved" /\ status'[j] = MarkApproved(session[s].status, status[j])
          \/ request'[j] = "rejected" /\ status'[j] = MarkRejected(session[s].status, status[j])
      BY <1>4 DEF EndApprove, EndReject, TypeOK
    <2> QED
      BY <1>1, <1>4, <2>1, <2>2, DecisionWrites
  <1>5. CASE j = k /\ (EndAddObject(s) \/ EndGenerate(s) \/ EndValidate(s) \/ EndSubmit(s))
    <2>1. session[s].op \in Preparing /\ deployable' = deployable
      BY <1>5 DEF EndAddObject, EndGenerate, EndValidate, EndSubmit, Preparing
    <2>2. \/ request'[j] = request[j] /\ ~EndSubmit(s)
          \/ request[j] = "none" /\ request'[j] = "pending" /\ status'[j] = "pending_approval" /\ EndSubmit(s)
      BY <1>5 DEF EndAddObject, EndGenerate, EndValidate, EndSubmit, TypeOK
    <2>3. status'[j] = "approved" => status[j] = "approved"
      BY <1>5 DEF EndAddObject, EndGenerate, EndValidate, EndSubmit, TypeOK
    <2>4. ASSUME Sequential(j, "prepare")
          PROVE  /\ request[j] = "none" /\ Prepared(j) /\ FitsPrepare(session[s], j)
                 /\ ~EndSubmit(s) => status'[j] \in Early
                 /\ status'[j] \notin {"absent", "draft", "failed"} => ObjectsOf(j)' \subseteq rendered'
                 /\ status'[j] \notin {"absent", "draft", "failed", "generated"} => ObjectsOf(j)' \subseteq checked'
      <3>1. Prepared(j) /\ FitsPrepare(session[s], j)
        BY <2>4 DEF Story, Prepared
      <3>2. status[j] \in Early /\ request[j] = "none"
        BY <1>5, <3>1, <2>1 DEF Prepared, FitsPrepare, Preparing, Early
      <3>3. CASE EndAddObject(s)
        BY <1>5, <3>1, <3>2, <3>3 DEF EndAddObject, FitsPrepare, Early
      <3>4. CASE EndGenerate(s)
        <4>1. \/ status'[j] = "generated" /\ rendered' = rendered \cup ObjectsOf(j)
              \/ status'[j] = "failed"
          <5>1. session[s].objects = ObjectsOf(j)
            BY <1>5, <3>1, <3>4 DEF EndGenerate, FitsPrepare
          <5>2. \/ status'[j] = "generated" /\ rendered' = rendered \cup session[s].objects
                \/ status'[j] = "failed"
            BY <1>5, <3>4 DEF EndGenerate, TypeOK
          <5> QED
            BY <5>1, <5>2
        <4>2. ObjectsOf(j)' = ObjectsOf(j)
          BY <3>4 DEF EndGenerate, ObjectsOf
        <4> QED
          BY <3>1, <3>2, <3>4, <4>1, <4>2 DEF Early
      <3>5. CASE EndValidate(s)
        <4>1. status[j] = "generated" /\ session[s].objects = ObjectsOf(j)
          BY <1>5, <3>1, <3>5 DEF EndValidate, FitsPrepare
        <4>2. status'[j] \in {"validated", "failed"} /\ checked' = checked \cup ObjectsOf(j) /\ rendered' = rendered
          BY <1>5, <3>5, <4>1 DEF EndValidate, TypeOK
        <4>3. ObjectsOf(j)' = ObjectsOf(j)
          BY <3>5 DEF EndValidate, ObjectsOf
        <4> QED
          BY <3>1, <3>2, <3>5, <4>1, <4>2, <4>3 DEF Early, Prepared
      <3>6. CASE EndSubmit(s)
        <4>1. status[j] = "validated" /\ UNCHANGED <<present, rendered, checked>>
          BY <1>5, <3>1, <3>6 DEF EndSubmit, FitsPrepare
        <4> QED
          BY <3>1, <3>2, <3>6, <4>1 DEF Prepared, ObjectsOf
      <3> QED
        BY <1>5, <3>3, <3>4, <3>5, <3>6
    <2>5. Sequential(j, "prepare") => (request'[j] = "none" <=> status'[j] \in Early)
      BY <2>2, <2>4 DEF Early
    <2> QED
      BY <1>1, <1>5, <2>1, <2>2, <2>3, <2>4, <2>5, PrepareWrites
  <1> QED
    BY <1>2, <1>3, <1>4, <1>5

LEMMA StoriesStep == TypeOK /\ Stories /\ [Next]_vars => Stories'
  <1> SUFFICES ASSUME TypeOK, Stories, [Next]_vars, NEW j \in Jobs
               PROVE  Story(j)' /\ Alone(j, "prepare")' /\ Alone(j, "decide")'
    BY DEF Stories
  <1>1. Story(j) /\ Alone(j, "prepare") /\ Alone(j, "decide")
    BY DEF Stories
  <1>2. Alone(j, "prepare")' /\ Alone(j, "decide")'
    BY <1>1, AloneStep
  <1>3. ASSUME UNCHANGED vars
        PROVE  Story(j)'
    <2>1. /\ status' = status /\ request' = request /\ present' = present /\ rendered' = rendered
          /\ checked' = checked /\ deployable' = deployable /\ session' = session /\ raced' = raced
      BY <1>3 DEF vars, committed
    <2>2. ObjectsOf(j)' = ObjectsOf(j)
      BY <2>1 DEF ObjectsOf
    <2> QED
      BY <1>1, <2>1, <2>2, Untouched
  <1>4. ASSUME NEW k \in Jobs, CreateJob(k)
        PROVE  Story(j)'
    <2>1. CASE k = j
      BY <1>1, <1>4, <2>1, CreateStory
    <2>2. CASE k # j
      BY <1>1, <1>4, <2>2, Untouched DEF CreateJob, ObjectsOf, TypeOK
    <2> QED
      BY <2>1, <2>2
  <1>5. ASSUME NEW s \in Sessions, NEW o \in Objects, BeginAddObject(s, o)
        PROVE  Story(j)'
    BY <1>1, <1>5, BeginStory, JobOfAssumption
  <1>6. ASSUME NEW s \in Sessions, NEW k \in Jobs,
               \/ BeginGenerate(s, k) \/ BeginValidate(s, k) \/ BeginSubmit(s, k) \/ BeginDeploy(s, k)
               \/ \E u \in Users, op \in {"approve", "reject"} : BeginDecision(s, k, u, op)
        PROVE  Story(j)'
    BY <1>1, <1>6, BeginStory
  <1>7. ASSUME NEW s \in Sessions, ReadForApproval(s) \/ ReadForRejection(s) \/ Abandon(s)
        PROVE  Story(j)'
    BY <1>1, <1>7, ReadStory
  <1>8. ASSUME NEW s \in Sessions,
               \/ EndAddObject(s) \/ EndGenerate(s) \/ EndValidate(s) \/ EndSubmit(s)
               \/ EndApprove(s) \/ EndReject(s) \/ EndDeploy(s)
        PROVE  Story(j)'
    BY <1>1, <1>8, EndStory
  <1>9. Story(j)'
    BY <1>3, <1>4, <1>5, <1>6, <1>7, <1>8 DEF Next, SubmitRefused, RequestDies
  <1> QED
    BY <1>2, <1>9

LEMMA StoriesHold == Spec => [](TypeOK /\ Stories)
  BY InitStories, StoriesStep, TypeCorrect, PTL DEF Spec

\* Job and request agree while no two requests of one stage overlap (approve, reject,
\* mark_approved, mark_rejected, submit_approval).
THEOREM RequestIsFollowed == Spec => []JobFollowsRequest
  <1>1. TypeOK /\ Stories => JobFollowsRequest
    BY DEF Stories, Story, Prepared, Agrees, JobFollowsRequest, Early
  <1> QED
    BY <1>1, StoriesHold, PTL

\* What is waiting for approval, approved or deployable was generated and validated, while the
\* preparation of the job was sequential (add_object, generate, validate, submit_approval).
THEOREM ReviewIsComplete == Spec => []ApprovedIsReviewed
  <1>1. Stories => ApprovedIsReviewed
    BY DEF Stories, Story, Prepared, ApprovedIsReviewed, Early
  <1> QED
    BY <1>1, StoriesHold, PTL

\* A job that is deployable has an approved request, while the decisions on it were
\* sequential (create_deployment_job, approve, reject).
THEOREM DeploymentIsApproved == Spec => []DeployableIsApproved
  <1>1. Stories => DeployableIsApproved
    BY DEF Stories, Story, Decided, DeployableIsApproved
  <1> QED
    BY <1>1, StoriesHold, PTL

\* No request changes its resolution while the decisions on it are sequential (approve, reject).
THEOREM ResolutionStays == Spec => ResolvedStays
  <1>1. TypeOK /\ Stories /\ [Next]_vars =>
            [\A j \in Jobs : Resolved(j) /\ Sequential(j, "decide") => request'[j] = request[j]]_vars
    <2> SUFFICES ASSUME TypeOK, Stories, [Next]_vars, NEW j \in Jobs, Resolved(j), Sequential(j, "decide")
                 PROVE  request'[j] = request[j]
      OBVIOUS
    <2>1. ASSUME NEW s \in Sessions, EndApprove(s) \/ EndReject(s)
          PROVE  request'[j] = request[j]
      <3>1. FitsDecide(session[s], j) /\ session[s].op \in Deciding
        BY <2>1 DEF Stories, Story, Decided, EndApprove, EndReject, Deciding
      <3>2. session[s].job # j
        BY <3>1 DEF FitsDecide, Resolved
      <3>3. session[s].job \in Jobs
        BY <3>1, SessionFacts DEF Deciding
      <3> QED
        BY <2>1, <3>2, <3>3 DEF EndApprove, EndReject, TypeOK
    <2>2. ASSUME NEW s \in Sessions, EndSubmit(s)
          PROVE  request'[j] = request[j]
      BY <2>2 DEF EndSubmit, TypeOK, Resolved
    <2>3. \/ request' = request
          \/ \E s \in Sessions : EndApprove(s) \/ EndReject(s) \/ EndSubmit(s)
      BY DEF Next, vars, committed, CreateJob, BeginAddObject, BeginGenerate, BeginValidate, BeginSubmit,
             BeginDeploy, BeginDecision, EndAddObject, EndGenerate, EndValidate, SubmitRefused,
             ReadForApproval, ReadForRejection, EndDeploy, RequestDies, Abandon
    <2> QED
      BY <2>1, <2>2, <2>3
  <1> QED
    BY <1>1, StoriesHold, PTL DEF Spec, ResolvedStays
=============================================================================
