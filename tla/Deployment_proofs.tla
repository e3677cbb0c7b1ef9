-------------------------- MODULE Deployment_proofs --------------------------
(***************************************************************************)
(* Proofs about Deployment for any workers, deployments, assets and        *)
(* bounds: type correctness, the asset locks with the refinement of their  *)
(* abstract specification, and what a deployment leaves behind: its        *)
(* notifications, its versions, and the state of its devices.              *)
(***************************************************************************)
EXTENDS Deployment, FiniteSetTheorems, SequenceTheorems, WellFoundedInduction, TLAPS

(***************************************************************************)
(* Lemmas about the operators the model is built from.                     *)
(***************************************************************************)

\* The range of a sequence when an element is added, or its head taken away.
LEMMA SeqRangeFacts ==
    ASSUME NEW S, NEW s \in Seq(S)
    PROVE  /\ SeqRange(s) \subseteq S
           /\ SeqRange(<<>>) = {}
           /\ \A e \in S : SeqRange(Append(s, e)) = SeqRange(s) \cup {e}
           /\ \A e : SeqRange(<<e>>) = {e}
           /\ s # <<>> => SeqRange(s) = {Head(s)} \cup SeqRange(Tail(s))
  <1>1. SeqRange(s) \subseteq S
    BY DEF SeqRange
  <1>2. SeqRange(<<>>) = {}
    BY DEF SeqRange
  <1>3. ASSUME NEW e \in S
        PROVE  SeqRange(Append(s, e)) = SeqRange(s) \cup {e}
    <2>1. /\ DOMAIN s = 1..Len(s)
          /\ Len(s) \in Nat
          /\ DOMAIN Append(s, e) = 1..(Len(s) + 1)
          /\ \A i \in 1..Len(s) : Append(s, e)[i] = s[i]
          /\ Append(s, e)[Len(s) + 1] = e
      BY <1>3, AppendProperties, LenProperties
    <2>2. \A i \in 1..(Len(s) + 1) : i \in 1..Len(s) \/ i = Len(s) + 1
      BY <2>1
    <2>3. /\ Len(s) + 1 \in 1..(Len(s) + 1)
          /\ 1..Len(s) \subseteq 1..(Len(s) + 1)
      BY <2>1
    <2> QED
      BY <2>1, <2>2, <2>3 DEF SeqRange
  <1>4. ASSUME NEW e
        PROVE  SeqRange(<<e>>) = {e}
    BY DEF SeqRange
  <1>5. ASSUME s # <<>>
        PROVE  SeqRange(s) = {Head(s)} \cup SeqRange(Tail(s))
    <2>1. /\ DOMAIN s = 1..Len(s)
          /\ Len(s) \in Nat \ {0}
          /\ Tail(s) \in Seq(S)
          /\ DOMAIN Tail(s) = 1..(Len(s) - 1)
          /\ \A i \in 1..(Len(s) - 1) : Tail(s)[i] = s[i + 1]
          /\ Head(s) = s[1]
      BY <1>5, EmptySeq, HeadTailProperties, LenProperties
    <2>2. SeqRange(Tail(s)) \subseteq SeqRange(s)
      <3> SUFFICES ASSUME NEW i \in 1..(Len(s) - 1)
                   PROVE  Tail(s)[i] \in SeqRange(s)
        BY <2>1 DEF SeqRange
      <3>1. i + 1 \in 1..Len(s) /\ Tail(s)[i] = s[i + 1]
        BY <2>1
      <3> QED
        BY <2>1, <3>1 DEF SeqRange
    <2>3. Head(s) \in SeqRange(s)
      BY <2>1 DEF SeqRange
    <2>4. ASSUME NEW i \in 1..Len(s)
          PROVE  s[i] \in {Head(s)} \cup SeqRange(Tail(s))
      <3>1. CASE i = 1
        BY <2>1, <3>1
      <3>2. CASE i # 1
        <4>1. i - 1 \in 1..(Len(s) - 1) /\ Tail(s)[i - 1] = s[i]
          BY <2>1, <3>2
        <4> QED
          BY <2>1, <4>1 DEF SeqRange
      <3> QED
        BY <3>1, <3>2
    <2>5. SeqRange(s) \subseteq {Head(s)} \cup SeqRange(Tail(s))
      <3> HIDE DEF SeqRange
      <3>1. SeqRange(s) = {s[i] : i \in 1..Len(s)}
        BY <2>1 DEF SeqRange
      <3> QED
        BY <2>4, <3>1
    <2> QED
      BY <2>2, <2>3, <2>5
  <1> QED
    BY <1>1, <1>2, <1>3, <1>4, <1>5

\* A non-empty set of naturals with an upper bound has a greatest element.
LEMMA BoundedHasGreatest ==
    ASSUME NEW S \in SUBSET Nat, S # {}, NEW n \in Nat, \A m \in S : m <= n
    PROVE  \E x \in S : \A m \in S : m <= x
  <1> DEFINE T == {k \in Nat : \E m \in S : k = n - m}
             R == OpToRel(<, Nat)
  <1>1. T # {}
    <2>1. PICK m \in S : TRUE
      OBVIOUS
    <2>2. n - m \in Nat
      BY <2>1
    <2> QED
      BY <2>1, <2>2
  <1>2. IsWellFoundedOn(R, Nat)
    BY NatLessThanWellFounded
  <1>3. PICK k \in T : \A j \in T : ~ (<<j, k>> \in R)
    <2> HIDE DEF R
    <2> QED
      BY <1>1, <1>2, WFMin
  <1>4. ASSUME NEW j \in T
        PROVE  k <= j
    <2>1. j \in Nat /\ k \in Nat
      OBVIOUS
    <2>2. j < k => <<j, k>> \in R
      BY <2>1 DEF OpToRel
    <2>3. ~ (j < k)
      <3> HIDE DEF T, R
      <3> QED
        BY <1>3, <2>2
    <2> QED
      BY <2>1, <2>3
  <1>5. PICK x \in S : k = n - x
    OBVIOUS
  <1>6. ASSUME NEW m \in S
        PROVE  m <= x
    <2>1. n - m \in T
      OBVIOUS
    <2>2. n - x <= n - m
      BY <1>4, <1>5, <2>1
    <2> QED
      BY <2>2
  <1> QED
    BY <1>6

-----------------------------------------------------------------------------
(***************************************************************************)
(* Type correctness.  TypeOK is not inductive: a version's number is one   *)
(* more than the greatest, which exists because the numbers are bounded,   *)
(* and a rollback restores contents because its assets were backed up.     *)
(***************************************************************************)

AllVersions == versions \cup UNION {txn[w].versions : w \in Workers}

NumbersBounded == \E n \in Nat : \A v \in AllVersions : v.number <= n

\* Which assets have a backup, at the places of execute_deployment that follow from it.
BackedUp ==
    \A w \in Workers : \A a \in SeqRange(order[w]) :
        /\ pc[w] = "backup" => a \in SeqRange(todoAssets[w]) \/ txn[w].saved[a] # NoBackup
        /\ pc[w] \in {"apply", "abandon", "rollback"} => txn[w].saved[a] # NoBackup

\* The assets still to be restored are among those.
RollsBackOwn ==
    \A w \in Workers : pc[w] = "rollback" => SeqRange(todoAssets[w]) \subseteq SeqRange(order[w])

TypeInv == TypeOK /\ NumbersBounded /\ BackedUp /\ RollsBackOwn

\* u is a transaction like t, with the versions and the backups of t.
Keeps(u, t) == u \in TxnType /\ u.versions = t.versions /\ u.saved = t.saved

LEMMA TxnFacts ==
    ASSUME NEW t \in TxnType
    PROVE  /\ \A s \in Status \cup {"unchanged"} : Keeps([t EXCEPT !.status = s], t)
           /\ \A a \in Assets : /\ Keeps([t EXCEPT !.locks = @ \cup {a}], t)
                              /\ Keeps([t EXCEPT !.removed = @ \cup {a}], t)
           /\ \A s \in Status : Keeps([WithoutLocks(t) EXCEPT !.status = s], t)
           /\ Keeps([WithoutLocks(t) EXCEPT !.status = "success", !.remediates = TRUE], t)
           /\ \A d \in Deployments, s \in FailedStatus : Keeps(Failed(t, d, s), t)
  <1> USE DEF TxnType, Keeps
  <1>2. ASSUME NEW s \in Status \cup {"unchanged"}
        PROVE  Keeps([t EXCEPT !.status = s], t)
    OBVIOUS
  <1>3. ASSUME NEW a \in Assets
        PROVE  /\ Keeps([t EXCEPT !.locks = @ \cup {a}], t)
               /\ Keeps([t EXCEPT !.removed = @ \cup {a}], t)
    OBVIOUS
  <1>4. Keeps(WithoutLocks(t), t)
    BY DEF WithoutLocks
  <1>5. ASSUME NEW d \in Deployments, NEW s \in FailedStatus
        PROVE  Keeps(Failed(t, d, s), t)
    <2>1. s \in Status /\ <<d, s>> \in Deployments \X FailedStatus
      BY DEF Status, FinalStatus
    <2> QED
      BY <1>4, <2>1 DEF Failed, WithoutLocks
  <1>6. ASSUME NEW s \in Status
        PROVE  Keeps([WithoutLocks(t) EXCEPT !.status = s], t)
    BY <1>4 DEF WithoutLocks
  <1>7. Keeps([WithoutLocks(t) EXCEPT !.status = "success", !.remediates = TRUE], t)
    BY <1>4 DEF WithoutLocks, Status, FinalStatus
  <1> QED
    <2> HIDE DEF TxnType, Keeps
    <2> QED
      BY <1>2, <1>3, <1>5, <1>6, <1>7

LEMMA MergedType ==
    ASSUME TypeOK, NEW saved \in Contents, NEW a
    PROVE  Merged(saved, a) \in Contents
  BY DEF TypeOK, Merged, Contents

THEOREM InitTypeInv == Init => TypeInv
  <1> SUFFICES ASSUME Init
               PROVE  TypeInv
    OBVIOUS
  <1>1. NoTxn \in TxnType
    BY DEF NoTxn, TxnType
  <1>2. TypeOK
    BY <1>1 DEF Init, TypeOK, Status, Phases, Contents, Value
  <1>3. NumbersBounded
    <2>1. AllVersions = {}
      BY DEF Init, AllVersions, NoTxn
    <2> QED
      BY <2>1 DEF NumbersBounded
  <1>4. BackedUp /\ RollsBackOwn
    BY DEF Init, BackedUp, RollsBackOwn
  <1> QED
    BY <1>2, <1>3, <1>4 DEF TypeInv

\* An action that adds no version keeps the numbers bounded.
LEMMA NoNewNumber ==
    ASSUME NumbersBounded, AllVersions' \subseteq AllVersions
    PROVE  NumbersBounded'
  BY DEF NumbersBounded

\* An action that writes one transaction, and no version to it.
LEMMA TxnStep ==
    ASSUME TypeInv, NEW w \in Workers, NEW t \in TxnType, t.versions \subseteq txn[w].versions,
           txn' = [txn EXCEPT ![w] = t], versions' = versions
    PROVE  txn' \in [Workers -> TxnType] /\ NumbersBounded'
  <1>1. txn' \in [Workers -> TxnType] /\ txn'[w] = t
    BY DEF TypeInv, TypeOK
  <1>2. \A v \in Workers : txn'[v].versions \subseteq txn[v].versions
    BY DEF TypeInv, TypeOK
  <1>3. AllVersions' \subseteq AllVersions
    BY <1>2 DEF AllVersions
  <1> QED
    BY <1>1, <1>3, NoNewNumber DEF TypeInv

\* What an object is about, and what its device can hold.
LEMMA ObjectFacts ==
    ASSUME NEW o \in Objects
    PROVE  /\ ItemOf[o] \in Items
           /\ AssetOf(o) \in Assets
           /\ KeyOf[o] \in Keys
           /\ \A c \in Contents : [c EXCEPT ![ItemOf[o]] = o] \in Contents
  BY ConstantsAssumption DEF AssetOf, Contents, Value

\* A session that closes leaves typed local state behind, and no uncommitted version.
LEMMA CloseSessionFacts ==
    ASSUME TypeInv, NEW w \in Workers, CloseSession(w)
    PROVE  /\ pc' \in [Workers -> Phases] /\ pc'[w] = "idle"
           /\ job' \in [Workers -> Deployments \cup {NoJob}]
           /\ \A v \in Workers : pc'[v] # "idle" => job'[v] \in Deployments
           /\ order' \in [Workers -> Seq(Assets)]
           /\ todoAssets' \in [Workers -> Seq(Assets)]
           /\ todoObjects' \in [Workers -> Seq(Objects)]
           /\ pending' \in [Workers -> Seq(Assets)]
           /\ held' \in [Workers -> SUBSET Assets]
           /\ conns' \in [Workers -> SUBSET Assets]
           /\ allGood' \in [Workers -> BOOLEAN]
           /\ txn' \in [Workers -> TxnType]
           /\ touched' \in [Workers -> SUBSET Assets]
           /\ txn'[w].versions = {}
           /\ \A v \in Workers \ {w} : txn'[v] = txn[v]
           /\ BackedUp' /\ RollsBackOwn'
  <1>1. NoTxn \in TxnType /\ NoTxn.versions = {}
    BY DEF NoTxn, TxnType
  <1>2. /\ txn' \in [Workers -> TxnType]
        /\ txn'[w].versions = {}
        /\ \A v \in Workers \ {w} : txn'[v] = txn[v]
    BY <1>1 DEF TypeInv, TypeOK, CloseSession
  <1>3. /\ pc' \in [Workers -> Phases] /\ pc'[w] = "idle"
        /\ job' \in [Workers -> Deployments \cup {NoJob}]
        /\ \A v \in Workers : pc'[v] # "idle" => job'[v] \in Deployments
    BY DEF TypeInv, TypeOK, CloseSession, Phases
  <1>4. /\ order' \in [Workers -> Seq(Assets)]
        /\ todoAssets' \in [Workers -> Seq(Assets)]
        /\ todoObjects' \in [Workers -> Seq(Objects)]
        /\ pending' \in [Workers -> Seq(Assets)]
    BY DEF TypeInv, TypeOK, CloseSession
  <1>5. /\ held' \in [Workers -> SUBSET Assets]
        /\ conns' \in [Workers -> SUBSET Assets]
        /\ allGood' \in [Workers -> BOOLEAN]
        /\ touched' \in [Workers -> SUBSET Assets]
    BY DEF TypeInv, TypeOK, CloseSession, DropKeys
  <1>6. BackedUp' /\ RollsBackOwn'
    BY <1>2 DEF TypeInv, TypeOK, BackedUp, RollsBackOwn, CloseSession
  <1> QED
    BY <1>2, <1>3, <1>4, <1>5, <1>6

\* The session of w closes without a commit.
LEMMA AbortKeepsTypes ==
    ASSUME TypeInv, NEW w \in Workers, Abort(w), UNCHANGED <<starts, restores>>, crashes' \in Nat
    PROVE  TypeInv'
  <1>1. CloseSession(w) /\ UNCHANGED <<committed, queue, device>>
    BY DEF Abort
  <1>2. TypeOK'
    BY <1>1, CloseSessionFacts DEF TypeInv, TypeOK, committed
  <1>3. AllVersions' \subseteq AllVersions
    BY <1>1, CloseSessionFacts DEF AllVersions, committed
  <1> QED
    BY <1>1, <1>2, <1>3, CloseSessionFacts, NoNewNumber DEF TypeInv

\* The next number of a history is positive and exceeds no bound by more than one.
LEMMA NextNumberFacts ==
    ASSUME TypeInv, NEW w \in Workers, NEW k,
           NEW n \in Nat, \A v \in AllVersions : v.number <= n
    PROVE  NextNumber(w, k) \in 1..(n + 1)
  <1> DEFINE S == SeenNumbers(w, k)
  <1>1. \A v \in versions \cup txn[w].versions : v \in AllVersions /\ v.number \in Nat
    BY DEF TypeInv, TypeOK, TxnType, AllVersions
  <1>2. S \in SUBSET Nat /\ 0 \in S /\ \A m \in S : m <= n
    BY <1>1 DEF SeenNumbers
  <1> HIDE DEF S
  <1>3. \E x \in S : \A m \in S : m <= x
    BY <1>2, BoundedHasGreatest
  <1>4. LatestNumber(w, k) \in S
    BY <1>3 DEF LatestNumber, S
  <1>5. NextNumber(w, k) = LatestNumber(w, k) + 1
    BY DEF NextNumber
  <1>6. LatestNumber(w, k) \in Nat /\ LatestNumber(w, k) <= n
    BY <1>2, <1>4
  <1>7. ASSUME NEW x \in Nat, x <= n
        PROVE  x + 1 \in 1..(n + 1)
    BY <1>7
  <1> QED
    BY <1>5, <1>6, <1>7

\* The iteration order of a deployment's assets is a sequence of them.
LEMMA OrderFacts ==
    ASSUME NEW d \in Deployments, NEW q \in Orders(d)
    PROVE  q \in Seq(Assets) /\ SeqRange(q) = AssetsOf(d)
  <1>1. AssetsOf(d) \subseteq Assets
    <2>1. Plan[d] \in Seq(Objects)
      BY ConstantsAssumption
    <2>2. ObjectsOf(d) \subseteq Objects
      BY <2>1, SeqRangeFacts DEF ObjectsOf
    <2> QED
      BY <2>2, ObjectFacts DEF AssetsOf
  <1>2. Cardinality(AssetsOf(d)) \in Nat
    BY <1>1, ConstantsAssumption, FS_Subset, FS_CardinalityType
  <1>3. q \in [1..Cardinality(AssetsOf(d)) -> AssetsOf(d)] /\ SeqRange(q) = AssetsOf(d)
    BY DEF Orders
  <1> QED
    BY <1>1, <1>2, <1>3

\* A step that leaves the versions, the transactions and the order of the assets alone.
LEMMA FrameKeeps ==
    ASSUME TypeInv, TypeOK', UNCHANGED <<versions, txn, pc, order, todoAssets>>
    PROVE  TypeInv'
  <1>1. AllVersions' \subseteq AllVersions
    BY DEF AllVersions
  <1>2. BackedUp' /\ RollsBackOwn'
    BY DEF TypeInv, BackedUp, RollsBackOwn
  <1> QED
    BY <1>1, <1>2, NoNewNumber DEF TypeInv

\* Fail keeps the types, whatever becomes of the connections.
LEMMA FailKeepsTypes ==
    ASSUME TypeInv, NEW w \in Workers, pc[w] # "idle", NEW s \in FailedStatus, Fail(w, s),
           conns' \in [Workers -> SUBSET Assets],
           UNCHANGED <<committed, bounds, queue, device, job, cursor, pending, held, allGood,
                       touched>>
    PROVE  TypeInv'
  <1> DEFINE t == Failed(txn[w], job[w], s)
  <1>1. txn' = [txn EXCEPT ![w] = t] /\ versions' = versions
    BY DEF Fail, committed
  <1>2. Keeps(t, txn[w])
    BY TxnFacts DEF TypeInv, TypeOK
  <1> HIDE DEF t
  <1>3. txn' \in [Workers -> TxnType] /\ NumbersBounded'
    BY <1>1, <1>2, TxnStep DEF Keeps
  <1>4. TypeOK'
    BY <1>3 DEF TypeInv, TypeOK, Fail, Phases, committed, bounds, cursor
  <1>5. BackedUp' /\ RollsBackOwn'
    BY <1>1 DEF TypeInv, TypeOK, BackedUp, RollsBackOwn, Fail, committed, cursor
  <1> QED
    BY <1>3, <1>4, <1>5 DEF TypeInv

THEOREM TypeInvStep == TypeInv /\ [Next]_vars => TypeInv'
  <1> SUFFICES ASSUME TypeInv, [Next]_vars
               PROVE  TypeInv'
    OBVIOUS
  <1> USE DEF committed, bounds, cursor
  <1>1. ASSUME NEW w \in Workers, AddLock(w)
        PROVE  TypeInv'
    <2>1. TypeOK'
      BY <1>1 DEF TypeInv, TypeOK, AddLock, Phases
    <2>2. AllVersions' \subseteq AllVersions
      BY <1>1 DEF AllVersions, AddLock
    <2>3. BackedUp' /\ RollsBackOwn'
      BY <1>1 DEF TypeInv, TypeOK, BackedUp, RollsBackOwn, AddLock
    <2> QED
      BY <2>1, <2>2, <2>3, NoNewNumber DEF TypeInv
  <1>2. ASSUME NEW w \in Workers, ReplaceLock(w)
        PROVE  TypeInv'
    <2> DEFINE t == [txn[w] EXCEPT !.removed = @ \cup {Head(todoAssets[w])}]
    <2>1. /\ txn[w] \in TxnType
          /\ txn' = [txn EXCEPT ![w] = t]
          /\ versions' = versions
      BY <1>2 DEF TypeInv, TypeOK, ReplaceLock
    <2>7. Head(todoAssets[w]) \in Assets
      BY <1>2 DEF TypeInv, TypeOK, ReplaceLock
    <2>2. Keeps(t, txn[w])
      BY <1>2, <2>1, <2>7, TxnFacts DEF TypeInv, TypeOK, ReplaceLock
    <2> HIDE DEF t
    <2>3. txn' \in [Workers -> TxnType] /\ NumbersBounded'
      BY <2>1, <2>2, TxnStep DEF Keeps
    <2>4. TypeOK'
      BY <1>2, <2>3 DEF TypeInv, TypeOK, ReplaceLock, Phases
    <2>5. \A v \in Workers : txn'[v].saved = txn[v].saved
      BY <2>1, <2>2 DEF TypeInv, TypeOK, Keeps
    <2>6. BackedUp' /\ RollsBackOwn'
      BY <1>2, <2>5 DEF TypeInv, TypeOK, BackedUp, RollsBackOwn, ReplaceLock
    <2> QED
      BY <2>3, <2>4, <2>6 DEF TypeInv
  <1>3. ASSUME NEW w \in Workers, LockConflict(w)
        PROVE  TypeInv'
    <2>1. TypeOK'
      BY <1>3 DEF TypeInv, TypeOK, LockConflict, Phases
    <2>2. AllVersions' \subseteq AllVersions
      BY <1>3 DEF AllVersions, LockConflict
    <2>3. BackedUp' /\ RollsBackOwn'
      BY <1>3 DEF TypeInv, TypeOK, BackedUp, RollsBackOwn, LockConflict
    <2> QED
      BY <2>1, <2>2, <2>3, NoNewNumber DEF TypeInv
  <1>4. ASSUME NEW w \in Workers, InsertLock(w)
        PROVE  TypeInv'
    <2> DEFINE t == [txn[w] EXCEPT !.locks = @ \cup {Head(pending[w])}]
    <2>1. /\ txn[w] \in TxnType
          /\ txn' = [txn EXCEPT ![w] = t]
          /\ versions' = versions
      BY <1>4 DEF TypeInv, TypeOK, InsertLock
    <2>7. Head(pending[w]) \in Assets
      BY <1>4 DEF TypeInv, TypeOK, InsertLock
    <2>2. Keeps(t, txn[w])
      BY <1>4, <2>1, <2>7, TxnFacts DEF TypeInv, TypeOK, InsertLock
    <2> HIDE DEF t
    <2>3. txn' \in [Workers -> TxnType] /\ NumbersBounded'
      BY <2>1, <2>2, TxnStep DEF Keeps
    <2>4. TypeOK'
      BY <1>4, <2>3 DEF TypeInv, TypeOK, InsertLock, Phases
    <2>5. \A v \in Workers : txn'[v].saved = txn[v].saved
      BY <2>1, <2>2 DEF TypeInv, TypeOK, Keeps
    <2>6. BackedUp' /\ RollsBackOwn'
      BY <1>4, <2>5 DEF TypeInv, TypeOK, BackedUp, RollsBackOwn, InsertLock
    <2> QED
      BY <2>3, <2>4, <2>6 DEF TypeInv
  <1>5. ASSUME NEW w \in Workers, LocksAcquired(w)
        PROVE  TypeInv'
    <2> DEFINE t == [txn[w] EXCEPT !.status = "precheck"]
    <2>1. /\ txn[w] \in TxnType
          /\ txn' = [txn EXCEPT ![w] = t]
          /\ versions' = versions
      BY <1>5 DEF TypeInv, TypeOK, LocksAcquired, AcquiredLocks
    <2>2. Keeps(t, txn[w])
      BY <1>5, <2>1, TxnFacts DEF TypeInv, TypeOK, LocksAcquired, Status, RunningStatus
    <2> HIDE DEF t
    <2>3. txn' \in [Workers -> TxnType] /\ NumbersBounded'
      BY <2>1, <2>2, TxnStep DEF Keeps
    <2>4. TypeOK'
      BY <1>5, <2>3 DEF TypeInv, TypeOK, LocksAcquired, Phases, AcquiredLocks
    <2>5. \A v \in Workers : txn'[v].saved = txn[v].saved
      BY <2>1, <2>2 DEF TypeInv, TypeOK, Keeps
    <2>6. BackedUp' /\ RollsBackOwn'
      BY <1>5, <2>5 DEF TypeInv, TypeOK, BackedUp, RollsBackOwn, LocksAcquired, AcquiredLocks
    <2> QED
      BY <2>3, <2>4, <2>6 DEF TypeInv
  <1>6. ASSUME NEW w \in Workers, LocksRefused(w)
        PROVE  TypeInv'
    <2> DEFINE t == Failed(txn[w], job[w], "precheck_failed")
    <2>1. /\ txn[w] \in TxnType
          /\ txn' = [txn EXCEPT ![w] = t]
          /\ versions' = versions
      BY <1>6 DEF TypeInv, TypeOK, LocksRefused, Fail
    <2>2. Keeps(t, txn[w])
      BY <1>6, <2>1, TxnFacts DEF TypeInv, TypeOK, LocksRefused, FailedStatus
    <2> HIDE DEF t
    <2>3. txn' \in [Workers -> TxnType] /\ NumbersBounded'
      BY <2>1, <2>2, TxnStep DEF Keeps
    <2>4. TypeOK'
      BY <1>6, <2>3 DEF TypeInv, TypeOK, LocksRefused, Phases, Fail
    <2>5. \A v \in Workers : txn'[v].saved = txn[v].saved
      BY <2>1, <2>2 DEF TypeInv, TypeOK, Keeps
    <2>6. BackedUp' /\ RollsBackOwn'
      BY <1>6, <2>5 DEF TypeInv, TypeOK, BackedUp, RollsBackOwn, LocksRefused, Fail
    <2> QED
      BY <2>3, <2>4, <2>6 DEF TypeInv
  <1>7. ASSUME NEW w \in Workers, BeginApply(w)
        PROVE  TypeInv'
    <2> DEFINE t == [txn[w] EXCEPT !.status = "applying"]
    <2>1. /\ txn[w] \in TxnType
          /\ txn' = [txn EXCEPT ![w] = t]
          /\ versions' = versions
      BY <1>7 DEF TypeInv, TypeOK, BeginApply
    <2>2. Keeps(t, txn[w])
      BY <1>7, <2>1, TxnFacts DEF TypeInv, TypeOK, BeginApply, Status, RunningStatus
    <2> HIDE DEF t
    <2>3. txn' \in [Workers -> TxnType] /\ NumbersBounded'
      BY <2>1, <2>2, TxnStep DEF Keeps
    <2>4. TypeOK'
      BY <1>7, <2>3, ConstantsAssumption DEF TypeInv, TypeOK, BeginApply, Phases
    <2>5. \A v \in Workers : txn'[v].saved = txn[v].saved
      BY <2>1, <2>2 DEF TypeInv, TypeOK, Keeps
    <2>6. BackedUp' /\ RollsBackOwn'
      <3>1. SeqRange(todoAssets[w]) = {}
        BY <1>7, EmptySeq, SeqRangeFacts DEF BeginApply
      <3> QED
        BY <1>7, <2>5, <3>1 DEF TypeInv, TypeOK, BackedUp, RollsBackOwn, BeginApply
    <2> QED
      BY <2>3, <2>4, <2>6 DEF TypeInv
  <1>8. ASSUME NEW w \in Workers, ConnectAsset(w)
        PROVE  TypeInv'
    <2>1. AssetOf(Head(todoObjects[w])) \in Assets
      BY <1>8, ObjectFacts DEF TypeInv, TypeOK, ConnectAsset
    <2>2. TypeOK'
      <3>1. conns' \in [Workers -> SUBSET Assets]
        <4>1. conns' \in {conns, [conns EXCEPT ![w] = @ \cup {AssetOf(Head(todoObjects[w]))}]}
          BY <1>8 DEF ConnectAsset
        <4>2. conns[w] \cup {AssetOf(Head(todoObjects[w]))} \subseteq Assets
          BY <2>1 DEF TypeInv, TypeOK
        <4> QED
          BY <4>1, <4>2 DEF TypeInv, TypeOK
      <3>3. pc' \in [Workers -> Phases]
        <4>1. pc' \in {pc, [pc EXCEPT ![w] = "abandon"]}
          BY <1>8 DEF ConnectAsset
        <4> QED
          BY <4>1 DEF TypeInv, TypeOK, Phases
      <3>2. \A v \in Workers : pc'[v] # "idle" => job'[v] \in Deployments
        BY <1>8 DEF TypeInv, TypeOK, ConnectAsset
      <3> QED
        BY <1>8, <3>1, <3>2, <3>3 DEF TypeInv, TypeOK, ConnectAsset
    <2>3. AllVersions' \subseteq AllVersions
      BY <1>8 DEF AllVersions, ConnectAsset
    <2>4. BackedUp' /\ RollsBackOwn'
      BY <1>8 DEF TypeInv, TypeOK, BackedUp, RollsBackOwn, ConnectAsset
    <2> QED
      BY <2>2, <2>3, <2>4, NoNewNumber DEF TypeInv
  <1>9. ASSUME NEW w \in Workers, DeployObject(w)
        PROVE  TypeInv'
    <2>1. device' \in Contents
      BY <1>9, ObjectFacts DEF TypeInv, TypeOK, DeployObject
    <2>2. TypeOK'
      <3>1. todoObjects' \in [Workers -> Seq(Objects)]
        <4>1. todoObjects' \in {todoObjects, [todoObjects EXCEPT ![w] = Tail(@)]}
          BY <1>9 DEF DeployObject
        <4>2. Tail(todoObjects[w]) \in Seq(Objects)
          BY <1>9, HeadTailProperties DEF DeployObject, TypeInv, TypeOK
        <4> QED
          BY <4>1, <4>2 DEF TypeInv, TypeOK
      <3>3. pc' \in [Workers -> Phases]
        <4>1. pc' \in {pc, [pc EXCEPT ![w] = "abandon"]}
          BY <1>9 DEF DeployObject
        <4> QED
          BY <4>1 DEF TypeInv, TypeOK, Phases
      <3>2. \A v \in Workers : pc'[v] # "idle" => job'[v] \in Deployments
        BY <1>9 DEF TypeInv, TypeOK, DeployObject
      <3> QED
        BY <1>9, <2>1, <3>1, <3>2, <3>3 DEF TypeInv, TypeOK, DeployObject
    <2>3. AllVersions' \subseteq AllVersions
      BY <1>9 DEF AllVersions, DeployObject
    <2>4. BackedUp' /\ RollsBackOwn'
      BY <1>9 DEF TypeInv, TypeOK, BackedUp, RollsBackOwn, DeployObject
    <2> QED
      BY <2>2, <2>3, <2>4, NoNewNumber DEF TypeInv
  <1>10. ASSUME NEW w \in Workers, BeginRollback(w)
        PROVE  TypeInv'
    <2> DEFINE t == [txn[w] EXCEPT !.status = "rolling_back"]
    <2>1. /\ txn[w] \in TxnType
          /\ txn' = [txn EXCEPT ![w] = t]
          /\ versions' = versions
      BY <1>10 DEF TypeInv, TypeOK, BeginRollback
    <2>2. Keeps(t, txn[w])
      BY <1>10, <2>1, TxnFacts DEF TypeInv, TypeOK, BeginRollback, Status, RunningStatus
    <2> HIDE DEF t
    <2>3. txn' \in [Workers -> TxnType] /\ NumbersBounded'
      BY <2>1, <2>2, TxnStep DEF Keeps
    <2>4. TypeOK'
      BY <1>10, <2>3 DEF TypeInv, TypeOK, BeginRollback, Phases
    <2>5. \A v \in Workers : txn'[v].saved = txn[v].saved
      BY <2>1, <2>2 DEF TypeInv, TypeOK, Keeps
    <2>6. BackedUp' /\ RollsBackOwn'
      BY <1>10, <2>5 DEF TypeInv, TypeOK, BackedUp, RollsBackOwn, BeginRollback
    <2> QED
      BY <2>3, <2>4, <2>6 DEF TypeInv
  <1>11. ASSUME NEW w \in Workers, RestoreAsset(w)
        PROVE  TypeInv'
    <2> DEFINE a == Head(todoAssets[w])
    <2>1. a \in Assets /\ Tail(todoAssets[w]) \in Seq(Assets)
      BY <1>11 DEF TypeInv, TypeOK, RestoreAsset
    <2>2. SeqRange(todoAssets[w]) = {a} \cup SeqRange(Tail(todoAssets[w]))
      BY <1>11, SeqRangeFacts DEF TypeInv, TypeOK, RestoreAsset
    <2>3. txn[w].saved[a] \in Contents
      <3>1. a \in SeqRange(order[w]) /\ pc[w] = "rollback"
        BY <1>11, <2>2 DEF TypeInv, RollsBackOwn, RestoreAsset
      <3>2. txn[w].saved[a] # NoBackup
        BY <3>1 DEF TypeInv, BackedUp
      <3>3. txn[w].saved \in [Assets -> Contents \cup {NoBackup}]
        BY DEF TypeInv, TypeOK, TxnType
      <3> QED
        BY <2>1, <3>2, <3>3
    <2>4. Merged(txn[w].saved[a], a) \in Contents
      BY <2>3, MergedType DEF TypeInv
    <2>5. device' \in Contents /\ allGood' \in [Workers -> BOOLEAN]
      BY <1>11, <2>4 DEF TypeInv, TypeOK, RestoreAsset, NotGood
    <2>6. todoAssets' = [todoAssets EXCEPT ![w] = Tail(@)]
      BY <1>11 DEF RestoreAsset
    <2>7. TypeOK'
      <3>1. todoAssets' \in [Workers -> Seq(Assets)]
        BY <2>1, <2>6 DEF TypeInv, TypeOK
      <3> HIDE DEF a
      <3> QED
        BY <1>11, <2>5, <3>1 DEF TypeInv, TypeOK, RestoreAsset
    <2>8. AllVersions' \subseteq AllVersions
      BY <1>11 DEF AllVersions, RestoreAsset
    <2>9. BackedUp' /\ RollsBackOwn'
      <3>1. SeqRange(todoAssets'[w]) \subseteq SeqRange(todoAssets[w])
        BY <2>2, <2>6 DEF TypeInv, TypeOK
      <3> QED
        BY <1>11, <2>6, <3>1 DEF TypeInv, TypeOK, BackedUp, RollsBackOwn, RestoreAsset
    <2> QED
      BY <2>7, <2>8, <2>9, NoNewNumber DEF TypeInv
  <1>12. ASSUME NEW w \in Workers, EndRollback(w)
        PROVE  TypeInv'
    <2> DEFINE t == [WithoutLocks(txn[w]) EXCEPT !.status = RollbackStatus(allGood[w])]
    <2>1. /\ txn[w] \in TxnType
          /\ txn' = [txn EXCEPT ![w] = t]
          /\ versions' = versions
      BY <1>12 DEF TypeInv, TypeOK, EndRollback
    <2>2. Keeps(t, txn[w])
      BY <1>12, <2>1, TxnFacts DEF TypeInv, TypeOK, EndRollback, Status, FinalStatus, RollbackStatus
    <2> HIDE DEF t
    <2>3. txn' \in [Workers -> TxnType] /\ NumbersBounded'
      BY <2>1, <2>2, TxnStep DEF Keeps
    <2>4. TypeOK'
      BY <1>12, <2>3 DEF TypeInv, TypeOK, EndRollback, Phases
    <2>5. \A v \in Workers : txn'[v].saved = txn[v].saved
      BY <2>1, <2>2 DEF TypeInv, TypeOK, Keeps
    <2>6. BackedUp' /\ RollsBackOwn'
      BY <1>12, <2>5 DEF TypeInv, TypeOK, BackedUp, RollsBackOwn, EndRollback
    <2> QED
      BY <2>3, <2>4, <2>6 DEF TypeInv
  <1>13. ASSUME NEW w \in Workers, BeginVerify(w)
        PROVE  TypeInv'
    <2> DEFINE t == [txn[w] EXCEPT !.status = "verifying"]
    <2>1. /\ txn[w] \in TxnType
          /\ txn' = [txn EXCEPT ![w] = t]
          /\ versions' = versions
      BY <1>13 DEF TypeInv, TypeOK, BeginVerify
    <2>2. Keeps(t, txn[w])
      BY <1>13, <2>1, TxnFacts DEF TypeInv, TypeOK, BeginVerify, Status, RunningStatus
    <2> HIDE DEF t
    <2>3. txn' \in [Workers -> TxnType] /\ NumbersBounded'
      BY <2>1, <2>2, TxnStep DEF Keeps
    <2>4. TypeOK'
      BY <1>13, <2>3, ConstantsAssumption DEF TypeInv, TypeOK, BeginVerify, Phases
    <2>5. \A v \in Workers : txn'[v].saved = txn[v].saved
      BY <2>1, <2>2 DEF TypeInv, TypeOK, Keeps
    <2>6. BackedUp' /\ RollsBackOwn'
      BY <1>13, <2>5 DEF TypeInv, TypeOK, BackedUp, RollsBackOwn, BeginVerify
    <2> QED
      BY <2>3, <2>4, <2>6 DEF TypeInv
  <1>14. ASSUME NEW w \in Workers, Precheck(w)
        PROVE  TypeInv'
    <2>1. CASE txn' = [txn EXCEPT ![w].status = "backup"]
               /\ todoAssets' = [todoAssets EXCEPT ![w] = order[w]]
               /\ pc' = [pc EXCEPT ![w] = "backup"]
      <3> DEFINE t == [txn[w] EXCEPT !.status = "backup"]
      <3>1. txn' = [txn EXCEPT ![w] = t] /\ versions' = versions
        BY <1>14, <2>1 DEF Precheck
      <3>2. Keeps(t, txn[w])
        BY TxnFacts DEF TypeInv, TypeOK, Status, RunningStatus
      <3> HIDE DEF t
      <3>3. txn' \in [Workers -> TxnType] /\ NumbersBounded'
        BY <3>1, <3>2, TxnStep DEF Keeps
      <3>4. TypeOK'
        BY <1>14, <2>1, <3>3 DEF TypeInv, TypeOK, Precheck, Phases
      <3>5. \A v \in Workers : txn'[v].saved = txn[v].saved
        BY <3>1, <3>2 DEF TypeInv, TypeOK, Keeps
      <3>6. BackedUp' /\ RollsBackOwn'
        BY <1>14, <2>1, <3>5 DEF TypeInv, TypeOK, BackedUp, RollsBackOwn, Precheck
      <3> QED
        BY <3>3, <3>4, <3>6 DEF TypeInv
    <2>2. CASE Fail(w, "precheck_failed") /\ UNCHANGED todoAssets
      BY <1>14, <2>2, FailKeepsTypes DEF Precheck, FailedStatus, TypeInv, TypeOK
    <2> QED
      BY <1>14, <2>1, <2>2 DEF Precheck
  <1>15. ASSUME NEW w \in Workers, BackupAsset(w)
        PROVE  TypeInv'
    <2> DEFINE a == Head(todoAssets[w])
               running == [i \in Items |-> IF Home[i] = a THEN device[i] ELSE Absent]
               t == [txn[w] EXCEPT !.saved[a] = running]
    <2>1. CASE txn' = [txn EXCEPT ![w].saved[a] = running]
               /\ todoAssets' = [todoAssets EXCEPT ![w] = Tail(@)]
               /\ UNCHANGED pc
      <3>1. a \in Assets /\ Tail(todoAssets[w]) \in Seq(Assets)
        BY <1>15 DEF TypeInv, TypeOK, BackupAsset
      <3>2. running \in Contents
        BY DEF TypeInv, TypeOK, Contents, Value
      <3>3. running # NoBackup
        BY <3>2, ConstantsAssumption
      <3>4. SeqRange(todoAssets[w]) = {a} \cup SeqRange(Tail(todoAssets[w]))
        BY <1>15, SeqRangeFacts DEF TypeInv, TypeOK, BackupAsset
      <3> HIDE DEF running, a
      <3>5. /\ t \in TxnType
            /\ t.versions = txn[w].versions
            /\ t.saved[a] # NoBackup
            /\ \A b \in Assets : txn[w].saved[b] # NoBackup => t.saved[b] # NoBackup
        <4>1. /\ txn[w] \in TxnType
              /\ txn[w].saved \in [Assets -> Contents \cup {NoBackup}]
          BY DEF TypeInv, TypeOK, TxnType
        <4>2. [txn[w].saved EXCEPT ![a] = running] \in [Assets -> Contents \cup {NoBackup}]
          BY <3>2, <4>1
        <4>3. /\ t.saved = [txn[w].saved EXCEPT ![a] = running]
              /\ t.versions = txn[w].versions
              /\ t \in TxnType
          BY <4>1, <4>2 DEF TxnType
        <4> QED
          BY <3>1, <3>3, <4>1, <4>3
      <3>6. txn' = [txn EXCEPT ![w] = t] /\ versions' = versions
        BY <1>15, <2>1 DEF BackupAsset
      <3> HIDE DEF t
      <3>7. txn' \in [Workers -> TxnType] /\ NumbersBounded'
        BY <3>5, <3>6, TxnStep
      <3>8. todoAssets' \in [Workers -> Seq(Assets)]
        BY <2>1, <3>1 DEF TypeInv, TypeOK
      <3>9. TypeOK'
        BY <1>15, <2>1, <3>7, <3>8 DEF TypeInv, TypeOK, BackupAsset
      <3>10. BackedUp' /\ RollsBackOwn'
        <4>1. /\ pc[w] = "backup" /\ pc' = pc /\ order' = order
              /\ todoAssets' = [todoAssets EXCEPT ![w] = Tail(todoAssets[w])]
          BY <1>15, <2>1 DEF BackupAsset
        <4>2. ASSUME NEW v \in Workers, v # w
              PROVE  txn'[v] = txn[v] /\ todoAssets'[v] = todoAssets[v]
          BY <3>6, <4>1, <4>2 DEF TypeInv, TypeOK
        <4>3. /\ txn'[w] = t /\ todoAssets'[w] = Tail(todoAssets[w])
              /\ SeqRange(order[w]) \subseteq Assets
          BY <3>6, <4>1, SeqRangeFacts DEF TypeInv, TypeOK
        <4>4. \A b \in SeqRange(order[w]) : b \in SeqRange(todoAssets'[w]) \/ t.saved[b] # NoBackup
          BY <3>4, <3>5, <4>1, <4>3 DEF TypeInv, BackedUp
        <4> QED
          BY <4>1, <4>2, <4>3, <4>4 DEF TypeInv, BackedUp, RollsBackOwn
      <3> QED
        BY <3>7, <3>9, <3>10 DEF TypeInv
    <2>2. CASE Fail(w, "backup_failed") /\ UNCHANGED todoAssets
      BY <1>15, <2>2, FailKeepsTypes DEF BackupAsset, FailedStatus, TypeInv, TypeOK
    <2> QED
      BY <1>15, <2>1, <2>2 DEF BackupAsset
  <1>16. ASSUME NEW w \in Workers, VerifyObject(w)
        PROVE  TypeInv'
    <2> DEFINE o == Head(todoObjects[w])
               t == [txn[w] EXCEPT !.versions = @ \cup {Recorded(w, o)}]
    <2>1. o \in Objects /\ Tail(todoObjects[w]) \in Seq(Objects)
      BY <1>16, HeadTailProperties DEF TypeInv, TypeOK, VerifyObject
    <2>2. todoObjects' \in [Workers -> Seq(Objects)]
      BY <1>16, <2>1 DEF TypeInv, TypeOK, VerifyObject
    <2>3. PICK n \in Nat : \A v \in AllVersions : v.number <= n
      BY DEF TypeInv, NumbersBounded
    <2>4. NextNumber(w, KeyOf[o]) \in 1..(n + 1)
      BY <2>3, NextNumberFacts
    <2>5. /\ Recorded(w, o) \in [key : Keys, number : Nat, object : Objects,
                              deployment : Deployments]
          /\ Recorded(w, o).number <= n + 1
      <3>1. job[w] \in Deployments
        BY <1>16 DEF TypeInv, TypeOK, VerifyObject
      <3> QED
        BY <2>1, <2>4, <3>1, ObjectFacts DEF Recorded
    <2> HIDE DEF o
    <2>6. t \in TxnType /\ t.saved = txn[w].saved /\ t.versions = txn[w].versions \cup {Recorded(w, o)}
      <3>1. txn[w] \in TxnType
        BY DEF TypeInv, TypeOK
      <3> QED
        BY <2>5, <3>1 DEF TxnType
    <2>7. txn' = txn \/ txn' = [txn EXCEPT ![w] = t]
      BY <1>16 DEF VerifyObject, o
    <2> HIDE DEF t
    <2>8. /\ txn' \in [Workers -> TxnType]
          /\ \A v \in Workers : txn'[v].saved = txn[v].saved
          /\ \A v \in Workers : txn'[v].versions \subseteq txn[v].versions \cup {Recorded(w, o)}
      BY <2>6, <2>7 DEF TypeInv, TypeOK
    <2>9. NumbersBounded'
      <3>1. AllVersions' \subseteq AllVersions \cup {Recorded(w, o)}
        BY <1>16, <2>8 DEF AllVersions, VerifyObject
      <3>2. \A v \in AllVersions : v.number \in Nat
        BY DEF TypeInv, TypeOK, TxnType, AllVersions
      <3>3. \A v \in AllVersions' : v.number <= n + 1
        BY <2>3, <2>5, <3>1, <3>2
      <3> QED
        BY <3>3 DEF NumbersBounded
    <2>10. TypeOK'
      <3>1. allGood' \in [Workers -> BOOLEAN]
        BY <1>16 DEF TypeInv, TypeOK, VerifyObject, NotGood
      <3> QED
        BY <1>16, <2>2, <2>8, <3>1 DEF TypeInv, TypeOK, VerifyObject
    <2>11. BackedUp' /\ RollsBackOwn'
      BY <1>16, <2>8 DEF TypeInv, TypeOK, BackedUp, RollsBackOwn, VerifyObject
    <2> QED
      BY <2>9, <2>10, <2>11 DEF TypeInv
  <1>17. ASSUME NEW w \in Workers, EndVerify(w)
        PROVE  TypeInv'
    <2>1. conns' \in [Workers -> SUBSET Assets]
      BY <1>17 DEF TypeInv, TypeOK, EndVerify
    <2>2. CASE Fail(w, "verify_failed")
      BY <1>17, <2>1, <2>2, FailKeepsTypes DEF EndVerify, FailedStatus
    <2>3. CASE /\ txn' = [txn EXCEPT ![w] =
                       [WithoutLocks(@) EXCEPT !.status = "success", !.remediates = TRUE]]
               /\ pc' = [pc EXCEPT ![w] = "commit"]
      <3> DEFINE t == [WithoutLocks(txn[w]) EXCEPT !.status = "success", !.remediates = TRUE]
      <3>1. txn' = [txn EXCEPT ![w] = t] /\ versions' = versions
        BY <1>17, <2>3 DEF EndVerify
      <3>2. Keeps(t, txn[w])
        BY TxnFacts DEF TypeInv, TypeOK
      <3> HIDE DEF t
      <3>3. txn' \in [Workers -> TxnType] /\ NumbersBounded'
        BY <3>1, <3>2, TxnStep DEF Keeps
      <3>4. TypeOK'
        BY <1>17, <2>1, <2>3, <3>3 DEF TypeInv, TypeOK, EndVerify, Phases
      <3>5. BackedUp' /\ RollsBackOwn'
        BY <1>17, <2>3 DEF TypeInv, TypeOK, BackedUp, RollsBackOwn, EndVerify
      <3> QED
        BY <3>3, <3>4, <3>5 DEF TypeInv
    <2> QED
      BY <1>17, <2>2, <2>3 DEF EndVerify
  <1>18. ASSUME NEW w \in Workers, LookUpRaises(w) \/ DisconnectRaises(w)
        PROVE  TypeInv'
    BY <1>18, AbortKeepsTypes DEF LookUpRaises, DisconnectRaises, TypeInv, TypeOK
  <1>19. ASSUME NEW w \in Workers, DeadlockVictim(w)
        PROVE  TypeInv'
    BY <1>19, AbortKeepsTypes DEF DeadlockVictim, TypeInv, TypeOK
  <1>20. ASSUME NEW w \in Workers, Crash(w)
        PROVE  TypeInv'
    <2>1. crashes' \in Nat
      BY <1>20 DEF Crash, TypeInv, TypeOK
    <2> QED
      BY <1>20, <2>1, AbortKeepsTypes DEF Crash
  <1>21. ASSUME NEW w \in Workers, Commit(w)
        PROVE  TypeInv'
    <2>1. CloseSession(w) /\ UNCHANGED <<bounds, queue, device>>
      BY <1>21 DEF Commit
    <2>2. txn[w] \in TxnType /\ job[w] \in Deployments
      BY <1>21 DEF Commit, TypeInv, TypeOK
    <2>3. status' \in [Deployments -> Status]
      BY <1>21, <2>2 DEF Commit, TypeInv, TypeOK, TxnType
    <2>4. lockRow' \in [Assets -> {"none", "live", "expired"}]
      BY <1>21 DEF Commit, TypeInv, TypeOK
    <2>5. /\ versions' = versions \cup txn[w].versions
          /\ versions' \subseteq [key : Keys, number : Nat, object : Objects,
                                deployment : Deployments]
      BY <1>21, <2>2 DEF Commit, TypeInv, TypeOK, TxnType
    <2>6. backups' \subseteq [asset : Assets, content : Contents]
      BY <1>21, <2>2 DEF Commit, TypeInv, TypeOK, TxnType
    <2>7. notified' \subseteq Deployments \X FailedStatus /\ remediated' \subseteq Deployments
      BY <1>21, <2>2 DEF Commit, TypeInv, TypeOK, TxnType
    <2>8. TypeOK'
      BY <2>1, <2>3, <2>4, <2>5, <2>6, <2>7, CloseSessionFacts DEF TypeInv, TypeOK
    <2>9. AllVersions' \subseteq AllVersions
      <3>1. /\ txn'[w].versions = {}
            /\ \A v \in Workers \ {w} : txn'[v] = txn[v]
        BY <2>1, CloseSessionFacts
      <3>2. \A v \in Workers : txn'[v].versions \subseteq txn[v].versions
        BY <3>1
      <3> QED
        BY <2>5, <3>2 DEF AllVersions
    <2> QED
      BY <2>1, <2>8, <2>9, CloseSessionFacts, NoNewNumber DEF TypeInv
  <1>22. ASSUME NEW w \in Workers, NEW d \in Deployments, Deliver(w, d)
        PROVE  TypeInv'
    <2>1. PICK q \in Orders(d) : /\ order' = [order EXCEPT ![w] = q]
                                /\ todoAssets' = [todoAssets EXCEPT ![w] = q]
      BY <1>22 DEF Deliver
    <2>2. q \in Seq(Assets)
      BY OrderFacts
    <2> DEFINE t == [txn[w] EXCEPT !.status = status[d]]
    <2>3. txn' = [txn EXCEPT ![w] = t] /\ versions' = versions
      BY <1>22 DEF Deliver
    <2>4. Keeps(t, txn[w])
      BY TxnFacts DEF TypeInv, TypeOK
    <2> HIDE DEF t
    <2>5. txn' \in [Workers -> TxnType] /\ NumbersBounded'
      BY <2>3, <2>4, TxnStep DEF Keeps
    <2>6. queue' \in [Deployments -> Nat]
      BY <1>22 DEF Deliver, TypeInv, TypeOK
    <2>7. TypeOK'
      BY <1>22, <2>1, <2>2, <2>5, <2>6 DEF TypeInv, TypeOK, Deliver, Phases
    <2>8. BackedUp' /\ RollsBackOwn'
      <3>1. pc'[w] = "acquire"
        BY <1>22 DEF Deliver, TypeInv, TypeOK
      <3>2. ASSUME NEW v \in Workers, v # w
            PROVE  /\ pc'[v] = pc[v] /\ order'[v] = order[v] /\ todoAssets'[v] = todoAssets[v]
                   /\ txn'[v] = txn[v]
        BY <1>22, <2>1, <2>3, <3>2 DEF Deliver, TypeInv, TypeOK
      <3> QED
        BY <3>1, <3>2 DEF TypeInv, BackedUp, RollsBackOwn
    <2> QED
      BY <2>5, <2>7, <2>8 DEF TypeInv
  <1>23. ASSUME NEW d \in Deployments, CreateDeploymentJob(d) \/ StartDeployment(d)
        PROVE  TypeInv'
    <2>1. TypeOK'
      <3>1. CASE CreateDeploymentJob(d)
        BY <3>1 DEF TypeInv, TypeOK, CreateDeploymentJob, Status
      <3>2. CASE StartDeployment(d)
        <4>1. queue' \in [Deployments -> Nat] /\ starts' \in Nat
          BY <3>2 DEF TypeInv, TypeOK, StartDeployment
        <4> QED
          BY <3>2, <4>1 DEF TypeInv, TypeOK, StartDeployment
      <3> QED
        BY <1>23, <3>1, <3>2
    <2>2. UNCHANGED <<versions, txn, pc, order, todoAssets>>
      BY <1>23 DEF CreateDeploymentJob, StartDeployment
    <2> QED
      BY <2>1, <2>2, FrameKeeps
  <1>24. ASSUME NEW b \in backups, RestoreByHand(b)
        PROVE  TypeInv'
    <2>1. b.asset \in Assets /\ b.content \in Contents
      BY DEF TypeInv, TypeOK
    <2>2. device' \in Contents
      BY <1>24, <2>1, MergedType DEF TypeInv, RestoreByHand
    <2>3. touched' \in [Workers -> SUBSET Assets]
      BY <1>24, <2>1 DEF TypeInv, TypeOK, RestoreByHand
    <2>4. TypeOK'
      BY <1>24, <2>2, <2>3 DEF TypeInv, TypeOK, RestoreByHand
    <2>5. UNCHANGED <<versions, txn, pc, order, todoAssets>>
      BY <1>24 DEF RestoreByHand
    <2> QED
      BY <2>4, <2>5, FrameKeeps
  <1>25. ASSUME NEW a \in Assets, Expire(a)
        PROVE  TypeInv'
    <2>1. TypeOK'
      BY <1>25 DEF TypeInv, TypeOK, Expire
    <2>2. UNCHANGED <<versions, txn, pc, order, todoAssets>>
      BY <1>25 DEF Expire
    <2> QED
      BY <2>1, <2>2, FrameKeeps
  <1>26. CASE UNCHANGED vars
    <2>1. TypeOK'
      BY <1>26 DEF TypeInv, TypeOK, vars
    <2>2. UNCHANGED <<versions, txn, pc, order, todoAssets>>
      BY <1>26 DEF vars
    <2> QED
      BY <2>1, <2>2, FrameKeeps
  <1> QED
    BY <1>1, <1>2, <1>3, <1>4, <1>5, <1>6, <1>7, <1>8, <1>9, <1>10, <1>11, <1>12, <1>13, <1>14,
       <1>15, <1>16, <1>17, <1>18, <1>19, <1>20, <1>21, <1>22, <1>23, <1>24, <1>25, <1>26
       DEF Next, Step

\* Every reachable state is well typed.
THEOREM TypeCorrect == Spec => []TypeOK
  <1>1. TypeInv => TypeOK
    BY DEF TypeInv
  <1> QED
    BY <1>1, InitTypeInv, TypeInvStep, PTL DEF Spec

-----------------------------------------------------------------------------
(***************************************************************************)
(* The asset locks: two running deployments share no asset, and no         *)
(* execution leaves a lock row behind.                                     *)
(***************************************************************************)

\* Two transactions have no key in common: an insert waits for the other one.
HeldDisjoint == \A v, w \in Workers : v # w => held[v] \cap held[w] = {}

\* While _acquire_locks runs, each asset is inserted, added to the session or still to do.
AcquiringAll ==
    \A w \in Workers : pc[w] = "acquire" =>
        AssetsOf(job[w]) \subseteq held[w] \cup SeqRange(pending[w]) \cup SeqRange(todoAssets[w])

\* From then on the transaction holds the key of every asset.
HoldsAll == \A w \in Workers : pc[w] \in LockedPhases => AssetsOf(job[w]) \subseteq held[w]

\* A transaction about to commit has deleted every lock row it inserted.
ReleasedAll == \A w \in Workers : pc[w] = "commit" => txn[w].locks = {}

LockInv == HeldDisjoint /\ AcquiringAll /\ HoldsAll /\ ReleasedAll

LEMMA InitLockInv == Init => LockInv
  BY DEF Init, LockInv, HeldDisjoint, AcquiringAll, HoldsAll, ReleasedAll, LockedPhases

\* An action of w that takes or gives up no key, and keeps its deployment.
LEMMA PhaseStep ==
    ASSUME TypeOK, LockInv, NEW w \in Workers, UNCHANGED <<held, job>>,
           \A v \in Workers \ {w} : /\ pc'[v] = pc[v] /\ pending'[v] = pending[v]
                                    /\ todoAssets'[v] = todoAssets[v] /\ txn'[v] = txn[v],
           pc[w] \in LockedPhases, pc'[w] \in LockedPhases \cup {"commit"},
           pc'[w] = "commit" => txn'[w].locks = {}
    PROVE  LockInv'
  <1>1. HeldDisjoint'
    BY DEF LockInv, HeldDisjoint
  <1>2. AcquiringAll' /\ HoldsAll'
    BY DEF LockInv, AcquiringAll, HoldsAll, LockedPhases
  <1>3. ReleasedAll'
    BY DEF LockInv, ReleasedAll
  <1> QED
    BY <1>1, <1>2, <1>3 DEF LockInv

\* A session that closes gives up its keys.
LEMMA CloseStep ==
    ASSUME TypeOK, LockInv, NEW w \in Workers, CloseSession(w)
    PROVE  LockInv'
  <1> USE DEF TypeOK, CloseSession
  <1>1. HeldDisjoint'
    BY DEF LockInv, HeldDisjoint, DropKeys
  <1>2. AcquiringAll' /\ HoldsAll'
    BY DEF LockInv, AcquiringAll, HoldsAll, LockedPhases, DropKeys
  <1>3. ReleasedAll'
    BY DEF LockInv, ReleasedAll
  <1> QED
    BY <1>1, <1>2, <1>3 DEF LockInv

THEOREM LockInvStep == TypeOK /\ LockInv /\ [Next]_vars => LockInv'
  <1> SUFFICES ASSUME TypeOK, LockInv, [Next]_vars
               PROVE  LockInv'
    OBVIOUS
  <1> USE DEF committed, bounds, cursor
  <1>1. ASSUME NEW w \in Workers, AddLock(w)
        PROVE  LockInv'
    <2> DEFINE a == Head(todoAssets[w])
    <2>1. /\ a \in Assets
          /\ SeqRange(todoAssets[w]) = {a} \cup SeqRange(Tail(todoAssets[w]))
          /\ SeqRange(Append(pending[w], a)) = SeqRange(pending[w]) \cup {a}
      BY <1>1, SeqRangeFacts, HeadTailProperties DEF AddLock, TypeOK
    <2> HIDE DEF a
    <2>2. /\ pending' = [pending EXCEPT ![w] = Append(pending[w], a)]
          /\ todoAssets' = [todoAssets EXCEPT ![w] = Tail(todoAssets[w])]
          /\ UNCHANGED <<pc, job, held, txn>>
      BY <1>1 DEF AddLock, a
    <2>3. AcquiringAll'
      BY <2>1, <2>2 DEF LockInv, AcquiringAll, TypeOK
    <2> QED
      BY <2>2, <2>3 DEF LockInv, HeldDisjoint, HoldsAll, ReleasedAll
  <1>2. ASSUME NEW w \in Workers, ReplaceLock(w)
        PROVE  LockInv'
    <2> DEFINE a == Head(todoAssets[w])
    <2>1. /\ a \in Assets
          /\ SeqRange(todoAssets[w]) = {a} \cup SeqRange(Tail(todoAssets[w]))
          /\ SeqRange(pending[w]) = {}
          /\ SeqRange(<<a>>) = {a}
      BY <1>2, SeqRangeFacts, HeadTailProperties DEF ReplaceLock, TypeOK
    <2> HIDE DEF a
    <2>2. /\ pc[w] = "acquire" /\ Free(w, a)
          /\ held' = [held EXCEPT ![w] = held[w] \cup {a}]
          /\ pending' = [pending EXCEPT ![w] = <<a>>]
          /\ todoAssets' = [todoAssets EXCEPT ![w] = Tail(todoAssets[w])]
          /\ UNCHANGED <<pc, job>>
      BY <1>2 DEF ReplaceLock, a
    <2>3. AcquiringAll'
      BY <2>1, <2>2 DEF LockInv, AcquiringAll, TypeOK
    <2>4. HeldDisjoint'
      BY <2>2 DEF LockInv, HeldDisjoint, TypeOK, Free
    <2>5. HoldsAll'
      BY <2>2 DEF LockInv, HoldsAll, TypeOK
    <2>6. ReleasedAll'
      BY <1>2, <2>2 DEF LockInv, ReleasedAll, TypeOK, ReplaceLock
    <2> QED
      BY <2>3, <2>4, <2>5, <2>6 DEF LockInv
  <1>3. ASSUME NEW w \in Workers, LockConflict(w)
        PROVE  LockInv'
    BY <1>3 DEF LockConflict, TypeOK, LockInv, HeldDisjoint, AcquiringAll, HoldsAll, ReleasedAll,
                LockedPhases
  <1>4. ASSUME NEW w \in Workers, InsertLock(w)
        PROVE  LockInv'
    <2> DEFINE a == Head(pending[w])
    <2>1. /\ a \in Assets
          /\ SeqRange(pending[w]) = {a} \cup SeqRange(Tail(pending[w]))
      BY <1>4, SeqRangeFacts, HeadTailProperties DEF InsertLock, TypeOK
    <2> HIDE DEF a
    <2>2. /\ pc[w] \in {"acquire", "conflict"} /\ Free(w, a)
          /\ held' = [held EXCEPT ![w] = held[w] \cup {a}]
          /\ pending' = [pending EXCEPT ![w] = Tail(pending[w])]
          /\ UNCHANGED <<pc, job, todoAssets>>
      BY <1>4 DEF InsertLock, FlushDue, a
    <2>3. AcquiringAll'
      BY <2>1, <2>2 DEF LockInv, AcquiringAll, TypeOK
    <2>4. HeldDisjoint'
      BY <2>2 DEF LockInv, HeldDisjoint, TypeOK, Free
    <2>5. HoldsAll'
      BY <2>2 DEF LockInv, HoldsAll, TypeOK
    <2>6. ReleasedAll'
      BY <1>4, <2>2 DEF LockInv, ReleasedAll, TypeOK, InsertLock
    <2> QED
      BY <2>3, <2>4, <2>5, <2>6 DEF LockInv
  <1>5. ASSUME NEW w \in Workers, LocksAcquired(w)
        PROVE  LockInv'
    <2>1. SeqRange(todoAssets[w]) = {} /\ SeqRange(pending[w]) = {}
      BY <1>5, EmptySeq, SeqRangeFacts DEF LocksAcquired, AcquiredLocks
    <2>2. AssetsOf(job[w]) \subseteq held[w]
      BY <1>5, <2>1 DEF LocksAcquired, AcquiredLocks, LockInv, AcquiringAll
    <2>3. HeldDisjoint' /\ AcquiringAll' /\ HoldsAll'
      BY <1>5, <2>2 DEF LocksAcquired, TypeOK, LockInv, HeldDisjoint, AcquiringAll, HoldsAll
    <2>4. ReleasedAll'
      BY <1>5 DEF LocksAcquired, TypeOK, LockInv, ReleasedAll
    <2> QED
      BY <2>3, <2>4 DEF LockInv
  <1>6. ASSUME NEW w \in Workers, NEW d, NEW s, txn[w] \in TxnType
        PROVE  Failed(txn[w], d, s).locks = {}
    BY <1>6 DEF Failed, WithoutLocks, TxnType
  <1>7. ASSUME NEW w \in Workers, LocksRefused(w)
        PROVE  LockInv'
    <2>1. txn'[w].locks = {}
      BY <1>6, <1>7 DEF LocksRefused, Fail, TypeOK
    <2>2. HeldDisjoint' /\ AcquiringAll' /\ HoldsAll'
      BY <1>7 DEF LocksRefused, Fail, TypeOK, LockInv, HeldDisjoint, AcquiringAll, HoldsAll,
                  LockedPhases
    <2>3. ReleasedAll'
      BY <1>7, <2>1 DEF LocksRefused, Fail, TypeOK, LockInv, ReleasedAll
    <2> QED
      BY <2>2, <2>3 DEF LockInv
  <1>8. ASSUME NEW w \in Workers,
               \/ Precheck(w) \/ BackupAsset(w) \/ BeginApply(w) \/ ConnectAsset(w)
               \/ DeployObject(w) \/ BeginRollback(w) \/ RestoreAsset(w) \/ BeginVerify(w)
               \/ VerifyObject(w)
        PROVE  LockInv'
    <2>1. CASE \/ Precheck(w) \/ BackupAsset(w)
      <3>1. txn' = [txn EXCEPT ![w] = txn'[w]] /\ (pc'[w] = "commit" => txn'[w].locks = {})
        BY <1>6, <2>1 DEF Precheck, BackupAsset, Fail, TypeOK
      <3> QED
        BY <2>1, <3>1, PhaseStep DEF Precheck, BackupAsset, Fail, TypeOK, LockedPhases
    <2>2. CASE BeginApply(w) \/ ConnectAsset(w) \/ DeployObject(w)
      BY <2>2, PhaseStep DEF BeginApply, ConnectAsset, DeployObject, TypeOK, LockedPhases
    <2>3. CASE BeginRollback(w) \/ RestoreAsset(w)
      BY <2>3, PhaseStep DEF BeginRollback, RestoreAsset, TypeOK, LockedPhases
    <2>4. CASE BeginVerify(w) \/ VerifyObject(w)
      BY <2>4, PhaseStep DEF BeginVerify, VerifyObject, TypeOK, LockedPhases
    <2> QED
      BY <1>8, <2>1, <2>2, <2>3, <2>4
  <1>9. ASSUME NEW w \in Workers, EndRollback(w) \/ EndVerify(w)
        PROVE  LockInv'
    <2>1. txn'[w].locks = {}
      <3>1. txn[w] \in TxnType /\ WithoutLocks(txn[w]).locks = {}
        BY DEF TypeOK, TxnType, WithoutLocks
      <3>2. CASE EndRollback(w)
        <4>1. txn'[w] = [WithoutLocks(txn[w]) EXCEPT !.status = RollbackStatus(allGood[w])]
          BY <3>2 DEF EndRollback, TypeOK
        <4> QED
          BY <3>1, <4>1 DEF WithoutLocks, TxnType
      <3>3. CASE EndVerify(w)
        <4>1. \/ txn'[w] = [WithoutLocks(txn[w]) EXCEPT !.status = "success", !.remediates = TRUE]
              \/ txn'[w] = Failed(txn[w], job[w], "verify_failed")
          BY <3>3 DEF EndVerify, Fail, TypeOK
        <4> QED
          BY <1>6, <3>1, <4>1 DEF WithoutLocks, TxnType
      <3> QED
        BY <1>9, <3>2, <3>3
    <2> QED
      BY <1>9, <2>1, PhaseStep DEF EndRollback, EndVerify, Fail, TypeOK, LockedPhases
  <1>10. ASSUME NEW w \in Workers,
                LookUpRaises(w) \/ DisconnectRaises(w) \/ DeadlockVictim(w) \/ Crash(w) \/ Commit(w)
         PROVE  LockInv'
    BY <1>10, CloseStep DEF LookUpRaises, DisconnectRaises, DeadlockVictim, Crash, Commit, Abort
  <1>11. ASSUME NEW w \in Workers, NEW d \in Deployments, Deliver(w, d)
         PROVE  LockInv'
    <2>1. PICK q \in Orders(d) : todoAssets' = [todoAssets EXCEPT ![w] = q]
      BY <1>11 DEF Deliver
    <2>2. SeqRange(q) = AssetsOf(d)
      BY OrderFacts
    <2>3. AcquiringAll'
      BY <1>11, <2>1, <2>2 DEF Deliver, TypeOK, LockInv, AcquiringAll
    <2>4. HeldDisjoint' /\ HoldsAll' /\ ReleasedAll'
      BY <1>11 DEF Deliver, TypeOK, LockInv, HeldDisjoint, HoldsAll, ReleasedAll, LockedPhases
    <2> QED
      BY <2>3, <2>4 DEF LockInv
  <1>12. ASSUME UNCHANGED <<pc, job, todoAssets, pending, held, txn>>
         PROVE  LockInv'
    BY <1>12 DEF LockInv, HeldDisjoint, AcquiringAll, HoldsAll, ReleasedAll
  <1>13. ASSUME NEW d \in Deployments, CreateDeploymentJob(d) \/ StartDeployment(d)
         PROVE  LockInv'
    BY <1>12, <1>13 DEF CreateDeploymentJob, StartDeployment
  <1>14. ASSUME NEW b \in backups, RestoreByHand(b)
         PROVE  LockInv'
    BY <1>12, <1>14 DEF RestoreByHand
  <1>15. ASSUME NEW a \in Assets, Expire(a)
         PROVE  LockInv'
    BY <1>12, <1>15 DEF Expire
  <1>16. CASE UNCHANGED vars
    BY <1>12, <1>16 DEF vars
  <1> QED
    BY <1>1, <1>2, <1>3, <1>4, <1>5, <1>7, <1>8, <1>9, <1>10, <1>11, <1>13, <1>14, <1>15, <1>16
       DEF Next, Step

LEMMA LockInvariant == Spec => []LockInv
  <1> QED
    BY TypeCorrect, InitLockInv, LockInvStep, PTL DEF Spec

\* Two tasks that hold their locks configure no asset in common.
THEOREM Excludes == Spec => []DeviceExclusion
  <1>1. LockInv => DeviceExclusion
    BY DEF LockInv, HeldDisjoint, HoldsAll, DeviceExclusion
  <1> QED
    BY <1>1, LockInvariant, PTL

\* No step takes an asset from "no lock row" to a lock row.
THEOREM LeavesNoLock == Spec => NoLockLeak
  <1> DEFINE A == \A a \in Assets : lockRow[a] = "none" => lockRow'[a] = "none"
  <1>1. ASSUME TypeOK, LockInv, [Next]_vars
        PROVE  A \/ UNCHANGED vars
    <2> SUFFICES ASSUME Next
                 PROVE  A
      BY <1>1
    <2> USE DEF committed
    <2>1. ASSUME NEW w \in Workers, Commit(w)
          PROVE  A
      BY <1>1, <2>1 DEF Commit, LockInv, ReleasedAll
    <2>2. ASSUME NEW a \in Assets, Expire(a)
          PROVE  A
      BY <1>1, <2>2 DEF Expire, TypeOK
    <2>3. ASSUME NEW w \in Workers, Step(w) \/ Crash(w) \/ DeadlockVictim(w)
          PROVE  A
      <3>1. Commit(w) \/ UNCHANGED lockRow
        BY <2>3 DEF Step, AddLock, ReplaceLock, LockConflict, InsertLock, LocksAcquired,
                    LocksRefused, Precheck, BackupAsset, BeginApply, ConnectAsset, DeployObject,
                    BeginRollback, RestoreAsset, EndRollback, BeginVerify, VerifyObject, EndVerify,
                    LookUpRaises, DisconnectRaises, Crash, DeadlockVictim, Abort
      <3> QED
        BY <2>1, <3>1
    <2>4. ASSUME NEW w \in Workers, NEW d \in Deployments, Deliver(w, d)
          PROVE  A
      BY <2>4 DEF Deliver
    <2>5. ASSUME NEW d \in Deployments, CreateDeploymentJob(d) \/ StartDeployment(d)
          PROVE  A
      BY <2>5 DEF CreateDeploymentJob, StartDeployment
    <2>6. ASSUME NEW b \in backups, RestoreByHand(b)
          PROVE  A
      BY <2>6 DEF RestoreByHand
    <2> QED
      BY <2>2, <2>3, <2>4, <2>5, <2>6 DEF Next
  <1> QED
    BY <1>1, TypeCorrect, LockInvariant, PTL DEF Spec, NoLockLeak

-----------------------------------------------------------------------------
(***************************************************************************)
(* The refinement of AssetExclusion.                                       *)
(***************************************************************************)

\* o tells the owner of each asset when a task w has the assets h[w] to itself.
Agrees(o, h) ==
    \A a \in Assets :
        /\ \A w \in Workers : a \in h[w] => o[a] = w
        /\ (\A w \in Workers : a \notin h[w]) => o[a] = NoJob

Taken == [w \in Workers |-> IF pc[w] \in LockedPhases THEN AssetsOf(job[w]) \cap Assets ELSE {}]
OwnerMap == [a \in Assets |-> Owner(a)]

\* Exclusion makes the owner of an asset unique, so that the CHOOSE in Owner has no choice.
LEMMA OwnerFacts == DeviceExclusion => Agrees(OwnerMap, Taken)
  <1> SUFFICES ASSUME DeviceExclusion, NEW a \in Assets
               PROVE  /\ \A w \in Workers : a \in Taken[w] => OwnerMap[a] = w
                      /\ (\A w \in Workers : a \notin Taken[w]) => OwnerMap[a] = NoJob
    BY DEF Agrees
  <1> DEFINE owners == {w \in Workers : pc[w] \in LockedPhases /\ a \in AssetsOf(job[w])}
  <1>1. OwnerMap[a] = IF owners = {} THEN NoJob ELSE CHOOSE w \in owners : TRUE
    BY DEF Owner, OwnerMap
  <1>2. \A w \in Workers : a \in Taken[w] <=> w \in owners
    BY DEF Taken
  <1>3. \A v, w \in owners : v = w
    BY DEF DeviceExclusion
  <1>4. owners \subseteq Workers
    OBVIOUS
  <1> HIDE DEF owners
  <1>5. owners # {} => OwnerMap[a] \in owners
    BY <1>1
  <1> QED
    BY <1>1, <1>2, <1>3, <1>4, <1>5

LEMMA OwnerFactsNext == DeviceExclusion' => Agrees(OwnerMap, Taken)'
  BY OwnerFacts, PTL

\* Owners that agree with the same holds are the same.
LEMMA OwnersStay ==
    ASSUME NEW o, NEW p, NEW h, Agrees(o, h), Agrees(p, h)
    PROVE  \A a \in Assets : o[a] = p[a]
  BY DEF Agrees

\* A task that begins to hold assets takes them from nobody; one that ends gives up its own.
LEMMA OwnersChange ==
    ASSUME NEW o, NEW p, NEW h, NEW k, Agrees(o, h), Agrees(p, k), NEW w \in Workers,
           \A v \in Workers \ {w} : k[v] = h[v]
    PROVE  /\ h[w] = {} => /\ \A a \in Assets : o[a] # w
                           /\ \A a \in Assets : a \in k[w] => o[a] = NoJob
                           /\ \A a \in Assets : p[a] = IF a \in k[w] THEN w ELSE o[a]
           /\ k[w] = {} => \A a \in Assets : p[a] = IF o[a] = w THEN NoJob ELSE o[a]
  <1>1. w # NoJob
    BY ConstantsAssumption
  <1>2. ASSUME h[w] = {}, NEW a \in Assets
        PROVE  /\ o[a] # w
               /\ a \in k[w] => o[a] = NoJob
               /\ p[a] = IF a \in k[w] THEN w ELSE o[a]
    <2>1. o[a] # w
      BY <1>1, <1>2 DEF Agrees
    <2>2. ASSUME a \in k[w]
          PROVE  o[a] = NoJob /\ p[a] = w
      <3>1. p[a] = w
        BY <1>2, <2>2 DEF Agrees
      <3>2. \A v \in Workers \ {w} : a \notin h[v]
        BY <1>2, <3>1 DEF Agrees
      <3> QED
        BY <1>2, <3>1, <3>2 DEF Agrees
    <2>3. ASSUME a \notin k[w]
          PROVE  p[a] = o[a]
      <3>1. \A v \in Workers : a \in k[v] <=> a \in h[v]
        BY <1>2, <2>3
      <3> QED
        BY <1>2, <3>1 DEF Agrees
    <2> QED
      BY <2>1, <2>2, <2>3
  <1>3. ASSUME k[w] = {}, NEW a \in Assets
        PROVE  p[a] = IF o[a] = w THEN NoJob ELSE o[a]
    <2>1. CASE a \in h[w]
      <3>1. o[a] = w
        BY <1>3, <2>1 DEF Agrees
      <3>2. \A v \in Workers \ {w} : a \notin h[v]
        BY <1>3, <3>1 DEF Agrees
      <3> QED
        BY <1>3, <3>1, <3>2 DEF Agrees
    <2>2. CASE a \notin h[w]
      <3>1. \A v \in Workers : a \in k[v] <=> a \in h[v]
        BY <1>3, <2>2
      <3>2. p[a] = o[a]
        BY <1>3, <3>1 DEF Agrees
      <3>3. o[a] # w
        BY <1>1, <1>3, <2>2 DEF Agrees
      <3> QED
        BY <3>2, <3>3
    <2> QED
      BY <2>1, <2>2
  <1> QED
    BY <1>2, <1>3

\* What a step of w does to the owners, as AssetExclusion has it.
LEMMA OwnersStep ==
    ASSUME Agrees(OwnerMap, Taken), Agrees(OwnerMap, Taken)', NEW w \in Workers,
           \A v \in Workers \ {w} : Taken'[v] = Taken[v],
           Taken'[w] = Taken[w] \/ Taken[w] = {} \/ Taken'[w] = {}
    PROVE  [Exclusion!Next]_OwnerMap
  <1>1. Agrees(OwnerMap', Taken')
    BY DEF Agrees
  <1>2. /\ OwnerMap = [a \in Assets |-> OwnerMap[a]]
        /\ OwnerMap' = [a \in Assets |-> OwnerMap'[a]]
        /\ Taken[w] \subseteq Assets /\ Taken'[w] \subseteq Assets
    BY DEF OwnerMap, Taken
  <1>3. CASE Taken'[w] = Taken[w]
    <2>1. \A v \in Workers : Taken'[v] = Taken[v]
      BY <1>3
    <2>2. Taken' = Taken
      BY <2>1 DEF Taken
    <2>3. \A a \in Assets : OwnerMap'[a] = OwnerMap[a]
      BY <1>1, <2>2, OwnersStay
    <2> QED
      BY <1>2, <2>3
  <1>4. CASE Taken[w] = {}
    <2> DEFINE wanted == Taken'[w]
    <2>1. /\ \A a \in Assets : OwnerMap[a] # w
          /\ \A a \in wanted : OwnerMap[a] = NoJob
          /\ OwnerMap' = [a \in Assets |-> IF a \in wanted THEN w ELSE OwnerMap[a]]
      BY <1>1, <1>2, <1>4, OwnersChange
    <2>2. Exclusion!Take(w, wanted)
      BY <2>1 DEF Exclusion!Take, Exclusion!OwnedBy, OwnerMap
    <2> QED
      BY <1>2, <2>2 DEF Exclusion!Next
  <1>5. CASE Taken'[w] = {}
    <2>1. OwnerMap' = [a \in Assets |-> IF OwnerMap[a] = w THEN NoJob ELSE OwnerMap[a]]
      BY <1>1, <1>2, <1>5, OwnersChange
    <2>2. CASE \E a \in Assets : OwnerMap[a] = w
      <3>1. Exclusion!GiveBack(w)
        BY <2>1, <2>2 DEF Exclusion!GiveBack, Exclusion!OwnedBy, OwnerMap
      <3> QED
        BY <3>1 DEF Exclusion!Next
    <2>3. CASE \A a \in Assets : OwnerMap[a] # w
      BY <1>2, <2>1, <2>3
    <2> QED
      BY <2>2, <2>3
  <1> QED
    BY <1>3, <1>4, <1>5

\* Every step of the engine is a step of AssetExclusion or leaves the owners alone.
LEMMA RefinesStep ==
    ASSUME TypeOK, DeviceExclusion, DeviceExclusion', [Next]_vars
    PROVE  [Exclusion!Next]_OwnerMap
  <1>1. Agrees(OwnerMap, Taken) /\ Agrees(OwnerMap, Taken)'
    BY OwnerFacts, OwnerFactsNext
  <1>2. ASSUME UNCHANGED <<pc, job>>
        PROVE  [Exclusion!Next]_OwnerMap
    BY <1>2 DEF OwnerMap, Owner
  <1>3. ASSUME NEW w \in Workers,
               \A v \in Workers \ {w} : pc'[v] = pc[v] /\ job'[v] = job[v],
               \/ job'[w] = job[w] /\ pc[w] \in LockedPhases /\ pc'[w] \in LockedPhases
               \/ pc[w] \notin LockedPhases
               \/ pc'[w] \notin LockedPhases
        PROVE  [Exclusion!Next]_OwnerMap
    <2>1. \A v \in Workers \ {w} : Taken'[v] = Taken[v]
      BY <1>3 DEF Taken
    <2>2. Taken'[w] = Taken[w] \/ Taken[w] = {} \/ Taken'[w] = {}
      BY <1>3 DEF Taken
    <2> QED
      BY <1>1, <2>1, <2>2, OwnersStep
  <1> USE DEF TypeOK, LockedPhases, committed, bounds, cursor
  <1>4. ASSUME NEW w \in Workers, Step(w)
        PROVE  [Exclusion!Next]_OwnerMap
    <2>1. CASE AddLock(w) \/ ReplaceLock(w) \/ LockConflict(w) \/ InsertLock(w)
      <3>1. /\ \A v \in Workers \ {w} : pc'[v] = pc[v] /\ job'[v] = job[v]
            /\ pc[w] \notin LockedPhases
        BY <2>1 DEF AddLock, ReplaceLock, LockConflict, InsertLock, FlushDue
      <3> QED
        BY <1>3, <3>1
    <2>2. CASE LocksAcquired(w) \/ LocksRefused(w)
      BY <1>3, <2>2 DEF LocksAcquired, AcquiredLocks, LocksRefused, Fail
    <2>3. CASE Precheck(w) \/ BackupAsset(w)
      BY <1>3, <2>3 DEF Precheck, BackupAsset, Fail
    <2>4. CASE BeginApply(w) \/ ConnectAsset(w) \/ DeployObject(w)
      BY <1>3, <2>4 DEF BeginApply, ConnectAsset, DeployObject
    <2>5. CASE BeginRollback(w) \/ RestoreAsset(w) \/ EndRollback(w)
      BY <1>3, <2>5 DEF BeginRollback, RestoreAsset, EndRollback
    <2>6. CASE BeginVerify(w) \/ VerifyObject(w) \/ EndVerify(w)
      BY <1>3, <2>6 DEF BeginVerify, VerifyObject, EndVerify, Fail
    <2>7. CASE LookUpRaises(w) \/ DisconnectRaises(w) \/ Commit(w)
      BY <1>3, <2>7 DEF LookUpRaises, DisconnectRaises, Commit, Abort, CloseSession
    <2> QED
      BY <1>4, <2>1, <2>2, <2>3, <2>4, <2>5, <2>6, <2>7 DEF Step
  <1>5. ASSUME NEW w \in Workers, Crash(w) \/ DeadlockVictim(w)
        PROVE  [Exclusion!Next]_OwnerMap
    BY <1>3, <1>5 DEF Crash, DeadlockVictim, Abort, CloseSession
  <1>6. ASSUME NEW w \in Workers, NEW d \in Deployments, Deliver(w, d)
        PROVE  [Exclusion!Next]_OwnerMap
    BY <1>3, <1>6 DEF Deliver
  <1>7. ASSUME NEW d \in Deployments, CreateDeploymentJob(d) \/ StartDeployment(d)
        PROVE  [Exclusion!Next]_OwnerMap
    BY <1>2, <1>7 DEF CreateDeploymentJob, StartDeployment
  <1>8. ASSUME NEW b \in backups, RestoreByHand(b)
        PROVE  [Exclusion!Next]_OwnerMap
    BY <1>2, <1>8 DEF RestoreByHand
  <1>9. ASSUME NEW a \in Assets, Expire(a)
        PROVE  [Exclusion!Next]_OwnerMap
    BY <1>2, <1>9 DEF Expire
  <1>10. CASE UNCHANGED vars
    BY <1>2, <1>10 DEF vars
  <1> QED
    BY <1>4, <1>5, <1>6, <1>7, <1>8, <1>9, <1>10 DEF Next

\* The insert-and-wait protocol on resource_locks implements asset exclusion.
THEOREM Refines == Spec => ImplementsExclusion
  <1>1. Init => Exclusion!Init
    BY DEF Init, Exclusion!Init, Owner, LockedPhases
  <1>2. TypeOK /\ DeviceExclusion /\ DeviceExclusion' /\ [Next]_vars
        => [Exclusion!Next]_([a \in Assets |-> Owner(a)])
    BY RefinesStep DEF OwnerMap
  <1> QED
    BY <1>1, <1>2, TypeCorrect, Excludes, PTL DEF Spec, ImplementsExclusion, Exclusion!Spec

-----------------------------------------------------------------------------

(***************************************************************************)
(* What a task knows, whatever the others do.                              *)
(***************************************************************************)

Outcome == {"success", "rolled_back"}

\* A task works on its own assets and objects only.
WorksOnOwn(w) ==
    /\ pc[w] # "idle" => SeqRange(order[w]) = AssetsOf(job[w])
    /\ pc[w] \in {"apply", "verify"} => SeqRange(todoObjects[w]) \subseteq ObjectsOf(job[w])

\* It writes versions of its own objects, from the verification on.
WritesOwn(w) ==
    /\ \A x \in txn[w].versions : /\ x.object \in ObjectsOf(job[w])
                                  /\ x.key = KeyOf[x.object]
                                  /\ x.deployment = job[w]
    /\ pc[w] \notin {"verify", "commit"} => txn[w].versions = {}

\* Findings are closed by a success.
ClosesOnSuccess(w) ==
    txn[w].remediates => pc[w] = "commit" /\ txn[w].status = "success"

\* What has changed a device, or a history, still holds its keys when it commits.
HoldsToTheEnd(w) ==
    pc[w] = "commit" /\ (txn[w].versions # {} \/ txn[w].status \in Outcome)
    => AssetsOf(job[w]) \subseteq held[w]

\* A failure about to be committed has its notification.
HasTold(w) ==
    pc[w] = "commit" /\ txn[w].status \in FailedStatus => <<job[w], txn[w].status>> \in txn[w].told

Written(w, o) == \E x \in txn[w].versions : x.object = o

\* While nothing went wrong, each object is verified and recorded, or still to do.
HasRecorded(w) ==
    /\ pc[w] = "verify" => \A o \in ObjectsOf(job[w]) :
           o \in SeqRange(todoObjects[w]) \/ ~allGood[w] \/ Written(w, o)
    /\ pc[w] = "commit" /\ txn[w].status = "success" =>
           \A o \in ObjectsOf(job[w]) : Written(w, o)

Local(w) == /\ WorksOnOwn(w) /\ WritesOwn(w) /\ ClosesOnSuccess(w)
            /\ HoldsToTheEnd(w) /\ HasTold(w) /\ HasRecorded(w)

LocalInv == \A w \in Workers : Local(w)

Same(v) == /\ pc'[v] = pc[v] /\ job'[v] = job[v] /\ order'[v] = order[v]
           /\ todoAssets'[v] = todoAssets[v] /\ todoObjects'[v] = todoObjects[v]
           /\ held'[v] = held[v] /\ allGood'[v] = allGood[v] /\ txn'[v] = txn[v]

LEMMA LocalStays ==
    ASSUME NEW v \in Workers, Local(v), Same(v)
    PROVE  Local(v)'
  <1>1. WorksOnOwn(v)' /\ WritesOwn(v)' /\ ClosesOnSuccess(v)'
    BY DEF Local, Same, WorksOnOwn, WritesOwn, ClosesOnSuccess
  <1>2. HoldsToTheEnd(v)' /\ HasTold(v)' /\ HasRecorded(v)'
    BY DEF Local, Same, HoldsToTheEnd, HasTold, HasRecorded, Written
  <1> QED
    BY <1>1, <1>2 DEF Local

\* The steps of a task, with its delivery.
TaskStep(w) == Step(w) \/ Crash(w) \/ DeadlockVictim(w) \/ \E d \in Deployments : Deliver(w, d)

\* A step of one task leaves the others' local state alone.
LEMMA OthersStay ==
    ASSUME TypeOK, NEW w \in Workers, TaskStep(w), NEW v \in Workers, v # w
    PROVE  Same(v) /\ touched'[v] = touched[v]
  <1> USE DEF TypeOK, Same, cursor
  <1>1. CASE AddLock(w) \/ ReplaceLock(w) \/ LockConflict(w) \/ InsertLock(w)
    BY <1>1 DEF AddLock, ReplaceLock, LockConflict, InsertLock
  <1>2. CASE LocksAcquired(w) \/ LocksRefused(w)
    BY <1>2 DEF LocksAcquired, LocksRefused, Fail
  <1>3. CASE Precheck(w) \/ BackupAsset(w)
    BY <1>3 DEF Precheck, BackupAsset, Fail
  <1>4. CASE BeginApply(w) \/ ConnectAsset(w) \/ DeployObject(w)
    BY <1>4 DEF BeginApply, ConnectAsset, DeployObject
  <1>5. CASE BeginRollback(w) \/ RestoreAsset(w) \/ EndRollback(w)
    BY <1>5 DEF BeginRollback, RestoreAsset, EndRollback, NotGood
  <1>6. CASE BeginVerify(w) \/ VerifyObject(w) \/ EndVerify(w)
    BY <1>6 DEF BeginVerify, VerifyObject, EndVerify, Fail, NotGood
  <1>7. CASE LookUpRaises(w) \/ DisconnectRaises(w) \/ Commit(w) \/ Crash(w) \/ DeadlockVictim(w)
    BY <1>7 DEF LookUpRaises, DisconnectRaises, Commit, Crash, DeadlockVictim, Abort,
                CloseSession, DropKeys
  <1>8. ASSUME NEW d \in Deployments, Deliver(w, d)
        PROVE  Same(v) /\ touched'[v] = touched[v]
    BY <1>8 DEF Deliver
  <1> QED
    BY <1>1, <1>2, <1>3, <1>4, <1>5, <1>6, <1>7, <1>8 DEF TaskStep, Step

\* The rest of the system changes no task.
LEMMA TasksStay ==
    ASSUME [Next]_vars, ~ \E w \in Workers : TaskStep(w)
    PROVE  \A v \in Workers : Same(v)
  <1>1. \/ \E d \in Deployments : CreateDeploymentJob(d) \/ StartDeployment(d)
        \/ \E b \in backups : RestoreByHand(b)
        \/ \E a \in Assets : Expire(a)
        \/ UNCHANGED vars
    BY DEF Next, TaskStep
  <1> QED
    BY <1>1 DEF CreateDeploymentJob, StartDeployment, RestoreByHand, Expire, vars, cursor, Same

LEMMA InitLocal == Init => LocalInv
  <1> SUFFICES ASSUME Init, NEW w \in Workers
               PROVE  Local(w)
    BY DEF LocalInv
  <1>1. pc[w] = "idle" /\ txn[w].versions = {} /\ txn[w].remediates = FALSE
    BY DEF Init, NoTxn
  <1> QED
    BY <1>1 DEF Local, WorksOnOwn, WritesOwn, ClosesOnSuccess, HoldsToTheEnd, HasTold, HasRecorded

\* A task before its verification has written nothing.
LEMMA EarlyStep ==
    ASSUME NEW w \in Workers, WorksOnOwn(w)', pc'[w] \notin {"verify", "commit"},
           txn'[w].versions = {}, ~txn'[w].remediates
    PROVE  Local(w)'
  BY DEF Local, WritesOwn, ClosesOnSuccess, HoldsToTheEnd, HasTold, HasRecorded

\* What Fail makes of a transaction.
LEMMA FailedFacts ==
    ASSUME NEW t \in TxnType, NEW d, NEW s \in FailedStatus
    PROVE  /\ Failed(t, d, s).versions = t.versions
           /\ Failed(t, d, s).saved = t.saved
           /\ Failed(t, d, s).remediates = t.remediates
           /\ Failed(t, d, s).status \in {"unchanged", s}
           /\ <<d, s>> \in Failed(t, d, s).told
  BY DEF Failed, WithoutLocks, TxnType

LEMMA FailStep ==
    ASSUME TypeOK, NEW w \in Workers, Local(w), pc[w] \notin {"idle", "commit"},
           NEW s \in FailedStatus, Fail(w, s),
           AssetsOf(job[w]) \subseteq held[w] \/ pc[w] # "verify",
           job'[w] = job[w], order'[w] = order[w], held'[w] = held[w]
    PROVE  Local(w)'
  <1> DEFINE t == Failed(txn[w], job[w], s)
  <1>1. /\ txn[w] \in TxnType
        /\ txn'[w] = t /\ pc'[w] = "commit"
    BY DEF TypeOK, Fail
  <1>2. /\ t.versions = txn[w].versions
        /\ t.remediates = txn[w].remediates
        /\ t.status \in {"unchanged", s}
        /\ <<job[w], s>> \in t.told
    BY <1>1, FailedFacts
  <1> HIDE DEF t
  <1>3. t.status \notin Outcome
    BY <1>2 DEF FailedStatus, Outcome
  <1>4. WorksOnOwn(w)' /\ WritesOwn(w)'
    BY <1>1, <1>2 DEF Local, WorksOnOwn, WritesOwn
  <1>5. ClosesOnSuccess(w)'
    BY <1>1, <1>2 DEF Local, ClosesOnSuccess
  <1>6. HoldsToTheEnd(w)'
    BY <1>1, <1>2, <1>3 DEF Local, WritesOwn, HoldsToTheEnd
  <1>7. HasTold(w)'
    BY <1>1, <1>2 DEF HasTold, FailedStatus
  <1>8. HasRecorded(w)'
    BY <1>1, <1>3 DEF HasRecorded, Outcome
  <1> QED
    BY <1>4, <1>5, <1>6, <1>7, <1>8 DEF Local

LEMMA LocalStep ==
    ASSUME TypeOK, TypeOK', LockInv, NEW w \in Workers, Local(w), TaskStep(w)
    PROVE  Local(w)'
  <1> USE DEF cursor
  <1>1. ASSUME AddLock(w) \/ ReplaceLock(w) \/ LockConflict(w) \/ InsertLock(w)
        PROVE  Local(w)'
    <2>1. /\ pc[w] \in {"acquire", "conflict"} /\ pc'[w] \in {"acquire", "conflict"}
          /\ UNCHANGED <<job, order>>
          /\ txn'[w].versions = txn[w].versions /\ txn'[w].remediates = txn[w].remediates
      <3>1. CASE AddLock(w)
        BY <3>1 DEF AddLock
      <3>2. CASE ReplaceLock(w)
        BY <3>2 DEF ReplaceLock, TypeOK, TxnType
      <3>3. CASE LockConflict(w)
        BY <3>3 DEF LockConflict, TypeOK
      <3>4. CASE InsertLock(w)
        BY <3>4 DEF InsertLock, FlushDue, TypeOK, TxnType
      <3> QED
        BY <1>1, <3>1, <3>2, <3>3, <3>4
    <2>2. txn[w].versions = {} /\ ~txn[w].remediates
      BY <2>1 DEF Local, WritesOwn, ClosesOnSuccess
    <2>3. WorksOnOwn(w)'
      BY <2>1 DEF Local, WorksOnOwn
    <2> QED
      BY <2>1, <2>2, <2>3, EarlyStep
  <1>2. ASSUME LocksRefused(w)
        PROVE  Local(w)'
    BY <1>2, FailStep DEF LocksRefused, FailedStatus
  <1>3. ASSUME pc[w] \in LockedPhases, pc'[w] \in LockedPhases \ {"verify"}, pc[w] # "verify",
               WorksOnOwn(w)', txn'[w].versions = txn[w].versions,
               txn'[w].remediates = txn[w].remediates
        PROVE  Local(w)'
    <2>1. txn[w].versions = {} /\ ~txn[w].remediates
      BY <1>3 DEF Local, WritesOwn, ClosesOnSuccess, LockedPhases
    <2> QED
      BY <1>3, <2>1, EarlyStep DEF LockedPhases
  <1>4. ASSUME LocksAcquired(w)
        PROVE  Local(w)'
    <2>1. /\ pc[w] = "acquire" /\ pc'[w] = "precheck" /\ UNCHANGED <<job, order>>
          /\ txn'[w].versions = txn[w].versions /\ txn'[w].remediates = txn[w].remediates
      BY <1>4 DEF LocksAcquired, AcquiredLocks, TypeOK, TxnType
    <2>2. txn[w].versions = {} /\ ~txn[w].remediates /\ WorksOnOwn(w)'
      BY <2>1 DEF Local, WritesOwn, ClosesOnSuccess, WorksOnOwn
    <2> QED
      BY <2>1, <2>2, EarlyStep
  <1>5. ASSUME Precheck(w) \/ BackupAsset(w)
        PROVE  Local(w)'
    <2>1. /\ pc[w] \in {"precheck", "backup"} /\ UNCHANGED <<job, order, held>>
      BY <1>5 DEF Precheck, BackupAsset
    <2>2. CASE Fail(w, "precheck_failed") \/ Fail(w, "backup_failed")
      BY <2>1, <2>2, FailStep DEF FailedStatus
    <2>3. CASE ~ (Fail(w, "precheck_failed") \/ Fail(w, "backup_failed"))
      <3>1. /\ pc'[w] = "backup"
            /\ txn'[w].versions = txn[w].versions /\ txn'[w].remediates = txn[w].remediates
        BY <1>5, <2>3 DEF Precheck, BackupAsset, TypeOK, TxnType
      <3>2. WorksOnOwn(w)'
        BY <2>1, <3>1 DEF Local, WorksOnOwn
      <3> QED
        BY <1>3, <2>1, <3>1, <3>2 DEF LockedPhases
    <2> QED
      BY <2>2, <2>3
  <1>6. ASSUME BeginApply(w)
        PROVE  Local(w)'
    <2>1. /\ pc[w] = "backup" /\ pc'[w] = "apply" /\ UNCHANGED <<job, order>>
          /\ todoObjects'[w] = Plan[job[w]]
          /\ txn'[w].versions = txn[w].versions /\ txn'[w].remediates = txn[w].remediates
      BY <1>6 DEF BeginApply, TypeOK, TxnType
    <2>2. WorksOnOwn(w)'
      BY <2>1 DEF Local, WorksOnOwn, ObjectsOf
    <2> QED
      BY <1>3, <2>1, <2>2 DEF LockedPhases
  <1>7. ASSUME ConnectAsset(w) \/ DeployObject(w)
        PROVE  Local(w)'
    <2>1. /\ pc[w] = "apply" /\ pc'[w] \in {"apply", "abandon"} /\ UNCHANGED <<job, order, txn>>
          /\ todoObjects[w] # <<>> /\ todoObjects'[w] \in {todoObjects[w], Tail(todoObjects[w])}
      BY <1>7 DEF ConnectAsset, DeployObject, TypeOK
    <2>2. SeqRange(todoObjects[w]) = {Head(todoObjects[w])} \cup SeqRange(Tail(todoObjects[w]))
      BY <2>1, SeqRangeFacts DEF TypeOK
    <2>3. WorksOnOwn(w)'
      BY <2>1, <2>2 DEF Local, WorksOnOwn
    <2> QED
      BY <1>3, <2>1, <2>3 DEF LockedPhases
  <1>8. ASSUME BeginRollback(w) \/ RestoreAsset(w)
        PROVE  Local(w)'
    <2>1. /\ pc[w] \in {"abandon", "rollback"} /\ pc'[w] = "rollback" /\ UNCHANGED <<job, order>>
          /\ txn'[w].versions = txn[w].versions /\ txn'[w].remediates = txn[w].remediates
      BY <1>8 DEF BeginRollback, RestoreAsset, TypeOK, TxnType
    <2>2. WorksOnOwn(w)'
      BY <2>1 DEF Local, WorksOnOwn
    <2> QED
      BY <1>3, <2>1, <2>2 DEF LockedPhases
  <1>9. ASSUME EndRollback(w)
        PROVE  Local(w)'
    <2>1. /\ pc[w] = "rollback" /\ pc'[w] = "commit" /\ UNCHANGED <<job, order, held>>
          /\ txn[w] \in TxnType
          /\ txn'[w] = [WithoutLocks(txn[w]) EXCEPT !.status = RollbackStatus(allGood[w])]
      BY <1>9 DEF EndRollback, TypeOK
    <2>2. /\ txn'[w].versions = txn[w].versions /\ txn'[w].remediates = txn[w].remediates
          /\ txn'[w].status \in {"rolled_back", "rollback_failed"}
      BY <2>1 DEF WithoutLocks, RollbackStatus, TxnType
    <2>3. txn[w].versions = {} /\ ~txn[w].remediates
      BY <2>1 DEF Local, WritesOwn, ClosesOnSuccess
    <2>4. AssetsOf(job[w]) \subseteq held[w]
      BY <2>1 DEF LockInv, HoldsAll, LockedPhases
    <2>5. WorksOnOwn(w)' /\ WritesOwn(w)' /\ ClosesOnSuccess(w)' /\ HoldsToTheEnd(w)'
      BY <2>1, <2>2, <2>3, <2>4 DEF Local, WorksOnOwn, WritesOwn, ClosesOnSuccess, HoldsToTheEnd
    <2>6. HasTold(w)' /\ HasRecorded(w)'
      BY <2>1, <2>2 DEF HasTold, HasRecorded, FailedStatus
    <2> QED
      BY <2>5, <2>6 DEF Local
  <1>10. ASSUME BeginVerify(w)
         PROVE  Local(w)'
    <2>1. /\ pc[w] = "apply" /\ pc'[w] = "verify" /\ UNCHANGED <<job, order>>
          /\ todoObjects'[w] = Plan[job[w]]
          /\ txn'[w].versions = txn[w].versions /\ txn'[w].remediates = txn[w].remediates
      BY <1>10 DEF BeginVerify, TypeOK, TxnType
    <2>2. WorksOnOwn(w)' /\ HasRecorded(w)'
      BY <2>1 DEF Local, WorksOnOwn, HasRecorded, ObjectsOf
    <2>3. WritesOwn(w)' /\ ClosesOnSuccess(w)'
      BY <2>1 DEF Local, WritesOwn, ClosesOnSuccess
    <2>4. HoldsToTheEnd(w)' /\ HasTold(w)'
      BY <2>1 DEF HoldsToTheEnd, HasTold
    <2> QED
      BY <2>2, <2>3, <2>4 DEF Local
  <1>11. ASSUME VerifyObject(w)
         PROVE  Local(w)'
    <2> DEFINE o == Head(todoObjects[w])
    <2>1. /\ pc[w] = "verify" /\ pc'[w] = "verify" /\ UNCHANGED <<job, order>>
          /\ todoObjects[w] # <<>> /\ todoObjects'[w] = Tail(todoObjects[w])
      BY <1>11 DEF VerifyObject, TypeOK
    <2>2. SeqRange(todoObjects[w]) = {o} \cup SeqRange(Tail(todoObjects[w]))
      BY <2>1, SeqRangeFacts DEF TypeOK
    <2>3. o \in ObjectsOf(job[w])
      BY <2>1, <2>2 DEF Local, WorksOnOwn
    <2>4. \/ /\ txn'[w].versions = txn[w].versions \cup {Recorded(w, o)}
             /\ txn'[w].remediates = txn[w].remediates /\ allGood'[w] = allGood[w]
          \/ txn'[w] = txn[w] /\ ~allGood'[w]
      BY <1>11 DEF VerifyObject, NotGood, TypeOK, TxnType
    <2> HIDE DEF o
    <2>5. /\ Recorded(w, o).object = o /\ Recorded(w, o).key = KeyOf[o]
          /\ Recorded(w, o).deployment = job[w]
      BY DEF Recorded
    <2>6. WorksOnOwn(w)'
      BY <2>1, <2>2 DEF Local, WorksOnOwn
    <2>7. WritesOwn(w)' /\ ClosesOnSuccess(w)'
      BY <2>1, <2>3, <2>4, <2>5 DEF Local, WritesOwn, ClosesOnSuccess
    <2>8. HoldsToTheEnd(w)' /\ HasTold(w)'
      BY <2>1 DEF HoldsToTheEnd, HasTold
    <2>9. HasRecorded(w)'
      <3>1. CASE /\ txn'[w].versions = txn[w].versions \cup {Recorded(w, o)}
                 /\ allGood'[w] = allGood[w]
        <4>1. \A p : p = o \/ Written(w, p) => Written(w, p)'
          BY <2>5, <3>1 DEF Written
        <4> QED
          BY <2>1, <2>2, <3>1, <4>1 DEF Local, HasRecorded
      <3>2. CASE ~allGood'[w]
        BY <2>1, <3>2 DEF HasRecorded
      <3> QED
        BY <2>4, <3>1, <3>2
    <2> QED
      BY <2>6, <2>7, <2>8, <2>9 DEF Local
  <1>12. ASSUME EndVerify(w)
         PROVE  Local(w)'
    <2>1. /\ pc[w] = "verify" /\ todoObjects[w] = <<>> /\ UNCHANGED <<job, order, held>>
      BY <1>12 DEF EndVerify
    <2>2. AssetsOf(job[w]) \subseteq held[w]
      BY <2>1 DEF LockInv, HoldsAll, LockedPhases
    <2>3. CASE Fail(w, "verify_failed")
      BY <2>1, <2>2, <2>3, FailStep DEF FailedStatus
    <2>4. CASE ~Fail(w, "verify_failed")
      <3>1. /\ allGood[w] /\ pc'[w] = "commit" /\ txn[w] \in TxnType
            /\ txn'[w] = [WithoutLocks(txn[w]) EXCEPT !.status = "success", !.remediates = TRUE]
        BY <1>12, <2>4 DEF EndVerify, TypeOK
      <3>2. /\ txn'[w].versions = txn[w].versions
            /\ txn'[w].status = "success"
        BY <3>1 DEF WithoutLocks, TxnType
      <3>3. SeqRange(todoObjects[w]) = {}
        BY <2>1, SeqRangeFacts, EmptySeq
      <3>4. HasRecorded(w)'
        BY <2>1, <3>1, <3>2, <3>3 DEF Local, HasRecorded, Written
      <3>5. WorksOnOwn(w)' /\ WritesOwn(w)' /\ ClosesOnSuccess(w)' /\ HoldsToTheEnd(w)'
        BY <2>1, <2>2, <3>1, <3>2 DEF Local, WorksOnOwn, WritesOwn, ClosesOnSuccess, HoldsToTheEnd
      <3>6. HasTold(w)'
        BY <3>2 DEF HasTold, FailedStatus
      <3> QED
        BY <3>4, <3>5, <3>6 DEF Local
    <2> QED
      BY <2>3, <2>4
  <1>13. ASSUME LookUpRaises(w) \/ DisconnectRaises(w) \/ Commit(w) \/ Crash(w) \/ DeadlockVictim(w)
         PROVE  Local(w)'
    <2>1. CloseSession(w)
      BY <1>13 DEF LookUpRaises, DisconnectRaises, Commit, Crash, DeadlockVictim, Abort
    <2>2. pc'[w] = "idle" /\ txn'[w] = NoTxn
      BY <2>1 DEF CloseSession, TypeOK
    <2>3. txn'[w].versions = {} /\ ~txn'[w].remediates
      BY <2>2 DEF NoTxn
    <2>4. WorksOnOwn(w)'
      BY <2>2 DEF WorksOnOwn
    <2> QED
      BY <2>2, <2>3, <2>4, EarlyStep
  <1>14. ASSUME NEW d \in Deployments, Deliver(w, d)
         PROVE  Local(w)'
    <2>1. /\ pc[w] = "idle" /\ pc'[w] = "acquire" /\ job'[w] = d
          /\ txn'[w].versions = txn[w].versions /\ txn'[w].remediates = txn[w].remediates
          /\ \E q \in Orders(d) : order'[w] = q
      BY <1>14 DEF Deliver, TypeOK, TxnType
    <2>2. SeqRange(order'[w]) = AssetsOf(d)
      BY <2>1, OrderFacts
    <2>3. txn[w].versions = {} /\ ~txn[w].remediates /\ WorksOnOwn(w)'
      BY <2>1, <2>2 DEF Local, WritesOwn, ClosesOnSuccess, WorksOnOwn
    <2> QED
      BY <2>1, <2>3, EarlyStep
  <1> QED
    BY <1>1, <1>2, <1>4, <1>5, <1>6, <1>7, <1>8, <1>9, <1>10, <1>11, <1>12, <1>13, <1>14
       DEF TaskStep, Step

LEMMA LocalInvStep == TypeOK /\ TypeOK' /\ LockInv /\ LocalInv /\ [Next]_vars => LocalInv'
  <1> SUFFICES ASSUME TypeOK, TypeOK', LockInv, LocalInv, [Next]_vars, NEW v \in Workers
               PROVE  Local(v)'
    BY DEF LocalInv
  <1>1. ASSUME NEW w \in Workers, TaskStep(w)
        PROVE  Local(v)'
    <2>1. CASE v = w
      BY <1>1, <2>1, LocalStep DEF LocalInv
    <2>2. CASE v # w
      BY <1>1, <2>2, OthersStay, LocalStays DEF LocalInv
    <2> QED
      BY <2>1, <2>2
  <1>2. CASE ~ \E w \in Workers : TaskStep(w)
    BY <1>2, TasksStay, LocalStays DEF LocalInv
  <1> QED
    BY <1>1, <1>2

LEMMA LocalInvariant == Spec => []LocalInv
  <1> QED
    BY TypeCorrect, LockInvariant, InitLocal, LocalInvStep, PTL DEF Spec

-----------------------------------------------------------------------------
(***************************************************************************)
(* Notifications and closed findings.                                      *)
(***************************************************************************)

\* Only a commit, or the creation of a deployment, changes what the others read.
LEMMA CommittedStays ==
    ASSUME [Next]_vars
    PROVE  \/ \E w \in Workers : Commit(w)
           \/ \E d \in Deployments : CreateDeploymentJob(d)
           \/ UNCHANGED <<status, versions, notified, remediated>>
  <1> USE DEF committed
  <1>1. ASSUME NEW w \in Workers, Step(w) \/ Crash(w) \/ DeadlockVictim(w)
        PROVE  Commit(w) \/ UNCHANGED <<status, versions, notified, remediated>>
    BY <1>1 DEF Step, AddLock, ReplaceLock, LockConflict, InsertLock, LocksAcquired, LocksRefused,
                Precheck, BackupAsset, BeginApply, ConnectAsset, DeployObject, BeginRollback,
                RestoreAsset, EndRollback, BeginVerify, VerifyObject, EndVerify, LookUpRaises,
                DisconnectRaises, Crash, DeadlockVictim, Abort
  <1>2. ASSUME NEW w \in Workers, NEW d \in Deployments, Deliver(w, d)
        PROVE  UNCHANGED <<status, versions, notified, remediated>>
    BY <1>2 DEF Deliver
  <1>3. ASSUME \/ \E d \in Deployments : StartDeployment(d)
               \/ \E b \in backups : RestoreByHand(b)
               \/ \E a \in Assets : Expire(a)
               \/ UNCHANGED vars
        PROVE  UNCHANGED <<status, versions, notified, remediated>>
    BY <1>3 DEF StartDeployment, RestoreByHand, Expire, vars
  <1> QED
    BY <1>1, <1>2, <1>3 DEF Next

\* Every failure that is shown was notified: the notification is in the transaction that
\* commits the status.
THEOREM FailuresAreNotified == Spec => []FailureIsNotified
  <1>1. Init => FailureIsNotified
    BY DEF Init, FailureIsNotified, FailedStatus
  <1>2. ASSUME TypeOK, LocalInv, FailureIsNotified, [Next]_vars
        PROVE  FailureIsNotified'
    <2>1. ASSUME NEW w \in Workers, Commit(w)
          PROVE  FailureIsNotified'
      <3>1. /\ pc[w] = "commit" /\ job[w] \in Deployments
            /\ status' = [status EXCEPT ![job[w]] =
                              IF txn[w].status = "unchanged" THEN @ ELSE txn[w].status]
            /\ notified' = notified \cup txn[w].told
        BY <1>2, <2>1 DEF Commit, TypeOK
      <3>2. HasTold(w)
        BY <1>2 DEF LocalInv, Local
      <3>3. \A d \in Deployments :
               status'[d] = status[d] \/ (d = job[w] /\ status'[d] = txn[w].status)
        BY <1>2, <3>1 DEF TypeOK
      <3> QED
        BY <1>2, <3>1, <3>2, <3>3 DEF HasTold, FailureIsNotified
    <2>2. ASSUME NEW d \in Deployments, CreateDeploymentJob(d)
          PROVE  FailureIsNotified'
      BY <1>2, <2>2 DEF CreateDeploymentJob, FailureIsNotified, FailedStatus, TypeOK
    <2>3. CASE UNCHANGED <<status, versions, notified, remediated>>
      BY <1>2, <2>3 DEF FailureIsNotified
    <2> QED
      BY <1>2, <2>1, <2>2, <2>3, CommittedStays
  <1> QED
    BY <1>1, <1>2, TypeCorrect, LocalInvariant, PTL DEF Spec

\* What is shown as a success, or closed, has a version of each of its objects.
THEOREM ClosedIsRecorded == Spec => []ClosedMeansRecorded
  <1> DEFINE Has(V, d) == \A o \in ObjectsOf(d) : \E v \in V : v.object = o /\ v.deployment = d
  <1>1. Init => ClosedMeansRecorded
    BY DEF Init, ClosedMeansRecorded
  <1>2. ASSUME TypeOK, LocalInv, ClosedMeansRecorded, [Next]_vars
        PROVE  ClosedMeansRecorded'
    <2>1. ASSUME NEW w \in Workers, Commit(w)
          PROVE  ClosedMeansRecorded'
      <3>1. /\ pc[w] = "commit" /\ job[w] \in Deployments
            /\ status' = [status EXCEPT ![job[w]] =
                              IF txn[w].status = "unchanged" THEN @ ELSE txn[w].status]
            /\ versions' = versions \cup txn[w].versions
            /\ remediated' = IF txn[w].remediates THEN remediated \cup {job[w]} ELSE remediated
        BY <1>2, <2>1 DEF Commit, TypeOK
      <3>2. HasRecorded(w) /\ WritesOwn(w) /\ ClosesOnSuccess(w)
        BY <1>2 DEF LocalInv, Local
      <3>3. txn[w].status = "success" => Has(versions', job[w])
        BY <3>1, <3>2 DEF HasRecorded, WritesOwn, Written
      <3>4. \A d \in Deployments : Has(versions, d) => Has(versions', d)
        BY <3>1
      <3>5. ASSUME NEW d \in Deployments, status'[d] = "success" \/ d \in remediated'
            PROVE  \/ status[d] = "success" \/ d \in remediated
                   \/ d = job[w] /\ txn[w].status = "success"
        BY <1>2, <3>1, <3>2, <3>5 DEF TypeOK, ClosesOnSuccess
      <3>6. \A d \in Deployments : status[d] = "success" \/ d \in remediated => Has(versions, d)
        BY <1>2 DEF ClosedMeansRecorded
      <3> HIDE DEF Has
      <3>7. \A d \in Deployments : status'[d] = "success" \/ d \in remediated' => Has(versions', d)
        BY <3>3, <3>4, <3>5, <3>6
      <3> QED
        BY <3>7 DEF ClosedMeansRecorded, Has
    <2>2. ASSUME NEW d \in Deployments, CreateDeploymentJob(d)
          PROVE  ClosedMeansRecorded'
      BY <1>2, <2>2 DEF CreateDeploymentJob, ClosedMeansRecorded, TypeOK
    <2>3. CASE UNCHANGED <<status, versions, notified, remediated>>
      BY <1>2, <2>3 DEF ClosedMeansRecorded
    <2> QED
      BY <1>2, <2>1, <2>2, <2>3, CommittedStays
  <1> QED
    BY <1>1, <1>2, TypeCorrect, LocalInvariant, PTL DEF Spec

-----------------------------------------------------------------------------
(***************************************************************************)
(* The numbers of a history.                                               *)
(***************************************************************************)

History(V, k) == {x \in V : x.key = k}
NumbersOf(V, k) == {x.number : x \in History(V, k)}

\* The versions of k in V have the numbers 1, 2, 3, ..., each once.
Numbered(V, k) ==
    /\ \E n \in Nat : NumbersOf(V, k) = 1..n
    /\ \A x, y \in History(V, k) : x.number = y.number => x = y

\* Numbers that are each given once, from 1 without a gap, count the history.
LEMMA NumberedIsCounted ==
    ASSUME NEW V, NEW k, Numbered(V, k)
    PROVE  NumbersOf(V, k) = 1..Cardinality(History(V, k))
  <1> DEFINE H == History(V, k)
  <1>1. PICK n \in Nat : {x.number : x \in H} = 1..n
    BY DEF Numbered, NumbersOf
  <1>2. \A x, y \in H : x.number = y.number => x = y
    BY DEF Numbered
  <1> HIDE DEF H
  <1> DEFINE f == [i \in 1..n |-> CHOOSE x \in H : x.number = i]
  <1>3. \A i \in 1..n : f[i] \in H /\ f[i].number = i
    BY <1>1
  <1> HIDE DEF f
  <1>4. f \in [1..n -> H]
    <2>1. f = [i \in 1..n |-> f[i]]
      BY DEF f
    <2> QED
      BY <1>3, <2>1
  <1>5. \A x \in H : \E i \in 1..n : f[i] = x
    <2> SUFFICES ASSUME NEW x \in H
                 PROVE  \E i \in 1..n : f[i] = x
      OBVIOUS
    <2>1. x.number \in 1..n
      BY <1>1
    <2> QED
      BY <1>2, <1>3, <2>1
  <1>6. f \in Bijection(1..n, H)
    BY <1>3, <1>4, <1>5 DEF Bijection, Injection, Surjection, IsInjective
  <1>7. ExistsBijection(1..n, H)
    BY <1>6 DEF ExistsBijection
  <1>8. IsFiniteSet(1..n) /\ Cardinality(1..n) = n
    BY FS_Interval
  <1>9. Cardinality(H) = n
    BY <1>7, <1>8, FS_Bijection
  <1> QED
    BY <1>1, <1>9 DEF NumbersOf, H

\* The next number is the next one.
LEMMA NextIsNext ==
    ASSUME NEW w \in Workers, NEW k, NEW n \in Nat,
           NumbersOf(versions \cup txn[w].versions, k) = 1..n
    PROVE  NextNumber(w, k) = n + 1
  <1>1. SeenNumbers(w, k) = 0..n
    BY DEF SeenNumbers, NumbersOf, History
  <1>2. n \in SeenNumbers(w, k) /\ \A m \in SeenNumbers(w, k) : m <= n
    BY <1>1
  <1>3. LatestNumber(w, k) \in SeenNumbers(w, k)
        /\ \A m \in SeenNumbers(w, k) : m <= LatestNumber(w, k)
    BY <1>2 DEF LatestNumber
  <1>4. LatestNumber(w, k) = n
    BY <1>1, <1>2, <1>3
  <1> QED
    BY <1>4 DEF NextNumber

LEMMA NumberedGrows ==
    ASSUME NEW V, NEW k, Numbered(V, k), NEW n \in Nat, NumbersOf(V, k) = 1..n,
           NEW r, r.key = k, r.number = n + 1
    PROVE  Numbered(V \cup {r}, k)
  <1>1. History(V \cup {r}, k) = History(V, k) \cup {r}
    BY DEF History
  <1>2. NumbersOf(V \cup {r}, k) = NumbersOf(V, k) \cup {n + 1}
    BY <1>1 DEF NumbersOf
  <1>3. NumbersOf(V \cup {r}, k) = 1..(n + 1)
    <2>1. (1..n) \cup {n + 1} = 1..(n + 1)
      OBVIOUS
    <2> QED
      BY <1>2, <2>1
  <1>4. \A x \in History(V, k) : x.number \in 1..n
    BY DEF NumbersOf
  <1>5. \A x \in History(V, k) : x.number # r.number
    BY <1>4
  <1>6. \A x, y \in History(V \cup {r}, k) : x.number = y.number => x = y
    BY <1>1, <1>5 DEF Numbered
  <1>7. n + 1 \in Nat
    OBVIOUS
  <1> QED
    BY <1>3, <1>6, <1>7 DEF Numbered

\* Committed histories are numbered, and so are they with what a task has added.
NumbersInv ==
    \A k \in Keys :
        /\ Numbered(versions, k)
        /\ \A w \in Workers :
              /\ Numbered(versions \cup txn[w].versions, k)
              /\ \A x \in History(versions, k), y \in History(txn[w].versions, k) :
                    x.number < y.number

\* Two tasks write to no common history: it is of one asset, and they hold its key.
LEMMA HistoriesApart ==
    ASSUME TypeOK, LockInv, LocalInv, NEW v \in Workers, NEW w \in Workers, v # w, NEW k
    PROVE  History(txn[v].versions, k) = {} \/ History(txn[w].versions, k) = {}
  <1> SUFFICES ASSUME NEW x \in txn[v].versions, NEW y \in txn[w].versions, x.key = k, y.key = k
               PROVE  FALSE
    BY DEF History
  <1>1. ASSUME NEW u \in Workers, NEW z \in txn[u].versions
        PROVE  z.object \in Objects /\ z.key = KeyOf[z.object] /\ AssetOf(z.object) \in held[u]
    <2>1. z.object \in Objects
      BY DEF TypeOK, TxnType
    <2>2. Local(u)
      BY DEF LocalInv
    <2>3. z.object \in ObjectsOf(job[u]) /\ z.key = KeyOf[z.object] /\ pc[u] \in {"verify", "commit"}
      BY <2>2 DEF Local, WritesOwn
    <2>4. AssetsOf(job[u]) \subseteq held[u]
      BY <2>2, <2>3 DEF Local, HoldsToTheEnd, LockInv, HoldsAll, LockedPhases
    <2> QED
      BY <2>1, <2>3, <2>4 DEF AssetsOf
  <1>2. AssetOf(x.object) = AssetOf(y.object)
    BY <1>1, KeyAssumption
  <1> QED
    BY <1>1, <1>2 DEF LockInv, HeldDisjoint

LEMMA InitNumbers == Init => NumbersInv
  <1> SUFFICES ASSUME Init
               PROVE  NumbersInv
    OBVIOUS
  <1>1. versions = {} /\ \A w \in Workers : txn[w].versions = {}
    BY DEF Init, NoTxn
  <1>2. ASSUME NEW k
        PROVE  Numbered({}, k)
    <2>1. History({}, k) = {}
      BY DEF History
    <2>2. NumbersOf({}, k) = 1..0
      BY <2>1 DEF NumbersOf
    <2> QED
      BY <2>1, <2>2 DEF Numbered
  <1> QED
    BY <1>1, <1>2 DEF NumbersInv, History

\* A step that adds no version, and drops some task's at most.
LEMMA NumbersStay ==
    ASSUME NumbersInv, versions' = versions,
           \A w \in Workers : txn'[w].versions \in {txn[w].versions, {}}
    PROVE  NumbersInv'
  <1> SUFFICES ASSUME NEW k \in Keys
               PROVE  /\ Numbered(versions, k)
                      /\ \A w \in Workers :
                            /\ Numbered(versions \cup txn'[w].versions, k)
                            /\ \A x \in History(versions, k), y \in History(txn'[w].versions, k) :
                                  x.number < y.number
    BY DEF NumbersInv
  <1>1. Numbered(versions, k)
    BY DEF NumbersInv
  <1>2. ASSUME NEW w \in Workers
        PROVE  /\ Numbered(versions \cup txn'[w].versions, k)
               /\ \A x \in History(versions, k), y \in History(txn'[w].versions, k) :
                     x.number < y.number
    <2>1. CASE txn'[w].versions = txn[w].versions
      BY <2>1 DEF NumbersInv
    <2>2. CASE txn'[w].versions = {}
      <3>1. versions \cup txn'[w].versions = versions /\ History(txn'[w].versions, k) = {}
        BY <2>2 DEF History
      <3> QED
        BY <1>1, <3>1
    <2> QED
      BY <2>1, <2>2
  <1> QED
    BY <1>1, <1>2

\* Numbering is about the versions of a key only.
LEMMA NumberedByHistory ==
    ASSUME NEW V, NEW W, NEW k, History(V, k) = History(W, k), Numbered(V, k)
    PROVE  Numbered(W, k)
  BY DEF Numbered, NumbersOf

LEMMA VerifyNumbers ==
    ASSUME TypeOK, TypeOK', LockInv, LocalInv, NumbersInv, NEW w \in Workers, VerifyObject(w)
    PROVE  NumbersInv'
  <1> DEFINE o == Head(todoObjects[w])
             V == versions \cup txn[w].versions
  <1>1. CASE txn' = txn
    BY <1>1, NumbersStay DEF VerifyObject, committed
  <1>2. CASE txn' # txn
    <2>1. /\ versions' = versions
          /\ txn'[w].versions = txn[w].versions \cup {Recorded(w, o)}
          /\ \A v \in Workers \ {w} : txn'[v] = txn[v]
      BY <1>2 DEF VerifyObject, committed, TypeOK, TxnType
    <2>2. KeyOf[o] \in Keys
      <3>1. o \in Objects
        BY DEF VerifyObject, TypeOK
      <3> QED
        BY <3>1, ObjectFacts
    <2>3. PICK n \in Nat : NumbersOf(V, KeyOf[o]) = 1..n
      BY <2>2 DEF NumbersInv, Numbered
    <2>4. Recorded(w, o).key = KeyOf[o] /\ Recorded(w, o).number = n + 1
      BY <2>3, NextIsNext DEF Recorded
    <2> DEFINE r == Recorded(w, o)
               key == KeyOf[o]
               U == txn[w].versions
    <2> HIDE DEF r, o, key, V
    <2>5. r.key = key /\ r.number = n + 1 /\ txn'[w].versions = U \cup {r}
          /\ versions \cup txn'[w].versions = V \cup {r}
      BY <2>1, <2>4 DEF r, key, V
    <2>6. ASSUME NEW k \in Keys
          PROVE  /\ Numbered(V \cup {r}, k)
                 /\ \A x \in History(versions, k), y \in History(U \cup {r}, k) :
                       x.number < y.number
      <3>1. Numbered(V, k) /\ \A x \in History(versions, k), y \in History(U, k) :
                                 x.number < y.number
        BY DEF NumbersInv, V
      <3>2. CASE k # key
        <4>1. History(V \cup {r}, k) = History(V, k) /\ History(U \cup {r}, k) = History(U, k)
          BY <2>5, <3>2 DEF History
        <4> QED
          BY <3>1, <4>1, NumberedByHistory
      <3>3. CASE k = key
        <4>1. Numbered(V \cup {r}, k)
          BY <2>3, <2>5, <3>1, <3>3, NumberedGrows DEF key
        <4>2. \A x \in History(versions, k) : x.number \in 1..n
          BY <2>3, <3>3 DEF NumbersOf, History, V, key
        <4>3. \A y \in History(U \cup {r}, k) : y \in History(U, k) \/ y = r
          BY DEF History
        <4>4. \A x \in History(versions, k) : x.number < n + 1
          BY <4>2
        <4> QED
          BY <2>5, <3>1, <4>1, <4>3, <4>4
      <3> QED
        BY <3>2, <3>3
    <2>7. ASSUME NEW k \in Keys, NEW v \in Workers
          PROVE  /\ Numbered(versions, k)
                 /\ Numbered(versions \cup txn'[v].versions, k)
                 /\ \A x \in History(versions, k), y \in History(txn'[v].versions, k) :
                       x.number < y.number
      <3>1. CASE v = w
        BY <2>5, <2>6, <3>1 DEF NumbersInv
      <3>2. CASE v # w
        BY <2>1, <3>2 DEF NumbersInv
      <3> QED
        BY <3>1, <3>2
    <2>8. \A k \in Keys : Numbered(versions, k)
      BY DEF NumbersInv
    <2> QED
      BY <2>1, <2>7, <2>8 DEF NumbersInv
  <1> QED
    BY <1>1, <1>2

LEMMA CommitNumbers ==
    ASSUME TypeOK, LockInv, LocalInv, NumbersInv, NEW w \in Workers, Commit(w)
    PROVE  NumbersInv'
  <1> DEFINE V == versions \cup txn[w].versions
  <1>1. versions' = V /\ txn'[w].versions = {} /\ \A v \in Workers \ {w} : txn'[v] = txn[v]
    BY DEF Commit, CloseSession, TypeOK, NoTxn
  <1>2. ASSUME NEW k \in Keys
        PROVE  Numbered(V, k)
    BY DEF NumbersInv
  <1>3. ASSUME NEW k \in Keys, NEW v \in Workers
        PROVE  /\ Numbered(V \cup txn'[v].versions, k)
               /\ \A x \in History(V, k), y \in History(txn'[v].versions, k) : x.number < y.number
    <2>1. CASE History(txn'[v].versions, k) = {}
      <3>1. History(V \cup txn'[v].versions, k) = History(V, k)
        BY <2>1 DEF History
      <3> QED
        BY <1>2, <2>1, <3>1, NumberedByHistory
    <2>2. CASE History(txn'[v].versions, k) # {}
      <3>1. v # w /\ txn'[v] = txn[v]
        BY <1>1, <2>2 DEF History
      <3>2. History(txn[w].versions, k) = {}
        BY <2>2, <3>1, HistoriesApart
      <3>3. History(V, k) = History(versions, k)
            /\ History(V \cup txn[v].versions, k) = History(versions \cup txn[v].versions, k)
        BY <3>2 DEF History
      <3>4. /\ Numbered(versions \cup txn[v].versions, k)
            /\ \A x \in History(versions, k), y \in History(txn[v].versions, k) :
                  x.number < y.number
        BY DEF NumbersInv
      <3> HIDE DEF V
      <3>5. Numbered(V \cup txn[v].versions, k)
        BY <3>3, <3>4, NumberedByHistory
      <3> QED
        BY <3>1, <3>3, <3>4, <3>5
    <2> QED
      BY <2>1, <2>2
  <1> HIDE DEF V
  <1> QED
    BY <1>1, <1>2, <1>3 DEF NumbersInv

\* No other step of a task adds a version.
LEMMA VersionsStay ==
    ASSUME TypeOK, NEW w \in Workers, TaskStep(w), ~VerifyObject(w), ~Commit(w),
           pc'[w] \in {"verify", "commit"}
    PROVE  txn'[w].versions = txn[w].versions
  <1>1. txn[w] \in TxnType
    BY DEF TypeOK
  <1>2. ASSUME NEW s \in FailedStatus, Fail(w, s)
        PROVE  txn'[w].versions = txn[w].versions
    <2>1. txn'[w] = Failed(txn[w], job[w], s)
      BY <1>2 DEF Fail, TypeOK
    <2>2. Failed(txn[w], job[w], s).versions = txn[w].versions
      BY <1>1, <1>2, FailedFacts
    <2> QED
      BY <2>1, <2>2
  <1>3. CASE LocksRefused(w)
    BY <1>2, <1>3 DEF LocksRefused, FailedStatus
  <1>4. CASE Precheck(w)
    BY <1>2, <1>4 DEF Precheck, FailedStatus, TypeOK
  <1>5. CASE BackupAsset(w)
    BY <1>2, <1>5 DEF BackupAsset, FailedStatus, TypeOK
  <1>6. CASE EndRollback(w)
    <2>1. txn'[w] = [WithoutLocks(txn[w]) EXCEPT !.status = RollbackStatus(allGood[w])]
      BY <1>6 DEF EndRollback, TypeOK
    <2> QED
      BY <1>1, <2>1 DEF WithoutLocks, TxnType
  <1>7. CASE BeginVerify(w)
    BY <1>1, <1>7 DEF BeginVerify, TypeOK, TxnType
  <1>8. CASE EndVerify(w)
    <2>1. CASE Fail(w, "verify_failed")
      BY <1>2, <2>1 DEF FailedStatus
    <2>2. CASE ~Fail(w, "verify_failed")
      <3>1. txn'[w] = [WithoutLocks(txn[w]) EXCEPT !.status = "success", !.remediates = TRUE]
        BY <1>8, <2>2 DEF EndVerify, TypeOK
      <3> QED
        BY <1>1, <3>1 DEF WithoutLocks, TxnType
    <2> QED
      BY <2>1, <2>2
  <1>9. CASE AddLock(w) \/ ReplaceLock(w) \/ LockConflict(w) \/ InsertLock(w) \/ LocksAcquired(w)
    BY <1>9 DEF AddLock, ReplaceLock, LockConflict, InsertLock, FlushDue, LocksAcquired, TypeOK
  <1>10. CASE BeginApply(w) \/ ConnectAsset(w) \/ DeployObject(w) \/ BeginRollback(w) \/ RestoreAsset(w)
    BY <1>10 DEF BeginApply, ConnectAsset, DeployObject, BeginRollback, RestoreAsset, TypeOK
  <1>11. CASE LookUpRaises(w) \/ DisconnectRaises(w) \/ Crash(w) \/ DeadlockVictim(w)
    BY <1>11 DEF LookUpRaises, DisconnectRaises, Crash, DeadlockVictim, Abort, CloseSession, TypeOK
  <1>12. ASSUME NEW d \in Deployments, Deliver(w, d)
         PROVE  FALSE
    BY <1>12 DEF Deliver, TypeOK
  <1> QED
    BY <1>3, <1>4, <1>5, <1>6, <1>7, <1>8, <1>9, <1>10, <1>11, <1>12 DEF TaskStep, Step

LEMMA NumbersStep ==
    TypeOK /\ TypeOK' /\ LockInv /\ LocalInv /\ LocalInv' /\ NumbersInv /\ [Next]_vars => NumbersInv'
  <1> SUFFICES ASSUME TypeOK, TypeOK', LockInv, LocalInv, LocalInv', NumbersInv, [Next]_vars
               PROVE  NumbersInv'
    OBVIOUS
  <1>1. ASSUME NEW w \in Workers, TaskStep(w), ~VerifyObject(w), ~ \E v \in Workers : Commit(v)
        PROVE  NumbersInv'
    <2>1. versions' = versions
      BY <1>1, CommittedStays DEF CreateDeploymentJob
    <2>2. pc'[w] \notin {"verify", "commit"} => txn'[w].versions = {}
      BY DEF LocalInv, Local, WritesOwn
    <2>3. txn'[w].versions \in {txn[w].versions, {}}
      BY <1>1, <2>2, VersionsStay
    <2>4. ASSUME NEW v \in Workers
          PROVE  txn'[v].versions \in {txn[v].versions, {}}
      BY <1>1, <2>3, OthersStay DEF Same
    <2> QED
      BY <2>1, <2>4, NumbersStay
  <1>2. ASSUME ~ \E w \in Workers : TaskStep(w)
        PROVE  NumbersInv'
    <2>1. \A v \in Workers : txn'[v] = txn[v]
      BY <1>2, TasksStay DEF Same
    <2>2. ~ \E w \in Workers : Commit(w)
      BY <1>2 DEF TaskStep, Step
    <2>3. versions' = versions
      BY <2>2, CommittedStays DEF CreateDeploymentJob
    <2> QED
      BY <2>1, <2>3, NumbersStay
  <1> QED
    BY <1>1, <1>2, VerifyNumbers, CommitNumbers

LEMMA NumbersInvariant == Spec => []NumbersInv
  <1> QED
    BY TypeCorrect, LockInvariant, LocalInvariant, InitNumbers, NumbersStep, PTL DEF Spec

\* Each history, committed or about to be, has the numbers 1, 2, 3, ...
THEOREM HistoriesAreNumbered == Spec => []HistoryNumbered
  <1>1. ASSUME TypeOK, LockInv, LocalInv, NumbersInv
        PROVE  HistoryNumbered
    <2> DEFINE all == versions \cup UNION {txn[w].versions : w \in Workers}
    <2>1. ASSUME NEW k \in Keys
          PROVE  NumbersOf(all, k) = 1..Cardinality(History(all, k))
      <3>1. CASE \A w \in Workers : History(txn[w].versions, k) = {}
        <4>1. History(all, k) = History(versions, k)
          BY <3>1 DEF History
        <4>2. Numbered(versions, k)
          BY <1>1 DEF NumbersInv
        <4> QED
          BY <4>1, <4>2, NumberedByHistory, NumberedIsCounted
      <3>2. ASSUME NEW w \in Workers, History(txn[w].versions, k) # {}
            PROVE  NumbersOf(all, k) = 1..Cardinality(History(all, k))
        <4>1. \A v \in Workers \ {w} : History(txn[v].versions, k) = {}
          BY <1>1, <3>2, HistoriesApart
        <4>2. History(all, k) = History(versions \cup txn[w].versions, k)
          BY <4>1 DEF History
        <4>3. Numbered(versions \cup txn[w].versions, k)
          BY <1>1 DEF NumbersInv
        <4> QED
          BY <4>2, <4>3, NumberedByHistory, NumberedIsCounted
      <3> QED
        BY <3>1, <3>2
    <2>2. ASSUME NEW k \in Keys, NEW w \in Workers, NEW x \in versions, NEW y \in txn[w].versions,
                 x.key = k, y.key = k
          PROVE  x.number < y.number
      BY <1>1, <2>2 DEF NumbersInv, History
    <2>3. ASSUME NEW k \in Keys, NEW v \in Workers, NEW w \in Workers, v # w
          PROVE  {x \in txn[v].versions : x.key = k} = {} \/ {x \in txn[w].versions : x.key = k} = {}
      BY <1>1, <2>3, HistoriesApart DEF History
    <2>4. ASSUME NEW k \in Keys
          PROVE  {v.number : v \in {x \in all : x.key = k}} = 1..Cardinality({x \in all : x.key = k})
      BY <2>1 DEF NumbersOf, History
    <2> HIDE DEF all
    <2> QED
      BY <2>2, <2>3, <2>4 DEF HistoryNumbered, all
  <1> QED
    BY <1>1, TypeCorrect, LockInvariant, LocalInvariant, NumbersInvariant, PTL

-----------------------------------------------------------------------------
(***************************************************************************)
(* The devices.                                                            *)
(***************************************************************************)

\* Asset a has every item of the backup that w took of it.
GivenBack(w, a) ==
    \A i \in Items : Home[i] = a /\ txn[w].saved[a][i] # Absent => device[i] = txn[w].saved[a][i]

\* What a task has verified or restored is so still, but where somebody else restored a backup.
Vouches(w) ==
    /\ pc[w] = "verify" => \A o \in ObjectsOf(job[w]) :
           o \in SeqRange(todoObjects[w]) \/ ~allGood[w] \/ AssetOf(o) \in touched[w] \/ AsWanted(o)
    /\ pc[w] = "rollback" => \A a \in AssetsOf(job[w]) :
           a \in SeqRange(todoAssets[w]) \/ ~allGood[w] \/ a \in touched[w] \/ GivenBack(w, a)
    /\ pc[w] = "commit" /\ txn[w].status = "success" =>
           \A o \in ObjectsOf(job[w]) : AssetOf(o) \in touched[w] \/ AsWanted(o)
    /\ pc[w] = "commit" /\ txn[w].status = "rolled_back" =>
           \A a \in AssetsOf(job[w]) : a \in touched[w] \/ GivenBack(w, a)

DeviceInv == \A w \in Workers : Vouches(w)

LEMMA TypeInvariant == Spec => []TypeInv
  <1> QED
    BY InitTypeInv, TypeInvStep, PTL DEF Spec

\* The phases in which a task holds the keys of all its assets.
Holding(v) == pc[v] \in LockedPhases \/ (pc[v] = "commit" /\ txn[v].status \in Outcome)

LEMMA HoldingHolds ==
    ASSUME LockInv, LocalInv, NEW v \in Workers, Holding(v)
    PROVE  AssetsOf(job[v]) \subseteq held[v]
  BY DEF LockInv, HoldsAll, LocalInv, Local, HoldsToTheEnd, Holding

\* A step of a task changes its own devices only, and while it holds them.
LEMMA OwnDevices ==
    ASSUME TypeInv, LocalInv, NEW w \in Workers, TaskStep(w), NEW i \in Items,
           device'[i] # device[i]
    PROVE  pc[w] \in LockedPhases /\ Home[i] \in AssetsOf(job[w])
  <1> USE DEF LockedPhases
  <1>1. WorksOnOwn(w)
    BY DEF LocalInv, Local
  <1>2. CASE DeployObject(w)
    <2> DEFINE o == Head(todoObjects[w])
    <2>1. pc[w] = "apply" /\ i = ItemOf[o]
      BY <1>2 DEF DeployObject, TypeInv, TypeOK, Contents
    <2>2. o \in ObjectsOf(job[w])
      <3>1. SeqRange(todoObjects[w]) = {o} \cup SeqRange(Tail(todoObjects[w]))
        BY <1>2, SeqRangeFacts DEF DeployObject, TypeInv, TypeOK
      <3> QED
        BY <1>1, <2>1, <3>1 DEF WorksOnOwn
    <2> QED
      BY <2>1, <2>2 DEF AssetsOf, AssetOf
  <1>3. CASE RestoreAsset(w)
    <2> DEFINE a == Head(todoAssets[w])
    <2>1. pc[w] = "rollback" /\ Home[i] = a
      BY <1>3 DEF RestoreAsset, Merged
    <2>2. a \in SeqRange(todoAssets[w])
      BY <1>3, SeqRangeFacts DEF RestoreAsset, TypeInv, TypeOK
    <2> QED
      BY <1>1, <2>1, <2>2 DEF WorksOnOwn, TypeInv, RollsBackOwn
  <1>4. CASE ~DeployObject(w) /\ ~RestoreAsset(w)
    BY <1>4 DEF TaskStep, Step, AddLock, ReplaceLock, LockConflict, InsertLock, LocksAcquired,
                LocksRefused, Precheck, BackupAsset, BeginApply, ConnectAsset, BeginRollback,
                EndRollback, BeginVerify, VerifyObject, EndVerify, LookUpRaises,
                DisconnectRaises, Commit, Crash, DeadlockVictim, Abort, Deliver
  <1> QED
    BY <1>2, <1>3, <1>4

\* What others do elsewhere, or by hand, leaves what a task vouches for.
LEMMA VouchesStays ==
    ASSUME NEW v \in Workers, Vouches(v), Same(v),
           Holding(v) => /\ touched[v] \subseteq touched'[v]
                         /\ \A i \in Items : Home[i] \in AssetsOf(job[v]) \ touched'[v]
                                             => device'[i] = device[i],
           job[v] \in Deployments \/ ~Holding(v)
    PROVE  Vouches(v)'
  <1>1. CASE ~Holding(v)
    <2>1. pc'[v] \notin {"verify", "rollback"} /\ (pc'[v] = "commit" => txn'[v].status \notin Outcome)
      BY <1>1 DEF Holding, Same, LockedPhases
    <2> QED
      BY <2>1 DEF Vouches, Outcome
  <1>2. CASE Holding(v)
    <2>1. ASSUME NEW o \in ObjectsOf(job[v]), AssetOf(o) \notin touched'[v], AsWanted(o)
          PROVE  AsWanted(o)'
      <3>1. ItemOf[o] \in Items /\ Home[ItemOf[o]] \in AssetsOf(job[v]) \ touched'[v]
        <4>1. o \in Objects
          BY <1>2, ConstantsAssumption, SeqRangeFacts DEF ObjectsOf
        <4> QED
          BY <2>1, <4>1, ObjectFacts DEF AssetsOf, AssetOf
      <3>2. device'[ItemOf[o]] = device[ItemOf[o]]
        BY <1>2, <3>1
      <3> QED
        BY <2>1, <3>2 DEF AsWanted
    <2>2. ASSUME NEW a \in AssetsOf(job[v]), a \notin touched'[v], GivenBack(v, a)
          PROVE  GivenBack(v, a)'
      BY <1>2, <2>2 DEF GivenBack, Same
    <2> QED
      BY <1>2, <2>1, <2>2 DEF Vouches, Same
  <1> QED
    BY <1>1, <1>2

LEMMA InitDevice == Init => DeviceInv
  BY DEF Init, DeviceInv, Vouches

\* A task that has neither verified nor restored vouches for nothing.
LEMMA QuietStep ==
    ASSUME NEW w \in Workers, pc'[w] \notin {"verify", "rollback"},
           pc'[w] = "commit" => txn'[w].status \notin Outcome
    PROVE  Vouches(w)'
  BY DEF Vouches, Outcome

LEMMA VouchesStep ==
    ASSUME TypeInv, TypeOK', LocalInv, NEW w \in Workers, Vouches(w), TaskStep(w)
    PROVE  Vouches(w)'
  <1> USE DEF cursor
  <1>1. ASSUME NEW s \in FailedStatus, Fail(w, s)
        PROVE  Vouches(w)'
    <2>1. txn'[w] = Failed(txn[w], job[w], s) /\ pc'[w] = "commit" /\ txn[w] \in TxnType
      BY <1>1 DEF Fail, TypeInv, TypeOK
    <2>2. Failed(txn[w], job[w], s).status \in {"unchanged", s}
      BY <1>1, <2>1, FailedFacts
    <2>3. txn'[w].status \notin Outcome
      BY <2>1, <2>2 DEF FailedStatus, Outcome
    <2> QED
      BY <2>1, <2>3, QuietStep
  <1>2. CASE AddLock(w) \/ ReplaceLock(w) \/ LockConflict(w) \/ InsertLock(w) \/ LocksAcquired(w)
    <2>1. pc'[w] \in {"acquire", "conflict", "precheck"}
      BY <1>2 DEF AddLock, ReplaceLock, LockConflict, InsertLock, FlushDue, LocksAcquired, TypeInv,
                  TypeOK
    <2> QED
      BY <2>1, QuietStep
  <1>3. CASE LocksRefused(w)
    BY <1>1, <1>3 DEF LocksRefused, FailedStatus
  <1>4. CASE Precheck(w) \/ BackupAsset(w)
    <2>1. \/ pc'[w] = "backup"
          \/ Fail(w, "precheck_failed") \/ Fail(w, "backup_failed")
      BY <1>4 DEF Precheck, BackupAsset, TypeInv, TypeOK
    <2> QED
      BY <1>1, <2>1, QuietStep DEF FailedStatus
  <1>5. CASE BeginApply(w) \/ ConnectAsset(w) \/ DeployObject(w)
    <2>1. pc'[w] \in {"apply", "abandon"}
      BY <1>5 DEF BeginApply, ConnectAsset, DeployObject, TypeInv, TypeOK
    <2> QED
      BY <2>1, QuietStep
  <1>6. CASE BeginRollback(w)
    <2>1. /\ pc[w] = "abandon" /\ pc'[w] = "rollback"
          /\ todoAssets'[w] = order[w] /\ UNCHANGED <<job, order>>
      BY <1>6 DEF BeginRollback, TypeInv, TypeOK
    <2>2. SeqRange(todoAssets'[w]) = AssetsOf(job[w])
      BY <2>1 DEF LocalInv, Local, WorksOnOwn
    <2> QED
      BY <2>1, <2>2 DEF Vouches
  <1>7. CASE RestoreAsset(w)
    <2> DEFINE a == Head(todoAssets[w])
    <2>1. /\ pc[w] = "rollback" /\ UNCHANGED <<pc, job, txn, touched>>
          /\ todoAssets[w] # <<>> /\ todoAssets'[w] = Tail(todoAssets[w])
          /\ \/ device' = Merged(txn[w].saved[a], a) /\ allGood'[w] = allGood[w]
             \/ ~allGood'[w]
      BY <1>7 DEF RestoreAsset, NotGood, TypeInv, TypeOK
    <2>2. SeqRange(todoAssets[w]) = {a} \cup SeqRange(Tail(todoAssets[w]))
      BY <2>1, SeqRangeFacts DEF TypeInv, TypeOK
    <2>3. CASE ~allGood'[w]
      BY <2>1, <2>3 DEF Vouches
    <2>4. CASE device' = Merged(txn[w].saved[a], a) /\ allGood'[w] = allGood[w]
      <3>1. ASSUME NEW b, b = a \/ GivenBack(w, b)
            PROVE  GivenBack(w, b)'
        <4> SUFFICES ASSUME NEW i \in Items, Home[i] = b, txn[w].saved[b][i] # Absent
                     PROVE  device'[i] = txn[w].saved[b][i]
          BY <2>1 DEF GivenBack
        <4>1. device'[i] = IF Home[i] = a /\ txn[w].saved[a][i] # Absent THEN txn[w].saved[a][i]
                           ELSE device[i]
          BY <2>4 DEF Merged
        <4> QED
          BY <3>1, <4>1 DEF GivenBack
      <3>2. ASSUME NEW b \in AssetsOf(job[w]), b \notin SeqRange(todoAssets'[w]), allGood'[w],
                   b \notin touched[w]
            PROVE  GivenBack(w, b)'
        <4>1. b = a \/ b \notin SeqRange(todoAssets[w])
          BY <2>1, <2>2, <3>2
        <4>2. b = a \/ GivenBack(w, b)
          BY <2>1, <2>4, <3>2, <4>1 DEF Vouches
        <4> QED
          BY <3>1, <4>2
      <3> QED
        BY <2>1, <3>2 DEF Vouches
    <2> QED
      BY <2>1, <2>3, <2>4
  <1>8. CASE EndRollback(w)
    <2>1. /\ pc[w] = "rollback" /\ pc'[w] = "commit" /\ UNCHANGED <<job, device, touched>>
          /\ todoAssets[w] = <<>> /\ txn[w] \in TxnType
          /\ txn'[w] = [WithoutLocks(txn[w]) EXCEPT !.status = RollbackStatus(allGood[w])]
      BY <1>8 DEF EndRollback, TypeInv, TypeOK
    <2>2. /\ txn'[w].saved = txn[w].saved
          /\ txn'[w].status = IF allGood[w] THEN "rolled_back" ELSE "rollback_failed"
      BY <2>1 DEF WithoutLocks, RollbackStatus, TxnType
    <2>3. CASE ~allGood[w]
      BY <2>1, <2>2, <2>3, QuietStep DEF Outcome
    <2>4. CASE allGood[w]
      <3>1. SeqRange(todoAssets[w]) = {}
        BY <2>1, SeqRangeFacts, EmptySeq
      <3>2. \A b \in AssetsOf(job[w]) : b \in touched[w] \/ GivenBack(w, b)
        BY <2>1, <2>4, <3>1 DEF Vouches
      <3>3. \A b : GivenBack(w, b) => GivenBack(w, b)'
        BY <2>1, <2>2 DEF GivenBack
      <3> QED
        BY <2>1, <2>2, <2>4, <3>2, <3>3 DEF Vouches
    <2> QED
      BY <2>3, <2>4
  <1>9. CASE BeginVerify(w)
    <2>1. pc'[w] = "verify" /\ todoObjects'[w] = Plan[job[w]] /\ UNCHANGED job
      BY <1>9 DEF BeginVerify, TypeInv, TypeOK
    <2> QED
      BY <2>1 DEF Vouches, ObjectsOf
  <1>10. CASE VerifyObject(w)
    <2> DEFINE o == Head(todoObjects[w])
    <2>1. /\ pc[w] = "verify" /\ UNCHANGED <<pc, job, device, touched>>
          /\ todoObjects[w] # <<>> /\ todoObjects'[w] = Tail(todoObjects[w])
          /\ \/ AsWanted(o) /\ allGood'[w] = allGood[w]
             \/ ~allGood'[w]
      BY <1>10 DEF VerifyObject, NotGood, TypeInv, TypeOK
    <2>2. SeqRange(todoObjects[w]) = {o} \cup SeqRange(Tail(todoObjects[w]))
      BY <2>1, SeqRangeFacts DEF TypeInv, TypeOK
    <2>3. \A p : AsWanted(p) => AsWanted(p)'
      BY <2>1 DEF AsWanted
    <2>4. ASSUME NEW p \in ObjectsOf(job[w]), p \notin SeqRange(todoObjects'[w]), allGood'[w],
                 AssetOf(p) \notin touched[w]
          PROVE  AsWanted(p)
      <3>1. AsWanted(o) /\ allGood[w]
        BY <2>1, <2>4
      <3>2. CASE p = o
        BY <3>1, <3>2
      <3>3. CASE p # o
        BY <2>1, <2>2, <2>4, <3>1, <3>3 DEF Vouches
      <3> QED
        BY <3>2, <3>3
    <2> QED
      BY <2>1, <2>3, <2>4 DEF Vouches
  <1>11. CASE EndVerify(w)
    <2>1. pc[w] = "verify" /\ todoObjects[w] = <<>> /\ UNCHANGED <<job, device, touched>>
      BY <1>11 DEF EndVerify
    <2>2. CASE Fail(w, "verify_failed")
      BY <1>1, <2>2 DEF FailedStatus
    <2>3. CASE ~Fail(w, "verify_failed")
      <3>1. /\ allGood[w] /\ pc'[w] = "commit" /\ txn[w] \in TxnType
            /\ txn'[w] = [WithoutLocks(txn[w]) EXCEPT !.status = "success", !.remediates = TRUE]
        BY <1>11, <2>3 DEF EndVerify, TypeInv, TypeOK
      <3>2. txn'[w].status = "success"
        BY <3>1 DEF WithoutLocks, TxnType
      <3>3. SeqRange(todoObjects[w]) = {}
        BY <2>1, SeqRangeFacts, EmptySeq
      <3>4. \A p \in ObjectsOf(job[w]) : AssetOf(p) \in touched[w] \/ AsWanted(p)
        BY <2>1, <3>1, <3>3 DEF Vouches
      <3>5. \A p : AsWanted(p) => AsWanted(p)'
        BY <2>1 DEF AsWanted
      <3> QED
        BY <2>1, <3>1, <3>2, <3>4, <3>5 DEF Vouches
    <2> QED
      BY <2>2, <2>3
  <1>12. CASE LookUpRaises(w) \/ DisconnectRaises(w) \/ Commit(w) \/ Crash(w) \/ DeadlockVictim(w)
    <2>1. pc'[w] = "idle"
      BY <1>12 DEF LookUpRaises, DisconnectRaises, Commit, Crash, DeadlockVictim, Abort,
                   CloseSession, TypeInv, TypeOK
    <2> QED
      BY <2>1, QuietStep
  <1>13. ASSUME NEW d \in Deployments, Deliver(w, d)
         PROVE  Vouches(w)'
    <2>1. pc'[w] = "acquire"
      BY <1>13 DEF Deliver, TypeInv, TypeOK
    <2> QED
      BY <2>1, QuietStep
  <1> QED
    BY <1>2, <1>3, <1>4, <1>5, <1>6, <1>7, <1>8, <1>9, <1>10, <1>11, <1>12, <1>13 DEF TaskStep, Step

LEMMA DeviceStep ==
    TypeInv /\ TypeOK' /\ LockInv /\ LocalInv /\ DeviceInv /\ [Next]_vars => DeviceInv'
  <1> SUFFICES ASSUME TypeInv, TypeOK', LockInv, LocalInv, DeviceInv, [Next]_vars,
                      NEW v \in Workers
               PROVE  Vouches(v)'
    BY DEF DeviceInv
  <1>1. Vouches(v)
    BY DEF DeviceInv
  <1>2. job[v] \in Deployments \/ ~Holding(v)
    BY DEF TypeInv, TypeOK, Holding, LockedPhases
  <1>3. ASSUME NEW w \in Workers, TaskStep(w)
        PROVE  Vouches(v)'
    <2>1. CASE v = w
      BY <1>1, <1>3, <2>1, VouchesStep
    <2>2. CASE v # w
      <3>1. Same(v) /\ touched'[v] = touched[v]
        BY <1>3, <2>2, OthersStay DEF TypeInv
      <3>2. ASSUME Holding(v), NEW i \in Items, Home[i] \in AssetsOf(job[v])
            PROVE  device'[i] = device[i]
        <4>1. Home[i] \in held[v]
          BY <3>2, HoldingHolds
        <4>2. pc[w] \in LockedPhases /\ Home[i] \in AssetsOf(job[w]) => Home[i] \in held[w]
          BY DEF LockInv, HoldsAll
        <4>3. Home[i] \notin held[w]
          BY <2>2, <4>1 DEF LockInv, HeldDisjoint
        <4> QED
          BY <1>3, <4>2, <4>3, OwnDevices
      <3> QED
        BY <1>1, <1>2, <3>1, <3>2, VouchesStays
    <2> QED
      BY <2>1, <2>2
  <1>4. CASE ~ \E w \in Workers : TaskStep(w)
    <2>1. Same(v)
      BY <1>4, TasksStay
    <2>2. ASSUME Holding(v)
          PROVE  /\ touched[v] \subseteq touched'[v]
                 /\ \A i \in Items : Home[i] \in AssetsOf(job[v]) \ touched'[v]
                                     => device'[i] = device[i]
      <3>1. pc[v] # "idle"
        BY <2>2 DEF Holding, LockedPhases
      <3>2. ASSUME NEW b \in backups, RestoreByHand(b)
            PROVE  /\ touched[v] \subseteq touched'[v]
                   /\ \A i \in Items : Home[i] \in AssetsOf(job[v]) \ touched'[v]
                                       => device'[i] = device[i]
        <4>1. touched'[v] = touched[v] \cup {b.asset} /\ device' = Merged(b.content, b.asset)
          BY <3>1, <3>2 DEF RestoreByHand
        <4> QED
          BY <4>1 DEF Merged
      <3>3. \/ \E d \in Deployments : CreateDeploymentJob(d) \/ StartDeployment(d)
            \/ \E b \in backups : RestoreByHand(b)
            \/ \E a \in Assets : Expire(a)
            \/ UNCHANGED vars
        BY <1>4 DEF Next, TaskStep
      <3>4. CASE \/ \E d \in Deployments : CreateDeploymentJob(d) \/ StartDeployment(d)
                 \/ \E a \in Assets : Expire(a)
                 \/ UNCHANGED vars
        BY <3>4 DEF CreateDeploymentJob, StartDeployment, Expire, vars
      <3> QED
        BY <3>2, <3>3, <3>4
    <2> QED
      BY <1>1, <1>2, <2>1, <2>2, VouchesStays
  <1> QED
    BY <1>3, <1>4

LEMMA DeviceInvariant == Spec => []DeviceInv
  <1> QED
    BY TypeInvariant, TypeCorrect, LockInvariant, LocalInvariant, InitDevice, DeviceStep, PTL DEF Spec

\* What is about to be reported a success is on the devices.
THEOREM SuccessIsApplied == Spec => []SuccessMeansApplied
  <1>1. DeviceInv => SuccessMeansApplied
    BY DEF DeviceInv, Vouches, SuccessMeansApplied, Undisturbed
  <1> QED
    BY <1>1, DeviceInvariant, PTL

\* What is about to be reported rolled back has what its backup has.
THEOREM RollbackGivesBack == Spec => []RollbackRestores
  <1>1. DeviceInv => RollbackRestores
    BY DEF DeviceInv, Vouches, RollbackRestores, Undisturbed, GivenBack
  <1> QED
    BY <1>1, DeviceInvariant, PTL
=============================================================================
