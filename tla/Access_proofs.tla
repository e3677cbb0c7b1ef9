---------------------------- MODULE Access_proofs ----------------------------
(***************************************************************************)
(* Proofs about Access for any users, roles, seeds and numbers of          *)
(* overlapping requests: type correctness, that the audit log is one       *)
(* chain, that the lockout follows the failures and holds, and that every  *)
(* account and role created is audited once.                               *)
(***************************************************************************)
EXTENDS Access, SequenceTheorems, FiniteSetTheorems, TLAPS

RequestType ==
    [pc : {"idle", "insert", "ready", "stamp", "commit"},
     op : {"none", "login", "create_user", "create_role"},
     action : {"none", "LOGIN_FAILED", "LOGIN_SUCCESS", "USER_CREATED", "ROLE_CREATED"},
     actor : Users \cup {None}, name : Users \cup Roles \cup {None},
     given : SUBSET (Roles \cup Codes), read : Row, new : Row, now : Nat, prev : Nat, at : Nat]

\* What a request in progress carries, by its operation.
IsLogin(r) == /\ r.op = "login" /\ r.action \in {"LOGIN_FAILED", "LOGIN_SUCCESS"}
              /\ r.name \in Users /\ r.pc # "insert"
IsCreateUser(r) == /\ r.op = "create_user" /\ r.action = "USER_CREATED"
                   /\ r.actor \in Users /\ r.name \in Users /\ r.given \subseteq Roles
IsCreateRole(r) == /\ r.op = "create_role" /\ r.action = "ROLE_CREATED"
                   /\ r.actor \in Users /\ r.name \in Roles /\ r.given \subseteq Codes
WellFormed(r) == \/ r = Idle
                 \/ r.pc # "idle" /\ (IsLogin(r) \/ IsCreateUser(r) \/ IsCreateRole(r))

Typed ==
    /\ TypeOK
    /\ session \in [Sessions -> RequestType]
    /\ misses \in [Users -> [n : Nat, last : Nat]]
    /\ \A s \in Sessions : WellFormed(session[s])

LEMMA IdleType == Idle \in RequestType /\ Idle.pc = "idle" /\ NoAccount \in Row
  BY DEF Idle, RequestType, NoAccount, Row

\* The requests that begin, and what they carry.
LoginRequest(a, u, row, new, now) ==
    [Idle EXCEPT !.pc = "ready", !.op = "login", !.action = a, !.name = u,
                 !.actor = IF a = "LOGIN_SUCCESS" THEN u ELSE None,
                 !.read = row, !.new = new, !.now = now]
UserRequest(a, u, given) ==
    [Idle EXCEPT !.pc = "insert", !.op = "create_user", !.action = "USER_CREATED", !.actor = a,
                 !.name = u, !.given = given]
RoleRequest(a, x, given) ==
    [Idle EXCEPT !.pc = "insert", !.op = "create_role", !.action = "ROLE_CREATED", !.actor = a,
                 !.name = x, !.given = given]

LEMMA LoginType ==
    ASSUME NEW a \in {"LOGIN_FAILED", "LOGIN_SUCCESS"}, NEW u \in Users, NEW row \in Row,
           NEW new \in Row, NEW now \in Nat
    PROVE  LET r == LoginRequest(a, u, row, new, now)
           IN  /\ r \in RequestType /\ IsLogin(r) /\ r.pc = "ready" /\ r.action = a /\ r.name = u
               /\ r.read = row /\ r.new = new /\ r.now = now
  BY IdleType DEF RequestType, IsLogin, LoginRequest

LEMMA CreateUserType ==
    ASSUME NEW a \in Users, NEW u \in Users, NEW given \in SUBSET Roles
    PROVE  LET r == UserRequest(a, u, given)
           IN  r \in RequestType /\ IsCreateUser(r) /\ r.pc = "insert" /\ r.actor = a
  BY IdleType DEF RequestType, IsCreateUser, UserRequest

LEMMA CreateRoleType ==
    ASSUME NEW a \in Users, NEW x \in Roles, NEW given \in SUBSET Codes
    PROVE  LET r == RoleRequest(a, x, given)
           IN  r \in RequestType /\ IsCreateRole(r) /\ r.pc = "insert" /\ r.actor = a
  BY IdleType DEF RequestType, IsCreateRole, RoleRequest

\* The row that a wrong password writes.
LEMMA CountedType ==
    ASSUME NEW row \in Row, clock \in Nat
    PROVE  /\ Counted(row) \in Row
           /\ Counted(row).fails = row.fails + 1
           /\ Counted(row).until = IF row.fails + 1 >= MaxAttempts THEN clock + LockoutDuration
                                                                   ELSE row.until
  <1> DEFINE until == IF row.fails + 1 >= MaxAttempts THEN clock + LockoutDuration ELSE row.until
  <1>1. row.fails + 1 \in Nat /\ until \in Nat /\ row.fails \in Nat
    BY LimitAssumption DEF Row
  <1>2. Counted(row) = [row EXCEPT !.fails = row.fails + 1, !.until = until]
    BY DEF Counted
  <1> HIDE DEF until
  <1>3. Counted(row) \in Row /\ Counted(row).fails = row.fails + 1 /\ Counted(row).until = until
    BY <1>1, <1>2 DEF Row
  <1> QED
    BY <1>3 DEF until

\* A request is one of three: a login of an account, a login of no account, or a creation.
LoginOf(r, u, row) ==
    /\ r \in RequestType /\ IsLogin(r) /\ r.pc = "ready" /\ r.name = u /\ r.read = row /\ r.now = clock
    /\ \/ r.action = "LOGIN_FAILED" /\ row.exists /\ r.new = Counted(row)
       \/ r.action = "LOGIN_SUCCESS" /\ row.exists /\ r.new.fails = 0 /\ r.new.until = 0
       \/ ~row.exists

LEMMA BeginOpens ==
    ASSUME Typed, NEW s \in Sessions, Begin(s)
    PROVE  \E r \in RequestType :
              /\ Open(s, r) /\ r.pc # "idle" /\ WellFormed(r)
              /\ \/ IsLogin(r) /\ r.pc = "ready" /\ LoginOf(r, r.name, account[r.name])
                    /\ (account[r.name].exists => account[r.name].until <= clock)
                 \/ IsCreateUser(r) /\ r.pc = "insert" /\ account[r.actor].exists
                    /\ HasPermission(r.actor, "user.create")
                 \/ IsCreateRole(r) /\ r.pc = "insert" /\ account[r.actor].exists
                    /\ HasPermission(r.actor, "role.manage")
  <1>1. ASSUME NEW u \in Users, NEW right \in BOOLEAN, BeginLogin(s, u, right)
        PROVE  \E r \in RequestType :
                  /\ Open(s, r) /\ IsLogin(r) /\ r.pc = "ready"
                  /\ LoginOf(r, r.name, account[r.name])
                  /\ (account[r.name].exists => account[r.name].until <= clock)
    <2> DEFINE row == account[u]
               request(action, new) == LoginRequest(action, u, row, new, clock)
               reset == [row EXCEPT !.fails = 0, !.until = 0]
    <2>0. row \in Row /\ clock \in Nat /\ Counted(row) \in Row
      BY CountedType DEF Typed, TypeOK
    <2>1. reset \in Row /\ reset.fails = 0 /\ reset.until = 0
      BY <2>0 DEF Row
    <2>2. PICK action \in {"LOGIN_FAILED", "LOGIN_SUCCESS"}, new \in Row :
             /\ Open(s, request(action, new))
             /\ \/ action = "LOGIN_FAILED" /\ row.exists /\ new = Counted(row)
                \/ action = "LOGIN_SUCCESS" /\ row.exists /\ new.fails = 0 /\ new.until = 0
                \/ ~row.exists
             /\ row.exists => ~LockedOut(row)
      BY <1>1, <2>0, <2>1 DEF BeginLogin, LoginRequest
    <2> DEFINE r == request(action, new)
    <2>3. /\ r \in RequestType /\ IsLogin(r) /\ r.pc = "ready" /\ r.action = action /\ r.name = u
          /\ r.read = row /\ r.new = new /\ r.now = clock
      BY <2>0, LoginType
    <2>4. row.exists => row.until <= clock
      BY <2>0, <2>2 DEF LockedOut, Row
    <2>5. Open(s, r)
      BY <2>2
    <2> HIDE DEF r
    <2>6. LoginOf(r, u, row)
      BY <2>2, <2>3 DEF LoginOf
    <2> QED
      BY <2>3, <2>4, <2>5, <2>6
  <1>2. ASSUME NEW a \in Users, NEW u \in Users, NEW wanted \in RoleLists,
               BeginCreateUser(s, a, u, wanted)
        PROVE  \E r \in RequestType :
                  /\ Open(s, r) /\ IsCreateUser(r) /\ r.pc = "insert" /\ account[r.actor].exists
                  /\ HasPermission(r.actor, "user.create")
    <2>1. wanted \cap roles \in SUBSET Roles
      BY SeedAssumption
    <2> DEFINE r == UserRequest(a, u, wanted \cap roles)
    <2>2. r \in RequestType /\ IsCreateUser(r) /\ r.pc = "insert" /\ r.actor = a
      BY <2>1, CreateUserType
    <2>3. Open(s, r) /\ account[a].exists /\ HasPermission(a, "user.create")
      BY <1>2 DEF BeginCreateUser, UserRequest
    <2> HIDE DEF r
    <2> QED
      BY <2>2, <2>3
  <1>3. ASSUME NEW a \in Users, NEW x \in Roles, NEW codes \in CodeLists,
               BeginCreateRole(s, a, x, codes)
        PROVE  \E r \in RequestType :
                  /\ Open(s, r) /\ IsCreateRole(r) /\ r.pc = "insert" /\ account[r.actor].exists
                  /\ HasPermission(r.actor, "role.manage")
    <2>1. codes \in SUBSET Codes
      BY SeedAssumption
    <2> DEFINE r == RoleRequest(a, x, codes)
    <2>2. r \in RequestType /\ IsCreateRole(r) /\ r.pc = "insert" /\ r.actor = a
      BY <2>1, CreateRoleType
    <2>3. Open(s, r) /\ account[a].exists /\ HasPermission(a, "role.manage")
      BY <1>3 DEF BeginCreateRole, RoleRequest
    <2> HIDE DEF r
    <2> QED
      BY <2>2, <2>3
  <1> QED
    BY <1>1, <1>2, <1>3 DEF Begin, WellFormed

LEMMA InitTyped == Init => Typed
  <1> SUFFICES ASSUME Init
               PROVE  Typed
    OBVIOUS
  <1> DEFINE first(u) == [NoAccount EXCEPT !.exists = u \in SeedUsers]
  <1>1. ASSUME NEW u \in Users
        PROVE  first(u) \in Row
    <2>1. \A b \in BOOLEAN : [NoAccount EXCEPT !.exists = b] \in Row
      BY IdleType DEF Row
    <2>2. (u \in SeedUsers) \in BOOLEAN
      OBVIOUS
    <2> QED
      BY <2>1, <2>2
  <1>2. account \in [Users -> Row]
    BY <1>1 DEF Init
  <1>3. session \in [Sessions -> RequestType] /\ \A s \in Sessions : session[s] = Idle
    BY IdleType DEF Init
  <1>4. misses \in [Users -> [n : Nat, last : Nat]]
    BY DEF Init
  <1>5. \A s \in Sessions : session[s].pc = "idle" /\ chain # s
    BY <1>3, IdleType, NoneAssumption DEF Init
  <1>6. assigned \in [Users -> SUBSET Roles] /\ roles \subseteq Roles /\ grants \in [Roles -> SUBSET Codes]
    BY SeedAssumption DEF Init
  <1>7. <<>> \in Seq(Event)
    OBVIOUS
  <1>8. events \in Seq(Event) /\ clock \in Nat /\ stepped \in BOOLEAN /\ overlapped \subseteq Users
    BY <1>7 DEF Init
  <1>9. TypeOK
    BY <1>2, <1>5, <1>6, <1>8 DEF TypeOK
  <1> QED
    BY <1>3, <1>4, <1>9 DEF Typed, WellFormed

\* What a commit writes to an account has the type of a row.
LEMMA WrittenType ==
    ASSUME NEW row \in Row, NEW r \in RequestType
    PROVE  /\ Written(row, r) \in Row /\ Written(row, r).exists = row.exists
           /\ Written(row, r).fails = IF r.new.fails = r.read.fails THEN row.fails ELSE r.new.fails
           /\ Written(row, r).until = IF r.new.until = r.read.until THEN row.until ELSE r.new.until
  <1> DEFINE fails == IF r.new.fails = r.read.fails THEN row.fails ELSE r.new.fails
             until == IF r.new.until = r.read.until THEN row.until ELSE r.new.until
  <1>1. fails \in Nat /\ until \in Nat
    BY DEF RequestType, Row
  <1>2. Written(row, r) = [row EXCEPT !.fails = fails, !.until = until]
    BY DEF Written
  <1> HIDE DEF fails, until
  <1>3. /\ Written(row, r) \in Row /\ Written(row, r).exists = row.exists
        /\ Written(row, r).fails = fails /\ Written(row, r).until = until
    BY <1>1, <1>2 DEF Row
  <1> QED
    BY <1>3 DEF fails, until

LEMMA AnsweredType ==
    ASSUME NEW u \in Users, NEW r \in RequestType, Typed
    PROVE  Answered(u, r) \in [n : Nat, last : Nat]
  BY DEF Answered, RequestType, Typed

LEMMA EventType ==
    ASSUME NEW r \in RequestType, WellFormed(r), r.pc # "idle"
    PROVE  EventOf(r) \in Event
  BY IdleType DEF EventOf, Event, RequestType, WellFormed, IsLogin, IsCreateUser, IsCreateRole

\* The requests, and the lock's holder, after request s has changed.
LEMMA SessionType ==
    ASSUME Typed, NEW s \in Sessions, NEW r \in RequestType, WellFormed(r),
           session' = [session EXCEPT ![s] = r],
           \/ chain' = chain /\ (session[s].pc \in {"stamp", "commit"} <=> r.pc \in {"stamp", "commit"})
           \/ chain' = s /\ chain = None /\ r.pc \in {"stamp", "commit"}
           \/ chain' = Released(s) /\ r.pc \notin {"stamp", "commit"}
    PROVE  /\ session' \in [Sessions -> RequestType]
           /\ \A t \in Sessions : WellFormed(session'[t])
           /\ \A t \in Sessions : session'[t].pc \in {"idle", "insert", "ready", "stamp", "commit"}
           /\ \A t \in Sessions : chain' = t <=> session'[t].pc \in {"stamp", "commit"}
  <1>1. session' \in [Sessions -> RequestType] /\ \A t \in Sessions : WellFormed(session'[t])
    BY DEF Typed
  <1>2. \A t \in Sessions : session'[t].pc \in {"idle", "insert", "ready", "stamp", "commit"}
    BY <1>1 DEF RequestType
  <1>3. \A t \in Sessions : chain' = t <=> session'[t].pc \in {"stamp", "commit"}
    BY NoneAssumption DEF Typed, TypeOK, Released
  <1> QED
    BY <1>1, <1>2, <1>3

\* What a commit does to the accounts, the links and the history, by the kind of request.
LEMMA CommitKinds ==
    ASSUME Typed, NEW s \in Sessions, Commit(s)
    PROVE  LET r == session[s]
           IN  \/ /\ IsLogin(r) /\ r.read.exists
                  /\ account' = [account EXCEPT ![r.name] = Written(account[r.name], r)]
                  /\ misses' = [misses EXCEPT ![r.name] = Answered(r.name, r)]
                  /\ overlapped' = IF account[r.name] = r.read THEN overlapped
                                                               ELSE overlapped \cup {r.name}
                  /\ UNCHANGED <<assigned, roles, grants>>
               \/ /\ IsLogin(r) /\ ~r.read.exists
                  /\ UNCHANGED <<account, misses, overlapped, assigned, roles, grants>>
               \/ /\ IsCreateUser(r)
                  /\ account' = [account EXCEPT ![r.name] = [NoAccount EXCEPT !.exists = TRUE]]
                  /\ assigned' = [assigned EXCEPT ![r.name] = r.given]
                  /\ UNCHANGED <<misses, overlapped, roles, grants>>
               \/ /\ IsCreateRole(r)
                  /\ roles' = roles \cup {r.name}
                  /\ grants' = [grants EXCEPT ![r.name] = r.given]
                  /\ UNCHANGED <<account, misses, overlapped, assigned>>
  <1> DEFINE r == session[s]
  <1>1. WellFormed(r) /\ r.pc = "commit"
    BY DEF Typed, Commit
  <1>2. IsLogin(r) \/ IsCreateUser(r) \/ IsCreateRole(r)
    BY <1>1, IdleType DEF WellFormed
  <1>3. CASE IsLogin(r)
    BY <1>3 DEF Commit, WritesAccount, IsLogin
  <1>4. CASE IsCreateUser(r)
    BY <1>4 DEF Commit, WritesAccount, IsCreateUser
  <1>5. CASE IsCreateRole(r)
    BY <1>5 DEF Commit, WritesAccount, IsCreateRole
  <1> QED
    BY <1>2, <1>3, <1>4, <1>5

LEMMA CommitTyped ==
    ASSUME Typed, NEW s \in Sessions, Commit(s)
    PROVE  Typed'
  <1> DEFINE r == session[s]
  <1>1. r \in RequestType /\ WellFormed(r) /\ r.pc = "commit"
    BY DEF Typed, Commit
  <1>2. [NoAccount EXCEPT !.exists = TRUE] \in Row
    BY IdleType DEF Row
  <1>3. /\ account' \in [Users -> Row] /\ assigned' \in [Users -> SUBSET Roles] /\ roles' \subseteq Roles
        /\ grants' \in [Roles -> SUBSET Codes] /\ misses' \in [Users -> [n : Nat, last : Nat]]
        /\ overlapped' \subseteq Users
    <2>1. CASE /\ IsLogin(r) /\ r.read.exists
               /\ account' = [account EXCEPT ![r.name] = Written(account[r.name], r)]
               /\ misses' = [misses EXCEPT ![r.name] = Answered(r.name, r)]
               /\ overlapped' = IF account[r.name] = r.read THEN overlapped
                                                            ELSE overlapped \cup {r.name}
               /\ UNCHANGED <<assigned, roles, grants>>
      <3>1. r.name \in Users
        BY <2>1 DEF IsLogin
      <3>2. account[r.name] \in Row
        BY <3>1 DEF Typed, TypeOK
      <3>3. Written(account[r.name], r) \in Row /\ Answered(r.name, r) \in [n : Nat, last : Nat]
        BY <1>1, <3>1, <3>2, WrittenType, AnsweredType
      <3> QED
        BY <2>1, <3>1, <3>3 DEF Typed, TypeOK
    <2>2. CASE /\ IsCreateUser(r)
               /\ account' = [account EXCEPT ![r.name] = [NoAccount EXCEPT !.exists = TRUE]]
               /\ assigned' = [assigned EXCEPT ![r.name] = r.given]
               /\ UNCHANGED <<misses, overlapped, roles, grants>>
      BY <1>2, <2>2 DEF Typed, TypeOK, IsCreateUser
    <2>3. CASE /\ IsCreateRole(r)
               /\ roles' = roles \cup {r.name}
               /\ grants' = [grants EXCEPT ![r.name] = r.given]
               /\ UNCHANGED <<account, misses, overlapped, assigned>>
      BY <2>3 DEF Typed, TypeOK, IsCreateRole
    <2> QED
      BY CommitKinds, <2>1, <2>2, <2>3 DEF Typed, TypeOK
  <1>4. /\ session' \in [Sessions -> RequestType]
        /\ \A t \in Sessions : WellFormed(session'[t])
        /\ \A t \in Sessions : session'[t].pc \in {"idle", "insert", "ready", "stamp", "commit"}
        /\ \A t \in Sessions : chain' = t <=> session'[t].pc \in {"stamp", "commit"}
    BY IdleType, SessionType DEF Commit, WellFormed
  <1>5. events' \in Seq(Event) /\ clock' \in Nat /\ stepped' \in BOOLEAN
    BY <1>1, EventType DEF Typed, TypeOK, Commit
  <1> QED
    BY <1>3, <1>4, <1>5 DEF Typed, TypeOK

\* A step that changes one request and perhaps the lock.
Moved(s, r) ==
    /\ session' = [session EXCEPT ![s] = r]
    /\ UNCHANGED <<account, assigned, roles, grants, events, clock, stepped, overlapped, misses>>

LEMMA MovedTyped ==
    ASSUME Typed, NEW s \in Sessions, NEW r \in RequestType, WellFormed(r), Moved(s, r),
           \/ chain' = chain /\ (session[s].pc \in {"stamp", "commit"} <=> r.pc \in {"stamp", "commit"})
           \/ chain' = s /\ chain = None /\ r.pc \in {"stamp", "commit"}
           \/ chain' = Released(s) /\ r.pc \notin {"stamp", "commit"}
    PROVE  Typed'
  <1>1. /\ session' \in [Sessions -> RequestType]
        /\ \A t \in Sessions : WellFormed(session'[t])
        /\ \A t \in Sessions : session'[t].pc \in {"idle", "insert", "ready", "stamp", "commit"}
        /\ \A t \in Sessions : chain' = t <=> session'[t].pc \in {"stamp", "commit"}
    BY SessionType DEF Moved
  <1> QED
    BY <1>1 DEF Typed, TypeOK, Moved

\* Every step but a commit and those of the clock moves one request: it begins, it holds the
\* name it inserts, it holds the lock, it has chained its event, or it ends.
Began(s, r) ==
    /\ session[s].pc = "idle" /\ chain' = chain
    /\ r.pc # "idle" /\ WellFormed(r)
    /\ \/ IsLogin(r) /\ r.pc = "ready" /\ LoginOf(r, r.name, account[r.name])
          /\ (account[r.name].exists => account[r.name].until <= clock)
       \/ IsCreateUser(r) /\ r.pc = "insert" /\ account[r.actor].exists
          /\ HasPermission(r.actor, "user.create")
       \/ IsCreateRole(r) /\ r.pc = "insert" /\ account[r.actor].exists
          /\ HasPermission(r.actor, "role.manage")
Inserted(s, r) ==
    /\ session[s].pc = "insert" /\ chain' = chain /\ r = [session[s] EXCEPT !.pc = "ready"]
    /\ ~HeldElsewhere(s) /\ ~Taken(session[s])
Locked(s, r) ==
    session[s].pc = "ready" /\ chain = None /\ chain' = s /\ r = [session[s] EXCEPT !.pc = "stamp"]
Appended(s, r) ==
    /\ session[s].pc = "stamp" /\ chain' = chain
    /\ \E last \in LastEvents : r = [session[s] EXCEPT !.pc = "commit", !.prev = last, !.at = clock]
Ended(s, r) ==
    r = Idle /\ chain' = Released(s)

LEMMA StepKinds ==
    ASSUME Typed, Next
    PROVE  \/ \E s \in Sessions, r \in RequestType :
                 /\ Moved(s, r)
                 /\ Began(s, r) \/ Inserted(s, r) \/ Locked(s, r) \/ Appended(s, r) \/ Ended(s, r)
           \/ \E s \in Sessions : Commit(s)
           \/ Tick
           \/ StepBack
  <1>1. ASSUME NEW s \in Sessions, Begin(s)
        PROVE  \E r \in RequestType : Moved(s, r) /\ Began(s, r)
    BY <1>1, BeginOpens DEF Open, Moved, Began
  <1>2. ASSUME NEW s \in Sessions, Insert(s)
        PROVE  \E r \in RequestType : Moved(s, r) /\ (Inserted(s, r) \/ Ended(s, r))
    <2>1. session[s] \in RequestType
      BY DEF Typed
    <2>2. CASE Taken(session[s])
      <3>1. chain # s
        BY <1>2 DEF Insert, Typed, TypeOK
      <3> QED
        BY <1>2, <2>2, <3>1, IdleType DEF Insert, Moved, Ended, Released
    <2>3. CASE ~Taken(session[s])
      <3> DEFINE r == [session[s] EXCEPT !.pc = "ready"]
      <3>1. r \in RequestType
        BY <2>1 DEF RequestType
      <3>2. Moved(s, r) /\ Inserted(s, r)
        BY <1>2, <2>3 DEF Insert, Moved, Inserted
      <3> QED
        BY <3>1, <3>2
    <2> QED
      BY <2>2, <2>3
  <1>3. ASSUME NEW s \in Sessions, LockChain(s)
        PROVE  \E r \in RequestType : Moved(s, r) /\ Locked(s, r)
    <2> DEFINE r == [session[s] EXCEPT !.pc = "stamp"]
    <2>1. r \in RequestType
      BY DEF Typed, RequestType
    <2>2. Moved(s, r) /\ Locked(s, r)
      BY <1>3 DEF LockChain, MayAppend, Moved, Locked, Typed
    <2> QED
      BY <2>1, <2>2
  <1>4. ASSUME NEW s \in Sessions, AppendEvent(s)
        PROVE  \E r \in RequestType : Moved(s, r) /\ Appended(s, r)
    <2>1. PICK last \in LastEvents :
             session' = [session EXCEPT ![s].pc = "commit", ![s].prev = last, ![s].at = clock]
      BY <1>4 DEF AppendEvent
    <2> DEFINE r == [session[s] EXCEPT !.pc = "commit", !.prev = last, !.at = clock]
    <2>2. last \in Nat /\ clock \in Nat
      BY DEF LastEvents, Typed, TypeOK
    <2>3. r \in RequestType
      BY <2>2 DEF Typed, RequestType
    <2>4. session' = [session EXCEPT ![s] = r]
      BY <2>1 DEF Typed
    <2>5. Moved(s, r) /\ Appended(s, r)
      BY <1>4, <2>4 DEF AppendEvent, Moved, Appended
    <2> QED
      BY <2>3, <2>5
  <1>5. ASSUME NEW s \in Sessions, Abandon(s)
        PROVE  \E r \in RequestType : Moved(s, r) /\ Ended(s, r)
    BY <1>5, IdleType DEF Abandon, Moved, Ended
  <1> QED
    BY <1>1, <1>2, <1>3, <1>4, <1>5 DEF Next

\* A request in progress keeps what it carries.
Carries(r, q) ==
    /\ r.op = q.op /\ r.action = q.action /\ r.actor = q.actor /\ r.name = q.name
    /\ r.given = q.given /\ r.read = q.read /\ r.new = q.new /\ r.now = q.now

LEMMA CarriedOn ==
    ASSUME Typed, NEW s \in Sessions, NEW r \in RequestType,
           Inserted(s, r) \/ Locked(s, r) \/ Appended(s, r)
    PROVE  /\ Carries(r, session[s]) /\ WellFormed(r) /\ session[s].pc # "idle"
           /\ Inserted(s, r) => r.pc = "ready"
           /\ Locked(s, r) => r.pc = "stamp"
           /\ Appended(s, r) => r.pc = "commit" /\ r.at = clock /\ r.prev \in LastEvents
  <1> DEFINE q == session[s]
  <1>1. q \in RequestType /\ WellFormed(q)
    BY DEF Typed
  <1>2. q.pc # "idle"
    BY DEF Inserted, Locked, Appended
  <1>3. IsLogin(q) \/ IsCreateUser(q) \/ IsCreateRole(q)
    BY <1>1, <1>2, IdleType DEF WellFormed
  <1>4. /\ Carries(r, q)
        /\ Inserted(s, r) => r.pc = "ready"
        /\ Locked(s, r) => r.pc = "stamp"
        /\ Appended(s, r) => r.pc = "commit" /\ r.at = clock /\ r.prev \in LastEvents
    <2> HIDE DEF q
    <2> USE <1>1 DEF RequestType, Carries
    <2>1. CASE r = [q EXCEPT !.pc = "ready"] /\ Inserted(s, r)
      BY <2>1 DEF q, Inserted, Locked, Appended
    <2>2. CASE r = [q EXCEPT !.pc = "stamp"] /\ Locked(s, r)
      BY <2>2 DEF q, Inserted, Locked, Appended
    <2>3. ASSUME NEW last \in LastEvents, Appended(s, r),
                 r = [q EXCEPT !.pc = "commit", !.prev = last, !.at = clock]
          PROVE  /\ Carries(r, q) /\ ~Inserted(s, r) /\ ~Locked(s, r)
                 /\ r.pc = "commit" /\ r.at = clock /\ r.prev \in LastEvents
      BY <2>3 DEF q, Inserted, Locked, Appended
    <2> QED
      BY <2>1, <2>2, <2>3 DEF q, Inserted, Locked, Appended
  <1>5. r.pc # "idle" /\ r.pc # "insert"
    BY <1>4
  <1> QED
    BY <1>1, <1>2, <1>3, <1>4, <1>5 DEF WellFormed, IsLogin, IsCreateUser, IsCreateRole, Carries

LEMMA ClockTyped ==
    ASSUME Typed, Tick \/ StepBack \/ UNCHANGED vars
    PROVE  Typed'
  <1>1. clock \in Nat /\ stepped \in BOOLEAN
    BY DEF Typed, TypeOK
  <1>2. clock' \in Nat
    BY <1>1 DEF Tick, StepBack, vars
  <1>3. stepped' \in BOOLEAN
    BY <1>1 DEF Tick, StepBack, vars
  <1> QED
    BY <1>2, <1>3 DEF Typed, TypeOK, Tick, StepBack, vars

LEMMA TypedStep == Typed /\ [Next]_vars => Typed'
  <1> SUFFICES ASSUME Typed, [Next]_vars
               PROVE  Typed'
    OBVIOUS
  <1>1. ASSUME NEW s \in Sessions, NEW r \in RequestType, Moved(s, r), Began(s, r)
        PROVE  Typed'
    BY <1>1, MovedTyped DEF Began
  <1>2. ASSUME NEW s \in Sessions, NEW r \in RequestType, Moved(s, r),
               Inserted(s, r) \/ Locked(s, r) \/ Appended(s, r)
        PROVE  Typed'
    BY <1>2, MovedTyped, CarriedOn DEF Inserted, Locked, Appended
  <1>3. ASSUME NEW s \in Sessions, NEW r \in RequestType, Moved(s, r), Ended(s, r)
        PROVE  Typed'
    BY <1>3, MovedTyped, IdleType DEF Ended, WellFormed
  <1> QED
    BY StepKinds, CommitTyped, ClockTyped, <1>1, <1>2, <1>3

\* Rows, events and requests have their types, and the holder of the advisory lock is the one
\* request between pg_advisory_xact_lock and the end of its transaction.
THEOREM TypeCorrect == Spec => []TypeOK
  <1>1. Init => Typed
    BY InitTyped
  <1>2. Typed /\ [Next]_vars => Typed'
    BY TypedStep
  <1>3. Typed => TypeOK
    BY DEF Typed
  <1> QED
    BY <1>1, <1>2, <1>3, PTL DEF Spec

-----------------------------------------------------------------------------
(***************************************************************************)
(* The audit log is one chain.                                             *)
(***************************************************************************)

\* While the clock is never set back, timestamps increase, and so the last event of the one
\* request that has chained its own is the last one committed.
Ordered ==
    /\ \A i \in DOMAIN events : events[i].prev = i - 1 /\ events[i].at < clock
    /\ \A i, j \in DOMAIN events : i < j => events[i].at < events[j].at
ChainedNext ==
    \A s \in Sessions : session[s].pc = "commit" =>
        /\ session[s].prev = Len(events) /\ session[s].at <= clock
        /\ \A i \in DOMAIN events : events[i].at < session[s].at
Linear == ~stepped => Ordered /\ ChainedNext

LEMMA EventTimes ==
    ASSUME Typed
    PROVE  /\ events \in Seq(Event) /\ Len(events) \in Nat /\ DOMAIN events = 1 .. Len(events)
           /\ \A i \in DOMAIN events : events[i] \in Event /\ events[i].at \in Nat
  <1>1. events \in Seq(Event) /\ Len(events) \in Nat /\ DOMAIN events = 1 .. Len(events)
    BY DEF Typed, TypeOK
  <1>2. \A i \in DOMAIN events : events[i] \in Event
    BY <1>1
  <1>3. \A e \in Event : e.at \in Nat
    BY DEF Event
  <1> QED
    BY <1>1, <1>2, <1>3

LEMMA LastIsLatest ==
    ASSUME Typed, Ordered
    PROVE  LastEvents = {Len(events)}
  <1>1. events \in Seq(Event) /\ Len(events) \in Nat /\ DOMAIN events = 1 .. Len(events)
    BY EventTimes
  <1>2. \A i \in DOMAIN events : events[i].at \in Nat
    BY EventTimes
  <1>3. CASE Len(events) = 0
    BY <1>1, <1>3, EmptySeq DEF LastEvents
  <1>4. CASE Len(events) # 0
    <2>1. events # <<>> /\ Len(events) \in DOMAIN events
      BY <1>1, <1>4
    <2>2. \A i \in DOMAIN events : i # Len(events) => events[i].at < events[Len(events)].at
      BY <1>1, <2>1 DEF Ordered
    <2> QED
      BY <1>1, <1>2, <2>1, <2>2 DEF LastEvents
  <1> QED
    BY <1>3, <1>4

LEMMA LinearStep == Typed /\ Typed' /\ Linear /\ [Next]_vars => Linear'
  <1> SUFFICES ASSUME Typed, Typed', Linear, [Next]_vars
               PROVE  Linear'
    OBVIOUS
  <1>1. ASSUME NEW s \in Sessions, NEW r \in RequestType, Moved(s, r),
               Began(s, r) \/ Inserted(s, r) \/ Locked(s, r) \/ Ended(s, r)
        PROVE  Linear'
    <2>1. r.pc # "commit"
      BY <1>1, CarriedOn, IdleType DEF Began, Ended
    <2> QED
      BY <1>1, <2>1 DEF Moved, Linear, Ordered, ChainedNext, Typed
  <1>2. ASSUME NEW s \in Sessions, NEW r \in RequestType, Moved(s, r), Appended(s, r)
        PROVE  Linear'
    <2> SUFFICES ASSUME ~stepped
                 PROVE  Ordered' /\ ChainedNext'
      BY <1>2 DEF Moved, Linear
    <2>1. Ordered /\ ChainedNext
      BY DEF Linear
    <2>2. r.pc = "commit" /\ r.prev = Len(events) /\ r.at = clock /\ clock \in Nat
      BY <1>2, <2>1, CarriedOn, LastIsLatest DEF Typed, TypeOK
    <2> QED
      BY <1>2, <2>1, <2>2 DEF Moved, Ordered, ChainedNext, Typed
  <1>3. ASSUME NEW s \in Sessions, Commit(s)
        PROVE  Linear'
    <2> SUFFICES ASSUME ~stepped
                 PROVE  Ordered' /\ ChainedNext'
      BY <1>3 DEF Commit, Linear
    <2> DEFINE e == EventOf(session[s])
    <2>1. Ordered /\ ChainedNext
      BY DEF Linear
    <2>2. /\ e.prev = Len(events) /\ e.at <= clock /\ \A i \in DOMAIN events : events[i].at < e.at
          /\ clock' = clock + 1 /\ events' = Append(events, e)
      BY <1>3, <2>1 DEF Commit, ChainedNext, EventOf
    <2>3. /\ e \in Event /\ e.at \in Nat /\ clock \in Nat /\ events \in Seq(Event) /\ Len(events) \in Nat
          /\ \A i \in DOMAIN events : events[i].at \in Nat
      <3>1. session[s] \in RequestType /\ WellFormed(session[s]) /\ session[s].pc # "idle"
        BY <1>3 DEF Typed, Commit
      <3>2. e \in Event
        BY <3>1, EventType
      <3> QED
        BY <3>2, EventTimes DEF Typed, TypeOK, Event
    <2> HIDE DEF e
    <2>4. /\ DOMAIN events' = 1 .. Len(events) + 1 /\ DOMAIN events = 1 .. Len(events)
          /\ events'[Len(events) + 1] = e /\ \A i \in DOMAIN events : events'[i] = events[i]
      BY <2>2, <2>3
    <2>5. Ordered'
      BY <2>1, <2>2, <2>3, <2>4 DEF Ordered
    <2>6. \A t \in Sessions : session'[t].pc # "commit"
      BY <1>3, IdleType, NoneAssumption DEF Commit, Typed, TypeOK
    <2> QED
      BY <2>5, <2>6 DEF ChainedNext
  <1>4. CASE Tick
    <2>1. clock \in Nat /\ clock' = clock + 1 /\ \A i \in DOMAIN events : events[i].at \in Nat
      BY <1>4, EventTimes DEF Tick, Typed, TypeOK
    <2>2. \A t \in Sessions : session[t].at \in Nat
      BY DEF Typed, RequestType
    <2> QED
      BY <1>4, <2>1, <2>2 DEF Tick, Linear, Ordered, ChainedNext
  <1>5. CASE StepBack
    BY <1>5 DEF StepBack, Linear
  <1>6. CASE UNCHANGED vars
    BY <1>6 DEF vars, Linear, Ordered, ChainedNext
  <1> QED
    BY StepKinds, <1>1, <1>2, <1>3, <1>4, <1>5, <1>6

\* Unless the host's clock is set back, every event is chained to the one committed before it,
\* however the requests that append overlap (record_audit_event, _last_hash).
THEOREM AuditIsOneChain == Spec => []ChainLinear
  <1>1. Init => Typed /\ Linear
    <2>1. Init => Linear
      BY IdleType DEF Init, Linear, Ordered, ChainedNext
    <2> QED
      BY <2>1, InitTyped
  <1>2. Typed /\ Linear /\ [Next]_vars => (Typed /\ Linear)'
    BY TypedStep, LinearStep
  <1>3. Linear => ChainLinear
    BY DEF Linear, Ordered, ChainLinear
  <1> QED
    BY <1>1, <1>2, <1>3, PTL DEF Spec

-----------------------------------------------------------------------------
(***************************************************************************)
(* Names are inserted once.                                                *)
(***************************************************************************)

Creates(r) == r.op \in {"create_user", "create_role"}
Holding(r) == Creates(r) /\ r.pc \in {"ready", "stamp", "commit"}

\* A request that has inserted a name inserted one that no row and no other request has.
Fresh ==
    /\ \A s \in Sessions : Holding(session[s]) => ~Taken(session[s])
    /\ \A s, t \in Sessions :
          s # t /\ Holding(session[s]) /\ Holding(session[t]) /\ session[s].op = session[t].op
              => session[s].name # session[t].name

\* The accounts and roles that exist after a commit.
LEMMA CommitExists ==
    ASSUME Typed, NEW s \in Sessions, Commit(s)
    PROVE  LET r == session[s]
           IN  /\ \A v \in Users : account'[v].exists <=> account[v].exists \/ (IsCreateUser(r) /\ r.name = v)
               /\ \A x \in Roles : x \in roles' <=> x \in roles \/ (IsCreateRole(r) /\ r.name = x)
  <1> DEFINE r == session[s]
             born == [NoAccount EXCEPT !.exists = TRUE]
  <1>1. r \in RequestType /\ born.exists
    BY DEF Typed, NoAccount
  <1>2. CASE IsLogin(r) /\ account' = [account EXCEPT ![r.name] = Written(account[r.name], r)]
             /\ roles' = roles
    <2>1. r.name \in Users /\ account[r.name] \in Row
      BY <1>2 DEF IsLogin, Typed, TypeOK
    <2>2. Written(account[r.name], r).exists = account[r.name].exists
      BY <1>1, <2>1, WrittenType
    <2>3. ~IsCreateUser(r) /\ ~IsCreateRole(r)
      BY <1>2 DEF IsLogin, IsCreateUser, IsCreateRole
    <2>4. \A v \in Users : account'[v].exists = account[v].exists
      BY <1>2, <2>1, <2>2 DEF Typed, TypeOK
    <2> QED
      BY <1>2, <2>3, <2>4
  <1>3. CASE IsLogin(r) /\ UNCHANGED <<account, roles>>
    BY <1>3 DEF IsLogin, IsCreateUser, IsCreateRole
  <1>4. CASE IsCreateUser(r) /\ account' = [account EXCEPT ![r.name] = born] /\ roles' = roles
    <2>1. r.name \in Users /\ ~IsCreateRole(r)
      BY <1>4 DEF IsCreateUser, IsCreateRole
    <2> HIDE DEF born
    <2> QED
      BY <1>1, <1>4, <2>1 DEF Typed, TypeOK
  <1>5. CASE IsCreateRole(r) /\ account' = account /\ roles' = roles \cup {r.name}
    <2>1. ~IsCreateUser(r)
      BY <1>5 DEF IsCreateUser, IsCreateRole
    <2> QED
      BY <1>5, <2>1
  <1> QED
    BY CommitKinds, <1>2, <1>3, <1>4, <1>5

\* A step that changes one request to one that holds no new name keeps names fresh.
LEMMA FreshMoved ==
    ASSUME Typed, Fresh, NEW s \in Sessions, NEW r \in RequestType, Moved(s, r),
           Holding(r) => Holding(session[s]) /\ Carries(r, session[s])
    PROVE  Fresh'
  BY DEF Typed, Fresh, Moved, Holding, Creates, Carries, Taken

LEMMA FreshStep == Typed /\ Fresh /\ [Next]_vars => Fresh'
  <1> SUFFICES ASSUME Typed, Fresh, [Next]_vars
               PROVE  Fresh'
    OBVIOUS
  <1>1. ASSUME NEW s \in Sessions, NEW r \in RequestType, Moved(s, r), Began(s, r) \/ Ended(s, r)
        PROVE  Fresh'
    <2>1. ~Holding(r)
      BY <1>1, IdleType DEF Began, Ended, Holding, Creates, IsLogin
    <2> QED
      BY <1>1, <2>1, FreshMoved
  <1>2. ASSUME NEW s \in Sessions, NEW r \in RequestType, Moved(s, r), Inserted(s, r)
        PROVE  Fresh'
    <2>1. Carries(r, session[s]) /\ r.pc = "ready" /\ ~Taken(session[s]) /\ session' = [session EXCEPT ![s] = r]
      BY <1>2, CarriedOn DEF Inserted, Moved
    <2>2. \A t \in Sessions \ {s} : Holding(session[t]) /\ session[t].op = r.op => session[t].name # r.name
      BY <1>2, <2>1 DEF Inserted, HeldElsewhere, Holding, Carries
    <2>3. \A t \in Sessions \ {s} : session'[t] = session[t]
      BY <2>1 DEF Typed
    <2>4. session'[s] = r /\ ~Taken(r)
      BY <2>1 DEF Typed, Taken, Carries
    <2>5. \A t \in Sessions : Holding(session'[t]) => ~Taken(session[t])'
      BY <1>2, <2>3, <2>4 DEF Fresh, Moved, Taken, Holding, Creates
    <2>6. \A t, v \in Sessions :
             t # v /\ Holding(session'[t]) /\ Holding(session'[v]) /\ session'[t].op = session'[v].op
                 => session'[t].name # session'[v].name
      BY <2>2, <2>3, <2>4 DEF Fresh
    <2> QED
      BY <2>5, <2>6 DEF Fresh, Holding, Creates
  <1>3. ASSUME NEW s \in Sessions, NEW r \in RequestType, Moved(s, r), Locked(s, r) \/ Appended(s, r)
        PROVE  Fresh'
    <2>1. Carries(r, session[s]) /\ session[s].pc \in {"ready", "stamp"}
      BY <1>3, CarriedOn DEF Locked, Appended
    <2> QED
      BY <1>3, <2>1, FreshMoved DEF Holding, Creates, Carries
  <1>4. ASSUME NEW s \in Sessions, Commit(s)
        PROVE  Fresh'
    <2> DEFINE r == session[s]
    <2>1. /\ \A t \in Sessions \ {s} : session'[t] = session[t]
          /\ ~Holding(session'[s])
      BY <1>4, IdleType DEF Commit, Typed, Holding
    <2>2. \A t \in Sessions : Holding(session[t]) => IsCreateUser(session[t]) \/ IsCreateRole(session[t])
      BY IdleType DEF Typed, WellFormed, Holding, Creates, IsLogin
    <2>3. IsCreateUser(r) \/ IsCreateRole(r) => Holding(r)
      BY <1>4 DEF Commit, Holding, Creates, IsCreateUser, IsCreateRole
    <2>4. ASSUME NEW t \in Sessions \ {s}, Holding(session[t])
          PROVE  ~Taken(session[t])'
      <3>1. ~Taken(session[t]) /\ session'[t] = session[t]
        BY <2>1, <2>4 DEF Fresh
      <3>2. CASE IsCreateUser(session[t])
        <4>1. ~(IsCreateUser(r) /\ r.name = session[t].name)
          BY <2>3, <2>4, <3>2 DEF Fresh, IsCreateUser
        <4> QED
          BY <1>4, <3>1, <3>2, <4>1, CommitExists DEF Taken, IsCreateUser
      <3>3. CASE IsCreateRole(session[t])
        <4>1. ~(IsCreateRole(r) /\ r.name = session[t].name)
          BY <2>3, <2>4, <3>3 DEF Fresh, IsCreateRole
        <4> QED
          BY <1>4, <3>1, <3>3, <4>1, CommitExists DEF Taken, IsCreateRole
      <3> QED
        BY <2>2, <2>4, <3>2, <3>3
    <2> QED
      BY <2>1, <2>4 DEF Fresh, Holding, Creates
  <1>5. CASE Tick \/ StepBack \/ UNCHANGED vars
    BY <1>5 DEF Tick, StepBack, vars, Fresh, Holding, Creates, Taken
  <1> QED
    BY StepKinds, <1>1, <1>2, <1>3, <1>4, <1>5

-----------------------------------------------------------------------------
(***************************************************************************)
(* The lockout.                                                            *)
(***************************************************************************)

\* A login writes the count read plus one, with the lock that goes with it, or the reset.
LoginWrites(r) ==
    \/ /\ r.action = "LOGIN_FAILED"
       /\ r.new.fails = r.read.fails + 1
       /\ r.new.until = IF r.read.fails + 1 >= MaxAttempts THEN r.now + LockoutDuration
                                                           ELSE r.read.until
    \/ r.action = "LOGIN_SUCCESS" /\ r.new.fails = 0 /\ r.new.until = 0

LoginsRead ==
    \A s \in Sessions : session[s].op = "login" /\ session[s].read.exists =>
        /\ account[session[s].name].exists
        /\ LoginWrites(session[s])
        /\ ~stepped => session[s].read.until <= clock

\* An account that does not exist yet has counted nothing.
Unborn ==
    \A u \in Users : ~account[u].exists => account[u].fails = 0 /\ account[u].until = 0 /\ misses[u].n = 0

Lockout == LoginsRead /\ Unborn /\ LockoutFollowsMisses

\* The commit of a login that read the row as it still is.
LEMMA LoginCommit ==
    ASSUME Typed, Lockout, NEW s \in Sessions, Commit(s),
           IsLogin(session[s]), session[s].read.exists,
           account' = [account EXCEPT ![session[s].name] = Written(account[session[s].name], session[s])],
           misses' = [misses EXCEPT ![session[s].name] = Answered(session[s].name, session[s])],
           session[s].name \notin overlapped, account[session[s].name] = session[s].read
    PROVE  LET u == session[s].name
           IN  /\ account'[u].fails = misses'[u].n
               /\ account'[u].until = IF misses'[u].n >= MaxAttempts
                                      THEN misses'[u].last + LockoutDuration ELSE 0
  <1> DEFINE r == session[s]
             u == r.name
  <1>1. u \in Users /\ r \in RequestType /\ account[u] \in Row /\ misses[u] \in [n : Nat, last : Nat]
        /\ r.read \in Row /\ r.new \in Row
    BY DEF IsLogin, Typed, TypeOK, RequestType
  <1>2. LoginWrites(r)
    BY DEF IsLogin, Lockout, LoginsRead
  <1>3. account'[u] = Written(account[u], r) /\ misses'[u] = Answered(u, r)
    BY <1>1 DEF Typed, TypeOK
  <1>4. account'[u].fails = r.new.fails /\ account'[u].until = r.new.until
    BY <1>1, <1>3, WrittenType
  <1>5. /\ r.read.fails = misses[u].n
        /\ r.read.until = IF misses[u].n >= MaxAttempts THEN misses[u].last + LockoutDuration ELSE 0
    BY <1>1 DEF Lockout, LockoutFollowsMisses
  <1>6. CASE /\ r.action = "LOGIN_FAILED"
             /\ r.new.fails = r.read.fails + 1
             /\ r.new.until = IF r.read.fails + 1 >= MaxAttempts THEN r.now + LockoutDuration
                                                                 ELSE r.read.until
    <2>1. misses'[u].n = misses[u].n + 1 /\ misses'[u].last = r.now
      BY <1>3, <1>6 DEF Answered
    <2>2. misses[u].n \in Nat /\ MaxAttempts \in Nat
      BY <1>1, LimitAssumption
    <2> QED
      BY <1>4, <1>5, <1>6, <2>1, <2>2
  <1>7. CASE r.action = "LOGIN_SUCCESS" /\ r.new.fails = 0 /\ r.new.until = 0
    <2>1. misses'[u].n = 0
      BY <1>3, <1>7 DEF Answered
    <2> QED
      BY <1>4, <1>7, <2>1, LimitAssumption
  <1> QED
    BY <1>2, <1>6, <1>7 DEF LoginWrites

LEMMA LockoutCommit ==
    ASSUME Typed, Fresh, Lockout, NEW s \in Sessions, Commit(s)
    PROVE  Lockout'
  <1> DEFINE r == session[s]
             u == r.name
             born == [NoAccount EXCEPT !.exists = TRUE]
  <1>1. \A t \in Sessions : session'[t] = Idle \/ session'[t] = session[t]
    BY DEF Commit, Typed
  <1>2. Idle.op # "login"
    BY DEF Idle
  <1>3. born.exists /\ born.fails = 0 /\ born.until = 0
    BY DEF NoAccount
  <1>4. \A v \in Users : account[v].exists => account'[v].exists
    BY CommitExists
  <1>5. LoginsRead'
    <2>1. clock \in Nat /\ clock' = clock + 1 /\ stepped' = stepped
      BY DEF Commit, Typed, TypeOK
    <2>2. \A t \in Sessions : session[t].read.until \in Nat
      BY DEF Typed, RequestType, Row
    <2>3. ASSUME NEW t \in Sessions, session'[t].op = "login", session'[t].read.exists
          PROVE  /\ account'[session'[t].name].exists
                 /\ LoginWrites(session'[t])
                 /\ ~stepped' => session'[t].read.until <= clock'
      <3>1. session'[t] = session[t]
        BY <1>1, <1>2, <2>3
      <3>2. session[t].name \in Users
        BY <2>3, <3>1, <1>2 DEF Typed, WellFormed, IsLogin, IsCreateUser, IsCreateRole
      <3> QED
        BY <1>4, <2>1, <2>2, <2>3, <3>1, <3>2 DEF Lockout, LoginsRead
    <2> QED
      BY <2>3 DEF LoginsRead, LoginWrites
  <1>6. CASE /\ IsLogin(r) /\ r.read.exists
             /\ account' = [account EXCEPT ![u] = Written(account[u], r)]
             /\ misses' = [misses EXCEPT ![u] = Answered(u, r)]
             /\ overlapped' = IF account[u] = r.read THEN overlapped ELSE overlapped \cup {u}
    <2>1. u \in Users /\ account[u].exists /\ account'[u].exists
      BY <1>4, <1>6 DEF IsLogin, Lockout, LoginsRead
    <2>2. \A v \in Users : v # u => account'[v] = account[v] /\ misses'[v] = misses[v]
                                    /\ (v \in overlapped' <=> v \in overlapped)
      BY <1>6 DEF Typed, TypeOK
    <2>3. Unborn'
      BY <2>1, <2>2 DEF Lockout, Unborn
    <2>4. u \notin overlapped' => u \notin overlapped /\ account[u] = r.read
      BY <1>6
    <2>5. u \notin overlapped' =>
             /\ account'[u].fails = misses'[u].n
             /\ account'[u].until = IF misses'[u].n >= MaxAttempts THEN misses'[u].last + LockoutDuration
                                                                   ELSE 0
      BY <1>6, <2>4, LoginCommit
    <2>6. LockoutFollowsMisses'
      BY <2>2, <2>5 DEF Lockout, LockoutFollowsMisses
    <2> QED
      BY <1>5, <2>3, <2>6 DEF Lockout
  <1>7. CASE UNCHANGED <<account, misses, overlapped>>
    BY <1>5, <1>7 DEF Lockout, Unborn, LockoutFollowsMisses
  <1>8. CASE /\ IsCreateUser(r) /\ account' = [account EXCEPT ![u] = born]
             /\ UNCHANGED <<misses, overlapped>>
    <2>1. u \in Users /\ ~account[u].exists
      BY <1>8 DEF Commit, Fresh, Holding, Creates, Taken, IsCreateUser
    <2>2. account[u].fails = 0 /\ account[u].until = 0 /\ misses[u].n = 0
      BY <2>1 DEF Lockout, Unborn
    <2>3. \A v \in Users : v # u => account'[v] = account[v]
      BY <1>8 DEF Typed, TypeOK
    <2>4. account'[u] = born
      BY <1>8, <2>1 DEF Typed, TypeOK
    <2> HIDE DEF born
    <2>5. Unborn'
      BY <1>3, <1>8, <2>3, <2>4 DEF Lockout, Unborn
    <2>6. LockoutFollowsMisses'
      BY <1>3, <1>8, <2>2, <2>3, <2>4, LimitAssumption DEF Lockout, LockoutFollowsMisses
    <2> QED
      BY <1>5, <2>5, <2>6 DEF Lockout
  <1> QED
    BY CommitKinds, <1>6, <1>7, <1>8

LEMMA LockoutStep == Typed /\ Fresh /\ Lockout /\ [Next]_vars => Lockout'
  <1> SUFFICES ASSUME Typed, Fresh, Lockout, [Next]_vars
               PROVE  Lockout'
    OBVIOUS
  <1>1. ASSUME UNCHANGED <<account, misses, overlapped>>, LoginsRead'
        PROVE  Lockout'
    BY <1>1 DEF Lockout, Unborn, LockoutFollowsMisses
  <1>2. ASSUME NEW s \in Sessions, NEW r \in RequestType, Moved(s, r), Began(s, r)
        PROVE  Lockout'
    <2>1. ASSUME r.op = "login", r.read.exists
          PROVE  account[r.name].exists /\ LoginWrites(r) /\ r.read.until <= clock
      <3>1. IsLogin(r) /\ LoginOf(r, r.name, account[r.name]) /\ account[r.name].until <= clock
        BY <1>2, <2>1 DEF Began, IsCreateUser, IsCreateRole, LoginOf
      <3>2. account[r.name] \in Row /\ clock \in Nat
        BY <3>1 DEF IsLogin, Typed, TypeOK
      <3> QED
        BY <2>1, <3>1, <3>2, CountedType DEF LoginOf, LoginWrites
    <2>2. LoginsRead'
      BY <1>2, <2>1 DEF Moved, Typed, Lockout, LoginsRead, LoginWrites
    <2> QED
      BY <1>1, <1>2, <2>2 DEF Moved
  <1>3. ASSUME NEW s \in Sessions, NEW r \in RequestType, Moved(s, r),
               Inserted(s, r) \/ Locked(s, r) \/ Appended(s, r)
        PROVE  Lockout'
    <2>1. Carries(r, session[s])
      BY <1>3, CarriedOn
    <2>2. LoginsRead'
      BY <1>3, <2>1 DEF Carries, Moved, Typed, Lockout, LoginsRead, LoginWrites
    <2> QED
      BY <1>1, <1>3, <2>2 DEF Moved
  <1>4. ASSUME NEW s \in Sessions, NEW r \in RequestType, Moved(s, r), Ended(s, r)
        PROVE  Lockout'
    <2>1. r.op # "login"
      BY <1>4 DEF Ended, Idle
    <2>2. LoginsRead'
      BY <1>4, <2>1 DEF Moved, Typed, Lockout, LoginsRead, LoginWrites
    <2> QED
      BY <1>1, <1>4, <2>2 DEF Moved
  <1>5. CASE Tick
    <2>1. clock \in Nat /\ clock' = clock + 1 /\ \A s \in Sessions : session[s].read.until \in Nat
      BY <1>5 DEF Tick, Typed, TypeOK, RequestType, Row
    <2>2. LoginsRead'
      BY <1>5, <2>1 DEF Tick, Lockout, LoginsRead, LoginWrites
    <2> QED
      BY <1>1, <1>5, <2>2 DEF Tick
  <1>6. CASE StepBack
    BY <1>1, <1>6 DEF StepBack, Lockout, LoginsRead, LoginWrites
  <1>7. CASE UNCHANGED vars
    BY <1>1, <1>7 DEF vars, Lockout, LoginsRead, LoginWrites
  <1> QED
    BY StepKinds, LockoutCommit, <1>2, <1>3, <1>4, <1>5, <1>6, <1>7

Protected == Typed /\ Fresh /\ Lockout

LEMMA InitProtected == Init => Protected
  <1> SUFFICES ASSUME Init
               PROVE  Protected
    OBVIOUS
  <1>1. \A s \in Sessions : session[s] = Idle
    BY DEF Init
  <1>2. Fresh /\ LoginsRead
    BY <1>1 DEF Fresh, LoginsRead, Holding, Creates, Idle
  <1>3. \A u \in Users : account[u].fails = 0 /\ account[u].until = 0 /\ misses[u].n = 0
    BY DEF Init, NoAccount
  <1>4. Unborn /\ LockoutFollowsMisses
    BY <1>3, LimitAssumption DEF Unborn, LockoutFollowsMisses
  <1> QED
    BY InitTyped, <1>2, <1>4 DEF Protected, Lockout

\* The failure count is the number of wrong passwords since the last success, and the account
\* is locked from the MaxAttempts-th for LockoutDuration, unless logins of the account
\* overlapped (authenticate_user, login).
THEOREM LockoutIsExact == Spec => []LockoutFollowsMisses
  <1>1. Init => Protected
    BY InitProtected
  <1>2. Protected /\ [Next]_vars => Protected'
    BY TypedStep, FreshStep, LockoutStep DEF Protected
  <1>3. Protected => LockoutFollowsMisses
    BY DEF Protected, Lockout
  <1> QED
    BY <1>1, <1>2, <1>3, PTL DEF Spec

LEMMA LockKept ==
    ASSUME Protected, [Next]_vars, NEW u \in Users,
           account[u].until > clock, ~stepped', u \notin overlapped'
    PROVE  account'[u].until >= account[u].until
  <1>1. account[u] \in Row /\ account[u].until \in Nat /\ clock \in Nat
    BY DEF Protected, Typed, TypeOK, Row
  <1>2. CASE account' = account
    BY <1>1, <1>2
  <1>3. ASSUME NEW s \in Sessions, Commit(s), account'[u] # account[u]
        PROVE  FALSE
    <2> DEFINE r == session[s]
    <2>1. CASE /\ IsLogin(r) /\ r.read.exists
               /\ account' = [account EXCEPT ![r.name] = Written(account[r.name], r)]
               /\ overlapped' = IF account[r.name] = r.read THEN overlapped
                                                            ELSE overlapped \cup {r.name}
      <3>1. u = r.name /\ account[u] = r.read
        BY <1>3, <2>1 DEF Protected, Typed, TypeOK
      <3>2. r.read.until <= clock
        BY <1>3, <2>1 DEF Commit, IsLogin, Protected, Lockout, LoginsRead
      <3> QED
        BY <1>1, <3>1, <3>2
    <2>2. CASE IsCreateUser(r) /\ account' = [account EXCEPT ![r.name] = [NoAccount EXCEPT !.exists = TRUE]]
      <3>1. u = r.name /\ ~account[u].exists
        BY <1>3, <2>2
           DEF Commit, Protected, Fresh, Holding, Creates, Taken, IsCreateUser, Typed, TypeOK
      <3>2. account[u].until = 0
        BY <3>1 DEF Protected, Lockout, Unborn
      <3> QED
        BY <1>1, <3>2
    <2>3. CASE account' = account
      BY <1>3, <2>3
    <2>4. Typed
      BY DEF Protected
    <2> QED
      BY CommitKinds, <1>3, <2>1, <2>2, <2>3, <2>4
  <1>4. \/ \E s \in Sessions : Commit(s)
        \/ account' = account
    BY StepKinds DEF Protected, Moved, Tick, StepBack, vars
  <1> QED
    BY <1>1, <1>2, <1>3, <1>4

\* A lock in force is neither lifted nor shortened before it expires (authenticate_user).
THEOREM LockIsKept == Spec => LockHolds
  <1>1. Init => Protected
    BY InitProtected
  <1>2. Protected /\ [Next]_vars => Protected'
    BY TypedStep, FreshStep, LockoutStep DEF Protected
  <1>3. Protected /\ [Next]_vars =>
           [\A u \in Users :
               (account[u].until > clock /\ ~stepped' /\ u \notin overlapped')
                   => account'[u].until >= account[u].until]_vars
    BY LockKept
  <1> QED
    BY <1>1, <1>2, <1>3, PTL DEF Spec, LockHolds

-----------------------------------------------------------------------------
(***************************************************************************)
(* Creations are audited.                                                  *)
(***************************************************************************)

\* A user who exists and has the permission keeps both.
MayDo(u, code) == u \in Users /\ account[u].exists /\ HasPermission(u, code)
MayCreate(u, action) == /\ action = "USER_CREATED" => MayDo(u, "user.create")
                        /\ action = "ROLE_CREATED" => MayDo(u, "role.manage")

Authorised ==
    /\ \A s \in Sessions : session[s].pc # "idle" => MayCreate(session[s].actor, session[s].action)
    /\ \A i \in DOMAIN events : MayCreate(events[i].actor, events[i].action)

\* An object that did not exist at first has one creation in the log if it exists, none if not.
OnceIf(exists, creations) == IF exists THEN \E i : creations = {i} ELSE creations = {}
Once ==
    /\ \A u \in Users \ SeedUsers : OnceIf(account[u].exists, CreationsOf("USER_CREATED", u))
    /\ \A x \in Roles \ SeedRoles : OnceIf(x \in roles, CreationsOf("ROLE_CREATED", x))

LEMMA PermissionKept ==
    ASSUME Typed, Fresh, Next, NEW u, NEW code, MayDo(u, code)
    PROVE  MayDo(u, code)'
  <1>1. CASE UNCHANGED <<account, assigned, roles, grants>>
    BY <1>1 DEF MayDo, HasPermission, Permissions
  <1>2. ASSUME NEW s \in Sessions, Commit(s)
        PROVE  MayDo(u, code)'
    <2> DEFINE r == session[s]
    <2>1. account'[u].exists
      BY <1>2, CommitExists DEF MayDo
    <2>2. CASE UNCHANGED <<assigned, roles, grants>>
      BY <2>1, <2>2 DEF MayDo, HasPermission, Permissions
    <2>3. CASE IsCreateUser(r) /\ assigned' = [assigned EXCEPT ![r.name] = r.given]
               /\ UNCHANGED <<roles, grants>>
      <3>1. r.name # u
        BY <1>2, <2>3 DEF MayDo, Commit, Fresh, Holding, Creates, Taken, IsCreateUser
      <3>2. assigned'[u] = assigned[u]
        BY <2>3, <3>1 DEF MayDo, Typed, TypeOK
      <3> QED
        BY <2>1, <2>3, <3>2 DEF MayDo, HasPermission, Permissions
    <2>4. CASE IsCreateRole(r) /\ roles' = roles \cup {r.name}
               /\ grants' = [grants EXCEPT ![r.name] = r.given] /\ UNCHANGED assigned
      <3>1. r.name \notin roles
        BY <1>2, <2>4 DEF Commit, Fresh, Holding, Creates, Taken, IsCreateRole
      <3>2. \A x \in assigned[u] \cap roles : x \in assigned'[u] \cap roles' /\ grants'[x] = grants[x]
        BY <2>4, <3>1 DEF Typed, TypeOK
      <3>3. code \in Permissions(u) => code \in Permissions(u)'
        BY <3>2 DEF Permissions
      <3> QED
        BY <2>1, <3>3 DEF MayDo, HasPermission
    <2> QED
      BY CommitKinds, <1>2, <2>2, <2>3, <2>4
  <1>3. \/ \E s \in Sessions : Commit(s)
        \/ UNCHANGED <<account, assigned, roles, grants>>
    BY StepKinds DEF Moved, Tick, StepBack
  <1> QED
    BY <1>1, <1>2, <1>3

\* The log after a commit.
LEMMA CommitLogged ==
    ASSUME Typed, NEW s \in Sessions, Commit(s)
    PROVE  LET r == session[s]
           IN  /\ DOMAIN events' = DOMAIN events \cup {Len(events) + 1}
               /\ Len(events) + 1 \notin DOMAIN events
               /\ \A i \in DOMAIN events : events'[i] = events[i]
               /\ events'[Len(events) + 1].action = r.action
               /\ events'[Len(events) + 1].actor = r.actor
               /\ r.action # "LOGIN_FAILED" => events'[Len(events) + 1].object = r.name
  <1> DEFINE e == EventOf(session[s])
  <1>1. /\ events \in Seq(Event) /\ Len(events) \in Nat /\ DOMAIN events = 1 .. Len(events)
    BY EventTimes
  <1>2. e \in Event /\ events' = Append(events, e)
    BY EventType, IdleType DEF Commit, Typed
  <1>3. e.action = session[s].action /\ e.actor = session[s].actor
        /\ (session[s].action # "LOGIN_FAILED" => e.object = session[s].name)
    BY DEF EventOf
  <1> HIDE DEF e
  <1>4. /\ DOMAIN events' = 1 .. Len(events) + 1
        /\ events'[Len(events) + 1] = e /\ \A i \in DOMAIN events : events'[i] = events[i]
    BY <1>1, <1>2
  <1> QED
    BY <1>1, <1>3, <1>4

LEMMA AuthorisedStep == Typed /\ Fresh /\ Authorised /\ [Next]_vars => Authorised'
  <1> SUFFICES ASSUME Typed, Fresh, Authorised, [Next]_vars
               PROVE  Authorised'
    OBVIOUS
  <1>1. CASE UNCHANGED vars
    BY <1>1 DEF vars, Authorised, MayCreate, MayDo, HasPermission, Permissions
  <1> SUFFICES ASSUME Next
               PROVE  Authorised'
    BY <1>1
  <1>2. \A u, action : MayCreate(u, action) => MayCreate(u, action)'
    BY PermissionKept DEF MayCreate
  <1>3. ASSUME NEW s \in Sessions, NEW r \in RequestType, Moved(s, r), Began(s, r)
        PROVE  Authorised'
    <2>1. MayCreate(r.actor, r.action)
      BY <1>3 DEF Began, IsLogin, IsCreateUser, IsCreateRole, MayCreate, MayDo
    <2> QED
      BY <1>2, <1>3, <2>1 DEF Moved, Typed, Authorised
  <1>4. ASSUME NEW s \in Sessions, NEW r \in RequestType, Moved(s, r),
               Inserted(s, r) \/ Locked(s, r) \/ Appended(s, r)
        PROVE  Authorised'
    <2>1. r.actor = session[s].actor /\ r.action = session[s].action /\ session[s].pc # "idle"
      BY <1>4, CarriedOn DEF Carries
    <2> QED
      BY <1>2, <1>4, <2>1 DEF Moved, Typed, Authorised
  <1>5. ASSUME NEW s \in Sessions, NEW r \in RequestType, Moved(s, r), Ended(s, r)
        PROVE  Authorised'
    BY <1>2, <1>5, IdleType DEF Moved, Ended, Typed, Authorised
  <1>6. ASSUME NEW s \in Sessions, Commit(s)
        PROVE  Authorised'
    <2>1. \A t \in Sessions : session'[t].pc # "idle" => session'[t] = session[t]
      BY <1>6, IdleType DEF Commit, Typed
    <2>2. session[s].pc # "idle"
      BY <1>6 DEF Commit
    <2>3. ASSUME NEW i \in DOMAIN events', NEW u, NEW action,
                 u = events'[i].actor, action = events'[i].action
          PROVE  MayCreate(u, action)'
      <3>1. MayCreate(u, action)
        BY <1>6, <2>2, <2>3, CommitLogged DEF Authorised
      <3> QED
        BY <1>2, <3>1
    <2>4. \A i \in DOMAIN events' : MayCreate(events[i].actor, events[i].action)'
      BY <2>3 DEF MayCreate, MayDo, HasPermission, Permissions
    <2>5. \A t \in Sessions : session'[t].pc # "idle" => MayCreate(session[t].actor, session[t].action)'
      BY <1>2, <2>1 DEF Authorised, MayCreate, MayDo, HasPermission, Permissions
    <2> QED
      BY <2>4, <2>5 DEF Authorised
  <1>7. CASE Tick \/ StepBack
    BY <1>2, <1>7 DEF Tick, StepBack, Authorised
  <1> QED
    BY StepKinds, <1>3, <1>4, <1>5, <1>6, <1>7

LEMMA OnceStep == Typed /\ Fresh /\ Once /\ [Next]_vars => Once'
  <1> SUFFICES ASSUME Typed, Fresh, Once, [Next]_vars
               PROVE  Once'
    OBVIOUS
  <1>1. CASE UNCHANGED <<account, roles, events>>
    BY <1>1 DEF Once, CreationsOf
  <1>2. ASSUME NEW s \in Sessions, Commit(s)
        PROVE  Once'
    <2> DEFINE r == session[s]
               n == Len(events) + 1
    <2>1. \A a, x : CreationsOf(a, x)' = CreationsOf(a, x) \cup
                       (IF events'[n].action = a /\ events'[n].object = x THEN {n} ELSE {})
      BY <1>2, CommitLogged DEF CreationsOf
    <2>2. IsLogin(r) \/ IsCreateUser(r) \/ IsCreateRole(r)
      BY <1>2, IdleType DEF Commit, Typed, WellFormed
    <2>3. IsCreateUser(r) => ~account[r.name].exists
      BY <1>2 DEF Commit, Fresh, Holding, Creates, Taken, IsCreateUser
    <2>4. IsCreateRole(r) => r.name \notin roles
      BY <1>2 DEF Commit, Fresh, Holding, Creates, Taken, IsCreateRole
    <2>5. ASSUME NEW u \in Users \ SeedUsers
          PROVE  OnceIf(account'[u].exists, CreationsOf("USER_CREATED", u)')
      <3>1. CASE IsCreateUser(r) /\ r.name = u
        <4>1. CreationsOf("USER_CREATED", u) = {} /\ account'[u].exists
          BY <1>2, <2>3, <3>1, CommitExists DEF Once, OnceIf
        <4>2. events'[n].action = "USER_CREATED" /\ events'[n].object = u
          BY <1>2, <3>1, CommitLogged DEF IsCreateUser
        <4> QED
          BY <2>1, <4>1, <4>2 DEF OnceIf
      <3>2. CASE ~(IsCreateUser(r) /\ r.name = u)
        <4>1. account'[u].exists <=> account[u].exists
          BY <1>2, <3>2, CommitExists
        <4>2. ~(events'[n].action = "USER_CREATED" /\ events'[n].object = u)
          BY <1>2, <2>2, <3>2, CommitLogged DEF IsLogin, IsCreateRole
        <4>3. CreationsOf("USER_CREATED", u)' = CreationsOf("USER_CREATED", u)
          BY <2>1, <4>2
        <4> QED
          BY <4>1, <4>3 DEF Once, OnceIf
      <3> QED
        BY <3>1, <3>2
    <2>6. ASSUME NEW x \in Roles \ SeedRoles
          PROVE  OnceIf(x \in roles', CreationsOf("ROLE_CREATED", x)')
      <3>1. CASE IsCreateRole(r) /\ r.name = x
        <4>1. CreationsOf("ROLE_CREATED", x) = {} /\ x \in roles'
          BY <1>2, <2>4, <3>1, CommitExists DEF Once, OnceIf
        <4>2. events'[n].action = "ROLE_CREATED" /\ events'[n].object = x
          BY <1>2, <3>1, CommitLogged DEF IsCreateRole
        <4> QED
          BY <2>1, <4>1, <4>2 DEF OnceIf
      <3>2. CASE ~(IsCreateRole(r) /\ r.name = x)
        <4>1. x \in roles' <=> x \in roles
          BY <1>2, <3>2, CommitExists
        <4>2. ~(events'[n].action = "ROLE_CREATED" /\ events'[n].object = x)
          BY <1>2, <2>2, <3>2, CommitLogged DEF IsLogin, IsCreateUser
        <4>3. CreationsOf("ROLE_CREATED", x)' = CreationsOf("ROLE_CREATED", x)
          BY <2>1, <4>2
        <4> QED
          BY <4>1, <4>3 DEF Once, OnceIf
      <3> QED
        BY <3>1, <3>2
    <2> QED
      BY <2>5, <2>6 DEF Once
  <1>3. \/ \E s \in Sessions : Commit(s)
        \/ UNCHANGED <<account, roles, events>>
    BY StepKinds DEF Moved, Tick, StepBack, vars
  <1> QED
    BY <1>1, <1>2, <1>3

\* Every account and role created is in the audit log once, with a user who may create it
\* (require_permission, create_user, create_role, record_audit_event).
THEOREM CreationsAreAudited == Spec => []CreationsAudited
  <1>1. Init => Typed /\ Fresh /\ Authorised /\ Once
    <2>1. ASSUME Init
          PROVE  Authorised /\ Once
      <3>1. \A s \in Sessions : session[s].pc = "idle"
        BY <2>1, IdleType DEF Init
      <3>2. DOMAIN events = {}
        BY <2>1 DEF Init
      <3>3. \A a, x : CreationsOf(a, x) = {}
        BY <3>2 DEF CreationsOf
      <3>4. \A u \in Users \ SeedUsers : ~account[u].exists
        BY <2>1 DEF Init, NoAccount
      <3> QED
        BY <2>1, <3>1, <3>2, <3>3, <3>4 DEF Init, Authorised, Once, OnceIf
    <2> QED
      BY <2>1, InitProtected DEF Protected
  <1>2. Typed /\ Fresh /\ Authorised /\ Once /\ [Next]_vars => (Typed /\ Fresh /\ Authorised /\ Once)'
    BY TypedStep, FreshStep, AuthorisedStep, OnceStep
  <1>3. Typed /\ Authorised /\ Once => CreationsAudited
    <2> SUFFICES ASSUME Typed, Authorised, Once
                 PROVE  CreationsAudited
      OBVIOUS
    <2>1. \A creations : OnceIf(TRUE, creations) => Cardinality(creations) = 1
      BY FS_Singleton DEF OnceIf
    <2>2. \A u \in Users \ SeedUsers : account[u].exists => Cardinality(CreationsOf("USER_CREATED", u)) = 1
      BY <2>1 DEF Once, OnceIf
    <2>3. \A x \in roles \ SeedRoles : Cardinality(CreationsOf("ROLE_CREATED", x)) = 1
      BY <2>1 DEF Once, OnceIf, Typed, TypeOK
    <2>4. \A x, i : i \in CreationsOf("USER_CREATED", x) =>
             events[i].actor \in Superusers \/ "user.create" \in Permissions(events[i].actor)
      BY DEF Authorised, MayCreate, MayDo, HasPermission, CreationsOf
    <2>5. \A x, i : i \in CreationsOf("ROLE_CREATED", x) =>
             events[i].actor \in Superusers \/ "role.manage" \in Permissions(events[i].actor)
      BY DEF Authorised, MayCreate, MayDo, HasPermission, CreationsOf
    <2> QED
      BY <2>2, <2>3, <2>4, <2>5 DEF CreationsAudited
  <1> QED
    BY <1>1, <1>2, <1>3, PTL DEF Spec
=============================================================================
