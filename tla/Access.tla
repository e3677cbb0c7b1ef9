------------------------------- MODULE Access -------------------------------
(***************************************************************************)
(* Identity and the audit log: logins with the account lockout, accounts   *)
(* and roles, and the hash chain that every audited request extends.       *)
(*                                                                         *)
(* A request is one transaction: it reads committed rows, writes, records  *)
(* one audit event and commits.  record_audit_event takes an advisory lock *)
(* that lasts until the transaction ends, reads the clock, reads the last  *)
(* event and inserts the next one.  A login does not flush the account row *)
(* itself: the row is written under the lock, from the values read before  *)
(* the lock was waited for.                                                *)
(***************************************************************************)
EXTENDS Naturals, Sequences, FiniteSets

CONSTANTS
    Users,            \* accounts, those that exist and those that may be created
    Roles,
    Codes,            \* permission codes, "user.create" and "role.manage" among them
    SeedUsers,        \* accounts that exist at first
    Superusers,
    SeedRoles,        \* roles that exist at first
    SeedGrants,       \* the permissions of every role that exists at first
    SeedAssigned,     \* the roles of every account, direct ones and those of its groups
    RoleLists,        \* the role_ids and permission_codes that requests ask for
    CodeLists,
    Sessions,         \* requests in progress at one time
    MaxAttempts,      \* MAX_FAILED_LOGIN_ATTEMPTS
    LockoutDuration,
    MaxEvents,        \* bound: requests that are audited
    MaxTicks,         \* bound: ticks of the clock beside those of the commits
    None

ASSUME SeedAssumption ==
    /\ SeedUsers \subseteq Users /\ Superusers \subseteq SeedUsers
    /\ SeedRoles \subseteq Roles
    /\ SeedGrants \in [Roles -> SUBSET Codes]
    /\ SeedAssigned \in [Users -> SUBSET SeedRoles]
    /\ RoleLists \subseteq SUBSET Roles /\ CodeLists \subseteq SUBSET Codes
ASSUME LimitAssumption == MaxAttempts \in Nat \ {0} /\ LockoutDuration \in Nat
ASSUME BoundAssumption == MaxEvents \in Nat /\ MaxTicks \in Nat
ASSUME NoneAssumption == None \notin Sessions

VARIABLES
    account,     \* users: fails is failed_login_attempts, until is locked_until, 0 if null
    assigned,    \* user_roles, and group_roles of the groups a user is in
    roles,       \* the roles that exist
    grants,      \* role_permissions
    events,      \* audit_events in the order of their commits; prev is the event chained to
    clock,       \* the host's clock
    chain,       \* the transaction that holds the advisory lock
    session,     \* requests in progress
    stepped,     \* history: the clock was set back
    overlapped,  \* history: accounts a login wrote after another commit had changed them
    misses       \* history: wrong passwords counted since the last success, and the last one's time

vars == <<account, assigned, roles, grants, events, clock, chain, session, stepped, overlapped,
          misses>>

NoAccount == [exists |-> FALSE, fails |-> 0, until |-> 0]

\* What a request has read and will write.
Idle == [pc |-> "idle", op |-> "none", action |-> "none",
         actor |-> None,                             \* the event's user_id
         name |-> None, given |-> {},                \* the row it inserts or logs in, its links
         read |-> NoAccount, new |-> NoAccount, now |-> 0,
         prev |-> 0, at |-> 0]                       \* the event it has flushed

Init ==
    /\ account = [u \in Users |-> [NoAccount EXCEPT !.exists = u \in SeedUsers]]
    /\ assigned = SeedAssigned
    /\ roles = SeedRoles
    /\ grants = SeedGrants
    /\ events = <<>>
    /\ clock = 0
    /\ chain = None
    /\ session = [s \in Sessions |-> Idle]
    /\ stepped = FALSE
    /\ overlapped = {}
    /\ misses = [u \in Users |-> [n |-> 0, last |-> 0]]

-----------------------------------------------------------------------------
\* get_effective_permissions, and user_has_permission
Permissions(u) == UNION {grants[r] : r \in assigned[u] \cap roles}
SuperOnly(u, code) == u \in Superusers \/ assigned[u] # {}  \* mutant: any role will do
HasPermission(u, code) == u \in Superusers \/ code \in Permissions(u)

Active == {s \in Sessions : session[s].pc # "idle"}

\* The clock of a request that begins is read after the previous one's commit.
Open(s, request) ==
    /\ session[s].pc = "idle"
    /\ Len(events) + Cardinality(Active) < MaxEvents
    /\ session' = [session EXCEPT ![s] = request]
    /\ UNCHANGED <<account, assigned, roles, grants, events, clock, chain, stepped, overlapped,
                   misses>>

NeverLocked(row) == FALSE                                  \* mutant: locked_until is not read
LockedOut(row) == row.until > clock

\* authenticate_user after a wrong password: the count read, plus one, and the lock.
CountedTooLate(row) ==                                                            \* mutant
    [row EXCEPT !.fails = @ + 1, !.until = IF row.fails > MaxAttempts
                                           THEN clock + LockoutDuration ELSE @]
Counted(row) ==
    [row EXCEPT !.fails = @ + 1, !.until = IF row.fails + 1 >= MaxAttempts
                                           THEN clock + LockoutDuration ELSE @]

\* login: an unknown account is a failure that counts nowhere; a locked one is refused before
\* anything is written or audited, which is no step.
BeginLogin(s, u, right) ==
    LET row == account[u]
        request(action, new) ==
            [Idle EXCEPT !.pc = "ready", !.op = "login", !.action = action, !.name = u,
                         !.actor = IF action = "LOGIN_SUCCESS" THEN u ELSE None,
                         !.read = row, !.new = new, !.now = clock]
    IN  \/ /\ ~row.exists
           /\ Open(s, request("LOGIN_FAILED", row))
        \/ /\ row.exists /\ ~LockedOut(row)
           /\ ~right
           /\ Open(s, request("LOGIN_FAILED", Counted(row)))
        \/ /\ row.exists /\ ~LockedOut(row)
           /\ right
           /\ Open(s, request("LOGIN_SUCCESS", [row EXCEPT !.fails = 0, !.until = 0]))

\* create_user: role ids that name no role are dropped without a word.
BeginCreateUser(s, actor, u, wanted) ==
    /\ account[actor].exists
    /\ HasPermission(actor, "user.create")
    /\ Open(s, [Idle EXCEPT !.pc = "insert", !.op = "create_user", !.action = "USER_CREATED",
                            !.actor = actor, !.name = u, !.given = wanted \cap roles])

BeginCreateRole(s, actor, r, codes) ==
    /\ account[actor].exists
    /\ HasPermission(actor, "role.manage")
    /\ Open(s, [Idle EXCEPT !.pc = "insert", !.op = "create_role", !.action = "ROLE_CREATED",
                            !.actor = actor, !.name = r, !.given = codes])

\* The unique name that a request inserts is in a committed row.
Taken(request) == IF request.op = "create_user" THEN account[request.name].exists
                                                ELSE request.name \in roles

\* Another transaction inserted the name and has not ended.
HeldElsewhere(s) ==
    \E t \in Sessions \ {s} :
        /\ session[t].pc \in {"ready", "stamp", "commit"}
        /\ session[t].op = session[s].op
        /\ session[t].name = session[s].name

\* db.flush of the new row: it waits for the other transaction; a taken name ends the request.
Insert(s) ==
    /\ session[s].pc = "insert"
    /\ ~HeldElsewhere(s)
    /\ session' = [session EXCEPT ![s] = IF Taken(session[s]) THEN Idle ELSE [@ EXCEPT !.pc = "ready"]]
    /\ UNCHANGED <<account, assigned, roles, grants, events, clock, chain, stepped, overlapped,
                   misses>>

-----------------------------------------------------------------------------
(***************************************************************************)
(* The audit chain.                                                        *)
(***************************************************************************)

AnyTime(s) == TRUE                                         \* mutant: the advisory lock is dropped
MayAppend(s) == chain = None

\* pg_advisory_xact_lock
LockChain(s) ==
    /\ session[s].pc = "ready"
    /\ MayAppend(s)
    /\ chain' = s
    /\ session' = [session EXCEPT ![s].pc = "stamp"]
    /\ UNCHANGED <<account, assigned, roles, grants, events, clock, stepped, overlapped, misses>>

\* _last_hash: the event with the latest timestamp, one of them if several have it.
LastEvents ==
    IF events = <<>> THEN {0}
    ELSE {i \in DOMAIN events : \A j \in DOMAIN events : events[j].at <= events[i].at}

\* The timestamp, the last event, and the insert.
AppendEvent(s) ==
    /\ session[s].pc = "stamp"
    /\ \E last \in LastEvents :
           session' = [session EXCEPT ![s].pc = "commit", ![s].prev = last, ![s].at = clock]
    /\ UNCHANGED <<account, assigned, roles, grants, events, clock, chain, stepped, overlapped,
                   misses>>

EventOf(request) ==
    [prev |-> request.prev, at |-> request.at, action |-> request.action,
     actor |-> request.actor,
     object |-> IF request.action = "LOGIN_FAILED" THEN None ELSE request.name]

Kept(s) == chain            \* mutant: a lock of the session, that the commit does not release
Released(s) == IF chain = s THEN None ELSE chain

\* The unit of work writes an attribute when it differs from the value read.
Written(row, request) ==
    [row EXCEPT !.fails = IF request.new.fails = request.read.fails THEN @ ELSE request.new.fails,
                !.until = IF request.new.until = request.read.until THEN @ ELSE request.new.until]

Answered(u, request) ==
    IF request.action = "LOGIN_SUCCESS" THEN [n |-> 0, last |-> 0]
    ELSE [n |-> misses[u].n + 1, last |-> request.now]

WritesAccount(request) == request.op = "login" /\ request.read.exists

Commit(s) ==
    LET request == session[s]
        u == request.name
    IN  /\ request.pc = "commit"
        /\ events' = Append(events, EventOf(request))
        /\ account' =
              CASE request.op = "create_user" ->
                     [account EXCEPT ![u] = [NoAccount EXCEPT !.exists = TRUE]]
                [] WritesAccount(request) -> [account EXCEPT ![u] = Written(@, request)]
                [] OTHER -> account
        /\ assigned' = IF request.op = "create_user" THEN [assigned EXCEPT ![u] = request.given]
                                                     ELSE assigned
        /\ roles' = IF request.op = "create_role" THEN roles \cup {u} ELSE roles
        /\ grants' = IF request.op = "create_role"
                     THEN [grants EXCEPT ![u] = request.given] ELSE grants
        /\ IF request.op = "login" /\ request.read.exists
           THEN /\ misses' = [misses EXCEPT ![u] = Answered(u, request)]
                /\ overlapped' = IF account[u] = request.read THEN overlapped
                                 ELSE overlapped \cup {u}
           ELSE UNCHANGED <<misses, overlapped>>
        /\ clock' = clock + 1
        /\ chain' = Released(s)
        /\ session' = [session EXCEPT ![s] = Idle]
        /\ UNCHANGED stepped

\* A statement fails, or the process dies: the transaction is rolled back.
Abandon(s) ==
    /\ session[s].pc # "idle"
    /\ session' = [session EXCEPT ![s] = Idle]
    /\ chain' = Released(s)
    /\ UNCHANGED <<account, assigned, roles, grants, events, clock, stepped, overlapped, misses>>

Tick ==
    /\ clock < Len(events) + MaxTicks
    /\ clock' = clock + 1
    /\ UNCHANGED <<account, assigned, roles, grants, events, chain, session, stepped, overlapped,
                   misses>>

\* The host's clock is set back, once.
StepBack ==
    /\ ~stepped
    /\ clock' \in 0 .. clock
    /\ clock' # clock
    /\ stepped' = TRUE
    /\ UNCHANGED <<account, assigned, roles, grants, events, chain, session, overlapped, misses>>

Begin(s) ==
    \/ \E u \in Users, right \in BOOLEAN : BeginLogin(s, u, right)
    \/ \E a, u \in Users, wanted \in RoleLists : BeginCreateUser(s, a, u, wanted)
    \/ \E a \in Users, r \in Roles, codes \in CodeLists : BeginCreateRole(s, a, r, codes)

Next ==
    \/ \E s \in Sessions : \/ Begin(s) \/ Insert(s) \/ LockChain(s) \/ AppendEvent(s)
                           \/ Commit(s) \/ Abandon(s)
    \/ Tick
    \/ StepBack

\* A request's thread goes on; PostgreSQL queues those that wait for a lock or for a key.
Fairness ==
    \A s \in Sessions : /\ WF_vars(AppendEvent(s)) /\ WF_vars(Commit(s))
                        /\ SF_vars(LockChain(s)) /\ SF_vars(Insert(s))

Spec == Init /\ [][Next]_vars
FairSpec == Spec /\ Fairness

-----------------------------------------------------------------------------
(***************************************************************************)
(* Properties.                                                             *)
(***************************************************************************)

Row == [exists : BOOLEAN, fails : Nat, until : Nat]
Event == [prev : Nat, at : Nat,
          action : {"LOGIN_FAILED", "LOGIN_SUCCESS", "USER_CREATED", "ROLE_CREATED"},
          actor : Users \cup {None}, object : Users \cup Roles \cup {None}]

\* Rows, events and requests have their types; the lock's holder is the one request that is
\* between pg_advisory_xact_lock and the end of its transaction.
TypeOK ==
    /\ account \in [Users -> Row]
    /\ assigned \in [Users -> SUBSET Roles]
    /\ roles \subseteq Roles
    /\ grants \in [Roles -> SUBSET Codes]
    /\ events \in Seq(Event)
    /\ clock \in Nat
    /\ stepped \in BOOLEAN
    /\ overlapped \subseteq Users
    /\ \A s \in Sessions : session[s].pc \in {"idle", "insert", "ready", "stamp", "commit"}
    /\ \A s \in Sessions : chain = s <=> session[s].pc \in {"stamp", "commit"}

\* The audit log is one chain: every event is chained to the one committed before it, so no
\* two events share a predecessor and a walk from the last event meets them all.  It takes
\* the advisory lock, held until the commit, and a clock that is never set back
\* (record_audit_event, _last_hash).
ChainLinear == ~stepped => \A i \in DOMAIN events : events[i].prev = i - 1

\* However logins of different accounts, other requests and failures interleave, the failure
\* count of an account is the number of wrong passwords answered since its last success, and
\* it is locked from the MaxAttempts-th of them for LockoutDuration after the last, unless a
\* login of the account wrote over what another had committed (authenticate_user, login).
LockoutFollowsMisses ==
    \A u \in Users \ overlapped :
        /\ account[u].fails = misses[u].n
        /\ account[u].until = IF misses[u].n >= MaxAttempts THEN misses[u].last + LockoutDuration
                                                            ELSE 0

\* Every account and role created is in the audit log once, and the event names a user who
\* has the permission (require_permission, create_user, create_role, with their unique names).
CreationsOf(action, object) ==
    {i \in DOMAIN events : events[i].action = action /\ events[i].object = object}
CreationsAudited ==
    /\ \A u \in Users \ SeedUsers : account[u].exists =>
           /\ Cardinality(CreationsOf("USER_CREATED", u)) = 1
           /\ \A i \in CreationsOf("USER_CREATED", u) :
                  events[i].actor \in Superusers
                  \/ "user.create" \in Permissions(events[i].actor)
    /\ \A r \in roles \ SeedRoles :
           /\ Cardinality(CreationsOf("ROLE_CREATED", r)) = 1
           /\ \A i \in CreationsOf("ROLE_CREATED", r) :
                  events[i].actor \in Superusers
                  \/ "role.manage" \in Permissions(events[i].actor)

\* A lock in force is not lifted or shortened before it expires, by a login that was in
\* progress when it was set or by any later one, with the same exception (authenticate_user).
LockHolds ==
    [][\A u \in Users :
          (account[u].until > clock /\ ~stepped' /\ u \notin overlapped')
              => account'[u].until >= account[u].until]_vars

\* Every request ends, although they all wait for one lock, and for one another's names: the
\* lock is the last thing that a request waits for, and its commit releases it
\* (record_audit_event, and the callers' db.commit).
RequestEnds == \A s \in Sessions : session[s].pc # "idle" ~> session[s].pc = "idle"
=============================================================================
