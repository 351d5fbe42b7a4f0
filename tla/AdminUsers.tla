------------------------------ MODULE AdminUsers ------------------------------
(***************************************************************************)
(* Administration of user accounts: PATCH, DELETE and POST .../password on  *)
(* /admin/users/{id} (api/v1/admin/users.py, services/admin_user_service.py)*)
(* as PostgreSQL runs them.  A request is one READ COMMITTED transaction:   *)
(* each statement reads the rows committed when it starts, row locks are    *)
(* kept until the transaction ends, and every change becomes visible at     *)
(* Commit.  Between two statements any other request may take a step.       *)
(***************************************************************************)
EXTENDS Naturals, FiniteSets

CONSTANTS
    Users,       \* primary keys of the users table, in the order of ORDER BY id
    Requests,    \* admin requests, each handled once
    Operations,  \* the operations an admin may ask for
    Nobody       \* NULL in admin_audit.actor_id

Roles    == {"admin", "user"}
Statuses == {"active", "disabled"}

\* A row of users: what the handlers read and write of it.
Row   == [exists: BOOLEAN, role: Roles, status: Statuses, ver: Nat]
NoRow == [exists |-> FALSE, role |-> "user", status |-> "disabled", ver |-> 0]
NewUser(role, status) ==
    [exists |-> TRUE, role |-> role, status |-> status, ver |-> 0]

\* What a request asks for; "keep" is a field the PATCH body leaves out.
Operation ==
    [kind: {"update"}, role: Roles \cup {"keep"}, status: Statuses \cup {"keep"}]
      \cup [kind: {"reset", "remove"}, role: {"keep"}, status: {"keep"}]

ASSUME UsersAssumption      == Users \subseteq Nat
ASSUME OperationsAssumption == Operations \subseteq Operation /\ Operations # {}
ASSUME NobodyAssumption     == Nobody \notin Users

VARIABLES
    users,    \* the committed users table
    audit,    \* the committed admin_audit table
    locks,    \* locks[r][u]: the row lock request r holds on user u
    pc,       \* how far the handler of each request is
    req,      \* actor, target and operation of each request
    loaded,   \* the target as the handler loaded it
    scan,     \* rows its SELECT ... FOR UPDATE has still to lock
    found     \* active admins its SELECT ... FOR UPDATE returned

vars == <<users, audit, locks, pc, req, loaded, scan, found>>

\* The flush of a request runs "write" then "audit", or "audit_first" then "write_last".
Writing  == {"write", "write_last"}
Auditing == {"audit", "audit_first"}
Final    == {"committed", "failed"}
Stages   == {"idle", "authorised", "guarding", "locking", "commit"}
              \cup Writing \cup Auditing \cup Final

NextStage(stage) ==
    CASE stage = "write"       -> "audit"
      [] stage = "audit_first" -> "write_last"
      [] OTHER                 -> "commit"

ActiveAdmin(row) == row.exists /\ row.role = "admin" /\ row.status = "active"
ActiveAdmins == {u \in Users : ActiveAdmin(users[u])}

-------------------------------------------------------------------------------
(* Row locks of PostgreSQL, weakest first: a foreign-key check takes KEY SHARE, *)
(* an UPDATE of other columns NO KEY UPDATE, DELETE and SELECT FOR UPDATE       *)
(* take UPDATE.                                                                 *)

Modes == {"none", "keyshare", "nokey", "update"}

Conflicts(m, n) ==
    \/ m = "update" /\ n # "none"
    \/ n = "update" /\ m # "none"
    \/ m = "nokey" /\ n = "nokey"

Blockers(r, u, m) == {s \in Requests \ {r} : Conflicts(locks[s][u], m)}

Stronger(m, n) ==
    IF m = "update" \/ (m = "nokey" /\ n = "keyshare") THEN m ELSE n

TakeLock(r, u, m) == locks' = [locks EXCEPT ![r][u] = Stronger(@, m)]

\* Mutant: the session is left open, and its locks with it.
ReleaseLocks_Leaked(r) == UNCHANGED locks

ReleaseLocks(r) == locks' = [locks EXCEPT ![r] = [u \in Users |-> "none"]]

-------------------------------------------------------------------------------
RemovesAdminAccess(o) == o.status = "disabled" \/ o.role = "user"

NeedsGuard(o) == o.kind = "remove" \/ RemovesAdminAccess(o)

\* A field after the PATCH, as the handler sees it; the unit of work writes only
\* the columns whose value now differs from the loaded one.
Patched(new, old)    == IF new = "keep" THEN old ELSE new
Overwrites(new, old) == Patched(new, old) # old

NetChange(o, old) ==
    o.kind = "update" => Overwrites(o.role, old.role) \/ Overwrites(o.status, old.status)

\* Mutant: every column is written back as it was loaded.
NewRow_WholeRow(o, old, row) ==
    CASE o.kind = "update" -> [old EXCEPT !.role   = Patched(o.role, @),
                                          !.status = Patched(o.status, @)]
      [] o.kind = "reset"  -> [row EXCEPT !.ver = @ + 1]
      [] o.kind = "remove" -> NoRow

\* The row the transaction leaves behind, given the row it found under its lock.
NewRow(o, old, row) ==
    CASE o.kind = "update" ->
           [row EXCEPT !.role   = IF Overwrites(o.role, old.role) THEN o.role ELSE @,
                       !.status = IF Overwrites(o.status, old.status) THEN o.status ELSE @]
      [] o.kind = "reset"  -> [row EXCEPT !.ver = @ + 1]
      [] o.kind = "remove" -> NoRow

ActionFor(o, old) ==
    CASE o.kind = "reset"  -> "password_reset"
      [] o.kind = "remove" -> "deleted"
      [] OTHER ->
           IF Overwrites(o.role, old.role)
             THEN IF o.role = "admin" THEN "promoted" ELSE "demoted"
             ELSE IF Patched(o.status, old.status) = "active"
                    THEN "enabled" ELSE "disabled"

Actions == {"enabled", "disabled", "promoted", "demoted", "password_reset", "deleted"}

Request  == [actor: Users, target: Users, op: Operations]
AuditRow == [req: Requests, actor: Users \cup {Nobody}, target: Users, action: Actions]

-------------------------------------------------------------------------------
Init ==
    /\ users \in [Users -> {NewUser(x, y) : x \in Roles, y \in Statuses}]
    /\ ActiveAdmins # {}
    /\ audit = {}
    /\ locks = [r \in Requests |-> [u \in Users |-> "none"]]
    /\ pc = [r \in Requests |-> "idle"]
    /\ req = [r \in Requests |-> CHOOSE q \in Request : TRUE]
    /\ loaded = [r \in Requests |-> NoRow]
    /\ scan = [r \in Requests |-> {}]
    /\ found = [r \in Requests |-> {}]

\* The request ends and its transaction is rolled back: nothing it did remains.
Fail(r) ==
    /\ pc' = [pc EXCEPT ![r] = "failed"]
    /\ ReleaseLocks(r)
    /\ UNCHANGED <<users, audit, req, loaded, scan, found>>

\* require_fresh_admin: the actor's row is read once, here, and never again.
Receive(r) ==
    /\ pc[r] = "idle"
    /\ \E q \in Request :
          /\ ActiveAdmin(users[q.actor])
          /\ req' = [req EXCEPT ![r] = q]
    /\ pc' = [pc EXCEPT ![r] = "authorised"]
    /\ UNCHANGED <<users, audit, locks, loaded, scan, found>>

\* Where the flush starts.  PATCH flushes the UPDATE and the INSERT at once, and no
\* relationship() between the two models orders them; the others flush the row first.
FirstStages(o, old) ==
    IF ~NetChange(o, old) THEN {"audit"}
    ELSE IF o.kind = "update" THEN {"write", "audit_first"} ELSE {"write"}

Guarded(q, row) == NeedsGuard(q.op) /\ row.role = "admin"
ModifiesSelf(q) == NeedsGuard(q.op) /\ q.target = q.actor

\* _load, then _guard_lockout up to its early return.
Load(r) ==
    LET q   == req[r]
        row == users[q.target]
    IN  /\ pc[r] = "authorised"
        /\ IF row.exists /\ ~ModifiesSelf(q)
             THEN /\ loaded' = [loaded EXCEPT ![r] = row]
                  /\ \E stage \in IF Guarded(q, row) THEN {"guarding"}
                                                     ELSE FirstStages(q.op, row) :
                        pc' = [pc EXCEPT ![r] = stage]
                  /\ UNCHANGED <<users, audit, locks, req, scan, found>>
             ELSE Fail(r)

\* SELECT ... FOR UPDATE: its snapshot fixes the rows it will try to lock ...
LockActiveAdmins(r) ==
    /\ pc[r] = "guarding"
    /\ scan' = [scan EXCEPT ![r] = ActiveAdmins]
    /\ pc' = [pc EXCEPT ![r] = "locking"]
    /\ UNCHANGED <<users, audit, locks, req, loaded, found>>

\* Mutant: the SELECT has no ORDER BY.
NextInScan_Unordered(r, u) == u \in scan[r]

\* ... in the order of their ids ...
NextInScan(r, u) == u \in scan[r] /\ \A v \in scan[r] : u <= v

\* Mutant: a plain SELECT, without FOR UPDATE.
LockNext_PlainSelect(r, u) ==
    /\ pc[r] = "locking"
    /\ NextInScan(r, u)
    /\ found' = [found EXCEPT ![r] = @ \cup {u}]
    /\ scan' = [scan EXCEPT ![r] = @ \ {u}]
    /\ UNCHANGED <<users, audit, locks, pc, req, loaded>>

\* ... each locked in its newest version, and returned if that one still matches.
LockNext(r, u) ==
    /\ pc[r] = "locking"
    /\ NextInScan(r, u)
    /\ Blockers(r, u, "update") = {}
    /\ IF users[u].exists THEN TakeLock(r, u, "update") ELSE UNCHANGED locks
    /\ found' = [found EXCEPT ![r] = IF ActiveAdmin(users[u]) THEN @ \cup {u} ELSE @]
    /\ scan' = [scan EXCEPT ![r] = @ \ {u}]
    /\ UNCHANGED <<users, audit, pc, req, loaded>>

\* Mutant: the target is counted among the admins that remain.
OthersFound_TargetCounts(r) == found[r]

OthersFound(r) == found[r] \ {req[r].target}

\* The rest of _guard_lockout: LastAdminError unless another active admin is locked.
Decide(r) ==
    /\ pc[r] = "locking"
    /\ scan[r] = {}
    /\ IF OthersFound(r) # {}
         THEN /\ \E stage \in FirstStages(req[r].op, loaded[r]) :
                    pc' = [pc EXCEPT ![r] = stage]
              /\ UNCHANGED <<users, audit, locks, req, loaded, scan, found>>
         ELSE Fail(r)

WriteMode(o) == IF o.kind = "remove" THEN "update" ELSE "nokey"

\* The UPDATE or DELETE of the target.  When the row is gone, an UPDATE that matches
\* no row fails the flush (StaleDataError); a DELETE that matches none only warns.
Write(r) ==
    LET u    == req[r].target
        mode == WriteMode(req[r].op)
    IN  /\ pc[r] \in Writing
        /\ Blockers(r, u, mode) = {}
        /\ IF users[u].exists \/ req[r].op.kind = "remove"
             THEN /\ IF users[u].exists THEN TakeLock(r, u, mode) ELSE UNCHANGED locks
                  /\ pc' = [pc EXCEPT ![r] = NextStage(@)]
                  /\ UNCHANGED <<users, audit, req, loaded, scan, found>>
             ELSE Fail(r)

\* The INSERT into admin_audit, whose foreign key needs the actor's row.
WriteAudit(r) ==
    LET a == req[r].actor
    IN  /\ pc[r] \in Auditing
        /\ Blockers(r, a, "keyshare") = {}
        /\ IF users[a].exists
             THEN /\ TakeLock(r, a, "keyshare")
                  /\ pc' = [pc EXCEPT ![r] = NextStage(@)]
                  /\ UNCHANGED <<users, audit, req, loaded, scan, found>>
             ELSE Fail(r)

\* ON DELETE SET NULL.
Orphaned(rows, u) == {[a EXCEPT !.actor = IF @ = u THEN Nobody ELSE @] : a \in rows}

Entry(r) == [req    |-> r,
             actor  |-> req[r].actor,
             target |-> req[r].target,
             action |-> ActionFor(req[r].op, loaded[r])]

Commit(r) ==
    LET u == req[r].target
        o == req[r].op
    IN  /\ pc[r] = "commit"
        /\ users' = [users EXCEPT ![u] = NewRow(o, loaded[r], @)]
        /\ audit' = (IF o.kind = "remove" THEN Orphaned(audit, u) ELSE audit)
                       \cup {Entry(r)}
        /\ ReleaseLocks(r)
        /\ pc' = [pc EXCEPT ![r] = "committed"]
        /\ UNCHANGED <<req, loaded, scan, found>>

-------------------------------------------------------------------------------
\* The requests that r waits for, if it is blocked in its next statement.
WaitsFor(r) ==
    CASE pc[r] = "locking" -> UNION {Blockers(r, u, "update") :
                                       u \in {v \in scan[r] : NextInScan(r, v)}}
      [] pc[r] \in Writing -> Blockers(r, req[r].target, WriteMode(req[r].op))
      [] pc[r] \in Auditing -> Blockers(r, req[r].actor, "keyshare")
      [] OTHER -> {}

\* A cycle of waiting requests: each waits for one of them, and no fewer would do.
Waiting(S)  == \A r \in S : WaitsFor(r) \cap S # {}
Deadlock(S) == /\ S # {}
               /\ Waiting(S)
               /\ \A T \in (SUBSET S) \ {{}, S} : ~Waiting(T)

\* PostgreSQL's deadlock detector aborts one request of a cycle.
BreakDeadlock ==
    \E S \in SUBSET Requests : Deadlock(S) /\ \E r \in S : Fail(r)

\* Any other error, a lost connection or a stopped process: get_session rolls back.
Abort(r) == pc[r] \notin Final \cup {"idle"} /\ Fail(r)

Finished == (\A r \in Requests : pc[r] \in Final) /\ UNCHANGED vars

Advance(r) ==
    \/ Load(r)
    \/ LockActiveAdmins(r)
    \/ \E u \in Users : LockNext(r, u)
    \/ Decide(r)
    \/ Write(r)
    \/ WriteAudit(r)
    \/ Commit(r)

Next ==
    \/ \E r \in Requests : Receive(r) \/ Advance(r) \/ Abort(r)
    \/ BreakDeadlock
    \/ Finished

Spec == Init /\ [][Next]_vars

\* A statement runs once its locks are free, and deadlock_timeout ends every cycle.
Fairness == (\A r \in Requests : WF_vars(Advance(r))) /\ WF_vars(BreakDeadlock)

FairSpec == Spec /\ Fairness

-------------------------------------------------------------------------------
(* Properties.                                                               *)

TypeOK ==
    /\ users \in [Users -> Row]
    /\ audit \subseteq AuditRow
    /\ locks \in [Requests -> [Users -> Modes]]
    /\ pc \in [Requests -> Stages]
    /\ req \in [Requests -> Request]
    /\ loaded \in [Requests -> Row]
    /\ scan \in [Requests -> SUBSET Users]
    /\ found \in [Requests -> SUBSET Users]

\* There is always somebody who can administer the system: what the guard, its
\* comment at admin_user_service.py:116 and the design note (5.1) promise.
NoLockout == ActiveAdmins # {}

\* An administrator can be missing only after somebody was promoted: against requests
\* that demote, disable and delete alone, in any number and order, the guard is enough.
LockoutNeedsPromotion ==
    ActiveAdmins = {} => \E a \in audit : a.action = "promoted"

\* A change that went through the last-admin check leaves an active admin behind,
\* whatever the other requests did between the check and the commit: the rows that
\* lock_active_admin_ids returned are still active admins when the change commits.
GuardedChangeKeepsAnAdmin ==
    [][\A r \in Requests :
          Commit(r) /\ Guarded(req[r], loaded[r]) => ActiveAdmins' # {}]_vars

\* Two requests in the last-admin check never wait for each other, because both lock
\* the admins in the order of their ids (ORDER BY id in lock_active_admin_ids).
GuardsNeverDeadlock ==
    \A S \in SUBSET Requests :
        Deadlock(S) => \E r \in S : pc[r] # "locking"

\* Each request acts on the committed tables as one atomic, truthfully recorded step.
Ledger == INSTANCE UserLedger WITH Users <- Users, Requests <- Requests, Nobody <- Nobody,
                                   users <- users, audit <- audit
LedgerSpec == Ledger!Spec

\* Every request that was let in is answered, whatever it has to wait for.
EveryRequestEnds ==
    \A r \in Requests : pc[r] = "authorised" ~> pc[r] \in Final

===============================================================================
