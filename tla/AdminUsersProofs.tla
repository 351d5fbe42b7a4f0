--------------------------- MODULE AdminUsersProofs ---------------------------
(***************************************************************************)
(* Theorems about AdminUsers, for any number of accounts and requests.      *)
(* The inductive invariant says what the row locks protect: an admin that   *)
(* the last-admin check returned stays one until the checking request ends. *)
(***************************************************************************)
EXTENDS AdminUsers, WellFoundedInduction, TLAPS

Flushing == {"commit"} \cup Writing \cup Auditing

\* No two requests hold conflicting locks on one row.
LocksCompatible ==
    \A r, s \in Requests : r # s =>
        \A u \in Users : ~Conflicts(locks[r][u], locks[s][u])

\* The admins a running check has returned are locked, and are still admins.
FoundStaysAdmin ==
    \A r \in Requests : pc[r] \notin Final =>
        \A u \in found[r] : locks[r][u] = "update" /\ ActiveAdmin(users[u])

\* A request past the check has found an admin besides its target.
GuardPassed ==
    \A r \in Requests :
        pc[r] \in Flushing /\ Guarded(req[r], loaded[r]) => OthersFound(r) # {}

\* A target is written under a lock, unless it is gone and there is nothing to write.
WrittenUnderLock ==
    \A r \in Requests :
        pc[r] \in {"audit", "commit"} /\ NetChange(req[r].op, loaded[r]) =>
            \/ /\ users[req[r].target].exists
               /\ locks[r][req[r].target] \in {"nokey", "update"}
            \/ ~users[req[r].target].exists /\ req[r].op.kind = "remove"

Inv == LocksCompatible /\ FoundStaysAdmin /\ GuardPassed /\ WrittenUnderLock

IInv == TypeOK /\ Inv

\* Until somebody is promoted, an account loaded as a plain user stays one.
NobodyPromoted == \A a \in audit : a.action # "promoted"

PastLoad == Flushing \cup {"guarding", "locking"}

PlainStaysPlain ==
    \A r \in Requests :
        pc[r] \in PastLoad /\ NeedsGuard(req[r].op) /\ loaded[r].role # "admin" =>
            users[req[r].target].role = "user"

-------------------------------------------------------------------------------
(* Facts about single operators.                                             *)

LEMMA StrongerType ==
    ASSUME NEW m \in Modes, NEW n \in Modes
    PROVE  Stronger(m, n) \in Modes
BY DEF Stronger

\* A stronger lock conflicts with nothing that neither lock conflicted with.
LEMMA StrongerConflicts ==
    ASSUME NEW m \in Modes, NEW n \in Modes, NEW k \in Modes,
           ~Conflicts(m, k), ~Conflicts(n, k)
    PROVE  ~Conflicts(Stronger(m, n), k)
BY DEF Stronger, Conflicts, Modes

LEMMA RequestExists == Users # {} => (CHOOSE q \in Request : TRUE) \in Request
<1> SUFFICES ASSUME Users # {} PROVE \E q \in Request : TRUE
  OBVIOUS
<1>1. PICK u \in Users, o \in Operations : TRUE
  BY OperationsAssumption
<1>2. [actor |-> u, target |-> u, op |-> o] \in Request
  BY DEF Request
<1> QED
  BY <1>2

LEMMA NewRowType ==
    ASSUME NEW o \in Operations, NEW old \in Row, NEW row \in Row
    PROVE  NewRow(o, old, row) \in Row
<1>1. o \in Operation
  BY OperationsAssumption
<1>2. CASE o.kind = "update"
  <2>1. o.role \in Roles \cup {"keep"} /\ o.status \in Statuses \cup {"keep"}
    BY <1>1 DEF Operation
  <2>2. NewRow(o, old, row) =
          [row EXCEPT !.role   = IF Overwrites(o.role, old.role) THEN o.role ELSE @,
                      !.status = IF Overwrites(o.status, old.status) THEN o.status ELSE @]
    BY <1>2 DEF NewRow
  <2>3. Overwrites(o.role, old.role) => o.role \in Roles
    BY <2>1 DEF Overwrites, Patched
  <2>4. Overwrites(o.status, old.status) => o.status \in Statuses
    BY <2>1 DEF Overwrites, Patched
  <2> QED
    BY <2>2, <2>3, <2>4 DEF Row
<1>3. CASE o.kind = "reset"
  BY <1>3 DEF NewRow, Row
<1>4. CASE o.kind = "remove"
  BY <1>4 DEF NewRow, NoRow, Row, Roles, Statuses
<1> QED
  BY <1>1, <1>2, <1>3, <1>4 DEF Operation

LEMMA ActionForType ==
    ASSUME NEW o \in Operations, NEW old \in Row
    PROVE  ActionFor(o, old) \in Actions
BY DEF ActionFor, Actions

\* Deleted accounts stay deleted, and nothing but a written column or a DELETE
\* changes a row.
LEMMA NewRowKeeps ==
    ASSUME NEW o \in Operations, NEW old \in Row, NEW row \in Row
    PROVE  /\ NewRow(o, old, row).exists => row.exists
           /\ ~NetChange(o, old) => NewRow(o, old, row) = row
<1>1. o \in Operation
  BY OperationsAssumption
<1> QED
  BY <1>1 DEF NewRow, NoRow, NetChange, Row, Operation

-------------------------------------------------------------------------------
(* How the actions change the locks.                                         *)

LEMMA TakeLockOK ==
    ASSUME TypeOK, LocksCompatible, NEW r \in Requests, NEW u \in Users,
           NEW m \in Modes, Blockers(r, u, m) = {}, TakeLock(r, u, m)
    PROVE  /\ locks' \in [Requests -> [Users -> Modes]]
           /\ LocksCompatible'
           /\ \A s \in Requests, v \in Users :
                 (s # r \/ v # u) => locks'[s][v] = locks[s][v]
           /\ locks'[r][u] = Stronger(locks[r][u], m)
<1>1. locks[r][u] \in Modes /\ Stronger(locks[r][u], m) \in Modes
  BY StrongerType DEF TypeOK
<1>2. locks' = [locks EXCEPT ![r][u] = Stronger(locks[r][u], m)]
  BY DEF TakeLock
<1>3. locks' \in [Requests -> [Users -> Modes]]
  BY <1>1, <1>2 DEF TypeOK
<1>4. \A s \in Requests, v \in Users :
        (s # r \/ v # u) => locks'[s][v] = locks[s][v]
  BY <1>2 DEF TypeOK
<1>5. locks'[r][u] = Stronger(locks[r][u], m)
  BY <1>2 DEF TypeOK
<1>6. ASSUME NEW s \in Requests, s # r
      PROVE  /\ ~Conflicts(locks'[r][u], locks'[s][u])
             /\ ~Conflicts(locks'[s][u], locks'[r][u])
  <2>1. ~Conflicts(locks[s][u], m) /\ ~Conflicts(m, locks[s][u])
    BY <1>6 DEF Blockers, Conflicts
  <2>2. ~Conflicts(locks[r][u], locks[s][u])
    BY <1>6 DEF LocksCompatible
  <2>3. locks[s][u] \in Modes
    BY DEF TypeOK
  <2>4. ~Conflicts(Stronger(locks[r][u], m), locks[s][u])
    BY <1>1, <2>1, <2>2, <2>3, StrongerConflicts
  <2> QED
    BY <1>4, <1>5, <1>6, <2>4 DEF Conflicts
<1>7. LocksCompatible'
  BY <1>4, <1>6 DEF LocksCompatible
<1> QED
  BY <1>3, <1>4, <1>5, <1>7

LEMMA ReleaseLocksOK ==
    ASSUME TypeOK, LocksCompatible, NEW r \in Requests, ReleaseLocks(r)
    PROVE  /\ locks' \in [Requests -> [Users -> Modes]]
           /\ LocksCompatible'
           /\ \A s \in Requests : s # r => locks'[s] = locks[s]
<1>1. locks' = [locks EXCEPT ![r] = [u \in Users |-> "none"]]
  BY DEF ReleaseLocks
<1>2. locks' \in [Requests -> [Users -> Modes]]
  BY <1>1 DEF TypeOK, Modes
<1>3. \A s \in Requests : s # r => locks'[s] = locks[s]
  BY <1>1 DEF TypeOK
<1>4. \A u \in Users : locks'[r][u] = "none"
  BY <1>1 DEF TypeOK
<1>5. LocksCompatible'
  BY <1>3, <1>4 DEF LocksCompatible, Conflicts
<1> QED
  BY <1>2, <1>3, <1>5

-------------------------------------------------------------------------------
(* Type correctness.                                                         *)

LEMMA InitType == Init => TypeOK
<1> SUFFICES ASSUME Init PROVE TypeOK
  OBVIOUS
<1>1. users \in [Users -> Row]
  <2> DEFINE Fresh == {NewUser(x, y) : x \in Roles, y \in Statuses}
  <2>1. ASSUME NEW row \in Fresh PROVE row \in Row
    <3>1. PICK x \in Roles, y \in Statuses : row = NewUser(x, y)
      OBVIOUS
    <3>2. NewUser(x, y) \in Row
      BY DEF NewUser, Row
    <3> QED
      BY <3>1, <3>2
  <2>2. users \in [Users -> Fresh]
    BY DEF Init
  <2> HIDE DEF Fresh
  <2> QED
    BY <2>1, <2>2
<1>2. req \in [Requests -> Request]
  BY RequestExists DEF Init, ActiveAdmins
<1>3. loaded \in [Requests -> Row]
  BY DEF Init, Row, NoRow, Roles, Statuses
<1> QED
  BY <1>1, <1>2, <1>3 DEF Init, TypeOK, Modes, Stages

LEMMA FirstStagesType ==
    ASSUME NEW o, NEW old, NEW stage \in FirstStages(o, old)
    PROVE  stage \in Stages /\ stage \in Flushing /\ stage \notin {"commit", "write_last"}
                /\ (stage = "audit" => ~NetChange(o, old))
BY DEF FirstStages, Stages, Flushing, Writing, Auditing

LEMMA NextStageType ==
    ASSUME NEW stage \in Writing \cup Auditing
    PROVE  NextStage(stage) \in Stages /\ NextStage(stage) \in Flushing
BY DEF NextStage, Stages, Flushing, Writing, Auditing

LEMMA FailType ==
    ASSUME TypeOK, LocksCompatible, NEW r \in Requests, Fail(r)
    PROVE  TypeOK'
<1>1. locks' \in [Requests -> [Users -> Modes]]
  BY ReleaseLocksOK DEF Fail
<1> QED
  BY <1>1 DEF Fail, TypeOK, Stages, Final

LEMMA CommitType ==
    ASSUME TypeOK, LocksCompatible, NEW r \in Requests, Commit(r)
    PROVE  TypeOK'
<1>1. locks' \in [Requests -> [Users -> Modes]]
  BY ReleaseLocksOK DEF Commit
<1>2. req[r] \in Request /\ req[r].target \in Users /\ req[r].actor \in Users
         /\ req[r].op \in Operations
  BY DEF TypeOK, Request
<1>3. users' \in [Users -> Row]
  BY <1>2, NewRowType DEF Commit, TypeOK
<1>4. Entry(r) \in AuditRow
  BY <1>2, ActionForType DEF Entry, AuditRow, TypeOK
<1>5. Orphaned(audit, req[r].target) \subseteq AuditRow
  BY DEF Orphaned, AuditRow, TypeOK
<1>6. audit' \subseteq AuditRow
  BY <1>4, <1>5 DEF Commit, TypeOK
<1> QED
  BY <1>1, <1>3, <1>6 DEF Commit, TypeOK, Stages, Final

-------------------------------------------------------------------------------
(* Each action preserves the invariant.                                      *)

LEMMA StrongerKeeps ==
    ASSUME NEW m \in Modes, NEW n \in Modes \ {"none"}
    PROVE  /\ m = "update" \/ n = "update" => Stronger(m, n) = "update"
           /\ m \in {"nokey", "update"} \/ n = "nokey" => Stronger(m, n) \in {"nokey", "update"}
BY DEF Stronger, Modes

LEMMA FailInv ==
    ASSUME IInv, NEW r \in Requests, pc[r] \notin Final, Fail(r)
    PROVE  IInv'
<1>1. TypeOK' /\ LocksCompatible' /\ \A s \in Requests : s # r => locks'[s] = locks[s]
  BY FailType, ReleaseLocksOK DEF Fail, IInv, Inv
<1>2. \A s \in Requests : pc'[s] = IF s = r THEN "failed" ELSE pc[s]
  BY DEF Fail, IInv, TypeOK
<1>3. FoundStaysAdmin'
  BY <1>1, <1>2 DEF Fail, IInv, Inv, FoundStaysAdmin, Final
<1>4. GuardPassed'
  BY <1>2 DEF Fail, IInv, Inv, GuardPassed, OthersFound, Flushing, Writing, Auditing
<1>5. WrittenUnderLock'
  BY <1>1, <1>2 DEF Fail, IInv, Inv, WrittenUnderLock
<1> QED
  BY <1>1, <1>3, <1>4, <1>5 DEF IInv, Inv

LEMMA ReceiveInv ==
    ASSUME IInv, NEW r \in Requests, Receive(r)
    PROVE  IInv'
<1>1. PICK q \in Request : req' = [req EXCEPT ![r] = q]
  BY DEF Receive
<1>2. \A s \in Requests : /\ pc'[s] = IF s = r THEN "authorised" ELSE pc[s]
                          /\ req'[s] = IF s = r THEN q ELSE req[s]
  BY <1>1 DEF Receive, IInv, TypeOK
<1>3. TypeOK'
  BY <1>1 DEF Receive, IInv, TypeOK, Stages
<1>4. LocksCompatible' /\ FoundStaysAdmin'
  BY <1>2 DEF Receive, IInv, Inv, LocksCompatible, FoundStaysAdmin, Final
<1>5. GuardPassed' /\ WrittenUnderLock'
  BY <1>2 DEF Receive, IInv, Inv, GuardPassed, WrittenUnderLock, OthersFound,
              Flushing, Writing, Auditing
<1> QED
  BY <1>3, <1>4, <1>5 DEF IInv, Inv

LEMMA LoadInv ==
    ASSUME IInv, NEW r \in Requests, Load(r)
    PROVE  IInv'
<1> DEFINE q == req[r]
           row == users[req[r].target]
<1>1. CASE ~(row.exists /\ ~ModifiesSelf(q))
  BY <1>1, FailInv DEF Load, Final
<1>2. CASE row.exists /\ ~ModifiesSelf(q)
  <2>1. PICK stage \in IF Guarded(q, row) THEN {"guarding"} ELSE FirstStages(q.op, row) :
          pc' = [pc EXCEPT ![r] = stage]
    BY <1>2 DEF Load
  <2>2. q \in Request /\ row \in Row
    BY DEF IInv, TypeOK, Request
  <2>3. /\ stage \in Stages
        /\ stage \in Flushing => ~Guarded(q, row)
        /\ stage # "commit"
        /\ stage = "audit" => ~NetChange(q.op, row)
    BY FirstStagesType DEF Stages, Flushing, Writing, Auditing
  <2>4. \A s \in Requests : /\ pc'[s] = IF s = r THEN stage ELSE pc[s]
                            /\ loaded'[s] = IF s = r THEN row ELSE loaded[s]
    BY <1>2, <2>1 DEF Load, IInv, TypeOK
  <2>5. TypeOK'
    BY <1>2, <2>1, <2>2, <2>3 DEF Load, IInv, TypeOK
  <2>6. UNCHANGED <<users, locks, req, found>> /\ pc[r] = "authorised"
    BY <1>2 DEF Load
  <2>7. LocksCompatible' /\ FoundStaysAdmin'
    BY <2>4, <2>6 DEF IInv, Inv, LocksCompatible, FoundStaysAdmin, Final
  <2>8. GuardPassed'
    BY <2>3, <2>4, <2>6 DEF IInv, Inv, GuardPassed, OthersFound
  <2>9. WrittenUnderLock'
    BY <2>3, <2>4, <2>6 DEF IInv, Inv, WrittenUnderLock
  <2> QED
    BY <2>5, <2>7, <2>8, <2>9 DEF IInv, Inv
<1> QED
  BY <1>1, <1>2

LEMMA LockActiveAdminsInv ==
    ASSUME IInv, NEW r \in Requests, LockActiveAdmins(r)
    PROVE  IInv'
<1>1. \A s \in Requests : pc'[s] = IF s = r THEN "locking" ELSE pc[s]
  BY DEF LockActiveAdmins, IInv, TypeOK
<1>2. TypeOK'
  BY DEF LockActiveAdmins, IInv, TypeOK, Stages, ActiveAdmins
<1>3. LocksCompatible' /\ FoundStaysAdmin'
  BY <1>1 DEF LockActiveAdmins, IInv, Inv, LocksCompatible, FoundStaysAdmin, Final
<1>4. GuardPassed' /\ WrittenUnderLock'
  BY <1>1 DEF LockActiveAdmins, IInv, Inv, GuardPassed, WrittenUnderLock, OthersFound,
              Flushing, Writing, Auditing
<1> QED
  BY <1>2, <1>3, <1>4 DEF IInv, Inv

LEMMA DecideInv ==
    ASSUME IInv, NEW r \in Requests, Decide(r)
    PROVE  IInv'
<1>1. CASE OthersFound(r) = {}
  BY <1>1, FailInv DEF Decide, Final
<1>2. CASE OthersFound(r) # {}
  <2>1. PICK stage \in FirstStages(req[r].op, loaded[r]) : pc' = [pc EXCEPT ![r] = stage]
    BY <1>2 DEF Decide
  <2>2. /\ stage \in Stages /\ stage # "commit"
        /\ stage = "audit" => ~NetChange(req[r].op, loaded[r])
    BY FirstStagesType
  <2>3. \A s \in Requests : pc'[s] = IF s = r THEN stage ELSE pc[s]
    BY <2>1 DEF IInv, TypeOK
  <2>4. UNCHANGED <<users, audit, locks, req, loaded, scan, found>> /\ pc[r] = "locking"
    BY <1>2 DEF Decide
  <2>5. TypeOK'
    BY <2>1, <2>2, <2>4 DEF IInv, TypeOK
  <2>6. LocksCompatible' /\ FoundStaysAdmin'
    BY <2>3, <2>4 DEF IInv, Inv, LocksCompatible, FoundStaysAdmin, Final
  <2>7. GuardPassed'
    BY <1>2, <2>3, <2>4 DEF IInv, Inv, GuardPassed, OthersFound
  <2>8. WrittenUnderLock'
    BY <2>2, <2>3, <2>4 DEF IInv, Inv, WrittenUnderLock
  <2> QED
    BY <2>5, <2>6, <2>7, <2>8 DEF IInv, Inv
<1> QED
  BY <1>1, <1>2

LEMMA LockNextInv ==
    ASSUME IInv, NEW r \in Requests, NEW u \in Users, LockNext(r, u)
    PROVE  IInv'
<1>1. /\ locks' \in [Requests -> [Users -> Modes]]
      /\ LocksCompatible'
      /\ \A s \in Requests, v \in Users : s # r => locks'[s][v] = locks[s][v]
      /\ \A v \in Users : locks[r][v] = "update" => locks'[r][v] = "update"
      /\ users[u].exists => locks'[r][u] = "update"
  <2>1. CASE users[u].exists
    <3>1. TakeLock(r, u, "update") /\ Blockers(r, u, "update") = {} /\ "update" \in Modes
      BY <2>1 DEF LockNext, Modes
    <3>2. locks[r][u] \in Modes /\ Stronger(locks[r][u], "update") = "update"
      BY StrongerKeeps DEF IInv, TypeOK, Modes
    <3> QED
      BY <3>1, <3>2, TakeLockOK DEF IInv, Inv
  <2>2. CASE ~users[u].exists
    BY <2>2 DEF LockNext, IInv, Inv, TypeOK, LocksCompatible
  <2> QED
    BY <2>1, <2>2
<1>2. UNCHANGED <<users, audit, pc, req, loaded>> /\ pc[r] = "locking"
  BY DEF LockNext
<1>3. \A s \in Requests :
        found'[s] = IF s = r /\ ActiveAdmin(users[u]) THEN found[s] \cup {u} ELSE found[s]
  BY DEF LockNext, IInv, TypeOK
<1>4. TypeOK'
  BY <1>1 DEF LockNext, IInv, TypeOK
<1>5. FoundStaysAdmin'
  <2> SUFFICES ASSUME NEW s \in Requests, pc[s] \notin Final, NEW v \in found'[s]
               PROVE  locks'[s][v] = "update" /\ ActiveAdmin(users[v])
    BY <1>2 DEF FoundStaysAdmin
  <2>1. CASE v \in found[s]
    BY <1>1, <2>1 DEF IInv, Inv, FoundStaysAdmin, TypeOK
  <2>2. CASE v \notin found[s]
    BY <1>1, <1>3, <2>2 DEF ActiveAdmin
  <2> QED
    BY <2>1, <2>2
<1>6. GuardPassed'
  BY <1>2, <1>3 DEF IInv, Inv, GuardPassed, OthersFound, Flushing, Writing, Auditing
<1>7. WrittenUnderLock'
  BY <1>1, <1>2 DEF IInv, Inv, WrittenUnderLock, TypeOK, Request
<1> QED
  BY <1>1, <1>4, <1>5, <1>6, <1>7 DEF IInv, Inv

\* What a statement of the flush keeps: the locks it leaves are compatible, and no
\* lock of the request becomes weaker.
LEMMA FlushKeeps ==
    ASSUME IInv, NEW r \in Requests, pc[r] \in Writing \cup Auditing,
           UNCHANGED <<users, audit, req, loaded, scan, found>>,
           pc' = [pc EXCEPT ![r] = NextStage(@)],
           locks' \in [Requests -> [Users -> Modes]],
           LocksCompatible',
           \A s \in Requests, v \in Users : s # r => locks'[s][v] = locks[s][v],
           \A v \in Users : locks[r][v] = "update" => locks'[r][v] = "update"
    PROVE  TypeOK' /\ LocksCompatible' /\ FoundStaysAdmin' /\ GuardPassed'
<1>1. NextStage(pc[r]) \in Stages /\ NextStage(pc[r]) \in Flushing
  BY NextStageType
<1>2. \A s \in Requests : pc'[s] = IF s = r THEN NextStage(pc[r]) ELSE pc[s]
  BY DEF IInv, TypeOK
<1>3. TypeOK'
  BY <1>1 DEF IInv, TypeOK
<1>4. pc[r] \notin Final /\ pc[r] \in Flushing
  BY DEF Final, Flushing, Writing, Auditing
<1>5. FoundStaysAdmin'
  <2> SUFFICES ASSUME NEW s \in Requests, pc'[s] \notin Final, NEW v \in found[s]
               PROVE  locks'[s][v] = "update" /\ ActiveAdmin(users[v])
    BY DEF FoundStaysAdmin
  <2>1. pc[s] \notin Final
    BY <1>2, <1>4
  <2>2. v \in Users /\ locks[s][v] = "update" /\ ActiveAdmin(users[v])
    BY <2>1 DEF IInv, Inv, FoundStaysAdmin, TypeOK
  <2> QED
    BY <2>2
<1>6. GuardPassed'
  BY <1>1, <1>2, <1>4 DEF IInv, Inv, GuardPassed, OthersFound
<1> QED
  BY <1>3, <1>5, <1>6

LEMMA WriteInv ==
    ASSUME IInv, NEW r \in Requests, Write(r)
    PROVE  IInv'
<1> DEFINE u == req[r].target
           mode == WriteMode(req[r].op)
<1>1. pc[r] \in Writing /\ Blockers(r, u, mode) = {} /\ u \in Users
  BY DEF Write, IInv, TypeOK, Request
<1>2. mode \in Modes \ {"none"} /\ mode \in {"nokey", "update"}
  BY DEF WriteMode, Modes
<1>3. CASE ~(users[u].exists \/ req[r].op.kind = "remove")
  BY <1>1, <1>3, FailInv DEF Write, Final, Writing
<1>4. CASE users[u].exists \/ req[r].op.kind = "remove"
  <2>1. /\ locks' \in [Requests -> [Users -> Modes]]
        /\ LocksCompatible'
        /\ \A s \in Requests, v \in Users : s # r => locks'[s][v] = locks[s][v]
        /\ \A v \in Users : locks[r][v] = "update" => locks'[r][v] = "update"
        /\ users[u].exists => locks'[r][u] \in {"nokey", "update"}
    <3>1. CASE users[u].exists
      <4>1. TakeLock(r, u, mode)
        BY <1>4, <3>1 DEF Write
      <4>2. /\ locks[r][u] \in Modes
            /\ Stronger(locks[r][u], mode) \in {"nokey", "update"}
            /\ locks[r][u] = "update" => Stronger(locks[r][u], mode) = "update"
        BY <1>1, <1>2, StrongerKeeps DEF IInv, TypeOK
      <4> QED
        BY <1>1, <1>2, <4>1, <4>2, TakeLockOK DEF IInv, Inv
    <3>2. CASE ~users[u].exists
      BY <1>4, <3>2 DEF Write, IInv, Inv, TypeOK, LocksCompatible
    <3> QED
      BY <3>1, <3>2
  <2>2. /\ UNCHANGED <<users, audit, req, loaded, scan, found>>
        /\ pc' = [pc EXCEPT ![r] = NextStage(@)]
    BY <1>4 DEF Write
  <2>3. TypeOK' /\ LocksCompatible' /\ FoundStaysAdmin' /\ GuardPassed'
    BY <1>1, <2>1, <2>2, FlushKeeps
  <2>4. \A s \in Requests : s # r => pc'[s] = pc[s]
    BY <2>2 DEF IInv, TypeOK
  <2>5. WrittenUnderLock'
    <3> SUFFICES ASSUME NEW s \in Requests,
                        pc'[s] \in {"audit", "commit"} /\ NetChange(req[s].op, loaded[s])
                 PROVE  \/ /\ users[req[s].target].exists
                           /\ locks'[s][req[s].target] \in {"nokey", "update"}
                        \/ ~users[req[s].target].exists /\ req[s].op.kind = "remove"
      BY <2>2 DEF WrittenUnderLock
    <3>1. CASE s = r
      BY <1>4, <2>1, <3>1
    <3>2. CASE s # r
      BY <2>1, <2>4, <3>2 DEF IInv, Inv, WrittenUnderLock, TypeOK, Request
    <3> QED
      BY <3>1, <3>2
  <2> QED
    BY <2>3, <2>5 DEF IInv, Inv
<1> QED
  BY <1>3, <1>4

LEMMA WriteAuditInv ==
    ASSUME IInv, NEW r \in Requests, WriteAudit(r)
    PROVE  IInv'
<1> DEFINE a == req[r].actor
<1>1. pc[r] \in Auditing /\ Blockers(r, a, "keyshare") = {} /\ a \in Users
  BY DEF WriteAudit, IInv, TypeOK, Request
<1>2. CASE ~users[a].exists
  BY <1>1, <1>2, FailInv DEF WriteAudit, Final, Auditing
<1>3. CASE users[a].exists
  <2>1. TakeLock(r, a, "keyshare") /\ "keyshare" \in Modes \ {"none"}
    BY <1>3 DEF WriteAudit, Modes
  <2>2. /\ locks[r][a] \in Modes
        /\ locks[r][a] \in {"nokey", "update"} =>
             Stronger(locks[r][a], "keyshare") \in {"nokey", "update"}
        /\ locks[r][a] = "update" => Stronger(locks[r][a], "keyshare") = "update"
    BY <1>1, <2>1, StrongerKeeps DEF IInv, TypeOK
  <2>3. /\ locks' \in [Requests -> [Users -> Modes]]
        /\ LocksCompatible'
        /\ \A s \in Requests, v \in Users :
              (s # r \/ v # a) => locks'[s][v] = locks[s][v]
        /\ locks'[r][a] = Stronger(locks[r][a], "keyshare")
    BY <1>1, <2>1, TakeLockOK DEF IInv, Inv
  <2>4. \A s \in Requests, v \in Users :
          /\ s # r => locks'[s][v] = locks[s][v]
          /\ locks[s][v] = "update" => locks'[s][v] = "update"
          /\ locks[s][v] \in {"nokey", "update"} => locks'[s][v] \in {"nokey", "update"}
    BY <2>2, <2>3
  <2>5. /\ UNCHANGED <<users, audit, req, loaded, scan, found>>
        /\ pc' = [pc EXCEPT ![r] = NextStage(@)]
    BY <1>3 DEF WriteAudit
  <2>6. TypeOK' /\ LocksCompatible' /\ FoundStaysAdmin' /\ GuardPassed'
    BY <1>1, <2>3, <2>4, <2>5, FlushKeeps
  <2>7. /\ \A s \in Requests : s # r => pc'[s] = pc[s]
        /\ pc'[r] \in {"audit", "commit"} => pc[r] = "audit"
    BY <1>1, <2>5 DEF IInv, TypeOK, NextStage, Auditing
  <2>8. WrittenUnderLock'
    <3> SUFFICES ASSUME NEW s \in Requests,
                        pc'[s] \in {"audit", "commit"} /\ NetChange(req[s].op, loaded[s])
                 PROVE  \/ /\ users[req[s].target].exists
                           /\ locks'[s][req[s].target] \in {"nokey", "update"}
                        \/ ~users[req[s].target].exists /\ req[s].op.kind = "remove"
      BY <2>5 DEF WrittenUnderLock
    <3>1. pc[s] \in {"audit", "commit"} /\ req[s].target \in Users
      BY <2>7 DEF IInv, TypeOK, Request
    <3> QED
      BY <2>4, <3>1 DEF IInv, Inv, WrittenUnderLock
  <2> QED
    BY <2>6, <2>8 DEF IInv, Inv
<1> QED
  BY <1>2, <1>3

\* A commit changes one row at most, and only under a lock that no other request's
\* FOR UPDATE lock is compatible with.
LEMMA CommitChanges ==
    ASSUME IInv, NEW r \in Requests, Commit(r)
    PROVE  /\ \A u \in Users : u # req[r].target => users'[u] = users[u]
           /\ users'[req[r].target] = NewRow(req[r].op, loaded[r], users[req[r].target])
           /\ users'[req[r].target] # users[req[r].target] =>
                \/ ~users[req[r].target].exists
                \/ locks[r][req[r].target] \in {"nokey", "update"}
           /\ users'[req[r].target].exists => users[req[r].target].exists
           /\ users' \in [Users -> Row]
<1> DEFINE u == req[r].target
           o == req[r].op
<1>1. u \in Users /\ o \in Operations /\ loaded[r] \in Row /\ users[u] \in Row
  BY DEF IInv, TypeOK, Request
<1>2. users' = [users EXCEPT ![u] = NewRow(o, loaded[r], @)] /\ pc[r] = "commit"
  BY DEF Commit
<1>3. users'[u] = NewRow(o, loaded[r], users[u])
  BY <1>1, <1>2 DEF IInv, TypeOK
<1>4. users'[u].exists => users[u].exists
  BY <1>1, <1>3, NewRowKeeps
<1>5. ASSUME users'[u] # users[u]
      PROVE  ~users[u].exists \/ locks[r][u] \in {"nokey", "update"}
  <2>1. NetChange(o, loaded[r])
    BY <1>1, <1>3, <1>5, NewRowKeeps
  <2> QED
    BY <1>2, <2>1 DEF IInv, Inv, WrittenUnderLock
<1>6. users' \in [Users -> Row]
  BY CommitType DEF IInv, Inv, TypeOK
<1> QED
  BY <1>1, <1>2, <1>3, <1>4, <1>5, <1>6 DEF IInv, TypeOK

LEMMA CommitInv ==
    ASSUME IInv, NEW r \in Requests, Commit(r)
    PROVE  IInv'
<1> DEFINE u == req[r].target
<1>1. TypeOK' /\ LocksCompatible' /\ \A s \in Requests : s # r => locks'[s] = locks[s]
  BY CommitType, ReleaseLocksOK DEF Commit, IInv, Inv
<1>2. \A s \in Requests : pc'[s] = IF s = r THEN "committed" ELSE pc[s]
  BY DEF Commit, IInv, TypeOK
<1>3. UNCHANGED <<req, loaded, scan, found>>
  BY DEF Commit
<1>4. u \in Users
  BY DEF IInv, TypeOK, Request
<1>5. FoundStaysAdmin'
  <2> SUFFICES ASSUME NEW s \in Requests, pc'[s] \notin Final, NEW v \in found[s]
               PROVE  locks'[s][v] = "update" /\ ActiveAdmin(users'[v])
    BY <1>3 DEF FoundStaysAdmin, ActiveAdmin
  <2>1. s # r /\ pc[s] \notin Final
    BY <1>2 DEF Final
  <2>2. v \in Users /\ locks[s][v] = "update" /\ ActiveAdmin(users[v])
    BY <2>1 DEF IInv, Inv, FoundStaysAdmin, TypeOK
  <2>3. users'[v] = users[v]
    <3>1. CASE v # u
      BY <2>2, <3>1, CommitChanges
    <3>2. CASE v = u
      <4>1. users[u].exists
        BY <2>2, <3>2 DEF ActiveAdmin
      <4>2. locks[r][u] \notin {"nokey", "update"}
        BY <2>1, <2>2, <3>2 DEF IInv, Inv, LocksCompatible, Conflicts
      <4> QED
        BY <3>2, <4>1, <4>2, CommitChanges
    <3> QED
      BY <3>1, <3>2
  <2> QED
    BY <1>1, <2>1, <2>2, <2>3
<1>6. GuardPassed'
  BY <1>2, <1>3 DEF IInv, Inv, GuardPassed, OthersFound, Flushing, Writing, Auditing
<1>7. WrittenUnderLock'
  <2> SUFFICES ASSUME NEW s \in Requests,
                      pc'[s] \in {"audit", "commit"} /\ NetChange(req[s].op, loaded[s])
               PROVE  \/ /\ users'[req[s].target].exists
                         /\ locks'[s][req[s].target] \in {"nokey", "update"}
                      \/ ~users'[req[s].target].exists /\ req[s].op.kind = "remove"
    BY <1>3 DEF WrittenUnderLock
  <2>1. s # r /\ pc[s] \in {"audit", "commit"} /\ req[s].target \in Users
    BY <1>2 DEF IInv, TypeOK, Request
  <2>2. \/ /\ users[req[s].target].exists
           /\ locks[s][req[s].target] \in {"nokey", "update"}
        \/ ~users[req[s].target].exists /\ req[s].op.kind = "remove"
    BY <2>1 DEF IInv, Inv, WrittenUnderLock
  <2>3. CASE req[s].target # u
    BY <1>1, <2>1, <2>2, <2>3, CommitChanges
  <2>4. CASE req[s].target = u
    <3>1. CASE users[u].exists
      <4>1. locks[r][u] \notin {"nokey", "update"}
        BY <2>1, <2>2, <2>4, <3>1 DEF IInv, Inv, LocksCompatible, Conflicts
      <4>2. users'[u] = users[u]
        BY <3>1, <4>1, CommitChanges
      <4> QED
        BY <1>1, <2>1, <2>2, <2>4, <4>2
    <3>2. CASE ~users[u].exists
      <4>1. ~users'[u].exists
        BY <3>2, CommitChanges
      <4> QED
        BY <2>2, <2>4, <3>2, <4>1
    <3> QED
      BY <3>1, <3>2
  <2> QED
    BY <2>3, <2>4
<1> QED
  BY <1>1, <1>5, <1>6, <1>7 DEF IInv, Inv

LEMMA StepInv == IInv /\ [Next]_vars => IInv'
<1> SUFFICES ASSUME IInv, [Next]_vars PROVE IInv'
  OBVIOUS
<1>1. CASE UNCHANGED vars
  BY <1>1 DEF vars, IInv, Inv, TypeOK, LocksCompatible, FoundStaysAdmin, GuardPassed,
              WrittenUnderLock, OthersFound
<1>2. ASSUME NEW r \in Requests, Advance(r) PROVE IInv'
  BY <1>2, LoadInv, LockActiveAdminsInv, LockNextInv, DecideInv, WriteInv, WriteAuditInv,
     CommitInv DEF Advance
<1>3. ASSUME NEW r \in Requests, Abort(r) PROVE IInv'
  BY <1>3, FailInv DEF Abort
<1>4. CASE BreakDeadlock
  <2>1. PICK S \in SUBSET Requests : Deadlock(S) /\ \E r \in S : Fail(r)
    BY <1>4 DEF BreakDeadlock
  <2>. PICK r \in S : Fail(r)
    BY <2>1
  <2>2. WaitsFor(r) # {}
    BY <2>1 DEF Deadlock, Waiting
  <2>3. pc[r] \notin Final
    BY <2>2 DEF WaitsFor, Final, Writing, Auditing
  <2> QED
    BY <2>1, <2>3, FailInv
<1>5. CASE Finished
  BY <1>1, <1>5 DEF Finished
<1> QED
  BY <1>1, <1>2, <1>3, <1>4, <1>5, ReceiveInv DEF Next

LEMMA InitInv == Init => IInv
<1> SUFFICES ASSUME Init PROVE Inv
  BY InitType DEF IInv
<1>1. \A r \in Requests : pc[r] = "idle" /\ found[r] = {} /\ \A u \in Users : locks[r][u] = "none"
  BY DEF Init
<1> QED
  BY <1>1 DEF Inv, LocksCompatible, Conflicts, FoundStaysAdmin, GuardPassed, Flushing,
              Writing, Auditing, WrittenUnderLock

-------------------------------------------------------------------------------
(* The theorems.                                                             *)

\* The locks protect what the checks have found, in every reachable state.
THEOREM Invariance == Spec => []IInv
BY InitInv, StepInv, PTL DEF Spec

\* Every variable keeps its type: no interleaving writes a row that is no row.
THEOREM TypeCorrect == Spec => []TypeOK
<1>1. IInv => TypeOK
  BY DEF IInv
<1> QED
  BY <1>1, Invariance, PTL

\* A change that went through the last-admin check always leaves an active admin.
THEOREM GuardIsSound == Spec => GuardedChangeKeepsAnAdmin
<1> DEFINE A == \A r \in Requests :
                  Commit(r) /\ Guarded(req[r], loaded[r]) => ActiveAdmins' # {}
<1>1. IInv => A
  <2> SUFFICES ASSUME IInv, NEW r \in Requests, Commit(r), Guarded(req[r], loaded[r])
               PROVE  ActiveAdmins' # {}
    OBVIOUS
  <2>1. OthersFound(r) # {} /\ pc[r] \notin Final
    BY DEF IInv, Inv, GuardPassed, Commit, Flushing, Final
  <2>2. PICK u \in found[r] : u # req[r].target
    BY <2>1 DEF OthersFound
  <2>3. u \in Users /\ ActiveAdmin(users[u])
    BY <2>1, <2>2 DEF IInv, Inv, FoundStaysAdmin, TypeOK
  <2>4. users'[u] = users[u]
    BY <2>2, <2>3, CommitChanges
  <2> QED
    BY <2>3, <2>4 DEF ActiveAdmins, ActiveAdmin
<1>2. IInv => [A]_vars
  BY <1>1
<1> QED
  BY <1>2, Invariance, PTL DEF GuardedChangeKeepsAnAdmin

-------------------------------------------------------------------------------
(* Until somebody is promoted.                                               *)

\* A change that is not recorded as a promotion is none.
LEMMA UserStaysUser ==
    ASSUME NEW o \in Operations, NEW old \in Row, NEW row \in Row,
           row.role = "user", ActionFor(o, old) # "promoted"
    PROVE  NewRow(o, old, row).role = "user"
<1>1. o \in Operation
  BY OperationsAssumption
<1>2. CASE o.kind = "update"
  <2>1. Overwrites(o.role, old.role) => o.role = "user"
    BY <1>1, <1>2 DEF Operation, Roles, ActionFor, Overwrites, Patched
  <2>2. NewRow(o, old, row).role = IF Overwrites(o.role, old.role) THEN o.role ELSE row.role
    BY <1>2 DEF NewRow, Row
  <2> QED
    BY <2>1, <2>2
<1>3. CASE o.kind # "update"
  BY <1>1, <1>3 DEF Operation, NewRow, NoRow, Row
<1> QED
  BY <1>2, <1>3

\* A change that no check is made for keeps an active admin one.
LEMMA HarmlessChange ==
    ASSUME NEW o \in Operations, NEW old \in Row, NEW row \in Row,
           ~NeedsGuard(o), ActiveAdmin(row)
    PROVE  ActiveAdmin(NewRow(o, old, row))
<1>1. /\ o \in Operation /\ o.kind # "remove"
      /\ o.role \in {"admin", "keep"} /\ o.status \in {"active", "keep"}
  BY OperationsAssumption DEF NeedsGuard, RemovesAdminAccess, Operation, Roles, Statuses
<1>2. CASE o.kind = "update"
  <2>1. /\ NewRow(o, old, row).exists = row.exists
        /\ NewRow(o, old, row).role =
              IF Overwrites(o.role, old.role) THEN o.role ELSE row.role
        /\ NewRow(o, old, row).status =
              IF Overwrites(o.status, old.status) THEN o.status ELSE row.status
    BY <1>2 DEF NewRow, Row
  <2> QED
    BY <1>1, <2>1 DEF ActiveAdmin, Overwrites, Patched
<1>3. CASE o.kind = "reset"
  BY <1>3 DEF NewRow, Row, ActiveAdmin
<1> QED
  BY <1>1, <1>2, <1>3 DEF Operation

\* The record of a promotion is never lost.
LEMMA PromotionsRecorded ==
    ASSUME IInv, [Next]_vars, NobodyPromoted'
    PROVE  NobodyPromoted
<1> SUFFICES ASSUME NEW a \in audit PROVE a.action # "promoted"
  BY DEF NobodyPromoted
<1>1. a \in AuditRow
  BY DEF IInv, TypeOK
<1>2. CASE UNCHANGED audit
  BY <1>2 DEF NobodyPromoted
<1>3. ASSUME NEW r \in Requests, Commit(r) PROVE a.action # "promoted"
  <2> DEFINE b == [a EXCEPT !.actor = IF @ = req[r].target THEN Nobody ELSE @]
  <2>1. b.action = a.action
    BY <1>1 DEF AuditRow
  <2>2. a \in audit' \/ b \in audit'
    BY <1>3 DEF Commit, Orphaned
  <2> QED
    BY <2>1, <2>2 DEF NobodyPromoted
<1>4. ASSUME NEW r \in Requests, Advance(r), ~Commit(r) PROVE UNCHANGED audit
  BY <1>4 DEF Advance, Load, LockActiveAdmins, LockNext, Decide, Write, WriteAudit, Fail
<1>5. ASSUME NEW r \in Requests, Receive(r) \/ Abort(r) PROVE UNCHANGED audit
  BY <1>5 DEF Receive, Abort, Fail
<1>6. ASSUME BreakDeadlock \/ Finished \/ UNCHANGED vars PROVE UNCHANGED audit
  BY <1>6 DEF BreakDeadlock, Finished, Fail, vars
<1> QED
  BY <1>2, <1>3, <1>4, <1>5, <1>6 DEF Next

LEMMA PlainStep ==
    ASSUME NobodyPromoted', IInv, PlainStaysPlain, Next
    PROVE  PlainStaysPlain'
<1> SUFFICES ASSUME NEW s \in Requests,
                    pc'[s] \in PastLoad, NeedsGuard(req'[s].op), loaded'[s].role # "admin"
             PROVE  users'[req'[s].target].role = "user"
  BY DEF PlainStaysPlain
<1>1. ASSUME NEW r \in Requests, Fail(r) PROVE users'[req'[s].target].role = "user"
  BY <1>1 DEF Fail, PlainStaysPlain, IInv, TypeOK, PastLoad, Flushing, Writing, Auditing
<1>2. ASSUME NEW r \in Requests, Receive(r) PROVE users'[req'[s].target].role = "user"
  <2>1. s # r /\ pc[s] = pc'[s] /\ req'[s] = req[s]
    BY <1>2 DEF Receive, IInv, TypeOK, PastLoad, Flushing, Writing, Auditing
  <2> QED
    BY <1>2, <2>1 DEF Receive, PlainStaysPlain
<1>3. ASSUME NEW r \in Requests, Load(r), ~Fail(r)
      PROVE  users'[req'[s].target].role = "user"
  <2>1. loaded' = [loaded EXCEPT ![r] = users[req[r].target]] /\ UNCHANGED <<users, req>>
    BY <1>3 DEF Load
  <2>2. CASE s = r
    BY <2>1, <2>2 DEF IInv, TypeOK, Request, Row, Roles
  <2>3. CASE s # r
    BY <1>3, <2>1, <2>3 DEF Load, PlainStaysPlain, IInv, TypeOK
  <2> QED
    BY <2>2, <2>3
<1>4. ASSUME UNCHANGED <<users, req, loaded>>, pc[s] \in PastLoad
      PROVE  users'[req'[s].target].role = "user"
  BY <1>4 DEF PlainStaysPlain
<1>5. ASSUME NEW r \in Requests, LockActiveAdmins(r) \/ (\E u \in Users : LockNext(r, u))
      PROVE  users'[req'[s].target].role = "user"
  <2>1. pc[s] \in PastLoad
    BY <1>5 DEF LockActiveAdmins, LockNext, IInv, TypeOK, PastLoad
  <2> QED
    BY <1>4, <1>5, <2>1 DEF LockActiveAdmins, LockNext
<1>6. ASSUME NEW r \in Requests, Decide(r) \/ Write(r) \/ WriteAudit(r), ~Fail(r)
      PROVE  users'[req'[s].target].role = "user"
  <2>1. UNCHANGED <<users, req, loaded>>
    BY <1>6 DEF Decide, Write, WriteAudit
  <2>2. pc[r] \in PastLoad /\ \A t \in Requests : t # r => pc'[t] = pc[t]
    BY <1>6 DEF Decide, Write, WriteAudit, PastLoad, Flushing, IInv, TypeOK
  <2> QED
    BY <1>4, <2>1, <2>2
<1>7. ASSUME NEW r \in Requests, Commit(r) PROVE users'[req'[s].target].role = "user"
  <2>1. UNCHANGED <<req, loaded>> /\ pc[s] \in PastLoad
    BY <1>7 DEF Commit, IInv, TypeOK, PastLoad, Flushing, Writing, Auditing
  <2>2. /\ users[req[s].target].role = "user"
        /\ users[req[s].target] \in Row /\ loaded[r] \in Row /\ req[r].op \in Operations
    BY <2>1 DEF PlainStaysPlain, IInv, TypeOK, Request
  <2>3. ActionFor(req[r].op, loaded[r]) # "promoted"
    <3>1. Entry(r) \in audit'
      BY <1>7 DEF Commit
    <3>2. Entry(r).action = ActionFor(req[r].op, loaded[r])
      BY DEF Entry
    <3> QED
      BY <3>1, <3>2 DEF NobodyPromoted
  <2>4. CASE req[s].target = req[r].target
    BY <1>7, <2>1, <2>2, <2>3, <2>4, CommitChanges, UserStaysUser
  <2>5. CASE req[s].target # req[r].target
    <3>1. req[s].target \in Users
      BY DEF IInv, TypeOK, Request
    <3> QED
      BY <1>7, <2>1, <2>2, <2>5, <3>1, CommitChanges
  <2> QED
    BY <2>4, <2>5
<1>8. ASSUME UNCHANGED vars PROVE users'[req'[s].target].role = "user"
  BY <1>4, <1>8 DEF vars
<1> QED
  BY <1>1, <1>2, <1>3, <1>5, <1>6, <1>7, <1>8
  DEF Next, Advance, Abort, BreakDeadlock, Finished

LEMMA NoLockoutStep ==
    ASSUME IInv, PlainStaysPlain, NoLockout, Next
    PROVE  NoLockout'
<1>1. PICK w \in Users : ActiveAdmin(users[w])
  BY DEF NoLockout, ActiveAdmins
<1>2. CASE UNCHANGED users
  BY <1>1, <1>2 DEF NoLockout, ActiveAdmins, ActiveAdmin
<1>3. ASSUME NEW r \in Requests, Commit(r) PROVE NoLockout'
  <2> DEFINE t == req[r].target
             o == req[r].op
  <2>1. /\ t \in Users /\ o \in Operations /\ loaded[r] \in Row /\ users[t] \in Row
        /\ pc[r] \in Flushing /\ pc[r] \notin Final /\ pc[r] \in PastLoad
    BY <1>3 DEF Commit, IInv, TypeOK, Request, Flushing, Final, PastLoad
  <2>2. CASE ~NeedsGuard(o)
    <3>1. w = t => ActiveAdmin(users'[w])
      BY <1>1, <1>3, <2>1, <2>2, CommitChanges, HarmlessChange
    <3>2. w # t => users'[w] = users[w]
      BY <1>3, CommitChanges
    <3> QED
      BY <1>1, <3>1, <3>2 DEF NoLockout, ActiveAdmins, ActiveAdmin
  <2>3. CASE NeedsGuard(o) /\ loaded[r].role = "admin"
    <3>1. PICK u \in found[r] : u # t
      BY <2>1, <2>3 DEF IInv, Inv, GuardPassed, Guarded, OthersFound
    <3>2. u \in Users /\ ActiveAdmin(users[u])
      BY <2>1, <3>1 DEF IInv, Inv, FoundStaysAdmin, TypeOK
    <3>3. users'[u] = users[u]
      BY <1>3, <3>1, <3>2, CommitChanges
    <3> QED
      BY <3>2, <3>3 DEF NoLockout, ActiveAdmins, ActiveAdmin
  <2>4. CASE NeedsGuard(o) /\ loaded[r].role # "admin"
    <3>1. w # t
      BY <1>1, <2>1, <2>4 DEF PlainStaysPlain, ActiveAdmin
    <3>2. users'[w] = users[w]
      BY <1>3, <3>1, CommitChanges
    <3> QED
      BY <1>1, <3>2 DEF NoLockout, ActiveAdmins, ActiveAdmin
  <2> QED
    BY <2>2, <2>3, <2>4
<1>4. ASSUME NEW r \in Requests, Advance(r), ~Commit(r) PROVE UNCHANGED users
  BY <1>4 DEF Advance, Load, LockActiveAdmins, LockNext, Decide, Write, WriteAudit, Fail
<1>5. ASSUME NEW r \in Requests, Receive(r) \/ Abort(r) PROVE UNCHANGED users
  BY <1>5 DEF Receive, Abort, Fail
<1>6. ASSUME BreakDeadlock \/ Finished PROVE UNCHANGED users
  BY <1>6 DEF BreakDeadlock, Finished, Fail, vars
<1> QED
  BY <1>2, <1>3, <1>4, <1>5, <1>6 DEF Next

\* Whenever no active admin is left, somebody was promoted before: until then the guard
\* may skip plain users, because they stay plain.
THEOREM LockoutTakesPromotion == Spec => []LockoutNeedsPromotion
<1> DEFINE J == NobodyPromoted => PlainStaysPlain /\ NoLockout
<1>1. Init => J
  BY DEF Init, NoLockout, PlainStaysPlain, PastLoad, Flushing, Writing, Auditing
<1>2. IInv /\ J /\ [Next]_vars => J'
  <2> SUFFICES ASSUME IInv, J, [Next]_vars, NobodyPromoted'
               PROVE  PlainStaysPlain' /\ NoLockout'
    OBVIOUS
  <2>1. PlainStaysPlain /\ NoLockout
    BY PromotionsRecorded
  <2>2. CASE Next
    BY <2>1, <2>2, PlainStep, NoLockoutStep
  <2>3. CASE UNCHANGED vars
    BY <2>1, <2>3 DEF vars, PlainStaysPlain, NoLockout, ActiveAdmins, ActiveAdmin
  <2> QED
    BY <2>2, <2>3
<1>3. J => LockoutNeedsPromotion
  BY DEF NobodyPromoted, NoLockout, LockoutNeedsPromotion
<1> QED
  BY <1>1, <1>2, <1>3, Invariance, PTL DEF Spec

-------------------------------------------------------------------------------
(* The order of the locks.                                                   *)

\* A check holds locks only on rows before those it has still to lock.
LocksInOrder ==
    \A r \in Requests :
        /\ pc[r] \in {"idle", "authorised", "guarding"} =>
              \A u \in Users : locks[r][u] = "none"
        /\ pc[r] = "locking" =>
              \A u \in Users, v \in scan[r] : locks[r][u] # "none" => u < v

\* A statement that does not end its request keeps every lock, and touches no table.
LEMMA LocksGrow ==
    ASSUME IInv, NEW r \in Requests, Advance(r), ~Commit(r), ~Fail(r)
    PROVE  /\ UNCHANGED <<users, audit, req>>
           /\ \A s \in Requests : s # r => pc'[s] = pc[s] /\ scan'[s] = scan[s]
           /\ \A s \in Requests, v \in Users :
                 /\ s # r => locks'[s][v] = locks[s][v]
                 /\ locks[s][v] # "none" => locks'[s][v] # "none"
                 /\ locks[s][v] = "update" => locks'[s][v] = "update"
<1>1. UNCHANGED <<users, audit, req>>
  BY DEF Advance, Load, LockActiveAdmins, LockNext, Decide, Write, WriteAudit
<1>2. \A s \in Requests : s # r => pc'[s] = pc[s] /\ scan'[s] = scan[s]
  BY DEF Advance, Load, LockActiveAdmins, LockNext, Decide, Write, WriteAudit, IInv, TypeOK
<1>3. \/ UNCHANGED locks
      \/ \E u \in Users, m \in Modes \ {"none"} :
            Blockers(r, u, m) = {} /\ TakeLock(r, u, m)
  BY DEF Advance, Load, LockActiveAdmins, LockNext, Decide, Write, WriteAudit, WriteMode,
         Modes, IInv, TypeOK, Request
<1>4. ASSUME NEW u \in Users, NEW m \in Modes \ {"none"}, Blockers(r, u, m) = {}, TakeLock(r, u, m)
      PROVE  \A s \in Requests, v \in Users :
                 /\ s # r => locks'[s][v] = locks[s][v]
                 /\ locks[s][v] # "none" => locks'[s][v] # "none"
                 /\ locks[s][v] = "update" => locks'[s][v] = "update"
  <2>1. /\ \A s \in Requests, v \in Users :
              (s # r \/ v # u) => locks'[s][v] = locks[s][v]
        /\ locks'[r][u] = Stronger(locks[r][u], m)
    BY <1>4, TakeLockOK DEF IInv, Inv
  <2>2. /\ locks[r][u] # "none" => Stronger(locks[r][u], m) # "none"
        /\ locks[r][u] = "update" => Stronger(locks[r][u], m) = "update"
    <3>1. locks[r][u] \in Modes
      BY DEF IInv, TypeOK
    <3> QED
      BY <3>1 DEF Stronger, Modes
  <2> QED
    BY <2>1, <2>2
<1> QED
  BY <1>1, <1>2, <1>3, <1>4

LEMMA LocksInOrderStep ==
    ASSUME IInv, LocksInOrder, [Next]_vars
    PROVE  LocksInOrder'
<1> SUFFICES ASSUME NEW s \in Requests
             PROVE  /\ pc'[s] \in {"idle", "authorised", "guarding"} =>
                          \A u \in Users : locks'[s][u] = "none"
                    /\ pc'[s] = "locking" =>
                          \A u \in Users, v \in scan'[s] : locks'[s][u] # "none" => u < v
  BY DEF LocksInOrder
<1> DEFINE Goal == /\ pc'[s] \in {"idle", "authorised", "guarding"} =>
                          \A u \in Users : locks'[s][u] = "none"
                   /\ pc'[s] = "locking" =>
                          \A u \in Users, v \in scan'[s] : locks'[s][u] # "none" => u < v
<1>1. ASSUME pc'[s] = pc[s], scan'[s] = scan[s], \A u \in Users : locks'[s][u] = locks[s][u]
      PROVE  Goal
  BY <1>1 DEF LocksInOrder
<1>2. ASSUME pc'[s] \in Flushing \cup Final PROVE Goal
  BY <1>2 DEF Flushing, Final, Writing, Auditing
<1>3. ASSUME NEW r \in Requests, Fail(r) PROVE Goal
  <2>1. CASE s = r
    BY <1>2, <1>3, <2>1 DEF Fail, IInv, TypeOK, Final
  <2>2. CASE s # r
    BY <1>1, <1>3, <2>2, ReleaseLocksOK DEF Fail, IInv, Inv, TypeOK
  <2> QED
    BY <2>1, <2>2
<1>4. ASSUME NEW r \in Requests, Receive(r) PROVE Goal
  BY <1>4 DEF Receive, IInv, TypeOK, LocksInOrder
<1>5. ASSUME NEW r \in Requests, Advance(r), ~Commit(r), ~Fail(r), s # r PROVE Goal
  BY <1>1, <1>5, LocksGrow
<1>6. ASSUME Load(s), ~Fail(s) PROVE Goal
  <2>1. PICK stage \in {"guarding"} \cup FirstStages(req[s].op, users[req[s].target]) :
          pc' = [pc EXCEPT ![s] = stage]
    BY <1>6 DEF Load
  <2>2. stage = "guarding" \/ stage \in Flushing
    BY <2>1, FirstStagesType
  <2>3. pc[s] = "authorised" /\ UNCHANGED locks /\ pc'[s] = stage
    BY <1>6, <2>1 DEF Load, IInv, TypeOK
  <2>4. \A u \in Users : locks'[s][u] = "none"
    BY <2>3 DEF LocksInOrder
  <2> QED
    BY <1>2, <2>2, <2>3, <2>4
<1>7. ASSUME LockActiveAdmins(s) PROVE Goal
  BY <1>7 DEF LockActiveAdmins, IInv, TypeOK, LocksInOrder
<1>8. ASSUME NEW u \in Users, LockNext(s, u) PROVE Goal
  <2>1. /\ pc[s] = "locking" /\ pc'[s] = "locking"
        /\ u \in scan[s] /\ \A v \in scan[s] : u <= v
        /\ scan'[s] = scan[s] \ {u} /\ scan[s] \subseteq Users
    BY <1>8 DEF LockNext, NextInScan, IInv, TypeOK
  <2>2. \A w \in Users : w # u => locks'[s][w] = locks[s][w]
    BY <1>8 DEF LockNext, TakeLock, IInv, TypeOK
  <2>3. \A v \in scan'[s] : u < v
    BY <2>1, UsersAssumption
  <2> SUFFICES ASSUME NEW w \in Users, NEW v \in scan'[s], locks'[s][w] # "none"
               PROVE  w < v
    BY <2>1
  <2>4. CASE w = u
    BY <2>3, <2>4
  <2>5. CASE w # u
    BY <2>1, <2>2, <2>5 DEF LocksInOrder
  <2> QED
    BY <2>4, <2>5
<1>9. ASSUME Decide(s) \/ Write(s) \/ WriteAudit(s), ~Fail(s) PROVE Goal
  <2>1. CASE Decide(s)
    <3>1. PICK stage \in FirstStages(req[s].op, loaded[s]) : pc' = [pc EXCEPT ![s] = stage]
      BY <1>9, <2>1 DEF Decide
    <3>2. stage \in Flushing
      BY FirstStagesType
    <3> QED
      BY <1>2, <3>1, <3>2 DEF IInv, TypeOK
  <2>2. CASE Write(s) \/ WriteAudit(s)
    <3>1. pc[s] \in Writing \cup Auditing /\ pc'[s] = NextStage(pc[s])
      BY <1>9, <2>2 DEF Write, WriteAudit, IInv, TypeOK
    <3> QED
      BY <1>2, <3>1, NextStageType
  <2> QED
    BY <1>9, <2>1, <2>2
<1>10. ASSUME NEW r \in Requests, Commit(r) PROVE Goal
  <2>1. CASE s = r
    BY <1>2, <1>10, <2>1 DEF Commit, IInv, TypeOK, Final
  <2>2. CASE s # r
    BY <1>1, <1>10, <2>2, ReleaseLocksOK DEF Commit, IInv, Inv, TypeOK
  <2> QED
    BY <2>1, <2>2
<1>11. ASSUME NEW r \in Requests, Advance(r) PROVE Goal
  <2>1. CASE Commit(r) \/ Fail(r)
    BY <1>3, <1>10, <2>1
  <2>2. CASE ~Commit(r) /\ ~Fail(r) /\ s # r
    BY <1>5, <1>11, <2>2
  <2>3. CASE ~Commit(r) /\ ~Fail(r) /\ s = r
    BY <1>6, <1>7, <1>8, <1>9, <1>11, <2>3 DEF Advance
  <2> QED
    BY <2>1, <2>2, <2>3
<1>12. ASSUME UNCHANGED vars PROVE Goal
  BY <1>1, <1>12 DEF vars
<1> QED
  BY <1>3, <1>4, <1>11, <1>12 DEF Next, Abort, BreakDeadlock, Finished

\* Any number of ids has a least one, however many requests wait.
LEMMA LeastId ==
    ASSUME NEW N, N \subseteq Nat, N # {}
    PROVE  \E m \in N : \A n \in N : m <= n
<1> DEFINE R == OpToRel(<, Nat)
<1>1. PICK m \in N : \A n \in N : <<n, m>> \notin R
  <2>1. IsWellFoundedOn(R, Nat)
    BY NatLessThanWellFounded
  <2> HIDE DEF R
  <2> QED
    BY <2>1, WFMin
<1>2. \A n \in N : ~(n < m)
  BY <1>1 DEF OpToRel
<1> HIDE DEF R
<1> QED
  BY <1>2

\* Along a chain of waiting checks the next row to lock grows, so the checks that do
\* not wait for the least one among them would wait for each other without it.
LEMMA OrderExcludesCycles ==
    ASSUME IInv, LocksInOrder, NEW S \in SUBSET Requests, Deadlock(S),
           \A r \in S : pc[r] = "locking"
    PROVE  FALSE
<1>1. ASSUME NEW r \in S
      PROVE  \E s \in S, u \in scan[r] :
                s # r /\ s \in WaitsFor(r) /\ NextInScan(r, u)
                  /\ u \in Users /\ locks[s][u] # "none"
  <2>1. PICK s \in S : s \in WaitsFor(r)
    BY DEF Deadlock, Waiting
  <2>2. PICK u \in {v \in scan[r] : NextInScan(r, v)} : s \in Blockers(r, u, "update")
    <3>1. WaitsFor(r) = UNION {Blockers(r, u, "update") :
                                 u \in {v \in scan[r] : NextInScan(r, v)}}
      BY DEF WaitsFor, Writing, Auditing
    <3> QED
      BY <2>1, <3>1
  <2>3. s # r /\ locks[s][u] # "none"
    BY <2>2 DEF Blockers, Conflicts
  <2>4. u \in Users
    BY <2>2 DEF IInv, TypeOK
  <2> QED
    BY <2>1, <2>2, <2>3, <2>4
<1> DEFINE Ids == {u \in Users : \E r \in S : NextInScan(r, u)}
<1>2. Ids \subseteq Nat /\ Ids # {}
  BY <1>1, UsersAssumption DEF Deadlock
<1>3. PICK m \in Ids : \A n \in Ids : m <= n
  BY <1>2, LeastId
<1>4. PICK r \in S : NextInScan(r, m)
  BY <1>3
<1>5. ASSUME NEW s \in S PROVE WaitsFor(s) \cap (S \ {r}) # {}
  <2>1. PICK t \in S, u \in scan[s] :
          t # s /\ t \in WaitsFor(s) /\ NextInScan(s, u)
            /\ u \in Users /\ locks[t][u] # "none"
    BY <1>1
  <2>2. m <= u
    BY <1>3, <2>1
  <2>3. ASSUME t = r PROVE FALSE
    <3>1. u < m
      BY <1>4, <2>1, <2>3 DEF LocksInOrder, NextInScan
    <3> QED
      BY <1>2, <2>1, <2>2, <3>1, UsersAssumption
  <2> QED
    BY <2>1, <2>3
<1>6. S \ {r} \in (SUBSET S) \ {{}, S}
  <2>1. S \ {r} # {}
    BY <1>1, <1>4
  <2> QED
    BY <1>4, <2>1
<1> QED
  BY <1>5, <1>6 DEF Deadlock, Waiting

\* The last-admin checks never wait for each other, however many run at once and
\* however many admins there are: their SELECT locks the rows in the order of their ids.
THEOREM ChecksNeverDeadlock == Spec => []GuardsNeverDeadlock
<1>1. Init => LocksInOrder
  BY DEF Init, LocksInOrder
<1>2. IInv /\ LocksInOrder /\ [Next]_vars => LocksInOrder'
  BY LocksInOrderStep
<1>3. IInv /\ LocksInOrder => GuardsNeverDeadlock
  BY OrderExcludesCycles DEF GuardsNeverDeadlock
<1> QED
  BY <1>1, <1>2, <1>3, Invariance, PTL DEF Spec

-------------------------------------------------------------------------------
(* AdminUsers implements UserLedger.                                         *)

\* Only a request that has committed is in the audit table.
RecordedOnCommit == \A a \in audit : pc[a.req] = "committed"

\* A deleted account keeps nothing.
GoneIsEmpty == \A u \in Users : ~users[u].exists => users[u] = NoRow

\* Past its INSERT, a request holds a lock on the row of its actor.
ActorLocked ==
    \A r \in Requests : pc[r] \in {"write_last", "commit"} =>
        users[req[r].actor].exists /\ locks[r][req[r].actor] # "none"

\* Past its DELETE, it holds the strongest lock on the row of its target.
RemovedUnderLock ==
    \A r \in Requests :
        pc[r] \in {"audit", "commit"} /\ req[r].op.kind = "remove"
          /\ users[req[r].target].exists => locks[r][req[r].target] = "update"

\* Nobody takes their own admin access away.
NotOneself ==
    \A r \in Requests :
        pc[r] \in PastLoad /\ NeedsGuard(req[r].op) => req[r].target # req[r].actor

LedgerInv == RecordedOnCommit /\ GoneIsEmpty /\ ActorLocked /\ RemovedUnderLock /\ NotOneself

LEMMA LedgerInvInit == Init => LedgerInv
<1> SUFFICES ASSUME Init PROVE LedgerInv
  OBVIOUS
<1>1. \A u \in Users : users[u].exists
  BY DEF Init, NewUser
<1>2. audit = {} /\ \A r \in Requests : pc[r] = "idle"
  BY DEF Init
<1> QED
  BY <1>1, <1>2 DEF LedgerInv, RecordedOnCommit, GoneIsEmpty, ActorLocked, RemovedUnderLock,
                    NotOneself, PastLoad, Flushing, Writing, Auditing

\* A request that ends, or begins, takes nothing from the others.
LEMMA LedgerInvEnds ==
    ASSUME IInv, LedgerInv, NEW r \in Requests, pc[r] \notin Final, Fail(r) \/ Receive(r)
    PROVE  LedgerInv'
<1>1. /\ UNCHANGED <<users, audit>>
      /\ pc'[r] \in {"failed", "authorised"}
      /\ \A s \in Requests : s # r => pc'[s] = pc[s] /\ req'[s] = req[s]
      /\ \A s \in Requests : s # r => locks'[s] = locks[s]
  BY ReleaseLocksOK DEF Fail, Receive, IInv, Inv, TypeOK
<1>2. RecordedOnCommit'
  BY <1>1 DEF LedgerInv, RecordedOnCommit, IInv, TypeOK, AuditRow, Final
<1>3. GoneIsEmpty'
  BY <1>1 DEF LedgerInv, GoneIsEmpty
<1>4. ActorLocked' /\ RemovedUnderLock' /\ NotOneself'
  BY <1>1 DEF LedgerInv, ActorLocked, RemovedUnderLock, NotOneself, PastLoad, Flushing,
              Writing, Auditing
<1> QED
  BY <1>2, <1>3, <1>4 DEF LedgerInv

\* What the statements of a request itself establish.
LEMMA OwnStatement ==
    ASSUME IInv, LedgerInv, NEW r \in Requests, Advance(r), ~Commit(r), ~Fail(r)
    PROVE  /\ pc'[r] \in {"write_last", "commit"} =>
                users[req[r].actor].exists /\ locks'[r][req[r].actor] # "none"
           /\ pc'[r] \in {"audit", "commit"} /\ req[r].op.kind = "remove"
                /\ users[req[r].target].exists => locks'[r][req[r].target] = "update"
           /\ pc'[r] \in PastLoad /\ NeedsGuard(req[r].op) => req[r].target # req[r].actor
<1> DEFINE Goal == /\ pc'[r] \in {"write_last", "commit"} =>
                         users[req[r].actor].exists /\ locks'[r][req[r].actor] # "none"
                   /\ pc'[r] \in {"audit", "commit"} /\ req[r].op.kind = "remove"
                         /\ users[req[r].target].exists => locks'[r][req[r].target] = "update"
                   /\ pc'[r] \in PastLoad /\ NeedsGuard(req[r].op) =>
                         req[r].target # req[r].actor
<1>1. req[r] \in Request /\ req[r].actor \in Users /\ req[r].target \in Users
  BY DEF IInv, TypeOK, Request
<1>2. ASSUME NEW o, NEW old, NEW stage \in FirstStages(o, old), pc'[r] = stage, o = req[r].op
      PROVE  pc'[r] \notin {"write_last", "commit"} /\ (pc'[r] = "audit" => o.kind # "remove")
  BY <1>2, FirstStagesType DEF NetChange
<1>3. ASSUME pc[r] \in PastLoad
      PROVE  NeedsGuard(req[r].op) => req[r].target # req[r].actor
  BY <1>3 DEF LedgerInv, NotOneself
<1>4. CASE Load(r)
  <2>1. PICK stage \in {"guarding"} \cup FirstStages(req[r].op, users[req[r].target]) :
          pc'[r] = stage
    BY <1>4 DEF Load, IInv, TypeOK
  <2>2. NeedsGuard(req[r].op) => req[r].target # req[r].actor
    BY <1>4 DEF Load, ModifiesSelf
  <2> QED
    BY <1>2, <2>1, <2>2
<1>5. CASE LockActiveAdmins(r) \/ \E u \in Users : LockNext(r, u)
  <2>1. pc[r] \in {"guarding", "locking"} /\ pc'[r] = "locking"
    BY <1>5 DEF LockActiveAdmins, LockNext, IInv, TypeOK
  <2> QED
    BY <1>3, <2>1 DEF PastLoad
<1>6. CASE Decide(r)
  <2>1. PICK stage \in FirstStages(req[r].op, loaded[r]) : pc'[r] = stage
    BY <1>6 DEF Decide, IInv, TypeOK
  <2>2. pc[r] \in PastLoad
    BY <1>6 DEF Decide, PastLoad
  <2> QED
    BY <1>2, <1>3, <2>1, <2>2
<1>7. CASE Write(r)
  <2> DEFINE mode == WriteMode(req[r].op)
  <2>1. /\ pc[r] \in Writing /\ pc[r] \in PastLoad /\ pc'[r] = NextStage(pc[r])
        /\ Blockers(r, req[r].target, mode) = {} /\ mode \in Modes
        /\ users[req[r].target].exists => TakeLock(r, req[r].target, mode)
    BY <1>7 DEF Write, IInv, TypeOK, PastLoad, Flushing, Modes, WriteMode
  <2>2. ASSUME users[req[r].target].exists, req[r].op.kind = "remove"
        PROVE  locks'[r][req[r].target] = "update"
    <3>1. mode = "update"
      BY <2>2 DEF WriteMode
    <3>2. Stronger(locks[r][req[r].target], "update") = "update"
      BY DEF Stronger
    <3> QED
      BY <1>1, <2>1, <2>2, <3>1, <3>2, TakeLockOK DEF IInv, Inv
  <2>3. pc'[r] \in {"write_last", "commit"} => pc[r] = "write_last"
    BY <2>1 DEF NextStage, Writing
  <2>4. pc'[r] \in {"write_last", "commit"} =>
          users[req[r].actor].exists /\ locks'[r][req[r].actor] # "none"
    BY <1>1, <1>7, <2>3, LocksGrow DEF LedgerInv, ActorLocked
  <2> QED
    BY <1>3, <2>1, <2>2, <2>4
<1>8. CASE WriteAudit(r)
  <2>1. /\ pc[r] \in Auditing /\ pc[r] \in PastLoad /\ pc'[r] = NextStage(pc[r])
        /\ Blockers(r, req[r].actor, "keyshare") = {} /\ "keyshare" \in Modes
        /\ users[req[r].actor].exists /\ TakeLock(r, req[r].actor, "keyshare")
    BY <1>8 DEF WriteAudit, IInv, TypeOK, PastLoad, Flushing, Modes
  <2>2. locks'[r][req[r].actor] # "none"
    <3>1. locks'[r][req[r].actor] = Stronger(locks[r][req[r].actor], "keyshare")
      BY <1>1, <2>1, TakeLockOK DEF IInv, Inv
    <3>2. locks[r][req[r].actor] \in Modes
      BY <1>1 DEF IInv, TypeOK
    <3> QED
      BY <3>1, <3>2 DEF Stronger, Modes
  <2>3. pc'[r] \in {"audit", "commit"} => pc[r] = "audit"
    BY <2>1 DEF NextStage, Auditing
  <2>4. pc'[r] \in {"audit", "commit"} /\ req[r].op.kind = "remove"
                /\ users[req[r].target].exists => locks'[r][req[r].target] = "update"
    BY <1>1, <1>8, <2>3, LocksGrow DEF LedgerInv, RemovedUnderLock
  <2> QED
    BY <1>3, <2>1, <2>2, <2>4
<1> QED
  BY <1>4, <1>5, <1>6, <1>7, <1>8 DEF Advance

LEMMA LedgerInvAdvance ==
    ASSUME IInv, LedgerInv, NEW r \in Requests, Advance(r), ~Commit(r), ~Fail(r)
    PROVE  LedgerInv'
<1>1. /\ UNCHANGED <<users, audit, req>>
      /\ \A s \in Requests : s # r => pc'[s] = pc[s]
      /\ \A s \in Requests, v \in Users : s # r => locks'[s][v] = locks[s][v]
  BY LocksGrow
<1>2. \A s \in Requests : req[s].actor \in Users /\ req[s].target \in Users
  BY DEF IInv, TypeOK, Request
<1>3. RecordedOnCommit'
  <2>1. pc[r] # "committed"
    BY DEF Advance, Load, LockActiveAdmins, LockNext, Decide, Write, WriteAudit, Writing,
           Auditing
  <2> QED
    BY <1>1, <2>1 DEF LedgerInv, RecordedOnCommit, IInv, TypeOK, AuditRow
<1>4. GoneIsEmpty'
  BY <1>1 DEF LedgerInv, GoneIsEmpty
<1>5. ActorLocked'
  BY <1>1, <1>2, OwnStatement DEF LedgerInv, ActorLocked
<1>6. RemovedUnderLock'
  BY <1>1, <1>2, OwnStatement DEF LedgerInv, RemovedUnderLock
<1>7. NotOneself'
  BY <1>1, OwnStatement DEF LedgerInv, NotOneself
<1> QED
  BY <1>3, <1>4, <1>5, <1>6, <1>7 DEF LedgerInv

\* A commit removes no row that another request holds a lock on.
LEMMA CommitRemoves ==
    ASSUME IInv, LedgerInv, NEW r \in Requests, Commit(r),
           NEW s \in Requests \ {r}, NEW v \in Users,
           locks[s][v] # "none", users[v].exists
    PROVE  users'[v].exists
<1> DEFINE u == req[r].target
<1>1. SUFFICES ASSUME v = u, ~users'[u].exists PROVE FALSE
  BY CommitChanges
<1>2. /\ users'[u] = NewRow(req[r].op, loaded[r], users[u]) /\ req[r].op \in Operation
      /\ users[u] \in Row /\ pc[r] = "commit"
  BY CommitChanges, OperationsAssumption DEF Commit, IInv, TypeOK, Request
<1>3. req[r].op.kind = "remove"
  BY <1>1, <1>2 DEF NewRow, Row, Operation
<1>4. locks[r][u] = "update"
  BY <1>1, <1>2, <1>3 DEF LedgerInv, RemovedUnderLock
<1> QED
  BY <1>1, <1>4 DEF IInv, Inv, LocksCompatible, Conflicts

LEMMA LedgerInvCommit ==
    ASSUME IInv, LedgerInv, NEW r \in Requests, Commit(r)
    PROVE  LedgerInv'
<1> DEFINE u == req[r].target
           o == req[r].op
<1>1. /\ UNCHANGED <<req, loaded>> /\ pc[r] = "commit" /\ pc'[r] = "committed"
      /\ \A s \in Requests : s # r => pc'[s] = pc[s] /\ locks'[s] = locks[s]
  BY ReleaseLocksOK DEF Commit, IInv, Inv, TypeOK
<1>2. /\ \A s \in Requests : req[s].actor \in Users /\ req[s].target \in Users
      /\ o \in Operation /\ users[u] \in Row /\ loaded[r] \in Row /\ o \in Operations
  BY OperationsAssumption DEF IInv, TypeOK, Request
<1>3. RecordedOnCommit'
  <2> SUFFICES ASSUME NEW a \in audit' PROVE pc'[a.req] = "committed"
    BY DEF RecordedOnCommit
  <2>1. \A b \in audit : b \in AuditRow /\ b.req \in Requests /\ pc[b.req] = "committed"
    BY DEF IInv, TypeOK, AuditRow, LedgerInv, RecordedOnCommit
  <2>2. \A b \in Orphaned(audit, u) : \E c \in audit : b.req = c.req
    BY <2>1 DEF Orphaned, AuditRow
  <2>3. a = Entry(r) \/ \E c \in audit : a.req = c.req
    BY <2>2 DEF Commit
  <2>4. Entry(r).req = r
    BY DEF Entry
  <2> QED
    BY <1>1, <2>1, <2>3, <2>4
<1>4. GoneIsEmpty'
  <2> SUFFICES ASSUME NEW v \in Users, ~users'[v].exists PROVE users'[v] = NoRow
    BY DEF GoneIsEmpty
  <2>1. CASE v # u
    BY <2>1, CommitChanges DEF LedgerInv, GoneIsEmpty
  <2>2. CASE v = u
    <3>1. users'[u] = NewRow(o, loaded[r], users[u])
      BY CommitChanges
    <3>2. CASE o.kind = "remove"
      BY <2>2, <3>1, <3>2 DEF NewRow
    <3>3. CASE o.kind # "remove"
      <4>1. users'[u].exists = users[u].exists
        BY <1>2, <3>1, <3>3 DEF NewRow, Row, Operation
      <4>2. ~NetChange(o, loaded[r])
        BY <1>1, <2>2, <3>3, <4>1 DEF IInv, Inv, WrittenUnderLock
      <4>3. users'[u] = users[u]
        BY <1>2, <3>1, <4>2, NewRowKeeps
      <4> QED
        BY <2>2, <4>3 DEF LedgerInv, GoneIsEmpty
    <3> QED
      BY <3>2, <3>3
  <2> QED
    BY <2>1, <2>2
<1>5. ActorLocked'
  <2> SUFFICES ASSUME NEW s \in Requests, pc'[s] \in {"write_last", "commit"}
               PROVE  users'[req[s].actor].exists /\ locks'[s][req[s].actor] # "none"
    BY <1>1 DEF ActorLocked
  <2>1. s # r /\ users[req[s].actor].exists /\ locks[s][req[s].actor] # "none"
    BY <1>1 DEF LedgerInv, ActorLocked
  <2> QED
    BY <1>1, <1>2, <2>1, CommitRemoves
<1>6. RemovedUnderLock'
  <2> SUFFICES ASSUME NEW s \in Requests, pc'[s] \in {"audit", "commit"},
                      req[s].op.kind = "remove", users'[req[s].target].exists
               PROVE  locks'[s][req[s].target] = "update"
    BY <1>1 DEF RemovedUnderLock
  <2>1. users[req[s].target].exists
    <3>1. CASE req[s].target = u
      BY <3>1, CommitChanges
    <3>2. CASE req[s].target # u
      BY <1>2, <3>2, CommitChanges
    <3> QED
      BY <3>1, <3>2
  <2>2. s # r
    BY <1>1
  <2> QED
    BY <1>1, <2>1, <2>2 DEF LedgerInv, RemovedUnderLock
<1>7. NotOneself'
  BY <1>1 DEF LedgerInv, NotOneself, PastLoad, Flushing, Writing, Auditing
<1> QED
  BY <1>3, <1>4, <1>5, <1>6, <1>7 DEF LedgerInv

LEMMA LedgerInvStep == IInv /\ LedgerInv /\ [Next]_vars => LedgerInv'
<1> SUFFICES ASSUME IInv, LedgerInv, [Next]_vars PROVE LedgerInv'
  OBVIOUS
<1>1. ASSUME UNCHANGED vars PROVE LedgerInv'
  BY <1>1 DEF vars, LedgerInv, RecordedOnCommit, GoneIsEmpty, ActorLocked, RemovedUnderLock,
              NotOneself
<1>2. ASSUME NEW r \in Requests, Advance(r) PROVE LedgerInv'
  <2>1. pc[r] \notin Final
    BY <1>2 DEF Advance, Load, LockActiveAdmins, LockNext, Decide, Write, WriteAudit, Commit,
                Final, Writing, Auditing
  <2> QED
    BY <1>2, <2>1, LedgerInvEnds, LedgerInvAdvance, LedgerInvCommit
<1>3. ASSUME NEW r \in Requests, Receive(r) PROVE LedgerInv'
  BY <1>3, LedgerInvEnds DEF Receive, Final
<1>4. ASSUME NEW r \in Requests, Abort(r) PROVE LedgerInv'
  BY <1>4, LedgerInvEnds DEF Abort
<1>5. ASSUME BreakDeadlock PROVE LedgerInv'
  <2>1. PICK S \in SUBSET Requests : Deadlock(S) /\ \E r \in S : Fail(r)
    BY <1>5 DEF BreakDeadlock
  <2>. PICK r \in S : Fail(r)
    BY <2>1
  <2>2. WaitsFor(r) # {}
    BY <2>1 DEF Deadlock, Waiting
  <2>3. pc[r] \notin Final
    BY <2>2 DEF WaitsFor, Final, Writing, Auditing
  <2> QED
    BY <2>1, <2>3, LedgerInvEnds
<1> QED
  BY <1>1, <1>2, <1>3, <1>4, <1>5 DEF Next, Finished

\* The row a change leaves behind is one that its audit entry allows.
LEMMA TruthfulEntry ==
    ASSUME NEW o \in Operations, NEW old \in Row, NEW row \in Row
    PROVE  NewRow(o, old, row) \in Ledger!Outcomes(ActionFor(o, old), row)
<1>1. o \in Operation
  BY OperationsAssumption
<1>2. CASE o.kind = "remove"
  BY <1>2 DEF NewRow, ActionFor, NoRow, Ledger!Outcomes, Ledger!Gone
<1>3. CASE o.kind = "reset"
  BY <1>3 DEF NewRow, ActionFor, Ledger!Outcomes
<1>4. CASE o.kind = "update"
  <2> DEFINE new == NewRow(o, old, row)
  <2>1. /\ o.role \in {"admin", "user", "keep"} /\ o.status \in {"active", "disabled", "keep"}
        /\ old.status \in {"active", "disabled"}
    BY <1>1, <1>4 DEF Operation, Row, Roles, Statuses
  <2>2. new = [row EXCEPT !.role   = IF Overwrites(o.role, old.role) THEN o.role ELSE @,
                          !.status = IF Overwrites(o.status, old.status) THEN o.status ELSE @]
    BY <1>4 DEF NewRow
  <2>3. CASE Overwrites(o.role, old.role)
    <3>1. o.role \in {"admin", "user"}
      BY <2>1, <2>3 DEF Overwrites, Patched
    <3>2. ActionFor(o, old) = IF o.role = "admin" THEN "promoted" ELSE "demoted"
      BY <1>4, <2>3 DEF ActionFor
    <3>3. \E x \in {"active", "disabled"} :
            new = [row EXCEPT !.role = o.role, !.status = x]
      BY <2>1, <2>2, <2>3 DEF Row, Statuses, Overwrites, Patched
    <3>4. CASE o.role = "admin"
      BY <3>2, <3>3, <3>4 DEF Ledger!Outcomes
    <3>5. CASE o.role = "user"
      BY <3>2, <3>3, <3>5 DEF Ledger!Outcomes
    <3> QED
      BY <3>1, <3>4, <3>5
  <2>4. CASE ~Overwrites(o.role, old.role)
    <3>1. ActionFor(o, old) =
            IF Patched(o.status, old.status) = "active" THEN "enabled" ELSE "disabled"
      BY <1>4, <2>4 DEF ActionFor
    <3>2. CASE Overwrites(o.status, old.status)
      <4>1. o.status \in {"active", "disabled"} /\ Patched(o.status, old.status) = o.status
        BY <2>1, <3>2 DEF Overwrites, Patched
      <4>2. new = [row EXCEPT !.status = o.status]
        BY <2>2, <2>4, <3>2 DEF Row
      <4>3. CASE o.status = "active"
        BY <3>1, <4>1, <4>2, <4>3 DEF Ledger!Outcomes
      <4>4. CASE o.status = "disabled"
        BY <3>1, <4>1, <4>2, <4>4 DEF Ledger!Outcomes
      <4> QED
        BY <4>1, <4>3, <4>4
    <3>3. CASE ~Overwrites(o.status, old.status)
      <4>1. new = row
        BY <2>2, <2>4, <3>3 DEF Row
      <4> QED
        BY <3>1, <4>1 DEF Ledger!Outcomes
    <3> QED
      BY <3>2, <3>3
  <2> QED
    BY <2>3, <2>4
<1> QED
  BY <1>1, <1>2, <1>3, <1>4 DEF Operation

\* A commit is one entry of the ledger.
LEMMA CommitRecords ==
    ASSUME IInv, LedgerInv, NEW r \in Requests, Commit(r)
    PROVE  Ledger!Next
<1> DEFINE u == req[r].target
           o == req[r].op
           actor == req[r].actor
           action == ActionFor(o, loaded[r])
<1>1. /\ u \in Users /\ actor \in Users /\ o \in Operations /\ o \in Operation
      /\ loaded[r] \in Row /\ users[u] \in Row /\ pc[r] = "commit"
      /\ pc[r] \in PastLoad
  BY OperationsAssumption DEF IInv, TypeOK, Request, Commit, PastLoad, Flushing
<1>2. action \in Ledger!Actions
  BY <1>1, ActionForType DEF Actions, Ledger!Actions, Ledger!Changing
<1>3. action = "deleted" <=> o.kind = "remove"
  BY <1>1 DEF ActionFor, Operation
<1>4. action = "deleted" => actor # u
  BY <1>1, <1>3 DEF LedgerInv, NotOneself, NeedsGuard
<1>5. \A a \in audit : a.req # r
  BY <1>1 DEF LedgerInv, RecordedOnCommit
<1>6. users[actor].exists
  BY <1>1 DEF LedgerInv, ActorLocked
<1>7. NetChange(o, loaded[r]) => users[u].exists \/ o.kind = "remove"
  BY <1>1 DEF IInv, Inv, WrittenUnderLock
<1>8. action \in Ledger!Changing => users[u].exists
  <2>1. action \in Ledger!Changing => NetChange(o, loaded[r])
    BY <1>1 DEF Ledger!Changing, ActionFor, NetChange, Operation
  <2>2. action \in Ledger!Changing => action # "deleted"
    BY DEF Ledger!Changing
  <2> QED
    BY <1>3, <1>7, <2>1, <2>2
<1>9. \E row \in (IF users[u].exists THEN Ledger!Outcomes(action, users[u]) ELSE {users[u]}) :
        users' = [users EXCEPT ![u] = row]
  <2> DEFINE new == NewRow(o, loaded[r], users[u])
  <2>1. users' = [users EXCEPT ![u] = new]
    BY DEF Commit
  <2>2. CASE users[u].exists
    BY <1>1, <2>1, <2>2, TruthfulEntry
  <2>3. CASE ~users[u].exists
    <3>1. new = users[u]
      <4>1. CASE o.kind = "remove"
        BY <1>1, <2>3, <4>1 DEF NewRow, LedgerInv, GoneIsEmpty
      <4>2. CASE o.kind # "remove"
        BY <1>1, <1>7, <2>3, <4>2, NewRowKeeps
      <4> QED
        BY <4>1, <4>2
    <3> QED
      BY <2>1, <2>3, <3>1
  <2> QED
    BY <2>2, <2>3
<1>10. audit' = (IF action = "deleted" THEN Ledger!Relinked(u) ELSE audit)
                  \cup {[req |-> r, actor |-> actor, target |-> u, action |-> action]}
  BY <1>3 DEF Commit, Orphaned, Ledger!Relinked, Entry
<1>11. Ledger!Record(r, actor, u, action)
  BY <1>5, <1>6, <1>8, <1>9, <1>10 DEF Ledger!Record
<1> QED
  BY <1>1, <1>2, <1>4, <1>11 DEF Ledger!Next

\* Whatever the requests do to each other between their statements, the tables change
\* as if each had run alone and in one step, and every step is recorded truly: the
\* handlers of admin_user_service.py implement the ledger.
THEOREM ImplementsLedger == Spec => LedgerSpec
<1>1. Init => Ledger!Init
  BY DEF Init, NewUser, Ledger!Init
<1>2. IInv /\ LedgerInv /\ [Next]_vars => [Ledger!Next]_<<users, audit>>
  <2> SUFFICES ASSUME IInv, LedgerInv, [Next]_vars, ~UNCHANGED <<users, audit>>
               PROVE  Ledger!Next
    OBVIOUS
  <2>1. ASSUME NEW r \in Requests, Advance(r) PROVE Commit(r)
    BY <2>1, LocksGrow DEF Fail
  <2>2. \E r \in Requests : Commit(r)
    BY <2>1 DEF Next, Receive, Abort, Fail, BreakDeadlock, Finished, vars
  <2> QED
    BY <2>2, CommitRecords
<1> QED
  BY <1>1, <1>2, LedgerInvInit, LedgerInvStep, Invariance, PTL DEF Spec, LedgerSpec, Ledger!Spec
===============================================================================
