------------------------------ MODULE UserLedger ------------------------------
(***************************************************************************)
(* What the administration of users promises, without transactions, locks  *)
(* or stages: one request changes at most one account, in one step, and in  *)
(* that step leaves exactly one audit row that says truly what became of    *)
(* it.  A deleted account never comes back, and audit rows outlive both.    *)
(***************************************************************************)
EXTENDS Naturals

CONSTANTS Users, Requests, Nobody

VARIABLES users, audit

Gone == [exists |-> FALSE, role |-> "user", status |-> "disabled", ver |-> 0]

\* The accounts a recorded action may leave behind.  A PATCH may find its change made
\* already, so "enabled" and "disabled" also allow the row to stay as it was.
Outcomes(action, row) ==
    CASE action = "deleted"        -> {Gone}
      [] action = "password_reset" -> {[row EXCEPT !.ver = @ + 1]}
      [] action = "promoted"       -> {[row EXCEPT !.role = "admin", !.status = s] :
                                          s \in {"active", "disabled"}}
      [] action = "demoted"        -> {[row EXCEPT !.role = "user", !.status = s] :
                                          s \in {"active", "disabled"}}
      [] action = "enabled"        -> {row, [row EXCEPT !.status = "active"]}
      [] action = "disabled"       -> {row, [row EXCEPT !.status = "disabled"]}

Changing == {"password_reset", "promoted", "demoted"}
Actions  == Changing \cup {"deleted", "enabled", "disabled"}

\* The rows that survive the removal of account u, each naming an actor that exists.
Relinked(u) == {[a EXCEPT !.actor = IF @ = u THEN Nobody ELSE @] : a \in audit}

Record(r, actor, u, action) ==
    /\ \A a \in audit : a.req # r
    /\ users[actor].exists
    /\ action \in Changing => users[u].exists
    /\ \E row \in (IF users[u].exists THEN Outcomes(action, users[u]) ELSE {users[u]}) :
          users' = [users EXCEPT ![u] = row]
    /\ audit' = (IF action = "deleted" THEN Relinked(u) ELSE audit)
                  \cup {[req |-> r, actor |-> actor, target |-> u, action |-> action]}

Init ==
    /\ audit = {}
    /\ \A u \in Users : users[u].exists

Next ==
    \E r \in Requests, actor, u \in Users, action \in Actions :
        /\ action = "deleted" => actor # u
        /\ Record(r, actor, u, action)

Spec == Init /\ [][Next]_<<users, audit>>
===============================================================================
