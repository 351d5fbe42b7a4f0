----------------------------- MODULE MCAdminUsers -----------------------------
(* Small instances of AdminUsers for TLC.                                     *)
EXTENDS AdminUsers, TLC

Update(role, status) == [kind |-> "update", role |-> role, status |-> status]
Reset  == [kind |-> "reset", role |-> "keep", status |-> "keep"]
Remove == [kind |-> "remove", role |-> "keep", status |-> "keep"]

Promote == Update("admin", "keep")
Demote  == Update("user", "keep")
Disable == Update("keep", "disabled")

\* Two accounts and three requests: the smallest instance with a change in flight
\* while two others change who is an admin.
TwoUsers == {1, 2}

RoleOperations == {Promote, Demote, Disable, Remove}
EveryOperation == Operation

\* Requests are interchangeable; used in the runs without liveness only.
RequestSymmetry == Permutations(Requests)
===============================================================================
