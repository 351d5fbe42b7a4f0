------------------------------ MODULE MCAuthSessions ------------------------------
(* The instances of AuthSessions that TLC checks.                                 *)
EXTENDS AuthSessions, TLC

EveryKind == SessionKinds \cup {"logout_all"} \cup AdminKinds
Takeover  == {"login", "change", "reset"}

\* Requests are interchangeable.
RequestSymmetry == Permutations(Requests)

===============================================================================
