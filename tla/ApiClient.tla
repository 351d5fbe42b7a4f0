------------------------------ MODULE ApiClient ------------------------------
(***************************************************************************)
(* The browser's API client (lib/api/client.ts): a request that finds its  *)
(* access token expired waits for one refresh, shared by every request that *)
(* did, and is sent once more.  Who calls it is up to the module extending  *)
(* this one; the server of auth.py is external.                             *)
(***************************************************************************)
EXTENDS Integers, FiniteSets

CONSTANT NULL

VARIABLES
  requests,   \* the calls whose promise is not settled, and what is known of them
  refreshing, \* refreshInFlight is set
  token,      \* of the cookies: "valid", "expired", or "none" when there is no session
  aborted     \* calls whose signal is aborted

clientVars == <<requests, refreshing, token, aborted>>

Replace(r, s) == requests' = (requests \ {r}) \cup {s}

\* `valid`: the token it carries has not expired; `handled`: how often a handler ran;
\* phase: "sent", "waiting" for the refresh, "again"; then "ok" or "failed".
Request(n, op, body) ==
  [n |-> n, op |-> op, body |-> body, phase |-> "sent", valid |-> token # "expired",
   handled |-> 0, answer |-> {}]
OnTheWire(r) == r.phase \in {"sent", "again"}
Settled(r) == r.phase \in {"ok", "failed"}

\* The access token lives fifteen minutes; its cookie stays.
TokenExpires ==
  /\ token = "valid" /\ token' = "expired"
  /\ UNCHANGED <<requests, refreshing, aborted>>

\* Mutant: a broken connection is taken for an expired token, and the call sent again.
Handle_Replayed(r, answer) ==
  /\ OnTheWire(r) /\ r.valid
  /\ \E arrives \in BOOLEAN :
       /\ Replace(r, [r EXCEPT !.phase = IF arrives THEN "ok"
                                         ELSE IF r.phase = "sent" THEN "waiting" ELSE "failed",
                               !.handled = @ + 1, !.answer = IF arrives THEN answer ELSE {}])
       /\ refreshing' = (refreshing \/ (~arrives /\ r.phase = "sent"))
  /\ UNCHANGED <<token, aborted>>

\* A handler of the server runs for the request; its answer may be lost on the way, and
\* a stream may break before its last frame.
Handle(r, answer) ==
  /\ OnTheWire(r) /\ r.valid
  /\ \E arrives \in BOOLEAN :
       Replace(r, [r EXCEPT !.phase = IF arrives THEN "ok" ELSE "failed",
                            !.handled = @ + 1, !.answer = IF arrives THEN answer ELSE {}])
  /\ UNCHANGED <<refreshing, token, aborted>>

\* token_expired: refused before any handler; the second time it is the answer.
Expired(r) ==
  /\ ~r.valid
  /\ \/ /\ r.phase = "sent" /\ refreshing' = TRUE
        /\ Replace(r, [r EXCEPT !.phase = "waiting"])
     \/ /\ r.phase = "again" /\ UNCHANGED refreshing
        /\ Replace(r, [r EXCEPT !.phase = "failed"])
  /\ UNCHANGED <<token, aborted>>

\* The call never reaches a handler, or is refused by it.
Breaks(r) ==
  /\ OnTheWire(r)
  /\ Replace(r, [r EXCEPT !.phase = "failed"])
  /\ UNCHANGED <<refreshing, token, aborted>>

\* Everyone who waited is sent again with the new cookies, unless its signal is aborted ...
RefreshSucceeds ==
  /\ refreshing /\ refreshing' = FALSE
  /\ token # "none" /\ token' = "valid"
  /\ requests' = {IF r.phase # "waiting" THEN r
                  ELSE IF r.n \in aborted THEN [r EXCEPT !.phase = "failed"]
                  ELSE [r EXCEPT !.phase = "again", !.valid = TRUE] : r \in requests}
  /\ UNCHANGED aborted

\* ... or fails with what it was first told: the session is over, or the refresh broke.
RefreshFails ==
  /\ refreshing /\ refreshing' = FALSE
  /\ requests' = {IF r.phase = "waiting" THEN [r EXCEPT !.phase = "failed"] ELSE r : r \in requests}
  /\ UNCHANGED <<token, aborted>>

Refresh == RefreshSucceeds \/ RefreshFails
=============================================================================
