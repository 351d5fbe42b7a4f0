------------------------------ MODULE AuthSessions ------------------------------
(***************************************************************************)
(* The sessions of one account: login, refresh, re-authentication, password *)
(* change, logout-everywhere (services/auth_service.py and the endpoints    *)
(* over it) and what an administrator does to the same row (password reset, *)
(* disable, enable).  Tokens are stateless: whoever was given a pair can    *)
(* present it at any time.  A request is one READ COMMITTED transaction that*)
(* get_session commits after the response, with its cookies, has been sent. *)
(***************************************************************************)
EXTENDS Naturals

CONSTANTS
    Requests,        \* requests about the account, each handled once
    Kinds,           \* the kinds of request that occur
    FirstPassword,   \* the password the account was registered with
    AccessLife,      \* access_token_minutes, in ticks
    ReauthWindow,    \* admin_reauth_minutes, in ticks
    MaxTime,         \* bound: the last tick, well before refresh_token_days
    CommitMayFail    \* whether a commit may fail once its response is sent

PasswordKinds == {"login", "reauth", "change"}
AccessKinds   == {"reauth", "change", "logout_all"}
SessionKinds  == PasswordKinds \cup {"refresh"}
AdminKinds    == {"reset", "disable", "enable"}
BumpingKinds  == {"change", "logout_all", "reset"}

ASSUME KindsAssumption  == Kinds \subseteq SessionKinds \cup {"logout_all"} \cup AdminKinds
ASSUME TimeAssumption   == AccessLife \in Nat /\ ReauthWindow \in Nat /\ MaxTime \in Nat
ASSUME FirstAssumption  == FirstPassword \notin Requests
ASSUME CommitAssumption == CommitMayFail \in BOOLEAN

VARIABLES
    time,       \* the clock, in ticks
    user,       \* the committed row of the account
    tokens,     \* every pair of tokens handed out so far
    entered,    \* the times at which a pair was issued for a password
    pc,         \* how far each request is
    kind,       \* what each request asks for
    claims,     \* the pair each request presented
    loaded,     \* the row as the request loaded it
    draft       \* the row as its open transaction leaves it

vars == <<time, user, tokens, entered, pc, kind, claims, loaded, draft>>

\* A password is known by the request that set it.
Passwords == Requests \cup {FirstPassword}
Row       == [pw: Passwords, ver: Nat, active: BOOLEAN]
FirstRow  == [pw |-> FirstPassword, ver |-> 0, active |-> TRUE]

\* An access and a refresh token: version, time of the password entry, end of the
\* access token; and, for the properties, the password behind it and its issuer.
Pair   == [ver: Nat, at: Nat, exp: Nat, pw: Passwords, by: Requests]
NoPair == [ver |-> 0, at |-> 0, exp |-> 0, pw |-> FirstPassword, by |-> FirstPassword]

Stages == {"idle", "loaded", "written", "responded", "done", "failed"}

Init ==
    /\ time = 0
    /\ user = FirstRow
    /\ tokens = {}
    /\ entered = {}
    /\ pc = [r \in Requests |-> "idle"]
    /\ kind = [r \in Requests |-> "none"]
    /\ claims = [r \in Requests |-> NoPair]
    /\ loaded = [r \in Requests |-> FirstRow]
    /\ draft = [r \in Requests |-> FirstRow]

-------------------------------------------------------------------------------
Goto(r, stage) == pc' = [pc EXCEPT ![r] = stage]

\* decode_token: the access token has not expired.  Its version is not looked at.
Authenticated(t) == t.exp > time

\* refresh: the version is still the row's, and the account is active.
Refreshable(t) == t.ver = user.ver /\ user.active

\* The pairs a request of kind k may present and be served; a login and a request
\* of the administrator present none.
Presentable(k) ==
    CASE k = "refresh"      -> {t \in tokens : Refreshable(t)}
      [] k \in AccessKinds  -> {t \in tokens : Authenticated(t) /\ user.active}
      [] k = "login"        -> IF user.active THEN {NoPair} ELSE {}
      [] OTHER              -> {NoPair}

\* The request is let in and reads the row.  A password is verified against the hash
\* read here, in the hash pool, while other requests go on; a wrong one is Fail.
Load(r) ==
    /\ pc[r] = "idle"
    /\ \E k \in Kinds :
          /\ kind' = [kind EXCEPT ![r] = k]
          /\ \E t \in Presentable(k) : claims' = [claims EXCEPT ![r] = t]
    /\ loaded' = [loaded EXCEPT ![r] = user]
    /\ Goto(r, "loaded")
    /\ UNCHANGED <<time, user, tokens, entered, draft>>

\* Login stamps last_login_at; an unchanged is_active is not written.
Writes(r) ==
    CASE kind[r] = "disable" -> loaded[r].active
      [] kind[r] = "enable"  -> ~loaded[r].active
      [] OTHER               -> kind[r] \in BumpingKinds \cup {"login"}

\* Mutant: token_version is incremented in Python.
Bumped_ReadModifyWrite(r) == loaded[r].ver + 1

\* bump_token_version: incremented by the database, in the row's newest version.
Bumped(r) == user.ver + 1

NewRow(r) ==
    CASE kind[r] \in {"change", "reset"} -> [user EXCEPT !.pw = r, !.ver = Bumped(r)]
      [] kind[r] = "logout_all"          -> [user EXCEPT !.ver = Bumped(r)]
      [] kind[r] = "disable"             -> [user EXCEPT !.active = FALSE]
      [] kind[r] = "enable"              -> [user EXCEPT !.active = TRUE]
      [] OTHER                           -> user

\* A request holds the row lock from its UPDATE to the end of its transaction.
Holds(r) == pc[r] \in {"written", "responded"}

\* The UPDATE, which waits for the lock; what it does is visible to others on commit.
Write(r) ==
    /\ pc[r] = "loaded"
    /\ Writes(r)
    /\ \A s \in Requests \ {r} : ~Holds(s)
    /\ draft' = [draft EXCEPT ![r] = NewRow(r)]
    /\ Goto(r, "written")
    /\ UNCHANGED <<time, user, tokens, entered, kind, claims, loaded>>

\* Mutant: a refresh counts as presence.
AuthAt_Refreshed(r) == time

\* _issue is given the claim presented by a refresh, and now by everything else.
AuthAt(r) == IF kind[r] = "refresh" THEN claims[r].at ELSE time

\* Mutant: the version loaded with the row, not the one just written.
IssuedVersion_Loaded(r) == loaded[r].ver

\* replace_password reads token_version back; the others use the row they loaded.
IssuedVersion(r) == IF kind[r] = "change" THEN draft[r].ver ELSE loaded[r].ver

\* The password behind the session: entered, newly set, or that of the pair refreshed.
Behind(r) ==
    CASE kind[r] = "refresh" -> claims[r].pw
      [] kind[r] = "change"  -> r
      [] OTHER               -> loaded[r].pw

Issued(r) == [ver |-> IssuedVersion(r), at |-> AuthAt(r), exp |-> time + AccessLife,
              pw |-> Behind(r), by |-> r]

\* The response is sent, with a new pair of cookies where the endpoint sets them.
Respond(r) ==
    /\ pc[r] = IF Writes(r) THEN "written" ELSE "loaded"
    /\ tokens' = IF kind[r] \in SessionKinds THEN tokens \cup {Issued(r)} ELSE tokens
    /\ entered' = IF kind[r] \in PasswordKinds THEN entered \cup {time} ELSE entered
    /\ Goto(r, IF Writes(r) THEN "responded" ELSE "done")
    /\ UNCHANGED <<time, user, kind, claims, loaded, draft>>

Commit(r) ==
    /\ pc[r] = "responded"
    /\ user' = draft[r]
    /\ Goto(r, "done")
    /\ UNCHANGED <<time, tokens, entered, kind, claims, loaded, draft>>

\* A wrong password, an error, a lost connection: the transaction is rolled back.
Fail(r) ==
    /\ \/ pc[r] \in {"loaded", "written"}
       \/ pc[r] = "responded" /\ CommitMayFail
    /\ Goto(r, "failed")
    /\ UNCHANGED <<time, user, tokens, entered, kind, claims, loaded, draft>>

-------------------------------------------------------------------------------
\* require_fresh_admin, for an account that is an administrator's: the token's age is
\* checked, and the row, but not the token's version.  What such an administrator may do
\* to other accounts is the subject of AdminUsers.
FreshAdmin(t) == Authenticated(t) /\ time <= t.at + ReauthWindow /\ user.active

Tick ==
    /\ time < MaxTime
    /\ time' = time + 1
    /\ UNCHANGED <<user, tokens, entered, pc, kind, claims, loaded, draft>>

Finished ==
    /\ \A r \in Requests : pc[r] \in {"done", "failed"}
    /\ time = MaxTime
    /\ UNCHANGED vars

Next ==
    \/ \E r \in Requests : Load(r) \/ Write(r) \/ Respond(r) \/ Commit(r) \/ Fail(r)
    \/ Tick
    \/ Finished

Spec == Init /\ [][Next]_vars

-------------------------------------------------------------------------------
(* Properties.                                                               *)

TypeOK ==
    /\ time \in Nat
    /\ user \in Row
    /\ tokens \subseteq Pair
    /\ entered \subseteq Nat
    /\ pc \in [Requests -> Stages]
    /\ kind \in [Requests -> Kinds \cup {"none"}]
    /\ claims \in [Requests -> Pair \cup {NoPair}]
    /\ loaded \in [Requests -> Row]
    /\ draft \in [Requests -> Row]

\* Whoever can keep a session alive by refreshing it has entered, or set, the password
\* the account has now: user_repository.py:43-45, no bump may un-revoke another.
LiveSessionsKnowThePassword ==
    \A t \in tokens : t.ver = user.ver => t.pw = user.pw

\* models/user.py:25: when a bump of token_version is committed, every pair handed out
\* before is revoked; only the one issued by that very request is good.
BumpRevokesAll ==
    [][\A r \in Requests :
          Commit(r) /\ user'.ver # user.ver =>
              \A t \in tokens : t.ver = user'.ver => t.by = r]_vars

\* A password change leaves its own device signed in (auth_service.py:129), even when
\* other changes were committed between its read of the row and its write.
DeviceStaysSignedIn ==
    [][\A r \in Requests :
          Commit(r) /\ kind[r] = "change" =>
              \E t \in tokens : t.by = r /\ t.ver = user'.ver]_vars

\* Administrators act only within the window after somebody entered the password: a
\* session kept alive by refreshing is not presence, however often it is refreshed.
FreshMeansPresent ==
    \A t \in tokens : FreshAdmin(t) => \E e \in entered : time <= e + ReauthWindow

\* POST /password "verifies current": a password is replaced only by somebody who
\* entered the very password it replaces.
ChangeVerifiesCurrent ==
    [][\A r \in Requests :
          Commit(r) /\ kind[r] = "change" => loaded[r].pw = user.pw]_vars

===============================================================================
