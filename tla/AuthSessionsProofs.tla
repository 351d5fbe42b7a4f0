---------------------------- MODULE AuthSessionsProofs ----------------------------
(***************************************************************************)
(* What a version of a token says, for any number of requests.  A pair whose*)
(* version is the row's was issued from a row with the row's password; one  *)
(* whose version is ahead of the row's belongs to the password change that  *)
(* is about to commit that version.  The second half is where the proof uses*)
(* that a commit does not fail once its response is sent.                   *)
(***************************************************************************)
EXTENDS AuthSessions, TLAPS

\* The row a request loaded is the current one, or an older version of it.
LoadedIsPast ==
    \A r \in Requests :
        /\ loaded[r].ver <= user.ver
        /\ loaded[r].ver = user.ver => loaded[r].pw = user.pw

\* A refresh goes on with the version and the password of the row it loaded.
RefreshedIsLoaded ==
    \A r \in Requests :
        pc[r] = "loaded" /\ kind[r] = "refresh" => claims[r].pw = loaded[r].pw

OneHolder == \A r, s \in Requests : Holds(r) /\ Holds(s) => r = s

\* Nobody changes the row under its holder: the draft is what the UPDATE makes of it.
DraftIsCurrent == \A r \in Requests : Holds(r) => draft[r] = NewRow(r)

\* The pair t comes from a password change that has answered and not yet committed.
Ahead(t) ==
    /\ t.by \in Requests
    /\ pc[t.by] = "responded"
    /\ kind[t.by] = "change"
    /\ t.ver = user.ver + 1
    /\ t.pw = t.by

TokensKnown == \A t \in tokens : t.ver <= user.ver \/ Ahead(t)

\* The device of a password change that has answered holds its new pair.
ChangerHoldsPair ==
    \A r \in Requests :
        pc[r] = "responded" /\ kind[r] = "change" =>
            \E t \in tokens : t.by = r /\ t.ver = draft[r].ver

IInv ==
    /\ TypeOK
    /\ LoadedIsPast
    /\ RefreshedIsLoaded
    /\ OneHolder
    /\ DraftIsCurrent
    /\ LiveSessionsKnowThePassword
    /\ TokensKnown
    /\ ChangerHoldsPair

USE DEF PasswordKinds, AccessKinds, SessionKinds, AdminKinds, BumpingKinds, Stages

-------------------------------------------------------------------------------
LEMMA InitEstablishes == Init => IInv
BY TimeAssumption
   DEF Init, IInv, TypeOK, LoadedIsPast, RefreshedIsLoaded, OneHolder, DraftIsCurrent,
       LiveSessionsKnowThePassword, TokensKnown, ChangerHoldsPair, Holds, Row, FirstRow,
       Passwords

\* Typing, whether or not commits may fail.
LEMMA StepKeepsTypes ==
    ASSUME TypeOK, [Next]_vars
    PROVE  TypeOK'
<1> USE DEF TypeOK
<1>1. ASSUME NEW r \in Requests, Load(r) PROVE TypeOK'
  <2>1. PICK k \in Kinds : /\ kind' = [kind EXCEPT ![r] = k]
                           /\ \E t \in Presentable(k) : claims' = [claims EXCEPT ![r] = t]
    BY <1>1 DEF Load
  <2>2. Presentable(k) \subseteq Pair \cup {NoPair}
    BY DEF Presentable
  <2>3. PICK t \in Pair \cup {NoPair} : claims' = [claims EXCEPT ![r] = t]
    BY <2>1, <2>2
  <2>4. /\ loaded' = [loaded EXCEPT ![r] = user]
        /\ pc' = [pc EXCEPT ![r] = "loaded"]
        /\ UNCHANGED <<time, user, tokens, entered, draft>>
    BY <1>1 DEF Load, Goto
  <2> QED BY <2>1, <2>3, <2>4
<1>2. ASSUME NEW r \in Requests, Write(r) PROVE TypeOK'
  <2>1. user \in Row /\ r \in Passwords /\ user.ver + 1 \in Nat
    BY DEF Row, Passwords
  <2>2. /\ [user EXCEPT !.pw = r, !.ver = user.ver + 1] \in Row
        /\ [user EXCEPT !.ver = user.ver + 1] \in Row
    BY <2>1 DEF Row
  <2>3. /\ [user EXCEPT !.active = FALSE] \in Row
        /\ [user EXCEPT !.active = TRUE] \in Row
    BY <2>1 DEF Row
  <2>4. NewRow(r) \in Row
    BY <2>1, <2>2, <2>3 DEF NewRow, Bumped
  <2> QED BY <1>2, <2>4 DEF Write, Goto
<1>3. ASSUME NEW r \in Requests, Respond(r) PROVE TypeOK'
  <2>1. kind[r] \in SessionKinds => Issued(r) \in Pair
    <3>1. IssuedVersion(r) \in Nat /\ Behind(r) \in Passwords
      BY DEF IssuedVersion, Behind, Pair, NoPair, Row, Passwords
    <3>2. AuthAt(r) \in Nat /\ time + AccessLife \in Nat
      BY TimeAssumption DEF AuthAt, Pair, NoPair
    <3> QED BY <3>1, <3>2 DEF Issued, Pair
  <2>2. tokens' \subseteq Pair /\ entered' \subseteq Nat
    BY <1>3, <2>1 DEF Respond
  <2>3. pc' \in [Requests -> Stages]
    BY <1>3 DEF Respond, Goto
  <2> QED BY <1>3, <2>2, <2>3 DEF Respond
<1>4. ASSUME NEW r \in Requests, Commit(r) PROVE TypeOK'
  BY <1>4 DEF Commit, Goto
<1>5. ASSUME NEW r \in Requests, Fail(r) PROVE TypeOK'
  BY <1>5 DEF Fail, Goto
<1>6. CASE Tick
  BY <1>6 DEF Tick
<1>7. CASE UNCHANGED vars
  BY <1>7 DEF vars
<1> QED
  BY <1>1, <1>2, <1>3, <1>4, <1>5, <1>6, <1>7 DEF Next, Finished

-------------------------------------------------------------------------------
\* Reading the row, and the pair presented with the request.
LEMMA LoadPreserves ==
    ASSUME IInv, TypeOK', NEW r \in Requests, Load(r)
    PROVE  IInv'
<1> USE DEF TypeOK
<1>1. /\ pc[r] = "idle" /\ pc' = [pc EXCEPT ![r] = "loaded"]
      /\ loaded' = [loaded EXCEPT ![r] = user]
      /\ UNCHANGED <<time, user, tokens, entered, draft>>
  BY DEF Load, Goto
<1>2. PICK k \in Kinds : /\ kind' = [kind EXCEPT ![r] = k]
                         /\ \E t \in Presentable(k) : claims' = [claims EXCEPT ![r] = t]
  BY DEF Load
<1>3. PICK t \in Presentable(k) : claims' = [claims EXCEPT ![r] = t]
  BY <1>2
<1>4. pc'[r] = "loaded" /\ kind'[r] = k /\ loaded'[r] = user /\ claims'[r] = t
  BY <1>1, <1>2, <1>3 DEF IInv
<1>5. \A s \in Requests \ {r} :
          /\ pc'[s] = pc[s] /\ kind'[s] = kind[s]
          /\ loaded'[s] = loaded[s] /\ claims'[s] = claims[s]
  BY <1>1, <1>2, <1>3 DEF IInv
<1>6. LoadedIsPast'
  BY <1>1, <1>4, <1>5 DEF IInv, LoadedIsPast, Row
<1>7. RefreshedIsLoaded'
  <2>1. k = "refresh" => t \in tokens /\ t.ver = user.ver
    BY DEF Presentable, Refreshable
  <2> QED BY <1>4, <1>5, <2>1 DEF IInv, RefreshedIsLoaded, LiveSessionsKnowThePassword
<1>8. \A s \in Requests : Holds(s)' => s # r /\ Holds(s) /\ NewRow(s)' = NewRow(s)
  BY <1>1, <1>4, <1>5 DEF Holds, Writes, NewRow, Bumped
<1>9. OneHolder' /\ DraftIsCurrent'
  BY <1>1, <1>8 DEF IInv, OneHolder, DraftIsCurrent
<1>10. LiveSessionsKnowThePassword'
  BY <1>1 DEF IInv, LiveSessionsKnowThePassword
<1>11. TokensKnown' /\ ChangerHoldsPair'
  BY <1>1, <1>4, <1>5 DEF IInv, TokensKnown, Ahead, ChangerHoldsPair
<1> QED
  BY <1>6, <1>7, <1>9, <1>10, <1>11 DEF IInv

\* Taking the row lock.
LEMMA WritePreserves ==
    ASSUME IInv, TypeOK', NEW r \in Requests, Write(r)
    PROVE  IInv'
<1> USE DEF TypeOK
<1>1. /\ pc[r] = "loaded" /\ pc' = [pc EXCEPT ![r] = "written"]
      /\ draft' = [draft EXCEPT ![r] = NewRow(r)]
      /\ UNCHANGED <<time, user, tokens, entered, kind, claims, loaded>>
      /\ \A s \in Requests \ {r} : ~Holds(s)
  BY DEF Write, Goto
<1>2. pc'[r] = "written" /\ draft'[r] = NewRow(r)
      /\ \A s \in Requests \ {r} : pc'[s] = pc[s] /\ draft'[s] = draft[s]
  BY <1>1 DEF IInv
<1>3. \A s \in Requests \ {r} : ~Holds(s)'
  BY <1>1, <1>2 DEF Holds, Writes
<1>4. NewRow(r)' = NewRow(r)
  BY <1>1 DEF NewRow, Bumped
<1>5. LoadedIsPast' /\ RefreshedIsLoaded' /\ LiveSessionsKnowThePassword'
  BY <1>1, <1>2 DEF IInv, LoadedIsPast, RefreshedIsLoaded, LiveSessionsKnowThePassword
<1>6. OneHolder'
  BY <1>3 DEF OneHolder
<1>7. DraftIsCurrent'
  BY <1>2, <1>3, <1>4 DEF DraftIsCurrent
<1>8. TokensKnown' /\ ChangerHoldsPair'
  BY <1>1, <1>2 DEF IInv, TokensKnown, Ahead, ChangerHoldsPair
<1> QED
  BY <1>5, <1>6, <1>7, <1>8 DEF IInv

\* The new pair is that of the row loaded, or that of the change about to commit.
LEMMA RespondPreserves ==
    ASSUME IInv, TypeOK', NEW r \in Requests, Respond(r)
    PROVE  IInv'
<1> USE DEF TypeOK
<1> DEFINE next == IF Writes(r) THEN "responded" ELSE "done"
<1>1. /\ pc[r] = IF Writes(r) THEN "written" ELSE "loaded"
      /\ pc' = [pc EXCEPT ![r] = next]
      /\ tokens' = IF kind[r] \in SessionKinds THEN tokens \cup {Issued(r)} ELSE tokens
      /\ UNCHANGED <<time, user, kind, claims, loaded, draft>>
  BY DEF Respond, Goto
<1>2. pc'[r] = next /\ \A s \in Requests \ {r} : pc'[s] = pc[s]
  BY <1>1 DEF IInv
<1>3. Writes(r) => draft[r] = NewRow(r)
  BY <1>1 DEF IInv, DraftIsCurrent, Holds
<1>4. ASSUME kind[r] = "change"
      PROVE  LiveSessionsKnowThePassword' /\ TokensKnown' /\ ChangerHoldsPair'
  <2>1. Writes(r) /\ draft[r].ver = user.ver + 1
    BY <1>3, <1>4 DEF Writes, NewRow, Bumped, IInv, Row
  <2>2. Issued(r).ver = user.ver + 1 /\ Issued(r).pw = r /\ Issued(r).by = r
    BY <1>4, <2>1 DEF Issued, IssuedVersion, Behind
  <2>3. tokens' = tokens \cup {Issued(r)} /\ pc'[r] = "responded"
    BY <1>1, <1>2, <1>4, <2>1
  <2>4. LiveSessionsKnowThePassword'
    BY <1>1, <2>2, <2>3 DEF IInv, LiveSessionsKnowThePassword, Row
  <2>5. TokensKnown'
    BY <1>1, <1>2, <1>4, <2>2, <2>3 DEF IInv, TokensKnown, Ahead
  <2>6. ChangerHoldsPair'
    <3> SUFFICES ASSUME NEW s \in Requests, pc'[s] = "responded", kind[s] = "change"
                 PROVE  \E t \in tokens' : t.by = s /\ t.ver = draft[s].ver
      BY <1>1 DEF ChangerHoldsPair
    <3>1. CASE s = r
      BY <2>1, <2>2, <2>3, <3>1
    <3>2. CASE s # r
      <4>1. \E t \in tokens : t.by = s /\ t.ver = draft[s].ver
        BY <1>2, <3>2 DEF IInv, ChangerHoldsPair
      <4> QED BY <2>3, <4>1
    <3> QED BY <3>1, <3>2
  <2> QED BY <2>4, <2>5, <2>6
<1>5. ASSUME kind[r] # "change"
      PROVE  LiveSessionsKnowThePassword' /\ TokensKnown' /\ ChangerHoldsPair'
  <2>1. kind[r] \in SessionKinds =>
          Issued(r).ver = loaded[r].ver /\ Issued(r).pw = loaded[r].pw
    <3>1. kind[r] = "refresh" => pc[r] = "loaded"
      BY <1>1 DEF Writes
    <3>2. kind[r] = "refresh" => claims[r].pw = loaded[r].pw
      BY <3>1 DEF IInv, RefreshedIsLoaded
    <3> QED BY <1>5, <3>2 DEF Issued, IssuedVersion, Behind
  <2>2. LiveSessionsKnowThePassword'
    BY <1>1, <2>1 DEF IInv, LiveSessionsKnowThePassword, LoadedIsPast
  <2>3. TokensKnown'
    <3>1. \A t \in tokens : Ahead(t) => Ahead(t)'
      BY <1>1, <1>2, <1>5 DEF Ahead
    <3> QED BY <1>1, <2>1, <3>1 DEF IInv, TokensKnown, LoadedIsPast
  <2>4. ChangerHoldsPair'
    <3> SUFFICES ASSUME NEW s \in Requests, pc'[s] = "responded", kind[s] = "change"
                 PROVE  \E t \in tokens' : t.by = s /\ t.ver = draft[s].ver
      BY <1>1 DEF ChangerHoldsPair
    <3>1. \E t \in tokens : t.by = s /\ t.ver = draft[s].ver
      BY <1>2, <1>5 DEF IInv, ChangerHoldsPair
    <3>2. tokens \subseteq tokens'
      BY <1>1
    <3> QED BY <3>1, <3>2
  <2> QED BY <2>2, <2>3, <2>4
<1>6. LiveSessionsKnowThePassword' /\ TokensKnown' /\ ChangerHoldsPair'
  BY <1>4, <1>5
<1>7. \A s \in Requests : Holds(s)' => Holds(s) /\ NewRow(s)' = NewRow(s)
  BY <1>1, <1>2 DEF Holds, NewRow, Bumped
<1>8. OneHolder' /\ DraftIsCurrent'
  BY <1>1, <1>7 DEF IInv, OneHolder, DraftIsCurrent
<1>9. LoadedIsPast' /\ RefreshedIsLoaded'
  BY <1>1, <1>2 DEF IInv, LoadedIsPast, RefreshedIsLoaded
<1> QED
  BY <1>6, <1>8, <1>9 DEF IInv

\* The row becomes its holder's draft; only a pair of that holder has its new version.
LEMMA CommitPreserves ==
    ASSUME IInv, TypeOK', NEW r \in Requests, Commit(r)
    PROVE  /\ IInv'
           /\ user'.ver # user.ver => \A t \in tokens : t.ver = user'.ver => t.by = r
<1> USE DEF TypeOK
<1>1. /\ pc[r] = "responded" /\ pc' = [pc EXCEPT ![r] = "done"]
      /\ user' = draft[r]
      /\ UNCHANGED <<time, tokens, entered, kind, claims, loaded, draft>>
  BY DEF Commit, Goto
<1>2. pc'[r] = "done" /\ \A s \in Requests \ {r} : pc'[s] = pc[s]
  BY <1>1 DEF IInv
<1>3. Holds(r) /\ draft[r] = NewRow(r)
  BY <1>1 DEF Holds, IInv, DraftIsCurrent
<1>4. \A s \in Requests \ {r} : ~Holds(s)
  BY <1>3 DEF IInv, OneHolder
<1>5. /\ draft[r].ver \in {user.ver, user.ver + 1}
      /\ draft[r].ver = user.ver => draft[r].pw = user.pw
      /\ kind[r] = "change" => draft[r].pw = r
  BY <1>3 DEF NewRow, Bumped, IInv, Row
<1>6. \A t \in tokens : Ahead(t) => t.by = r /\ t.pw = r /\ kind[r] = "change"
  BY <1>4 DEF Ahead, Holds
<1>7. user.ver \in Nat /\ draft[r] \in Row /\ \A t \in tokens : t.ver \in Nat
  BY DEF IInv, Row, Pair
<1>8. LoadedIsPast'
  BY <1>1, <1>5, <1>7 DEF IInv, LoadedIsPast, Row
<1>9. LiveSessionsKnowThePassword'
  <2> SUFFICES ASSUME NEW t \in tokens, t.ver = draft[r].ver PROVE t.pw = draft[r].pw
    BY <1>1 DEF LiveSessionsKnowThePassword
  <2>1. CASE draft[r].ver = user.ver
    BY <1>5, <2>1 DEF IInv, LiveSessionsKnowThePassword
  <2>2. CASE draft[r].ver = user.ver + 1
    <3>1. Ahead(t)
      BY <1>7, <2>2 DEF IInv, TokensKnown
    <3> QED BY <1>5, <1>6, <3>1
  <2> QED BY <1>5, <2>1, <2>2
<1>10. TokensKnown'
  <2> SUFFICES ASSUME NEW t \in tokens PROVE t.ver <= draft[r].ver
    BY <1>1 DEF TokensKnown
  <2>1. CASE t.ver <= user.ver
    BY <1>5, <1>7, <2>1
  <2>2. CASE Ahead(t)
    <3>1. kind[r] = "change" /\ t.ver = user.ver + 1
      BY <1>6, <2>2 DEF Ahead
    <3>2. draft[r].ver = user.ver + 1
      BY <1>3, <3>1 DEF NewRow, Bumped, IInv, Row
    <3> QED BY <1>7, <3>1, <3>2
  <2> QED BY <2>1, <2>2 DEF IInv, TokensKnown
<1>11. OneHolder' /\ DraftIsCurrent'
  BY <1>1, <1>2, <1>4 DEF OneHolder, DraftIsCurrent, Holds
<1>12. RefreshedIsLoaded' /\ ChangerHoldsPair'
  BY <1>1, <1>2 DEF IInv, RefreshedIsLoaded, ChangerHoldsPair
<1>13. user'.ver # user.ver => \A t \in tokens : t.ver = user'.ver => t.by = r
  <2> SUFFICES ASSUME draft[r].ver # user.ver, NEW t \in tokens, t.ver = draft[r].ver
               PROVE  t.by = r
    BY <1>1
  <2>1. Ahead(t)
    BY <1>5, <1>7 DEF IInv, TokensKnown
  <2> QED BY <1>6, <2>1
<1> QED
  BY <1>8, <1>9, <1>10, <1>11, <1>12, <1>13 DEF IInv

\* A rollback takes nothing back that was handed out, as long as it precedes the response.
LEMMA FailPreserves ==
    ASSUME ~CommitMayFail, IInv, TypeOK', NEW r \in Requests, Fail(r)
    PROVE  IInv'
<1> USE DEF TypeOK
<1>1. /\ pc[r] \in {"loaded", "written"} /\ pc' = [pc EXCEPT ![r] = "failed"]
      /\ UNCHANGED <<time, user, tokens, entered, kind, claims, loaded, draft>>
  BY DEF Fail, Goto
<1>2. pc'[r] = "failed" /\ \A s \in Requests \ {r} : pc'[s] = pc[s]
  BY <1>1 DEF IInv
<1>3. LoadedIsPast' /\ RefreshedIsLoaded' /\ LiveSessionsKnowThePassword'
  BY <1>1, <1>2 DEF IInv, LoadedIsPast, RefreshedIsLoaded, LiveSessionsKnowThePassword
<1>4. \A s \in Requests : Holds(s)' => Holds(s) /\ NewRow(s)' = NewRow(s)
  BY <1>1, <1>2 DEF Holds, NewRow, Bumped
<1>5. OneHolder' /\ DraftIsCurrent'
  BY <1>1, <1>4 DEF IInv, OneHolder, DraftIsCurrent
<1>6. TokensKnown' /\ ChangerHoldsPair'
  BY <1>1, <1>2 DEF IInv, TokensKnown, Ahead, ChangerHoldsPair
<1> QED
  BY <1>3, <1>5, <1>6 DEF IInv

LEMMA StepPreserves ==
    ASSUME ~CommitMayFail
    PROVE  IInv /\ [Next]_vars => IInv'
<1> SUFFICES ASSUME IInv, [Next]_vars PROVE IInv'
  OBVIOUS
<1>1. TypeOK'
  BY StepKeepsTypes DEF IInv
<1>2. ASSUME NEW r \in Requests, Load(r) \/ Write(r) \/ Respond(r) \/ Commit(r) \/ Fail(r)
      PROVE  IInv'
  BY <1>1, <1>2, LoadPreserves, WritePreserves, RespondPreserves, CommitPreserves,
     FailPreserves
<1>3. CASE Tick
  BY <1>1, <1>3 DEF Tick, IInv, LoadedIsPast, RefreshedIsLoaded, OneHolder, DraftIsCurrent,
     LiveSessionsKnowThePassword, TokensKnown, Ahead, ChangerHoldsPair, Holds, NewRow, Bumped
<1>4. CASE UNCHANGED vars
  BY <1>1, <1>4 DEF vars, IInv, LoadedIsPast, RefreshedIsLoaded, OneHolder, DraftIsCurrent,
     LiveSessionsKnowThePassword, TokensKnown, Ahead, ChangerHoldsPair, Holds, NewRow, Bumped
<1> QED
  BY <1>2, <1>3, <1>4 DEF Next, Finished

-------------------------------------------------------------------------------
\* The types hold whether or not commits fail.
THEOREM TypeCorrect == Spec => []TypeOK
<1>1. Init => TypeOK
  BY InitEstablishes DEF IInv
<1>2. TypeOK /\ [Next]_vars => TypeOK'
  BY StepKeepsTypes
<1> QED
  BY <1>1, <1>2, PTL DEF Spec

\* The inductive invariant, where a commit does not fail after its response.
THEOREM Invariance ==
    ASSUME ~CommitMayFail
    PROVE  Spec => []IInv
BY InitEstablishes, StepPreserves, PTL DEF Spec

\* A session that can be refreshed belongs to somebody who knows the current password.
THEOREM LiveSessionsAreLegitimate ==
    ASSUME ~CommitMayFail
    PROVE  Spec => []LiveSessionsKnowThePassword
<1>1. IInv => LiveSessionsKnowThePassword
  BY DEF IInv
<1> QED
  BY <1>1, Invariance, PTL

\* A committed bump revokes every pair but the one its own request issued.
THEOREM BumpsRevoke ==
    ASSUME ~CommitMayFail
    PROVE  Spec => BumpRevokesAll
<1>1. IInv /\ [Next]_vars =>
        [\A r \in Requests :
            Commit(r) /\ user'.ver # user.ver =>
                \A t \in tokens : t.ver = user'.ver => t.by = r]_vars
  BY StepKeepsTypes, CommitPreserves DEF IInv
<1> QED
  BY <1>1, Invariance, PTL DEF Spec, BumpRevokesAll

\* A password change leaves its own device signed in.
THEOREM ChangeKeepsDevice ==
    ASSUME ~CommitMayFail
    PROVE  Spec => DeviceStaysSignedIn
<1>1. IInv /\ [Next]_vars =>
        [\A r \in Requests :
            Commit(r) /\ kind[r] = "change" =>
                \E t \in tokens : t.by = r /\ t.ver = user'.ver]_vars
  BY DEF IInv, ChangerHoldsPair, Commit
<1> QED
  BY <1>1, Invariance, PTL DEF Spec, DeviceStaysSignedIn

-------------------------------------------------------------------------------
\* Every pair is stamped with the time of a password entry, and so is every pair a
\* refresh is about to pass on.
Stamped ==
    /\ \A t \in tokens : t.at \in entered
    /\ \A r \in Requests :
          pc[r] = "loaded" /\ kind[r] = "refresh" => claims[r].at \in entered

PresenceInv == TypeOK /\ Stamped

\* The stamp is only ever that of a password entry.
LEMMA StepKeepsStamps ==
    ASSUME PresenceInv, [Next]_vars
    PROVE  Stamped'
<1> USE DEF PresenceInv, TypeOK, Stamped
<1>1. ASSUME NEW r \in Requests, Load(r) PROVE Stamped'
  <2>1. PICK k \in Kinds : /\ kind' = [kind EXCEPT ![r] = k]
                           /\ \E t \in Presentable(k) : claims' = [claims EXCEPT ![r] = t]
    BY <1>1 DEF Load
  <2>2. PICK t \in Presentable(k) : claims' = [claims EXCEPT ![r] = t]
    BY <2>1
  <2>3. k = "refresh" => t \in tokens
    BY <2>2 DEF Presentable
  <2>4. /\ pc' = [pc EXCEPT ![r] = "loaded"] /\ UNCHANGED <<tokens, entered>>
    BY <1>1 DEF Load, Goto
  <2> QED BY <2>1, <2>2, <2>3, <2>4
<1>2. ASSUME NEW r \in Requests, Respond(r) PROVE Stamped'
  <2>1. kind[r] = "refresh" => pc[r] = "loaded"
    BY <1>2 DEF Respond, Writes
  <2>2. kind[r] \in SessionKinds => Issued(r).at \in entered'
    BY <1>2, <2>1 DEF Respond, Issued, AuthAt
  <2>3. /\ entered \subseteq entered'
        /\ tokens' = IF kind[r] \in SessionKinds THEN tokens \cup {Issued(r)} ELSE tokens
        /\ UNCHANGED <<kind, claims>>
        /\ \A s \in Requests : pc'[s] = "loaded" => pc[s] = "loaded"
    BY <1>2 DEF Respond, Goto
  <2> QED BY <2>2, <2>3
<1>3. ASSUME NEW r \in Requests, Write(r) \/ Commit(r) \/ Fail(r) PROVE Stamped'
  BY <1>3 DEF Write, Commit, Fail, Goto
<1>4. CASE Tick
  BY <1>4 DEF Tick
<1>5. CASE UNCHANGED vars
  BY <1>5 DEF vars
<1> QED
  BY <1>1, <1>2, <1>3, <1>4, <1>5 DEF Next, Finished

\* An administrator is recently present, however long the session was kept alive.
THEOREM FreshnessIsPresence == Spec => []FreshMeansPresent
<1>1. Init => PresenceInv
  BY InitEstablishes DEF Init, IInv, PresenceInv, Stamped
<1>2. PresenceInv /\ [Next]_vars => PresenceInv'
  BY StepKeepsTypes, StepKeepsStamps DEF PresenceInv
<1>3. PresenceInv => FreshMeansPresent
  BY DEF PresenceInv, Stamped, FreshMeansPresent, FreshAdmin
<1> QED
  BY <1>1, <1>2, <1>3, PTL DEF Spec

===============================================================================
