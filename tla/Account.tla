------------------------------- MODULE Account -------------------------------
(***************************************************************************)
(* Saved listings and price alerts: the account on the server              *)
(* (account_service and its two repositories) and the copies in the pages   *)
(* of browsers (AppState.tsx, lib/account.ts), joined by calls that are     *)
(* answered in any order, fail, or are carried out and lose their answer.   *)
(* A page changes its copy first and takes the change back when its call    *)
(* fails.  The pages of a browser share its cookies and its stored copy.    *)
(* The server answers first and commits afterwards (db/session.py).  Orders *)
(* of lists are left out; an alert's contents are who made it, and with     *)
(* which operation: no two alerts made are alike.                           *)
(***************************************************************************)
EXTENDS Integers, FiniteSets

CONSTANTS
  NULL, Users, Tabs, Browsers,
  Home,                  \* the browser a tab is open in
  Listings, Unlisted,    \* what browsers know, and what the table has no more
  Leftovers,             \* copies that earlier visits may have left in a browser
  MaxOps                 \* bound: operations begun in a tab

ASSUME AccountAssumption ==
  /\ NULL \notin Users \cup Tabs \cup (Tabs \X Nat) /\ Unlisted \subseteq Listings
  /\ Home \in [Tabs -> Browsers] /\ MaxOps \in [Tabs -> Nat]

VARIABLES
  saved,      \* user -> listings, the table
  alerts,     \* the table: [id, owner, ad]
  open,       \* answered and not yet committed: [n, device, user, puts, drops, rows, gone]
  calls,      \* in flight: [n, op, device, who, user, arg, phase, answer, stale]
  me,         \* tab -> userRef
  cookie,     \* browser -> the account its session cookies name
  blob,       \* tab -> persistedRef: [owner, saved, alerts], alerts [ref, id, ad]
  stored,     \* browser -> the copy in localStorage
  ops,        \* tab -> operations begun; names calls, alerts and local objects
  strayed,    \* history: one of the ways past AccountsKeepApart was taken
  overlap,    \* history: user -> alerts were stored by calls that overlapped an import
  doubt       \* history: tab -> what its own calls, one after the other, do not account for

server == <<saved, alerts, open>>
page == <<me, blob, stored, ops>>
history == <<strayed, overlap, doubt>>
vars == <<server, calls, cookie, page, history>>

\* What travels, and what is kept, by kind.
Ref == UNION {{d} \X (1..MaxOps[d]) : d \in Tabs}
Ad == [by : Users, ref : Ref \cup {NULL}]
RowId == Ref \X Ad
LocalAlert == [ref : Ref \cup {NULL}, id : RowId \cup {NULL}, ad : Ad]
StoredAlert == [id : RowId, owner : Users, ad : Ad]
Copy == [owner : Users \cup {NULL}, saved : SUBSET Listings, alerts : SUBSET LocalAlert]
Upload == [saved : SUBSET Listings, ads : SUBSET Ad]
Reading == [ads : SUBSET Ad, puts : SUBSET Listings]
AccountLists == [saved : SUBSET Listings, alerts : SUBSET StoredAlert]
Transaction == [n : Ref, device : Tabs \cup {NULL}, user : Users, puts : SUBSET Listings,
                drops : SUBSET Listings, rows : SUBSET StoredAlert, gone : SUBSET StoredAlert]
Operations == {"save", "unsave", "addAlert", "removeAlert", "import", "load"}
Phases == {"sent", "again", "read", "ok"}

\* What a call carries, and what its answer is, follow from its operation.
CallOK(c) ==
  /\ c = [n |-> c.n, op |-> c.op, device |-> c.device, who |-> c.who, user |-> c.user,
          arg |-> c.arg, phase |-> c.phase, answer |-> c.answer, stale |-> c.stale]
  /\ c.n \in Ref /\ c.op \in Operations /\ c.phase \in Phases /\ c.stale \in BOOLEAN
  /\ {c.who, c.user} \subseteq Users \cup {NULL} /\ c.device \in Tabs \cup {NULL}
  /\ c.phase = "read" => c.op \in {"import", "load"}
  /\ c.op \in {"save", "unsave"} => c.arg \in Listings
  /\ c.op = "addAlert" => c.arg \in Ad /\ (c.phase = "ok" => c.answer \in RowId)
  /\ c.op = "removeAlert" => c.arg \in LocalAlert
  /\ c.op = "import" => /\ c.user \in Users /\ c.arg \in Upload
                        /\ c.phase = "read" => c.answer \in Reading
                        /\ c.phase = "ok" => c.answer \in AccountLists
  /\ c.op = "load" => /\ c.device \in Tabs /\ c.phase # "again"
                      /\ c.phase = "ok" => c.answer \in AccountLists
  /\ c.op # "load" \/ c.phase # "sent" => c.who \in Users
  /\ c.phase = "ok" => c.device \in Tabs

\* A copy left in a browser holds its owner's alerts, made before the model begins; an id
\* in it is the alert's own.
ASSUME LeftoversAssumption ==
  /\ Leftovers \subseteq Copy
  /\ \A b \in Leftovers : \A a \in b.alerts :
        /\ a.ad.by = b.owner /\ a.ad.ref = NULL /\ a.ref = NULL
        /\ a.id # NULL => a.id[2] = a.ad

Empty == [owner |-> NULL, saved |-> {}, alerts |-> {}]
Flip(S, l) == IF l \in S THEN S \ {l} ELSE S \cup {l}
CallsOf(d) == {c \in calls : c.device = d}
Session(d) == cookie[Home[d]]
Pending(c) == c.phase \in {"sent", "again"}
Adopting(c) == c.op \in {"import", "load"}
OpenOf(u) == {t \in open : t.user = u}
AlertsOf(u) == {a \in alerts : a.owner = u}
AdsOf(A) == {a.ad : a \in A}

Init ==
  /\ saved = [u \in Users |-> {}] /\ alerts = {} /\ open = {} /\ calls = {}
  /\ me = [d \in Tabs |-> NULL] /\ cookie = [b \in Browsers |-> NULL]
  /\ stored \in [Browsers -> Leftovers] /\ blob = [d \in Tabs |-> stored[Home[d]]]
  /\ ops = [d \in Tabs |-> 0] /\ strayed = FALSE
  /\ overlap = [u \in Users |-> FALSE] /\ doubt = [d \in Tabs |-> {}]

-----------------------------------------------------------------------------
\* What calls and transactions are about, for the histories.

Things == Listings \cup Ad

About(c) ==
  CASE c.op = "removeAlert" -> {c.arg.ad} [] Adopting(c) -> Things [] OTHER -> {c.arg}

Touched(t) == t.puts \cup t.drops \cup AdsOf(t.rows \cup t.gone)

AllTouched(T) == UNION {Touched(t) : t \in T}
AllAbout(C) == UNION {About(c) : c \in C}

\* A change is not alone: a change of the same thing is on its way, or not committed, or
\* the browser's cookies are another account's.
Contested(c) ==
  {x \in About(c) : \/ c.user \notin {NULL, c.who}
                    \/ x \in AllAbout(CallsOf(c.device)) \cup AllTouched(OpenOf(c.who))}

Doubt(d, X) == doubt' = [doubt EXCEPT ![d] = @ \cup X]
NoDoubt == UNCHANGED doubt

\* Lists answered to the page settle what no other change is on its way for.
Fresh(c, u) ==
  doubt' = IF c.device = NULL \/ c.stale THEN doubt
           ELSE [doubt EXCEPT ![c.device] =
                   IF c.who # u THEN Things
                   ELSE AllAbout(CallsOf(c.device) \ {c}) \cup AllTouched(OpenOf(u))]

-----------------------------------------------------------------------------
\* The browser.

Call(op, d, who, user, arg) ==
  [n |-> <<d, ops[d] + 1>>, op |-> op, device |-> d, who |-> who, user |-> user, arg |-> arg,
   phase |-> "sent", answer |-> NULL, stale |-> FALSE]

\* A change goes out under whatever cookies the browser has by now.
SendChange(op, d, arg) ==
  LET c == Call(op, d, me[d], Session(d), arg)
  IN calls' = calls \cup {c} /\ Doubt(d, Contested(c))

Begin(d) == ops[d] < MaxOps[d] /\ ops' = [ops EXCEPT ![d] = @ + 1]

\* localStorage keeps no object identities.
Written(b) == [b EXCEPT !.alerts = {[a EXCEPT !.ref = NULL] : a \in @}]

\* commitPersisted, and the effect that writes the whole copy over the browser's.
Persist(d, b) ==
  /\ blob' = [blob EXCEPT ![d] = b]
  /\ stored' = [stored EXCEPT ![Home[d]] = Written(b)]

\* toggleSaved: a visitor's list lives in the browser only.
ToggleSaved(d, l) ==
  /\ Begin(d)
  /\ Persist(d, [blob[d] EXCEPT !.saved = Flip(@, l)])
  /\ IF me[d] = NULL THEN UNCHANGED calls /\ NoDoubt
     ELSE SendChange(IF l \in blob[d].saved THEN "unsave" ELSE "save", d, l)
  /\ UNCHANGED <<server, me, cookie, strayed, overlap>>

\* toggleCompare: the comparison is not an account's, but the copy is written whole.
ToggleCompare(d) ==
  /\ Begin(d) /\ Persist(d, blob[d])
  /\ UNCHANGED <<server, calls, me, cookie, history>>

\* addAlert asks only this page's userRef.  The alert is shown at once, without an id
\* until the server has stored it.
AddAlert(d) ==
  LET ref == <<d, ops[d] + 1>>
      ad == [by |-> me[d], ref |-> ref]
  IN /\ Begin(d) /\ me[d] # NULL
     /\ Persist(d, [blob[d] EXCEPT !.alerts = @ \cup {[ref |-> ref, id |-> NULL, ad |-> ad]}])
     /\ SendChange("addAlert", d, ad)
     /\ strayed' = (strayed \/ blob[d].owner # me[d] \/ Session(d) \notin {NULL, me[d]})
     /\ UNCHANGED <<server, me, cookie, overlap>>

\* removeAlert: the button of an alert without an id is disabled.
RemoveAlert(d, a) ==
  /\ Begin(d) /\ a.id # NULL /\ me[d] # NULL
  /\ Persist(d, [blob[d] EXCEPT !.alerts = {b \in @ : b.id # a.id}])
  /\ SendChange("removeAlert", d, a)
  /\ strayed' = (strayed \/ blob[d].owner # me[d])
  /\ UNCHANGED <<server, me, cookie, overlap>>

Aged(d) == {IF c.device = d THEN [c EXCEPT !.stale = TRUE] ELSE c : c \in calls}

\* Mutant: whatever the browser holds goes up, whoever it belongs to.
Importable_All(b, u) == [saved |-> b.saved, ads |-> AdsOf(b.alerts)]

\* importableLists: a leftover of another account is never sent.
Importable(b, u) ==
  IF b.owner \notin {NULL, u} THEN [saved |-> {}, ads |-> {}]
  ELSE [saved |-> b.saved, ads |-> AdsOf(b.alerts)]

\* signIn: the session is adopted, then what the page held goes up.  The button is there
\* whenever nobody is known, also while the load at start is in flight.  The browser's
\* other pages get the cookies too, and are not told.
SignIn(d, u) ==
  /\ Begin(d) /\ me[d] = NULL
  /\ me' = [me EXCEPT ![d] = u] /\ cookie' = [cookie EXCEPT ![Home[d]] = u]
  /\ calls' = Aged(d) \cup {Call("import", d, u, u, Importable(blob[d], u))}
  /\ UNCHANGED <<server, blob, stored, history>>

\* logout, when its call succeeds; when it fails nothing changes.
Logout(d) ==
  /\ Begin(d) /\ me[d] # NULL
  /\ me' = [me EXCEPT ![d] = NULL] /\ cookie' = [cookie EXCEPT ![Home[d]] = NULL]
  /\ Persist(d, Empty)
  /\ calls' = Aged(d)
  /\ UNCHANGED <<server, history>>

\* The refresh token ends; no page knows yet.
SessionEnds(d) ==
  /\ Begin(d) /\ Session(d) # NULL
  /\ cookie' = [cookie EXCEPT ![Home[d]] = NULL]
  /\ UNCHANGED <<server, calls, me, blob, stored, history>>

\* What is left of a call nobody waits for: the server may still carry it out.
GivenUp(c) ==
  IF c.phase = "ok" \/ c.op = "load" \/ c.user = NULL THEN {} ELSE {[c EXCEPT !.device = NULL]}

\* A new page: the stored copy is read back, the session is asked for, and nobody
\* waits for the old page's calls any more, though the server may carry them out.
Reload(d) ==
  /\ Begin(d)
  /\ me' = [me EXCEPT ![d] = NULL]
  /\ Persist(d, stored[Home[d]])
  /\ calls' = (calls \ CallsOf(d)) \cup (UNION {GivenUp(c) : c \in CallsOf(d)})
                \cup {Call("load", d, NULL, NULL, NULL)}
  /\ UNCHANGED <<server, cookie, history>>

\* The client's one replay after token_expired, under the cookies there are by then.
Replay(c) ==
  LET now == Session(c.device)
  IN /\ c.phase = "sent" /\ c.device # NULL /\ c.op # "load"
     /\ NULL \notin {c.user, now} /\ now # c.user
     /\ calls' = (calls \ {c}) \cup {[c EXCEPT !.phase = "again", !.user = now]}
     /\ strayed' = (strayed \/ (now # c.who /\ c.op \in {"addAlert", "import"}))
     /\ IF now # c.who THEN Doubt(c.device, About(c)) ELSE NoDoubt
     /\ UNCHANGED <<server, cookie, page, overlap>>

-----------------------------------------------------------------------------
\* The server.  A call without a session is refused, any call may fail.  Rows written
\* are seen by nobody else before the commit, and hold up who would write them too.

Answered(c, answer) ==
  calls' = (calls \ {c}) \cup (IF c.device = NULL THEN {}
                               ELSE {[c EXCEPT !.phase = "ok", !.answer = answer]})

\* What the request has done, to be committed when its answer is out; often it is nothing.
Opened(c, puts, drops, rows, gone) ==
  LET t == [n |-> c.n, device |-> c.device, user |-> c.user, puts |-> puts,
            drops |-> drops, rows |-> rows, gone |-> gone]
  IN open' = IF Touched(t) = {} THEN open ELSE open \cup {t}

Lists(u, S, A) == [saved |-> S, alerts |-> {a \in A : a.owner = u}]

\* The saved rows somebody has written or deleted and not committed.
Importing(u) == {c \in calls : c.op = "import" /\ c.phase = "read" /\ c.user = u}
Locked(u) ==
  (UNION {t.puts \cup t.drops : t \in OpenOf(u)})
    \cup (UNION {c.answer.puts : c \in Importing(u)})

\* save_listing refuses a listing that is not there; ON CONFLICT DO NOTHING waits for
\* whoever has the row in hand, and leaves a row that is there alone.
SaveListing(c) ==
  /\ c.op = "save" /\ Pending(c) /\ c.user # NULL
  /\ c.arg \notin Unlisted \cup Locked(c.user)
  /\ Opened(c, {c.arg} \ saved[c.user], {}, {}, {}) /\ Answered(c, NULL)
  /\ UNCHANGED <<saved, alerts, cookie, page, history>>

\* remove: a row not committed yet is not seen, one being deleted is waited for.
UnsaveListing(c) ==
  /\ c.op = "unsave" /\ Pending(c) /\ c.user # NULL
  /\ \A t \in OpenOf(c.user) : c.arg \notin t.drops
  /\ Opened(c, {}, {c.arg} \cap saved[c.user], {}, {}) /\ Answered(c, NULL)
  /\ UNCHANGED <<saved, alerts, cookie, page, history>>

\* A call that may yet store one of these alerts without knowing of the row stored now;
\* the call that made an alert may be replayed for this account.
Storing(c, u, ads) ==
  \/ c.op = "import" /\ c.phase = "read" /\ c.user = u /\ c.arg.ads \cap ads # {}
  \/ c.op = "addAlert" /\ Pending(c) /\ c.user # NULL /\ c.arg \in ads

Overlap(u, overlapped) == overlap' = [overlap EXCEPT ![u] = @ \/ overlapped]

\* A new row, whose id nobody else's row has.
RowOf(c, ad) == [id |-> <<c.n, ad>>, owner |-> c.user, ad |-> ad]

\* Every alert added is a new row: nothing asks whether it is stored already.
CreateAlert(c) ==
  /\ c.op = "addAlert" /\ Pending(c) /\ c.user # NULL
  /\ Opened(c, {}, {}, {RowOf(c, c.arg)}, {}) /\ Answered(c, RowOf(c, c.arg).id)
  /\ Overlap(c.user, \E o \in calls \ {c} : Storing(o, c.user, {c.arg}))
  /\ UNCHANGED <<saved, alerts, cookie, page, strayed, doubt>>

\* remove: someone else's alert is as good as none, and so is one not committed yet or
\* gone when its deletion by another request has been waited for.
DeleteAlert(c) ==
  LET found == {a \in alerts : a.id = c.arg.id /\ a.owner = c.user}
  IN /\ c.op = "removeAlert" /\ Pending(c) /\ c.user # NULL /\ found # {}
     /\ \A t \in open : t.gone \cap found = {}
     /\ Opened(c, {}, {}, {}, found) /\ Answered(c, NULL)
     /\ UNCHANGED <<saved, alerts, cookie, page, history>>

\* import_state up to the read of the stored alerts: the listings are saved by then.
ImportReads(c) ==
  LET new == c.arg.saved \ Unlisted
      known == AdsOf(AlertsOf(c.user))
  IN /\ c.op = "import" /\ Pending(c) /\ new \cap Locked(c.user) = {}
     /\ calls' = (calls \ {c}) \cup
                   {[c EXCEPT !.phase = "read",
                              !.answer = [ads |-> known, puts |-> new \ saved[c.user]]]}
     /\ Overlap(c.user, \E t \in OpenOf(c.user) : AdsOf(t.rows) \cap c.arg.ads # {})
     /\ UNCHANGED <<server, cookie, page, strayed, doubt>>

\* Mutant: the alerts already stored are not asked for.
NewAds_All(c) == c.arg.ads

NewAds(c) == c.arg.ads \ c.answer.ads

\* ... and from there to its answer: what was not known is stored, and the lists read,
\* in which a transaction sees its own rows.
ImportWrites(c) ==
  LET u == c.user
      rows == {RowOf(c, ad) : ad \in NewAds(c)}
  IN /\ c.op = "import" /\ c.phase = "read"
     /\ Opened(c, c.answer.puts, {}, rows, {})
     /\ Answered(c, Lists(u, saved[u] \cup c.answer.puts, alerts \cup rows))
     /\ Overlap(u, \E o \in calls \ {c} : Storing(o, u, NewAds(c)))
     /\ Fresh(c, u)
     /\ UNCHANGED <<saved, alerts, cookie, page, strayed>>

\* The load at start: who am I, then the lists of whoever the cookies name by then.
LoadWho(c) ==
  /\ c.op = "load" /\ c.phase = "sent" /\ Session(c.device) # NULL
  /\ calls' = (calls \ {c}) \cup {[c EXCEPT !.phase = "read", !.who = Session(c.device)]}
  /\ UNCHANGED <<server, cookie, page, history>>

LoadLists(c) ==
  LET now == Session(c.device)
  IN /\ c.op = "load" /\ c.phase = "read" /\ now # NULL
     /\ Answered(c, Lists(now, saved[now], alerts))
     /\ strayed' = (strayed \/ now # c.who)
     /\ Fresh(c, now)
     /\ UNCHANGED <<server, cookie, page, overlap>>

\* A page that shows an account's lists, or is about to.
Follows(d, u) == me[d] = u \/ \E c \in CallsOf(d) : c.who = u

\* get_session commits when the answer is out.  The account's other pages are not told.
Commit(t) ==
  /\ saved' = [saved EXCEPT ![t.user] = (@ \ t.drops) \cup t.puts]
  /\ alerts' = (alerts \ t.gone) \cup t.rows
  /\ open' = open \ {t}
  /\ doubt' = [d \in Tabs |-> IF d # t.device /\ Follows(d, t.user)
                              THEN doubt[d] \cup Touched(t) ELSE doubt[d]]
  /\ UNCHANGED <<calls, cookie, page, strayed, overlap>>

\* ... or fails to, and nobody hears of it.
Rollback(t) ==
  /\ open' = open \ {t}
  /\ IF t.device = NULL THEN NoDoubt ELSE Doubt(t.device, Touched(t))
  /\ UNCHANGED <<saved, alerts, calls, cookie, page, strayed, overlap>>

-----------------------------------------------------------------------------
\* The continuations in the browser.

\* Mutant: a change whose call failed is left as it was shown.
Reverted_Kept(b, c) == b

\* The .catch handlers: a toggle is toggled again, an alert taken back or put back.
Reverted(b, c) ==
  CASE c.op \in {"save", "unsave"} -> [b EXCEPT !.saved = Flip(@, c.arg)]
    [] c.op = "addAlert" -> [b EXCEPT !.alerts = {a \in @ : a.ref # c.n}]
    [] c.op = "removeAlert" -> [b EXCEPT !.alerts = @ \cup {c.arg}]
    [] OTHER -> b

\* adoptAccount: the server's lists, whoever they are of, replace the copy.
Adopted(who, lists) ==
  [owner |-> who, saved |-> lists.saved,
   alerts |-> {[ref |-> NULL, id |-> a.id, ad |-> a.ad] : a \in lists.alerts}]

\* attachAlertServerId.
Attached(a, c) == IF a.ref = c.n THEN [a EXCEPT !.ref = NULL, !.id = c.answer] ELSE a

Settled(b, c) ==
  CASE Adopting(c) -> Adopted(c.who, c.answer)
    [] c.op = "addAlert" -> [b EXCEPT !.alerts = {Attached(a, c) : a \in @}]
    [] OTHER -> b

\* The answer arrives.
Settle(c) ==
  LET d == c.device
  IN /\ c.phase = "ok"
     /\ calls' = calls \ {c}
     /\ IF Settled(blob[d], c) = blob[d] THEN UNCHANGED <<blob, stored>>
        ELSE Persist(d, Settled(blob[d], c))
     /\ me' = [me EXCEPT ![d] = IF c.op = "load" THEN c.who ELSE @]
     /\ strayed' = (strayed \/ (c.stale /\ <<me, blob>>' # <<me, blob>>))
     /\ IF c.stale \/ c.who # me'[d] THEN Doubt(d, About(c)) ELSE NoDoubt
     /\ UNCHANGED <<server, cookie, ops, overlap>>

\* Refused, or given up: then nobody waits for it, and it may still be carried out, or
\* have been and only its answer was lost.
Fail(c) ==
  LET d == c.device
  IN /\ d # NULL
     /\ calls' = (calls \ {c}) \cup GivenUp(c)
     /\ IF Adopting(c) THEN UNCHANGED <<blob, stored>> ELSE Persist(d, Reverted(blob[d], c))
     /\ strayed' = (strayed \/ (c.stale /\ blob'[d] # blob[d]))
     /\ IF c.op # "load" /\ (c.stale \/ c.phase = "ok" \/ c.op = "import")
          THEN Doubt(d, About(c)) ELSE NoDoubt
     /\ UNCHANGED <<server, cookie, me, ops, overlap>>

\* A call nobody waits for never arrives, or is broken off.
Drop(c) ==
  /\ c.device = NULL
  /\ calls' = calls \ {c}
  /\ UNCHANGED <<server, cookie, page, history>>

Serve(c) ==
  \/ SaveListing(c) \/ UnsaveListing(c) \/ CreateAlert(c) \/ DeleteAlert(c)
  \/ ImportReads(c) \/ ImportWrites(c) \/ LoadWho(c) \/ LoadLists(c)

Browse(d) ==
  \/ \E l \in Listings : ToggleSaved(d, l)
  \/ ToggleCompare(d) \/ AddAlert(d) \/ \E a \in blob[d].alerts : RemoveAlert(d, a)
  \/ \E u \in Users : SignIn(d, u)
  \/ Logout(d) \/ SessionEnds(d) \/ Reload(d)

Finished == ops = MaxOps /\ calls = {} /\ open = {} /\ UNCHANGED vars

Next ==
  \/ \E d \in Tabs : Browse(d)
  \/ \E c \in calls : Replay(c) \/ Serve(c) \/ Settle(c) \/ Fail(c) \/ Drop(c)
  \/ \E t \in open : Commit(t) \/ Rollback(t)
  \/ Finished

Spec == Init /\ [][Next]_vars

-----------------------------------------------------------------------------
\* The types, those of the calls in flight included.
TypeOK ==
  /\ saved \in [Users -> SUBSET Listings]
  /\ alerts \subseteq StoredAlert /\ open \subseteq Transaction
  /\ \A c \in calls : CallOK(c)
  /\ me \in [Tabs -> Users \cup {NULL}] /\ cookie \in [Browsers -> Users \cup {NULL}]
  /\ blob \in [Tabs -> Copy] /\ stored \in [Browsers -> Copy]
  /\ ops \in [Tabs -> Nat]
  /\ strayed \in BOOLEAN /\ doubt \in [Tabs -> SUBSET Things]

\* An alert made in one account reaches another account, or a copy that is not its
\* account's, only if an answer was handled after its session had ended, or an alert was
\* made or removed before the import had made the copy the account's, or a page went on
\* for one account while another tab had signed the browser in to another: what logout
\* and importableLists promise (lib/account.ts), and the three ways past them.
AccountsKeepApart ==
  \/ strayed
  \/ /\ \A a \in alerts : a.ad.by = a.owner
     /\ \A d \in Tabs : \A a \in blob[d].alerts : a.ad.by = blob[d].owner

\* "Idempotent" (import_state): an alert made once is stored once, however often it is
\* imported, unless an import's reading was no longer current when it wrote, or the call
\* that made the alert was still on its way, or not committed, when a new page imported
\* its copy.
ImportedOnce ==
  \A a, b \in alerts : a.owner = b.owner /\ a.ad = b.ad /\ a # b => overlap[a.owner]

\* What a page shows of one listing, or of one alert, against what the tables hold.
Shows(b, x, S, A) ==
  /\ x \in b.saved <=> x \in S
  /\ {a.id : a \in {a \in b.alerts : a.ad = x}} = {a.id : a \in {a \in A : a.ad = x}}

Quiet(d, x) == x \notin AllAbout(CallsOf(d)) \cup AllTouched(OpenOf(me[d]))

\* A page signed in shows a listing saved, or an alert, just when its account holds it,
\* once the changes of it have ended, failed calls and their reverts included (toggleSaved,
\* addAlert, removeAlert, adoptAccount): unless its changes of that thing overlapped each
\* other's calls or commits, an answer or a commit was lost or came after its session, or
\* somebody else changed it in the account.  Other things may meanwhile change as they like.
ShownIsHeld ==
  \A d \in Tabs : me[d] # NULL =>
    \A x \in Things \ doubt[d] :
      Quiet(d, x) => Shows(blob[d], x, saved[me[d]], AlertsOf(me[d]))
=============================================================================
