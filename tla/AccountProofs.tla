---------------------------- MODULE AccountProofs ----------------------------
(***************************************************************************)
(* One account's alerts do not reach another's but in three ways, and an    *)
(* alert is stored once unless calls overlapped an import.  What is         *)
(* followed is every call and every transaction: what they carry belongs to *)
(* the account the call was made for, and, while the session it was made in *)
(* lasts, that account is the one shown.                                    *)
(***************************************************************************)
EXTENDS Account, TLAPS

-----------------------------------------------------------------------------
\* A call, and what becomes of it.

LEMMA NewCall ==
  ASSUME TypeOK, NEW d \in Tabs, ops[d] < MaxOps[d], NEW op \in Operations, NEW who \in Users \cup {NULL},
         NEW user \in Users \cup {NULL}, NEW arg,
         op # "load" => who \in Users,
         op \in {"save", "unsave"} => arg \in Listings,
         op = "addAlert" => arg \in Ad,
         op = "removeAlert" => arg \in LocalAlert,
         op = "import" => user \in Users /\ arg \in Upload
  PROVE  CallOK(Call(op, d, who, user, arg)) /\ <<d, ops[d] + 1>> \in Ref
<1>1. <<d, ops[d] + 1>> \in Ref
  BY AccountAssumption DEF TypeOK, Ref
<1> QED
  BY <1>1 DEF CallOK, Call, Phases

\* How a call is changed: whoever waits, the account, the phase, the answer.
Became(e, c, device, who, user, phase, answer, stale) ==
  /\ e.n = c.n /\ e.op = c.op /\ e.arg = c.arg /\ e.device = device /\ e.who = who
  /\ e.user = user /\ e.phase = phase /\ e.answer = answer /\ e.stale = stale

\* What CallOK says of a call's fields, whatever record it is.
Fields(c) ==
  /\ c.n \in Ref /\ c.op \in Operations /\ c.phase \in Phases /\ c.stale \in BOOLEAN
  /\ {c.who, c.user} \subseteq Users \cup {NULL} /\ c.device \in Tabs \cup {NULL}
  /\ c.phase = "read" => c.op \in {"import", "load"}
  /\ c.op \in {"save", "unsave"} => c.arg \in Listings
  /\ c.op = "addAlert" => c.arg \in Ad /\ (c.phase = "ok" => c.answer \in RowId)
  /\ c.op = "removeAlert" => c.arg \in LocalAlert
  /\ c.op = "import" => /\ c.user \in Users /\ c.arg \in Upload
                        /\ c.phase = "read" => c.answer \in Reading
                        /\ c.phase = "ok" => c.answer \in AccountLists
  /\ c.op = "load" => /\ c.device \in Tabs /\ c.phase # "again"
                      /\ c.phase = "ok" => c.answer \in AccountLists
  /\ c.op # "load" \/ c.phase # "sent" => c.who \in Users
  /\ c.phase = "ok" => c.device \in Tabs

LEMMA CallFields ==
  ASSUME NEW c, CallOK(c)
  PROVE  Fields(c)
BY DEF CallOK, Fields

LEMMA FieldsCall ==
  ASSUME NEW e, NEW c, NEW device, NEW who, NEW user, NEW phase, NEW answer, NEW stale,
         e = [n |-> c.n, op |-> c.op, device |-> device, who |-> who, user |-> user,
              arg |-> c.arg, phase |-> phase, answer |-> answer, stale |-> stale]
  PROVE  /\ Became(e, c, device, who, user, phase, answer, stale)
         /\ Fields(e) => CallOK(e)
<1>1. Became(e, c, device, who, user, phase, answer, stale)
  BY DEF Became
<1>2. e = [n |-> e.n, op |-> e.op, device |-> e.device, who |-> e.who, user |-> e.user,
           arg |-> e.arg, phase |-> e.phase, answer |-> e.answer, stale |-> e.stale]
  OBVIOUS
<1>3. Fields(e) => CallOK(e)
  BY <1>2 DEF CallOK, Fields
<1> QED
  BY <1>1, <1>3

\* A session ends under a call: nothing else about it changes.
LEMMA AgedCall ==
  ASSUME NEW c, CallOK(c), NEW e, e = [c EXCEPT !.stale = TRUE]
  PROVE  CallOK(e) /\ Became(e, c, c.device, c.who, c.user, c.phase, c.answer, TRUE)
<1>1. e = [n |-> c.n, op |-> c.op, device |-> c.device, who |-> c.who, user |-> c.user,
           arg |-> c.arg, phase |-> c.phase, answer |-> c.answer, stale |-> TRUE]
  BY DEF CallOK
<1>2. Became(e, c, c.device, c.who, c.user, c.phase, c.answer, TRUE)
  BY <1>1, FieldsCall
<1>3. Fields(c)
  BY CallFields
<1>4. Fields(e)
  BY <1>2, <1>3 DEF Fields, Became
<1> QED
  BY <1>1, <1>2, <1>4, FieldsCall

\* The page stops waiting.
LEMMA GivenUpCall ==
  ASSUME NEW c, CallOK(c), NEW e \in GivenUp(c)
  PROVE  /\ CallOK(e) /\ c.phase # "ok" /\ c.op # "load" /\ c.user # NULL
         /\ Became(e, c, NULL, c.who, c.user, c.phase, c.answer, c.stale)
<1>1. /\ e = [n |-> c.n, op |-> c.op, device |-> NULL, who |-> c.who, user |-> c.user,
              arg |-> c.arg, phase |-> c.phase, answer |-> c.answer, stale |-> c.stale]
      /\ c.phase # "ok" /\ c.op # "load" /\ c.user # NULL
  BY DEF CallOK, GivenUp
<1>2. Became(e, c, NULL, c.who, c.user, c.phase, c.answer, c.stale)
  BY <1>1, FieldsCall
<1>3. Fields(c)
  BY CallFields
<1>4. Fields(e)
  BY <1>1, <1>2, <1>3 DEF Fields, Became
<1> QED
  BY <1>1, <1>2, <1>4, FieldsCall

\* The client replays the call.
LEMMA ReplayedCall ==
  ASSUME NEW c, CallOK(c), c.phase = "sent", c.op # "load", NEW user \in Users, NEW e,
         e = [c EXCEPT !.phase = "again", !.user = user]
  PROVE  CallOK(e) /\ Became(e, c, c.device, c.who, user, "again", c.answer, c.stale)
<1>1. e = [n |-> c.n, op |-> c.op, device |-> c.device, who |-> c.who, user |-> user,
           arg |-> c.arg, phase |-> "again", answer |-> c.answer, stale |-> c.stale]
  BY DEF CallOK
<1>2. Became(e, c, c.device, c.who, user, "again", c.answer, c.stale)
  BY <1>1, FieldsCall
<1>3. Fields(c) /\ "again" \in Phases
  BY CallFields DEF Phases
<1>4. Fields(e)
  BY <1>2, <1>3 DEF Fields, Became
<1> QED
  BY <1>1, <1>2, <1>4, FieldsCall

\* The server has carried the call out.
LEMMA OkCall ==
  ASSUME NEW c, CallOK(c), c.device # NULL, NEW answer, NEW e,
         e = [c EXCEPT !.phase = "ok", !.answer = answer],
         c.op = "addAlert" => answer \in RowId,
         c.op = "import" => answer \in AccountLists,
         c.op = "load" => answer \in AccountLists /\ c.who \in Users
  PROVE  CallOK(e) /\ Became(e, c, c.device, c.who, c.user, "ok", answer, c.stale)
<1>1. e = [n |-> c.n, op |-> c.op, device |-> c.device, who |-> c.who, user |-> c.user,
           arg |-> c.arg, phase |-> "ok", answer |-> answer, stale |-> c.stale]
  BY DEF CallOK
<1>2. Became(e, c, c.device, c.who, c.user, "ok", answer, c.stale)
  BY <1>1, FieldsCall
<1>3. Fields(c) /\ "ok" \in Phases
  BY CallFields DEF Phases
<1>4. Fields(e)
  BY <1>2, <1>3 DEF Fields, Became
<1> QED
  BY <1>1, <1>2, <1>4, FieldsCall

\* The server has read what it needs.
LEMMA ReadCall ==
  ASSUME NEW c, CallOK(c), NEW who \in Users, NEW answer, NEW e,
         \/ /\ c.op = "import" /\ answer \in Reading /\ who = c.who
            /\ e = [c EXCEPT !.phase = "read", !.answer = answer]
         \/ /\ c.op = "load" /\ answer = c.answer
            /\ e = [c EXCEPT !.phase = "read", !.who = who]
  PROVE  CallOK(e) /\ Became(e, c, c.device, who, c.user, "read", answer, c.stale)
<1>1. e = [n |-> c.n, op |-> c.op, device |-> c.device, who |-> who, user |-> c.user,
           arg |-> c.arg, phase |-> "read", answer |-> answer, stale |-> c.stale]
  BY DEF CallOK
<1>2. Became(e, c, c.device, who, c.user, "read", answer, c.stale)
  BY <1>1, FieldsCall
<1>3. Fields(c) /\ "read" \in Phases
  BY CallFields DEF Phases
<1>4. /\ c.op \in {"import", "load"}
      /\ c.op = "import" => answer \in Reading
  OBVIOUS
<1>5. Fields(e)
  BY <1>2, <1>3, <1>4 DEF Fields, Became
<1> QED
  BY <1>1, <1>2, <1>5, FieldsCall

\* Lists answered, and copies changed, are of their types.
LEMMA ListsType ==
  ASSUME NEW u \in Users, NEW S \in SUBSET Listings, NEW A \in SUBSET StoredAlert
  PROVE  Lists(u, S, A) \in AccountLists
  BY DEF Lists, AccountLists

LEMMA CopyType ==
  ASSUME NEW b \in Copy, NEW S \in SUBSET Listings, NEW A \in SUBSET LocalAlert
  PROVE  /\ [b EXCEPT !.saved = S] \in Copy /\ [b EXCEPT !.alerts = A] \in Copy
         /\ [b EXCEPT !.saved = S].owner = b.owner /\ [b EXCEPT !.saved = S].alerts = b.alerts
         /\ [b EXCEPT !.saved = S].saved = S /\ [b EXCEPT !.alerts = A].saved = b.saved
         /\ [b EXCEPT !.alerts = A].owner = b.owner /\ [b EXCEPT !.alerts = A].alerts = A
  BY DEF Copy

\* What is written to localStorage is the copy but for the identities.
LEMMA WrittenCopy ==
  ASSUME NEW b \in Copy
  PROVE  /\ Written(b) \in Copy /\ Written(b).owner = b.owner /\ Written(b).saved = b.saved
         /\ \A a \in Written(b).alerts :
              a.ref = NULL /\ \E x \in b.alerts : a.ad = x.ad /\ a.id = x.id
<1> DEFINE A == {[a EXCEPT !.ref = NULL] : a \in b.alerts}
<1>1. \A a \in b.alerts : /\ [a EXCEPT !.ref = NULL] \in LocalAlert /\ [a EXCEPT !.ref = NULL].ref = NULL
                          /\ [a EXCEPT !.ref = NULL].ad = a.ad /\ [a EXCEPT !.ref = NULL].id = a.id
  BY DEF Copy, LocalAlert
<1>2. A \in SUBSET LocalAlert /\ Written(b) = [b EXCEPT !.alerts = A]
  BY <1>1 DEF Written
<1>3. \A a \in A : a.ref = NULL /\ \E x \in b.alerts : a.ad = x.ad /\ a.id = x.id
  BY <1>1
<1> HIDE DEF A
<1> QED
  BY <1>2, <1>3, CopyType DEF Copy

\* The page's copy, and the browser's, are replaced; the others are not touched.
LEMMA Persisted ==
  ASSUME TypeOK, NEW d \in Tabs, NEW b \in Copy, Persist(d, b)
  PROVE  /\ blob' \in [Tabs -> Copy] /\ stored' \in [Browsers -> Copy]
         /\ blob'[d] = b /\ \A o \in Tabs \ {d} : blob'[o] = blob[o]
         /\ \A w \in Browsers : stored'[w] = stored[w] \/ stored'[w] = Written(b)
<1>1. Written(b) \in Copy
  BY WrittenCopy
<1> QED
  BY <1>1, AccountAssumption DEF Persist, TypeOK

LEMMA AdoptedType ==
  ASSUME NEW who \in Users, NEW lists \in AccountLists
  PROVE  /\ Adopted(who, lists) \in Copy /\ Adopted(who, lists).owner = who
         /\ Adopted(who, lists).saved = lists.saved
         /\ Adopted(who, lists).alerts = {[ref |-> NULL, id |-> a.id, ad |-> a.ad] : a \in lists.alerts}
<1>1. \A a \in lists.alerts : [ref |-> NULL, id |-> a.id, ad |-> a.ad] \in LocalAlert
  BY DEF AccountLists, StoredAlert, LocalAlert
<1> QED
  BY <1>1 DEF Adopted, AccountLists, Copy

\* What a failed call's revert does to the copy, by its operation.
LEMMA RevertedIs ==
  ASSUME NEW b \in Copy, NEW c, CallOK(c)
  PROVE  /\ Reverted(b, c) \in Copy /\ Reverted(b, c).owner = b.owner
         /\ c.op \in {"save", "unsave"} =>
              /\ Reverted(b, c).saved = Flip(b.saved, c.arg) /\ Reverted(b, c).alerts = b.alerts
         /\ c.op = "addAlert" =>
              /\ Reverted(b, c).alerts = {a \in b.alerts : a.ref # c.n} /\ Reverted(b, c).saved = b.saved
         /\ c.op = "removeAlert" =>
              /\ Reverted(b, c).alerts = b.alerts \cup {c.arg} /\ Reverted(b, c).saved = b.saved
         /\ Adopting(c) => Reverted(b, c) = b
<1>1. CASE c.op \in {"save", "unsave"}
  <2>1. Flip(b.saved, c.arg) \in SUBSET Listings /\ Reverted(b, c) = [b EXCEPT !.saved = Flip(b.saved, c.arg)]
    BY <1>1 DEF Flip, Copy, CallOK, Reverted
  <2> QED
    BY <1>1, <2>1, CopyType DEF Copy, Adopting
<1>2. CASE c.op = "addAlert"
  <2> DEFINE A == {a \in b.alerts : a.ref # c.n}
  <2>1. A \in SUBSET LocalAlert /\ Reverted(b, c) = [b EXCEPT !.alerts = A]
    BY <1>2 DEF Copy, Reverted
  <2> HIDE DEF A
  <2>2. Reverted(b, c).alerts = A
    BY <2>1, CopyType DEF Copy
  <2> QED
    BY <1>2, <2>1, <2>2, CopyType DEF Copy, A, Adopting
<1>3. CASE c.op = "removeAlert"
  <2>1. b.alerts \cup {c.arg} \in SUBSET LocalAlert /\ Reverted(b, c) = [b EXCEPT !.alerts = b.alerts \cup {c.arg}]
    BY <1>3 DEF Copy, CallOK, Reverted
  <2> QED
    BY <1>3, <2>1, CopyType DEF Copy, Adopting
<1>4. CASE c.op \in {"import", "load"}
  BY <1>4 DEF Reverted, Adopting
<1> QED
  BY <1>1, <1>2, <1>3, <1>4 DEF CallOK, Operations

\* An answer gives a local alert its id and changes nothing else of it.
LEMMA AttachedIs ==
  ASSUME NEW c, CallOK(c), c.op = "addAlert", c.phase = "ok", NEW a \in LocalAlert
  PROVE  /\ Attached(a, c) \in LocalAlert /\ Attached(a, c).ad = a.ad
         /\ a.ref = c.n => Attached(a, c).ref = NULL /\ Attached(a, c).id = c.answer
         /\ a.ref # c.n => Attached(a, c) = a
  BY DEF Attached, LocalAlert, CallOK

\* What an answer does to the copy, by its call's operation.
LEMMA SettledIs ==
  ASSUME NEW b \in Copy, NEW c, CallOK(c), c.phase = "ok"
  PROVE  /\ Settled(b, c) \in Copy
         /\ Adopting(c) => Settled(b, c) = Adopted(c.who, c.answer)
         /\ ~Adopting(c) => Settled(b, c).owner = b.owner /\ Settled(b, c).saved = b.saved
         /\ c.op = "addAlert" => Settled(b, c).alerts = {Attached(a, c) : a \in b.alerts}
         /\ ~Adopting(c) /\ c.op # "addAlert" => Settled(b, c) = b
<1>1. CASE Adopting(c)
  BY <1>1, AdoptedType DEF Settled, CallOK, Adopting
<1>2. CASE c.op = "addAlert"
  <2> DEFINE A == {Attached(a, c) : a \in b.alerts}
  <2>1. A \in SUBSET LocalAlert
    BY <1>2, AttachedIs DEF Copy
  <2>2. Settled(b, c) = [b EXCEPT !.alerts = A]
    BY <1>2 DEF Settled, Adopting
  <2> HIDE DEF A
  <2>3. Settled(b, c).alerts = A
    BY <2>1, <2>2, CopyType DEF Copy
  <2> QED
    BY <1>2, <2>1, <2>2, <2>3, CopyType DEF Copy, A, Adopting
<1>3. CASE ~Adopting(c) /\ c.op # "addAlert"
  BY <1>3 DEF Settled
<1> QED
  BY <1>1, <1>2, <1>3

\* A row to be stored, and an alert to be shown, are of their types.
LEMMA RowType ==
  ASSUME NEW c, CallOK(c), c.user \in Users, NEW ad \in Ad
  PROVE  /\ RowOf(c, ad) \in StoredAlert /\ RowOf(c, ad).id = <<c.n, ad>>
         /\ RowOf(c, ad).owner = c.user /\ RowOf(c, ad).ad = ad
         /\ RowOf(c, ad).id \in RowId
<1>1. <<c.n, ad>> \in RowId
  BY DEF CallOK, RowId
<1> QED
  BY <1>1 DEF RowOf, StoredAlert

\* What calls and transactions are about is among the things there are.
LEMMA AboutThings ==
  /\ \A c : CallOK(c) => About(c) \subseteq Things
  /\ \A t \in Transaction : Touched(t) \subseteq Things
<1>1. ASSUME NEW c, CallOK(c) PROVE About(c) \subseteq Things
  BY <1>1 DEF About, Things, CallOK, LocalAlert, Operations, Adopting
<1>2. ASSUME NEW t \in Transaction PROVE Touched(t) \subseteq Things
  BY <1>2 DEF Touched, Things, Transaction, AdsOf, StoredAlert
<1> QED
  BY <1>1, <1>2

LEMMA DoubtType ==
  ASSUME TypeOK, NEW d \in Tabs
  PROVE  /\ NoDoubt => doubt' \in [Tabs -> SUBSET Things]
         /\ \A X \in SUBSET Things : Doubt(d, X) => doubt' \in [Tabs -> SUBSET Things]
  BY DEF NoDoubt, Doubt, TypeOK

LEMMA FreshType ==
  ASSUME TypeOK, NEW c \in calls, NEW u \in Users, Fresh(c, u)
  PROVE  doubt' \in [Tabs -> SUBSET Things]
<1> DEFINE X == IF c.who # u THEN Things
                ELSE AllAbout(CallsOf(c.device) \ {c}) \cup AllTouched(OpenOf(u))
<1>1. AllAbout(CallsOf(c.device) \ {c}) \in SUBSET Things
  BY AboutThings DEF AllAbout, TypeOK, CallsOf
<1>2. AllTouched(OpenOf(u)) \in SUBSET Things
  BY AboutThings DEF AllTouched, TypeOK, OpenOf
<1>3. X \in SUBSET Things
  BY <1>1, <1>2
<1>4. doubt' = IF c.device = NULL \/ c.stale THEN doubt ELSE [doubt EXCEPT ![c.device] = X]
  BY DEF Fresh
<1> HIDE DEF X
<1> QED
  BY <1>3, <1>4 DEF TypeOK

-----------------------------------------------------------------------------
\* The types.

LEMMA TypeInit == Init => TypeOK
<1> SUFFICES ASSUME Init PROVE TypeOK
  OBVIOUS
<1>1. stored \in [Browsers -> Copy] /\ blob \in [Tabs -> Copy]
  BY LeftoversAssumption, AccountAssumption DEF Init
<1> QED
  BY <1>1 DEF Init, TypeOK

LEMMA BrowseTypes ==
  ASSUME TypeOK, NEW d \in Tabs, Browse(d)
  PROVE  TypeOK'
<1> USE AccountAssumption
<1>1. \A c \in calls : CallOK(c)
  BY DEF TypeOK
<1>2. \A c \in Aged(d) : CallOK(c)
  BY <1>1, AgedCall DEF Aged
<1>3. \A c \in calls : \A e \in GivenUp(c) : CallOK(e)
  BY <1>1, GivenUpCall
<1>4. /\ Begin(d) => ops' \in [Tabs -> Nat]
      /\ Begin(d) => ops[d] < MaxOps[d]
      /\ blob[d] \in Copy /\ Session(d) \in Users \cup {NULL} /\ me[d] \in Users \cup {NULL}
      /\ Home[d] \in Browsers
  BY DEF TypeOK, Begin, Session
<1>5. ASSUME NEW op \in Operations, NEW arg, SendChange(op, d, arg), me[d] # NULL, Begin(d),
             op \in {"save", "unsave", "addAlert", "removeAlert"},
             op \in {"save", "unsave"} => arg \in Listings,
             op = "addAlert" => arg \in Ad,
             op = "removeAlert" => arg \in LocalAlert
      PROVE  (\A c \in calls' : CallOK(c)) /\ doubt' \in [Tabs -> SUBSET Things]
  <2> DEFINE c == Call(op, d, me[d], Session(d), arg)
  <2>1. CallOK(c)
    BY <1>4, <1>5, NewCall
  <2>2. Contested(c) \subseteq Things
    BY <2>1, AboutThings DEF Contested
  <2> QED
    BY <1>1, <1>5, <2>1, <2>2, DoubtType DEF SendChange
<1>6. ASSUME NEW l \in Listings, ToggleSaved(d, l) PROVE TypeOK'
  <2> DEFINE b == [blob[d] EXCEPT !.saved = Flip(blob[d].saved, l)]
  <2>1. Flip(blob[d].saved, l) \in SUBSET Listings
    BY <1>4 DEF Flip, Copy
  <2>2. b \in Copy /\ Persist(d, b)
    BY <1>4, <1>6, <2>1, CopyType DEF ToggleSaved, Copy
  <2> HIDE DEF b
  <2>3. blob' \in [Tabs -> Copy] /\ stored' \in [Browsers -> Copy]
    BY <2>2, Persisted
  <2>4. (\A c \in calls' : CallOK(c)) /\ doubt' \in [Tabs -> SUBSET Things]
    <3>1. CASE me[d] = NULL
      BY <1>1, <1>6, <3>1, DoubtType DEF ToggleSaved
    <3>2. CASE me[d] # NULL
      <4>1. PICK op \in {"save", "unsave"} : SendChange(op, d, l)
        BY <1>6, <3>2 DEF ToggleSaved
      <4>2. op \in Operations /\ Begin(d)
        BY <1>6 DEF Operations, ToggleSaved
      <4> QED
        BY <1>5, <3>2, <4>1, <4>2
    <3> QED
      BY <3>1, <3>2
  <2> QED
    BY <1>4, <1>6, <2>3, <2>4 DEF ToggleSaved, TypeOK, server
<1>7. ASSUME ToggleCompare(d) PROVE TypeOK'
  <2>1. blob' \in [Tabs -> Copy] /\ stored' \in [Browsers -> Copy]
    BY <1>4, <1>7, Persisted DEF ToggleCompare
  <2> QED
    BY <1>4, <1>7, <2>1 DEF ToggleCompare, TypeOK, server, history
<1>8. ASSUME AddAlert(d) PROVE TypeOK'
  <2> DEFINE ref == <<d, ops[d] + 1>>
             ad == [by |-> me[d], ref |-> ref]
             new == [ref |-> ref, id |-> NULL, ad |-> ad]
             b == [blob[d] EXCEPT !.alerts = blob[d].alerts \cup {new}]
  <2>1. me[d] \in Users /\ ref \in Ref
    BY <1>4, <1>8 DEF AddAlert, TypeOK, Ref
  <2>2. ad \in Ad /\ new \in LocalAlert
    BY <2>1 DEF Ad, LocalAlert
  <2>3. /\ Begin(d) /\ Persist(d, b) /\ SendChange("addAlert", d, ad)
        /\ UNCHANGED <<server, me, cookie, overlap>>
        /\ strayed' = (strayed \/ blob[d].owner # me[d] \/ Session(d) \notin {NULL, me[d]})
    BY <1>4, <1>8 DEF AddAlert, Copy
  <2> HIDE DEF new, ad
  <2>4. b \in Copy
    <3>1. blob[d].alerts \cup {new} \in SUBSET LocalAlert
      BY <1>4, <2>2 DEF Copy
    <3> QED
      BY <1>4, <3>1, CopyType DEF Copy
  <2> HIDE DEF b
  <2>5. blob' \in [Tabs -> Copy] /\ stored' \in [Browsers -> Copy]
    BY <2>3, <2>4, Persisted
  <2>6. (\A c \in calls' : CallOK(c)) /\ doubt' \in [Tabs -> SUBSET Things]
    <3>1. "addAlert" \in Operations
      BY DEF Operations
    <3> QED
      BY <1>5, <2>1, <2>2, <2>3, <3>1
  <2> QED
    BY <1>4, <2>3, <2>5, <2>6 DEF TypeOK, server
<1>9. ASSUME NEW a \in blob[d].alerts, RemoveAlert(d, a) PROVE TypeOK'
  <2> DEFINE A == {x \in blob[d].alerts : x.id # a.id}
             b == [blob[d] EXCEPT !.alerts = A]
  <2>1. a \in LocalAlert /\ A \in SUBSET LocalAlert
    BY <1>4 DEF Copy
  <2>2. b \in Copy /\ Persist(d, b)
    BY <1>4, <1>9, <2>1, CopyType DEF RemoveAlert, Copy
  <2> HIDE DEF b
  <2>3. blob' \in [Tabs -> Copy] /\ stored' \in [Browsers -> Copy]
    BY <2>2, Persisted
  <2>4. (\A c \in calls' : CallOK(c)) /\ doubt' \in [Tabs -> SUBSET Things]
    <3>1. /\ "removeAlert" \in Operations /\ Begin(d) /\ me[d] # NULL
          /\ SendChange("removeAlert", d, a)
      BY <1>9 DEF Operations, RemoveAlert
    <3> QED
      BY <1>5, <2>1, <3>1
  <2> QED
    BY <1>4, <1>9, <2>3, <2>4 DEF RemoveAlert, TypeOK, server
<1>10. ASSUME NEW u \in Users, SignIn(d, u) PROVE TypeOK'
  <2>1. Importable(blob[d], u) \in Upload
    BY <1>4 DEF Importable, Upload, Copy, LocalAlert, AdsOf
  <2>2. CallOK(Call("import", d, u, u, Importable(blob[d], u)))
    <3>1. "import" \in Operations /\ ops[d] < MaxOps[d]
      BY <1>10 DEF Operations, SignIn, Begin
    <3> QED
      BY <2>1, <3>1, NewCall
  <2>3. \A c \in calls' : CallOK(c)
    BY <1>2, <1>10, <2>2 DEF SignIn
  <2> QED
    BY <1>4, <1>10, <2>3 DEF SignIn, TypeOK, server, history
<1>11. ASSUME Logout(d) PROVE TypeOK'
  <2>1. Empty \in Copy
    BY DEF Empty, Copy
  <2>2. blob' \in [Tabs -> Copy] /\ stored' \in [Browsers -> Copy]
    BY <1>11, <2>1, Persisted DEF Logout
  <2>3. \A c \in calls' : CallOK(c)
    BY <1>2, <1>11 DEF Logout
  <2> QED
    BY <1>4, <1>11, <2>2, <2>3 DEF Logout, TypeOK, server, history
<1>12. ASSUME SessionEnds(d) PROVE TypeOK'
  BY <1>4, <1>12 DEF SessionEnds, TypeOK, server, history
<1>13. ASSUME Reload(d) PROVE TypeOK'
  <2>1. blob' \in [Tabs -> Copy] /\ stored' \in [Browsers -> Copy]
    <3>1. stored[Home[d]] \in Copy /\ Persist(d, stored[Home[d]])
      BY <1>4, <1>13 DEF Reload, TypeOK
    <3> QED
      BY <3>1, Persisted
  <2> DEFINE new == Call("load", d, NULL, NULL, NULL)
  <2>2. CallOK(new)
    <3>1. "load" \in Operations /\ ops[d] < MaxOps[d]
      BY <1>13 DEF Operations, Reload, Begin
    <3> QED
      BY <3>1, NewCall
  <2>3. \A c \in calls' : CallOK(c)
    <3> HIDE DEF new
    <3>1. \A c \in calls' : c \in calls \/ (\E e \in calls : c \in GivenUp(e)) \/ c = new
      BY <1>13 DEF Reload, CallsOf, new
    <3> QED
      BY <1>1, <1>3, <2>2, <3>1
  <2> QED
    BY <1>4, <1>13, <2>1, <2>3 DEF Reload, TypeOK, server, history
<1> QED
  BY <1>6, <1>7, <1>8, <1>9, <1>10, <1>11, <1>12, <1>13 DEF Browse

LEMMA TransactionType ==
  ASSUME TypeOK, NEW c \in calls, c.user \in Users, NEW puts \in SUBSET Listings,
         NEW drops \in SUBSET Listings, NEW rows \in SUBSET StoredAlert,
         NEW gone \in SUBSET StoredAlert, Opened(c, puts, drops, rows, gone)
  PROVE  open' \in SUBSET Transaction
<1>1. CallOK(c)
  BY DEF TypeOK
<1>2. [n |-> c.n, device |-> c.device, user |-> c.user, puts |-> puts, drops |-> drops,
       rows |-> rows, gone |-> gone] \in Transaction
  BY <1>1 DEF CallOK, Transaction
<1> QED
  BY <1>2 DEF Opened, TypeOK

LEMMA AnsweredType ==
  ASSUME TypeOK, NEW c \in calls, NEW answer, Answered(c, answer),
         c.op = "addAlert" => answer \in RowId,
         c.op = "import" => answer \in AccountLists,
         c.op = "load" => answer \in AccountLists /\ c.who \in Users
  PROVE  \A e \in calls' :
           /\ CallOK(e)
           /\ \/ e \in calls \ {c}
              \/ c.device # NULL /\ Became(e, c, c.device, c.who, c.user, "ok", answer, c.stale)
<1>1. \A e \in calls : CallOK(e)
  BY DEF TypeOK
<1> DEFINE ok == [c EXCEPT !.phase = "ok", !.answer = answer]
<1>2. c.device # NULL => CallOK(ok) /\ Became(ok, c, c.device, c.who, c.user, "ok", answer, c.stale)
  BY <1>1, OkCall
<1>3. \A e \in calls' : e \in calls \ {c} \/ (c.device # NULL /\ e = ok)
  BY DEF Answered
<1> HIDE DEF ok
<1> QED
  BY <1>1, <1>2, <1>3

\* What the statements of each request leave in its transaction, and answer.
LEMMA ImportWritesType ==
  ASSUME TypeOK, NEW c \in calls, ImportWrites(c)
  PROVE  /\ CallOK(c) /\ c.user \in Users /\ c.answer \in Reading /\ c.arg \in Upload
         /\ {RowOf(c, ad) : ad \in NewAds(c)} \in SUBSET StoredAlert
         /\ Lists(c.user, saved[c.user] \cup c.answer.puts,
                  alerts \cup {RowOf(c, ad) : ad \in NewAds(c)}) \in AccountLists
<1>1. /\ CallOK(c) /\ c.user \in Users /\ c.answer \in Reading /\ c.arg \in Upload
  BY DEF TypeOK, ImportWrites, CallOK
<1> DEFINE rows == {RowOf(c, ad) : ad \in NewAds(c)}
<1>2. rows \in SUBSET StoredAlert
  BY <1>1, RowType DEF NewAds, Upload
<1> HIDE DEF rows
<1>3. saved[c.user] \cup c.answer.puts \in SUBSET Listings
  BY <1>1 DEF TypeOK, Reading
<1>4. alerts \cup rows \in SUBSET StoredAlert
  BY <1>2 DEF TypeOK
<1>5. Lists(c.user, saved[c.user] \cup c.answer.puts, alerts \cup rows) \in AccountLists
  BY <1>1, <1>3, <1>4, ListsType
<1> QED
  BY <1>1, <1>2, <1>5 DEF rows

LEMMA ServeTypes ==
  ASSUME TypeOK, NEW c \in calls, Serve(c)
  PROVE  TypeOK'
<1> USE AccountAssumption
<1>1. CallOK(c) /\ \A e \in calls : CallOK(e)
  BY DEF TypeOK
<1>2. CASE SaveListing(c)
  <2>1. c.user \in Users /\ c.arg \in Listings /\ c.op = "save" /\ Answered(c, NULL)
    BY <1>1, <1>2 DEF SaveListing, CallOK
  <2>2. open' \in SUBSET Transaction
    BY <1>2, <2>1, TransactionType DEF SaveListing
  <2>3. \A e \in calls' : CallOK(e)
    BY <2>1, AnsweredType
  <2> QED
    BY <1>2, <2>2, <2>3 DEF SaveListing, TypeOK, page, history
<1>3. CASE UnsaveListing(c)
  <2>1. c.user \in Users /\ c.arg \in Listings /\ c.op = "unsave" /\ Answered(c, NULL)
    BY <1>1, <1>3 DEF UnsaveListing, CallOK
  <2>2. open' \in SUBSET Transaction
    BY <1>3, <2>1, TransactionType DEF UnsaveListing
  <2>3. \A e \in calls' : CallOK(e)
    BY <2>1, AnsweredType
  <2> QED
    BY <1>3, <2>2, <2>3 DEF UnsaveListing, TypeOK, page, history
<1>4. CASE CreateAlert(c)
  <2>1. c.user \in Users /\ c.arg \in Ad /\ c.op = "addAlert"
    BY <1>1, <1>4 DEF CreateAlert, CallOK
  <2> DEFINE row == RowOf(c, c.arg)
             id == row.id
  <2>2. row \in StoredAlert /\ id \in RowId
    BY <1>1, <2>1, RowType
  <2>3. Opened(c, {}, {}, {row}, {}) /\ Answered(c, id) /\ UNCHANGED <<saved, alerts, cookie, page, strayed, doubt>>
    BY <1>4 DEF CreateAlert
  <2> HIDE DEF row, id
  <2>4. open' \in SUBSET Transaction
    BY <2>1, <2>2, <2>3, TransactionType
  <2>5. \A e \in calls' : CallOK(e)
    BY <2>1, <2>2, <2>3, AnsweredType
  <2> QED
    BY <2>3, <2>4, <2>5 DEF TypeOK, page
<1>5. CASE DeleteAlert(c)
  <2> DEFINE found == {a \in alerts : a.id = c.arg.id /\ a.owner = c.user}
  <2>1. c.user \in Users /\ c.op = "removeAlert" /\ Answered(c, NULL)
    BY <1>1, <1>5 DEF DeleteAlert, CallOK
  <2>2. found \in SUBSET StoredAlert /\ Opened(c, {}, {}, {}, found)
    BY <1>5 DEF DeleteAlert, TypeOK
  <2> HIDE DEF found
  <2>3. open' \in SUBSET Transaction
    BY <2>1, <2>2, TransactionType
  <2>4. \A e \in calls' : CallOK(e)
    BY <2>1, AnsweredType
  <2> QED
    BY <1>5, <2>3, <2>4 DEF DeleteAlert, TypeOK, page, history
<1>6. CASE ImportReads(c)
  <2> DEFINE answer == [ads |-> AdsOf(AlertsOf(c.user)), puts |-> (c.arg.saved \ Unlisted) \ saved[c.user]]
             e == [c EXCEPT !.phase = "read", !.answer = answer]
  <2>1. c.op = "import" /\ c.who \in Users /\ c.arg \in Upload
    BY <1>1, <1>6 DEF ImportReads, CallOK
  <2>2. answer \in Reading
    BY <2>1 DEF TypeOK, StoredAlert, Reading, Upload, AdsOf, AlertsOf
  <2>3. calls' = (calls \ {c}) \cup {e} /\ UNCHANGED <<server, cookie, page, strayed, doubt>>
    BY <1>6 DEF ImportReads
  <2> HIDE DEF answer
  <2>4. CallOK(e)
    BY <1>1, <2>1, <2>2, ReadCall
  <2> QED
    BY <1>1, <2>3, <2>4 DEF TypeOK, server, page
<1>7. CASE ImportWrites(c)
  <2> DEFINE rows == {RowOf(c, ad) : ad \in NewAds(c)}
             lists == Lists(c.user, saved[c.user] \cup c.answer.puts, alerts \cup rows)
  <2>1. /\ c.user \in Users /\ c.answer.puts \in SUBSET Listings
        /\ rows \in SUBSET StoredAlert /\ lists \in AccountLists
    BY <1>7, ImportWritesType DEF Reading
  <2>2. /\ Opened(c, c.answer.puts, {}, rows, {}) /\ Answered(c, lists) /\ c.op = "import"
        /\ Fresh(c, c.user) /\ UNCHANGED <<saved, alerts, cookie, page, strayed>>
    BY <1>7 DEF ImportWrites
  <2> HIDE DEF rows, lists
  <2>3. open' \in SUBSET Transaction
    BY <2>1, <2>2, TransactionType
  <2>4. \A e \in calls' : CallOK(e)
    BY <2>1, <2>2, AnsweredType
  <2>5. doubt' \in [Tabs -> SUBSET Things]
    BY <2>1, <2>2, FreshType
  <2> QED
    BY <2>2, <2>3, <2>4, <2>5 DEF TypeOK, page
<1>8. CASE LoadWho(c)
  <2> DEFINE e == [c EXCEPT !.phase = "read", !.who = Session(c.device)]
  <2>1. c.op = "load" /\ Session(c.device) \in Users
    BY <1>1, <1>8 DEF LoadWho, CallOK, TypeOK, Session
  <2>2. CallOK(e)
    BY <1>1, <2>1, ReadCall
  <2>3. calls' = (calls \ {c}) \cup {e}
    BY <1>8 DEF LoadWho
  <2> QED
    BY <1>1, <1>8, <2>2, <2>3 DEF LoadWho, TypeOK, server, page, history
<1>9. CASE LoadLists(c)
  <2> DEFINE now == Session(c.device)
             lists == Lists(now, saved[now], alerts)
  <2>1. c.op = "load" /\ now \in Users /\ c.who \in Users
    BY <1>1, <1>9 DEF LoadLists, CallOK, TypeOK, Session
  <2>2. lists \in AccountLists
    BY <2>1, ListsType DEF TypeOK
  <2>3. /\ Answered(c, lists) /\ Fresh(c, now) /\ UNCHANGED <<server, cookie, page, overlap>>
        /\ strayed' = (strayed \/ now # c.who)
    BY <1>9 DEF LoadLists
  <2> HIDE DEF lists
  <2>4. \A e \in calls' : CallOK(e)
    BY <2>1, <2>2, <2>3, AnsweredType
  <2>5. doubt' \in [Tabs -> SUBSET Things]
    BY <2>1, <2>3, FreshType
  <2> QED
    BY <2>3, <2>4, <2>5 DEF TypeOK, server, page
<1> QED
  BY <1>2, <1>3, <1>4, <1>5, <1>6, <1>7, <1>8, <1>9 DEF Serve

\* An answer, or a failure, changes the copy of the page that waited for it.
LEMMA SettleWrites ==
  ASSUME TypeOK, NEW c \in calls, Settle(c)
  PROVE  /\ CallOK(c) /\ c.device \in Tabs /\ c.phase = "ok" /\ c.who \in Users
         /\ blob[c.device] \in Copy /\ Settled(blob[c.device], c) \in Copy
         /\ blob' \in [Tabs -> Copy] /\ stored' \in [Browsers -> Copy]
         /\ blob'[c.device] = Settled(blob[c.device], c)
         /\ \A o \in Tabs \ {c.device} : blob'[o] = blob[o]
         /\ \A w \in Browsers : stored'[w] = stored[w] \/ stored'[w] = Written(blob'[c.device])
<1>1. /\ CallOK(c) /\ c.device \in Tabs /\ c.phase = "ok" /\ c.who \in Users
      /\ blob[c.device] \in Copy
  BY DEF TypeOK, Settle, CallOK
<1>2. Settled(blob[c.device], c) \in Copy
  BY <1>1, SettledIs
<1> DEFINE b == Settled(blob[c.device], c)
<1>3. IF b = blob[c.device] THEN UNCHANGED <<blob, stored>> ELSE Persist(c.device, b)
  BY DEF Settle
<1> HIDE DEF b
<1>4. CASE b = blob[c.device]
  BY <1>1, <1>2, <1>3, <1>4 DEF TypeOK, b
<1>5. CASE b # blob[c.device]
  <2>1. b \in Copy /\ Persist(c.device, b)
    BY <1>2, <1>3, <1>5 DEF b
  <2>2. /\ blob' \in [Tabs -> Copy] /\ stored' \in [Browsers -> Copy]
        /\ blob'[c.device] = b /\ \A o \in Tabs \ {c.device} : blob'[o] = blob[o]
        /\ \A w \in Browsers : stored'[w] = stored[w] \/ stored'[w] = Written(b)
    BY <1>1, <2>1, Persisted
  <2> QED
    BY <1>1, <1>2, <2>2 DEF b
<1> QED
  BY <1>4, <1>5

LEMMA FailWrites ==
  ASSUME TypeOK, NEW c \in calls, Fail(c)
  PROVE  /\ CallOK(c) /\ c.device \in Tabs /\ blob[c.device] \in Copy
         /\ blob' \in [Tabs -> Copy] /\ stored' \in [Browsers -> Copy]
         /\ blob'[c.device] = Reverted(blob[c.device], c)
         /\ \A o \in Tabs \ {c.device} : blob'[o] = blob[o]
         /\ \A w \in Browsers : stored'[w] = stored[w] \/ stored'[w] = Written(blob'[c.device])
<1>1. CallOK(c) /\ c.device \in Tabs /\ blob[c.device] \in Copy
  BY DEF TypeOK, Fail, CallOK
<1> DEFINE b == Reverted(blob[c.device], c)
<1>2. b \in Copy /\ (Adopting(c) => b = blob[c.device])
  BY <1>1, RevertedIs
<1>3. IF Adopting(c) THEN UNCHANGED <<blob, stored>> ELSE Persist(c.device, b)
  BY DEF Fail
<1> HIDE DEF b
<1>4. CASE Adopting(c)
  BY <1>1, <1>2, <1>3, <1>4 DEF TypeOK, b
<1>5. CASE ~Adopting(c)
  <2>1. /\ blob' \in [Tabs -> Copy] /\ stored' \in [Browsers -> Copy]
        /\ blob'[c.device] = b /\ \A o \in Tabs \ {c.device} : blob'[o] = blob[o]
        /\ \A w \in Browsers : stored'[w] = stored[w] \/ stored'[w] = Written(b)
    BY <1>1, <1>2, <1>3, <1>5, Persisted
  <2> QED
    BY <1>1, <2>1 DEF b
<1> QED
  BY <1>4, <1>5

LEMMA TypeStep == TypeOK /\ [Next]_vars => TypeOK'
<1> SUFFICES ASSUME TypeOK, [Next]_vars PROVE TypeOK'
  OBVIOUS
<1> USE AccountAssumption
<1>1. \A c \in calls : CallOK(c) /\ \A e \in GivenUp(c) : CallOK(e)
  BY GivenUpCall DEF TypeOK
<1>2. ASSUME NEW c \in calls, Replay(c) PROVE TypeOK'
  <2> DEFINE e == [c EXCEPT !.phase = "again", !.user = Session(c.device)]
  <2>1. c.phase = "sent" /\ c.op # "load" /\ c.device \in Tabs /\ Session(c.device) \in Users
    BY <1>1, <1>2 DEF Replay, CallOK, TypeOK, Session
  <2>2. CallOK(e)
    BY <1>1, <2>1, ReplayedCall
  <2>3. calls' = (calls \ {c}) \cup {e} /\ UNCHANGED <<server, cookie, page, overlap>>
        /\ strayed' \in BOOLEAN /\ (Doubt(c.device, About(c)) \/ NoDoubt)
    BY <1>2 DEF Replay, TypeOK
  <2>4. doubt' \in [Tabs -> SUBSET Things]
    BY <1>1, <2>1, <2>3, DoubtType, AboutThings
  <2> QED
    BY <1>1, <2>2, <2>3, <2>4 DEF TypeOK, server, page
<1>3. ASSUME NEW c \in calls, Settle(c) PROVE TypeOK'
  <2>1. /\ CallOK(c) /\ c.device \in Tabs /\ c.who \in Users
        /\ blob' \in [Tabs -> Copy] /\ stored' \in [Browsers -> Copy]
    BY <1>3, SettleWrites
  <2>2. doubt' \in [Tabs -> SUBSET Things]
    BY <1>3, <2>1, DoubtType, AboutThings DEF Settle
  <2>3. me' \in [Tabs -> Users \cup {NULL}]
    BY <1>3, <2>1 DEF Settle, TypeOK
  <2> QED
    BY <1>1, <1>3, <2>1, <2>2, <2>3 DEF Settle, TypeOK, server
<1>4. ASSUME NEW c \in calls, Fail(c) PROVE TypeOK'
  <2>1. /\ CallOK(c) /\ c.device \in Tabs
        /\ blob' \in [Tabs -> Copy] /\ stored' \in [Browsers -> Copy]
    BY <1>4, FailWrites
  <2>2. doubt' \in [Tabs -> SUBSET Things]
    BY <1>4, <2>1, DoubtType, AboutThings DEF Fail
  <2>3. \A e \in calls' : CallOK(e)
    BY <1>1, <1>4 DEF Fail
  <2> QED
    BY <1>4, <2>1, <2>2, <2>3 DEF Fail, TypeOK, server
<1>5. ASSUME NEW c \in calls, Drop(c) PROVE TypeOK'
  BY <1>5 DEF Drop, TypeOK, server, page, history
<1>6. ASSUME NEW t \in open, Commit(t) PROVE TypeOK'
  <2>1. t \in Transaction
    BY DEF TypeOK
  <2>2. saved' \in [Users -> SUBSET Listings] /\ alerts' \subseteq StoredAlert
    BY <1>6, <2>1 DEF Commit, TypeOK, Transaction
  <2>3. doubt' \in [Tabs -> SUBSET Things]
    BY <1>6, <2>1, AboutThings DEF Commit, TypeOK
  <2> QED
    BY <1>1, <1>6, <2>2, <2>3 DEF Commit, TypeOK, page
<1>7. ASSUME NEW t \in open, Rollback(t) PROVE TypeOK'
  <2>1. t \in Transaction /\ t.device \in Tabs \cup {NULL}
    BY DEF TypeOK, Transaction
  <2>2. doubt' \in [Tabs -> SUBSET Things]
    <3>1. Touched(t) \in SUBSET Things
      BY <2>1, AboutThings
    <3>2. NoDoubt \/ (t.device \in Tabs /\ Doubt(t.device, Touched(t)))
      BY <1>7, <2>1 DEF Rollback
    <3> QED
      BY <3>1, <3>2 DEF NoDoubt, Doubt, TypeOK
  <2> QED
    BY <1>1, <1>7, <2>2 DEF Rollback, TypeOK, page
<1>8. CASE UNCHANGED vars
  BY <1>8 DEF vars, TypeOK, server, page, history
<1> QED
  BY <1>2, <1>3, <1>4, <1>5, <1>6, <1>7, <1>8, BrowseTypes, ServeTypes DEF Next, Finished

\* The lists, the copies, the transactions and the calls in flight keep their types,
\* whatever order calls are answered and committed, fail or are lost in.
THEOREM TypeCorrect == Spec => []TypeOK
<1>1. Init => TypeOK
  BY TypeInit
<1>2. TypeOK /\ [Next]_vars => TypeOK'
  BY TypeStep
<1> QED
  BY <1>1, <1>2, PTL DEF Spec

-----------------------------------------------------------------------------
\* The accounts kept apart, and what keeps them so.

OwnAlerts == \A a \in alerts : a.ad.by = a.owner
OwnRows == \A t \in open : \A a \in t.rows : a.ad.by = a.owner
OwnCopy(b) == \A a \in b.alerts : a.ad.by = b.owner
OwnCopies == (\A d \in Tabs : OwnCopy(blob[d])) /\ (\A w \in Browsers : OwnCopy(stored[w]))

\* A call carries, and brings back, alerts of the account it was made for.
Honest(c) ==
  /\ c.op = "addAlert" => c.arg.by = c.who /\ c.user \in {NULL, c.who}
  /\ c.op = "import" => c.user = c.who /\ \A ad \in c.arg.ads : ad.by = c.who
  /\ Adopting(c) /\ c.phase = "ok" => \A a \in c.answer.alerts : a.ad.by = c.who

\* A call whose session goes on is of the account the page shows.
Live(c, d) == c.device = d /\ ~c.stale
Current(c, d) ==
  /\ c.op = "load" => me[d] = NULL
  /\ c.op # "load" => c.who = me[d]
  /\ c.op = "removeAlert" => c.arg.ad.by = me[d] /\ blob[d].owner = me[d]
OneLoad ==
  \A d \in Tabs : \A c, e \in calls :
    Live(c, d) /\ Live(e, d) /\ c.op = "load" /\ e.op = "load" => c = e

Apart ==
  /\ OwnAlerts /\ OwnRows /\ OwnCopies /\ OneLoad
  /\ \A c \in calls : Honest(c) /\ \A d \in Tabs : Live(c, d) => Current(c, d)

\* A history that has happened cannot be undone, so the rest holds as long as it has not.
IInv == TypeOK /\ (strayed \/ Apart)

LEMMA ApartInit == Init => Apart
<1> SUFFICES ASSUME Init PROVE Apart
  OBVIOUS
<1>1. (\A w \in Browsers : stored[w] \in Leftovers) /\ (\A d \in Tabs : blob[d] \in Leftovers)
  BY AccountAssumption DEF Init
<1>2. OwnCopies
  BY <1>1, LeftoversAssumption DEF OwnCopies, OwnCopy
<1> QED
  BY <1>2 DEF Init, Apart, OwnAlerts, OwnRows, OneLoad

\* What a step of one page has to keep: the others do not notice it.
LEMMA Elsewhere ==
  ASSUME Apart, NEW d \in Tabs, OwnAlerts', OwnRows',
         \A o \in Tabs \ {d} : me'[o] = me[o] /\ blob'[o] = blob[o],
         blob'[d] \in Copy, OwnCopy(blob'[d]),
         \A w \in Browsers : stored'[w] = stored[w] \/ stored'[w] = Written(blob'[d]),
         \A c \in calls' : Honest(c),
         \A c \in calls' : \A o \in Tabs \ {d} : Live(c, o) => c \in calls,
         \A c \in calls' : Live(c, d) => Current(c, d)',
         \A c, e \in calls' : Live(c, d) /\ Live(e, d) /\ c.op = "load" /\ e.op = "load" => c = e
  PROVE  Apart'
<1>1. OwnCopies'
  <2>1. OwnCopy(Written(blob'[d]))
    BY WrittenCopy DEF OwnCopy
  <2>2. /\ \A o \in Tabs : OwnCopy(blob[o])
        /\ \A w \in Browsers : OwnCopy(stored[w])
    BY DEF OwnCopies, Apart
  <2>3. \A o \in Tabs : OwnCopy(blob'[o])
    BY <2>2
  <2>4. \A w \in Browsers : OwnCopy(stored'[w])
    BY <2>1, <2>2
  <2> QED
    BY <2>3, <2>4 DEF OwnCopies, OwnCopy
<1>2. OneLoad'
  <2> SUFFICES ASSUME NEW o \in Tabs, NEW c \in calls', NEW e \in calls', Live(c, o), Live(e, o),
                      c.op = "load", e.op = "load"
               PROVE  c = e
    BY DEF OneLoad, Live
  <2>1. CASE o = d
    BY <2>1
  <2>2. CASE o # d
    BY <2>2 DEF Apart, OneLoad
  <2> QED
    BY <2>1, <2>2
<1>3. ASSUME NEW o \in Tabs, NEW c \in calls', Live(c, o) PROVE Current(c, o)'
  <2>1. CASE o = d
    BY <1>3, <2>1
  <2>2. CASE o # d
    <3>1. Current(c, o)
      BY <1>3, <2>2 DEF Apart
    <3> QED
      BY <2>2, <3>1 DEF Current
  <2> QED
    BY <2>1, <2>2
<1> QED
  BY <1>1, <1>2, <1>3 DEF Apart, Live, Honest, Adopting

\* What a step of the server has to keep: a call goes on as the call it was.
LEMMA GoesOn ==
  ASSUME Apart, NEW c \in calls, NEW e, calls' \subseteq (calls \ {c}) \cup {e},
         OwnAlerts', OwnRows', UNCHANGED <<me, blob, stored>>,
         e.op = c.op, e.device = c.device, e.stale = c.stale,
         Honest(e), \A d \in Tabs : Live(e, d) => Current(e, d)
  PROVE  Apart'
<1>1. OwnCopies'
  BY DEF OwnCopies, OwnCopy, Apart
<1>2. OneLoad'
  <2> SUFFICES ASSUME NEW d \in Tabs, NEW x \in calls', NEW y \in calls', Live(x, d), Live(y, d),
                      x.op = "load", y.op = "load"
               PROVE  x = y
    BY DEF OneLoad, Live
  <2>1. \A z \in calls \ {c} : Live(z, d) /\ z.op = "load" => ~(Live(e, d) /\ e.op = "load")
    BY DEF Apart, OneLoad, Live
  <2> QED
    BY <2>1 DEF Apart, OneLoad
<1>3. \A x \in calls' : Honest(x)
  BY DEF Apart
<1>4. ASSUME NEW d \in Tabs, NEW x \in calls', Live(x, d) PROVE Current(x, d)'
  <2>1. Current(x, d)
    BY <1>4 DEF Apart
  <2> QED
    BY <2>1 DEF Current
<1> QED
  BY <1>1, <1>2, <1>3, <1>4 DEF Apart, Live, Honest, Adopting

\* A session's end is seen by all its calls.
LEMMA AgedCalls ==
  ASSUME TypeOK, Apart, NEW d \in Tabs, NEW e \in Aged(d)
  PROVE  Honest(e) /\ ~Live(e, d) /\ (e.device # d => e \in calls)
<1>1. PICK c \in calls : e = IF c.device = d THEN [c EXCEPT !.stale = TRUE] ELSE c
  BY DEF Aged
<1>2. CallOK(c) /\ Honest(c)
  BY DEF TypeOK, Apart
<1>3. CASE c.device = d
  <2>1. Became(e, c, c.device, c.who, c.user, c.phase, c.answer, TRUE)
    BY <1>1, <1>2, <1>3, AgedCall
  <2> QED
    BY <1>2, <1>3, <2>1 DEF Live, Honest, Became, Adopting
<1>4. CASE c.device # d
  BY <1>1, <1>2, <1>4 DEF Live
<1> QED
  BY <1>3, <1>4

\* Once the history says so, it says so for good.
LEMMA StrayedStays == strayed /\ [Next]_vars => strayed'
<1> SUFFICES ASSUME strayed, [Next]_vars PROVE strayed'
  OBVIOUS
<1>1. ASSUME NEW d \in Tabs, Browse(d) PROVE strayed'
  BY <1>1 DEF Browse, ToggleSaved, ToggleCompare, AddAlert, RemoveAlert, SignIn, Logout,
              SessionEnds, Reload, history
<1>2. ASSUME NEW c \in calls, Serve(c) PROVE strayed'
  BY <1>2 DEF Serve, SaveListing, UnsaveListing, CreateAlert, DeleteAlert, ImportReads, ImportWrites,
              LoadWho, LoadLists, history
<1>3. ASSUME NEW c \in calls, Replay(c) \/ Settle(c) \/ Fail(c) \/ Drop(c) PROVE strayed'
  BY <1>3 DEF Replay, Settle, Fail, Drop, history
<1>4. ASSUME NEW t \in open, Commit(t) \/ Rollback(t) PROVE strayed'
  BY <1>4 DEF Commit, Rollback
<1>5. CASE UNCHANGED vars
  BY <1>5 DEF vars, history
<1> QED
  BY <1>1, <1>2, <1>3, <1>4, <1>5 DEF Next, Finished

\* What the user does keeps the accounts apart, unless the history says otherwise.
LEMMA BrowseStep ==
  ASSUME TypeOK, Apart, NEW d \in Tabs, Browse(d), ~strayed'
  PROVE  Apart'
<1> USE AccountAssumption
<1>1. /\ blob[d] \in Copy /\ me[d] \in Users \cup {NULL} /\ Home[d] \in Browsers
      /\ DOMAIN blob = Tabs /\ DOMAIN me = Tabs /\ stored[Home[d]] \in Copy
  BY DEF TypeOK
<1>2. /\ \A a \in blob[d].alerts : a.ad.by = blob[d].owner
      /\ OwnCopy(blob[d]) /\ OwnCopy(stored[Home[d]])
      /\ \A c \in calls : Honest(c) /\ CallOK(c) /\ (Live(c, d) => Current(c, d))
      /\ \A c, e \in calls : Live(c, d) /\ Live(e, d) /\ c.op = "load" /\ e.op = "load" => c = e
      /\ OwnAlerts /\ OwnRows
  BY <1>1 DEF Apart, OwnCopies, OwnCopy, OneLoad, TypeOK
<1>3. ASSUME UNCHANGED server PROVE OwnAlerts' /\ OwnRows'
  BY <1>2, <1>3 DEF OwnAlerts, OwnRows, server
<1>4. ASSUME NEW b \in Copy, Persist(d, b)
      PROVE  /\ blob'[d] = b /\ \A o \in Tabs \ {d} : blob'[o] = blob[o]
             /\ \A w \in Browsers : stored'[w] = stored[w] \/ stored'[w] = Written(blob'[d])
  BY <1>4, Persisted
<1>5. ASSUME NEW b \in Copy, Persist(d, b), UNCHANGED <<server, me>>, OwnCopy(b),
             b.owner = blob[d].owner, NEW c, c.device = d, Honest(c), c.op # "load",
             c.who = me[d], calls' \subseteq calls \cup {c},
             c.op = "removeAlert" => c.arg.ad.by = me[d] /\ blob[d].owner = me[d]
      PROVE  Apart'
  <2>1. \A e \in calls' : Live(e, d) => Current(e, d)'
    <3>1. blob'[d].owner = blob[d].owner /\ me' = me
      BY <1>4, <1>5
    <3> QED
      BY <1>2, <1>5, <3>1 DEF Current
  <2> QED
    BY <1>2, <1>3, <1>4, <1>5, <2>1, Elsewhere DEF Live
<1>6. ASSUME NEW op, NEW arg, SendChange(op, d, arg)
      PROVE  LET c == Call(op, d, me[d], Session(d), arg)
             IN /\ calls' = calls \cup {c} /\ c.op = op /\ c.device = d /\ c.who = me[d]
                /\ c.user = Session(d) /\ c.arg = arg /\ c.phase = "sent"
  BY <1>6 DEF SendChange, Call
<1>7. ASSUME NEW l \in Listings, ToggleSaved(d, l) PROVE Apart'
  <2> DEFINE b == [blob[d] EXCEPT !.saved = Flip(blob[d].saved, l)]
  <2>1. b \in Copy /\ b.owner = blob[d].owner /\ b.alerts = blob[d].alerts
    <3>1. Flip(blob[d].saved, l) \in SUBSET Listings
      BY <1>1 DEF Flip, Copy
    <3> QED
      BY <1>1, <3>1, CopyType
  <2>2. Persist(d, b) /\ UNCHANGED <<server, me>>
    BY <1>7 DEF ToggleSaved
  <2> HIDE DEF b
  <2>3. OwnCopy(b)
    BY <1>2, <2>1 DEF OwnCopy
  <2>4. PICK op \in {"save", "unsave"} : UNCHANGED calls \/ SendChange(op, d, l)
    BY <1>7 DEF ToggleSaved
  <2> DEFINE c == Call(op, d, me[d], Session(d), l)
  <2>5. c.op = op /\ c.device = d /\ c.who = me[d] /\ calls' \subseteq calls \cup {c}
    BY <1>6, <2>4 DEF Call
  <2> HIDE DEF c
  <2>6. Honest(c)
    BY <2>5 DEF Honest, Adopting
  <2> QED
    BY <1>5, <2>1, <2>2, <2>3, <2>5, <2>6
<1>8. ASSUME ToggleCompare(d) PROVE Apart'
  <2>1. Persist(d, blob[d]) /\ UNCHANGED <<server, calls, me>>
    BY <1>8 DEF ToggleCompare
  <2>2. blob'[d] = blob[d] /\ me' = me
    BY <1>1, <1>4, <2>1
  <2>3. \A e \in calls' : Live(e, d) => Current(e, d)'
    BY <1>2, <2>1, <2>2 DEF Current
  <2> QED
    BY <1>1, <1>2, <1>3, <1>4, <2>1, <2>2, <2>3, Elsewhere DEF Live
<1>9. ASSUME AddAlert(d) PROVE Apart'
  <2> DEFINE ref == <<d, ops[d] + 1>>
             ad == [by |-> me[d], ref |-> ref]
             new == [ref |-> ref, id |-> NULL, ad |-> ad]
             b == [blob[d] EXCEPT !.alerts = blob[d].alerts \cup {new}]
             c == Call("addAlert", d, me[d], Session(d), ad)
  <2>1. me[d] \in Users /\ ref \in Ref
    BY <1>1, <1>9 DEF AddAlert, Begin, TypeOK, Ref
  <2>2. ad \in Ad /\ new \in LocalAlert /\ new.ad = ad /\ ad.by = me[d]
    BY <2>1 DEF Ad, LocalAlert
  <2>3. /\ Persist(d, b) /\ SendChange("addAlert", d, ad) /\ UNCHANGED <<server, me>>
        /\ blob[d].owner = me[d] /\ Session(d) \in {NULL, me[d]}
    BY <1>1, <1>9 DEF AddAlert, Copy
  <2> HIDE DEF new, ad
  <2>4. b \in Copy /\ b.owner = blob[d].owner /\ b.alerts = blob[d].alerts \cup {new}
    <3> DEFINE A == blob[d].alerts \cup {new}
    <3>1. A \in SUBSET LocalAlert
      BY <1>1, <2>2 DEF Copy
    <3> HIDE DEF A
    <3>2. [blob[d] EXCEPT !.alerts = A] \in Copy /\ [blob[d] EXCEPT !.alerts = A].owner = blob[d].owner
          /\ [blob[d] EXCEPT !.alerts = A].alerts = A
      BY <1>1, <3>1, CopyType DEF Copy
    <3> QED
      BY <3>2 DEF A
  <2> HIDE DEF b
  <2>5. OwnCopy(b)
    BY <1>2, <2>2, <2>3, <2>4 DEF OwnCopy
  <2>6. /\ calls' = calls \cup {c} /\ c.op = "addAlert" /\ c.device = d /\ c.who = me[d]
        /\ c.user = Session(d) /\ c.arg = ad /\ c.phase = "sent"
    BY <1>6, <2>3
  <2> HIDE DEF c
  <2>7. Honest(c)
    BY <2>2, <2>3, <2>6 DEF Honest, Adopting
  <2> QED
    BY <1>5, <2>3, <2>4, <2>5, <2>6, <2>7
<1>10. ASSUME NEW a \in blob[d].alerts, RemoveAlert(d, a) PROVE Apart'
  <2> DEFINE A == {x \in blob[d].alerts : x.id # a.id}
             b == [blob[d] EXCEPT !.alerts = A]
             c == Call("removeAlert", d, me[d], Session(d), a)
  <2>1. b \in Copy /\ b.owner = blob[d].owner /\ b.alerts \subseteq blob[d].alerts
    <3>1. A \in SUBSET LocalAlert /\ A \subseteq blob[d].alerts
      BY <1>1 DEF Copy
    <3> HIDE DEF A
    <3> QED
      BY <1>1, <3>1, CopyType DEF Copy
  <2>2. /\ Persist(d, b) /\ SendChange("removeAlert", d, a) /\ UNCHANGED <<server, me>>
        /\ blob[d].owner = me[d]
    BY <1>10 DEF RemoveAlert
  <2> HIDE DEF b
  <2>3. OwnCopy(b) /\ a.ad.by = me[d]
    BY <1>2, <2>1, <2>2 DEF OwnCopy
  <2>4. /\ calls' = calls \cup {c} /\ c.op = "removeAlert" /\ c.device = d /\ c.who = me[d]
        /\ c.arg = a /\ c.phase = "sent"
    BY <1>6, <2>2
  <2> HIDE DEF c
  <2>5. Honest(c)
    BY <2>4 DEF Honest, Adopting
  <2> QED
    BY <1>5, <2>1, <2>2, <2>3, <2>4, <2>5
<1>11. ASSUME NEW u \in Users, SignIn(d, u) PROVE Apart'
  <2> DEFINE new == Call("import", d, u, u, Importable(blob[d], u))
  <2>1. /\ UNCHANGED <<server, blob, stored>> /\ me[d] = NULL /\ me'[d] = u
        /\ \A o \in Tabs \ {d} : me'[o] = me[o]
        /\ calls' = Aged(d) \cup {new}
    BY <1>1, <1>11 DEF SignIn
  <2>2. \A ad \in Importable(blob[d], u).ads : ad.by = u
    <3>1. \A a \in blob[d].alerts : a.ad \in Ad /\ a.ad.by # NULL
      BY <1>1 DEF Copy, LocalAlert, Ad
    <3>2. blob[d].alerts # {} => blob[d].owner # NULL
      BY <1>2, <3>1
    <3> QED
      BY <1>2, <3>2 DEF Importable, AdsOf
  <2>3. /\ new.op = "import" /\ new.device = d /\ new.phase = "sent" /\ new.user = u /\ new.who = u
        /\ new.arg = Importable(blob[d], u)
    BY DEF Call
  <2> HIDE DEF new
  <2>4. Honest(new)
    BY <2>2, <2>3 DEF Honest, Adopting
  <2>5. \A c \in Aged(d) : Honest(c) /\ ~Live(c, d) /\ (c.device # d => c \in calls)
    BY AgedCalls
  <2>6. \A c \in calls' : Live(c, d) => Current(c, d)'
    BY <2>1, <2>3, <2>5 DEF Current
  <2> QED
    BY <1>1, <1>2, <1>3, <2>1, <2>3, <2>4, <2>5, <2>6, Elsewhere DEF Live
<1>12. ASSUME Logout(d) PROVE Apart'
  <2>1. /\ UNCHANGED server /\ me'[d] = NULL /\ Persist(d, Empty)
        /\ \A o \in Tabs \ {d} : me'[o] = me[o] /\ calls' = Aged(d)
    BY <1>1, <1>12 DEF Logout
  <2>2. Empty \in Copy /\ OwnCopy(Empty)
    BY DEF Empty, Copy, OwnCopy
  <2>3. \A c \in Aged(d) : Honest(c) /\ ~Live(c, d) /\ (c.device # d => c \in calls)
    BY AgedCalls
  <2>4. calls' = Aged(d)
    BY <1>12 DEF Logout
  <2> QED
    BY <1>3, <1>4, <2>1, <2>2, <2>3, <2>4, Elsewhere DEF Live
<1>13. ASSUME SessionEnds(d) PROVE Apart'
  <2>1. UNCHANGED <<server, calls, me, blob, stored>>
    BY <1>13 DEF SessionEnds
  <2>2. \A c \in calls' : Live(c, d) => Current(c, d)'
    BY <1>2, <2>1 DEF Current
  <2> QED
    BY <1>1, <1>2, <1>3, <2>1, <2>2, Elsewhere
<1>14. ASSUME Reload(d) PROVE Apart'
  <2> DEFINE new == Call("load", d, NULL, NULL, NULL)
  <2>1. /\ UNCHANGED server /\ me'[d] = NULL /\ Persist(d, stored[Home[d]])
        /\ \A o \in Tabs \ {d} : me'[o] = me[o]
    BY <1>1, <1>14 DEF Reload
  <2>2. new.op = "load" /\ new.device = d /\ new.phase = "sent"
    BY DEF Call
  <2> HIDE DEF new
  <2>3. \A c \in calls' : \/ c = new
                          \/ c \in calls /\ c.device # d
                          \/ \E e \in calls : c \in GivenUp(e)
    BY <1>14 DEF Reload, CallsOf, new
  <2>4. \A e \in calls : \A c \in GivenUp(e) : Honest(c) /\ c.device = NULL
    <3> SUFFICES ASSUME NEW e \in calls, NEW c \in GivenUp(e) PROVE Honest(c) /\ c.device = NULL
      OBVIOUS
    <3>1. Became(c, e, NULL, e.who, e.user, e.phase, e.answer, e.stale) /\ Honest(e)
      BY <1>2, GivenUpCall
    <3> QED
      BY <3>1 DEF Honest, Became, Adopting
  <2>5. Honest(new)
    BY <2>2 DEF Honest, Adopting
  <2>6. \A c \in calls' : Honest(c) /\ (Live(c, d) => c = new)
                           /\ \A o \in Tabs \ {d} : Live(c, o) => c \in calls
    BY <1>2, <2>2, <2>3, <2>4, <2>5 DEF Live
  <2>7. \A c \in calls' : Live(c, d) => Current(c, d)'
    BY <2>1, <2>2, <2>6 DEF Current
  <2> QED
    BY <1>1, <1>2, <1>3, <1>4, <2>1, <2>6, <2>7, Elsewhere
<1> QED
  BY <1>7, <1>8, <1>9, <1>10, <1>11, <1>12, <1>13, <1>14 DEF Browse

\* A call carried out by the server stores, and answers, what is the account's own.
LEMMA ServeStep ==
  ASSUME TypeOK, Apart, NEW c \in calls, Serve(c), ~strayed'
  PROVE  Apart'
<1> USE AccountAssumption
<1>1. /\ CallOK(c) /\ Honest(c) /\ OwnAlerts /\ OwnRows
      /\ \A d \in Tabs : Live(c, d) => Current(c, d)
  BY DEF TypeOK, Apart
<1>2. ASSUME NEW answer, Answered(c, answer), UNCHANGED <<alerts, me, blob, stored>>, OwnRows',
             c.op = "addAlert" => answer \in RowId,
             c.op = "import" => answer \in AccountLists,
             c.op = "load" => answer \in AccountLists /\ c.who \in Users,
             Adopting(c) => \A a \in answer.alerts : a.ad.by = c.who
      PROVE  Apart'
  <2> DEFINE e == [c EXCEPT !.phase = "ok", !.answer = answer]
  <2>1. OwnAlerts'
    BY <1>1, <1>2 DEF OwnAlerts
  <2>2. CASE c.device = NULL
    <3>1. calls' \subseteq (calls \ {c}) \cup {c}
      BY <1>2, <2>2 DEF Answered
    <3> QED
      BY <1>1, <1>2, <2>1, <3>1, GoesOn
  <2>3. CASE c.device # NULL
    <3>1. Became(e, c, c.device, c.who, c.user, "ok", answer, c.stale)
      BY <1>1, <1>2, <2>3, OkCall
    <3>2. calls' = (calls \ {c}) \cup {e}
      BY <1>2, <2>3 DEF Answered
    <3> HIDE DEF e
    <3>3. Honest(e)
      BY <1>1, <1>2, <3>1 DEF Honest, Became, Adopting
    <3>4. \A d \in Tabs : Live(e, d) => Current(e, d)
      BY <1>1, <3>1 DEF Live, Current, Became
    <3> QED
      BY <1>2, <2>1, <3>1, <3>2, <3>3, <3>4, GoesOn DEF Became
  <2> QED
    BY <2>2, <2>3
<1>3. ASSUME NEW puts, NEW drops, NEW rows, NEW gone, Opened(c, puts, drops, rows, gone),
             \A a \in rows : a.ad.by = a.owner
      PROVE  OwnRows'
  BY <1>1, <1>3 DEF Opened, OwnRows
<1>4. CASE SaveListing(c)
  <2>1. OwnRows' /\ ~Adopting(c) /\ c.op = "save" /\ Answered(c, NULL)
    BY <1>3, <1>4 DEF SaveListing, Adopting
  <2> QED
    BY <1>2, <1>4, <2>1 DEF SaveListing, page
<1>5. CASE UnsaveListing(c)
  <2>1. OwnRows' /\ ~Adopting(c) /\ c.op = "unsave" /\ Answered(c, NULL)
    BY <1>3, <1>5 DEF UnsaveListing, Adopting
  <2> QED
    BY <1>2, <1>5, <2>1 DEF UnsaveListing, page
<1>6. CASE CreateAlert(c)
  <2>1. c.arg.by = c.user /\ c.user \in Users /\ c.arg \in Ad /\ c.op = "addAlert" /\ ~Adopting(c)
    BY <1>1, <1>6 DEF CreateAlert, Honest, CallOK, Adopting
  <2> DEFINE row == RowOf(c, c.arg)
             id == row.id
  <2>2. id \in RowId /\ row.owner = c.user /\ row.ad = c.arg
    BY <1>1, <2>1, RowType
  <2>3. Opened(c, {}, {}, {row}, {}) /\ Answered(c, id) /\ UNCHANGED <<alerts, page>>
    BY <1>6 DEF CreateAlert
  <2> HIDE DEF row, id
  <2>4. OwnRows'
    BY <1>3, <2>1, <2>2, <2>3
  <2> QED
    BY <1>2, <2>1, <2>2, <2>3, <2>4 DEF page
<1>7. CASE DeleteAlert(c)
  <2>1. ~Adopting(c) /\ c.op = "removeAlert" /\ Answered(c, NULL)
    BY <1>7 DEF DeleteAlert, Adopting
  <2>2. OwnRows'
    BY <1>3, <1>7 DEF DeleteAlert
  <2> QED
    BY <1>2, <1>7, <2>1, <2>2 DEF DeleteAlert, page
<1>8. CASE ImportReads(c)
  <2> DEFINE known == AdsOf(AlertsOf(c.user))
             puts == (c.arg.saved \ Unlisted) \ saved[c.user]
             answer == [ads |-> known, puts |-> puts]
             e == [c EXCEPT !.phase = "read", !.answer = answer]
  <2>1. c.op = "import" /\ c.user \in Users /\ c.arg \in Upload /\ c.who \in Users
    BY <1>1, <1>8 DEF ImportReads, CallOK
  <2>2. known \in SUBSET Ad /\ puts \in SUBSET Listings
    BY <2>1 DEF TypeOK, StoredAlert, AdsOf, AlertsOf, Upload
  <2>3. calls' = (calls \ {c}) \cup {e} /\ UNCHANGED <<server, page>>
    BY <1>8 DEF ImportReads
  <2> HIDE DEF known, puts
  <2>4. answer \in Reading
    BY <2>2 DEF Reading
  <2> HIDE DEF answer
  <2>5. Became(e, c, c.device, c.who, c.user, "read", answer, c.stale)
    BY <1>1, <2>1, <2>4, ReadCall
  <2> HIDE DEF e
  <2>6. Honest(e)
    BY <1>1, <2>1, <2>5 DEF Honest, Became, Adopting
  <2>7. \A d \in Tabs : Live(e, d) => Current(e, d)
    BY <1>1, <2>1, <2>5 DEF Live, Current, Became
  <2>8. OwnAlerts' /\ OwnRows'
    BY <1>1, <2>3 DEF OwnAlerts, OwnRows, server
  <2> QED
    BY <2>3, <2>5, <2>6, <2>7, <2>8, GoesOn DEF Became, page
<1>9. CASE ImportWrites(c)
  <2> DEFINE rows == {RowOf(c, ad) : ad \in NewAds(c)}
             lists == Lists(c.user, saved[c.user] \cup c.answer.puts, alerts \cup rows)
  <2>1. /\ c.user \in Users /\ rows \in SUBSET StoredAlert /\ lists \in AccountLists
        /\ c.arg \in Upload
    BY <1>9, ImportWritesType
  <2>2. /\ Opened(c, c.answer.puts, {}, rows, {}) /\ Answered(c, lists) /\ c.op = "import"
        /\ UNCHANGED <<alerts, page>>
    BY <1>9 DEF ImportWrites
  <2>3. c.user = c.who /\ \A ad \in NewAds(c) : ad \in Ad /\ ad.by = c.user
    BY <1>1, <2>1, <2>2 DEF NewAds, Honest, Upload
  <2>4. \A a \in rows : a.ad.by = a.owner
    BY <1>1, <2>1, <2>3, RowType
  <2> HIDE DEF rows
  <2>5. \A a \in lists.alerts : a.ad.by = c.who
    BY <1>1, <2>3, <2>4 DEF Lists, OwnAlerts
  <2> HIDE DEF lists
  <2>6. OwnRows'
    BY <1>3, <2>2, <2>4
  <2> QED
    BY <1>2, <2>1, <2>2, <2>5, <2>6 DEF page
<1>10. CASE LoadWho(c)
  <2> DEFINE e == [c EXCEPT !.phase = "read", !.who = Session(c.device)]
  <2>1. c.op = "load" /\ Session(c.device) \in Users
    BY <1>1, <1>10 DEF LoadWho, CallOK, TypeOK, Session
  <2>2. calls' = (calls \ {c}) \cup {e} /\ UNCHANGED <<server, page>>
    BY <1>10 DEF LoadWho
  <2>3. Became(e, c, c.device, Session(c.device), c.user, "read", c.answer, c.stale)
    BY <1>1, <2>1, ReadCall
  <2> HIDE DEF e
  <2>4. Honest(e)
    BY <2>1, <2>3 DEF Honest, Became, Adopting
  <2>5. \A d \in Tabs : Live(e, d) => Current(e, d)
    BY <1>1, <2>1, <2>3 DEF Live, Current, Became
  <2>6. OwnAlerts' /\ OwnRows'
    BY <1>1, <2>2 DEF OwnAlerts, OwnRows, server
  <2> QED
    BY <2>2, <2>3, <2>4, <2>5, <2>6, GoesOn DEF Became, page
<1>11. CASE LoadLists(c)
  <2> DEFINE now == Session(c.device)
             lists == Lists(now, saved[now], alerts)
  <2>1. /\ c.op = "load" /\ now \in Users /\ c.who \in Users /\ Answered(c, lists)
        /\ now = c.who /\ UNCHANGED <<server, page>>
    BY <1>1, <1>11 DEF LoadLists, CallOK, TypeOK, Session
  <2>2. lists \in AccountLists
    BY <2>1, ListsType DEF TypeOK
  <2>3. \A a \in lists.alerts : a.ad.by = c.who
    BY <1>1, <2>1 DEF Lists, OwnAlerts
  <2> HIDE DEF lists
  <2>4. OwnRows'
    BY <1>1, <2>1 DEF OwnRows, server
  <2> QED
    BY <1>2, <2>1, <2>2, <2>3, <2>4 DEF page, server
<1> QED
  BY <1>4, <1>5, <1>6, <1>7, <1>8, <1>9, <1>10, <1>11 DEF Serve

\* An answer that arrives within its session is about the account shown.
LEMMA SettleStep ==
  ASSUME TypeOK, Apart, NEW c \in calls, Settle(c), ~strayed'
  PROVE  Apart'
<1> USE AccountAssumption
<1> DEFINE d == c.device
<1>1. /\ CallOK(c) /\ c.phase = "ok" /\ d \in Tabs /\ c.who \in Users
      /\ blob[d] \in Copy /\ blob'[d] \in Copy
      /\ blob'[d] = Settled(blob[d], c)
      /\ \A o \in Tabs \ {d} : blob'[o] = blob[o]
      /\ \A w \in Browsers : stored'[w] = stored[w] \/ stored'[w] = Written(blob'[d])
  BY SettleWrites
<1>2. /\ calls' = calls \ {c} /\ UNCHANGED server
      /\ me'[d] = IF c.op = "load" THEN c.who ELSE me[d]
      /\ \A o \in Tabs \ {d} : me'[o] = me[o]
      /\ DOMAIN me = Tabs
      /\ c.stale => me' = me /\ blob' = blob
  BY <1>1 DEF Settle, TypeOK
<1>3. /\ Honest(c) /\ (Live(c, d) => Current(c, d))
      /\ OwnAlerts' /\ OwnRows' /\ \A e \in calls' : Honest(e)
  BY <1>1, <1>2 DEF OwnAlerts, OwnRows, Apart, server
<1>4. /\ \A e \in calls : CallOK(e) /\ (Live(e, d) => Current(e, d))
      /\ \A e, f \in calls : Live(e, d) /\ Live(f, d) /\ e.op = "load" /\ f.op = "load" => e = f
      /\ OwnCopy(blob[d])
  BY <1>1 DEF Apart, OneLoad, OwnCopies, TypeOK
<1>5. CASE c.stale
  <2>1. \A e \in calls' : Live(e, d) => Current(e, d)'
    BY <1>2, <1>4, <1>5 DEF Current
  <2>2. OwnCopy(blob'[d])
    BY <1>2, <1>4, <1>5
  <2> QED
    BY <1>1, <1>2, <1>3, <1>4, <2>1, <2>2, Elsewhere
<1>6. CASE ~c.stale
  <2>1. Current(c, d)
    BY <1>3, <1>6 DEF Live
  <2>2. CASE Adopting(c)
    <3>1. blob'[d].owner = c.who /\ OwnCopy(blob'[d])
      <4>1. blob'[d] = Adopted(c.who, c.answer)
        BY <1>1, <2>2, SettledIs
      <4>2. \A a \in c.answer.alerts : a.ad.by = c.who
        BY <1>1, <1>3, <2>2 DEF Honest
      <4> QED
        BY <4>1, <4>2 DEF Adopted, OwnCopy
    <3>2. me'[d] = c.who
      BY <1>2, <2>1, <2>2 DEF Current, Adopting
    <3>3. \A e \in calls' : Live(e, d) => Current(e, d)'
      <4> SUFFICES ASSUME NEW e \in calls', Live(e, d) PROVE Current(e, d)'
        OBVIOUS
      <4>1. Current(e, d) /\ e # c /\ e \in calls /\ CallOK(e)
        BY <1>2, <1>4
      <4>2. c.op # "load"
        <5> SUFFICES ASSUME c.op = "load" PROVE FALSE
          OBVIOUS
        <5>1. me[d] = NULL
          BY <2>1 DEF Current
        <5>2. e.op = "load"
          BY <4>1, <5>1 DEF Current, CallOK
        <5> QED
          BY <1>1, <1>4, <1>6, <4>1, <5>2 DEF Live
      <4>3. me'[d] = me[d] /\ me[d] = c.who
        BY <1>2, <2>1, <4>2 DEF Current
      <4> QED
        BY <3>1, <4>1, <4>3 DEF Current
    <3> QED
      BY <1>1, <1>2, <1>3, <1>4, <3>1, <3>3, Elsewhere
  <2>3. CASE ~Adopting(c)
    <3>1. blob'[d].owner = blob[d].owner /\ OwnCopy(blob'[d])
      <4>1. CASE c.op = "addAlert"
        <5>1. \A a \in blob[d].alerts : Attached(a, c).ad = a.ad
          BY <1>1, <4>1, AttachedIs DEF Copy
        <5>2. /\ blob'[d].alerts = {Attached(a, c) : a \in blob[d].alerts}
              /\ blob'[d].owner = blob[d].owner
          BY <1>1, <2>3, <4>1, SettledIs
        <5> QED
          BY <1>4, <5>1, <5>2 DEF OwnCopy
      <4>2. CASE c.op # "addAlert"
        BY <1>1, <1>4, <2>3, <4>2, SettledIs
      <4> QED
        BY <4>1, <4>2
    <3>2. me'[d] = me[d]
      BY <1>2, <2>3 DEF Adopting
    <3>3. \A e \in calls' : Live(e, d) => Current(e, d)'
      BY <1>2, <1>4, <3>1, <3>2 DEF Current
    <3> QED
      BY <1>1, <1>2, <1>3, <1>4, <3>1, <3>3, Elsewhere
  <2> QED
    BY <2>2, <2>3
<1> QED
  BY <1>5, <1>6

\* What is taken back within the session is taken back from, or put back into, the copy
\* of the account shown.
LEMMA FailStep ==
  ASSUME TypeOK, Apart, NEW c \in calls, Fail(c), ~strayed'
  PROVE  Apart'
<1> USE AccountAssumption
<1> DEFINE d == c.device
<1>1. /\ CallOK(c) /\ d \in Tabs /\ blob[d] \in Copy
      /\ blob'[d] = Reverted(blob[d], c)
      /\ \A o \in Tabs \ {d} : blob'[o] = blob[o]
      /\ \A w \in Browsers : stored'[w] = stored[w] \/ stored'[w] = Written(blob'[d])
  BY FailWrites
<1>2. /\ calls' = (calls \ {c}) \cup GivenUp(c) /\ UNCHANGED <<server, me>>
      /\ c.stale => blob'[d] = blob[d]
  BY <1>1 DEF Fail
<1>3. /\ \A e \in calls : Honest(e) /\ (Live(e, d) => Current(e, d))
      /\ \A e, f \in calls : Live(e, d) /\ Live(f, d) /\ e.op = "load" /\ f.op = "load" => e = f
      /\ OwnCopy(blob[d])
  BY <1>1 DEF Apart, OneLoad, OwnCopies
<1>4. \A e \in GivenUp(c) : Honest(e) /\ e.device = NULL
  <2> SUFFICES ASSUME NEW e \in GivenUp(c) PROVE Honest(e) /\ e.device = NULL
    OBVIOUS
  <2>1. Became(e, c, NULL, c.who, c.user, c.phase, c.answer, c.stale) /\ Honest(c)
    BY <1>1, <1>3, GivenUpCall
  <2> QED
    BY <2>1 DEF Honest, Became, Adopting
<1>5. /\ OwnAlerts' /\ OwnRows' /\ \A e \in calls' : Honest(e)
      /\ \A e \in calls' : \A o \in Tabs : Live(e, o) => e \in calls
  BY <1>2, <1>3, <1>4 DEF OwnAlerts, OwnRows, Live, server, Apart
<1>6. blob'[d] \in Copy /\ blob'[d].owner = blob[d].owner /\ OwnCopy(blob'[d])
  <2>1. blob'[d] \in Copy /\ blob'[d].owner = blob[d].owner
    BY <1>1, RevertedIs
  <2>2. CASE c.stale
    BY <1>2, <1>3, <2>1, <2>2
  <2>3. CASE ~c.stale /\ c.op = "removeAlert"
    <3>1. c.arg.ad.by = blob[d].owner
      BY <1>1, <1>3, <2>3 DEF Live, Current
    <3>2. blob'[d].alerts = blob[d].alerts \cup {c.arg}
      BY <1>1, <2>3, RevertedIs
    <3> QED
      BY <1>3, <2>1, <3>1, <3>2 DEF OwnCopy
  <2>4. CASE c.op # "removeAlert"
    <3>1. blob'[d].alerts \subseteq blob[d].alerts
      BY <1>1, <2>4, RevertedIs DEF CallOK, Operations, Adopting
    <3> QED
      BY <1>3, <2>1, <3>1 DEF OwnCopy
  <2> QED
    BY <2>2, <2>3, <2>4
<1>7. \A e \in calls' : Live(e, d) => Current(e, d)'
  BY <1>1, <1>2, <1>3, <1>5, <1>6 DEF Current
<1> QED
  BY <1>1, <1>2, <1>3, <1>5, <1>6, <1>7, Elsewhere

\* A call replayed for another account is one of the ways the history knows.
LEMMA ReplayStep ==
  ASSUME TypeOK, Apart, NEW c \in calls, Replay(c), ~strayed'
  PROVE  Apart'
<1> USE AccountAssumption
<1> DEFINE now == Session(c.device)
           e == [c EXCEPT !.phase = "again", !.user = now]
<1>1. /\ CallOK(c) /\ Honest(c) /\ \A d \in Tabs : Live(c, d) => Current(c, d)
      /\ OwnAlerts /\ OwnRows
  BY DEF TypeOK, Apart
<1>2. /\ c.phase = "sent" /\ c.op # "load" /\ c.user # NULL /\ now # c.user
      /\ now = c.who \/ c.op \notin {"addAlert", "import"}
      /\ calls' = (calls \ {c}) \cup {e} /\ UNCHANGED <<server, page>>
  BY DEF Replay
<1>3. now \in Users
  BY <1>1, <1>2 DEF Replay, Session, TypeOK, CallOK
<1>4. Became(e, c, c.device, c.who, now, "again", c.answer, c.stale)
  BY <1>1, <1>2, <1>3, ReplayedCall
<1> HIDE DEF e, now
<1>5. Honest(e) /\ \A d \in Tabs : Live(e, d) => Current(e, d)
  BY <1>1, <1>2, <1>4 DEF Honest, Live, Current, Became, Adopting
<1>6. OwnAlerts' /\ OwnRows'
  BY <1>1, <1>2 DEF OwnAlerts, OwnRows, server
<1> QED
  BY <1>2, <1>4, <1>5, <1>6, GoesOn DEF Became, page

LEMMA ApartStep == IInv /\ [Next]_vars => IInv'
<1> SUFFICES ASSUME TypeOK, strayed \/ Apart, [Next]_vars PROVE TypeOK' /\ (strayed' \/ Apart')
  BY DEF IInv
<1>1. TypeOK'
  BY TypeStep
<1>2. ASSUME ~strayed' PROVE Apart'
  <2>1. Apart
    BY <1>2, StrayedStays
  <2>2. ASSUME UNCHANGED <<me, blob, stored>>, calls' \subseteq calls, OwnAlerts', OwnRows' PROVE Apart'
    BY <2>1, <2>2 DEF Apart, OwnCopies, OwnCopy, OneLoad, Honest, Live, Current, Adopting
  <2>3. ASSUME NEW d \in Tabs, Browse(d) PROVE Apart'
    BY <1>2, <2>1, <2>3, BrowseStep
  <2>4. ASSUME NEW c \in calls, Replay(c) \/ Serve(c) \/ Settle(c) \/ Fail(c) PROVE Apart'
    BY <1>2, <2>1, <2>4, ReplayStep, ServeStep, SettleStep, FailStep
  <2>5. ASSUME NEW c \in calls, Drop(c) PROVE Apart'
    BY <2>1, <2>2, <2>5 DEF Drop, server, page, Apart, OwnAlerts, OwnRows
  <2>6. ASSUME NEW t \in open, Commit(t) PROVE Apart'
    BY <2>1, <2>2, <2>6 DEF Commit, page, Apart, OwnAlerts, OwnRows
  <2>7. ASSUME NEW t \in open, Rollback(t) PROVE Apart'
    BY <2>1, <2>2, <2>7 DEF Rollback, page, Apart, OwnAlerts, OwnRows
  <2>8. CASE UNCHANGED vars
    BY <2>1, <2>2, <2>8 DEF vars, server, page, Apart, OwnAlerts, OwnRows
  <2> QED
    BY <2>3, <2>4, <2>5, <2>6, <2>7, <2>8 DEF Next, Finished
<1> QED
  BY <1>1, <1>2

\* Whatever is answered late, lost, committed late or not at all, retried after a reload or
\* imported, and whoever else signs in beside it in the same browser, one account's alerts
\* reach neither another account nor another's copy, but by the three ways that strayed
\* records (logout and importableLists, lib/account.ts).
THEOREM KeptApart == Spec => []AccountsKeepApart
<1>1. Init => IInv
  BY TypeInit, ApartInit DEF IInv
<1>2. IInv /\ [Next]_vars => IInv'
  BY ApartStep
<1>3. IInv => AccountsKeepApart
  BY DEF IInv, Apart, OwnAlerts, OwnCopies, OwnCopy, AccountsKeepApart
<1> QED
  BY <1>1, <1>2, <1>3, PTL DEF Spec

-----------------------------------------------------------------------------
\* Where calls come from.

\* The rows there are, and those that are there once a transaction commits.
Rows == alerts \cup (UNION {t.rows : t \in open})

\* A call that is still to be answered, or waited for, whoever waits.
Same(e, c) ==
  /\ e.n = c.n /\ e.op = c.op /\ e.arg = c.arg /\ e.user = c.user
  /\ e.phase = c.phase /\ e.answer = c.answer /\ e.device \in {c.device, NULL}

\* A call that goes out once more, for an account.
Replayed(e, c) ==
  /\ e.n = c.n /\ e.op = c.op /\ e.arg = c.arg /\ e.device = c.device
  /\ e.phase = "again" /\ e.user # NULL
  /\ Pending(c) /\ c.user # NULL

\* The alert that the page of d would make next.
NewAd(d) == [by |-> me[d], ref |-> <<d, ops[d] + 1>>]

\* A call that the page of d has just made.
Made(e, d) ==
  /\ e.phase = "sent" /\ ops'[d] = ops[d] + 1 /\ UNCHANGED server
  /\ e.n = <<d, ops[d] + 1>> /\ e.device = d
  /\ e.op = "addAlert" => e.arg = NewAd(d) /\ e.arg.ref = <<d, ops[d] + 1>>
  /\ e.op = "removeAlert" => e.arg \in blob[d].alerts /\ e.arg.id # NULL
  /\ e.op = "import" => \E u \in Users : e.arg = Importable(blob[d], u)

\* A call that the server has just worked on.
Served(e, c) ==
  /\ e.n = c.n /\ e.op = c.op /\ e.arg = c.arg /\ e.device = c.device
  /\ e.phase \in {"read", "ok"}
  /\ e.op = "addAlert" => CreateAlert(c) /\ e.answer = <<c.n, c.arg>>
  /\ e.op = "import" /\ e.phase = "read" =>
       ImportReads(c) /\ e.user = c.user /\ e.answer.ads = AdsOf(AlertsOf(c.user))
  /\ Adopting(e) /\ e.phase = "ok" => e.answer.alerts \subseteq Rows'

LEMMA AgedSame ==
  ASSUME TypeOK, NEW d \in Tabs, NEW e \in Aged(d)
  PROVE  \E c \in calls : Same(e, c)
<1>1. PICK c \in calls : e = IF c.device = d THEN [c EXCEPT !.stale = TRUE] ELSE c
  BY DEF Aged
<1>2. CallOK(c)
  BY DEF TypeOK
<1>3. c.device = d => Became(e, c, c.device, c.who, c.user, c.phase, c.answer, TRUE)
  BY <1>1, <1>2, AgedCall
<1>4. Same(e, c)
  BY <1>1, <1>3 DEF Same, Became
<1> QED
  BY <1>4

LEMMA GivenUpSame ==
  ASSUME TypeOK, NEW c \in calls, NEW e \in GivenUp(c)
  PROVE  Same(e, c)
<1>1. CallOK(c)
  BY DEF TypeOK
<1>2. Became(e, c, NULL, c.who, c.user, c.phase, c.answer, c.stale)
  BY <1>1, GivenUpCall
<1> QED
  BY <1>2 DEF Same, Became

LEMMA MadeNow ==
  ASSUME TypeOK, NEW d \in Tabs, Browse(d)
  PROVE  \A e \in calls' : Made(e, d) \/ \E c \in calls : Same(e, c)
<1>1. \A c \in calls : Same(c, c)
  BY DEF Same
<1>2. Begin(d) => ops'[d] = ops[d] + 1
  BY DEF Begin, TypeOK
<1> SUFFICES ASSUME NEW e \in calls', e \notin calls,
                    \A c \in Aged(d) : c # e, \A c \in calls : e \notin GivenUp(c)
             PROVE  Made(e, d)
  BY <1>1, AgedSame, GivenUpSame
<1>3. ASSUME NEW op, NEW who, NEW user, NEW arg, e = Call(op, d, who, user, arg)
      PROVE  /\ e.n = <<d, ops[d] + 1>> /\ e.device = d
             /\ e.op = op /\ e.arg = arg /\ e.phase = "sent"
  BY <1>3 DEF Call
<1>4. ASSUME NEW op, NEW arg, SendChange(op, d, arg)
      PROVE  /\ e.n = <<d, ops[d] + 1>> /\ e.device = d
             /\ e.op = op /\ e.arg = arg /\ e.phase = "sent"
  <2>1. e = Call(op, d, me[d], Session(d), arg)
    BY <1>4 DEF SendChange
  <2> QED
    BY <1>3, <2>1
<1>5. ASSUME NEW l \in Listings, ToggleSaved(d, l) PROVE Made(e, d)
  <2>1. /\ \E op \in {"save", "unsave"} : SendChange(op, d, l)
        /\ Begin(d) /\ UNCHANGED server
    BY <1>5 DEF ToggleSaved
  <2> QED
    BY <1>2, <1>4, <2>1 DEF Made
<1>6. ASSUME AddAlert(d) PROVE Made(e, d)
  <2>1. SendChange("addAlert", d, NewAd(d)) /\ Begin(d) /\ UNCHANGED server
    BY <1>6 DEF AddAlert, NewAd
  <2>2. NewAd(d).ref = <<d, ops[d] + 1>>
    BY DEF NewAd
  <2> QED
    BY <1>2, <1>4, <2>1, <2>2 DEF Made
<1>7. ASSUME NEW a \in blob[d].alerts, RemoveAlert(d, a) PROVE Made(e, d)
  <2>1. SendChange("removeAlert", d, a) /\ Begin(d) /\ UNCHANGED server /\ a.id # NULL
    BY <1>7 DEF RemoveAlert
  <2> QED
    BY <1>2, <1>4, <2>1 DEF Made
<1>8. ASSUME NEW u \in Users, SignIn(d, u) PROVE Made(e, d)
  <2>1. /\ e = Call("import", d, u, u, Importable(blob[d], u))
        /\ Begin(d) /\ UNCHANGED server
    BY <1>8 DEF SignIn
  <2>2. /\ e.n = <<d, ops[d] + 1>> /\ e.device = d
        /\ e.op = "import" /\ e.arg = Importable(blob[d], u) /\ e.phase = "sent"
    BY <1>3, <2>1
  <2> QED
    BY <1>2, <2>1, <2>2 DEF Made
<1>9. ASSUME Logout(d) \/ SessionEnds(d) \/ ToggleCompare(d) PROVE Made(e, d)
  BY <1>9 DEF Logout, SessionEnds, ToggleCompare
<1>10. ASSUME Reload(d) PROVE Made(e, d)
  <2>1. e = Call("load", d, NULL, NULL, NULL) /\ Begin(d) /\ UNCHANGED server
    BY <1>10 DEF Reload, CallsOf
  <2>2. e.n = <<d, ops[d] + 1>> /\ e.device = d /\ e.op = "load" /\ e.phase = "sent"
    BY <1>3, <2>1
  <2> QED
    BY <1>2, <2>1, <2>2 DEF Made
<1> QED
  BY <1>5, <1>6, <1>7, <1>8, <1>9, <1>10 DEF Browse

LEMMA ServedNow ==
  ASSUME TypeOK, NEW c \in calls, Serve(c)
  PROVE  \A e \in calls' : e \in calls \ {c} \/ Served(e, c)
<1> SUFFICES ASSUME NEW e \in calls', e \notin calls \ {c} PROVE Served(e, c)
  OBVIOUS
<1> USE AccountAssumption
<1>1. CallOK(c)
  BY DEF TypeOK
<1>2. ASSUME NEW answer, Answered(c, answer),
             c.op = "addAlert" => answer \in RowId,
             c.op = "import" => answer \in AccountLists,
             c.op = "load" => answer \in AccountLists /\ c.who \in Users,
             c.op = "addAlert" => CreateAlert(c) /\ answer = <<c.n, c.arg>>,
             Adopting(c) => answer.alerts \subseteq Rows'
      PROVE  Served(e, c)
  <2>1. Became(e, c, c.device, c.who, c.user, "ok", answer, c.stale)
    BY <1>2, AnsweredType
  <2> QED
    BY <1>2, <2>1 DEF Served, Became, Adopting
<1>3. CASE SaveListing(c)
  BY <1>2, <1>3 DEF SaveListing, Adopting
<1>4. CASE UnsaveListing(c)
  BY <1>2, <1>4 DEF UnsaveListing, Adopting
<1>5. CASE CreateAlert(c)
  <2> DEFINE id == RowOf(c, c.arg).id
  <2>1. c.user \in Users /\ c.arg \in Ad /\ c.op = "addAlert" /\ Answered(c, id)
    BY <1>1, <1>5 DEF CreateAlert, CallOK
  <2>2. id \in RowId /\ id = <<c.n, c.arg>>
    BY <1>1, <2>1, RowType
  <2> HIDE DEF id
  <2> QED
    BY <1>2, <1>5, <2>1, <2>2 DEF Adopting
<1>6. CASE DeleteAlert(c)
  BY <1>2, <1>6 DEF DeleteAlert, Adopting
<1>7. CASE ImportReads(c)
  <2> DEFINE known == AdsOf(AlertsOf(c.user))
             puts == (c.arg.saved \ Unlisted) \ saved[c.user]
             answer == [ads |-> known, puts |-> puts]
  <2>1. c.op = "import" /\ c.user \in Users /\ c.arg \in Upload /\ c.who \in Users
    BY <1>1, <1>7 DEF ImportReads, CallOK
  <2>2. known \in SUBSET Ad /\ puts \in SUBSET Listings
    BY <2>1 DEF TypeOK, StoredAlert, AdsOf, AlertsOf, Upload
  <2>3. e = [c EXCEPT !.phase = "read", !.answer = answer]
    BY <1>7 DEF ImportReads
  <2> HIDE DEF known, puts
  <2>4. answer \in Reading /\ answer.ads = known
    BY <2>2 DEF Reading
  <2> HIDE DEF answer
  <2>5. Became(e, c, c.device, c.who, c.user, "read", answer, c.stale)
    BY <1>1, <2>1, <2>3, <2>4, ReadCall
  <2>6. e.answer.ads = AdsOf(AlertsOf(c.user))
    BY <2>4, <2>5 DEF Became, known
  <2>7. /\ e.n = c.n /\ e.op = "import" /\ e.arg = c.arg /\ e.device = c.device
        /\ e.phase = "read" /\ e.user = c.user
    BY <2>1, <2>5 DEF Became
  <2> HIDE DEF known
  <2> QED
    BY <1>7, <2>1, <2>6, <2>7 DEF Served
<1>8. CASE ImportWrites(c)
  <2> DEFINE rows == {RowOf(c, ad) : ad \in NewAds(c)}
             lists == Lists(c.user, saved[c.user] \cup c.answer.puts, alerts \cup rows)
             t == [n |-> c.n, device |-> c.device, user |-> c.user, puts |-> c.answer.puts,
                   drops |-> {}, rows |-> rows, gone |-> {}]
  <2>1. lists \in AccountLists
    BY <1>8, ImportWritesType
  <2>2. /\ open' = (IF Touched(t) = {} THEN open ELSE open \cup {t})
        /\ Answered(c, lists) /\ c.op = "import" /\ UNCHANGED alerts
    BY <1>8 DEF ImportWrites, Opened
  <2> HIDE DEF rows
  <2>3. t.rows = rows /\ t.gone = {} /\ lists.alerts \subseteq alerts \cup rows
    BY DEF Lists
  <2> HIDE DEF lists, t
  <2>4. Touched(t) = {} => rows = {}
    BY <2>3 DEF Touched, AdsOf
  <2>5. lists.alerts \subseteq Rows'
    BY <2>2, <2>3, <2>4 DEF Rows
  <2> QED
    BY <1>2, <2>1, <2>2, <2>5
<1>9. CASE LoadWho(c)
  <2>1. c.op = "load" /\ Session(c.device) \in Users
    BY <1>1, <1>9 DEF LoadWho, CallOK, TypeOK, Session
  <2>2. e = [c EXCEPT !.phase = "read", !.who = Session(c.device)]
    BY <1>9 DEF LoadWho
  <2>3. Became(e, c, c.device, Session(c.device), c.user, "read", c.answer, c.stale)
    BY <1>1, <2>1, <2>2, ReadCall
  <2> QED
    BY <2>1, <2>3 DEF Served, Became
<1>10. CASE LoadLists(c)
  <2> DEFINE now == Session(c.device)
             lists == Lists(now, saved[now], alerts)
  <2>1. /\ c.op = "load" /\ now \in Users /\ c.who \in Users
        /\ Answered(c, lists) /\ UNCHANGED alerts
    BY <1>1, <1>10 DEF LoadLists, CallOK, TypeOK, Session, server
  <2>2. lists \in AccountLists
    BY <2>1, ListsType DEF TypeOK
  <2>3. lists.alerts \subseteq Rows'
    BY <2>1 DEF Lists, Rows
  <2> HIDE DEF lists
  <2> QED
    BY <1>2, <2>1, <2>2, <2>3
<1> QED
  BY <1>3, <1>4, <1>5, <1>6, <1>7, <1>8, <1>9, <1>10 DEF Serve

LEMMA ReplayedNow ==
  ASSUME TypeOK, NEW c \in calls, Replay(c)
  PROVE  \A e \in calls' : e \in calls \/ Replayed(e, c)
<1> SUFFICES ASSUME NEW e \in calls', e \notin calls PROVE Replayed(e, c)
  OBVIOUS
<1> DEFINE now == Session(c.device)
<1>1. /\ CallOK(c) /\ c.phase = "sent" /\ c.op # "load" /\ c.device \in Tabs
      /\ c.user # NULL /\ now # NULL
      /\ e = [c EXCEPT !.phase = "again", !.user = now]
  BY DEF Replay, TypeOK, CallOK
<1>2. now \in Users
  BY <1>1, AccountAssumption DEF Session, TypeOK
<1> HIDE DEF now
<1>3. Became(e, c, c.device, c.who, now, "again", c.answer, c.stale)
  BY <1>1, <1>2, ReplayedCall
<1> QED
  BY <1>1, <1>3 DEF Became, Replayed, Pending

LEMMA Provenance ==
  ASSUME TypeOK, [Next]_vars, NEW e \in calls'
  PROVE  \/ \E c \in calls : Same(e, c) \/ Replayed(e, c) \/ Served(e, c)
         \/ \E d \in Tabs : Made(e, d)
<1>1. \A c \in calls : Same(c, c)
  BY DEF Same
<1>2. ASSUME NEW c \in calls, Settle(c) \/ Drop(c) PROVE e \in calls
  BY <1>2 DEF Settle, Drop
<1>3. ASSUME NEW c \in calls, Fail(c) PROVE e \in calls \/ e \in GivenUp(c)
  BY <1>3 DEF Fail
<1>4. ASSUME NEW t \in open, Commit(t) \/ Rollback(t) PROVE e \in calls
  BY <1>4 DEF Commit, Rollback
<1>5. CASE UNCHANGED vars
  BY <1>1, <1>5 DEF vars
<1> QED
  BY <1>1, <1>2, <1>3, <1>4, <1>5, MadeNow, ServedNow, ReplayedNow, GivenUpSame DEF Next, Finished

-----------------------------------------------------------------------------
\* Where rows come from, and what is on record of it.

\* A new row holds what its call carries, and was not known to it.
NewRow(a, c) ==
  /\ a.owner = c.user /\ c.user \in Users
  /\ \/ CreateAlert(c) /\ a.ad = c.arg
     \/ ImportWrites(c) /\ a.ad \in NewAds(c)
  /\ a = RowOf(c, a.ad)

LEMMA RowsAre ==
  ASSUME TypeOK, NEW c \in calls, CreateAlert(c) \/ ImportWrites(c)
  PROVE  \A a \in Rows' : a \in Rows \/ NewRow(a, c)
<1>1. CallOK(c)
  BY DEF TypeOK
<1>2. ASSUME NEW rows, NEW puts, NEW drops, NEW gone, UNCHANGED alerts,
             Opened(c, puts, drops, rows, gone), \A a \in rows : NewRow(a, c)
      PROVE  \A a \in Rows' : a \in Rows \/ NewRow(a, c)
  BY <1>2 DEF Opened, Rows
<1>3. CASE CreateAlert(c)
  <2> DEFINE row == RowOf(c, c.arg)
  <2>1. c.user \in Users /\ c.arg \in Ad
    BY <1>1, <1>3 DEF CreateAlert, CallOK
  <2>2. row.owner = c.user /\ row.ad = c.arg
    BY <1>1, <2>1, RowType
  <2>3. NewRow(row, c)
    BY <1>3, <2>1, <2>2 DEF NewRow
  <2>4. Opened(c, {}, {}, {row}, {}) /\ UNCHANGED alerts
    BY <1>3 DEF CreateAlert
  <2> HIDE DEF row
  <2> QED
    BY <1>2, <2>3, <2>4
<1>4. CASE ImportWrites(c)
  <2> DEFINE rows == {RowOf(c, ad) : ad \in NewAds(c)}
  <2>1. c.user \in Users /\ \A ad \in NewAds(c) : ad \in Ad
    BY <1>4, ImportWritesType DEF NewAds, Upload
  <2>2. \A ad \in NewAds(c) : RowOf(c, ad).owner = c.user /\ RowOf(c, ad).ad = ad
    BY <1>1, <2>1, RowType
  <2>3. \A a \in rows : NewRow(a, c)
    BY <1>4, <2>1, <2>2 DEF NewRow
  <2>4. Opened(c, c.answer.puts, {}, rows, {}) /\ UNCHANGED alerts
    BY <1>4 DEF ImportWrites
  <2> HIDE DEF rows
  <2> QED
    BY <1>2, <2>3, <2>4
<1> QED
  BY <1>3, <1>4

\* The rows a request holds open are its account's.
OwnedRows == \A t \in open : \A a \in t.rows : a.owner = t.user

\* Rows come from no other call, and only imports and such calls go on record.
LEMMA RowsNow ==
  ASSUME TypeOK, OwnedRows, [Next]_vars
  PROVE  /\ OwnedRows'
         /\ \/ Rows' \subseteq Rows /\ UNCHANGED overlap
            \/ Rows' = Rows /\ \E c \in calls : ImportReads(c)
            \/ \E c \in calls : CreateAlert(c) \/ ImportWrites(c)
<1>1. \A c \in calls : CallOK(c)
  BY DEF TypeOK
<1>2. ASSUME NEW c, NEW puts, NEW drops, NEW rows, NEW gone, Opened(c, puts, drops, rows, gone),
             \A a \in rows : a.owner = c.user
      PROVE  OwnedRows'
  BY <1>2 DEF Opened, OwnedRows
<1>3. ASSUME UNCHANGED server PROVE OwnedRows' /\ Rows' = Rows
  BY <1>3 DEF server, OwnedRows, Rows
<1>4. ASSUME NEW c, NEW puts, NEW drops, NEW gone, Opened(c, puts, drops, {}, gone), UNCHANGED alerts
      PROVE  OwnedRows' /\ Rows' = Rows
  <2>1. OwnedRows'
    BY <1>2, <1>4
  <2>2. Rows' = Rows
    BY <1>4 DEF Opened, Rows
  <2> QED
    BY <2>1, <2>2
<1>5. ASSUME NEW d \in Tabs, Browse(d) PROVE UNCHANGED server /\ UNCHANGED overlap
  BY <1>5 DEF Browse, ToggleSaved, ToggleCompare, AddAlert, RemoveAlert, SignIn, Logout,
              SessionEnds, Reload, history
<1>6. ASSUME NEW c \in calls, Serve(c), ~CreateAlert(c), ~ImportWrites(c)
      PROVE  OwnedRows' /\ Rows' = Rows /\ (ImportReads(c) \/ UNCHANGED overlap)
  <2>1. CASE SaveListing(c)
    BY <1>4, <2>1 DEF SaveListing, history
  <2>2. CASE UnsaveListing(c)
    BY <1>4, <2>2 DEF UnsaveListing, history
  <2>3. CASE DeleteAlert(c)
    BY <1>4, <2>3 DEF DeleteAlert, history
  <2>4. CASE ImportReads(c)
    BY <1>3, <2>4 DEF ImportReads
  <2>5. CASE LoadWho(c) \/ LoadLists(c)
    BY <1>3, <2>5 DEF LoadWho, LoadLists, history
  <2> QED
    BY <1>6, <2>1, <2>2, <2>3, <2>4, <2>5 DEF Serve
<1>7. ASSUME NEW c \in calls, CreateAlert(c) \/ ImportWrites(c) PROVE OwnedRows'
  <2>1. \A ad : RowOf(c, ad).owner = c.user
    BY DEF RowOf
  <2>2. CASE CreateAlert(c)
    <3>1. Opened(c, {}, {}, {RowOf(c, c.arg)}, {})
      BY <2>2 DEF CreateAlert
    <3> QED
      BY <1>2, <2>1, <3>1
  <2>3. CASE ImportWrites(c)
    <3> DEFINE rows == {RowOf(c, ad) : ad \in NewAds(c)}
    <3>1. Opened(c, c.answer.puts, {}, rows, {})
      BY <2>3 DEF ImportWrites
    <3>2. \A a \in rows : a.owner = c.user
      BY <2>1
    <3> HIDE DEF rows
    <3> QED
      BY <1>2, <3>1, <3>2
  <2> QED
    BY <1>7, <2>2, <2>3
<1>8. ASSUME NEW c \in calls, Replay(c) \/ Settle(c) \/ Fail(c) \/ Drop(c)
      PROVE  UNCHANGED server /\ UNCHANGED overlap
  BY <1>8 DEF Replay, Settle, Fail, Drop, history
<1>9. ASSUME NEW t \in open, Commit(t) \/ Rollback(t)
      PROVE  OwnedRows' /\ Rows' \subseteq Rows /\ UNCHANGED overlap
  BY <1>9 DEF Commit, Rollback, OwnedRows, Rows
<1>10. CASE UNCHANGED vars
  BY <1>3, <1>10 DEF vars, history
<1> QED
  BY <1>3, <1>5, <1>6, <1>7, <1>8, <1>9, <1>10 DEF Next, Finished

HistoryOK == overlap \in [Users -> BOOLEAN]

\* Once an account's calls have overlapped an import, that is on record for good.
LEMMA OverlapStays ==
  ASSUME TypeOK, HistoryOK, OwnedRows, [Next]_vars
  PROVE  HistoryOK' /\ \A u \in Users : overlap[u] => overlap'[u]
<1>1. ASSUME NEW c \in calls, ImportReads(c) \/ CreateAlert(c) \/ ImportWrites(c)
      PROVE  HistoryOK' /\ \A u \in Users : overlap[u] => overlap'[u]
  <2>1. CallOK(c)
    BY DEF TypeOK
  <2>2. PICK overlapped : Overlap(c.user, overlapped)
    BY <1>1 DEF ImportReads, CreateAlert, ImportWrites
  <2>3. overlap' = [overlap EXCEPT ![c.user] = @ \/ overlapped]
    BY <2>2 DEF Overlap
  <2>4. \A u \in Users : overlap[u] => overlap'[u]
    BY <2>3 DEF HistoryOK
  <2>5. (overlap[c.user] \/ overlapped) \in BOOLEAN
    OBVIOUS
  <2>6. HistoryOK'
    BY <2>3, <2>5 DEF HistoryOK
  <2> QED
    BY <2>4, <2>6
<1>2. UNCHANGED overlap => HistoryOK' /\ \A u \in Users : overlap[u] => overlap'[u]
  BY DEF HistoryOK
<1> QED
  BY <1>1, <1>2, RowsNow

-----------------------------------------------------------------------------
\* What has been made has been made before.

\* A name was given by operation ref[2] of page ref[1], which has begun.
Past(ref, n) == ref = NULL \/ ref[2] <= n[ref[1]]

DatedCopy(b, n) == \A a \in b.alerts : Past(a.ad.ref, n)

DatedCall(c, n) ==
  /\ c.op = "addAlert" => Past(c.arg.ref, n)
  /\ c.op = "removeAlert" => Past(c.arg.ad.ref, n)
  /\ c.op = "import" => \A ad \in c.arg.ads : Past(ad.ref, n)
  /\ Adopting(c) /\ c.phase = "ok" => \A a \in c.answer.alerts : Past(a.ad.ref, n)

\* Nothing stored, kept or travelling names an alert still to be made.
Dated ==
  /\ \A a \in Rows : Past(a.ad.ref, ops)
  /\ \A d \in Tabs : DatedCopy(blob[d], ops)
  /\ \A w \in Browsers : DatedCopy(stored[w], ops)
  /\ \A c \in calls : DatedCall(c, ops)

LEMMA DatedInit == Init => Dated
<1> SUFFICES ASSUME Init PROVE Dated
  OBVIOUS
<1>1. (\A w \in Browsers : stored[w] \in Leftovers) /\ (\A d \in Tabs : blob[d] \in Leftovers)
  BY AccountAssumption DEF Init
<1>2. \A b \in Leftovers : DatedCopy(b, ops)
  BY LeftoversAssumption DEF DatedCopy, Past
<1> QED
  BY <1>1, <1>2 DEF Init, Dated, Rows

LEMMA RowsType ==
  ASSUME TypeOK PROVE Rows \subseteq StoredAlert
BY DEF TypeOK, Rows, Transaction

\* Time only goes on.
LEMMA PastStays ==
  ASSUME TypeOK, [Next]_vars
  PROVE  \A ref \in Ref \cup {NULL} : Past(ref, ops) => Past(ref, ops')
<1>1. ops' = ops \/ \E d \in Tabs : ops' = [ops EXCEPT ![d] = @ + 1]
  <2>1. ASSUME NEW d \in Tabs, Browse(d) PROVE ops' = [ops EXCEPT ![d] = @ + 1]
    BY <2>1 DEF Browse, ToggleSaved, ToggleCompare, AddAlert, RemoveAlert, SignIn, Logout,
                SessionEnds, Reload, Begin
  <2>2. ASSUME NEW c \in calls, Serve(c) PROVE ops' = ops
    BY <2>2 DEF Serve, SaveListing, UnsaveListing, CreateAlert, DeleteAlert, ImportReads,
                ImportWrites, LoadWho, LoadLists, page
  <2>3. ASSUME NEW c \in calls, Replay(c) \/ Settle(c) \/ Fail(c) \/ Drop(c) PROVE ops' = ops
    BY <2>3 DEF Replay, Settle, Fail, Drop, page
  <2>4. ASSUME NEW t \in open, Commit(t) \/ Rollback(t) PROVE ops' = ops
    BY <2>4 DEF Commit, Rollback, page
  <2>5. CASE UNCHANGED vars
    BY <2>5 DEF vars, page
  <2> QED
    BY <2>1, <2>2, <2>3, <2>4, <2>5 DEF Next, Finished
<1>2. \A d \in Tabs : ops[d] \in Nat /\ ops'[d] \in Nat /\ ops[d] <= ops'[d]
  BY <1>1 DEF TypeOK
<1> SUFFICES ASSUME NEW ref \in Ref, ref[2] <= ops[ref[1]] PROVE ref[2] <= ops'[ref[1]]
  BY DEF Past
<1>3. ref[1] \in Tabs /\ ref[2] \in Nat
  BY AccountAssumption DEF Ref
<1> QED
  BY <1>2, <1>3

\* What there is of an alert or a call stays dated.
LEMMA DatedStays ==
  ASSUME TypeOK, [Next]_vars
  PROVE  /\ \A ad \in Ad : Past(ad.ref, ops) => Past(ad.ref, ops')
         /\ \A b \in Copy : DatedCopy(b, ops) => DatedCopy(b, ops')
         /\ \A c \in calls : DatedCall(c, ops) => DatedCall(c, ops')
<1>1. \A ad \in Ad : Past(ad.ref, ops) => Past(ad.ref, ops')
  <2>1. \A ad \in Ad : ad.ref \in Ref \cup {NULL}
    BY DEF Ad
  <2> QED
    BY <2>1, PastStays
<1>2. \A b \in Copy : \A a \in b.alerts : a.ad \in Ad
  BY DEF Copy, LocalAlert
<1>3. \A lists \in AccountLists : \A a \in lists.alerts : a.ad \in Ad
  BY DEF AccountLists, StoredAlert
<1>4. ASSUME NEW c \in calls, DatedCall(c, ops) PROVE DatedCall(c, ops')
  <2>1. CallOK(c)
    BY DEF TypeOK
  <2>2. /\ c.op = "addAlert" => c.arg \in Ad
        /\ c.op = "removeAlert" => c.arg.ad \in Ad
        /\ c.op = "import" => \A ad \in c.arg.ads : ad \in Ad
        /\ Adopting(c) /\ c.phase = "ok" => c.answer \in AccountLists
    BY <2>1 DEF CallOK, Upload, LocalAlert, Adopting
  <2> QED
    BY <1>1, <1>3, <1>4, <2>2 DEF DatedCall
<1> QED
  BY <1>1, <1>2, <1>4 DEF DatedCopy

\* A page's copy, and what is stored of it, by what the step does to them.
CopiesFrom(d, b) ==
  /\ \A o \in Tabs : blob'[o] = blob[o] \/ blob'[o] = b
  /\ \A w \in Browsers : stored'[w] = stored[w] \/ stored'[w] = Written(b)

LEMMA DatedCopies ==
  ASSUME TypeOK, Dated, [Next]_vars, NEW d \in Tabs, NEW b \in Copy, DatedCopy(b, ops'),
         CopiesFrom(d, b)
  PROVE  (\A o \in Tabs : DatedCopy(blob'[o], ops')) /\ (\A w \in Browsers : DatedCopy(stored'[w], ops'))
<1>1. (\A o \in Tabs : blob[o] \in Copy) /\ (\A w \in Browsers : stored[w] \in Copy)
  BY DEF TypeOK
<1>2. (\A o \in Tabs : DatedCopy(blob[o], ops')) /\ (\A w \in Browsers : DatedCopy(stored[w], ops'))
  BY <1>1, DatedStays DEF Dated
<1>3. DatedCopy(Written(b), ops')
  BY WrittenCopy DEF DatedCopy
<1> QED
  BY <1>2, <1>3 DEF CopiesFrom

LEMMA KeptCopies ==
  ASSUME TypeOK, Dated, [Next]_vars, UNCHANGED <<blob, stored>>
  PROVE  (\A o \in Tabs : DatedCopy(blob'[o], ops')) /\ (\A w \in Browsers : DatedCopy(stored'[w], ops'))
<1>1. (\A o \in Tabs : blob[o] \in Copy) /\ (\A w \in Browsers : stored[w] \in Copy)
  BY DEF TypeOK
<1> QED
  BY <1>1, DatedStays DEF Dated

LEMMA BrowseCopies ==
  ASSUME TypeOK, Dated, [Next]_vars, NEW d \in Tabs, Browse(d)
  PROVE  (\A o \in Tabs : DatedCopy(blob'[o], ops')) /\ (\A w \in Browsers : DatedCopy(stored'[w], ops'))
<1> DEFINE Goal == /\ \A o \in Tabs : DatedCopy(blob'[o], ops')
                   /\ \A w \in Browsers : DatedCopy(stored'[w], ops')
<1>1. /\ blob[d] \in Copy /\ stored[Home[d]] \in Copy /\ ops[d] \in Nat
      /\ DatedCopy(blob[d], ops) /\ DatedCopy(stored[Home[d]], ops)
  BY AccountAssumption DEF TypeOK, Dated
<1>2. DatedCopy(blob[d], ops') /\ DatedCopy(stored[Home[d]], ops')
  BY <1>1, DatedStays
<1>3. ASSUME NEW b \in Copy, Persist(d, b), DatedCopy(b, ops') PROVE Goal
  <2>1. CopiesFrom(d, b)
    BY <1>3, Persisted DEF CopiesFrom
  <2> QED
    BY <1>3, <2>1, DatedCopies
<1>4. UNCHANGED <<blob, stored>> => Goal
  BY KeptCopies
<1> HIDE DEF Goal
<1>5. ASSUME NEW l \in Listings, ToggleSaved(d, l) PROVE Goal
  <2> DEFINE b == [blob[d] EXCEPT !.saved = Flip(blob[d].saved, l)]
  <2>1. Flip(blob[d].saved, l) \in SUBSET Listings
    BY <1>1 DEF Flip, Copy
  <2>2. b \in Copy /\ b.alerts = blob[d].alerts
    BY <1>1, <2>1, CopyType
  <2>3. Persist(d, b)
    BY <1>5 DEF ToggleSaved
  <2> HIDE DEF b
  <2> QED
    BY <1>2, <1>3, <2>2, <2>3 DEF DatedCopy
<1>6. ASSUME AddAlert(d) PROVE Goal
  <2> DEFINE ref == <<d, ops[d] + 1>>
             ad == [by |-> me[d], ref |-> ref]
             new == [ref |-> ref, id |-> NULL, ad |-> ad]
             A == blob[d].alerts \cup {new}
             b == [blob[d] EXCEPT !.alerts = A]
  <2>1. me[d] \in Users /\ ref \in Ref
    <3>1. me[d] # NULL /\ ops[d] < MaxOps[d] /\ MaxOps[d] \in Nat
      BY <1>6, AccountAssumption DEF AddAlert, Begin
    <3> QED
      BY <1>1, <3>1 DEF TypeOK, Ref
  <2>2. ad \in Ad /\ new \in LocalAlert /\ new.ad = ad /\ ad.ref = ref
    BY <2>1 DEF Ad, LocalAlert
  <2>3. Past(ref, ops')
    BY <1>1, <1>6 DEF AddAlert, Begin, Past, TypeOK
  <2>4. Persist(d, b)
    BY <1>6 DEF AddAlert
  <2> HIDE DEF ad, new, ref
  <2>5. A \in SUBSET LocalAlert /\ \A a \in A : Past(a.ad.ref, ops')
    BY <1>1, <1>2, <2>2, <2>3 DEF Copy, DatedCopy
  <2> HIDE DEF A
  <2>6. b \in Copy /\ b.alerts = A
    BY <1>1, <2>5, CopyType DEF Copy
  <2> HIDE DEF b
  <2>7. DatedCopy(b, ops')
    BY <2>5, <2>6 DEF DatedCopy
  <2> QED
    BY <1>3, <2>4, <2>6, <2>7
<1>7. ASSUME NEW a \in blob[d].alerts, RemoveAlert(d, a) PROVE Goal
  <2> DEFINE A == {x \in blob[d].alerts : x.id # a.id}
             b == [blob[d] EXCEPT !.alerts = A]
  <2>1. A \in SUBSET LocalAlert /\ A \subseteq blob[d].alerts
    BY <1>1 DEF Copy
  <2>2. Persist(d, b)
    BY <1>7 DEF RemoveAlert
  <2> HIDE DEF A
  <2>3. b \in Copy /\ b.alerts = A
    BY <1>1, <2>1, CopyType DEF Copy
  <2> HIDE DEF b
  <2>4. DatedCopy(b, ops')
    BY <1>2, <2>1, <2>3 DEF DatedCopy
  <2> QED
    BY <1>3, <2>2, <2>3, <2>4
<1>8. ASSUME ToggleCompare(d) PROVE Goal
  BY <1>1, <1>2, <1>3, <1>8 DEF ToggleCompare
<1>9. ASSUME NEW u \in Users, SignIn(d, u) PROVE Goal
  BY <1>4, <1>9 DEF SignIn
<1>10. ASSUME SessionEnds(d) PROVE Goal
  BY <1>4, <1>10 DEF SessionEnds
<1>11. ASSUME Logout(d) PROVE Goal
  <2>1. Empty \in Copy /\ DatedCopy(Empty, ops') /\ Persist(d, Empty)
    BY <1>11 DEF Logout, Empty, Copy, DatedCopy
  <2> QED
    BY <1>3, <2>1
<1>12. ASSUME Reload(d) PROVE Goal
  BY <1>1, <1>2, <1>3, <1>12 DEF Reload
<1>13. Goal
  BY <1>5, <1>6, <1>7, <1>8, <1>9, <1>10, <1>11, <1>12 DEF Browse
<1> QED
  BY <1>13 DEF Goal

LEMMA AnswerCopies ==
  ASSUME TypeOK, Dated, [Next]_vars, NEW c \in calls, Settle(c) \/ Fail(c)
  PROVE  (\A o \in Tabs : DatedCopy(blob'[o], ops')) /\ (\A w \in Browsers : DatedCopy(stored'[w], ops'))
<1> DEFINE d == c.device
<1>1. DatedCall(c, ops')
  BY DatedStays DEF Dated
<1>2. CallOK(c) /\ c.device \in Tabs /\ blob[d] \in Copy
  BY SettleWrites, FailWrites
<1>3. DatedCopy(blob[d], ops')
  BY <1>2, DatedStays DEF Dated
<1>4. ASSUME Settle(c) PROVE DatedCopy(blob'[d], ops') /\ blob'[d] \in Copy /\ CopiesFrom(d, blob'[d])
  <2>1. /\ c.phase = "ok" /\ c.who \in Users
        /\ blob'[d] = Settled(blob[d], c) /\ blob'[d] \in Copy
        /\ \A o \in Tabs \ {d} : blob'[o] = blob[o]
        /\ \A w \in Browsers : stored'[w] = stored[w] \/ stored'[w] = Written(blob'[d])
    BY <1>4, SettleWrites
  <2>2. CopiesFrom(d, blob'[d])
    BY <2>1 DEF CopiesFrom
  <2>3. CASE Adopting(c)
    <3>1. blob'[d] = Adopted(c.who, c.answer)
      BY <1>2, <2>1, <2>3, SettledIs
    <3>2. \A a \in c.answer.alerts : Past(a.ad.ref, ops')
      BY <1>1, <2>1, <2>3 DEF DatedCall
    <3>3. DatedCopy(Adopted(c.who, c.answer), ops')
      BY <3>2 DEF Adopted, DatedCopy
    <3> QED
      BY <2>1, <2>2, <3>1, <3>3
  <2>4. CASE c.op = "addAlert"
    <3>1. \A a \in blob[d].alerts : Attached(a, c).ad = a.ad
      BY <1>2, <2>1, <2>4, AttachedIs DEF Copy
    <3>2. blob'[d].alerts = {Attached(a, c) : a \in blob[d].alerts}
      BY <1>2, <2>1, <2>4, SettledIs
    <3> QED
      BY <1>3, <2>1, <2>2, <3>1, <3>2 DEF DatedCopy
  <2>5. CASE ~Adopting(c) /\ c.op # "addAlert"
    BY <1>2, <1>3, <2>1, <2>2, <2>5, SettledIs
  <2> QED
    BY <2>3, <2>4, <2>5
<1>5. ASSUME Fail(c) PROVE DatedCopy(blob'[d], ops') /\ blob'[d] \in Copy /\ CopiesFrom(d, blob'[d])
  <2>1. /\ blob'[d] = Reverted(blob[d], c) /\ blob'[d] \in Copy
        /\ \A o \in Tabs \ {d} : blob'[o] = blob[o]
        /\ \A w \in Browsers : stored'[w] = stored[w] \/ stored'[w] = Written(blob'[d])
    BY <1>2, <1>5, FailWrites, RevertedIs
  <2>2. CopiesFrom(d, blob'[d])
    BY <2>1 DEF CopiesFrom
  <2>3. blob'[d].alerts \subseteq blob[d].alerts \/ (c.op = "removeAlert" /\ blob'[d].alerts = blob[d].alerts \cup {c.arg})
    BY <1>2, <2>1, RevertedIs DEF CallOK, Operations, Adopting
  <2> QED
    BY <1>1, <1>3, <2>1, <2>2, <2>3 DEF DatedCopy, DatedCall
<1> QED
  BY <1>2, <1>4, <1>5, DatedCopies

LEMMA DatedStep ==
  ASSUME TypeOK, OwnedRows, Dated, [Next]_vars
  PROVE  Dated'
<1>1. \A a \in Rows : a.ad \in Ad
  BY RowsType DEF StoredAlert
<1>2. \A c \in calls : DatedCall(c, ops')
  BY DatedStays DEF Dated
<1>3. ASSUME NEW a \in Rows' PROVE Past(a.ad.ref, ops')
  <2>1. CASE a \in Rows
    BY <1>1, <2>1, DatedStays DEF Dated
  <2>2. CASE a \notin Rows
    <3>1. PICK c \in calls : CreateAlert(c) \/ ImportWrites(c)
      BY <2>2, RowsNow
    <3>2. NewRow(a, c)
      BY <2>2, <3>1, RowsAre
    <3> QED
      BY <1>2, <3>2 DEF NewRow, NewAds, DatedCall, CreateAlert, ImportWrites
  <2> QED
    BY <2>1, <2>2
<1>4. ASSUME NEW e \in calls' PROVE DatedCall(e, ops')
  <2>1. ASSUME NEW c \in calls, Same(e, c) \/ Replayed(e, c) PROVE DatedCall(e, ops')
    BY <1>2, <2>1 DEF Same, Replayed, DatedCall, Adopting
  <2>2. ASSUME NEW d \in Tabs, Made(e, d) PROVE DatedCall(e, ops')
    <3>1. DatedCopy(blob[d], ops')
      <4>1. blob[d] \in Copy /\ DatedCopy(blob[d], ops)
        BY DEF TypeOK, Dated
      <4> QED
        BY <4>1, DatedStays
    <3>2. ASSUME e.op = "addAlert" PROVE Past(e.arg.ref, ops')
      <4>1. e.arg.ref = <<d, ops[d] + 1>> /\ ops'[d] = ops[d] + 1 /\ ops[d] \in Nat
        BY <2>2, <3>2 DEF Made, TypeOK
      <4> QED
        BY <4>1 DEF Past
    <3>3. e.op = "removeAlert" => Past(e.arg.ad.ref, ops')
      BY <2>2, <3>1 DEF Made, DatedCopy
    <3>4. e.op = "import" => \A ad \in e.arg.ads : Past(ad.ref, ops')
      <4> SUFFICES ASSUME e.op = "import", NEW ad \in e.arg.ads PROVE Past(ad.ref, ops')
        OBVIOUS
      <4>1. PICK u \in Users : e.arg = Importable(blob[d], u)
        BY <2>2 DEF Made
      <4>2. PICK a \in blob[d].alerts : ad = a.ad
        BY <4>1 DEF Importable, AdsOf
      <4> QED
        BY <3>1, <4>2 DEF DatedCopy
    <3> QED
      BY <2>2, <3>2, <3>3, <3>4 DEF DatedCall, Made
  <2>3. ASSUME NEW c \in calls, Served(e, c) PROVE DatedCall(e, ops')
    BY <1>2, <1>3, <2>3 DEF Served, DatedCall
  <2> QED
    BY <2>1, <2>2, <2>3, Provenance
<1>5. (\A o \in Tabs : DatedCopy(blob'[o], ops')) /\ (\A w \in Browsers : DatedCopy(stored'[w], ops'))
  <2>1. ASSUME NEW c \in calls, Replay(c) \/ Serve(c) \/ Drop(c) PROVE UNCHANGED <<blob, stored>>
    BY <2>1 DEF Replay, Serve, SaveListing, UnsaveListing, CreateAlert, DeleteAlert, ImportReads,
                ImportWrites, LoadWho, LoadLists, Drop, page
  <2>2. ASSUME NEW t \in open, Commit(t) \/ Rollback(t) PROVE UNCHANGED <<blob, stored>>
    BY <2>2 DEF Commit, Rollback, page
  <2>3. UNCHANGED vars => UNCHANGED <<blob, stored>>
    BY DEF vars, page
  <2>4. \/ \E d \in Tabs : Browse(d)
        \/ \E c \in calls : Replay(c) \/ Serve(c) \/ Drop(c) \/ Settle(c) \/ Fail(c)
        \/ \E t \in open : Commit(t) \/ Rollback(t)
        \/ UNCHANGED vars
    BY DEF Next, Finished
  <2> QED
    BY <2>1, <2>2, <2>3, <2>4, KeptCopies, BrowseCopies, AnswerCopies, Zenon
<1> QED
  BY <1>3, <1>4, <1>5 DEF Dated

-----------------------------------------------------------------------------
\* What an import, or a call that makes an alert, does not know of when it stores it.

Foreseen ==
  \A c \in calls : \A a \in Rows :
    /\ c.op = "addAlert" /\ Pending(c) /\ c.user # NULL /\ a.ad = c.arg => overlap[a.owner]
    /\ c.op = "import" /\ c.phase = "read" /\ a.owner = c.user /\ a.ad \in NewAds(c) =>
         overlap[a.owner]

\* Of the rows there are, or may be, none is like another, unless that is on record.
RowsOnce ==
  \A a, b \in Rows : a.owner = b.owner /\ a.ad = b.ad /\ a # b => overlap[a.owner]

OnceInv == TypeOK /\ HistoryOK /\ OwnedRows /\ Dated /\ Foreseen /\ RowsOnce

\* The two calls that store rows: who else may store is on record.
LEMMA StoringSeen ==
  ASSUME TypeOK, HistoryOK, NEW c \in calls, CreateAlert(c) \/ ImportWrites(c),
         NEW a, NewRow(a, c)
  PROVE  /\ \A e \in calls' : e.phase # "ok" => e \in calls \ {c}
         /\ \A e \in calls \ {c} :
              /\ e.op = "addAlert" /\ Pending(e) /\ e.user # NULL /\ a.ad = e.arg => overlap'[a.owner]
              /\ e.op = "import" /\ e.phase = "read" /\ a.owner = e.user /\ a.ad \in e.arg.ads =>
                   overlap'[a.owner]
<1>1. CallOK(c)
  BY DEF TypeOK
<1>2. PICK ads : /\ Overlap(c.user, \E o \in calls \ {c} : Storing(o, c.user, ads))
                 /\ a.ad \in ads
  <2>1. CASE CreateAlert(c)
    BY <1>1, <2>1 DEF CreateAlert, NewRow, ImportWrites
  <2>2. CASE ImportWrites(c)
    BY <1>1, <2>2 DEF ImportWrites, NewRow, CreateAlert
  <2> QED
    BY <2>1, <2>2
<1>3. \A e \in calls' : e.phase # "ok" => e \in calls \ {c}
  <2>1. PICK answer : Answered(c, answer)
    BY DEF CreateAlert, ImportWrites
  <2>2. c.device # NULL => [c EXCEPT !.phase = "ok", !.answer = answer].phase = "ok"
    BY <1>1 DEF CallOK
  <2> QED
    BY <2>1, <2>2 DEF Answered
<1>4. ASSUME NEW e \in calls \ {c}, Storing(e, c.user, ads) PROVE overlap'[a.owner]
  <2>1. c.user \in Users /\ a.owner = c.user
    BY DEF NewRow
  <2> QED
    BY <1>2, <1>4, <2>1 DEF HistoryOK, Overlap
<1>5. a.owner = c.user
  BY DEF NewRow
<1>6. ASSUME NEW e \in calls \ {c}
      PROVE  /\ e.op = "addAlert" /\ Pending(e) /\ e.user # NULL /\ a.ad = e.arg => overlap'[a.owner]
             /\ e.op = "import" /\ e.phase = "read" /\ a.owner = e.user /\ a.ad \in e.arg.ads =>
                  overlap'[a.owner]
  BY <1>2, <1>4, <1>5 DEF Storing
<1> QED
  BY <1>3, <1>6

LEMMA ForeseenStep ==
  ASSUME OnceInv, [Next]_vars
  PROVE  Foreseen'
<1> USE DEF OnceInv
<1> SUFFICES ASSUME NEW e \in calls', NEW a \in Rows',
                    \/ e.op = "addAlert" /\ Pending(e) /\ e.user # NULL /\ a.ad = e.arg
                    \/ /\ e.op = "import" /\ e.phase = "read" /\ a.owner = e.user
                       /\ a.ad \in NewAds(e)
             PROVE  overlap'[a.owner]
  BY DEF Foreseen, Pending, NewAds
<1>1. a \in StoredAlert /\ a.owner \in Users
  <2>1. alerts' \subseteq StoredAlert /\ open' \subseteq Transaction
    BY TypeStep DEF TypeOK
  <2>2. a \in StoredAlert
    BY <2>1 DEF Rows, Transaction
  <2> QED
    BY <2>2 DEF StoredAlert
<1>2. \A u \in Users : overlap[u] => overlap'[u]
  BY OverlapStays
<1>3. CASE a \notin Rows
  <2>1. PICK c \in calls : CreateAlert(c) \/ ImportWrites(c)
    BY <1>3, RowsNow
  <2>2. NewRow(a, c)
    BY <1>3, <2>1, RowsAre
  <2>3. e \in calls \ {c}
    BY <2>1, <2>2, StoringSeen DEF Pending
  <2> QED
    BY <2>1, <2>2, <2>3, StoringSeen DEF NewAds
<1>4. CASE a \in Rows
  <2>1. ASSUME NEW c \in calls, Same(e, c) PROVE overlap'[a.owner]
    BY <1>1, <1>2, <1>4, <2>1 DEF Same, Foreseen, Pending, NewAds
  <2>2. ASSUME NEW c \in calls, Replayed(e, c) PROVE overlap'[a.owner]
    BY <1>1, <1>2, <1>4, <2>2 DEF Replayed, Foreseen, Pending
  <2>3. ASSUME NEW d \in Tabs, Made(e, d) PROVE overlap'[a.owner]
    <3>1. e.op = "addAlert" /\ a.ad.ref = <<d, ops[d] + 1>>
      BY <2>3 DEF Made
    <3>2. Past(a.ad.ref, ops)
      BY <1>4 DEF Dated
    <3>3. ops[d] \in Nat /\ <<d, ops[d] + 1>> # NULL
      <4>1. ops[d] \in Nat /\ <<d, ops[d] + 1>> \in Tabs \X Nat
        BY DEF TypeOK
      <4> QED
        BY <4>1, AccountAssumption
    <3> QED
      BY <3>1, <3>2, <3>3 DEF Past
  <2>4. ASSUME NEW c \in calls, Served(e, c) PROVE overlap'[a.owner]
    <3>1. /\ e.op = "import" /\ e.phase = "read" /\ ImportReads(c) /\ e.user = c.user
          /\ a.owner = c.user /\ a.ad \in c.arg.ads /\ a.ad \notin AdsOf(AlertsOf(c.user))
      BY <2>4 DEF Served, Pending, NewAds
    <3>2. a \notin alerts
      BY <3>1 DEF AdsOf, AlertsOf
    <3>3. PICK t \in open : a \in t.rows
      BY <1>4, <3>2 DEF Rows
    <3>4. t \in OpenOf(c.user) /\ a.ad \in AdsOf(t.rows)
      BY <3>1, <3>3 DEF OwnedRows, OpenOf, AdsOf
    <3>5. Overlap(c.user, TRUE)
      <4>1. \E x \in OpenOf(c.user) : AdsOf(x.rows) \cap c.arg.ads # {}
        BY <3>1, <3>4
      <4> QED
        BY <3>1, <4>1 DEF ImportReads
    <3> QED
      BY <1>1, <3>1, <3>5 DEF Overlap, HistoryOK
  <2> QED
    BY <2>1, <2>2, <2>3, <2>4, Provenance
<1> QED
  BY <1>3, <1>4

LEMMA OnceStep ==
  ASSUME OnceInv, [Next]_vars
  PROVE  RowsOnce'
<1> USE DEF OnceInv
<1> SUFFICES ASSUME NEW a \in Rows', NEW b \in Rows', a.owner = b.owner, a.ad = b.ad, a # b
             PROVE  overlap'[a.owner]
  BY DEF RowsOnce
<1>1. \A u \in Users : overlap[u] => overlap'[u]
  BY OverlapStays
<1>2. ASSUME NEW x \in Rows', NEW y \in Rows, x.owner = y.owner, x.ad = y.ad,
             x.owner = a.owner, x \notin Rows
      PROVE  overlap'[a.owner]
  <2>1. PICK c \in calls : CreateAlert(c) \/ ImportWrites(c)
    BY <1>2, RowsNow
  <2>2. NewRow(x, c)
    BY <1>2, <2>1, RowsAre
  <2>3. overlap[y.owner]
    BY <1>2, <2>2 DEF NewRow, Foreseen, CreateAlert, ImportWrites
  <2> QED
    BY <1>1, <1>2, <2>2, <2>3 DEF NewRow
<1>3. CASE a \in Rows /\ b \in Rows
  <2>1. a.owner \in Users /\ overlap[a.owner]
    BY <1>3, RowsType DEF RowsOnce, StoredAlert
  <2> QED
    BY <1>1, <2>1
<1>4. CASE a \notin Rows /\ b \notin Rows
  <2>1. PICK c \in calls : CreateAlert(c) \/ ImportWrites(c)
    BY <1>4, RowsNow
  <2>2. NewRow(a, c) /\ NewRow(b, c)
    BY <1>4, <2>1, RowsAre
  <2> QED
    BY <2>2 DEF NewRow
<1> QED
  BY <1>2, <1>3, <1>4

\* "Idempotent" (import_state), for any number of browsers, pages, imports, reloads, lost
\* answers and late commits: an alert is stored twice in an account only if it was not yet
\* stored for good when one of the calls that stored it looked.
THEOREM ImportsOnce == Spec => []ImportedOnce
<1>1. Init => OnceInv
  BY TypeInit, DatedInit DEF Init, OnceInv, HistoryOK, OwnedRows, Foreseen, RowsOnce, Rows
<1>2. OnceInv /\ [Next]_vars => OnceInv'
  BY TypeStep, OverlapStays, RowsNow, DatedStep, ForeseenStep, OnceStep DEF OnceInv
<1>3. OnceInv => ImportedOnce
  BY DEF OnceInv, RowsOnce, ImportedOnce, Rows
<1> QED
  BY <1>1, <1>2, <1>3, PTL DEF Spec
=============================================================================
