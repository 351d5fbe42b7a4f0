------------------------ MODULE AssistantPanelProofs ------------------------
(***************************************************************************)
(* The panel and its turn.  What a call asks stays with it, whatever the     *)
(* client makes of it; so a panel that is busy has one turn, whose reply is  *)
(* where `shown` says it is, and an old chat that is being opened waits only *)
(* as long as nothing newer was begun.                                      *)
(***************************************************************************)
EXTENDS AssistantPanel, SequenceTheorems, TLAPS

Operations == {"ask", "list", "open", "delete"}
Messages == [turn : Nat, role : {"user", "assistant"}, status : {"done", "streaming", "failed"}]

\* A call has been handled only when it is settled; a visitor's turn names no chat.
CallOK(r) ==
  /\ r = [n |-> r.n, op |-> r.op, body |-> r.body, phase |-> r.phase, valid |-> r.valid,
          handled |-> r.handled, answer |-> r.answer]
  /\ r.n \in Nat \ {0} /\ r.op \in Operations /\ r.handled \in {0, 1}
  /\ r.phase \in {"sent", "waiting", "again", "ok", "failed"}
  /\ ~Settled(r) => r.handled = 0 /\ r.answer = {}
  /\ r.body.signedIn \in BOOLEAN /\ r.body.at \in Nat
  /\ r.op = "ask" /\ ~r.body.signedIn => r.answer = {}

CallsOK ==
  /\ \A r \in requests : CallOK(r)
  /\ \A r, s \in requests : r.n = s.n => r = s

PanelOK ==
  /\ ops \in 0..MaxOps /\ navigation \in Nat /\ current \in 1..ops \cup {NULL}
  /\ busy \in BOOLEAN /\ signedIn \in BOOLEAN /\ lateList \in BOOLEAN
  /\ aborted \subseteq 1..ops
  /\ messages \in Seq(Messages) /\ shown \in [1..MaxOps -> Nat]
  /\ \A r \in requests : r.n <= ops

\* A chat is still to be opened only if nothing was begun since, and its session goes on.
OpensLatest ==
  \A r \in requests : r.op = "open" =>
    /\ r.body.at <= navigation
    /\ r.body.at = navigation => ~busy /\ signedIn

\* The reply of the turn is where it was put, under what it was asked with.
ReplyInPlace ==
  \A r \in Turns :
    /\ shown[r.n] \in DOMAIN messages
    /\ messages[shown[r.n]] = Message(r.n, "assistant", "streaming")
    /\ r.body.context \subseteq {m \in ToSet(messages) : m.status = "done"}
    /\ r.body.signedIn => signedIn

\* Every reply stands under its question, and streams only as long as its turn lasts.
RepliesAnswer ==
  \A k \in DOMAIN messages :
    LET m == messages[k]
    IN m.turn # 0 =>
         /\ m.turn \in 1..ops /\ m.turn \notin aborted
         /\ m.role = "assistant" => k # 1 /\ messages[k - 1] = Message(m.turn, "user", "done")
         /\ m.status = "streaming" => k = shown[m.turn] /\ \E r \in Turns : r.n = m.turn

SignedOut == ~signedIn => active = NULL /\ (lateList \/ chats = {})

PanelInv ==
  /\ CallsOK /\ PanelOK /\ BusyWithTheTurn /\ OpensLatest
  /\ ReplyInPlace /\ RepliesAnswer /\ SignedOut

-----------------------------------------------------------------------------
\* What the client makes of the calls.

\* The same call, further on its way.
Kept(e, r) == e.n = r.n /\ e.op = r.op /\ e.body = r.body

\* No call is lost, and none is added.
Carried ==
  /\ CallsOK'
  /\ \A e \in requests' : \E r \in requests : Kept(e, r)
  /\ \A r \in requests : \E e \in requests' : Kept(e, r)

\* A call that is only told apart by its phase, its token, or what came back.
On(r, phase, valid, handled, answer) ==
  [r EXCEPT !.phase = phase, !.valid = valid, !.handled = handled, !.answer = answer]

LEMMA Onward ==
  ASSUME NEW r, CallOK(r), NEW phase, NEW valid, NEW handled \in {0, 1}, NEW answer,
         phase \in {"waiting", "again", "ok", "failed"},
         phase \in {"waiting", "again"} => handled = 0 /\ answer = {},
         r.op = "ask" /\ ~r.body.signedIn => answer = {}
  PROVE  CallOK(On(r, phase, valid, handled, answer)) /\ Kept(On(r, phase, valid, handled, answer), r)
<1>1. r = [n |-> r.n, op |-> r.op, body |-> r.body, phase |-> r.phase, valid |-> r.valid,
           handled |-> r.handled, answer |-> r.answer]
  BY DEF CallOK
<1>2. PICK e : e = On(r, phase, valid, handled, answer)
  OBVIOUS
<1>3. e = [n |-> r.n, op |-> r.op, body |-> r.body, phase |-> phase, valid |-> valid,
           handled |-> handled, answer |-> answer]
  BY <1>1, <1>2 DEF On
<1> QED
  BY <1>2, <1>3 DEF CallOK, Kept, Settled

LEMMA ReplacedOne ==
  ASSUME CallsOK, NEW r \in requests, NEW e, CallOK(e), Kept(e, r), Replace(r, e)
  PROVE  Carried
<1>1. \A s \in requests : Kept(s, s)
  BY DEF Kept
<1>2. CallsOK'
  BY DEF CallsOK, Replace, Kept
<1> QED
  BY <1>1, <1>2 DEF Carried, Replace

\* A handler answers a call that no handler has answered.
LEMMA HandleCarries ==
  ASSUME CallsOK, NEW r \in requests, NEW answer, Handle(r, answer),
         r.op = "ask" /\ ~r.body.signedIn => answer = {}
  PROVE  Carried
<1>1. CallOK(r)
  BY DEF CallsOK
<1>2. PICK arrives \in BOOLEAN :
        Replace(r, [r EXCEPT !.phase = IF arrives THEN "ok" ELSE "failed",
                             !.handled = @ + 1, !.answer = IF arrives THEN answer ELSE {}])
  BY DEF Handle
<1> DEFINE phase == IF arrives THEN "ok" ELSE "failed"
           reply == IF arrives THEN answer ELSE {}
           e == On(r, phase, r.valid, 1, reply)
<1>3. r.handled + 1 = 1
  BY <1>1 DEF CallOK, Handle, OnTheWire, Settled
<1>4. e = [r EXCEPT !.phase = phase, !.handled = r.handled + 1, !.answer = reply]
  BY <1>1, <1>3 DEF CallOK, On
<1>5. CallOK(e) /\ Kept(e, r)
  <2>1. phase \in {"ok", "failed"} /\ (r.op = "ask" /\ ~r.body.signedIn => reply = {})
    OBVIOUS
  <2> HIDE DEF phase, reply
  <2> QED
    BY <1>1, <2>1, Onward
<1> QED
  BY <1>2, <1>4, <1>5, ReplacedOne

\* A refusal, or a break, of a call that no handler has answered.
LEMMA PhaseCarries ==
  ASSUME CallsOK, NEW r \in requests, ~Settled(r), NEW phase \in {"waiting", "failed"},
         Replace(r, [r EXCEPT !.phase = phase])
  PROVE  Carried
<1>1. CallOK(r) /\ r.handled = 0 /\ r.answer = {}
  BY DEF CallsOK, CallOK
<1> DEFINE e == On(r, phase, r.valid, 0, {})
<1>2. e = [r EXCEPT !.phase = phase]
  BY <1>1 DEF CallOK, On
<1>3. CallOK(e) /\ Kept(e, r)
  BY <1>1, Onward
<1> QED
  BY <1>2, <1>3, ReplacedOne

\* The calls that waited for the refresh are sent again, or settled, together.
LEMMA RefreshCarries ==
  ASSUME CallsOK, Refresh
  PROVE  Carried
<1> DEFINE Next1(r) == IF r.phase # "waiting" THEN r
                       ELSE IF r.n \in aborted THEN [r EXCEPT !.phase = "failed"]
                       ELSE [r EXCEPT !.phase = "again", !.valid = TRUE]
           Next2(r) == IF r.phase = "waiting" THEN [r EXCEPT !.phase = "failed"] ELSE r
<1>1. \/ requests' = {Next1(r) : r \in requests}
      \/ requests' = {Next2(r) : r \in requests}
  BY DEF Refresh, RefreshSucceeds, RefreshFails
<1>2. ASSUME NEW r \in requests
      PROVE  CallOK(Next1(r)) /\ Kept(Next1(r), r) /\ CallOK(Next2(r)) /\ Kept(Next2(r), r)
  <2>1. CallOK(r)
    BY DEF CallsOK
  <2>2. Kept(r, r)
    BY DEF Kept
  <2>3. ASSUME r.phase = "waiting"
        PROVE  LET failed == [r EXCEPT !.phase = "failed"]
                   again == [r EXCEPT !.phase = "again", !.valid = TRUE]
               IN CallOK(failed) /\ Kept(failed, r) /\ CallOK(again) /\ Kept(again, r)
    <3> DEFINE failed == On(r, "failed", r.valid, 0, {})
               again == On(r, "again", TRUE, 0, {})
    <3>1. r.handled = 0 /\ r.answer = {}
      BY <2>1, <2>3 DEF CallOK, Settled
    <3>2. failed = [r EXCEPT !.phase = "failed"] /\ again = [r EXCEPT !.phase = "again", !.valid = TRUE]
      BY <2>1, <3>1 DEF CallOK, On
    <3>3. CallOK(failed) /\ Kept(failed, r)
      BY <2>1, Onward
    <3>4. CallOK(again) /\ Kept(again, r)
      <4>1. PICK yes : yes = TRUE
        OBVIOUS
      <4>2. CallOK(On(r, "again", yes, 0, {})) /\ Kept(On(r, "again", yes, 0, {}), r)
        BY <2>1, Onward
      <4> QED
        BY <4>1, <4>2
    <3> QED
      BY <3>2, <3>3, <3>4
  <2> QED
    BY <2>1, <2>2, <2>3
<1> HIDE DEF Next1, Next2
<1>3. ASSUME NEW F, requests' = {F[r] : r \in requests},
             \A r \in requests : CallOK(F[r]) /\ Kept(F[r], r)
      PROVE  Carried
  <2>1. ASSUME NEW e \in requests' PROVE \E r \in requests : e = F[r] /\ CallOK(e) /\ Kept(e, r)
    BY <1>3, <2>1
  <2>2. \A r \in requests : F[r] \in requests' /\ Kept(F[r], r)
    BY <1>3
  <2>3. CallsOK'
    BY <2>1 DEF CallsOK, Kept
  <2> QED
    BY <2>1, <2>2, <2>3 DEF Carried
<1>4. CASE requests' = {Next1(r) : r \in requests}
  <2> DEFINE F == [r \in requests |-> Next1(r)]
  <2>1. \A r \in requests : F[r] = Next1(r)
    OBVIOUS
  <2> HIDE DEF F
  <2> QED
    BY <1>2, <1>3, <1>4, <2>1
<1>5. CASE requests' = {Next2(r) : r \in requests}
  <2> DEFINE F == [r \in requests |-> Next2(r)]
  <2>1. \A r \in requests : F[r] = Next2(r)
    OBVIOUS
  <2> HIDE DEF F
  <2> QED
    BY <1>2, <1>3, <1>5, <2>1
<1> QED
  BY <1>1, <1>4, <1>5

-----------------------------------------------------------------------------
\* What the panel shows of its turn.

\* The turns that go on are the same ones.
TurnsKept ==
  /\ \A e \in Turns' : \E r \in Turns : Kept(e, r)
  /\ \A r \in Turns : \E e \in Turns' : Kept(e, r)

LEMMA TurnsGoOn ==
  ASSUME PanelInv, TurnsKept, UNCHANGED <<busy, current, aborted, messages, shown>>,
         ops' \in {ops, ops + 1}, signedIn => signedIn'
  PROVE  BusyWithTheTurn' /\ ReplyInPlace' /\ RepliesAnswer'
<1> USE DEF Kept
<1>1. BusyWithTheTurn'
  BY DEF PanelInv, BusyWithTheTurn, TurnsKept
<1>2. ReplyInPlace'
  <2>1. ASSUME NEW e \in Turns'
        PROVE  /\ shown[e.n] \in DOMAIN messages
               /\ messages[shown[e.n]] = Message(e.n, "assistant", "streaming")
               /\ e.body.context \subseteq {m \in ToSet(messages) : m.status = "done"}
               /\ e.body.signedIn => signedIn
    <3>1. PICK r \in Turns : e.n = r.n /\ e.body = r.body
      BY DEF TurnsKept
    <3> QED
      BY <3>1 DEF PanelInv, ReplyInPlace
  <2> QED
    BY <2>1 DEF ReplyInPlace
<1>3. RepliesAnswer'
  <2> SUFFICES ASSUME NEW k \in DOMAIN messages, NEW m, m = messages[k], m.turn # 0
               PROVE  /\ m.turn \in 1..ops' /\ m.turn \notin aborted
                      /\ m.role = "assistant" => k # 1 /\ messages[k - 1] = Message(m.turn, "user", "done")
                      /\ m.status = "streaming" => k = shown[m.turn] /\ \E r \in Turns' : r.n = m.turn
    BY DEF RepliesAnswer
  <2>1. ASSUME m.turn # 0
        PROVE  /\ m.turn \in 1..ops /\ m.turn \notin aborted
               /\ m.role = "assistant" => k # 1 /\ messages[k - 1] = Message(m.turn, "user", "done")
               /\ m.status = "streaming" => k = shown[m.turn] /\ \E r \in Turns : r.n = m.turn
    BY <2>1 DEF PanelInv, RepliesAnswer
  <2>2. ops \in Nat /\ (m.turn \in 1..ops => m.turn \in 1..ops')
    BY DEF PanelInv, PanelOK
  <2>3. ASSUME m.turn # 0, m.status = "streaming" PROVE \E e \in Turns' : e.n = m.turn
    BY <2>1, <2>3 DEF TurnsKept
  <2> QED
    BY <2>1, <2>2, <2>3
<1> QED
  BY <1>1, <1>2, <1>3

\* What client and server do with the calls leaves the panel as it is.
LEMMA CarriedKeeps ==
  ASSUME PanelInv, Carried,
         UNCHANGED <<aborted, signedIn, busy, current, navigation, messages, active, chats, shown, ops,
                     lateList>>
  PROVE  PanelInv'
<1>1. TurnsKept
  BY DEF TurnsKept, Turns, Carried, Kept
<1>2. BusyWithTheTurn' /\ ReplyInPlace' /\ RepliesAnswer'
  BY <1>1, TurnsGoOn
<1>3. PanelOK'
  BY DEF PanelInv, PanelOK, Carried, Kept
<1>4. OpensLatest'
  <2>1. ASSUME NEW e \in requests', e.op = "open"
        PROVE  e.body.at <= navigation /\ (e.body.at = navigation => ~busy /\ signedIn)
    <3>1. PICK r \in requests : e.op = r.op /\ e.body = r.body
      BY DEF Carried, Kept
    <3> QED
      BY <2>1, <3>1 DEF PanelInv, OpensLatest
  <2> QED
    BY <2>1 DEF OpensLatest
<1>5. SignedOut'
  BY DEF PanelInv, SignedOut
<1> QED
  BY <1>2, <1>3, <1>4, <1>5 DEF PanelInv, Carried

\* A new transcript has no turn, and nothing that is being opened is for it.
LEMMA StartsOver ==
  ASSUME PanelInv, StartChat, CallsOK', UNCHANGED shown,
         \A e \in requests' : e \in requests \/ e.op \notin {"ask", "open"}
  PROVE  /\ Turns' = {} /\ BusyWithTheTurn' /\ ReplyInPlace' /\ RepliesAnswer' /\ OpensLatest'
         /\ aborted' \subseteq 1..ops /\ messages' \in Seq(Messages) /\ busy' = FALSE
         /\ navigation' \in Nat /\ current' = current /\ active' = NULL
<1> USE PanelAssumption
<1>1. /\ navigation \in Nat /\ current \in 1..ops \cup {NULL} /\ aborted \subseteq 1..ops /\ ops \in Nat
      /\ \A r \in requests : r.n <= ops
  BY DEF PanelInv, PanelOK
<1>2. /\ navigation' = navigation + 1 /\ aborted' = aborted \cup ({current} \ {NULL})
      /\ busy' = FALSE /\ messages' = Transcript /\ active' = NULL /\ current' = current
  BY DEF StartChat
<1>3. \A r \in Turns : r.n = current /\ current # NULL
  <2>1. \A r \in Turns : r.n \in Nat
    BY DEF PanelInv, CallsOK, CallOK, Turns
  <2> QED
    BY <2>1 DEF PanelInv, BusyWithTheTurn
<1>4. Turns' = {}
  BY <1>2, <1>3 DEF Turns
<1>5. /\ messages' \in Seq(Messages) /\ DOMAIN messages' = {1} /\ messages'[1].turn = 0
  BY <1>2 DEF Transcript, Message, Messages
<1>6. OpensLatest'
  <2>1. ASSUME NEW e \in requests', e.op = "open" PROVE e.body.at \in Nat /\ e.body.at <= navigation
    BY <2>1 DEF PanelInv, OpensLatest, CallsOK, CallOK
  <2> QED
    BY <1>1, <1>2, <2>1 DEF OpensLatest
<1>7. aborted' \subseteq 1..ops
  BY <1>1, <1>2
<1> QED
  BY <1>1, <1>2, <1>4, <1>5, <1>6, <1>7 DEF BusyWithTheTurn, ReplyInPlace, RepliesAnswer

-----------------------------------------------------------------------------
\* Calls that the panel makes, and those it is done with.

LEMMA NewCall ==
  ASSUME NEW n \in Nat \ {0}, NEW op \in Operations, NEW body, body.signedIn \in BOOLEAN,
         body.at \in Nat, NEW c,
         c = Request(n, op, body) \/ c = [Request(n, op, body) EXCEPT !.valid = TRUE]
  PROVE  CallOK(c) /\ c.n = n /\ c.op = op /\ c.body = body
<1>1. PICK valid : c = [n |-> n, op |-> op, body |-> body, phase |-> "sent", valid |-> valid,
                       handled |-> 0, answer |-> {}]
  BY DEF Request
<1> QED
  BY <1>1 DEF CallOK, Settled

LEMMA Added ==
  ASSUME PanelInv, NEW c, CallOK(c), c.n = ops + 1, requests' = requests \cup {c}
  PROVE  CallsOK'
BY DEF PanelInv, PanelOK, CallsOK, CallOK

\* The bodies that calls have.
LEMMA BodyOK ==
  ASSUME PanelInv, NEW chat, NEW at \in Nat, NEW context
  PROVE  /\ Body(chat, at, context).signedIn = signedIn /\ Body(chat, at, context).at = at
         /\ Body(chat, at, context).context = context /\ signedIn \in BOOLEAN
BY DEF Body, PanelInv, PanelOK

\* A call the panel is done with leaves, or the list is asked for in its stead.
LEMMA Done ==
  ASSUME PanelInv, NEW r \in requests, Rest(r) \/ Relist(r)
  PROVE  /\ CallsOK' /\ \A e \in requests' : e \in requests \ {r} \/ (e.op = "list" /\ e.n = r.n)
         /\ requests \ {r} \subseteq requests'
<1>1. CASE requests' = requests \ {r}
  BY <1>1 DEF PanelInv, CallsOK
<1>2. CASE requests' = (requests \ {r}) \cup {Request(r.n, "list", Nothing)}
  <2> DEFINE c == Request(r.n, "list", Nothing)
  <2>1. CallOK(c) /\ c.n = r.n /\ c.op = "list"
    <3>1. r.n \in Nat \ {0}
      BY DEF PanelInv, CallsOK, CallOK
    <3>2. Nothing.signedIn \in BOOLEAN /\ Nothing.at = 0
      BY BodyOK DEF Nothing
    <3> QED
      BY <3>1, <3>2, NewCall DEF Operations
  <2> HIDE DEF c
  <2>2. CallsOK'
    BY <1>2, <2>1 DEF PanelInv, CallsOK, c
  <2> QED
    BY <1>2, <2>1, <2>2 DEF c
<1> QED
  BY <1>1, <1>2 DEF Rest, Relist

-----------------------------------------------------------------------------
\* The steps.

LEMMA Beginning ==
  ASSUME PanelInv, Begin
  PROVE  /\ ops' = ops + 1 /\ ops \in Nat /\ ops + 1 \in 1..MaxOps /\ ops' \in 0..MaxOps
         /\ \A r \in requests : r.n <= ops + 1
         /\ 1..ops \subseteq 1..ops' /\ ops + 1 \notin 1..ops
BY PanelAssumption DEF PanelInv, PanelOK, Begin, CallsOK, CallOK

LEMMA SignInKeeps ==
  ASSUME PanelInv, SignIn
  PROVE  PanelInv'
<1> DEFINE c == [Request(ops + 1, "list", Nothing) EXCEPT !.valid = TRUE]
<1>1. /\ signedIn' = TRUE /\ requests' = requests \cup {c}
      /\ UNCHANGED <<aborted, busy, current, navigation, messages, active, chats, shown, lateList>>
      /\ Begin
  BY DEF SignIn
<1>2. CallOK(c) /\ c.n = ops + 1 /\ c.op = "list"
  <2>1. Nothing.signedIn \in BOOLEAN /\ Nothing.at = 0
    BY BodyOK DEF Nothing
  <2> QED
    BY <1>1, <2>1, Beginning, NewCall DEF Operations
<1> HIDE DEF c
<1>3. CallsOK'
  BY <1>1, <1>2, Added
<1>4. TurnsKept
  BY <1>1, <1>2 DEF TurnsKept, Turns, Kept
<1>5. BusyWithTheTurn' /\ ReplyInPlace' /\ RepliesAnswer'
  BY <1>1, <1>4, Beginning, TurnsGoOn
<1>6. PanelOK'
  BY <1>1, <1>2, Beginning DEF PanelInv, PanelOK
<1>7. OpensLatest' /\ SignedOut'
  BY <1>1, <1>2 DEF PanelInv, OpensLatest, SignedOut
<1> QED
  BY <1>3, <1>5, <1>6, <1>7 DEF PanelInv

LEMMA NewChatKeeps ==
  ASSUME PanelInv, NewChat \/ Logout
  PROVE  PanelInv'
<1>1. /\ StartChat /\ Begin /\ UNCHANGED <<requests, shown, lateList>>
      /\ signedIn' \in BOOLEAN /\ (~signedIn' => chats' = {})
  <2>1. CASE NewChat
    BY <2>1 DEF NewChat, PanelInv, PanelOK
  <2>2. CASE Logout
    BY <2>2 DEF Logout
  <2> QED
    BY <2>1, <2>2
<1>2. CallsOK'
  BY <1>1 DEF PanelInv, CallsOK
<1>3. /\ BusyWithTheTurn' /\ ReplyInPlace' /\ RepliesAnswer' /\ OpensLatest'
      /\ aborted' \subseteq 1..ops /\ messages' \in Seq(Messages) /\ busy' = FALSE
      /\ navigation' \in Nat /\ current' = current /\ active' = NULL
  BY <1>1, <1>2, StartsOver
<1>4. PanelOK'
  BY <1>1, <1>3, Beginning DEF PanelInv, PanelOK
<1>5. SignedOut'
  BY <1>1, <1>3 DEF SignedOut
<1> QED
  BY <1>2, <1>3, <1>4, <1>5 DEF PanelInv

LEMMA OpenChatKeeps ==
  ASSUME PanelInv, NEW id, OpenChat(id)
  PROVE  PanelInv'
<1> DEFINE c == Request(ops + 1, "open", Body(id, navigation + 1, {}))
<1>1. /\ requests' = requests \cup {c} /\ navigation' = navigation + 1 /\ Begin
      /\ UNCHANGED <<aborted, signedIn, busy, current, messages, active, chats, shown, lateList>>
      /\ signedIn /\ ~busy /\ navigation \in Nat
  BY DEF OpenChat, SendRequest, PanelInv, PanelOK
<1>2. CallOK(c) /\ c.n = ops + 1 /\ c.op = "open" /\ c.body.at = navigation + 1
  <2>1. navigation + 1 \in Nat
    BY <1>1
  <2>2. Body(id, navigation + 1, {}).signedIn \in BOOLEAN /\ Body(id, navigation + 1, {}).at = navigation + 1
    BY <2>1, BodyOK
  <2> QED
    BY <1>1, <2>1, <2>2, Beginning, NewCall DEF Operations
<1> HIDE DEF c
<1>3. CallsOK'
  BY <1>1, <1>2, Added
<1>4. TurnsKept
  BY <1>1, <1>2 DEF TurnsKept, Turns, Kept
<1>5. BusyWithTheTurn' /\ ReplyInPlace' /\ RepliesAnswer'
  BY <1>1, <1>4, Beginning, TurnsGoOn
<1>6. PanelOK'
  BY <1>1, <1>2, Beginning DEF PanelInv, PanelOK
<1>7. OpensLatest'
  <2>1. ASSUME NEW e \in requests, e.op = "open" PROVE e.body.at \in Nat /\ e.body.at <= navigation
    BY <2>1 DEF PanelInv, OpensLatest, CallsOK, CallOK
  <2> QED
    BY <1>1, <1>2, <2>1 DEF OpensLatest
<1>8. SignedOut'
  BY <1>1 DEF SignedOut
<1> QED
  BY <1>3, <1>5, <1>6, <1>7, <1>8 DEF PanelInv

LEMMA DeleteChatKeeps ==
  ASSUME PanelInv, NEW id, DeleteChat(id)
  PROVE  PanelInv'
<1> DEFINE c == Request(ops + 1, "delete", Body(id, 0, {}))
<1>1. /\ requests' = requests \cup {c} /\ Begin /\ UNCHANGED <<signedIn, shown, lateList>>
      /\ signedIn /\ ~busy
      /\ StartChat \/ UNCHANGED <<busy, current, aborted, navigation, messages, active>>
  BY DEF DeleteChat, SendRequest
<1>2. CallOK(c) /\ c.n = ops + 1 /\ c.op = "delete"
  <2>1. LET body == Body(id, 0, {}) IN body.signedIn \in BOOLEAN /\ body.at = 0
    BY BodyOK
  <2> QED
    BY <1>1, <2>1, Beginning, NewCall DEF Operations
<1> HIDE DEF c
<1>3. CallsOK'
  BY <1>1, <1>2, Added
<1>4. SignedOut'
  BY <1>1 DEF SignedOut
<1>5. CASE StartChat
  <2>1. /\ BusyWithTheTurn' /\ ReplyInPlace' /\ RepliesAnswer' /\ OpensLatest'
        /\ aborted' \subseteq 1..ops /\ messages' \in Seq(Messages) /\ busy' = FALSE
        /\ navigation' \in Nat /\ current' = current /\ active' = NULL
    BY <1>1, <1>2, <1>3, <1>5, StartsOver
  <2>2. PanelOK'
    <3>1. aborted' \subseteq 1..ops' /\ \A r \in requests' : r.n <= ops'
      BY <1>1, <1>2, <2>1, Beginning
    <3>2. current' \in 1..ops' \cup {NULL}
      BY <1>1, <2>1, Beginning DEF PanelInv, PanelOK
    <3> QED
      BY <1>1, <2>1, <3>1, <3>2, Beginning DEF PanelInv, PanelOK
  <2> QED
    BY <1>3, <1>4, <2>1, <2>2 DEF PanelInv
<1>6. CASE UNCHANGED <<busy, current, aborted, navigation, messages, active>>
  <2>1. TurnsKept
    BY <1>1, <1>2, <1>6 DEF TurnsKept, Turns, Kept
  <2>2. BusyWithTheTurn' /\ ReplyInPlace' /\ RepliesAnswer'
    BY <1>1, <1>6, <2>1, Beginning, TurnsGoOn
  <2>3. PanelOK'
    BY <1>1, <1>2, <1>6, Beginning DEF PanelInv, PanelOK
  <2>4. OpensLatest'
    BY <1>1, <1>2, <1>6 DEF PanelInv, OpensLatest
  <2> QED
    BY <1>3, <1>4, <2>2, <2>3, <2>4 DEF PanelInv
<1> QED
  BY <1>1, <1>5, <1>6

\* What a question sends along is settled.
LEMMA ContextSettled ==
  ASSUME NEW s, NEW m \in ToAssistantMessages(s)
  PROVE  m.status = "done" /\ \E k \in DOMAIN s : m = s[k]
BY DEF ToAssistantMessages, Latest

LEMMA SendChatKeeps ==
  ASSUME PanelInv, SendChat
  PROVE  PanelInv'
<1> USE PanelAssumption
<1> DEFINE n == ops + 1
           len == Len(messages)
           question == Message(n, "user", "done")
           reply == Message(n, "assistant", "streaming")
           asked == Append(messages, question)
           c == Request(n, "ask", Body(active, 0, ToAssistantMessages(asked)))
<1>1. /\ requests' = requests \cup {c} /\ navigation' = navigation + 1 /\ Begin /\ ~busy
      /\ busy' = TRUE /\ current' = n /\ messages' = Append(asked, reply)
      /\ shown' = [shown EXCEPT ![n] = Len(asked) + 1]
      /\ UNCHANGED <<aborted, signedIn, active, chats, lateList>> /\ navigation \in Nat
  BY DEF SendChat, SendRequest, PanelInv, PanelOK
<1>2. /\ n \in 1..MaxOps /\ n \in Nat \ {0} /\ n \notin aborted /\ n \notin 1..ops /\ ops' = n
  BY <1>1, Beginning DEF PanelInv, PanelOK
<1>3. /\ question \in Messages /\ reply \in Messages /\ messages \in Seq(Messages)
      /\ question.turn = n /\ question.role = "user" /\ question.status = "done"
      /\ reply.turn = n /\ reply.role = "assistant" /\ reply.status = "streaming"
  BY <1>2 DEF Message, Messages, PanelInv, PanelOK
<1>4. /\ CallOK(c) /\ c.n = n /\ c.op = "ask" /\ c.body.signedIn = signedIn
      /\ c.body.context = ToAssistantMessages(asked)
  <2> DEFINE body == Body(active, 0, ToAssistantMessages(asked))
  <2>1. /\ body.signedIn = signedIn /\ body.at = 0 /\ body.context = ToAssistantMessages(asked)
        /\ signedIn \in BOOLEAN
    BY BodyOK
  <2> HIDE DEF body
  <2> QED
    BY <1>2, <2>1, NewCall DEF Operations, body
<1>5. question = Message(n, "user", "done") /\ reply = Message(n, "assistant", "streaming")
  OBVIOUS
<1> HIDE DEF c, question, reply
<1>6. /\ asked \in Seq(Messages) /\ Len(asked) = len + 1 /\ len \in Nat
      /\ messages' \in Seq(Messages) /\ Len(messages') = len + 2
      /\ asked[len + 1] = question /\ \A k \in 1..len : asked[k] = messages[k]
      /\ messages'[len + 2] = reply /\ messages'[len + 1] = question
      /\ \A k \in 1..len : messages'[k] = messages[k]
  BY <1>1, <1>3
<1>7. DOMAIN messages' = 1..(len + 2) /\ DOMAIN asked = 1..(len + 1) /\ DOMAIN messages = 1..len
  BY <1>3, <1>6
<1> HIDE DEF n, len, asked
<1>8. /\ shown' \in [1..MaxOps -> Nat] /\ shown'[n] = len + 2
      /\ \A t \in 1..ops : shown'[t] = shown[t]
  BY <1>1, <1>2, <1>6, Beginning DEF PanelInv, PanelOK
<1>9. CallsOK'
  BY <1>1, <1>4, Added DEF n
<1>10. Turns = {} /\ Turns' = {c}
  BY <1>1, <1>2, <1>4 DEF PanelInv, BusyWithTheTurn, Turns
<1>11. BusyWithTheTurn'
  BY <1>1, <1>4, <1>10 DEF BusyWithTheTurn
<1>12. PanelOK'
  <2>1. /\ aborted' \subseteq 1..ops' /\ current' \in 1..ops' /\ ops' \in 0..MaxOps
        /\ \A r \in requests' : r.n <= ops'
    BY <1>1, <1>2, <1>4, Beginning DEF PanelInv, PanelOK, n
  <2> QED
    BY <1>1, <1>6, <1>8, <2>1 DEF PanelInv, PanelOK
<1>13. OpensLatest'
  <2>1. ASSUME NEW e \in requests, e.op = "open" PROVE e.body.at \in Nat /\ e.body.at <= navigation
    BY <2>1 DEF PanelInv, OpensLatest, CallsOK, CallOK
  <2> QED
    BY <1>1, <1>4, <2>1 DEF OpensLatest
<1>14. ReplyInPlace'
  <2>1. ASSUME NEW m \in ToAssistantMessages(asked) PROVE m \in ToSet(messages') /\ m.status = "done"
    <3>1. PICK k \in DOMAIN asked : m = asked[k] /\ m.status = "done"
      BY <2>1, ContextSettled
    <3>2. k \in DOMAIN messages' /\ m = messages'[k]
      BY <1>6, <1>7, <3>1
    <3> QED
      BY <3>1, <3>2 DEF ToSet
  <2>2. len + 2 \in DOMAIN messages'
    BY <1>6, <1>7
  <2> QED
    BY <1>1, <1>4, <1>5, <1>6, <1>8, <1>10, <2>1, <2>2 DEF ReplyInPlace
<1>15. RepliesAnswer'
  <2> SUFFICES ASSUME NEW k \in DOMAIN messages', NEW m, m = messages'[k], m.turn # 0
               PROVE  /\ m.turn \in 1..ops' /\ m.turn \notin aborted
                      /\ m.role = "assistant" => k # 1 /\ messages'[k - 1] = Message(m.turn, "user", "done")
                      /\ m.status = "streaming" => k = shown'[m.turn] /\ \E r \in Turns' : r.n = m.turn
    BY <1>1 DEF RepliesAnswer
  <2>1. CASE k \in 1..len
    <3>1. m = messages[k]
      BY <1>6, <2>1
    <3>2. /\ m.turn \in 1..ops /\ m.turn \notin aborted
          /\ m.role = "assistant" => k # 1 /\ messages[k - 1] = Message(m.turn, "user", "done")
          /\ m.status # "streaming"
      BY <1>7, <1>10, <2>1, <3>1 DEF PanelInv, RepliesAnswer
    <3>3. k # 1 => messages'[k - 1] = messages[k - 1]
      BY <1>6, <2>1
    <3>4. m.turn \in 1..ops'
      BY <1>1, <3>2, Beginning
    <3> QED
      BY <3>2, <3>3, <3>4
  <2>2. CASE k = len + 1
    BY <1>2, <1>3, <1>6, <2>2
  <2>3. CASE k = len + 2
    <3>1. k - 1 = len + 1 /\ k # 1
      BY <1>6, <2>3
    <3>2. m = reply /\ messages'[k - 1] = question
      BY <1>6, <2>3, <3>1
    <3> QED
      BY <1>2, <1>3, <1>4, <1>5, <1>8, <1>10, <2>3, <3>1, <3>2
  <2> QED
    BY <1>6, <1>7, <2>1, <2>2, <2>3
<1>16. SignedOut'
  BY <1>1 DEF PanelInv, SignedOut
<1> QED
  BY <1>9, <1>11, <1>12, <1>13, <1>14, <1>15, <1>16 DEF PanelInv

\* Text that arrives is shown in the reply, which streams already.
LEMMA StreamingKeeps ==
  ASSUME PanelInv, NEW r \in requests, Streaming(r)
  PROVE  PanelInv'
<1>1. /\ r \in Turns /\ messages' = UpdateReply(r.n, "streaming")
      /\ UNCHANGED <<requests, aborted, signedIn, busy, current, navigation, active, chats, shown, ops,
                     lateList>>
  BY DEF Streaming, Turns, clientVars
<1>2. messages[shown[r.n]] = Message(r.n, "assistant", "streaming") /\ messages \in Seq(Messages)
  BY <1>1 DEF PanelInv, ReplyInPlace, PanelOK
<1>3. messages' = messages
  <2>1. messages = [k \in DOMAIN messages |-> messages[k]]
    BY <1>2
  <2> QED
    BY <1>1, <1>2, <2>1 DEF UpdateReply
<1>4. Carried
  BY <1>1 DEF Carried, Kept, PanelInv, CallsOK
<1> QED
  BY <1>1, <1>3, <1>4, CarriedKeeps

\* A turn ends: its reply is settled where it stands.
LEMMA TurnEndsKeeps ==
  ASSUME PanelInv, NEW r \in requests, TurnEnds(r)
  PROVE  PanelInv'
<1> USE PanelAssumption
<1>1. /\ UNCHANGED <<aborted, signedIn, navigation, chats, shown, ops, lateList>>
      /\ r.op = "ask"
      /\ Rest(r) \/ Relist(r)
  BY DEF TurnEnds
<1>2. /\ CallsOK' /\ \A e \in requests' : e \in requests \ {r} \/ (e.op = "list" /\ e.n = r.n)
      /\ requests \ {r} \subseteq requests'
  BY <1>1, Done
<1>3. \A e \in requests' : e.n <= ops
  BY <1>2 DEF PanelInv, PanelOK
<1>4. CASE r.n \in aborted
  <2>1. UNCHANGED <<busy, current, messages, active>>
    BY <1>4 DEF TurnEnds
  <2>2. TurnsKept
    BY <1>1, <1>2, <1>4 DEF TurnsKept, Turns, Kept
  <2>3. ops' \in {ops, ops + 1}
    BY <1>1
  <2>4. BusyWithTheTurn' /\ ReplyInPlace' /\ RepliesAnswer'
    BY <1>1, <2>1, <2>2, <2>3, TurnsGoOn
  <2>5. PanelOK' /\ OpensLatest' /\ SignedOut'
    BY <1>1, <1>2, <1>3, <2>1 DEF PanelInv, PanelOK, OpensLatest, SignedOut
  <2> QED
    BY <1>2, <2>4, <2>5 DEF PanelInv
<1>5. CASE r.n \notin aborted
  <2>1. PICK status \in {"done", "failed"} : messages' = UpdateReply(r.n, status)
    BY <1>5 DEF TurnEnds
  <2>2. /\ busy' = FALSE /\ current' = NULL
        /\ UNCHANGED active \/ r.answer # {}
    BY <1>5 DEF TurnEnds, Freed
  <2>3. Turns = {r}
    <3>1. r \in Turns
      BY <1>1, <1>5 DEF Turns
    <3>2. \A e \in Turns : e.n = r.n /\ e \in requests
      BY <3>1 DEF PanelInv, BusyWithTheTurn, Turns
    <3> QED
      BY <3>1, <3>2 DEF PanelInv, CallsOK
  <2>4. Turns' = {}
    BY <1>1, <1>2, <2>3 DEF Turns
  <2> DEFINE at == shown[r.n]
  <2>5. /\ at \in DOMAIN messages /\ messages[at] = Message(r.n, "assistant", "streaming")
        /\ r.body.signedIn => signedIn
    BY <2>3 DEF PanelInv, ReplyInPlace
  <2>6. /\ r.n \in 1..ops /\ busy /\ messages \in Seq(Messages)
        /\ CallOK(r)
    BY <2>3 DEF PanelInv, PanelOK, BusyWithTheTurn, CallsOK, CallOK
  <2> DEFINE settled == Message(r.n, "assistant", status)
  <2>7. /\ settled \in Messages /\ settled.turn = r.n /\ settled.status # "streaming"
        /\ messages[at].role = "assistant" /\ messages[at].turn = r.n
        /\ messages[at].status = "streaming"
    BY <2>5, <2>6 DEF Message, Messages
  <2>8. /\ DOMAIN messages' = DOMAIN messages
        /\ \A k \in DOMAIN messages : messages'[k] = IF k = at THEN settled ELSE messages[k]
    BY <2>1 DEF UpdateReply
  <2>9. messages' \in Seq(Messages)
    <3>1. DOMAIN messages = 1..Len(messages) /\ Len(messages) \in Nat
      BY <2>6
    <3>2. \A k \in DOMAIN messages : messages[k] \in Messages
      BY <2>6
    <3>3. \A k \in 1..Len(messages) : (IF k = at THEN settled ELSE messages[k]) \in Messages
      BY <2>7, <3>1, <3>2
    <3> HIDE DEF settled, at
    <3>4. messages' = [k \in 1..Len(messages) |-> IF k = at THEN settled ELSE messages[k]]
      BY <2>1, <3>1 DEF UpdateReply, settled, at
    <3> QED
      BY <3>1, <3>3, <3>4, IsASeq
  <2> HIDE DEF at, settled
  <2>10. RepliesAnswer'
    <3> SUFFICES ASSUME NEW k \in DOMAIN messages, NEW m, m = messages'[k], m.turn # 0
                 PROVE  /\ m.turn \in 1..ops /\ m.turn \notin aborted
                        /\ m.role = "assistant" =>
                             k # 1 /\ messages'[k - 1] = Message(m.turn, "user", "done")
                        /\ m.status # "streaming"
      BY <1>1, <2>8 DEF RepliesAnswer
    <3>1. \A j : Message(j, "user", "done").role = "user"
      BY DEF Message
    <3>2. ASSUME NEW old, old = messages[k], old.turn = m.turn, old.role = "assistant"
          PROVE  k # 1 /\ messages'[k - 1] = Message(m.turn, "user", "done")
      <4>1. k # 1 /\ messages[k - 1] = Message(m.turn, "user", "done")
        BY <3>2 DEF PanelInv, RepliesAnswer
      <4>2. k - 1 \in DOMAIN messages
        <5>1. DOMAIN messages = 1..Len(messages) /\ Len(messages) \in Nat
          BY <2>6
        <5> QED
          BY <4>1, <5>1
      <4>3. k - 1 # at
        BY <2>7, <3>1, <4>1
      <4> QED
        BY <2>8, <4>1, <4>2, <4>3
    <3>3. CASE k = at
      <4>1. m = settled
        BY <2>8, <3>3
      <4> QED
        BY <1>5, <2>6, <2>7, <3>2, <3>3, <4>1
    <3>4. CASE k # at
      <4>1. m = messages[k]
        BY <2>8, <3>4
      <4>2. m.turn \in 1..ops /\ m.turn \notin aborted
        BY <4>1 DEF PanelInv, RepliesAnswer
      <4>3. m.status # "streaming"
        BY <2>3, <3>4, <4>1 DEF PanelInv, RepliesAnswer, at
      <4> QED
        BY <3>2, <4>1, <4>2, <4>3
    <3> QED
      BY <3>3, <3>4
  <2>11. BusyWithTheTurn' /\ ReplyInPlace'
    BY <2>2, <2>4 DEF BusyWithTheTurn, ReplyInPlace
  <2>12. PanelOK'
    BY <1>1, <1>3, <2>2, <2>9 DEF PanelInv, PanelOK
  <2>13. OpensLatest'
    BY <1>1, <1>2, <2>6 DEF PanelInv, OpensLatest
  <2>14. SignedOut'
    BY <1>1, <2>2, <2>5, <2>6 DEF PanelInv, SignedOut, CallOK
  <2> QED
    BY <1>2, <2>10, <2>11, <2>12, <2>13, <2>14 DEF PanelInv
<1> QED
  BY <1>4, <1>5

\* An old chat is shown only where no turn is going on.
LEMMA OpenedKeeps ==
  ASSUME PanelInv, NEW r \in requests, Opened(r)
  PROVE  PanelInv'
<1>1. /\ UNCHANGED <<aborted, signedIn, busy, current, navigation, chats, shown, ops, lateList>>
      /\ Rest(r) /\ r.op = "open"
      /\ \/ UNCHANGED <<messages, active>>
         \/ r.body.at = navigation /\ messages' = Transcript
  BY DEF Opened
<1>2. /\ CallsOK' /\ requests' \subseteq requests /\ Turns' = Turns
  BY <1>1, Done DEF Rest, Turns
<1>3. OpensLatest'
  BY <1>1, <1>2 DEF PanelInv, OpensLatest
<1>4. CASE UNCHANGED <<messages, active>>
  <2>1. TurnsKept /\ ops' \in {ops, ops + 1}
    BY <1>1, <1>2 DEF TurnsKept, Kept
  <2>2. BusyWithTheTurn' /\ ReplyInPlace' /\ RepliesAnswer'
    BY <1>1, <1>4, <2>1, TurnsGoOn
  <2>3. PanelOK' /\ SignedOut'
    BY <1>1, <1>2, <1>4 DEF PanelInv, PanelOK, SignedOut
  <2> QED
    BY <1>2, <1>3, <2>2, <2>3 DEF PanelInv
<1>5. CASE r.body.at = navigation /\ messages' = Transcript
  <2>1. ~busy /\ signedIn /\ Turns = {}
    BY <1>1, <1>5 DEF PanelInv, OpensLatest, BusyWithTheTurn
  <2>2. /\ messages' \in Seq(Messages) /\ DOMAIN messages' = {1} /\ messages'[1].turn = 0
    BY <1>5 DEF Transcript, Message, Messages
  <2>3. BusyWithTheTurn' /\ ReplyInPlace' /\ RepliesAnswer'
    BY <1>1, <1>2, <2>1, <2>2 DEF BusyWithTheTurn, ReplyInPlace, RepliesAnswer
  <2>4. PanelOK' /\ SignedOut'
    BY <1>1, <1>2, <2>1, <2>2 DEF PanelInv, PanelOK, SignedOut
  <2> QED
    BY <1>2, <1>3, <2>3, <2>4 DEF PanelInv
<1> QED
  BY <1>1, <1>4, <1>5

LEMMA ListedKeeps ==
  ASSUME PanelInv, NEW r \in requests, Listed(r) \/ Deleted(r)
  PROVE  PanelInv'
<1>1. /\ UNCHANGED <<aborted, signedIn, busy, current, navigation, messages, active, shown, ops>>
      /\ r.op # "ask"
      /\ Rest(r) \/ Relist(r)
      /\ lateList' \in BOOLEAN
  BY DEF Listed, Deleted, panel, PanelInv, PanelOK
<1>2. /\ CallsOK' /\ \A e \in requests' : e \in requests \ {r} \/ (e.op = "list" /\ e.n = r.n)
      /\ requests \ {r} \subseteq requests'
  BY <1>1, Done
<1>3. TurnsKept /\ ops' \in {ops, ops + 1}
  BY <1>1, <1>2 DEF TurnsKept, Turns, Kept
<1>4. BusyWithTheTurn' /\ ReplyInPlace' /\ RepliesAnswer'
  BY <1>1, <1>3, TurnsGoOn
<1>5. PanelOK' /\ OpensLatest'
  BY <1>1, <1>2 DEF PanelInv, PanelOK, OpensLatest
<1>6. SignedOut'
  BY <1>1 DEF Listed, Deleted, panel, PanelInv, SignedOut
<1> QED
  BY <1>2, <1>4, <1>5, <1>6 DEF PanelInv

\* What the client does, and what the server does with a call.
LEMMA ClientKeeps ==
  ASSUME PanelInv,
         \/ Client(TokenExpires) \/ Client(Refresh)
         \/ \E r \in requests : Serve(r) \/ Client(Expired(r)) \/ Client(Breaks(r))
  PROVE  PanelInv'
<1>1. CallsOK /\ signedIn \in BOOLEAN
  BY DEF PanelInv, PanelOK
<1>2. ASSUME NEW r \in requests, Serve(r) PROVE PanelInv'
  <2>1. r.op \in Operations /\ r.body.signedIn \in BOOLEAN
    BY <1>1 DEF CallsOK, CallOK
  <2>2. \E answer : Handle(r, answer) /\ (r.op = "ask" /\ ~r.body.signedIn => answer = {})
    BY <1>2, <2>1 DEF Serve, Operations
  <2>3. Carried /\ UNCHANGED aborted
    BY <1>1, <2>2, HandleCarries DEF Handle
  <2> QED
    BY <1>2, <2>3, CarriedKeeps DEF Serve
<1>3. ASSUME NEW r \in requests, Client(Expired(r)) \/ Client(Breaks(r)) PROVE PanelInv'
  <2>1. ~Settled(r) /\ \E phase \in {"waiting", "failed"} : Replace(r, [r EXCEPT !.phase = phase])
    BY <1>3 DEF Client, Expired, Breaks, OnTheWire, Settled
  <2>2. Carried
    BY <1>1, <2>1, PhaseCarries
  <2> QED
    BY <1>3, <2>2, CarriedKeeps DEF Client, Expired, Breaks, panel
<1>4. CASE Client(TokenExpires)
  <2>1. Carried
    BY <1>1, <1>4 DEF Client, TokenExpires, Carried, Kept, CallsOK
  <2> QED
    BY <1>4, <2>1, CarriedKeeps DEF Client, TokenExpires, panel
<1>5. CASE Client(Refresh)
  <2>1. Carried
    BY <1>1, <1>5, RefreshCarries DEF Client
  <2> QED
    BY <1>5, <2>1, CarriedKeeps DEF Client, Refresh, RefreshSucceeds, RefreshFails, panel
<1> QED
  BY <1>2, <1>3, <1>4, <1>5

LEMMA PanelInit == Init => PanelInv
<1> SUFFICES ASSUME Init PROVE PanelInv
  OBVIOUS
<1> USE PanelAssumption
<1>1. /\ messages \in Seq(Messages) /\ DOMAIN messages = {1} /\ messages[1].turn = 0
  BY DEF Init, Transcript, Message, Messages
<1>2. CallsOK /\ Turns = {}
  BY DEF Init, CallsOK, Turns
<1>3. PanelOK
  <2>1. 0 \in 0..MaxOps /\ {} \subseteq 1..0
    OBVIOUS
  <2> QED
    BY <1>1, <2>1 DEF Init, PanelOK
<1> QED
  BY <1>1, <1>2, <1>3 DEF Init, PanelInv, BusyWithTheTurn, OpensLatest, ReplyInPlace, RepliesAnswer,
                         SignedOut

LEMMA PanelStep == PanelInv /\ [Next]_vars => PanelInv'
<1> SUFFICES ASSUME PanelInv, [Next]_vars PROVE PanelInv'
  OBVIOUS
<1>1. CASE UNCHANGED vars
  <2>1. Carried
    BY <1>1 DEF vars, clientVars, Carried, Kept, PanelInv, CallsOK
  <2> QED
    BY <1>1, <2>1, CarriedKeeps DEF vars, clientVars, panel
<1>2. ASSUME NEW r \in requests, Continue(r) PROVE PanelInv'
  BY <1>2, TurnEndsKeeps, OpenedKeeps, ListedKeeps DEF Continue
<1> QED
  BY <1>1, <1>2, SignInKeeps, NewChatKeeps, SendChatKeeps, OpenChatKeeps, DeleteChatKeeps,
     StreamingKeeps, ClientKeeps DEF Next, Answer, Finished

LEMMA PanelAlways == Spec => []PanelInv
BY PanelInit, PanelStep, PTL DEF Spec

\* The panel is busy with exactly the turn whose stream is open, and a sign-out would abort
\* that one (sendChat and its finally, startChat).
THEOREM BusyWithOneTurn == Spec => []BusyWithTheTurn
<1>1. PanelInv => BusyWithTheTurn
  BY DEF PanelInv
<1> QED
  BY <1>1, PanelAlways, PTL

\* A reply stands under its own question, none of an aborted turn is shown, and what is sent
\* with a question is settled and on show; signed out, nothing of the account is left
\* (updateReply, toAssistantMessages, openChat, logout).
THEOREM TranscriptStaysItsOwn == Spec => []TranscriptIsItsOwn
<1>1. PanelInv => TranscriptIsItsOwn
  <2> SUFFICES ASSUME PanelInv PROVE TranscriptIsItsOwn
    OBVIOUS
  <2>1. ASSUME NEW r \in Turns PROVE Message(r.n, "assistant", "streaming") \in ToSet(messages)
    BY <2>1 DEF PanelInv, ReplyInPlace, ToSet
  <2> QED
    BY <2>1 DEF PanelInv, TranscriptIsItsOwn, ReplyInPlace, RepliesAnswer, SignedOut
<1> QED
  BY <1>1, PanelAlways, PTL

\* A call that is sent again after its token expired was never carried out before: a handler
\* runs for it at most once (request in client.ts).
THEOREM CallsHandledOnce == Spec => []HandledOnce
<1>1. PanelInv => HandledOnce
  BY DEF PanelInv, CallsOK, CallOK, HandledOnce
<1> QED
  BY <1>1, PanelAlways, PTL
=============================================================================
