--------------------------- MODULE AssistantPanel ---------------------------
(***************************************************************************)
(* The chat panel (AppState.tsx, ChatPanel.tsx, lib/chat.ts,               *)
(* assistant-stream.ts) on top of the API client.  A question is streamed;  *)
(* stored chats are listed, opened and deleted; signing out ends the turn.  *)
(* Messages keep the turn they belong to, 0 for the greeting and for what   *)
(* a stored chat shows.  What the server does with a turn is ChatTurns.     *)
(***************************************************************************)
EXTENDS ApiClient, Sequences, SequencesExt

CONSTANTS
  Older,          \* the chats the account had before, numbered apart from the operations
  HISTORY_LIMIT,  \* messages sent with a question (10)
  MaxOps,         \* bound: operations begun
  MaxInFlight     \* bound: calls in flight

ASSUME PanelAssumption ==
  /\ MaxOps \in Nat /\ MaxInFlight \in Nat /\ HISTORY_LIMIT \in Nat
  /\ NULL \notin Nat \cup Older /\ Older \cap 1..MaxOps = {}

VARIABLES
  signedIn,   \* userRef
  busy,       \* chatBusyRef
  current,    \* chatControllerRef: the turn it aborts, or NULL
  navigation, \* chatNavigationRef
  messages,   \* chatRef: [turn, role, status]
  active,     \* activeChatRef
  chats,      \* the history list
  stored,     \* the server's chats (external)
  shown,      \* turn -> the index of its reply
  ops,
  lateList    \* history: a list asked for before the sign-out arrived after it

panel == <<signedIn, busy, current, navigation, messages, active, chats, stored, shown, lateList>>
vars == <<clientVars, panel, ops>>

Message(turn, role, status) == [turn |-> turn, role |-> role, status |-> status]
Transcript == << Message(0, "assistant", "done") >>

\* chat: the chat a call names; at: the navigation it belongs to; context: what a question sends.
Body(chat, at, context) == [chat |-> chat, at |-> at, context |-> context, signedIn |-> signedIn]
Nothing == Body(NULL, 0, {})

Begin == ops < MaxOps /\ ops' = ops + 1
SendRequest(op, body) ==
  /\ Cardinality(requests) < MaxInFlight
  /\ requests' = requests \cup {Request(ops + 1, op, body)}

\* The load at start found a session, with its chats, or none.
Init ==
  /\ requests = {} /\ refreshing = FALSE /\ aborted = {}
  /\ signedIn \in BOOLEAN /\ token = IF signedIn THEN "valid" ELSE "none"
  /\ stored = Older /\ chats = IF signedIn THEN stored ELSE {}
  /\ busy = FALSE /\ current = NULL /\ navigation = 0 /\ messages = Transcript /\ active = NULL
  /\ shown = [n \in 1..MaxOps |-> 0] /\ ops = 0 /\ lateList = FALSE

\* signIn, as far as the panel goes: refreshChats; the transcript stays.
SignIn ==
  /\ Begin /\ ~signedIn
  /\ signedIn' = TRUE /\ token' = "valid"
  /\ Cardinality(requests) < MaxInFlight
  /\ requests' = requests \cup {[Request(ops + 1, "list", Nothing) EXCEPT !.valid = TRUE]}
  /\ UNCHANGED <<refreshing, aborted, busy, current, navigation, messages, active, chats, stored,
                 shown, lateList>>

\* Mutant: the turn in progress is not aborted.
StartChat_Kept == /\ navigation' = navigation + 1
                  /\ busy' = FALSE
                  /\ messages' = Transcript /\ active' = NULL
                  /\ UNCHANGED <<aborted, current>>

\* startChat: whatever was going on is not for the new transcript.
StartChat ==
  /\ navigation' = navigation + 1
  /\ aborted' = aborted \cup ({current} \ {NULL})
  /\ busy' = FALSE
  /\ messages' = Transcript /\ active' = NULL
  /\ UNCHANGED current

NewChat ==
  /\ Begin /\ signedIn /\ ~busy
  /\ StartChat
  /\ UNCHANGED <<requests, refreshing, token, signedIn, chats, stored, shown, lateList>>

\* logout, answered: the transcript and the list leave with the session.
Logout ==
  /\ Begin /\ signedIn
  /\ signedIn' = FALSE /\ token' = "none" /\ chats' = {}
  /\ StartChat
  /\ UNCHANGED <<requests, refreshing, stored, shown, lateList>>

\* The last of some positions of a transcript.
Latest(positions) ==
  {k \in positions : Cardinality({j \in positions : j >= k}) <= HISTORY_LIMIT}

\* Mutant: the status is not looked at, and a failed reply is sent as context.
ToAssistantMessages_All(shownMessages) ==
  {shownMessages[k] : k \in Latest(DOMAIN shownMessages)}

\* toAssistantMessages: the latest settled messages, no reply that streams or failed.
ToAssistantMessages(shownMessages) ==
  {shownMessages[k] : k \in Latest({k \in DOMAIN shownMessages : shownMessages[k].status = "done"})}

\* sendChat: the question and an empty reply are shown, the stream begins.
SendChat ==
  LET n == ops + 1
      asked == Append(messages, Message(n, "user", "done"))
  IN /\ Begin /\ ~busy
     /\ navigation' = navigation + 1 /\ busy' = TRUE /\ current' = n
     /\ messages' = Append(asked, Message(n, "assistant", "streaming"))
     /\ shown' = [shown EXCEPT ![n] = Len(asked) + 1]
     /\ SendRequest("ask", Body(active, 0, ToAssistantMessages(asked)))
     /\ UNCHANGED <<refreshing, token, aborted, signedIn, active, chats, stored, lateList>>

OpenChat(id) ==
  /\ Begin /\ signedIn /\ ~busy /\ id \in chats
  /\ navigation' = navigation + 1
  /\ SendRequest("open", Body(id, navigation + 1, {}))
  /\ UNCHANGED <<refreshing, token, aborted, signedIn, busy, current, messages, active, chats,
                 stored, shown, lateList>>

DeleteChat(id) ==
  /\ Begin /\ signedIn /\ ~busy /\ id \in chats
  /\ chats' = chats \ {id}
  /\ IF active = id THEN StartChat
     ELSE UNCHANGED <<busy, current, aborted, navigation, messages, active>>
  /\ SendRequest("delete", Body(id, 0, {}))
  /\ UNCHANGED <<refreshing, token, signedIn, stored, shown, lateList>>

-----------------------------------------------------------------------------
\* The server (external): a turn is stored in the chat it names, or in a new one.

Serve(r) ==
  LET chat == IF r.body.chat # NULL THEN r.body.chat ELSE r.n
  IN /\ CASE r.op = "ask" /\ ~r.body.signedIn -> Handle(r, {}) /\ UNCHANGED stored
          [] r.op = "ask" /\ r.body.signedIn ->
               /\ r.body.chat \in stored \cup {NULL}
               /\ Handle(r, {chat}) /\ stored' = stored \cup {chat}
          [] r.op = "list" -> Handle(r, stored) /\ UNCHANGED stored
          [] r.op = "open" -> r.body.chat \in stored /\ Handle(r, {chat}) /\ UNCHANGED stored
          [] r.op = "delete" -> Handle(r, {}) /\ stored' = stored \ {chat}
     /\ UNCHANGED <<signedIn, busy, current, navigation, messages, active, chats, shown, ops,
                    lateList>>

Client(A) == A /\ UNCHANGED <<panel, ops>>

-----------------------------------------------------------------------------
\* The continuations.

\* updateReply: the message at the reply's index.
UpdateReply(n, status) ==
  [k \in DOMAIN messages |->
     IF k = shown[n] THEN Message(n, "assistant", status) ELSE messages[k]]

Rest(r) == requests' = requests \ {r}
\* refreshChats: the list is read again.
Relist(r) == requests' = (requests \ {r}) \cup (IF signedIn THEN {Request(r.n, "list", Nothing)} ELSE {})

\* onDelta: text arrives before the end of the stream; an aborted turn shows none of it.
Streaming(r) ==
  /\ r.op = "ask" /\ OnTheWire(r) /\ r.valid /\ r.n \notin aborted
  /\ messages' = UpdateReply(r.n, "streaming")
  /\ UNCHANGED <<clientVars, signedIn, busy, current, navigation, active, chats, stored, shown,
                 ops, lateList>>

\* Mutant: a turn that fails keeps the panel busy.
Freed_Answered(r) == IF r.phase = "ok" THEN busy' = FALSE /\ current' = NULL
                     ELSE UNCHANGED <<busy, current>>

\* finally: however the turn ended.
Freed(r) == busy' = FALSE /\ current' = NULL

\* The end of a turn: its chat is adopted, and the list read again when it is another one.
TurnEnds(r) ==
  /\ r.op = "ask" /\ Settled(r)
  /\ IF r.n \in aborted
       THEN Rest(r) /\ UNCHANGED <<busy, current, messages, active>>
       ELSE /\ messages' = UpdateReply(r.n, IF r.phase = "ok" THEN "done" ELSE "failed")
            /\ IF r.answer \subseteq {active}
                 THEN Rest(r) /\ UNCHANGED active
                 ELSE Relist(r) /\ active' \in r.answer
            /\ Freed(r)
  /\ UNCHANGED <<refreshing, token, aborted, signedIn, navigation, chats, stored, shown, ops,
                 lateList>>

\* Only the latest navigation is followed.
Opened(r) ==
  /\ r.op = "open" /\ Settled(r)
  /\ IF r.phase = "ok" /\ r.body.at = navigation
       THEN messages' = Transcript /\ active' = r.body.chat
       ELSE UNCHANGED <<messages, active>>
  /\ Rest(r)
  /\ UNCHANGED <<refreshing, token, aborted, signedIn, busy, current, navigation, chats, stored,
                 shown, ops, lateList>>

\* setChats, whoever is signed in by then; a list that fails leaves what was there.
Listed(r) ==
  /\ r.op = "list" /\ Settled(r)
  /\ chats' = IF r.phase = "ok" THEN r.answer ELSE chats
  /\ lateList' = (lateList \/ (r.phase = "ok" /\ ~signedIn))
  /\ Rest(r)
  /\ UNCHANGED <<refreshing, token, aborted, signedIn, busy, current, navigation, messages, active,
                 stored, shown, ops>>

Deleted(r) ==
  /\ r.op = "delete" /\ Settled(r)
  /\ IF r.phase = "failed" THEN Relist(r) ELSE Rest(r)
  /\ UNCHANGED <<refreshing, token, aborted, panel, ops>>

Continue(r) == TurnEnds(r) \/ Opened(r) \/ Listed(r) \/ Deleted(r)
Answer(r) == Serve(r) \/ Client(Expired(r)) \/ Client(Breaks(r)) \/ Continue(r)

Finished == ops = MaxOps /\ requests = {} /\ ~refreshing /\ UNCHANGED vars

Next ==
  \/ SignIn \/ NewChat \/ Logout \/ SendChat
  \/ \E id \in chats : OpenChat(id) \/ DeleteChat(id)
  \/ \E r \in requests : Answer(r) \/ Streaming(r)
  \/ Client(TokenExpires) \/ Client(Refresh)
  \/ Finished

\* Every fetch settles, and so does the refresh: the server ends a stream that takes too
\* long (AssistantService), and a broken connection fails.
Spec == /\ Init /\ [][Next]_vars
        /\ WF_vars(Client(Refresh))
        /\ \A n \in 1..MaxOps : WF_vars(\E r \in requests : r.n = n /\ Answer(r))

-----------------------------------------------------------------------------
Turns == {r \in requests : r.op = "ask" /\ r.n \notin aborted}

\* The panel is busy with exactly the turn whose stream is open, and that is the one
\* the next sign-out would abort: an earlier turn that ends late frees nothing
\* (sendChat's finally, startChat).
BusyWithTheTurn ==
  /\ busy <=> Turns # {}
  /\ \A r \in Turns : current = r.n

\* Every reply on show stands under its own question, only the open turn's streams, and
\* none is of a turn that was aborted; a turn in progress still has its reply on show, and was
\* sent with settled messages of this transcript only (toAssistantMessages).
\* Signed out, nothing of the account is listed or active, unless a list asked for
\* before arrived after (logout: the next person "must not find it").
TranscriptIsItsOwn ==
  /\ \A k \in DOMAIN messages :
       LET m == messages[k]
       IN m.turn # 0 =>
            /\ m.turn \notin aborted
            /\ m.role = "assistant" => messages[k - 1] = Message(m.turn, "user", "done")
            /\ m.status = "streaming" => \E r \in Turns : r.n = m.turn
  /\ \A r \in Turns :
       /\ Message(r.n, "assistant", "streaming") \in ToSet(messages)
       /\ r.body.context \subseteq {m \in ToSet(messages) : m.status = "done"}
  /\ ~signedIn => active = NULL /\ (lateList \/ chats = {})

\* A call that is sent again was refused the first time, never carried out: no question
\* counts twice against the allowance and no turn is stored twice (request in client.ts).
HandledOnce == \A r \in requests : r.handled <= 1

\* A turn ends, however often its token expires: the panel does not stay busy.
TurnsEnd == busy ~> ~busy
=============================================================================
