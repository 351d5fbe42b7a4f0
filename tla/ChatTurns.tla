------------------------------- MODULE ChatTurns -------------------------------
(***************************************************************************)
(* The turns of one stored conversation (services/chat_service.py, its      *)
(* repository, and both assistant routes).  A turn reads the transcript,    *)
(* waits for the model, and appends its question and its reply, while other *)
(* tabs of the account ask into the same conversation or delete it.         *)
(* The transcript is ordered by the time each message was stamped with.     *)
(***************************************************************************)
EXTENDS Integers, FiniteSets

CONSTANTS
    Requests,     \* the requests of one account that concern the conversation
    Window,       \* MAX_HISTORY - 1: the stored messages a turn is given
    MaxPast,      \* bound: messages before the first turn that is followed here
    Nobody        \* no request

ASSUME RequestsAssumption == IsFiniteSet(Requests) /\ Nobody \notin Requests
ASSUME NumbersAssumption  == Window \in Nat \ {0} /\ MaxPast \in Nat

VARIABLES
    stored,     \* the committed row of chats: not yet there, there, or gone
    messages,   \* the committed rows of chat_messages
    told,       \* the id was sent to the client
    clock,      \* the last time stamp
    holder,     \* the request that holds the row lock of the conversation
    pc, kind, route,
    context,    \* the stored messages a turn was given
    draft       \* the messages its transaction has inserted

vars == <<stored, messages, told, clock, holder, pc, kind, route, context, draft>>

Turns  == {"start", "follow"}
Kinds  == Turns \cup {"delete"}
Routes == {"json", "stream"}

Message == [turn: Requests \cup {Nobody}, part: {"past", "question", "reply"}, stamp: Nat]

\* The stages in which a request has the row, or its own row not yet visible, locked.
Holding == {"created", "locked", "asked", "written", "removed", "responded"}
Ended   == {"done", "cut", "lost", "failed"}
Stages  == {"idle", "received", "opened", "asking", "answered", "committed"}
              \cup Holding \cup Ended

Past(owner, last, n) ==
    {[turn |-> owner, part |-> "past", stamp |-> t] : t \in (last + 1) .. (last + n)}

\* A conversation of earlier, or none yet.
Init ==
    /\ \E n \in 0 .. MaxPast :
          \/ stored = "stored" /\ told = TRUE  /\ messages = Past(Nobody, 0, n)
          \/ stored = "unborn" /\ told = FALSE /\ messages = {}
    /\ clock = MaxPast
    /\ holder = Nobody
    /\ pc = [r \in Requests |-> "idle"]
    /\ kind = [r \in Requests |-> "follow"]
    /\ route = [r \in Requests |-> "json"]
    /\ context = [r \in Requests |-> {}]
    /\ draft = [r \in Requests |-> {}]

Goto(r, stage) == pc' = [pc EXCEPT ![r] = stage]

-------------------------------------------------------------------------------
(* A request arrives.                                                         *)

\* chat_id is None, or an id the client was given or found in its list.  One conversation
\* is followed, so it is not started while it may still come to be.
Receive(r) ==
    /\ pc[r] = "idle"
    /\ \E k \in Kinds, e \in Routes :
          /\ IF k = "start"
               THEN /\ stored = "unborn" /\ ~told
                    /\ \A s \in Requests : kind[s] = "start" => pc[s] \in Ended
               ELSE told \/ stored # "unborn"
          /\ kind' = [kind EXCEPT ![r] = k]
          /\ route' = [route EXCEPT ![r] = e]
    /\ Goto(r, "received")
    /\ UNCHANGED <<stored, messages, told, clock, holder, context, draft>>

\* _resolve_chat without an id: INSERT INTO chats, invisible until the commit.
CreateChat(r) ==
    /\ pc[r] = "received" /\ kind[r] = "start"
    /\ holder' = r
    /\ Goto(r, "created")
    /\ UNCHANGED <<stored, messages, told, clock, kind, route, context, draft>>

\* The guest's conversation so far is saved with the new chat, in one INSERT.
SavePast(r) ==
    /\ pc[r] = "created" /\ kind[r] = "start"
    /\ \E n \in 0 .. MaxPast :
          /\ draft' = [draft EXCEPT ![r] = Past(r, clock, n)]
          /\ context' = [context EXCEPT ![r] = Past(r, clock, n)]
          /\ clock' = clock + n
    /\ Goto(r, "asking")
    /\ UNCHANGED <<stored, messages, told, holder, kind, route>>

\* get_owned: the conversation, or a 404 ...
OpenChat(r) ==
    /\ pc[r] = "received" /\ kind[r] = "follow"
    /\ Goto(r, IF stored = "stored" THEN "opened" ELSE "failed")
    /\ UNCHANGED <<stored, messages, told, clock, holder, kind, route, context, draft>>

\* _history_of: the newest messages.
Newest(S) == {m \in S : Cardinality({n \in S : n.stamp > m.stamp}) < Window}

\* ... and its messages, by the second SELECT of selectinload.
LoadMessages(r) ==
    /\ pc[r] = "opened"
    /\ context' = [context EXCEPT ![r] = Newest(messages)]
    /\ Goto(r, "asking")
    /\ UNCHANGED <<stored, messages, told, clock, holder, kind, route, draft>>

\* The model has answered; on the stream, its text has been shown.
Answer(r) ==
    /\ pc[r] = "asking"
    /\ Goto(r, "answered")
    /\ UNCHANGED <<stored, messages, told, clock, holder, kind, route, context, draft>>

-------------------------------------------------------------------------------
(* _record, and the end of the transaction.                                   *)

\* Mutant: the number of updated rows is not looked at.
RowFound_Unchecked(r) == TRUE

\* The UPDATE of updated_at must match one row: its own uncommitted one, or a stored one.
RowFound(r) == kind[r] = "start" \/ stored = "stored"

\* Mutant: updated_at is left alone, so that nothing of the flush locks the row.
Locked_NoUpdate(r) == holder

Locked(r) == r

\* The flush begins with UPDATE chats, which waits for the row; StaleDataError without it.
TouchChat(r) ==
    /\ pc[r] = "answered"
    /\ IF RowFound(r)
         THEN holder \in {Nobody, r} /\ holder' = Locked(r) /\ Goto(r, "locked")
         ELSE UNCHANGED holder /\ Goto(r, "failed")
    /\ UNCHANGED <<stored, messages, told, clock, kind, route, context, draft>>

\* One message is stamped and sent; the two differ in columns, and go one by one.
Insert(r, part) ==
    /\ draft' = [draft EXCEPT ![r] = @ \cup {[turn |-> r, part |-> part, stamp |-> clock + 1]}]
    /\ clock' = clock + 1
    /\ UNCHANGED <<stored, messages, told, holder, kind, route, context>>

InsertQuestion(r) ==
    /\ pc[r] = "locked"
    /\ Insert(r, "question")
    /\ Goto(r, "asked")

InsertReply(r) ==
    /\ pc[r] = "asked"
    /\ Insert(r, "reply")
    /\ Goto(r, "written")

\* DELETE FROM chats WHERE id AND user_id, after waiting for the row; 404 without it.
Remove(r) ==
    /\ pc[r] = "received" /\ kind[r] = "delete"
    /\ IF stored = "stored"
         THEN holder = Nobody /\ holder' = r /\ Goto(r, "removed")
         ELSE UNCHANGED holder /\ Goto(r, "failed")
    /\ UNCHANGED <<stored, messages, told, clock, kind, route, context, draft>>

\* Mutant: the stream announces the answer first, as the JSON route does.
CommitsFirst_Never(r) == FALSE

\* assistant_events commits before it announces; get_session after the response.
CommitsFirst(r) == route[r] = "stream"

\* Mutant: a lock is never given back.
Released_Leaked(r) == holder

Released(r) == IF holder = r THEN Nobody ELSE holder

\* A turn's commit makes its messages, and its new chat, visible.
CommitTurn(r) ==
    /\ \/ pc[r] = "written" /\ CommitsFirst(r) /\ Goto(r, "committed")
       \/ pc[r] = "responded" /\ Goto(r, "done")
    /\ stored' = IF kind[r] = "start" THEN "stored" ELSE stored
    /\ messages' = messages \cup draft[r]
    /\ holder' = Released(r)
    /\ UNCHANGED <<told, clock, kind, route, context, draft>>

\* ON DELETE CASCADE takes every message of the chat.
CommitRemoval(r) ==
    /\ pc[r] = "removed"
    /\ stored' = "gone"
    /\ messages' = {}
    /\ holder' = Released(r)
    /\ Goto(r, "done")
    /\ UNCHANGED <<told, clock, kind, route, context, draft>>

\* The reply, with the chat's id, is sent.
Respond(r) ==
    /\ \/ pc[r] = "written" /\ ~CommitsFirst(r) /\ Goto(r, "responded")
       \/ pc[r] = "committed" /\ Goto(r, "done")
    /\ told' = TRUE
    /\ UNCHANGED <<stored, messages, clock, holder, kind, route, context, draft>>

\* The model fails or times out, the client leaves, a statement or the commit fails:
\* rolled back.  A client that leaves after the commit only misses its "done"; a chat
\* whose id was sent and whose commit then failed never comes to be.
Fail(r) ==
    /\ pc[r] \notin Ended \cup {"idle"}
    /\ Goto(r, CASE pc[r] = "committed" -> "cut"
                 [] pc[r] = "responded" -> "lost"
                 [] OTHER -> "failed")
    /\ stored' = IF pc[r] = "responded" /\ stored = "unborn" THEN "gone" ELSE stored
    /\ draft' = [draft EXCEPT ![r] = {}]
    /\ holder' = Released(r)
    /\ UNCHANGED <<messages, told, clock, kind, route, context>>

-------------------------------------------------------------------------------
Serve(r) ==
    \/ CreateChat(r)
    \/ SavePast(r)
    \/ OpenChat(r)
    \/ LoadMessages(r)
    \/ Answer(r)
    \/ TouchChat(r)
    \/ InsertQuestion(r)
    \/ InsertReply(r)
    \/ Remove(r)
    \/ CommitTurn(r)
    \/ CommitRemoval(r)
    \/ Respond(r)

TimeOut(r) == pc[r] = "asking" /\ Fail(r)

Finished == (\A r \in Requests : pc[r] \in Ended) /\ UNCHANGED vars

Next ==
    \/ \E r \in Requests : Receive(r) \/ Serve(r) \/ Fail(r)
    \/ Finished

Spec == Init /\ [][Next]_vars

\* A statement whose row is free runs; an answer comes, or assistant_timeout_seconds pass.
Fairness == \A r \in Requests : WF_vars(Serve(r) \/ TimeOut(r))

FairSpec == Spec /\ Fairness

-------------------------------------------------------------------------------
(* Properties.                                                               *)

TypeOK ==
    /\ stored \in {"unborn", "stored", "gone"}
    /\ messages \subseteq Message
    /\ told \in BOOLEAN
    /\ clock \in Nat
    /\ holder \in Requests \cup {Nobody}
    /\ pc \in [Requests -> Stages]
    /\ kind \in [Requests -> Kinds]
    /\ route \in [Requests -> Routes]
    /\ context \in [Requests -> SUBSET Message]
    /\ draft \in [Requests -> SUBSET Message]
    /\ holder # Nobody => pc[holder] \notin Ended

\* Every stored question is directly followed by its reply, whichever turns overlapped:
\* although the two are stamped and inserted one by one, no other turn comes in between.
WholeTurns ==
    \A m \in messages : m.part # "past" =>
        \E q, a \in messages :
            /\ q.turn = m.turn /\ q.part = "question"
            /\ a.turn = m.turn /\ a.part = "reply"
            /\ q.stamp < a.stamp
            /\ \A o \in messages : ~(q.stamp < o.stamp /\ o.stamp < a.stamp)

\* Until the conversation is deleted, what becomes visible of it comes after all that was
\* visible before: a reader who comes back finds what he had read, and more below it.
GrowsAtTheEnd ==
    [][stored' # "gone" =>
          /\ messages \subseteq messages'
          /\ \A m \in messages' \ messages, n \in messages : n.stamp < m.stamp]_vars

\* What a turn was given to answer from has no hole, then or later: no stored message
\* lies between two that the model was shown without having been shown itself.
ContextHasNoHole ==
    \A r \in Requests : \A m, n \in context[r], o \in messages :
        m.stamp < o.stamp /\ o.stamp < n.stamp => o \in context[r]

\* The stream announces an answer only once it is saved: its messages are in the
\* transcript, until the conversation is deleted.
AnnouncedIsSaved ==
    \A r \in Requests :
        kind[r] \in Turns /\ route[r] = "stream" /\ pc[r] \in {"responded", "done"} =>
            stored = "gone" \/ (draft[r] # {} /\ draft[r] \subseteq messages)

\* A deleted conversation stays empty, however late an answer for it arrives.
DeletedStaysEmpty == stored = "gone" => messages = {}

\* Every request that came in ends, whatever it waits for.
EveryTurnEnds == \A r \in Requests : pc[r] = "received" ~> pc[r] \in Ended

===============================================================================
