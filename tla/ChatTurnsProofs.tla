----------------------------- MODULE ChatTurnsProofs -----------------------------
(***************************************************************************)
(* A conversation grows at its end, by whole turns.  The row lock taken by  *)
(* the UPDATE of updated_at is what makes it so: Control says who holds it, *)
(* and Data what follows for messages not yet visible, above all that they  *)
(* are newer than all that is visible and newer than all that anybody was   *)
(* given to answer from.                                                    *)
(***************************************************************************)
EXTENDS ChatTurns, FiniteSetTheorems, TLAPS

\* The stages in which a request has the row locked: a new chat's from its INSERT on.
Locking(r) ==
    \/ pc[r] \in {"created", "locked", "asked", "written", "removed", "responded"}
    \/ kind[r] = "start" /\ pc[r] \in {"asking", "answered"}

\* One holder at most, and it is the request that thinks so.
OneHolder == \A r \in Requests : Locking(r) <=> holder = r

\* Until it commits, whoever starts the conversation is alone in doing so ...
OneStart ==
    \A r, s \in Requests : r # s /\ kind[r] = "start" /\ kind[s] = "start" =>
        pc[r] \in Ended \/ pc[s] \in Ended

\* ... and the row is not there yet; everybody else locks a row that is there.
RowOfHolder ==
    \A r \in Requests :
        /\ kind[r] = "start" /\ (Locking(r) \/ pc[r] = "received") => stored = "unborn"
        /\ kind[r] # "start" /\ Locking(r) => stored = "stored"

\* Deletions and turns go through stages of their own.
StagesOfKind ==
    \A r \in Requests :
        /\ pc[r] = "removed" => kind[r] = "delete"
        /\ pc[r] \in {"created", "asking", "answered", "locked", "asked", "written",
                      "responded", "committed"} => kind[r] \in Turns
        /\ pc[r] = "opened" => kind[r] = "follow"
        /\ pc[r] = "responded" => route[r] = "json"

\* Without a row there are no messages.
RowFirst == stored # "stored" => messages = {}

Control ==
    /\ TypeOK
    /\ OneHolder
    /\ OneStart
    /\ RowOfHolder
    /\ StagesOfKind
    /\ RowFirst

-------------------------------------------------------------------------------
USE DEF Turns, Kinds, Routes, Holding, Ended, Stages, Goto, Locked, Released, RowFound,
        CommitsFirst

LEMMA PastType ==
    ASSUME NEW o \in Requests \cup {Nobody}, NEW last \in Nat, NEW n \in Nat
    PROVE  /\ Past(o, last, n) \subseteq Message
           /\ IsFiniteSet(Past(o, last, n))
           /\ \A m \in Past(o, last, n) :
                 m.part = "past" /\ m.turn = o /\ m.stamp > last /\ m.stamp <= last + n
<1> DEFINE I == (last + 1) .. (last + n)
           f == [t \in I |-> [turn |-> o, part |-> "past", stamp |-> t]]
<1>1. f \in Surjection(I, Past(o, last, n))
  BY DEF Past, Surjection
<1>2. IsFiniteSet(I)
  BY FS_Interval
<1>3. IsFiniteSet(Past(o, last, n))
  BY <1>1, <1>2, FS_Surjection
<1>4. Past(o, last, n) \subseteq Message
  BY DEF Past, Message
<1> QED
  BY <1>3, <1>4 DEF Past

\* Every step keeps the types.
LEMMA TypeStep == TypeOK /\ OneHolder /\ [Next]_vars => TypeOK'
<1> SUFFICES ASSUME TypeOK, OneHolder, [Next]_vars PROVE TypeOK'
  OBVIOUS
<1> USE RequestsAssumption, NumbersAssumption DEF TypeOK, OneHolder, Locking
<1>1. ASSUME NEW r \in Requests, Receive(r) PROVE TypeOK'
  BY <1>1 DEF Receive
<1>2. ASSUME NEW r \in Requests, CreateChat(r) PROVE TypeOK'
  BY <1>2 DEF CreateChat
<1>3. ASSUME NEW r \in Requests, SavePast(r) PROVE TypeOK'
  <2>1. PICK n \in 0 .. MaxPast :
          /\ draft' = [draft EXCEPT ![r] = Past(r, clock, n)]
          /\ context' = [context EXCEPT ![r] = Past(r, clock, n)]
          /\ clock' = clock + n
    BY <1>3 DEF SavePast
  <2>2. Past(r, clock, n) \subseteq Message
    <3>1. n \in Nat /\ clock \in Nat /\ r \in Requests \cup {Nobody}
      OBVIOUS
    <3> QED
      BY <3>1, PastType
  <2>3. /\ draft' \in [Requests -> SUBSET Message]
        /\ context' \in [Requests -> SUBSET Message]
        /\ clock' \in Nat
    BY <2>1, <2>2
  <2>4. /\ pc' \in [Requests -> Stages] /\ \A s \in Requests : pc'[s] \in Ended => pc[s] \in Ended
        /\ UNCHANGED <<stored, messages, told, holder, kind, route>>
    BY <1>3 DEF SavePast
  <2> QED
    BY <2>3, <2>4
<1>4. ASSUME NEW r \in Requests, OpenChat(r) PROVE TypeOK'
  BY <1>4 DEF OpenChat
<1>5. ASSUME NEW r \in Requests, LoadMessages(r) PROVE TypeOK'
  <2>1. Newest(messages) \in SUBSET Message
    BY DEF Newest
  <2>2. context' \in [Requests -> SUBSET Message]
    BY <1>5, <2>1 DEF LoadMessages
  <2>3. /\ pc' \in [Requests -> Stages] /\ \A s \in Requests : pc'[s] \in Ended => pc[s] \in Ended
        /\ UNCHANGED <<stored, messages, told, clock, holder, kind, route, draft>>
    BY <1>5 DEF LoadMessages
  <2> QED
    BY <2>2, <2>3
<1>6. ASSUME NEW r \in Requests, Answer(r) PROVE TypeOK'
  BY <1>6 DEF Answer
<1>7. ASSUME NEW r \in Requests, TouchChat(r) PROVE TypeOK'
  BY <1>7 DEF TouchChat
<1>8. ASSUME NEW r \in Requests, InsertQuestion(r) \/ InsertReply(r) PROVE TypeOK'
  BY <1>8 DEF InsertQuestion, InsertReply, Insert, Message
<1>9. ASSUME NEW r \in Requests, Remove(r) PROVE TypeOK'
  BY <1>9 DEF Remove
<1>10. ASSUME NEW r \in Requests, CommitTurn(r) PROVE TypeOK'
  BY <1>10 DEF CommitTurn
<1>11. ASSUME NEW r \in Requests, CommitRemoval(r) PROVE TypeOK'
  BY <1>11 DEF CommitRemoval
<1>12. ASSUME NEW r \in Requests, Respond(r) PROVE TypeOK'
  BY <1>12 DEF Respond
<1>13. ASSUME NEW r \in Requests, Fail(r) PROVE TypeOK'
  BY <1>13 DEF Fail
<1>14. CASE Finished \/ UNCHANGED vars
  BY <1>14 DEF Finished, vars
<1> QED
  BY <1>1, <1>2, <1>3, <1>4, <1>5, <1>6, <1>7, <1>8, <1>9, <1>10, <1>11, <1>12, <1>13,
     <1>14 DEF Next, Serve

\* Who holds the row is kept by every step.
LEMMA ControlStep == Control /\ [Next]_vars => Control'
<1> SUFFICES ASSUME Control, [Next]_vars PROVE Control'
  OBVIOUS
<1>0. TypeOK'
  BY TypeStep DEF Control
<1> USE RequestsAssumption
    DEF Control, TypeOK, OneHolder, OneStart, RowOfHolder, StagesOfKind, RowFirst, Locking
<1>1. ASSUME NEW r \in Requests, Receive(r) PROVE Control'
  BY <1>0, <1>1 DEF Receive
<1>2. ASSUME NEW r \in Requests, CreateChat(r) PROVE Control'
  BY <1>0, <1>2 DEF CreateChat
<1>3. ASSUME NEW r \in Requests, SavePast(r) PROVE Control'
  BY <1>0, <1>3 DEF SavePast
<1>4. ASSUME NEW r \in Requests, OpenChat(r) PROVE Control'
  BY <1>0, <1>4 DEF OpenChat
<1>5. ASSUME NEW r \in Requests, LoadMessages(r) PROVE Control'
  BY <1>0, <1>5 DEF LoadMessages
<1>6. ASSUME NEW r \in Requests, Answer(r) PROVE Control'
  BY <1>0, <1>6 DEF Answer
<1>7. ASSUME NEW r \in Requests, TouchChat(r) PROVE Control'
  BY <1>0, <1>7 DEF TouchChat
<1>8. ASSUME NEW r \in Requests, InsertQuestion(r) \/ InsertReply(r) PROVE Control'
  BY <1>0, <1>8 DEF InsertQuestion, InsertReply, Insert
<1>9. ASSUME NEW r \in Requests, Remove(r) PROVE Control'
  BY <1>0, <1>9 DEF Remove
<1>10. ASSUME NEW r \in Requests, CommitTurn(r) PROVE Control'
  BY <1>0, <1>10 DEF CommitTurn
<1>11. ASSUME NEW r \in Requests, CommitRemoval(r) PROVE Control'
  BY <1>0, <1>11 DEF CommitRemoval
<1>12. ASSUME NEW r \in Requests, Respond(r) PROVE Control'
  BY <1>0, <1>12 DEF Respond
<1>13. ASSUME NEW r \in Requests, Fail(r) PROVE Control'
  BY <1>0, <1>13 DEF Fail
<1>14. CASE Finished \/ UNCHANGED vars
  BY <1>0, <1>14 DEF Finished, vars
<1> QED
  BY <1>1, <1>2, <1>3, <1>4, <1>5, <1>6, <1>7, <1>8, <1>9, <1>10, <1>11, <1>12, <1>13,
     <1>14 DEF Next, Serve

-------------------------------------------------------------------------------
(* What is not visible yet.                                                   *)

\* The transaction of r may still commit, or has inserted nothing.
Pending(r) == pc[r] \notin Ended \cup {"committed"}

\* Only the holder of the row has inserted messages.
OnlyHolderInserts == \A r \in Requests : Pending(r) /\ ~Locking(r) => draft[r] = {}

\* No stamp is in the future.
StampsPast ==
    /\ \A m \in messages : m.stamp <= clock
    /\ \A r \in Requests : \A m \in draft[r] \cup context[r] : m.stamp <= clock

AllFinite == IsFiniteSet(messages) /\ \A r \in Requests : IsFiniteSet(draft[r])

\* What is about to become visible is newer than what is visible ...
DraftsAreNewer ==
    \A r \in Requests : Pending(r) => \A d \in draft[r], n \in messages : n.stamp < d.stamp

\* ... and newer than what any turn was given, or part of it.
DraftsAreUnseen ==
    \A r, t \in Requests : Pending(t) =>
        \A d \in draft[t], m \in context[r] : m.stamp < d.stamp \/ d \in context[r]

BeforeInserts == {"idle", "received", "created", "opened", "asking", "answered", "locked"}

\* A pair is built up after the past, the question before the reply.
DraftShape ==
    \A r \in Requests :
        /\ \A d \in draft[r] : d.turn = r
        /\ pc[r] \in BeforeInserts => \A d \in draft[r] : d.part = "past"
        /\ pc[r] = "asked" =>
              \E q \in draft[r] :
                 /\ q.part = "question"
                 /\ \A d \in draft[r] : d = q \/ (d.part = "past" /\ d.stamp < q.stamp)
        /\ pc[r] \in {"written", "responded"} =>
              \E q, a \in draft[r] :
                 /\ q.part = "question" /\ a.part = "reply" /\ q.stamp < a.stamp
                 /\ \A d \in draft[r] :
                       d = q \/ d = a \/ (d.part = "past" /\ d.stamp < q.stamp)

\* What was committed stays, until all of it goes.
SavedStays ==
    \A r \in Requests : kind[r] \in Turns /\ pc[r] \in {"committed", "done"} =>
        stored = "gone" \/ (draft[r] # {} /\ draft[r] \subseteq messages)

Data ==
    /\ OnlyHolderInserts
    /\ StampsPast
    /\ AllFinite
    /\ DraftsAreNewer
    /\ DraftsAreUnseen
    /\ DraftShape
    /\ SavedStays
    /\ WholeTurns
    /\ ContextHasNoHole

IInv == Control /\ Data

\* The newest messages have no hole.
LEMMA NewestHasNoHole ==
    ASSUME NEW S \in SUBSET Message, IsFiniteSet(S),
           NEW m \in Newest(S), NEW o \in S, m.stamp < o.stamp
    PROVE  o \in Newest(S)
<1> DEFINE After(x) == {n \in S : n.stamp > x.stamp}
<1>1. m \in S /\ Cardinality(After(m)) < Window
  BY DEF Newest
<1>2. After(o) \subseteq After(m)
  BY <1>1 DEF Message
<1>3. IsFiniteSet(After(m))
  <2>1. After(m) \in SUBSET S
    OBVIOUS
  <2> QED
    BY <2>1, FS_Subset
<1>4. /\ Cardinality(After(o)) <= Cardinality(After(m))
      /\ Cardinality(After(m)) \in Nat /\ Cardinality(After(o)) \in Nat
  BY <1>2, <1>3, FS_Subset, FS_CardinalityType
<1>5. Cardinality(After(o)) < Window
  BY <1>1, <1>4, NumbersAssumption
<1> QED
  BY <1>5 DEF Newest

\* A request that is further on the way, but has not touched a message.
Quiet(r) ==
    \/ Receive(r) \/ CreateChat(r) \/ OpenChat(r) \/ Answer(r)
    \/ TouchChat(r) \/ Remove(r) \/ Respond(r)

LEMMA QuietStep ==
    ASSUME Control, Data, NEW r \in Requests, Quiet(r)
    PROVE  Data'
<1> USE DEF Control, TypeOK
<1>1. UNCHANGED <<messages, draft, context, clock, stored>>
  BY DEF Quiet, Receive, CreateChat, OpenChat, Answer, TouchChat, Remove, Respond
<1>2. \A s \in Requests : Pending(s)' => Pending(s)
  BY DEF Quiet, Receive, CreateChat, OpenChat, Answer, TouchChat, Remove, Respond, Pending
<1>3. \A s \in Requests : Pending(s)' /\ Locking(s) => Locking(s)'
  BY DEF Quiet, Receive, CreateChat, OpenChat, Answer, TouchChat, Remove, Respond, Pending,
         Locking, OneHolder, StagesOfKind
<1>4. \A s \in Requests :
        /\ pc'[s] \in BeforeInserts => pc[s] \in BeforeInserts
        /\ pc'[s] = "asked" => pc[s] = "asked"
        /\ pc'[s] \in {"written", "responded"} => pc[s] \in {"written", "responded"}
        /\ pc'[s] \in {"committed", "done"} =>
              pc[s] \in {"committed", "done"} /\ kind'[s] = kind[s]
  BY DEF Quiet, Receive, CreateChat, OpenChat, Answer, TouchChat, Remove, Respond,
         BeforeInserts
<1>5. OnlyHolderInserts'
  BY <1>1, <1>2, <1>3 DEF Data, OnlyHolderInserts
<1>6. StampsPast' /\ AllFinite'
  BY <1>1 DEF Data, StampsPast, AllFinite
<1>7. DraftsAreNewer' /\ DraftsAreUnseen'
  BY <1>1, <1>2 DEF Data, DraftsAreNewer, DraftsAreUnseen
<1>8. DraftShape'
  BY <1>1, <1>4 DEF Data, DraftShape
<1>9. SavedStays'
  BY <1>1, <1>4 DEF Data, SavedStays
<1>10. WholeTurns' /\ ContextHasNoHole'
  BY <1>1 DEF Data, WholeTurns, ContextHasNoHole
<1> QED
  BY <1>5, <1>6, <1>7, <1>8, <1>9, <1>10 DEF Data

\* The past saved with a new chat is what its first turn is given; nobody else has
\* anything pending.
LEMMA SavePastStep ==
    ASSUME Control, Data, NEW r \in Requests, SavePast(r)
    PROVE  Data'
<1> USE DEF Control, TypeOK
<1>1. PICK n \in 0 .. MaxPast :
        /\ draft' = [draft EXCEPT ![r] = Past(r, clock, n)]
        /\ context' = [context EXCEPT ![r] = Past(r, clock, n)]
        /\ clock' = clock + n
  BY DEF SavePast
<1> DEFINE P == Past(r, clock, n)
<1>2. /\ pc[r] = "created" /\ kind[r] = "start" /\ pc' = [pc EXCEPT ![r] = "asking"]
      /\ UNCHANGED <<stored, messages, told, holder, kind, route>>
  BY DEF SavePast
<1>3. n \in Nat /\ clock \in Nat
  BY NumbersAssumption
<1>4. /\ P \subseteq Message /\ IsFiniteSet(P)
      /\ \A m \in P : m.part = "past" /\ m.turn = r /\ m.stamp > clock /\ m.stamp <= clock + n
  BY <1>3, PastType
<1>5. /\ draft'[r] = P /\ context'[r] = P
      /\ \A s \in Requests \ {r} : draft'[s] = draft[s] /\ context'[s] = context[s]
  BY <1>1
<1> HIDE DEF P
<1>6. /\ Locking(r) /\ Locking(r)'
      /\ \A s \in Requests \ {r} : (Pending(s)' <=> Pending(s)) /\ (Locking(s)' <=> Locking(s))
  BY <1>2 DEF Pending, Locking
<1>7. \A s \in Requests \ {r} : Pending(s) => draft[s] = {}
  BY <1>6 DEF Data, OnlyHolderInserts, OneHolder
<1>8. OnlyHolderInserts'
  BY <1>5, <1>6 DEF Data, OnlyHolderInserts
<1>9. StampsPast'
  <2>1. \A m \in messages : m.stamp <= clock'
    BY <1>1, <1>3 DEF Data, StampsPast, Message
  <2>2. \A s \in Requests \ {r} : \A m \in draft[s] \cup context[s] : m.stamp <= clock'
    BY <1>1, <1>3 DEF Data, StampsPast, Message
  <2> QED
    BY <1>1, <1>2, <1>4, <1>5, <2>1, <2>2 DEF StampsPast
<1>10. AllFinite'
  BY <1>2, <1>4, <1>5 DEF Data, AllFinite
<1>11. DraftsAreNewer'
  <2>1. \A d \in P, m \in messages : m.stamp < d.stamp
    BY <1>3, <1>4 DEF Data, StampsPast, Message
  <2> QED
    BY <1>2, <1>5, <1>6, <1>7, <2>1 DEF DraftsAreNewer
<1>12. DraftsAreUnseen'
  <2>1. \A s \in Requests \ {r} : \A d \in P, m \in context[s] : m.stamp < d.stamp
    BY <1>3, <1>4 DEF Data, StampsPast, Message
  <2>2. ASSUME NEW s \in Requests, NEW t \in Requests, Pending(t)',
               NEW d \in draft'[t], NEW m \in context'[s]
        PROVE  m.stamp < d.stamp \/ d \in context'[s]
    <3>1. t = r
      BY <1>5, <1>6, <1>7, <2>2
    <3> QED
      BY <1>5, <2>1, <2>2, <3>1
  <2> QED
    BY <2>2 DEF DraftsAreUnseen
<1>13. DraftShape'
  BY <1>2, <1>4, <1>5 DEF Data, DraftShape, BeforeInserts
<1>14. SavedStays'
  BY <1>2, <1>5 DEF Data, SavedStays
<1>15. WholeTurns'
  BY <1>2 DEF Data, WholeTurns
<1>16. ContextHasNoHole'
  <2>1. \A m \in P, o \in messages : ~(m.stamp < o.stamp)
    BY <1>3, <1>4 DEF Data, StampsPast, Message
  <2> QED
    BY <1>2, <1>5, <2>1 DEF Data, ContextHasNoHole
<1> QED
  BY <1>8, <1>9, <1>10, <1>11, <1>12, <1>13, <1>14, <1>15, <1>16 DEF Data

\* A turn is given the newest of what is visible.
LEMMA LoadMessagesStep ==
    ASSUME Control, Data, NEW r \in Requests, LoadMessages(r)
    PROVE  Data'
<1> USE DEF Control, TypeOK
<1>1. /\ context' = [context EXCEPT ![r] = Newest(messages)]
      /\ pc[r] = "opened" /\ pc' = [pc EXCEPT ![r] = "asking"]
      /\ UNCHANGED <<stored, messages, told, clock, holder, kind, route, draft>>
  BY DEF LoadMessages
<1>2. /\ context'[r] = Newest(messages)
      /\ \A s \in Requests \ {r} : context'[s] = context[s]
  BY <1>1
<1>3. Newest(messages) \subseteq messages
  BY DEF Newest
<1>4. \A s \in Requests : (Pending(s)' <=> Pending(s)) /\ (Locking(s)' <=> Locking(s))
  BY <1>1 DEF Pending, Locking, StagesOfKind
<1>5. OnlyHolderInserts' /\ DraftsAreNewer'
  BY <1>1, <1>4 DEF Data, OnlyHolderInserts, DraftsAreNewer
<1>6. StampsPast'
  BY <1>1, <1>2, <1>3 DEF Data, StampsPast
<1>7. AllFinite' /\ WholeTurns'
  BY <1>1 DEF Data, AllFinite, WholeTurns
<1>8. DraftsAreUnseen'
  BY <1>1, <1>2, <1>3, <1>4 DEF Data, DraftsAreUnseen, DraftsAreNewer
<1>9. DraftShape'
  BY <1>1 DEF Data, DraftShape, BeforeInserts
<1>10. SavedStays'
  BY <1>1 DEF Data, SavedStays
<1>11. ContextHasNoHole'
  <2>1. ASSUME NEW m \in Newest(messages), NEW o \in messages, m.stamp < o.stamp
        PROVE  o \in Newest(messages)
    BY <2>1, NewestHasNoHole DEF Data, AllFinite
  <2> QED
    BY <1>1, <1>2, <2>1 DEF Data, ContextHasNoHole
<1> QED
  BY <1>5, <1>6, <1>7, <1>8, <1>9, <1>10, <1>11 DEF Data

\* One more message of the holder's, newer than everything.
LEMMA InsertStep ==
    ASSUME Control, Data, NEW r \in Requests, InsertQuestion(r) \/ InsertReply(r)
    PROVE  Data'
<1> USE DEF Control, TypeOK
<1>1. PICK part \in {"question", "reply"} :
        /\ Insert(r, part)
        /\ \/ part = "question" /\ pc[r] = "locked" /\ pc' = [pc EXCEPT ![r] = "asked"]
           \/ part = "reply" /\ pc[r] = "asked" /\ pc' = [pc EXCEPT ![r] = "written"]
  BY DEF InsertQuestion, InsertReply
<1> DEFINE x == [turn |-> r, part |-> part, stamp |-> clock + 1]
<1>2. /\ draft' = [draft EXCEPT ![r] = @ \cup {x}] /\ clock' = clock + 1
      /\ UNCHANGED <<stored, messages, told, holder, kind, route, context>>
  BY <1>1 DEF Insert
<1>3. x.turn = r /\ x.part = part /\ x.stamp = clock + 1 /\ x \in Message
  BY DEF Message
<1>4. /\ draft'[r] = draft[r] \cup {x}
      /\ \A s \in Requests \ {r} : draft'[s] = draft[s]
  BY <1>2
<1> HIDE DEF x
<1>5. /\ Locking(r) /\ Locking(r)' /\ Pending(r)
      /\ \A s \in Requests : (Pending(s)' <=> Pending(s)) /\ (Locking(s)' <=> Locking(s))
  BY <1>1, <1>2 DEF Pending, Locking
<1>6. /\ \A m \in messages : m.stamp < x.stamp
      /\ \A s \in Requests : \A m \in draft[s] \cup context[s] : m.stamp < x.stamp
  BY <1>3 DEF Data, StampsPast, Message
<1>7. OnlyHolderInserts'
  BY <1>4, <1>5 DEF Data, OnlyHolderInserts
<1>8. StampsPast'
  <2>1. \A k \in Nat : k < x.stamp => k <= clock'
    BY <1>2, <1>3
  <2>2. \A m \in Message : m.stamp \in Nat
    BY DEF Message
  <2>3. x.stamp <= clock'
    BY <1>2, <1>3
  <2> QED
    BY <1>2, <1>4, <1>6, <2>1, <2>2, <2>3 DEF StampsPast
<1>9. AllFinite'
  BY <1>2, <1>4, FS_AddElement DEF Data, AllFinite
<1>10. DraftsAreNewer'
  BY <1>2, <1>4, <1>5, <1>6 DEF Data, DraftsAreNewer
<1>11. DraftsAreUnseen'
  BY <1>2, <1>4, <1>5, <1>6 DEF Data, DraftsAreUnseen
<1>12. DraftShape'
  <2>1. ASSUME NEW s \in Requests, s # r
        PROVE  pc'[s] = pc[s] /\ draft'[s] = draft[s]
    BY <1>1, <1>4, <2>1
  <2>2. \A d \in draft'[r] : d.turn = r
    BY <1>3, <1>4 DEF Data, DraftShape
  <2>3. CASE part = "question"
    <3>1. \A d \in draft[r] : d.part = "past" /\ d.stamp < x.stamp
      BY <1>1, <1>6, <2>3 DEF Data, DraftShape, BeforeInserts
    <3>2. pc'[r] = "asked" /\ x \in draft'[r] /\ x.part = "question"
      BY <1>1, <1>3, <1>4, <2>3
    <3> QED
      BY <1>4, <2>1, <2>2, <3>1, <3>2 DEF Data, DraftShape, BeforeInserts
  <2>4. CASE part = "reply"
    <3>1. PICK q \in draft[r] :
            /\ q.part = "question"
            /\ \A d \in draft[r] : d = q \/ (d.part = "past" /\ d.stamp < q.stamp)
      BY <1>1, <2>4 DEF Data, DraftShape
    <3>2. pc'[r] = "written" /\ x \in draft'[r] /\ x.part = "reply" /\ q.stamp < x.stamp
      BY <1>1, <1>3, <1>4, <1>6, <2>4
    <3> QED
      BY <1>4, <2>1, <2>2, <3>1, <3>2 DEF Data, DraftShape, BeforeInserts
  <2> QED
    BY <2>3, <2>4
<1>13. SavedStays'
  BY <1>1, <1>2, <1>4 DEF Data, SavedStays
<1>14. WholeTurns' /\ ContextHasNoHole'
  BY <1>2 DEF Data, WholeTurns, ContextHasNoHole
<1> QED
  BY <1>7, <1>8, <1>9, <1>10, <1>11, <1>12, <1>13, <1>14 DEF Data

\* The holder's messages become visible, after everything that was.
LEMMA CommitTurnStep ==
    ASSUME Control, Data, NEW r \in Requests, CommitTurn(r)
    PROVE  /\ Data'
           /\ \A d \in draft[r], n \in messages : n.stamp < d.stamp
<1> USE DEF Control, TypeOK
<1>1. /\ pc[r] \in {"written", "responded"}
      /\ \/ pc' = [pc EXCEPT ![r] = "committed"]
         \/ pc' = [pc EXCEPT ![r] = "done"]
      /\ messages' = messages \cup draft[r]
      /\ stored' = IF kind[r] = "start" THEN "stored" ELSE stored
      /\ UNCHANGED <<clock, kind, route, context, draft>>
  BY DEF CommitTurn
<1>2. Locking(r) /\ Pending(r) /\ ~Pending(r)'
  BY <1>1 DEF Locking, Pending
<1>3. \A s \in Requests \ {r} :
        /\ pc'[s] = pc[s] /\ (Pending(s)' <=> Pending(s)) /\ (Locking(s)' <=> Locking(s))
        /\ ~Locking(s)
        /\ Pending(s) => draft[s] = {}
  <2>1. \A s \in Requests \ {r} :
          /\ pc'[s] = pc[s] /\ (Pending(s)' <=> Pending(s)) /\ (Locking(s)' <=> Locking(s))
    BY <1>1 DEF Locking, Pending
  <2>2. \A s \in Requests \ {r} : ~Locking(s)
    BY <1>2 DEF OneHolder
  <2> QED
    BY <2>1, <2>2 DEF Data, OnlyHolderInserts
<1>4. \A d \in draft[r], n \in messages : n.stamp < d.stamp
  BY <1>2 DEF Data, DraftsAreNewer
<1>5. PICK q \in draft[r] : \E a \in draft[r] :
        /\ q.part = "question" /\ a.part = "reply" /\ q.stamp < a.stamp
        /\ \A d \in draft[r] : d = q \/ d = a \/ (d.part = "past" /\ d.stamp < q.stamp)
  BY <1>1 DEF Data, DraftShape
<1>6. PICK a \in draft[r] :
        /\ q.part = "question" /\ a.part = "reply" /\ q.stamp < a.stamp
        /\ \A d \in draft[r] : d = q \/ d = a \/ (d.part = "past" /\ d.stamp < q.stamp)
  BY <1>5
<1>7. /\ q.turn = r /\ a.turn = r
      /\ \A m \in messages \cup draft[r] : m.stamp \in Nat
  BY DEF Data, DraftShape, Message
<1>8. OnlyHolderInserts' /\ DraftsAreNewer' /\ DraftsAreUnseen'
  BY <1>1, <1>2, <1>3 DEF OnlyHolderInserts, DraftsAreNewer, DraftsAreUnseen
<1>9. StampsPast'
  BY <1>1 DEF Data, StampsPast
<1>10. AllFinite'
  BY <1>1, FS_Union DEF Data, AllFinite
<1>11. DraftShape'
  <2>1. pc'[r] \in {"committed", "done"}
    BY <1>1
  <2> QED
    BY <1>1, <1>3, <2>1 DEF Data, DraftShape, BeforeInserts
<1>12. SavedStays'
  <2>1. stored = "gone" => stored' = "gone"
    BY <1>1, <1>2 DEF RowOfHolder
  <2>2. \A s \in Requests \ {r} : kind[s] \in Turns /\ pc[s] \in {"committed", "done"} =>
          stored' = "gone" \/ (draft[s] # {} /\ draft[s] \subseteq messages')
    BY <1>1, <2>1 DEF Data, SavedStays
  <2> QED
    BY <1>1, <1>3, <1>5, <2>2 DEF SavedStays
<1>13. WholeTurns'
  <2> SUFFICES ASSUME NEW m \in messages \cup draft[r], m.part # "past"
               PROVE  \E y, z \in messages \cup draft[r] :
                         /\ y.turn = m.turn /\ y.part = "question"
                         /\ z.turn = m.turn /\ z.part = "reply"
                         /\ y.stamp < z.stamp
                         /\ \A o \in messages \cup draft[r] :
                               ~(y.stamp < o.stamp /\ o.stamp < z.stamp)
    BY <1>1 DEF WholeTurns
  <2>1. CASE m \in draft[r]
    <3>1. m.turn = r
      BY <2>1 DEF Data, DraftShape
    <3>2. \A o \in messages \cup draft[r] : ~(q.stamp < o.stamp /\ o.stamp < a.stamp)
      BY <1>4, <1>6, <1>7
    <3> QED
      BY <1>6, <1>7, <3>1, <3>2
  <2>2. CASE m \in messages
    <3>1. PICK y \in messages, z \in messages :
            /\ y.turn = m.turn /\ y.part = "question"
            /\ z.turn = m.turn /\ z.part = "reply"
            /\ y.stamp < z.stamp
            /\ \A o \in messages : ~(y.stamp < o.stamp /\ o.stamp < z.stamp)
      BY <2>2 DEF Data, WholeTurns
    <3>2. \A o \in draft[r] : ~(o.stamp < z.stamp)
      BY <1>4, <1>7
    <3> QED
      BY <3>1, <3>2
  <2> QED
    BY <2>1, <2>2
<1>14. ContextHasNoHole'
  <2> SUFFICES ASSUME NEW s \in Requests, NEW m \in context[s], NEW n \in context[s],
                      NEW o \in messages \cup draft[r],
                      m.stamp < o.stamp, o.stamp < n.stamp
               PROVE  o \in context[s]
    BY <1>1 DEF ContextHasNoHole
  <2>1. CASE o \in messages
    BY <2>1 DEF Data, ContextHasNoHole
  <2>2. CASE o \in draft[r]
    <3>1. n.stamp < o.stamp \/ o \in context[s]
      BY <1>2, <2>2 DEF Data, DraftsAreUnseen
    <3>2. n.stamp \in Nat /\ o.stamp \in Nat
      BY <1>7 DEF Message
    <3> QED
      BY <3>1, <3>2
  <2> QED
    BY <2>1, <2>2
<1> QED
  BY <1>4, <1>8, <1>9, <1>10, <1>11, <1>12, <1>13, <1>14 DEF Data

\* Everything visible goes.
LEMMA CommitRemovalStep ==
    ASSUME Control, Data, NEW r \in Requests, CommitRemoval(r)
    PROVE  Data'
<1> USE DEF Control, TypeOK
<1>1. /\ pc[r] = "removed" /\ pc' = [pc EXCEPT ![r] = "done"]
      /\ stored' = "gone" /\ messages' = {}
      /\ UNCHANGED <<clock, kind, route, context, draft>>
  BY DEF CommitRemoval
<1>2. \A s \in Requests : Pending(s)' =>
        s # r /\ Pending(s) /\ (Locking(s)' <=> Locking(s))
  BY <1>1 DEF Pending, Locking
<1>3. OnlyHolderInserts' /\ DraftsAreNewer' /\ DraftsAreUnseen'
  <2>1. OnlyHolderInserts'
    BY <1>1, <1>2 DEF Data, OnlyHolderInserts
  <2>2. DraftsAreNewer'
    BY <1>1, <1>2 DEF Data, DraftsAreNewer
  <2>3. DraftsAreUnseen'
    BY <1>1, <1>2 DEF Data, DraftsAreUnseen
  <2> QED
    BY <2>1, <2>2, <2>3
<1>4. StampsPast' /\ AllFinite'
  BY <1>1, FS_EmptySet DEF Data, StampsPast, AllFinite
<1>5. DraftShape'
  BY <1>1 DEF Data, DraftShape, BeforeInserts
<1>6. SavedStays' /\ WholeTurns' /\ ContextHasNoHole'
  BY <1>1 DEF SavedStays, WholeTurns, ContextHasNoHole
<1> QED
  BY <1>3, <1>4, <1>5, <1>6 DEF Data

\* A failure takes back what was not visible.
LEMMA FailStep ==
    ASSUME Control, Data, NEW r \in Requests, Fail(r)
    PROVE  Data'
<1> USE DEF Control, TypeOK
<1>1. /\ pc'[r] \in {"cut", "lost", "failed"}
      /\ \A s \in Requests \ {r} : pc'[s] = pc[s]
      /\ draft'[r] = {}
      /\ \A s \in Requests \ {r} : draft'[s] = draft[s]
      /\ stored' = stored \/ stored' = "gone"
      /\ UNCHANGED <<messages, clock, kind, context>>
  BY DEF Fail
<1>2. \A s \in Requests : Pending(s)' =>
        s # r /\ Pending(s) /\ (Locking(s)' <=> Locking(s))
  BY <1>1 DEF Pending, Locking
<1>3. OnlyHolderInserts' /\ DraftsAreNewer' /\ DraftsAreUnseen'
  <2>1. OnlyHolderInserts'
    BY <1>1, <1>2 DEF Data, OnlyHolderInserts
  <2>2. DraftsAreNewer'
    BY <1>1, <1>2 DEF Data, DraftsAreNewer
  <2>3. DraftsAreUnseen'
    BY <1>1, <1>2 DEF Data, DraftsAreUnseen
  <2> QED
    BY <2>1, <2>2, <2>3
<1>4. StampsPast' /\ AllFinite'
  BY <1>1, FS_EmptySet DEF Data, StampsPast, AllFinite
<1>5. DraftShape'
  BY <1>1 DEF Data, DraftShape, BeforeInserts
<1>6. SavedStays'
  BY <1>1 DEF Data, SavedStays
<1>7. WholeTurns' /\ ContextHasNoHole'
  BY <1>1 DEF Data, WholeTurns, ContextHasNoHole
<1> QED
  BY <1>3, <1>4, <1>5, <1>6, <1>7 DEF Data

-------------------------------------------------------------------------------
LEMMA InitInv == Init => IInv
<1> SUFFICES ASSUME Init PROVE IInv
  OBVIOUS
<1> USE RequestsAssumption, NumbersAssumption
<1>1. PICK n \in 0 .. MaxPast :
        \/ stored = "stored" /\ messages = Past(Nobody, 0, n)
        \/ stored = "unborn" /\ messages = {}
  BY DEF Init
<1>2. /\ clock = MaxPast /\ holder = Nobody /\ told \in BOOLEAN
      /\ pc = [r \in Requests |-> "idle"] /\ kind = [r \in Requests |-> "follow"]
      /\ route = [r \in Requests |-> "json"]
      /\ context = [r \in Requests |-> {}] /\ draft = [r \in Requests |-> {}]
  BY DEF Init
<1>3. /\ messages \subseteq Message /\ IsFiniteSet(messages)
      /\ \A m \in messages : m.part = "past" /\ m.stamp <= MaxPast
  <2>1. n \in Nat /\ n <= MaxPast /\ MaxPast \in Nat
    OBVIOUS
  <2>2. /\ Past(Nobody, 0, n) \subseteq Message /\ IsFiniteSet(Past(Nobody, 0, n))
        /\ \A m \in Past(Nobody, 0, n) : m.part = "past" /\ m.stamp <= 0 + n
    BY <2>1, PastType
  <2>3. \A m \in Past(Nobody, 0, n) : m.stamp <= MaxPast
    BY <2>1, <2>2 DEF Message
  <2> QED
    BY <1>1, <2>2, <2>3, FS_EmptySet
<1>4. Control
  BY <1>1, <1>2, <1>3
  DEF Control, TypeOK, OneHolder, OneStart, RowOfHolder, StagesOfKind, RowFirst, Locking
<1>5. OnlyHolderInserts /\ DraftsAreNewer /\ DraftsAreUnseen /\ SavedStays /\ DraftShape
  BY <1>2 DEF OnlyHolderInserts, DraftsAreNewer, DraftsAreUnseen, SavedStays, DraftShape
<1>6. StampsPast /\ AllFinite /\ WholeTurns /\ ContextHasNoHole
  BY <1>2, <1>3, FS_EmptySet DEF StampsPast, AllFinite, WholeTurns, ContextHasNoHole
<1> QED
  BY <1>4, <1>5, <1>6 DEF IInv, Data

LEMMA StepInv == IInv /\ [Next]_vars => IInv'
<1> SUFFICES ASSUME Control, Data, [Next]_vars PROVE Data'
  BY ControlStep DEF IInv
<1>1. ASSUME NEW r \in Requests, Receive(r) \/ Serve(r) \/ Fail(r) PROVE Data'
  BY <1>1, QuietStep, SavePastStep, LoadMessagesStep, InsertStep, CommitTurnStep,
     CommitRemovalStep, FailStep DEF Serve, Quiet
<1>2. CASE UNCHANGED vars
  BY <1>2 DEF vars, Data, OnlyHolderInserts, StampsPast, AllFinite, DraftsAreNewer,
              DraftsAreUnseen, DraftShape, SavedStays, WholeTurns, ContextHasNoHole,
              Pending, Locking
<1> QED
  BY <1>1, <1>2 DEF Next, Finished

\* The invariant of every behaviour.
THEOREM Invariance == Spec => []IInv
BY InitInv, StepInv, PTL DEF Spec

\* The types hold, and nobody keeps the row of the conversation locked when it is over.
THEOREM TypeCorrect == Spec => []TypeOK
<1>1. IInv => TypeOK
  BY DEF IInv, Control
<1> QED
  BY <1>1, Invariance, PTL

\* However many turns overlap, each question is directly followed by its reply.
THEOREM TurnsStayWhole == Spec => []WholeTurns
<1>1. IInv => WholeTurns
  BY DEF IInv, Data
<1> QED
  BY <1>1, Invariance, PTL

\* However many turns overlap, the transcript grows at its end only.
THEOREM TranscriptGrows == Spec => GrowsAtTheEnd
<1> DEFINE Grows == stored' # "gone" =>
              /\ messages \subseteq messages'
              /\ \A m \in messages' \ messages, n \in messages : n.stamp < m.stamp
<1>1. ASSUME IInv, [Next]_vars PROVE Grows
  <2>1. CASE messages' = messages
    BY <2>1
  <2>2. ASSUME NEW r \in Requests, CommitTurn(r) PROVE Grows
    BY <1>1, <2>2, CommitTurnStep DEF IInv, CommitTurn
  <2>3. ASSUME NEW r \in Requests, CommitRemoval(r) PROVE Grows
    BY <2>3 DEF CommitRemoval
  <2>4. ASSUME NEW r \in Requests, Receive(r) \/ Serve(r) \/ Fail(r),
               ~CommitTurn(r), ~CommitRemoval(r)
        PROVE  messages' = messages
    BY <2>4 DEF Serve, Receive, CreateChat, SavePast, OpenChat, LoadMessages, Answer,
                TouchChat, InsertQuestion, InsertReply, Insert, Remove, Respond, Fail
  <2> QED
    BY <1>1, <2>1, <2>2, <2>3, <2>4 DEF Next, Finished, vars
<1>2. IInv /\ [Next]_vars => [Grows]_vars
  BY <1>1
<1> QED
  BY <1>2, Invariance, PTL DEF Spec, GrowsAtTheEnd

\* What a turn was given has no hole, then or later.
THEOREM ContextIsContiguous == Spec => []ContextHasNoHole
<1>1. IInv => ContextHasNoHole
  BY DEF IInv, Data
<1> QED
  BY <1>1, Invariance, PTL

\* What the stream announces is saved.
THEOREM AnnouncementsHold == Spec => []AnnouncedIsSaved
<1>1. IInv => AnnouncedIsSaved
  BY DEF IInv, Control, Data, StagesOfKind, SavedStays, AnnouncedIsSaved
<1> QED
  BY <1>1, Invariance, PTL

\* Nothing comes back to a deleted conversation.
THEOREM DeletionIsFinal == Spec => []DeletedStaysEmpty
<1>1. IInv => DeletedStaysEmpty
  BY DEF IInv, Control, RowFirst, DeletedStaysEmpty
<1> QED
  BY <1>1, Invariance, PTL

===============================================================================
