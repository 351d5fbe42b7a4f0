------------------------------- MODULE GuestQuota -------------------------------
(***************************************************************************)
(* The daily allowance of a guest of the assistant: the reservation made by *)
(* services/anonymous_chat_limit.py and its repository, kept or given back  *)
(* by POST /assistant (api/v1/endpoints/assistant.py) and by the event      *)
(* stream of POST /assistant/stream (api/assistant_stream.py).  Each client *)
(* address has a row of its own; the module follows the requests of one.    *)
(***************************************************************************)
EXTENDS Naturals, FiniteSets

CONSTANTS
    Requests,   \* questions sent from the address, each handled once
    Limit,      \* anonymous_chat_daily_limit
    Day,        \* DAY_SECONDS, in ticks of the clock
    MaxTime     \* bound: the last tick

ASSUME RequestsAssumption == IsFiniteSet(Requests)
ASSUME LimitAssumption    == Limit \in Nat \ {0}
ASSUME TimeAssumption     == Day \in Nat \ {0} /\ MaxTime \in Nat

VARIABLES
    time,     \* utc_now(), in ticks
    row,      \* the committed row of anonymous_chat_quotas
    pc,       \* how far each request is
    now,      \* the time each request read before it reserved
    draft     \* the row as the open transaction of each request leaves it

vars == <<time, row, pc, now, draft>>

Row == [count : Nat, resets : Nat]

\* No row: it is inserted with the values that overwrite an expired one.
NoRow == [count |-> 0, resets |-> 0]

\* A request holds the row from its upsert to the end of its transaction.
Holding == {"answering", "replied"}

\* Text was sent, or is about to be, and the slot is spent.
Streaming == {"charged", "streaming"}

\* "answered" in full, "cut" short after the charge, "lost": replied but not charged.
Final  == {"answered", "cut", "lost", "failed", "refused"}
Stages == {"idle", "reserve"} \cup Holding \cup Streaming \cup Final

Spent == Streaming \cup {"answered", "cut"}

Init ==
    /\ time = 0
    /\ row = NoRow
    /\ pc = [r \in Requests |-> "idle"]
    /\ now = [r \in Requests |-> 0]
    /\ draft = [r \in Requests |-> NoRow]

-------------------------------------------------------------------------------
Goto(r, stage) == pc' = [pc EXCEPT ![r] = stage]

\* enforce: the clock is read before the upsert has waited for its turn.
Ask(r) ==
    /\ pc[r] = "idle"
    /\ now' = [now EXCEPT ![r] = time]
    /\ Goto(r, "reserve")
    /\ UNCHANGED <<time, row, draft>>

Expired(r) == row.resets <= now[r]

\* Mutant: the window starts again with every question.
Reserved_Sliding(r) ==
    [count  |-> IF Expired(r) THEN 1 ELSE row.count + 1,
     resets |-> now[r] + Day]

\* ON CONFLICT DO UPDATE SET ...
Reserved(r) ==
    IF Expired(r) THEN [count |-> 1, resets |-> now[r] + Day]
                  ELSE [row EXCEPT !.count = @ + 1]

\* Mutant: one question too many.
Admissible_OffByOne(r) == Expired(r) \/ row.count <= Limit

\* ... WHERE ...
Admissible(r) == Expired(r) \/ row.count < Limit

\* Mutant: the count is read without a lock.
Waits_PlainSelect(r) == FALSE

\* Mutant: a cancelled response leaves its session, and the row lock, open.
Waits_LockLeaked(r) ==
    \E s \in Requests \ {r} :
        pc[s] \in Holding \/ (pc[s] = "failed" /\ draft[s] # NoRow)

\* The upsert waits for the transaction that inserted or updated the row.
Waits(r) == \E s \in Requests \ {r} : pc[s] \in Holding

\* reserve: the whole statement, evaluated on the row as the last holder left it.
Reserve(r) ==
    /\ pc[r] = "reserve"
    /\ ~Waits(r)
    /\ Admissible(r)
    /\ draft' = [draft EXCEPT ![r] = Reserved(r)]
    /\ Goto(r, "answering")
    /\ UNCHANGED <<time, row, now>>

\* AnonymousChatLimitError: 429 with the time left, and the transaction rolled back.
Refuse(r) ==
    /\ pc[r] = "reserve"
    /\ ~Waits(r)
    /\ ~Admissible(r)
    /\ Goto(r, "refused")
    /\ UNCHANGED <<time, row, now, draft>>

-------------------------------------------------------------------------------
(* POST /assistant: get_session commits once the response has been sent.      *)

Reply(r) ==
    /\ pc[r] = "answering"
    /\ Goto(r, "replied")
    /\ UNCHANGED <<time, row, now, draft>>

CommitReply(r) ==
    /\ pc[r] = "replied"
    /\ row' = draft[r]
    /\ Goto(r, "answered")
    /\ UNCHANGED <<time, now, draft>>

-------------------------------------------------------------------------------
(* POST /assistant/stream: assistant_events commits before it sends.          *)

\* The first text ("charge_on_text"): commit ...
ChargeOnText(r) ==
    /\ pc[r] = "answering"
    /\ row' = draft[r]
    /\ Goto(r, "charged")
    /\ UNCHANGED <<time, now, draft>>

\* ... then the text event.
SendText(r) ==
    /\ pc[r] = "charged"
    /\ Goto(r, "streaming")
    /\ UNCHANGED <<time, row, now, draft>>

\* The complete answer after some text: nothing is left to commit.
SendDone(r) ==
    /\ pc[r] = "streaming"
    /\ Goto(r, "answered")
    /\ UNCHANGED <<time, row, now, draft>>

\* A complete answer without any text before it: commit, then the done event.
SendOnlyDone(r) ==
    /\ pc[r] = "answering"
    /\ row' = draft[r]
    /\ Goto(r, "answered")
    /\ UNCHANGED <<time, now, draft>>

-------------------------------------------------------------------------------
\* Mutant: the slot stays spent.
RolledBack_Kept(r) == draft[r]

\* What a rollback leaves in the table.
RolledBack(r) == row

AfterFailure(stage) ==
    CASE stage \in Streaming -> "cut"
      [] stage = "replied"   -> "lost"
      [] OTHER               -> "failed"

\* The model fails or is too slow, the client leaves, the commit fails, the worker
\* stops: whatever is not committed is rolled back, and the row released.
Fail(r) ==
    /\ pc[r] \in {"reserve"} \cup Holding \cup Streaming
    /\ row' = IF pc[r] \in Holding THEN RolledBack(r) ELSE row
    /\ Goto(r, AfterFailure(pc[r]))
    /\ UNCHANGED <<time, now, draft>>

Tick ==
    /\ time < MaxTime
    /\ time' = time + 1
    /\ UNCHANGED <<row, pc, now, draft>>

Finished ==
    /\ \A r \in Requests : pc[r] \in Final
    /\ time = MaxTime
    /\ UNCHANGED vars

Admission(r) == Reserve(r) \/ Refuse(r)

Answer(r) ==
    \/ Reply(r)
    \/ CommitReply(r)
    \/ ChargeOnText(r)
    \/ SendText(r)
    \/ SendDone(r)
    \/ SendOnlyDone(r)

Next ==
    \/ \E r \in Requests : Ask(r) \/ Admission(r) \/ Answer(r) \/ Fail(r)
    \/ Tick
    \/ Finished

Spec == Init /\ [][Next]_vars

\* An upsert whose row is free runs, and an answer that was begun completes or fails:
\* the model has assistant_timeout_seconds.  Waiting for the row has no time limit.
Fairness ==
    \A r \in Requests :
        /\ WF_vars(Admission(r))
        /\ WF_vars(pc[r] # "reserve" /\ (Answer(r) \/ Fail(r)))

FairSpec == Spec /\ Fairness

-------------------------------------------------------------------------------
(* Properties.                                                               *)

TypeOK ==
    /\ time \in Nat
    /\ row \in Row
    /\ pc \in [Requests -> Stages]
    /\ now \in [Requests -> Nat]
    /\ draft \in [Requests -> Row]

\* The requests that spent a slot of the window ending at w.
Charged(w) == {r \in Requests : pc[r] \in Spent /\ draft[r].resets = w}

\* anonymous_chat_quota_repository.py:24-28: however many questions arrive at once, no
\* window ever gives more than Limit answers that count.
WithinLimit == \A r \in Requests : Cardinality(Charged(draft[r].resets)) <= Limit

\* The committed count is the number of requests that spent a slot of this window: no
\* charge is lost, and a failed answer gives its slot back.
CountIsHonest == row.count = Cardinality(Charged(row.resets))

\* A guest is turned away only when Limit answers of a window that was open when the
\* question arrived are paid for: never because of answers still on their way, which
\* may fail yet.
RefusedOnlyWhenSpent ==
    [][\A r \in Requests :
          Refuse(r) => /\ now[r] < row.resets
                       /\ Cardinality(Charged(row.resets)) = Limit]_vars

\* A window ends when it was said to end, however often the guest asks meanwhile.
WindowsDoNotSlide ==
    [][row.resets > time => row'.resets = row.resets]_vars

\* Every question is answered, refused or failed: no transaction keeps the row for
\* ever, although the others of the address have to wait for it.
EveryQuestionEnds ==
    \A r \in Requests : pc[r] = "reserve" ~> pc[r] \in Final

===============================================================================
