----------------------------- MODULE GuestQuotaProofs -----------------------------
(***************************************************************************)
(* The guarantees of GuestQuota for any number of questions, any limit and  *)
(* any window.  What makes them inductive: at most one request holds the    *)
(* row; its draft is still what the upsert would compute now, because nobody*)
(* else could change the row since; and no slot was ever spent in a window  *)
(* later than the row's.                                                    *)
(***************************************************************************)
EXTENDS GuestQuota, FiniteSetTheorems, TLAPS

NowIsPast == \A r \in Requests : now[r] <= time

OneHolder ==
    \A r, s \in Requests : pc[r] \in Holding /\ pc[s] \in Holding => r = s

DraftIsCurrent ==
    \A r \in Requests :
        pc[r] \in Holding => Admissible(r) /\ draft[r] = Reserved(r)

SpentInThePast ==
    \A r \in Requests :
        pc[r] \in Spent => 0 < draft[r].resets /\ draft[r].resets <= row.resets

EveryWindowWithinLimit == \A w \in Nat : Cardinality(Charged(w)) <= Limit

IInv ==
    /\ TypeOK
    /\ NowIsPast
    /\ OneHolder
    /\ DraftIsCurrent
    /\ SpentInThePast
    /\ CountIsHonest
    /\ EveryWindowWithinLimit

USE DEF Holding, Streaming, Final, Stages, Spent

-------------------------------------------------------------------------------
\* Each window's charges are a finite set.
LEMMA ChargedFinite ==
    ASSUME NEW w PROVE IsFiniteSet(Charged(w)) /\ Cardinality(Charged(w)) \in Nat
BY RequestsAssumption, FS_Subset, FS_CardinalityType DEF Charged

LEMMA InitEstablishes == Init => IInv
<1> SUFFICES ASSUME Init PROVE IInv
  OBVIOUS
<1>1. \A w \in Nat : Charged(w) = {}
  BY DEF Init, Charged
<1>2. Cardinality({}) = 0
  BY FS_EmptySet
<1>3. TypeOK /\ NowIsPast /\ OneHolder /\ DraftIsCurrent /\ SpentInThePast
  BY TimeAssumption
     DEF Init, TypeOK, NowIsPast, OneHolder, DraftIsCurrent, SpentInThePast, Row, NoRow
<1>4. row.resets \in Nat /\ row.count = 0
  BY DEF Init, NoRow
<1>5. CountIsHonest
  BY <1>1, <1>2, <1>4 DEF CountIsHonest
<1>6. EveryWindowWithinLimit
  BY <1>1, <1>2, LimitAssumption DEF EveryWindowWithinLimit
<1> QED
  BY <1>3, <1>5, <1>6 DEF IInv

\* A committed reservation: the only step that changes the row.
Charge(r, stage) ==
    /\ pc[r] \in Holding
    /\ stage \in Spent
    /\ pc' = [pc EXCEPT ![r] = stage]
    /\ row' = draft[r]
    /\ UNCHANGED <<time, now, draft>>

\* Any other step of a request: it spends nothing and gives nothing back.
Move(r, stage) ==
    /\ stage \in Stages
    /\ pc[r] \in Spent <=> stage \in Spent
    /\ pc' = [pc EXCEPT ![r] = stage]
    /\ UNCHANGED row

\* A move leaves the charges of every window as they are.
LEMMA MoveKeepsCharges ==
    ASSUME TypeOK, NEW r \in Requests, NEW stage, Move(r, stage),
           \/ UNCHANGED draft
           \/ pc[r] \notin Spent /\ \E d : draft' = [draft EXCEPT ![r] = d]
    PROVE  /\ \A w : Charged(w)' = Charged(w)
           /\ \A s \in Requests : pc[s] \in Spent => draft'[s] = draft[s]
           /\ \A s \in Requests : pc'[s] \in Spent <=> pc[s] \in Spent
<1>1. \A s \in Requests : pc'[s] \in Spent <=> pc[s] \in Spent
  BY DEF Move, TypeOK
<1>2. \A s \in Requests : pc[s] \in Spent => draft'[s] = draft[s]
  BY DEF TypeOK
<1> QED
  BY <1>1, <1>2 DEF Charged

\* With the row and the charges as they were, the accounts still balance.
LEMMA SameAccounts ==
    ASSUME IInv, UNCHANGED row,
           \A w : Charged(w)' = Charged(w),
           \A s \in Requests : pc[s] \in Spent => draft'[s] = draft[s],
           \A s \in Requests : pc'[s] \in Spent <=> pc[s] \in Spent
    PROVE  SpentInThePast' /\ CountIsHonest' /\ EveryWindowWithinLimit'
<1>1. SpentInThePast'
  BY DEF IInv, SpentInThePast
<1>2. CountIsHonest'
  BY DEF IInv, CountIsHonest
<1>3. EveryWindowWithinLimit'
  BY DEF IInv, EveryWindowWithinLimit
<1> QED
  BY <1>1, <1>2, <1>3

\* A charge opens a window with its first slot, or spends one more of the open one.
LEMMA ChargePreserves ==
    ASSUME IInv, NEW r \in Requests, NEW stage, Charge(r, stage)
    PROVE  IInv'
<1> USE TimeAssumption, LimitAssumption
<1>0. PICK w0 \in Nat : w0 = draft[r].resets
  BY DEF IInv, TypeOK, Row
<1>1. /\ row \in Row /\ draft[r] \in Row /\ now[r] \in Nat
      /\ row.resets \in Nat /\ row.count \in Nat
  BY DEF IInv, TypeOK, Row
<1>2. TypeOK'
  BY <1>1 DEF IInv, TypeOK, Charge
<1>3. NowIsPast' /\ OneHolder'
  BY DEF IInv, NowIsPast, OneHolder, Charge, TypeOK
<1>4. DraftIsCurrent'
  BY DEF IInv, DraftIsCurrent, OneHolder, Charge, TypeOK
<1>5. pc'[r] = stage /\ \A s \in Requests \ {r} : pc'[s] = pc[s]
  BY DEF Charge, IInv, TypeOK
<1>6. /\ r \notin Charged(w0)
      /\ Charged(w0)' = Charged(w0) \cup {r}
      /\ \A w : w # w0 => Charged(w)' = Charged(w)
  <2>1. pc[r] \notin Spent /\ stage \in Spent /\ draft' = draft
    BY DEF Charge
  <2> QED BY <1>0, <1>5, <2>1 DEF Charged
<1>7. Cardinality(Charged(w0)') = Cardinality(Charged(w0)) + 1
  BY <1>6, ChargedFinite, FS_AddElement
<1>8. CASE Expired(r)
  <2>1. draft[r] = [count |-> 1, resets |-> now[r] + Day] /\ row.resets <= now[r]
    BY <1>8 DEF IInv, DraftIsCurrent, Reserved, Expired, Charge
  <2>2. row.resets < w0 /\ row'.resets = w0 /\ row'.count = 1
    BY <1>0, <1>1, <2>1 DEF Charge
  <2>3. Charged(w0) = {}
    BY <1>1, <2>2 DEF IInv, SpentInThePast, Charged, TypeOK, Row
  <2>4. Cardinality(Charged(w0)') = 1
    BY <1>7, <2>3, FS_EmptySet
  <2>5. SpentInThePast'
    BY <1>0, <1>1, <1>5, <2>2 DEF IInv, SpentInThePast, Charge, TypeOK, Row
  <2>6. CountIsHonest'
    BY <2>2, <2>4 DEF CountIsHonest
  <2>7. EveryWindowWithinLimit'
    BY <1>6, <2>4, LimitAssumption DEF IInv, EveryWindowWithinLimit
  <2> QED BY <1>2, <1>3, <1>4, <2>5, <2>6, <2>7 DEF IInv
<1>9. CASE ~Expired(r)
  <2>1. /\ draft[r] = [row EXCEPT !.count = @ + 1]
        /\ row.count < Limit
        /\ now[r] < row.resets
    <3>1. pc[r] \in Holding
      BY DEF Charge
    <3>2. Admissible(r) /\ draft[r] = Reserved(r)
      BY <3>1 DEF IInv, DraftIsCurrent
    <3> QED BY <1>1, <1>9, <3>2 DEF Reserved, Expired, Admissible
  <2>2. w0 = row.resets /\ row'.resets = w0 /\ row'.count = row.count + 1
    BY <1>0, <1>1, <2>1 DEF Charge, Row
  <2>3. Cardinality(Charged(w0)) = row.count
    BY <2>2 DEF IInv, CountIsHonest
  <2>4. SpentInThePast'
    BY <1>0, <1>1, <1>5, <2>1, <2>2 DEF IInv, SpentInThePast, Charge, TypeOK, Row
  <2>5. CountIsHonest'
    BY <1>7, <2>2, <2>3 DEF CountIsHonest
  <2>6. Cardinality(Charged(w0)') <= Limit
    BY <1>1, <1>7, <2>1, <2>3
  <2>7. EveryWindowWithinLimit'
    BY <1>6, <2>6 DEF IInv, EveryWindowWithinLimit
  <2> QED BY <1>2, <1>3, <1>4, <2>4, <2>5, <2>7 DEF IInv
<1> QED
  BY <1>8, <1>9

\* A move of a request that neither takes the row nor changes a draft.
LEMMA MovePreserves ==
    ASSUME IInv, NEW r \in Requests, NEW stage, Move(r, stage),
           stage \in Holding => pc[r] \in Holding,
           UNCHANGED <<time, draft>>,
           \/ UNCHANGED now
           \/ pc[r] \notin Holding /\ now' = [now EXCEPT ![r] = time]
    PROVE  IInv'
<1>1. TypeOK'
  BY DEF IInv, TypeOK, Move
<1>2. NowIsPast'
  BY DEF IInv, NowIsPast, TypeOK
<1>3. OneHolder'
  BY DEF IInv, OneHolder, TypeOK, Move
<1>4. DraftIsCurrent'
  BY DEF IInv, DraftIsCurrent, TypeOK, Move, Admissible, Reserved, Expired
<1>5. SpentInThePast' /\ CountIsHonest' /\ EveryWindowWithinLimit'
  BY MoveKeepsCharges, SameAccounts DEF IInv, Move
<1> QED
  BY <1>1, <1>2, <1>3, <1>4, <1>5 DEF IInv

\* An admitted request becomes the only holder, with a draft made from the row.
LEMMA ReservePreserves ==
    ASSUME IInv, NEW r \in Requests, Reserve(r)
    PROVE  IInv'
<1> USE TimeAssumption
<1>1. /\ Move(r, "answering")
      /\ pc[r] \notin Spent
      /\ draft' = [draft EXCEPT ![r] = Reserved(r)]
      /\ UNCHANGED <<time, now>>
  BY DEF Reserve, Goto, Move
<1>2. Reserved(r) \in Row
  BY DEF IInv, TypeOK, Row, Reserved
<1>3. TypeOK'
  BY <1>1, <1>2 DEF IInv, TypeOK, Move
<1>4. NowIsPast' /\ OneHolder'
  BY <1>1 DEF IInv, NowIsPast, OneHolder, Reserve, Waits, Move, TypeOK
<1>5. DraftIsCurrent'
  BY <1>1 DEF IInv, DraftIsCurrent, Reserve, Move, TypeOK, Admissible, Reserved, Expired
<1>6. SpentInThePast' /\ CountIsHonest' /\ EveryWindowWithinLimit'
  BY <1>1, MoveKeepsCharges, SameAccounts DEF IInv, Move
<1> QED
  BY <1>3, <1>4, <1>5, <1>6 DEF IInv

LEMMA StepPreserves == IInv /\ [Next]_vars => IInv'
<1> SUFFICES ASSUME IInv, [Next]_vars PROVE IInv'
  OBVIOUS
<1>1. ASSUME NEW r \in Requests, Ask(r) PROVE IInv'
  BY <1>1, MovePreserves DEF Ask, Goto, Move
<1>2. ASSUME NEW r \in Requests, Reserve(r) PROVE IInv'
  BY <1>2, ReservePreserves
<1>3. ASSUME NEW r \in Requests, Refuse(r) PROVE IInv'
  BY <1>3, MovePreserves DEF Refuse, Goto, Move
<1>4. ASSUME NEW r \in Requests, Answer(r) PROVE IInv'
  <2>1. CASE Reply(r)        BY <2>1, MovePreserves DEF Reply, Goto, Move
  <2>2. CASE CommitReply(r)  BY <2>2, ChargePreserves DEF CommitReply, Goto, Charge
  <2>3. CASE ChargeOnText(r) BY <2>3, ChargePreserves DEF ChargeOnText, Goto, Charge
  <2>4. CASE SendText(r)     BY <2>4, MovePreserves DEF SendText, Goto, Move
  <2>5. CASE SendDone(r)     BY <2>5, MovePreserves DEF SendDone, Goto, Move
  <2>6. CASE SendOnlyDone(r) BY <2>6, ChargePreserves DEF SendOnlyDone, Goto, Charge
  <2> QED BY <1>4, <2>1, <2>2, <2>3, <2>4, <2>5, <2>6 DEF Answer
<1>5. ASSUME NEW r \in Requests, Fail(r) PROVE IInv'
  <2>1. /\ Move(r, AfterFailure(pc[r]))
        /\ AfterFailure(pc[r]) \notin Holding
        /\ UNCHANGED <<time, now, draft>>
    BY <1>5 DEF Fail, Goto, Move, AfterFailure, RolledBack
  <2> QED BY <2>1, MovePreserves
<1>6. CASE Tick
  <2>1. time' = time + 1 /\ UNCHANGED <<row, pc, now, draft>>
    BY <1>6 DEF Tick
  <2>2. \A w : Charged(w)' = Charged(w)
    BY <2>1 DEF Charged
  <2>3. SpentInThePast' /\ CountIsHonest' /\ EveryWindowWithinLimit'
    BY <2>1, <2>2, SameAccounts
  <2>4. TypeOK' /\ NowIsPast'
    BY <2>1 DEF IInv, TypeOK, NowIsPast
  <2>5. OneHolder' /\ DraftIsCurrent'
    BY <2>1 DEF IInv, OneHolder, DraftIsCurrent, Admissible, Reserved, Expired
  <2> QED BY <2>3, <2>4, <2>5 DEF IInv
<1>7. CASE UNCHANGED vars
  <2>1. UNCHANGED <<time, row, pc, now, draft>>
    BY <1>7 DEF vars
  <2> QED BY <2>1 DEF IInv, TypeOK, NowIsPast, OneHolder, DraftIsCurrent, SpentInThePast,
                      CountIsHonest, EveryWindowWithinLimit, Charged, Admissible,
                      Reserved, Expired
<1> QED
  BY <1>1, <1>2, <1>3, <1>4, <1>5, <1>6, <1>7 DEF Next, Admission, Finished

-------------------------------------------------------------------------------
\* The inductive invariant holds throughout.
THEOREM Invariance == Spec => []IInv
BY InitEstablishes, StepPreserves, PTL DEF Spec

\* The types hold throughout.
THEOREM TypeCorrect == Spec => []TypeOK
<1>1. IInv => TypeOK
  BY DEF IInv
<1> QED
  BY <1>1, Invariance, PTL

\* No window gives more than Limit answers, however many questions arrive at once.
THEOREM LimitHolds == Spec => []WithinLimit
<1>1. IInv => WithinLimit
  BY DEF IInv, EveryWindowWithinLimit, WithinLimit, TypeOK, Row
<1> QED
  BY <1>1, Invariance, PTL

\* The committed count is exactly what was spent in the row's window.
THEOREM CountHolds == Spec => []CountIsHonest
<1>1. IInv => CountIsHonest
  BY DEF IInv
<1> QED
  BY <1>1, Invariance, PTL

\* A refusal means that Limit answers of an open window are paid for.
THEOREM RefusalsAreJustified == Spec => RefusedOnlyWhenSpent
<1>1. IInv /\ [Next]_vars =>
        [\A r \in Requests :
            Refuse(r) => /\ now[r] < row.resets
                         /\ Cardinality(Charged(row.resets)) = Limit]_vars
  <2> SUFFICES ASSUME IInv, NEW r \in Requests, Refuse(r)
               PROVE  now[r] < row.resets /\ Cardinality(Charged(row.resets)) = Limit
    OBVIOUS
  <2>1. row.resets \in Nat /\ row.count \in Nat /\ now[r] \in Nat
    BY DEF IInv, TypeOK, Row
  <2>2. now[r] < row.resets /\ row.count >= Limit
    BY <2>1, LimitAssumption DEF Refuse, Admissible, Expired
  <2>3. Cardinality(Charged(row.resets)) = row.count
    BY DEF IInv, CountIsHonest
  <2>4. Cardinality(Charged(row.resets)) <= Limit
    BY <2>1 DEF IInv, EveryWindowWithinLimit
  <2> QED BY <2>1, <2>2, <2>3, <2>4, LimitAssumption
<1> QED
  BY <1>1, Invariance, PTL DEF Spec, RefusedOnlyWhenSpent

\* A window that is open keeps its end.
THEOREM WindowsStand == Spec => WindowsDoNotSlide
<1>1. IInv /\ [Next]_vars => [row.resets > time => row'.resets = row.resets]_vars
  <2> SUFFICES ASSUME IInv, Next, row.resets > time PROVE row'.resets = row.resets
    OBVIOUS
  <2>1. ASSUME NEW r \in Requests, pc[r] \in Holding PROVE draft[r].resets = row.resets
    <3>1. ~Expired(r)
      BY DEF IInv, TypeOK, Row, NowIsPast, Expired
    <3> QED BY <2>1, <3>1 DEF IInv, DraftIsCurrent, Reserved, TypeOK, Row
  <2>2. ASSUME NEW r \in Requests, Answer(r) PROVE row'.resets = row.resets
    BY <2>1, <2>2 DEF Answer, Reply, CommitReply, ChargeOnText, SendText, SendDone,
                      SendOnlyDone
  <2>3. ASSUME NEW r \in Requests, Ask(r) \/ Admission(r) \/ Fail(r) PROVE row' = row
    BY <2>3 DEF Ask, Admission, Reserve, Refuse, Fail, RolledBack
  <2> QED BY <2>2, <2>3 DEF Next, Tick, Finished, vars
<1> QED
  BY <1>1, Invariance, PTL DEF Spec, WindowsDoNotSlide

===============================================================================
