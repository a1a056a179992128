--------------------------- MODULE IntentsProofs ---------------------------
(***************************************************************************)
(* Proofs about Intents, for any number of intents, calls and resources.   *)
(***************************************************************************)
EXTENDS Intents, SequenceTheorems, TLAPS

\* What stands in for no plan and no request is one of them.
LEMMA StandIns == NoPlan \in Plan /\ NoRequest \in Request
  <1>1. (CHOOSE k \in Classes : TRUE) \in Classes
    BY IntentsAssumption
  <1>2. (CHOOSE v \in Capabilities : TRUE) \in Capabilities
    BY IntentsAssumption
  <1>3. (CHOOSE i \in Intents : TRUE) \in Intents
    BY IntentsAssumption
  <1>4. QED
    BY <1>1, <1>2, <1>3 DEF NoPlan, NoRequest, Plan, Request, CommitTools

\* What a call is refused with.
LEMMA RefusalType ==
  ASSUME TypeOK, NEW c \in Calls
  PROVE  Refusal(c) \in Refusals \cup {"replay", "none"}
  <1> seen[c].status \in Status
    BY DEF TypeOK, Read
  <1> QED
    BY DEF Refusal, Settled, Refusals, Status

\* A refusal that speaks of the row's end read it.
LEMMA RefusalSays ==
  ASSUME TypeOK, NEW c \in Calls
  PROVE  /\ Refusal(c) = "replay" => seen[c].status = "committed"
         /\ Refusal(c) = "INTENT_EXPIRED" => seen[c].status = "expired"
         /\ Refusal(c) = "INTENT_STALE" => seen[c].status = "stale"
         /\ Refusal(c) = "INTENT_CONSUMED" => seen[c].status = "failed"
  <1> seen[c].status \in Status
    BY DEF TypeOK, Read
  <1> QED
    BY DEF Refusal, Settled, Status

\* Every step keeps the types.
LEMMA TypeStep == TypeOK /\ [Next]_vars => TypeOK'
  <1> USE IntentsAssumption
  <1> SUFFICES ASSUME TypeOK, [Next]_vars PROVE TypeOK'
    OBVIOUS
  <1> USE DEF TypeOK, Status, Open, Age, PC, Read, Answer, Running, ClaimSteps,
              BodySteps, rowVars, sourceVars, worldVars, callVars, Goto, Finish,
              Throw, Record, CanMove, Move
  <1>1. ASSUME NEW i \in Intents, PrepareTargets(i) PROVE TypeOK'
    BY <1>1 DEF PrepareTargets, Plan
  <1>2. ASSUME NEW i \in Intents, Sweep(i) PROVE TypeOK'
    BY <1>2 DEF Sweep
  <1>3. ASSUME NEW i \in Intents, Insert(i) PROVE TypeOK'
    BY <1>3 DEF Insert
  <1>4. ASSUME NEW i \in Intents, RecordPrepared(i) PROVE TypeOK'
    BY <1>4 DEF RecordPrepared, EvidenceKind
  <1>5. ASSUME NEW i \in Intents, RecordApprovalRequested(i) PROVE TypeOK'
    BY <1>5 DEF RecordApprovalRequested, EvidenceKind
  <1>6. ASSUME NEW i \in Intents, PrepareFails(i) PROVE TypeOK'
    BY <1>6 DEF PrepareFails
  <1>7. ASSUME NEW i \in Intents, PassExpiry(i) PROVE TypeOK'
    BY <1>7 DEF PassExpiry
  <1>8. ASSUME NEW i \in Intents, PassReplayDay(i) PROVE TypeOK'
    BY <1>8 DEF PassReplayDay
  <1>9. ASSUME NEW r \in Resources, MoveVersion(r) PROVE TypeOK'
    BY <1>9 DEF MoveVersion
  <1>10. ASSUME ChangeWorld PROVE TypeOK'
    BY <1>10 DEF ChangeWorld
  <1>11. ASSUME NEW c \in Calls, NEW input \in Arguments, Start(c, input) PROVE TypeOK'
    BY <1>11 DEF Start, Request, CommitInput
  <1>12. ASSUME NEW c \in Calls, Expire(c) PROVE TypeOK'
    <2> DEFINE i == request[c].intent
    <2> i \in Intents
      BY DEF Request
    <2>1. CASE status' = [status EXCEPT ![i] = "expired"] /\ Goto(c, "recordExpired")
      BY <1>12, <2>1 DEF Expire
    <2>2. CASE status' = status /\ Goto(c, next[c])
      BY <1>12, <2>2 DEF Expire
    <2> QED
      BY <1>12, <2>1, <2>2 DEF Expire
  <1>13. ASSUME NEW c \in Calls, RecordExpired(c) PROVE TypeOK'
    <2> DEFINE i == request[c].intent
    <2> i \in Intents
      BY DEF Request
    <2>1. CASE Goto(c, "decide") /\ seen' = [seen EXCEPT ![c] = [status |-> "expired", receipt |-> NoCall]]
      BY <1>13, <2>1 DEF RecordExpired, EvidenceKind
    <2>2. CASE Goto(c, "claim") /\ seen' = seen
      BY <1>13, <2>2 DEF RecordExpired, EvidenceKind
    <2> QED
      BY <1>13, <2>1, <2>2 DEF RecordExpired
  <1>14. ASSUME NEW c \in Calls, Select(c) PROVE TypeOK'
    BY <1>14 DEF Select, Request
  <1>15. ASSUME NEW c \in Calls, Refuse(c) PROVE TypeOK'
    BY <1>15, RefusalType DEF Refuse, Refusals
  <1>16. ASSUME NEW c \in Calls, Accept(c) PROVE TypeOK'
    BY <1>16 DEF Accept
  <1>17. ASSUME NEW c \in Calls, Claim(c) PROVE TypeOK'
    <2> DEFINE i == request[c].intent
    <2> i \in Intents
      BY DEF Request
    <2>1. CASE Move(c, "committing") /\ Goto(c, "reprepare") /\ next' = next
      BY <1>17, <2>1 DEF Claim
    <2>2. CASE status' = status /\ Goto(c, "expire") /\ next' = [next EXCEPT ![c] = "select"]
      BY <1>17, <2>2 DEF Claim
    <2> QED
      BY <1>17, <2>1, <2>2 DEF Claim
  <1>18. ASSUME NEW c \in Calls, MarkStale(c) PROVE TypeOK'
    <2> DEFINE i == request[c].intent
    <2> i \in Intents
      BY DEF Request
    <2>1. CASE Move(c, "stale") /\ Goto(c, "recordStale") /\ raised' = raised
      BY <1>18, <2>1 DEF MarkStale
    <2>2. CASE status' = status /\ Throw(c, "INTENT_STALE")
      BY <1>18, <2>2 DEF MarkStale
    <2> QED
      BY <1>18, <2>1, <2>2 DEF MarkStale
  <1>19. ASSUME NEW c \in Calls, RecordStale(c) PROVE TypeOK'
    BY <1>19 DEF RecordStale, EvidenceKind, Request
  <1>20. ASSUME NEW c \in Calls, Settle(c) PROVE TypeOK'
    <2> DEFINE i == request[c].intent
    <2> i \in Intents
      BY DEF Request
    <2>1. CASE Move(c, "committed") /\ receipt' = [receipt EXCEPT ![i] = c]
           /\ Goto(c, "recordCommitted") /\ answer' = answer
      BY <1>20, <2>1 DEF Settle
    <2>2. CASE status' = status /\ receipt' = receipt /\ Finish(c, "receipt")
      BY <1>20, <2>2 DEF Settle
    <2> QED
      BY <1>20, <2>1, <2>2 DEF Settle
  <1>21. ASSUME NEW c \in Calls, RecordCommitted(c) PROVE TypeOK'
    BY <1>21 DEF RecordCommitted, EvidenceKind, Request
  <1>22. ASSUME NEW c \in Calls, RecordIssued(c) PROVE TypeOK'
    BY <1>22 DEF RecordIssued, EvidenceKind, Request
  <1>23. ASSUME NEW c \in Calls, Catch(c) PROVE TypeOK'
    <2> DEFINE i == request[c].intent
    <2> i \in Intents
      BY DEF Request
    <2>1. CASE Move(c, "failed")
      BY <1>23, <2>1 DEF Catch, Refusals
    <2>2. CASE status' = status
      BY <1>23, <2>2 DEF Catch, Refusals
    <2> QED
      BY <1>23, <2>1, <2>2 DEF Catch
  <1>24. ASSUME NEW c \in Calls, Reprepare(c) PROVE TypeOK'
    <2> DEFINE i == request[c].intent
    <2> i \in Intents
      BY DEF Request
    <2>1. CASE Goto(c, "effect") /\ raised' = raised
      BY <1>24, <2>1 DEF Reprepare
    <2>2. CASE Goto(c, "stale") /\ raised' = raised
      BY <1>24, <2>2 DEF Reprepare
    <2>3. CASE Throw(c, "ERROR")
      BY <1>24, <2>3 DEF Reprepare
    <2> QED
      BY <1>24, <2>1, <2>2, <2>3 DEF Reprepare
  <1>25. ASSUME NEW c \in Calls, Apply(c) PROVE TypeOK'
    <2> DEFINE i == request[c].intent
    <2> i \in Intents
      BY DEF Request
    <2>1. CASE Goto(c, "settle") /\ raised' = raised
      BY <1>25, <2>1 DEF Apply
    <2>2. CASE Throw(c, "ERROR")
      BY <1>25, <2>2 DEF Apply
    <2> QED
      BY <1>25, <2>1, <2>2 DEF Apply
  <1>26. ASSUME NEW c \in Calls, ApplyFails(c) PROVE TypeOK'
    BY <1>26 DEF ApplyFails
  <1>27. ASSUME NEW c \in Calls, Timeout(c) PROVE TypeOK'
    BY <1>27 DEF Timeout
  <1>28. ASSUME NEW c \in Calls, StatementFails(c) PROVE TypeOK'
    <2> DEFINE i == request[c].intent
    <2> i \in Intents
      BY DEF Request
    <2>1. CASE Finish(c, "ERROR") /\ raised' = raised
      BY <1>28, <2>1 DEF StatementFails
    <2>2. CASE Throw(c, "ERROR") /\ answer' = answer
      BY <1>28, <2>2 DEF StatementFails
    <2> QED
      BY <1>28, <2>1, <2>2 DEF StatementFails
  <1>29. ASSUME NEW c \in Calls, Die(c) PROVE TypeOK'
    BY <1>29 DEF Die
  <1>30. CASE UNCHANGED vars
    BY <1>30 DEF vars
  <1> QED
    BY <1>1, <1>2, <1>3, <1>4, <1>5, <1>6, <1>7, <1>8, <1>9, <1>10, <1>11, <1>12, <1>13,
         <1>14, <1>15, <1>16, <1>17, <1>18, <1>19, <1>20, <1>21, <1>22, <1>23, <1>24,
         <1>25, <1>26, <1>27, <1>28, <1>29, <1>30
    DEF Next, PrepareStep, CallStep, SdkStep, AuthorStep, EnvironmentStep

\* Every variable keeps to its type, in any instance.
THEOREM TypeCorrect == Spec => []TypeOK
  <1>1. Init => TypeOK
    BY StandIns, IntentsAssumption DEF Init, TypeOK, Status, Age, PC, Read, Answer
  <1>2. QED
    BY <1>1, TypeStep, PTL DEF Spec

-----------------------------------------------------------------------------
\* The parts of Inv beside the type invariant.
Untyped == /\ AppliedOnce /\ UnclaimedIsUntouched /\ BodyOwnsItsIntent
           /\ StatusIsTrue /\ KnowledgeIsTrue /\ AnswersAreTrue

\* Every step keeps the inductive invariant.
LEMMA InvStep == Inv /\ [Next]_vars => Inv'
  <1> SUFFICES ASSUME Inv, [Next]_vars PROVE Inv'
    OBVIOUS
  <1>1. TypeOK /\ TypeOK'
    BY TypeStep DEF Inv
  <1> USE DEF Open, Over, ClaimSteps, BodySteps, rowVars, sourceVars, worldVars,
              callVars, Goto, Finish, Throw, Record, CanMove, Move
  <1> USE DEF TypeOK, Status, PC, Read, Request, Answer, Refusals
  <1> USE DEF Inv, Untyped, AppliedOnce, UnclaimedIsUntouched, BodyOwnsItsIntent, StatusIsTrue, KnowledgeIsTrue, AnswersAreTrue
  <1>2. Untyped'
    <2>1. ASSUME NEW i \in Intents, PrepareTargets(i) PROVE Untyped'
      BY <2>1 DEF PrepareTargets
    <2>2. ASSUME NEW i \in Intents, Sweep(i) PROVE Untyped'
      <3>1. AppliedOnce'
        BY <2>2 DEF Sweep, Removable
      <3>2. UnclaimedIsUntouched'
        BY <2>2 DEF Sweep, Removable
      <3>3. BodyOwnsItsIntent'
        BY <2>2 DEF Sweep, Removable
      <3>4. StatusIsTrue'
        BY <2>2 DEF Sweep, Removable
      <3>5. KnowledgeIsTrue'
        BY <2>2 DEF Sweep, Removable
      <3>6. AnswersAreTrue'
        BY <2>2 DEF Sweep, Removable
      <3> QED
        BY <3>1, <3>2, <3>3, <3>4, <3>5, <3>6
    <2>3. ASSUME NEW i \in Intents, Insert(i) PROVE Untyped'
      BY <2>3 DEF Insert
    <2>4. ASSUME NEW i \in Intents, RecordPrepared(i) PROVE Untyped'
      BY <2>4 DEF RecordPrepared
    <2>5. ASSUME NEW i \in Intents, RecordApprovalRequested(i) PROVE Untyped'
      BY <2>5 DEF RecordApprovalRequested
    <2>6. ASSUME NEW i \in Intents, PrepareFails(i) PROVE Untyped'
      BY <2>6 DEF PrepareFails
    <2>7. ASSUME NEW i \in Intents, PassExpiry(i) PROVE Untyped'
      BY <2>7 DEF PassExpiry
    <2>8. ASSUME NEW i \in Intents, PassReplayDay(i) PROVE Untyped'
      BY <2>8 DEF PassReplayDay
    <2>9. ASSUME NEW r \in Resources, MoveVersion(r) PROVE Untyped'
      BY <2>9 DEF MoveVersion
    <2>10. ASSUME ChangeWorld PROVE Untyped'
      BY <2>10 DEF ChangeWorld
    <2>11. ASSUME NEW c \in Calls, NEW input \in Arguments, Start(c, input) PROVE Untyped'
      BY <2>11 DEF Start
    <2>12. ASSUME NEW c \in Calls, Expire(c) PROVE Untyped'
      <3> DEFINE i == request[c].intent
      <3> i \in Intents
        OBVIOUS
      <3>1. CASE status[i] \in Open /\ status' = [status EXCEPT ![i] = "expired"] /\ Goto(c, "recordExpired")
        <4>1. AppliedOnce'
          BY <2>12, <3>1 DEF Expire
        <4>2. UnclaimedIsUntouched'
          BY <2>12, <3>1 DEF Expire
        <4>3. BodyOwnsItsIntent'
          BY <2>12, <3>1 DEF Expire
        <4>4. StatusIsTrue'
          BY <2>12, <3>1 DEF Expire
        <4>5. KnowledgeIsTrue'
          BY <2>12, <3>1 DEF Expire
        <4>6. AnswersAreTrue'
          BY <2>12, <3>1 DEF Expire
        <4> QED
          BY <4>1, <4>2, <4>3, <4>4, <4>5, <4>6
      <3>2. CASE status' = status /\ Goto(c, next[c])
        <4>0. next[c] \in {"select", "claim"}
          OBVIOUS
        <4>1. AppliedOnce'
          BY <2>12, <3>2, <4>0 DEF Expire
        <4>2. UnclaimedIsUntouched'
          BY <2>12, <3>2, <4>0 DEF Expire
        <4>3. BodyOwnsItsIntent'
          BY <2>12, <3>2, <4>0 DEF Expire
        <4>4. StatusIsTrue'
          BY <2>12, <3>2, <4>0 DEF Expire
        <4>5. KnowledgeIsTrue'
          BY <2>12, <3>2, <4>0 DEF Expire
        <4>6. AnswersAreTrue'
          BY <2>12, <3>2, <4>0 DEF Expire
        <4> QED
          BY <4>1, <4>2, <4>3, <4>4, <4>5, <4>6
      <3> QED
        BY <2>12, <3>1, <3>2 DEF Expire
    <2>13. ASSUME NEW c \in Calls, RecordExpired(c) PROVE Untyped'
      <3> DEFINE i == request[c].intent
      <3> i \in Intents
        OBVIOUS
      <3>1. CASE Goto(c, "decide") /\ seen' = [seen EXCEPT ![c] = [status |-> "expired", receipt |-> NoCall]]
        <4>1. AppliedOnce'
          BY <2>13, <3>1 DEF RecordExpired
        <4>2. UnclaimedIsUntouched'
          BY <2>13, <3>1 DEF RecordExpired
        <4>3. BodyOwnsItsIntent'
          BY <2>13, <3>1 DEF RecordExpired
        <4>4. StatusIsTrue'
          BY <2>13, <3>1 DEF RecordExpired
        <4>5. KnowledgeIsTrue'
          BY <2>13, <3>1 DEF RecordExpired
        <4>6. AnswersAreTrue'
          BY <2>13, <3>1 DEF RecordExpired
        <4> QED
          BY <4>1, <4>2, <4>3, <4>4, <4>5, <4>6
      <3>2. CASE Goto(c, "claim") /\ seen' = seen
        <4>1. AppliedOnce'
          BY <2>13, <3>2 DEF RecordExpired
        <4>2. UnclaimedIsUntouched'
          BY <2>13, <3>2 DEF RecordExpired
        <4>3. BodyOwnsItsIntent'
          BY <2>13, <3>2 DEF RecordExpired
        <4>4. StatusIsTrue'
          BY <2>13, <3>2 DEF RecordExpired
        <4>5. KnowledgeIsTrue'
          BY <2>13, <3>2 DEF RecordExpired
        <4>6. AnswersAreTrue'
          BY <2>13, <3>2 DEF RecordExpired
        <4> QED
          BY <4>1, <4>2, <4>3, <4>4, <4>5, <4>6
      <3> QED
        BY <2>13, <3>1, <3>2 DEF RecordExpired
    <2>14. ASSUME NEW c \in Calls, Select(c) PROVE Untyped'
      BY <2>14 DEF Select
    <2>15. ASSUME NEW c \in Calls, Refuse(c) PROVE Untyped'
      <3>1. AppliedOnce'
        BY <2>15, RefusalType, RefusalSays DEF Refuse
      <3>2. UnclaimedIsUntouched'
        BY <2>15, RefusalType, RefusalSays DEF Refuse
      <3>3. BodyOwnsItsIntent'
        BY <2>15, RefusalType, RefusalSays DEF Refuse
      <3>4. StatusIsTrue'
        BY <2>15, RefusalType, RefusalSays DEF Refuse
      <3>5. KnowledgeIsTrue'
        BY <2>15, RefusalType, RefusalSays DEF Refuse
      <3>6. AnswersAreTrue'
        BY <2>15, RefusalType, RefusalSays DEF Refuse
      <3> QED
        BY <3>1, <3>2, <3>3, <3>4, <3>5, <3>6
    <2>16. ASSUME NEW c \in Calls, Accept(c) PROVE Untyped'
      BY <2>16 DEF Accept
    <2>17. ASSUME NEW c \in Calls, Claim(c) PROVE Untyped'
      <3> DEFINE i == request[c].intent
      <3> i \in Intents
        OBVIOUS
      <3>1. CASE CanMove(c, "prepared") /\ Move(c, "committing") /\ Goto(c, "reprepare") /\ next' = next
        <4>1. AppliedOnce'
          BY <2>17, <3>1 DEF Claim
        <4>2. UnclaimedIsUntouched'
          BY <2>17, <3>1 DEF Claim
        <4>3. BodyOwnsItsIntent'
          BY <2>17, <3>1 DEF Claim
        <4>4. StatusIsTrue'
          BY <2>17, <3>1 DEF Claim
        <4>5. KnowledgeIsTrue'
          BY <2>17, <3>1 DEF Claim
        <4>6. AnswersAreTrue'
          BY <2>17, <3>1 DEF Claim
        <4> QED
          BY <4>1, <4>2, <4>3, <4>4, <4>5, <4>6
      <3>2. CASE status' = status /\ Goto(c, "expire") /\ next' = [next EXCEPT ![c] = "select"]
        <4>1. AppliedOnce'
          BY <2>17, <3>2 DEF Claim
        <4>2. UnclaimedIsUntouched'
          BY <2>17, <3>2 DEF Claim
        <4>3. BodyOwnsItsIntent'
          BY <2>17, <3>2 DEF Claim
        <4>4. StatusIsTrue'
          BY <2>17, <3>2 DEF Claim
        <4>5. KnowledgeIsTrue'
          BY <2>17, <3>2 DEF Claim
        <4>6. AnswersAreTrue'
          BY <2>17, <3>2 DEF Claim
        <4> QED
          BY <4>1, <4>2, <4>3, <4>4, <4>5, <4>6
      <3> QED
        BY <2>17, <3>1, <3>2 DEF Claim
    <2>18. ASSUME NEW c \in Calls, MarkStale(c) PROVE Untyped'
      <3> DEFINE i == request[c].intent
      <3> i \in Intents
        OBVIOUS
      <3>1. CASE CanMove(c, "committing") /\ Move(c, "stale") /\ Goto(c, "recordStale") /\ raised' = raised
        <4>1. AppliedOnce'
          BY <2>18, <3>1 DEF MarkStale
        <4>2. UnclaimedIsUntouched'
          BY <2>18, <3>1 DEF MarkStale
        <4>3. BodyOwnsItsIntent'
          BY <2>18, <3>1 DEF MarkStale
        <4>4. StatusIsTrue'
          BY <2>18, <3>1 DEF MarkStale
        <4>5. KnowledgeIsTrue'
          BY <2>18, <3>1 DEF MarkStale
        <4>6. AnswersAreTrue'
          BY <2>18, <3>1 DEF MarkStale
        <4> QED
          BY <4>1, <4>2, <4>3, <4>4, <4>5, <4>6
      <3>2. CASE ~CanMove(c, "committing") /\ status' = status /\ Throw(c, "INTENT_STALE")
        <4>1. AppliedOnce'
          BY <2>18, <3>2 DEF MarkStale
        <4>2. UnclaimedIsUntouched'
          BY <2>18, <3>2 DEF MarkStale
        <4>3. BodyOwnsItsIntent'
          BY <2>18, <3>2 DEF MarkStale
        <4>4. StatusIsTrue'
          BY <2>18, <3>2 DEF MarkStale
        <4>5. KnowledgeIsTrue'
          BY <2>18, <3>2 DEF MarkStale
        <4>6. AnswersAreTrue'
          BY <2>18, <3>2 DEF MarkStale
        <4> QED
          BY <4>1, <4>2, <4>3, <4>4, <4>5, <4>6
      <3> QED
        BY <2>18, <3>1, <3>2 DEF MarkStale
    <2>19. ASSUME NEW c \in Calls, RecordStale(c) PROVE Untyped'
      BY <2>19 DEF RecordStale
    <2>20. ASSUME NEW c \in Calls, Settle(c) PROVE Untyped'
      <3> DEFINE i == request[c].intent
      <3> i \in Intents
        OBVIOUS
      <3>1. CASE CanMove(c, "committing") /\ Move(c, "committed") /\ receipt' = [receipt EXCEPT ![i] = c]
             /\ Goto(c, "recordCommitted") /\ answer' = answer
        <4>1. AppliedOnce'
          BY <2>20, <3>1 DEF Settle
        <4>2. UnclaimedIsUntouched'
          BY <2>20, <3>1 DEF Settle
        <4>3. BodyOwnsItsIntent'
          BY <2>20, <3>1 DEF Settle
        <4>4. StatusIsTrue'
          BY <2>20, <3>1 DEF Settle
        <4>5. KnowledgeIsTrue'
          BY <2>20, <3>1 DEF Settle
        <4>6. AnswersAreTrue'
          BY <2>20, <3>1 DEF Settle
        <4> QED
          BY <4>1, <4>2, <4>3, <4>4, <4>5, <4>6
      <3>2. CASE ~CanMove(c, "committing") /\ status' = status /\ receipt' = receipt /\ Finish(c, "receipt")
        <4>1. AppliedOnce'
          BY <2>20, <3>2 DEF Settle
        <4>2. UnclaimedIsUntouched'
          BY <2>20, <3>2 DEF Settle
        <4>3. BodyOwnsItsIntent'
          BY <2>20, <3>2 DEF Settle
        <4>4. StatusIsTrue'
          BY <2>20, <3>2 DEF Settle
        <4>5. KnowledgeIsTrue'
          BY <2>20, <3>2 DEF Settle
        <4>6. AnswersAreTrue'
          BY <2>20, <3>2 DEF Settle
        <4> QED
          BY <4>1, <4>2, <4>3, <4>4, <4>5, <4>6
      <3> QED
        BY <2>20, <3>1, <3>2 DEF Settle
    <2>21. ASSUME NEW c \in Calls, RecordCommitted(c) PROVE Untyped'
      BY <2>21 DEF RecordCommitted
    <2>22. ASSUME NEW c \in Calls, RecordIssued(c) PROVE Untyped'
      BY <2>22 DEF RecordIssued
    <2>23. ASSUME NEW c \in Calls, Catch(c) PROVE Untyped'
      <3> DEFINE i == request[c].intent
      <3> i \in Intents
        OBVIOUS
      <3>1. CASE CanMove(c, "committing") /\ Move(c, "failed")
        <4>1. AppliedOnce'
          BY <2>23, <3>1 DEF Catch
        <4>2. UnclaimedIsUntouched'
          BY <2>23, <3>1 DEF Catch
        <4>3. BodyOwnsItsIntent'
          BY <2>23, <3>1 DEF Catch
        <4>4. StatusIsTrue'
          BY <2>23, <3>1 DEF Catch
        <4>5. KnowledgeIsTrue'
          BY <2>23, <3>1 DEF Catch
        <4>6. AnswersAreTrue'
          BY <2>23, <3>1 DEF Catch
        <4> QED
          BY <4>1, <4>2, <4>3, <4>4, <4>5, <4>6
      <3>2. CASE ~CanMove(c, "committing") /\ status' = status
        <4>1. AppliedOnce'
          BY <2>23, <3>2 DEF Catch
        <4>2. UnclaimedIsUntouched'
          BY <2>23, <3>2 DEF Catch
        <4>3. BodyOwnsItsIntent'
          BY <2>23, <3>2 DEF Catch
        <4>4. StatusIsTrue'
          BY <2>23, <3>2 DEF Catch
        <4>5. KnowledgeIsTrue'
          BY <2>23, <3>2 DEF Catch
        <4>6. AnswersAreTrue'
          BY <2>23, <3>2 DEF Catch
        <4> QED
          BY <4>1, <4>2, <4>3, <4>4, <4>5, <4>6
      <3> QED
        BY <2>23, <3>1, <3>2 DEF Catch
    <2>24. ASSUME NEW c \in Calls, Reprepare(c) PROVE Untyped'
      <3> DEFINE i == request[c].intent
      <3> i \in Intents
        OBVIOUS
      <3>1. CASE Goto(c, "effect")
        <4>1. AppliedOnce'
          BY <2>24, <3>1 DEF Reprepare
        <4>2. UnclaimedIsUntouched'
          BY <2>24, <3>1 DEF Reprepare
        <4>3. BodyOwnsItsIntent'
          BY <2>24, <3>1 DEF Reprepare
        <4>4. StatusIsTrue'
          BY <2>24, <3>1 DEF Reprepare
        <4>5. KnowledgeIsTrue'
          BY <2>24, <3>1 DEF Reprepare
        <4>6. AnswersAreTrue'
          BY <2>24, <3>1 DEF Reprepare
        <4> QED
          BY <4>1, <4>2, <4>3, <4>4, <4>5, <4>6
      <3>2. CASE Goto(c, "stale")
        <4>1. AppliedOnce'
          BY <2>24, <3>2 DEF Reprepare
        <4>2. UnclaimedIsUntouched'
          BY <2>24, <3>2 DEF Reprepare
        <4>3. BodyOwnsItsIntent'
          BY <2>24, <3>2 DEF Reprepare
        <4>4. StatusIsTrue'
          BY <2>24, <3>2 DEF Reprepare
        <4>5. KnowledgeIsTrue'
          BY <2>24, <3>2 DEF Reprepare
        <4>6. AnswersAreTrue'
          BY <2>24, <3>2 DEF Reprepare
        <4> QED
          BY <4>1, <4>2, <4>3, <4>4, <4>5, <4>6
      <3>3. CASE Throw(c, "ERROR")
        <4>1. AppliedOnce'
          BY <2>24, <3>3 DEF Reprepare
        <4>2. UnclaimedIsUntouched'
          BY <2>24, <3>3 DEF Reprepare
        <4>3. BodyOwnsItsIntent'
          BY <2>24, <3>3 DEF Reprepare
        <4>4. StatusIsTrue'
          BY <2>24, <3>3 DEF Reprepare
        <4>5. KnowledgeIsTrue'
          BY <2>24, <3>3 DEF Reprepare
        <4>6. AnswersAreTrue'
          BY <2>24, <3>3 DEF Reprepare
        <4> QED
          BY <4>1, <4>2, <4>3, <4>4, <4>5, <4>6
      <3> QED
        BY <2>24, <3>1, <3>2, <3>3 DEF Reprepare
    <2>25. ASSUME NEW c \in Calls, Apply(c) PROVE Untyped'
      <3> DEFINE i == request[c].intent
      <3> i \in Intents
        OBVIOUS
      <3>1. CASE Goto(c, "settle") /\ raised' = raised
        <4>1. AppliedOnce'
          BY <2>25, <3>1 DEF Apply
        <4>2. UnclaimedIsUntouched'
          BY <2>25, <3>1 DEF Apply
        <4>3. BodyOwnsItsIntent'
          BY <2>25, <3>1 DEF Apply
        <4>4. StatusIsTrue'
          BY <2>25, <3>1 DEF Apply
        <4>5. KnowledgeIsTrue'
          BY <2>25, <3>1 DEF Apply
        <4>6. AnswersAreTrue'
          BY <2>25, <3>1 DEF Apply
        <4> QED
          BY <4>1, <4>2, <4>3, <4>4, <4>5, <4>6
      <3>2. CASE Throw(c, "ERROR")
        <4>1. AppliedOnce'
          BY <2>25, <3>2 DEF Apply
        <4>2. UnclaimedIsUntouched'
          BY <2>25, <3>2 DEF Apply
        <4>3. BodyOwnsItsIntent'
          BY <2>25, <3>2 DEF Apply
        <4>4. StatusIsTrue'
          BY <2>25, <3>2 DEF Apply
        <4>5. KnowledgeIsTrue'
          BY <2>25, <3>2 DEF Apply
        <4>6. AnswersAreTrue'
          BY <2>25, <3>2 DEF Apply
        <4> QED
          BY <4>1, <4>2, <4>3, <4>4, <4>5, <4>6
      <3> QED
        BY <2>25, <3>1, <3>2 DEF Apply
    <2>26. ASSUME NEW c \in Calls, ApplyFails(c) PROVE Untyped'
      BY <2>26 DEF ApplyFails
    <2>27. ASSUME NEW c \in Calls, Timeout(c) PROVE Untyped'
      BY <2>27 DEF Timeout
    <2>28. ASSUME NEW c \in Calls, StatementFails(c) PROVE Untyped'
      <3> DEFINE i == request[c].intent
      <3> i \in Intents
        OBVIOUS
      <3>1. CASE Finish(c, "ERROR") /\ raised' = raised
        <4>1. AppliedOnce'
          BY <2>28, <3>1 DEF StatementFails
        <4>2. UnclaimedIsUntouched'
          BY <2>28, <3>1 DEF StatementFails
        <4>3. BodyOwnsItsIntent'
          BY <2>28, <3>1 DEF StatementFails
        <4>4. StatusIsTrue'
          BY <2>28, <3>1 DEF StatementFails
        <4>5. KnowledgeIsTrue'
          BY <2>28, <3>1 DEF StatementFails
        <4>6. AnswersAreTrue'
          BY <2>28, <3>1 DEF StatementFails
        <4> QED
          BY <4>1, <4>2, <4>3, <4>4, <4>5, <4>6
      <3>2. CASE Throw(c, "ERROR") /\ answer' = answer
        <4>1. AppliedOnce'
          BY <2>28, <3>2 DEF StatementFails
        <4>2. UnclaimedIsUntouched'
          BY <2>28, <3>2 DEF StatementFails
        <4>3. BodyOwnsItsIntent'
          BY <2>28, <3>2 DEF StatementFails
        <4>4. StatusIsTrue'
          BY <2>28, <3>2 DEF StatementFails
        <4>5. KnowledgeIsTrue'
          BY <2>28, <3>2 DEF StatementFails
        <4>6. AnswersAreTrue'
          BY <2>28, <3>2 DEF StatementFails
        <4> QED
          BY <4>1, <4>2, <4>3, <4>4, <4>5, <4>6
      <3> QED
        BY <2>28, <3>1, <3>2 DEF StatementFails
    <2>29. ASSUME NEW c \in Calls, Die(c) PROVE Untyped'
      <3>1. AppliedOnce'
        BY <2>29 DEF Die, Running
      <3>2. UnclaimedIsUntouched'
        BY <2>29 DEF Die, Running
      <3>3. BodyOwnsItsIntent'
        BY <2>29 DEF Die, Running
      <3>4. StatusIsTrue'
        BY <2>29 DEF Die, Running
      <3>5. KnowledgeIsTrue'
        BY <2>29 DEF Die, Running
      <3>6. AnswersAreTrue'
        BY <2>29 DEF Die, Running
      <3> QED
        BY <3>1, <3>2, <3>3, <3>4, <3>5, <3>6
    <2>30. CASE UNCHANGED vars
      BY <2>30 DEF vars
    <2> QED
      BY ZenonT(30), <2>1, <2>2, <2>3, <2>4, <2>5, <2>6, <2>7, <2>8, <2>9, <2>10, <2>11, <2>12,
           <2>13, <2>14, <2>15, <2>16, <2>17, <2>18, <2>19, <2>20, <2>21, <2>22, <2>23,
           <2>24, <2>25, <2>26, <2>27, <2>28, <2>29, <2>30
      DEF Next, PrepareStep, CallStep, SdkStep, AuthorStep, EnvironmentStep
  <1> QED
    BY <1>1, <1>2 DEF Inv, Untyped

\* The inductive invariant holds in every reachable state.
THEOREM Invariance == Spec => []Inv
  <1>1. Init => Inv
    <2> SUFFICES ASSUME Init PROVE Inv
      OBVIOUS
    <2>1. TypeOK
      BY StandIns, IntentsAssumption DEF Init, TypeOK, Status, Age, PC, Read, Answer
    <2>2. Untyped
      BY <2>1 DEF Init, Untyped, AppliedOnce, UnclaimedIsUntouched, BodyOwnsItsIntent,
         StatusIsTrue, KnowledgeIsTrue, AnswersAreTrue, Open, BodySteps, Refusals
    <2> QED
      BY <2>1, <2>2 DEF Inv, Untyped
  <1>2. QED
    BY <1>1, InvStep, PTL DEF Spec

\* However many calls race, time out, die and are repeated, at most one of
\* them applies the intent.
THEOREM OneEffect == Spec => []AppliedOnce
  <1>1. Inv => AppliedOnce
    BY DEF Inv
  <1>2. QED
    BY <1>1, Invariance, PTL

\* Every receipt, new or replayed, is of the call that took effect.
THEOREM TrueReceipts == Spec => []ReceiptsAreTrue
  <1>1. Inv => ReceiptsAreTrue
    BY DEF Inv, AnswersAreTrue, KnowledgeIsTrue, ReceiptsAreTrue
  <1>2. QED
    BY <1>1, Invariance, PTL

\* An intent that is answered as over (expired, stale, consumed or swept: settled,
\* commitIntent) no call can apply any more; expired or stale, it never was.
THEOREM SafeToPrepareAgain == Spec => []PrepareAgainIsSafe
  <1>1. Inv => PrepareAgainIsSafe
    <2> SUFFICES ASSUME Inv, NEW c \in Calls, NEW i \in Intents, i = request[c].intent
                 PROVE  /\ answer[c] \in {"INTENT_EXPIRED", "INTENT_STALE"} => applied[i] = {}
                        /\ \/ answer[c] \in {"INTENT_EXPIRED", "INTENT_STALE", "INTENT_CONSUMED"}
                           \/ answer[c] = "INTENT_NOT_FOUND" /\ seen[c].status = "deleted"
                           => Spent(i)
      BY DEF PrepareAgainIsSafe, Inv, TypeOK, Request
    <2>1. status[i] \in Over \cup {"failed"} => Spent(i)
      BY DEF Inv, BodyOwnsItsIntent, Spent, Open, Over
    <2>2. answer[c] = "INTENT_CONSUMED" \/ seen[c].status = "deleted" => status[i] \in Over \cup {"failed"}
      BY DEF Inv, AnswersAreTrue, KnowledgeIsTrue, Over
    <2>3. answer[c] \in {"INTENT_EXPIRED", "INTENT_STALE"} => status[i] \in Over /\ applied[i] = {}
      BY DEF Inv, AnswersAreTrue
    <2> QED
      BY <2>1, <2>2, <2>3
  <1>2. QED
    BY <1>1, Invariance, PTL

\* A call that was refused has applied nothing.
THEOREM RefusedIsUnapplied == Spec => []RefusalAppliesNothing
  <1>1. Inv => RefusalAppliesNothing
    BY DEF Inv, AnswersAreTrue, RefusalAppliesNothing
  <1>2. QED
    BY <1>1, Invariance, PTL

-----------------------------------------------------------------------------
(***************************************************************************)
(* The protocol implements the one-shot mutation.                          *)
(***************************************************************************)
LEMMA OnceActions ==
  ASSUME NEW i \in Intents
  PROVE  /\ Once!Open(i) \/ Once!Take(i) \/ Once!Close(i) => Once!Next
         /\ \A c \in Calls : Once!Effect(i, c) \/ Once!Issue(i, c) => Once!Next
  BY DEF Once!Next

\* Every step is one of OneShot's or a stutter.
LEMMA OnceStep == Inv /\ [Next]_vars => [Once!Next]_(Once!vars)
  <1>0. SUFFICES ASSUME Inv, [Next]_vars PROVE [Once!Next]_(Once!vars)
    OBVIOUS
  <1> USE DEF TypeOK, Status, Open, rowVars, sourceVars, worldVars, callVars,
              Goto, Finish, Throw, Record, CanMove, Move, Life, Once!vars
  <1> USE DEF Inv, UnclaimedIsUntouched, BodyOwnsItsIntent, StatusIsTrue
  <1>1. ASSUME NEW i \in Intents, PrepareTargets(i) PROVE [Once!Next]_(Once!vars)
    BY <1>1 DEF PrepareTargets
  <1>2. ASSUME NEW i \in Intents, Sweep(i) PROVE [Once!Next]_(Once!vars)
    <2> DEFINE stages == [j \in Intents |-> Life(j)]
               S == {j \in Intents : Removable(j) /\ status[j] \in Open}
    <2>1. \A j \in Intents : Life(j)' = IF j \in S THEN "closed" ELSE Life(j)
      BY <1>0, <1>2 DEF Sweep, Removable
    <2>2. stages' = [j \in Intents |-> IF j \in S THEN "closed" ELSE stages[j]]
      BY <2>1
    <2>3. S \in SUBSET {j \in Intents : stages[j] = "open"}
      OBVIOUS
    <2>4. UNCHANGED <<applied, receipt>>
      BY <1>0, <1>2 DEF Sweep
    <2>5. Once!CloseOpen
      BY ONLY <2>2, <2>3, <2>4 DEF Once!CloseOpen
    <2> QED
      BY <2>5 DEF Once!Next
  <1>3. ASSUME NEW i \in Intents, Insert(i) PROVE [Once!Next]_(Once!vars)
    <2>1. status[i] = "absent"
      BY <1>0, <1>3 DEF Insert
    <2>2. Once!Open(i)
      BY <1>0, <1>3, <2>1 DEF Insert, Once!Open, Once!Become
    <2> QED
      BY <2>2, OnceActions
  <1>4. ASSUME NEW i \in Intents, RecordPrepared(i) PROVE [Once!Next]_(Once!vars)
    BY <1>4 DEF RecordPrepared
  <1>5. ASSUME NEW i \in Intents, RecordApprovalRequested(i) PROVE [Once!Next]_(Once!vars)
    BY <1>5 DEF RecordApprovalRequested
  <1>6. ASSUME NEW i \in Intents, PrepareFails(i) PROVE [Once!Next]_(Once!vars)
    BY <1>6 DEF PrepareFails
  <1>7. ASSUME NEW i \in Intents, PassExpiry(i) PROVE [Once!Next]_(Once!vars)
    BY <1>7 DEF PassExpiry
  <1>8. ASSUME NEW i \in Intents, PassReplayDay(i) PROVE [Once!Next]_(Once!vars)
    BY <1>8 DEF PassReplayDay
  <1>9. ASSUME NEW r \in Resources, MoveVersion(r) PROVE [Once!Next]_(Once!vars)
    BY <1>9 DEF MoveVersion
  <1>10. ASSUME ChangeWorld PROVE [Once!Next]_(Once!vars)
    BY <1>10 DEF ChangeWorld
  <1>11. ASSUME NEW c \in Calls, NEW input \in Arguments, Start(c, input) PROVE [Once!Next]_(Once!vars)
    BY <1>11 DEF Start
  <1>12. ASSUME NEW c \in Calls, Expire(c) PROVE [Once!Next]_(Once!vars)
    <2> PICK i \in Intents : i = request[c].intent
      BY <1>0 DEF Request
    <2>1. CASE status[i] \in Open /\ status' = [status EXCEPT ![i] = "expired"]
      <3>1. Life(i) = "open" /\ UNCHANGED <<applied, receipt>>
        BY <1>0, <1>12, <2>1 DEF Expire
      <3>2. \A j \in Intents : Life(j)' = IF j = i THEN "closed" ELSE Life(j)
        BY <1>0, <2>1
      <3>3. Once!Close(i)
        BY <3>1, <3>2 DEF Once!Close, Once!Become
      <3> QED
        BY <3>3, OnceActions
    <2>2. CASE UNCHANGED <<status, receipt, applied>>
      BY <2>2
    <2> QED
      BY <1>0, <1>12, <2>1, <2>2 DEF Expire
  <1>13. ASSUME NEW c \in Calls, RecordExpired(c) PROVE [Once!Next]_(Once!vars)
    BY <1>13 DEF RecordExpired
  <1>14. ASSUME NEW c \in Calls, Select(c) PROVE [Once!Next]_(Once!vars)
    BY <1>14 DEF Select
  <1>15. ASSUME NEW c \in Calls, Refuse(c) PROVE [Once!Next]_(Once!vars)
    BY <1>15 DEF Refuse
  <1>16. ASSUME NEW c \in Calls, Accept(c) PROVE [Once!Next]_(Once!vars)
    BY <1>16 DEF Accept
  <1>17. ASSUME NEW c \in Calls, Claim(c) PROVE [Once!Next]_(Once!vars)
    <2> PICK i \in Intents : i = request[c].intent
      BY <1>0 DEF Request
    <2>1. CASE CanMove(c, "prepared") /\ Move(c, "committing")
      <3>1. Life(i) = "open" /\ UNCHANGED <<applied, receipt>>
        BY <1>0, <1>17, <2>1 DEF Claim
      <3>2. \A j \in Intents : Life(j)' = IF j = i THEN "taken" ELSE Life(j)
        BY <1>0, <2>1
      <3>3. Once!Take(i)
        BY <3>1, <3>2 DEF Once!Take, Once!Become
      <3> QED
        BY <3>3, OnceActions
    <2>2. CASE UNCHANGED <<status, receipt, applied>>
      BY <2>2
    <2> QED
      BY <1>0, <1>17, <2>1, <2>2 DEF Claim
  <1>18. ASSUME NEW c \in Calls, MarkStale(c) PROVE [Once!Next]_(Once!vars)
    <2> PICK i \in Intents : i = request[c].intent
      BY <1>0 DEF Request
    <2>1. CASE CanMove(c, "committing") /\ Move(c, "stale")
      <3>1. Life(i) = "taken" /\ UNCHANGED <<applied, receipt>>
        BY <1>0, <1>18, <2>1 DEF MarkStale
      <3>2. \A j \in Intents : Life(j)' = IF j = i THEN "closed" ELSE Life(j)
        BY <1>0, <2>1
      <3>3. Once!Close(i)
        BY <3>1, <3>2 DEF Once!Close, Once!Become
      <3> QED
        BY <3>3, OnceActions
    <2>2. CASE UNCHANGED <<status, receipt, applied>>
      BY <2>2
    <2> QED
      BY <1>0, <1>18, <2>1, <2>2 DEF MarkStale
  <1>19. ASSUME NEW c \in Calls, RecordStale(c) PROVE [Once!Next]_(Once!vars)
    BY <1>19 DEF RecordStale
  <1>20. ASSUME NEW c \in Calls, Settle(c) PROVE [Once!Next]_(Once!vars)
    <2> PICK i \in Intents : i = request[c].intent
      BY <1>0 DEF Request
    <2>1. CASE /\ CanMove(c, "committing") /\ Move(c, "committed")
             /\ receipt' = [receipt EXCEPT ![i] = c]
      <3>1. Life(i) = "taken" /\ applied[i] = {c} /\ UNCHANGED applied
        BY <1>0, <1>20, <2>1 DEF Settle
      <3>2. \A j \in Intents : Life(j)' = IF j = i THEN "closed" ELSE Life(j)
        BY <1>0, <2>1
      <3>3. Once!Issue(i, c)
        BY <2>1, <3>1, <3>2 DEF Once!Issue, Once!Become
      <3> QED
        BY <3>3, OnceActions
    <2>2. CASE UNCHANGED <<status, receipt, applied>>
      BY <2>2
    <2> QED
      BY <1>0, <1>20, <2>1, <2>2 DEF Settle
  <1>21. ASSUME NEW c \in Calls, RecordCommitted(c) PROVE [Once!Next]_(Once!vars)
    BY <1>21 DEF RecordCommitted
  <1>22. ASSUME NEW c \in Calls, RecordIssued(c) PROVE [Once!Next]_(Once!vars)
    BY <1>22 DEF RecordIssued
  <1>23. ASSUME NEW c \in Calls, Catch(c) PROVE [Once!Next]_(Once!vars)
    <2> PICK i \in Intents : i = request[c].intent
      BY <1>0 DEF Request
    <2>1. CASE CanMove(c, "committing") /\ Move(c, "failed")
      <3>1. Life(i) = "taken" /\ UNCHANGED <<applied, receipt>>
        BY <1>0, <1>23, <2>1 DEF Catch
      <3>2. \A j \in Intents : Life(j)' = IF j = i THEN "closed" ELSE Life(j)
        BY <1>0, <2>1
      <3>3. Once!Close(i)
        BY <3>1, <3>2 DEF Once!Close, Once!Become
      <3> QED
        BY <3>3, OnceActions
    <2>2. CASE UNCHANGED <<status, receipt, applied>>
      BY <2>2
    <2> QED
      BY <1>0, <1>23, <2>1, <2>2 DEF Catch
  <1>24. ASSUME NEW c \in Calls, Reprepare(c) PROVE [Once!Next]_(Once!vars)
    BY <1>24 DEF Reprepare
  <1>25. ASSUME NEW c \in Calls, Apply(c) PROVE [Once!Next]_(Once!vars)
    <2> PICK i \in Intents : i = request[c].intent
      BY <1>0 DEF Request
    <2>1. status[i] = "committing" /\ applied[i] = {}
      BY <1>0, <1>25 DEF Apply
    <2>2. Once!Effect(i, c)
      BY <1>0, <1>25, <2>1 DEF Apply, Once!Effect
    <2> QED
      BY <2>2, OnceActions
  <1>26. ASSUME NEW c \in Calls, ApplyFails(c) PROVE [Once!Next]_(Once!vars)
    BY <1>26 DEF ApplyFails
  <1>27. ASSUME NEW c \in Calls, Timeout(c) PROVE [Once!Next]_(Once!vars)
    BY <1>27 DEF Timeout
  <1>28. ASSUME NEW c \in Calls, StatementFails(c) PROVE [Once!Next]_(Once!vars)
    BY <1>28 DEF StatementFails
  <1>29. ASSUME NEW c \in Calls, Die(c) PROVE [Once!Next]_(Once!vars)
    BY <1>29 DEF Die
  <1>30. CASE UNCHANGED vars
    BY <1>30 DEF vars
  <1> QED
    BY <1>0, <1>1, <1>2, <1>3, <1>4, <1>5, <1>6, <1>7, <1>8, <1>9, <1>10, <1>11, <1>12,
         <1>13, <1>14, <1>15, <1>16, <1>17, <1>18, <1>19, <1>20, <1>21, <1>22, <1>23,
         <1>24, <1>25, <1>26, <1>27, <1>28, <1>29, <1>30
    DEF Next, PrepareStep, CallStep, SdkStep, AuthorStep, EnvironmentStep

\* The prepare and commit protocol implements the one-shot mutation.
THEOREM ImplementsOneShot == Spec => IsOneShot
  <1>1. Init => Once!Init
    BY DEF Init, Once!Init, Life
  <1>2. QED
    BY <1>1, OnceStep, Invariance, PTL DEF Spec, IsOneShot, Once!Spec

-----------------------------------------------------------------------------
(***************************************************************************)
(* Rows move forward.                                                      *)
(***************************************************************************)
Step == \A i \in Intents :
  /\ status'[i] # status[i] => status'[i] \in Forward(status[i])
  /\ receipt[i] # NoCall => receipt'[i] = receipt[i]

\* Every step moves rows forward only.
LEMMA ForwardStep == Inv /\ [Next]_vars => Step
  <1>0. SUFFICES ASSUME Inv, [Next]_vars PROVE Step
    OBVIOUS
  <1> USE DEF TypeOK, Status, Open, rowVars, sourceVars, worldVars, callVars,
              Goto, Finish, Throw, Record, CanMove, Move, Step, Forward, Request
  <1> USE DEF Inv, UnclaimedIsUntouched, StatusIsTrue
  <1>1. ASSUME NEW i \in Intents, PrepareTargets(i) PROVE Step
    BY <1>0, <1>1 DEF PrepareTargets
  <1>2. ASSUME NEW i \in Intents, Sweep(i) PROVE Step
    BY <1>0, <1>2 DEF Sweep, Removable
  <1>3. ASSUME NEW i \in Intents, Insert(i) PROVE Step
    BY <1>0, <1>3 DEF Insert
  <1>4. ASSUME NEW i \in Intents, RecordPrepared(i) PROVE Step
    BY <1>0, <1>4 DEF RecordPrepared
  <1>5. ASSUME NEW i \in Intents, RecordApprovalRequested(i) PROVE Step
    BY <1>0, <1>5 DEF RecordApprovalRequested
  <1>6. ASSUME NEW i \in Intents, PrepareFails(i) PROVE Step
    BY <1>0, <1>6 DEF PrepareFails
  <1>7. ASSUME NEW i \in Intents, PassExpiry(i) PROVE Step
    BY <1>0, <1>7 DEF PassExpiry
  <1>8. ASSUME NEW i \in Intents, PassReplayDay(i) PROVE Step
    BY <1>0, <1>8 DEF PassReplayDay
  <1>9. ASSUME NEW r \in Resources, MoveVersion(r) PROVE Step
    BY <1>0, <1>9 DEF MoveVersion
  <1>10. ASSUME ChangeWorld PROVE Step
    BY <1>0, <1>10 DEF ChangeWorld
  <1>11. ASSUME NEW c \in Calls, NEW input \in Arguments, Start(c, input) PROVE Step
    BY <1>0, <1>11 DEF Start
  <1>12. ASSUME NEW c \in Calls, Expire(c) PROVE Step
    BY <1>0, <1>12 DEF Expire
  <1>13. ASSUME NEW c \in Calls, RecordExpired(c) PROVE Step
    BY <1>0, <1>13 DEF RecordExpired
  <1>14. ASSUME NEW c \in Calls, Select(c) PROVE Step
    BY <1>0, <1>14 DEF Select
  <1>15. ASSUME NEW c \in Calls, Refuse(c) PROVE Step
    BY <1>0, <1>15 DEF Refuse
  <1>16. ASSUME NEW c \in Calls, Accept(c) PROVE Step
    BY <1>0, <1>16 DEF Accept
  <1>17. ASSUME NEW c \in Calls, Claim(c) PROVE Step
    BY <1>0, <1>17 DEF Claim
  <1>18. ASSUME NEW c \in Calls, MarkStale(c) PROVE Step
    BY <1>0, <1>18 DEF MarkStale
  <1>19. ASSUME NEW c \in Calls, RecordStale(c) PROVE Step
    BY <1>0, <1>19 DEF RecordStale
  <1>20. ASSUME NEW c \in Calls, Settle(c) PROVE Step
    BY <1>0, <1>20 DEF Settle
  <1>21. ASSUME NEW c \in Calls, RecordCommitted(c) PROVE Step
    BY <1>0, <1>21 DEF RecordCommitted
  <1>22. ASSUME NEW c \in Calls, RecordIssued(c) PROVE Step
    BY <1>0, <1>22 DEF RecordIssued
  <1>23. ASSUME NEW c \in Calls, Catch(c) PROVE Step
    BY <1>0, <1>23 DEF Catch
  <1>24. ASSUME NEW c \in Calls, Reprepare(c) PROVE Step
    BY <1>0, <1>24 DEF Reprepare
  <1>25. ASSUME NEW c \in Calls, Apply(c) PROVE Step
    BY <1>0, <1>25 DEF Apply
  <1>26. ASSUME NEW c \in Calls, ApplyFails(c) PROVE Step
    BY <1>0, <1>26 DEF ApplyFails
  <1>27. ASSUME NEW c \in Calls, Timeout(c) PROVE Step
    BY <1>0, <1>27 DEF Timeout
  <1>28. ASSUME NEW c \in Calls, StatementFails(c) PROVE Step
    BY <1>0, <1>28 DEF StatementFails
  <1>29. ASSUME NEW c \in Calls, Die(c) PROVE Step
    BY <1>0, <1>29 DEF Die
  <1>30. CASE UNCHANGED vars
    BY <1>0, <1>30 DEF vars
  <1> QED
    BY <1>0, <1>1, <1>2, <1>3, <1>4, <1>5, <1>6, <1>7, <1>8, <1>9, <1>10, <1>11, <1>12,
         <1>13, <1>14, <1>15, <1>16, <1>17, <1>18, <1>19, <1>20, <1>21, <1>22, <1>23,
         <1>24, <1>25, <1>26, <1>27, <1>28, <1>29, <1>30
    DEF Next, PrepareStep, CallStep, SdkStep, AuthorStep, EnvironmentStep

\* A row's status only moves forward, a row being committed is never swept and
\* a stored receipt never changes.
THEOREM RowsForward == Spec => RowsMoveForward
  <1>1. Inv /\ [Next]_vars => [Step]_vars
    BY ForwardStep
  <1>2. QED
    BY <1>1, Invariance, PTL DEF Spec, RowsMoveForward, Step

\* What commitIntent answers is true of what it applied, for any number of intents
\* and calls.
THEOREM TrueAnswers == Spec => []CallersHearTheTruth
  <1>1. ReceiptsAreTrue /\ PrepareAgainIsSafe /\ RefusalAppliesNothing => CallersHearTheTruth
    BY DEF CallersHearTheTruth
  <1> QED
    BY <1>1, TrueReceipts, SafeToPrepareAgain, RefusedIsUnapplied, PTL

-----------------------------------------------------------------------------
(***************************************************************************)
(* Evidence is faithful, and what is applied was confirmed: the invariant  *)
(* Faithful, part by part, beside Inv.                                     *)
(***************************************************************************)
\* A tuple of two, and of three, as what is appended to a shorter one.
LEMMA AppendTuples ==
  ASSUME NEW S, NEW x \in S, NEW y \in S, NEW z \in S
  PROVE  /\ <<x, y>> = Append(<<x>>, y) /\ <<x, y, z>> = Append(<<x, y>>, z)
         /\ <<x>> \in Seq(S) /\ <<x, y>> \in Seq(S) /\ <<x, y, z>> \in Seq(S)
  <1>1. <<x>> \in Seq(S) /\ Len(<<x>>) = 1 /\ <<x>>[1] = x
    OBVIOUS
  <1>2. <<x, y>> \in Seq(S) /\ Len(<<x, y>>) = 2 /\ <<x, y>>[1] = x /\ <<x, y>>[2] = y
    OBVIOUS
  <1>3. /\ <<x, y, z>> \in Seq(S) /\ Len(<<x, y, z>>) = 3
        /\ <<x, y, z>>[1] = x /\ <<x, y, z>>[2] = y /\ <<x, y, z>>[3] = z
    OBVIOUS
  <1>4. /\ Append(<<x>>, y) \in Seq(S) /\ Len(Append(<<x>>, y)) = 2
        /\ Append(<<x>>, y)[1] = x /\ Append(<<x>>, y)[2] = y
    BY <1>1, AppendProperties
  <1>5. /\ Append(<<x, y>>, z) \in Seq(S) /\ Len(Append(<<x, y>>, z)) = 3
        /\ Append(<<x, y>>, z)[1] = x /\ Append(<<x, y>>, z)[2] = y /\ Append(<<x, y>>, z)[3] = z
    BY <1>2, AppendProperties
  <1>6. Append(<<x>>, y) = <<x, y>>
    <2> DEFINE s == Append(<<x>>, y)
    <2> HIDE DEF s
    <2>1. \A i \in 1 .. Len(s) : s[i] = <<x, y>>[i]
      BY <1>2, <1>4 DEF s
    <2> QED
      BY <1>2, <1>4, <2>1, SeqEqual DEF s
  <1>7. Append(<<x, y>>, z) = <<x, y, z>>
    <2> DEFINE s == Append(<<x, y>>, z)
    <2>1. \A i \in 1 .. 3 : s[i] = <<x, y, z>>[i]
      BY <1>3, <1>5
    <2> HIDE DEF s
    <2>2. s \in Seq(S) /\ Len(s) = 3
      BY <1>5 DEF s
    <2>3. s = <<x, y, z>>
      BY <1>3, <2>1, <2>2, SeqEqual
    <2> QED
      BY <2>3 DEF s
  <1> QED
    BY <1>1, <1>2, <1>3, <1>6, <1>7

\* A sequence is a prefix of itself, and of what it is appended to.
Prefix(s, t) == Len(s) <= Len(t) /\ s = SubSeq(t, 1, Len(s))
LEMMA AppendPrefix ==
  ASSUME NEW S, NEW s \in Seq(S), NEW x \in S
  PROVE  /\ Prefix(s, s) /\ Prefix(s, Append(s, x)) /\ Prefix(<<>>, s)
         /\ \A y \in S : Prefix(s, Append(Append(s, x), y))
  <1>1. Len(s) \in Nat /\ Len(Append(s, x)) = Len(s) + 1 /\ Append(s, x) \in Seq(S)
    BY AppendProperties
  <1>2. SubSeq(s, 1, Len(s)) = s
    BY SubSeqFull
  <1>3. SubSeq(Append(s, x), 1, Len(s)) = s
    OBVIOUS
  <1>4. SubSeq(s, 1, Len(<<>>)) = <<>> /\ Len(<<>>) = 0
    BY SubSeqEmpty
  <1>5. ASSUME NEW y \in S PROVE Prefix(s, Append(Append(s, x), y))
    <2> DEFINE t == Append(Append(s, x), y)
    <2>1. t \in Seq(S) /\ Len(t) = Len(s) + 2 /\ \A i \in 1 .. Len(s) : t[i] = s[i]
      BY <1>1, AppendProperties
    <2> HIDE DEF t
    <2>2. SubSeq(t, 1, Len(s)) \in Seq(S) /\ Len(SubSeq(t, 1, Len(s))) = Len(s)
      BY <1>1, <2>1
    <2>3. \A i \in 1 .. Len(s) : SubSeq(t, 1, Len(s))[i] = s[i]
      BY <1>1, <2>1
    <2>4. SubSeq(t, 1, Len(s)) = s
      BY <2>2, <2>3, SeqEqual
    <2> QED
      BY <1>1, <2>1, <2>4 DEF Prefix, t
  <1> QED
    BY <1>1, <1>2, <1>3, <1>4, <1>5 DEF Prefix

\* What the records follow is one story, and true.
LEMMA OneStory == TypeOK /\ EvidenceFollowsTheRow => EvidenceTellsOneStory
  <1> SUFFICES ASSUME TypeOK, EvidenceFollowsTheRow, NEW i \in Intents
               PROVE  \E story \in Stories : Prefix(evidence[i], story)
    BY DEF EvidenceTellsOneStory, Prefix
  <1> DEFINE p == "intent.prepared"  a == "intent.approval_requested"  e == "intent.expired"
             t == "intent.stale"  c == "intent.committed"  r == "receipt.issued"
  <1>1. p \in EvidenceKind /\ a \in EvidenceKind /\ e \in EvidenceKind
        /\ t \in EvidenceKind /\ c \in EvidenceKind /\ r \in EvidenceKind
    BY DEF EvidenceKind
  <1> HIDE DEF p, a, e, t, c, r
  <1>2. /\ Append(<<p>>, e) \in Stories /\ Append(<<p>>, t) \in Stories
        /\ Append(Append(<<p>>, c), r) \in Stories /\ Append(Append(<<p>>, a), e) \in Stories
        /\ <<p, a>> = Append(<<p>>, a)
    <2>1. /\ <<p, e>> \in Stories /\ <<p, t>> \in Stories
          /\ <<p, c, r>> \in Stories /\ <<p, a, e>> \in Stories
      BY DEF Stories, p, a, e, t, c, r
    <2>2. /\ <<p, e>> = Append(<<p>>, e) /\ <<p, t>> = Append(<<p>>, t)
          /\ <<p, c, r>> = Append(<<p, c>>, r) /\ <<p, c>> = Append(<<p>>, c)
          /\ <<p, a, e>> = Append(<<p, a>>, e) /\ <<p, a>> = Append(<<p>>, a)
      BY <1>1, AppendTuples
    <2> QED
      BY <2>1, <2>2
  <1>3. <<p>> \in Seq(EvidenceKind)
    BY <1>1, AppendTuples
  <1>4. /\ \A k \in EvidenceKind : Append(<<p>>, k) \in Seq(EvidenceKind)
        /\ \A k \in EvidenceKind : \A l \in EvidenceKind :
             Append(Append(<<p>>, k), l) \in Seq(EvidenceKind)
    BY <1>3, AppendProperties
  <1>5. Told(i) = IF Human(i) THEN Append(<<p>>, a) ELSE <<p>>
    BY <1>2 DEF Told, p, a
  <1>6. \/ evidence[i] \in {<<>>, <<p>>, Told(i)}
        \/ evidence[i] = Append(Told(i), e)
        \/ evidence[i] = Append(Told(i), t) /\ ~Human(i)
        \/ evidence[i] = Append(Told(i), c) /\ ~Human(i)
        \/ evidence[i] = Append(Append(Told(i), c), r) /\ ~Human(i)
    <2> prep[i] \in {"idle", "planned", "swept", "inserted", "approval", "told", "failed"}
      BY DEF TypeOK
    <2> QED
      BY DEF EvidenceFollowsTheRow, Ends, Commits, ToldAnd, p, a, e, t, c, r
  <1>7. /\ Prefix(<<>>, Append(<<p>>, e)) /\ Prefix(<<p>>, Append(<<p>>, e))
        /\ \A k \in EvidenceKind : Prefix(Append(<<p>>, k), Append(<<p>>, k))
        /\ \A k, l \in EvidenceKind :
             /\ Prefix(Append(<<p>>, k), Append(Append(<<p>>, k), l))
             /\ Prefix(Append(Append(<<p>>, k), l), Append(Append(<<p>>, k), l))
    BY <1>1, <1>3, <1>4, AppendPrefix
  <1> HIDE DEF Told
  <1> QED
    BY <1>1, <1>2, <1>5, <1>6, <1>7

\* Calls go on naming intents that were told.
LEMMA NamesStep == Inv /\ CallsNameToldIntents /\ [Next]_vars => CallsNameToldIntents'
  <1> SUFFICES ASSUME Inv, CallsNameToldIntents, [Next]_vars PROVE CallsNameToldIntents'
    OBVIOUS
  <1> USE DEF TypeOK, Status, PC, Read, Request, ClaimSteps, BodySteps, Open, Over,
              rowVars, sourceVars, worldVars, callVars, Goto, Finish, Throw, Record,
              CanMove, Move
  <1> USE DEF Inv, CallsNameToldIntents, Human, UnclaimedIsUntouched, KnowledgeIsTrue, BodyOwnsItsIntent
  <1>1. ASSUME NEW i \in Intents, PrepareTargets(i) PROVE CallsNameToldIntents'
    <2>1. status[i] = "absent" /\ \A c \in Calls : pc[c] # "idle" => request[c].intent # i
      BY <1>1 DEF PrepareTargets
    <2>2. /\ intent' \in [Intents -> Plan] /\ \A j \in Intents \ {i} : intent'[j] = intent[j]
          /\ prep'[i] = "planned" /\ \A j \in Intents \ {i} : prep'[j] = prep[j]
      BY <1>1, TypeStep DEF PrepareTargets
    <2>3. UNCHANGED <<status, pc, request, seen>>
      BY <1>1 DEF PrepareTargets
    <2>4. \A c \in Calls : pc[c] = "idle" => seen[c].status = "absent"
      OBVIOUS
    <2>5. \A c \in Calls : request[c].intent \in Intents
      OBVIOUS
    <2>6. CallsNameToldIntents
      OBVIOUS
    <2> QED
      BY ONLY <2>1, <2>2, <2>3, <2>4, <2>5, <2>6 DEF CallsNameToldIntents, Human
  <1>2. ASSUME NEW i \in Intents, Sweep(i) PROVE CallsNameToldIntents'
    BY <1>2 DEF Sweep, Removable
  <1>3. ASSUME NEW i \in Intents, Insert(i) PROVE CallsNameToldIntents'
    BY <1>3 DEF Insert
  <1>4. ASSUME NEW i \in Intents, RecordPrepared(i) PROVE CallsNameToldIntents'
    BY <1>4 DEF RecordPrepared
  <1>5. ASSUME NEW i \in Intents, RecordApprovalRequested(i) PROVE CallsNameToldIntents'
    BY <1>5 DEF RecordApprovalRequested
  <1>6. ASSUME NEW i \in Intents, PrepareFails(i) PROVE CallsNameToldIntents'
    BY <1>6 DEF PrepareFails
  <1>7. ASSUME NEW i \in Intents, PassExpiry(i) PROVE CallsNameToldIntents'
    BY <1>7 DEF PassExpiry
  <1>8. ASSUME NEW i \in Intents, PassReplayDay(i) PROVE CallsNameToldIntents'
    BY <1>8 DEF PassReplayDay
  <1>9. ASSUME NEW r \in Resources, MoveVersion(r) PROVE CallsNameToldIntents'
    BY <1>9 DEF MoveVersion
  <1>10. ASSUME ChangeWorld PROVE CallsNameToldIntents'
    BY <1>10 DEF ChangeWorld
  <1>11. ASSUME NEW c \in Calls, NEW input \in Arguments, Start(c, input) PROVE CallsNameToldIntents'
    BY <1>11 DEF Start
  <1>12. ASSUME NEW c \in Calls, Expire(c) PROVE CallsNameToldIntents'
    <2> DEFINE i == request[c].intent
    <2> i \in Intents
      OBVIOUS
    <2>1. CASE status[i] \in Open /\ status' = [status EXCEPT ![i] = "expired"] /\ Goto(c, "recordExpired")
      BY <1>12, <2>1 DEF Expire
    <2>2. CASE status' = status /\ Goto(c, next[c])
      BY <1>12, <2>2 DEF Expire
    <2> QED
      BY <1>12, <2>1, <2>2 DEF Expire
  <1>13. ASSUME NEW c \in Calls, RecordExpired(c) PROVE CallsNameToldIntents'
    <2>1. pc[c] # "idle" /\ UNCHANGED <<prep, request, intent, status>>
      BY <1>13 DEF RecordExpired
    <2>2. \A d \in Calls \ {c} : pc'[d] = pc[d]
      BY <1>13 DEF RecordExpired
    <2>3. seen' = [seen EXCEPT ![c] = [status |-> "expired", receipt |-> NoCall]] \/ seen' = seen
      BY <1>13 DEF RecordExpired
    <2>4. \A d \in Calls : seen'[d].status = "prepared" => seen[d].status = "prepared"
      <3>1. seen \in [Calls -> Read]
        OBVIOUS
      <3> QED
        BY ONLY <2>3, <3>1
    <2> QED
      BY <2>1, <2>2, <2>4
  <1>14. ASSUME NEW c \in Calls, Select(c) PROVE CallsNameToldIntents'
    <2>1. pc[c] # "idle" /\ UNCHANGED <<prep, request, intent, status>>
      BY <1>14 DEF Select
    <2>2. \A d \in Calls \ {c} : pc'[d] = pc[d] /\ seen'[d] = seen[d]
      BY <1>14 DEF Select
    <2>3. seen'[c].status = status[request[c].intent]
      BY <1>14 DEF Select
    <2> QED
      <3>1. CallsNameToldIntents /\ \A d \in Calls : request[d].intent \in Intents
        OBVIOUS
      <3> QED
        BY ONLY <2>1, <2>2, <2>3, <3>1 DEF CallsNameToldIntents, Human
  <1>15. ASSUME NEW c \in Calls, Refuse(c) PROVE CallsNameToldIntents'
    BY <1>15 DEF Refuse
  <1>16. ASSUME NEW c \in Calls, Accept(c) PROVE CallsNameToldIntents'
    BY <1>16 DEF Accept
  <1>17. ASSUME NEW c \in Calls, Claim(c) PROVE CallsNameToldIntents'
    <2> DEFINE i == request[c].intent
    <2> i \in Intents
      OBVIOUS
    <2>1. CASE CanMove(c, "prepared") /\ Move(c, "committing")
      BY <1>17, <2>1 DEF Claim
    <2>2. CASE status' = status
      BY <1>17, <2>2 DEF Claim
    <2> QED
      BY <1>17, <2>1, <2>2 DEF Claim
  <1>18. ASSUME NEW c \in Calls, MarkStale(c) PROVE CallsNameToldIntents'
    <2> DEFINE i == request[c].intent
    <2> i \in Intents
      OBVIOUS
    <2>1. CASE CanMove(c, "committing") /\ Move(c, "stale")
      BY <1>18, <2>1 DEF MarkStale
    <2>2. CASE status' = status
      BY <1>18, <2>2 DEF MarkStale
    <2> QED
      BY <1>18, <2>1, <2>2 DEF MarkStale
  <1>19. ASSUME NEW c \in Calls, RecordStale(c) PROVE CallsNameToldIntents'
    BY <1>19 DEF RecordStale
  <1>20. ASSUME NEW c \in Calls, Settle(c) PROVE CallsNameToldIntents'
    <2> DEFINE i == request[c].intent
    <2> i \in Intents
      OBVIOUS
    <2>1. CASE CanMove(c, "committing") /\ Move(c, "committed")
      BY <1>20, <2>1 DEF Settle
    <2>2. CASE status' = status
      BY <1>20, <2>2 DEF Settle
    <2> QED
      BY <1>20, <2>1, <2>2 DEF Settle
  <1>21. ASSUME NEW c \in Calls, RecordCommitted(c) PROVE CallsNameToldIntents'
    BY <1>21 DEF RecordCommitted
  <1>22. ASSUME NEW c \in Calls, RecordIssued(c) PROVE CallsNameToldIntents'
    BY <1>22 DEF RecordIssued
  <1>23. ASSUME NEW c \in Calls, Catch(c) PROVE CallsNameToldIntents'
    BY <1>23 DEF Catch
  <1>24. ASSUME NEW c \in Calls, Reprepare(c) PROVE CallsNameToldIntents'
    BY <1>24 DEF Reprepare
  <1>25. ASSUME NEW c \in Calls, Apply(c) PROVE CallsNameToldIntents'
    BY <1>25 DEF Apply
  <1>26. ASSUME NEW c \in Calls, ApplyFails(c) PROVE CallsNameToldIntents'
    BY <1>26 DEF ApplyFails
  <1>27. ASSUME NEW c \in Calls, Timeout(c) PROVE CallsNameToldIntents'
    BY <1>27 DEF Timeout
  <1>28. ASSUME NEW c \in Calls, StatementFails(c) PROVE CallsNameToldIntents'
    BY <1>28 DEF StatementFails
  <1>29. ASSUME NEW c \in Calls, Die(c) PROVE CallsNameToldIntents'
    BY <1>29 DEF Die, Running
  <1>30. CASE UNCHANGED vars
    BY <1>30 DEF vars
  <1> QED
    BY <1>1, <1>2, <1>3, <1>4, <1>5, <1>6, <1>7, <1>8, <1>9, <1>10, <1>11, <1>12, <1>13,
       <1>14, <1>15, <1>16, <1>17, <1>18, <1>19, <1>20, <1>21, <1>22, <1>23, <1>24, <1>25,
       <1>26, <1>27, <1>28, <1>29, <1>30
    DEF Next, PrepareStep, CallStep, SdkStep, AuthorStep, EnvironmentStep

\* What is applied was confirmed.
LEMMA ConfirmedStep ==
  Inv /\ CallsNameToldIntents /\ ClaimsAreConfirmed /\ [Next]_vars => ClaimsAreConfirmed'
  <1> SUFFICES ASSUME Inv, CallsNameToldIntents, ClaimsAreConfirmed, [Next]_vars PROVE ClaimsAreConfirmed'
    OBVIOUS
  <1> USE DEF TypeOK, Status, PC, Read, Request, ClaimSteps, BodySteps, Open, Over,
              rowVars, sourceVars, worldVars, callVars, Goto, Finish, Throw, Record,
              CanMove, Move
  <1> USE DEF Inv, CallsNameToldIntents, ClaimsAreConfirmed, Human, Confirmed, Claiming, AnswersAreTrue, UnclaimedIsUntouched
  <1>1. ASSUME NEW i \in Intents, PrepareTargets(i) PROVE ClaimsAreConfirmed'
    <2>1. /\ \A c \in Calls : pc[c] # "idle" => request[c].intent # i
          /\ \A j \in Intents \ {i} : intent'[j] = intent[j]
      BY <1>1 DEF PrepareTargets
    <2>2. UNCHANGED <<pc, next, request, applied>>
      BY <1>1 DEF PrepareTargets
    <2>3. \A c \in Calls : pc[c] # "idle" => Confirmed(c)' = Confirmed(c)
      BY <2>1, <2>2
    <2>4. \A c \in Calls : pc[c] = "idle" => ~Claiming(c)' /\ \A j \in Intents : c \notin applied[j]
      BY <2>2
    <2>5. \A c \in Calls : Claiming(c)' = Claiming(c)
      BY <2>2
    <2> HIDE DEF Confirmed, Claiming
    <2> QED
      BY SMTT(30), <2>2, <2>3, <2>4, <2>5
  <1>2. ASSUME NEW i \in Intents, Sweep(i) PROVE ClaimsAreConfirmed'
    BY <1>2 DEF Sweep, Removable
  <1>3. ASSUME NEW i \in Intents, Insert(i) PROVE ClaimsAreConfirmed'
    BY <1>3 DEF Insert
  <1>4. ASSUME NEW i \in Intents, RecordPrepared(i) PROVE ClaimsAreConfirmed'
    BY <1>4 DEF RecordPrepared
  <1>5. ASSUME NEW i \in Intents, RecordApprovalRequested(i) PROVE ClaimsAreConfirmed'
    BY <1>5 DEF RecordApprovalRequested
  <1>6. ASSUME NEW i \in Intents, PrepareFails(i) PROVE ClaimsAreConfirmed'
    BY <1>6 DEF PrepareFails
  <1>7. ASSUME NEW i \in Intents, PassExpiry(i) PROVE ClaimsAreConfirmed'
    BY <1>7 DEF PassExpiry
  <1>8. ASSUME NEW i \in Intents, PassReplayDay(i) PROVE ClaimsAreConfirmed'
    BY <1>8 DEF PassReplayDay
  <1>9. ASSUME NEW r \in Resources, MoveVersion(r) PROVE ClaimsAreConfirmed'
    BY <1>9 DEF MoveVersion
  <1>10. ASSUME ChangeWorld PROVE ClaimsAreConfirmed'
    BY <1>10 DEF ChangeWorld
  <1>11. ASSUME NEW c \in Calls, NEW input \in Arguments, Start(c, input) PROVE ClaimsAreConfirmed'
    BY <1>11 DEF Start
  <1>12. ASSUME NEW c \in Calls, Expire(c) PROVE ClaimsAreConfirmed'
    BY <1>12 DEF Expire
  <1>13. ASSUME NEW c \in Calls, RecordExpired(c) PROVE ClaimsAreConfirmed'
    BY <1>13 DEF RecordExpired
  <1>14. ASSUME NEW c \in Calls, Select(c) PROVE ClaimsAreConfirmed'
    BY <1>14 DEF Select
  <1>15. ASSUME NEW c \in Calls, Refuse(c) PROVE ClaimsAreConfirmed'
    BY <1>15 DEF Refuse
  <1>16. ASSUME NEW c \in Calls, Accept(c) PROVE ClaimsAreConfirmed'
    BY <1>16 DEF Accept, Refusal, Settled
  <1>17. ASSUME NEW c \in Calls, Claim(c) PROVE ClaimsAreConfirmed'
    <2>1. UNCHANGED <<request, applied, intent>> /\ \A d \in Calls : Confirmed(d)' = Confirmed(d)
      BY <1>17 DEF Claim
    <2>2. Claiming(c) /\ \A d \in Calls \ {c} : Claiming(d)' = Claiming(d)
      BY <1>17 DEF Claim
    <2>3. ClaimsAreConfirmed
      OBVIOUS
    <2> QED
      BY ONLY <2>1, <2>2, <2>3 DEF ClaimsAreConfirmed
  <1>18. ASSUME NEW c \in Calls, MarkStale(c) PROVE ClaimsAreConfirmed'
    BY <1>18 DEF MarkStale
  <1>19. ASSUME NEW c \in Calls, RecordStale(c) PROVE ClaimsAreConfirmed'
    BY <1>19 DEF RecordStale
  <1>20. ASSUME NEW c \in Calls, Settle(c) PROVE ClaimsAreConfirmed'
    BY <1>20 DEF Settle
  <1>21. ASSUME NEW c \in Calls, RecordCommitted(c) PROVE ClaimsAreConfirmed'
    BY <1>21 DEF RecordCommitted
  <1>22. ASSUME NEW c \in Calls, RecordIssued(c) PROVE ClaimsAreConfirmed'
    BY <1>22 DEF RecordIssued
  <1>23. ASSUME NEW c \in Calls, Catch(c) PROVE ClaimsAreConfirmed'
    BY <1>23 DEF Catch
  <1>24. ASSUME NEW c \in Calls, Reprepare(c) PROVE ClaimsAreConfirmed'
    BY <1>24 DEF Reprepare
  <1>25. ASSUME NEW c \in Calls, Apply(c) PROVE ClaimsAreConfirmed'
    BY <1>25 DEF Apply
  <1>26. ASSUME NEW c \in Calls, ApplyFails(c) PROVE ClaimsAreConfirmed'
    BY <1>26 DEF ApplyFails
  <1>27. ASSUME NEW c \in Calls, Timeout(c) PROVE ClaimsAreConfirmed'
    BY <1>27 DEF Timeout
  <1>28. ASSUME NEW c \in Calls, StatementFails(c) PROVE ClaimsAreConfirmed'
    BY <1>28 DEF StatementFails
  <1>29. ASSUME NEW c \in Calls, Die(c) PROVE ClaimsAreConfirmed'
    BY <1>29 DEF Die, Running
  <1>30. CASE UNCHANGED vars
    BY <1>30 DEF vars
  <1> QED
    BY <1>1, <1>2, <1>3, <1>4, <1>5, <1>6, <1>7, <1>8, <1>9, <1>10, <1>11, <1>12, <1>13,
       <1>14, <1>15, <1>16, <1>17, <1>18, <1>19, <1>20, <1>21, <1>22, <1>23, <1>24, <1>25,
       <1>26, <1>27, <1>28, <1>29, <1>30
    DEF Next, PrepareStep, CallStep, SdkStep, AuthorStep, EnvironmentStep

\* The records follow the row.
LEMMA EvidenceStep ==
  Inv /\ CallsNameToldIntents /\ ClaimsAreConfirmed /\ EvidenceFollowsTheRow
  /\ RecordersAreAlone /\ [Next]_vars => EvidenceFollowsTheRow'
  <1> SUFFICES ASSUME Inv, CallsNameToldIntents, ClaimsAreConfirmed, EvidenceFollowsTheRow,
                      RecordersAreAlone, [Next]_vars
               PROVE  EvidenceFollowsTheRow'
    OBVIOUS
  <1> USE DEF TypeOK, Status, PC, Read, Request, ClaimSteps, BodySteps, Open, Over,
              rowVars, sourceVars, worldVars, callVars, Goto, Finish, Throw, Record,
              CanMove, Move
  <1> USE DEF Inv, ClaimsAreConfirmed, Claiming, Confirmed, CallsNameToldIntents,
              EvidenceFollowsTheRow, RecordersAreAlone, Human, Told, ToldAnd, Ends, Commits, UnclaimedIsUntouched, BodyOwnsItsIntent, StatusIsTrue, KnowledgeIsTrue
  <1>1. ASSUME NEW i \in Intents, PrepareTargets(i) PROVE EvidenceFollowsTheRow'
    BY <1>1 DEF PrepareTargets
  <1>2. ASSUME NEW i \in Intents, Sweep(i) PROVE EvidenceFollowsTheRow'
    BY <1>2 DEF Sweep, Removable
  <1>3. ASSUME NEW i \in Intents, Insert(i) PROVE EvidenceFollowsTheRow'
    BY <1>3 DEF Insert
  <1>4. ASSUME NEW i \in Intents, RecordPrepared(i) PROVE EvidenceFollowsTheRow'
    <2>1. /\ UNCHANGED <<status, receipt, applied, intent>> /\ evidence[i] = <<>>
          /\ evidence' = [evidence EXCEPT ![i] = Append(@, "intent.prepared")]
          /\ prep' = [prep EXCEPT ![i] = IF Human(i) THEN "approval" ELSE "told"]
      BY <1>4 DEF RecordPrepared
    <2>2. evidence'[i] = <<"intent.prepared">>
      BY <2>1
    <2>3. \A j \in Intents \ {i} : evidence'[j] = evidence[j] /\ prep'[j] = prep[j]
      BY <2>1
    <2>4. prep'[i] = IF Human(i) THEN "approval" ELSE "told"
      BY <2>1
    <2>5. \A j \in Intents : /\ Human(j)' = Human(j) /\ Told(j)' = Told(j)
                             /\ j # i => Ends(j)' = Ends(j) /\ Commits(j)' = Commits(j)
      BY <2>1, <2>3
    <2>6. ~Human(i) => evidence'[i] = Told(i)
      BY <2>2
    <2>9. EvidenceFollowsTheRow
      OBVIOUS
    <2> HIDE DEF Told, Ends, Commits, Human, Inv, CallsNameToldIntents, RecordersAreAlone
    <2> QED
      BY <2>1, <2>2, <2>3, <2>4, <2>5, <2>6, <2>9
  <1>5. ASSUME NEW i \in Intents, RecordApprovalRequested(i) PROVE EvidenceFollowsTheRow'
    <2>1. /\ UNCHANGED <<status, receipt, applied, intent>>
          /\ Human(i) /\ evidence[i] = <<"intent.prepared">>
          /\ evidence' = [evidence EXCEPT ![i] = Append(@, "intent.approval_requested")]
          /\ prep' = [prep EXCEPT ![i] = "told"]
      BY <1>5 DEF RecordApprovalRequested
    <2>2. evidence'[i] = <<"intent.prepared", "intent.approval_requested">>
      <3>1. evidence'[i] = Append(evidence[i], "intent.approval_requested")
        BY <2>1
      <3>2. Append(<<"intent.prepared">>, "intent.approval_requested")
            = <<"intent.prepared", "intent.approval_requested">>
        BY ONLY AppendTuples, "intent.prepared" \in EvidenceKind,
                "intent.approval_requested" \in EvidenceKind DEF EvidenceKind
      <3> QED
        BY ONLY <2>1, <3>1, <3>2
    <2>3. \A j \in Intents \ {i} : evidence'[j] = evidence[j] /\ prep'[j] = prep[j]
      BY <2>1
    <2>4. prep'[i] = "told"
      BY <2>1
    <2>5. \A j \in Intents : /\ Human(j)' = Human(j) /\ Told(j)' = Told(j)
                             /\ j # i => Ends(j)' = Ends(j) /\ Commits(j)' = Commits(j)
      BY <2>1, <2>3
    <2>6. evidence'[i] = Told(i)
      BY <2>1, <2>2
    <2>9. EvidenceFollowsTheRow
      OBVIOUS
    <2> HIDE DEF Told, Ends, Commits, Human, Inv, CallsNameToldIntents, RecordersAreAlone
    <2> QED
      BY <2>1, <2>2, <2>3, <2>4, <2>5, <2>6, <2>9
  <1>6. ASSUME NEW i \in Intents, PrepareFails(i) PROVE EvidenceFollowsTheRow'
    <2>1. /\ prep' = [prep EXCEPT ![i] = "failed"] /\ prep[i] \notin {"idle", "told", "failed"}
          /\ UNCHANGED <<status, receipt, applied, intent, evidence>>
      BY <1>6 DEF PrepareFails
    <2>2. \A j \in Intents : /\ Human(j)' = Human(j) /\ Told(j)' = Told(j)
                             /\ Ends(j)' = Ends(j) /\ Commits(j)' = Commits(j)
      BY <2>1
    <2>3. EvidenceFollowsTheRow
      OBVIOUS
    <2>4. prep \in [Intents -> {"idle", "planned", "swept", "inserted", "approval", "told", "failed"}]
      OBVIOUS
    <2> QED
      BY ONLY <2>1, <2>2, <2>3, <2>4 DEF EvidenceFollowsTheRow
  <1>7. ASSUME NEW i \in Intents, PassExpiry(i) PROVE EvidenceFollowsTheRow'
    BY <1>7 DEF PassExpiry
  <1>8. ASSUME NEW i \in Intents, PassReplayDay(i) PROVE EvidenceFollowsTheRow'
    BY <1>8 DEF PassReplayDay
  <1>9. ASSUME NEW r \in Resources, MoveVersion(r) PROVE EvidenceFollowsTheRow'
    BY <1>9 DEF MoveVersion
  <1>10. ASSUME ChangeWorld PROVE EvidenceFollowsTheRow'
    BY <1>10 DEF ChangeWorld
  <1>11. ASSUME NEW c \in Calls, NEW input \in Arguments, Start(c, input) PROVE EvidenceFollowsTheRow'
    BY <1>11 DEF Start
  <1>12. ASSUME NEW c \in Calls, Expire(c) PROVE EvidenceFollowsTheRow'
    BY <1>12 DEF Expire
  <1>13. ASSUME NEW c \in Calls, RecordExpired(c) PROVE EvidenceFollowsTheRow'
    <2> PICK i \in Intents : i = request[c].intent
      OBVIOUS
    <2>0. i \in Intents /\ prep[i] = "told"
      BY <1>13 DEF RecordExpired
    <2>1. /\ UNCHANGED <<prep, status, receipt, applied, intent, request>>
          /\ evidence' = [evidence EXCEPT ![i] = Append(@, "intent.expired")]
      BY <1>13 DEF RecordExpired
    <2>2. \A j \in Intents \ {i} : evidence'[j] = evidence[j]
      BY <2>0, <2>1
    <2>3. evidence'[i] = Append(evidence[i], "intent.expired")
      BY <2>0, <2>1
    <2>4. \A j \in Intents : /\ Human(j)' = Human(j) /\ Told(j)' = Told(j)
                             /\ j # i => Ends(j)' = Ends(j) /\ Commits(j)' = Commits(j)
      BY <2>1, <2>2
    <2>5. evidence[i] = Told(i) /\ status[i] \in Over /\ applied[i] = {}
      BY <1>13 DEF RecordExpired
    <2>6. Ends(i)'
      BY ONLY <2>1, <2>3, <2>4, <2>5, <2>0 DEF Ends, Commits, ToldAnd
    <2>9. EvidenceFollowsTheRow
      OBVIOUS
    <2> QED
      BY ONLY ZenonT(30), <2>0, <2>1, <2>2, <2>4, <2>5, <2>6, <2>9 DEF EvidenceFollowsTheRow
  <1>14. ASSUME NEW c \in Calls, Select(c) PROVE EvidenceFollowsTheRow'
    BY <1>14 DEF Select
  <1>15. ASSUME NEW c \in Calls, Refuse(c) PROVE EvidenceFollowsTheRow'
    BY <1>15 DEF Refuse
  <1>16. ASSUME NEW c \in Calls, Accept(c) PROVE EvidenceFollowsTheRow'
    BY <1>16 DEF Accept
  <1>17. ASSUME NEW c \in Calls, Claim(c) PROVE EvidenceFollowsTheRow'
    BY <1>17 DEF Claim
  <1>18. ASSUME NEW c \in Calls, MarkStale(c) PROVE EvidenceFollowsTheRow'
    <2> DEFINE i == request[c].intent
    <2>1. UNCHANGED <<prep, evidence, receipt, applied, intent>>
      BY <1>18 DEF MarkStale
    <2>2. \A j \in Intents : status'[j] = status[j] \/ status[j] = "committing"
      BY <1>18 DEF MarkStale
    <2>3. \A j \in Intents : /\ Human(j)' = Human(j) /\ Told(j)' = Told(j)
                             /\ Ends(j)' = Ends(j) /\ Commits(j)' = Commits(j)
      BY <2>1
    <2>9. EvidenceFollowsTheRow
      OBVIOUS
    <2> HIDE DEF Told, Ends, Commits, Human, Inv, CallsNameToldIntents, RecordersAreAlone
    <2> QED
      BY <2>1, <2>2, <2>3, <2>9
  <1>19. ASSUME NEW c \in Calls, RecordStale(c) PROVE EvidenceFollowsTheRow'
    <2> PICK i \in Intents : i = request[c].intent
      OBVIOUS
    <2>0. i \in Intents /\ prep[i] = "told"
      BY <1>19 DEF RecordStale
    <2>1. /\ UNCHANGED <<prep, status, receipt, applied, intent, request>>
          /\ evidence' = [evidence EXCEPT ![i] = Append(@, "intent.stale")]
      BY <1>19 DEF RecordStale
    <2>2. \A j \in Intents \ {i} : evidence'[j] = evidence[j]
      BY <2>0, <2>1
    <2>3. evidence'[i] = Append(evidence[i], "intent.stale")
      BY <2>0, <2>1
    <2>4. \A j \in Intents : /\ Human(j)' = Human(j) /\ Told(j)' = Told(j)
                             /\ j # i => Ends(j)' = Ends(j) /\ Commits(j)' = Commits(j)
      BY <2>1, <2>2
    <2>5. evidence[i] = Told(i) /\ status[i] \in {"stale", "deleted"} /\ applied[i] = {} /\ ~Human(i)
      BY <1>19 DEF RecordStale
    <2>6. Ends(i)'
      BY ONLY <2>1, <2>3, <2>4, <2>5, <2>0 DEF Ends, Commits, ToldAnd
    <2>9. EvidenceFollowsTheRow
      OBVIOUS
    <2> QED
      BY ONLY ZenonT(30), <2>0, <2>1, <2>2, <2>4, <2>5, <2>6, <2>9 DEF EvidenceFollowsTheRow
  <1>20. ASSUME NEW c \in Calls, Settle(c) PROVE EvidenceFollowsTheRow'
    BY <1>20 DEF Settle
  <1>21. ASSUME NEW c \in Calls, RecordCommitted(c) PROVE EvidenceFollowsTheRow'
    <2> PICK i \in Intents : i = request[c].intent
      OBVIOUS
    <2>0. i \in Intents /\ prep[i] = "told"
      BY <1>21 DEF RecordCommitted
    <2>1. /\ UNCHANGED <<prep, status, receipt, applied, intent, request>>
          /\ evidence' = [evidence EXCEPT ![i] = Append(@, "intent.committed")]
      BY <1>21 DEF RecordCommitted
    <2>2. \A j \in Intents \ {i} : evidence'[j] = evidence[j]
      BY <2>0, <2>1
    <2>3. evidence'[i] = Append(evidence[i], "intent.committed")
      BY <2>0, <2>1
    <2>4. \A j \in Intents : /\ Human(j)' = Human(j) /\ Told(j)' = Told(j)
                             /\ j # i => Ends(j)' = Ends(j) /\ Commits(j)' = Commits(j)
      BY <2>1, <2>2
    <2>5. evidence[i] = Told(i) /\ receipt[i] = c /\ receipt[i] # NoCall /\ ~Human(i)
      BY IntentsAssumption, <1>21 DEF RecordCommitted
    <2>6. Commits(i)'
      BY ONLY <2>1, <2>3, <2>4, <2>5, <2>0 DEF Ends, Commits, ToldAnd
    <2>9. EvidenceFollowsTheRow
      OBVIOUS
    <2> QED
      BY ONLY ZenonT(30), <2>0, <2>1, <2>2, <2>4, <2>5, <2>6, <2>9 DEF EvidenceFollowsTheRow
  <1>22. ASSUME NEW c \in Calls, RecordIssued(c) PROVE EvidenceFollowsTheRow'
    <2> PICK i \in Intents : i = request[c].intent
      OBVIOUS
    <2>0. i \in Intents /\ prep[i] = "told"
      BY <1>22 DEF RecordIssued
    <2>1. /\ UNCHANGED <<prep, status, receipt, applied, intent, request>>
          /\ evidence' = [evidence EXCEPT ![i] = Append(@, "receipt.issued")]
      BY <1>22 DEF RecordIssued
    <2>2. \A j \in Intents \ {i} : evidence'[j] = evidence[j]
      BY <2>0, <2>1
    <2>3. evidence'[i] = Append(evidence[i], "receipt.issued")
      BY <2>0, <2>1
    <2>4. \A j \in Intents : /\ Human(j)' = Human(j) /\ Told(j)' = Told(j)
                             /\ j # i => Ends(j)' = Ends(j) /\ Commits(j)' = Commits(j)
      BY <2>1, <2>2
    <2>5. evidence[i] = ToldAnd(i, "intent.committed") /\ receipt[i] = c /\ receipt[i] # NoCall /\ ~Human(i)
      BY IntentsAssumption, <1>22 DEF RecordIssued
    <2>6. Commits(i)'
      BY ONLY <2>1, <2>3, <2>4, <2>5, <2>0 DEF Ends, Commits, ToldAnd
    <2>9. EvidenceFollowsTheRow
      OBVIOUS
    <2> QED
      BY ONLY ZenonT(30), <2>0, <2>1, <2>2, <2>4, <2>5, <2>6, <2>9 DEF EvidenceFollowsTheRow
  <1>23. ASSUME NEW c \in Calls, Catch(c) PROVE EvidenceFollowsTheRow'
    BY <1>23 DEF Catch
  <1>24. ASSUME NEW c \in Calls, Reprepare(c) PROVE EvidenceFollowsTheRow'
    BY <1>24 DEF Reprepare
  <1>25. ASSUME NEW c \in Calls, Apply(c) PROVE EvidenceFollowsTheRow'
    BY <1>25 DEF Apply
  <1>26. ASSUME NEW c \in Calls, ApplyFails(c) PROVE EvidenceFollowsTheRow'
    BY <1>26 DEF ApplyFails
  <1>27. ASSUME NEW c \in Calls, Timeout(c) PROVE EvidenceFollowsTheRow'
    BY <1>27 DEF Timeout
  <1>28. ASSUME NEW c \in Calls, StatementFails(c) PROVE EvidenceFollowsTheRow'
    BY <1>28 DEF StatementFails
  <1>29. ASSUME NEW c \in Calls, Die(c) PROVE EvidenceFollowsTheRow'
    BY <1>29 DEF Die, Running
  <1>30. CASE UNCHANGED vars
    BY <1>30 DEF vars
  <1> QED
    BY <1>1, <1>2, <1>3, <1>4, <1>5, <1>6, <1>7, <1>8, <1>9, <1>10, <1>11, <1>12, <1>13,
       <1>14, <1>15, <1>16, <1>17, <1>18, <1>19, <1>20, <1>21, <1>22, <1>23, <1>24, <1>25,
       <1>26, <1>27, <1>28, <1>29, <1>30
    DEF Next, PrepareStep, CallStep, SdkStep, AuthorStep, EnvironmentStep

\* While a row has not been claimed or is being committed, no end of it is recorded.
LEMMA NoneYet ==
  ASSUME Inv, EvidenceFollowsTheRow, NEW i \in Intents, prep[i] = "told",
         status[i] \in Open \cup {"committing"}
  PROVE  evidence[i] = Told(i)
  BY DEF Inv, EvidenceFollowsTheRow, StatusIsTrue, Open, Over

\* Who records an end is alone.
LEMMA RecordersStep ==
  Inv /\ CallsNameToldIntents /\ ClaimsAreConfirmed /\ EvidenceFollowsTheRow
  /\ RecordersAreAlone /\ [Next]_vars => RecordersAreAlone'
  <1> SUFFICES ASSUME Inv, CallsNameToldIntents, ClaimsAreConfirmed, EvidenceFollowsTheRow,
                      RecordersAreAlone, [Next]_vars
               PROVE  RecordersAreAlone'
    OBVIOUS
  <1> USE DEF TypeOK, Status, PC, Read, Request, ClaimSteps, BodySteps, Open, Over,
              rowVars, sourceVars, worldVars, callVars, Goto, Finish, Throw, Record,
              CanMove, Move
  <1> USE DEF Inv, ClaimsAreConfirmed, Claiming, Confirmed, CallsNameToldIntents,
              EvidenceFollowsTheRow, RecordersAreAlone, Human, ToldAnd, Told, Ends, Commits, UnclaimedIsUntouched, BodyOwnsItsIntent, StatusIsTrue, KnowledgeIsTrue
  <1>1. ASSUME NEW i \in Intents, PrepareTargets(i) PROVE RecordersAreAlone'
    <2>1. /\ \A c \in Calls : pc[c] # "idle" => request[c].intent # i
          /\ \A j \in Intents \ {i} : intent'[j] = intent[j]
      BY <1>1 DEF PrepareTargets
    <2>2. UNCHANGED <<pc, request, evidence>>
      BY <1>1 DEF PrepareTargets
    <2>3. \A j \in Intents \ {i} : Told(j)' = Told(j) /\ \A k : ToldAnd(j, k)' = ToldAnd(j, k)
      BY <2>1
    <2>4. RecordersAreAlone /\ \A c \in Calls : request[c].intent \in Intents
      OBVIOUS
    <2> QED
      BY ONLY <2>1, <2>2, <2>3, <2>4 DEF RecordersAreAlone, BodySteps
  <1>2. ASSUME NEW i \in Intents, Sweep(i) PROVE RecordersAreAlone'
    BY <1>2 DEF Sweep, Removable
  <1>3. ASSUME NEW i \in Intents, Insert(i) PROVE RecordersAreAlone'
    BY <1>3 DEF Insert
  <1>4. ASSUME NEW i \in Intents, RecordPrepared(i) PROVE RecordersAreAlone'
    BY <1>4 DEF RecordPrepared
  <1>5. ASSUME NEW i \in Intents, RecordApprovalRequested(i) PROVE RecordersAreAlone'
    <2>1. /\ \A c \in Calls : pc[c] # "idle" => request[c].intent # i
          /\ \A j \in Intents \ {i} : evidence'[j] = evidence[j]
      BY <1>5 DEF RecordApprovalRequested
    <2>2. UNCHANGED <<pc, request, intent>>
      BY <1>5 DEF RecordApprovalRequested
    <2>3. \A j \in Intents : Told(j)' = Told(j) /\ \A k : ToldAnd(j, k)' = ToldAnd(j, k)
      BY <2>2
    <2>4. RecordersAreAlone /\ \A c \in Calls : request[c].intent \in Intents
      OBVIOUS
    <2> QED
      BY ONLY <2>1, <2>2, <2>3, <2>4 DEF RecordersAreAlone, BodySteps
  <1>6. ASSUME NEW i \in Intents, PrepareFails(i) PROVE RecordersAreAlone'
    BY <1>6 DEF PrepareFails
  <1>7. ASSUME NEW i \in Intents, PassExpiry(i) PROVE RecordersAreAlone'
    BY <1>7 DEF PassExpiry
  <1>8. ASSUME NEW i \in Intents, PassReplayDay(i) PROVE RecordersAreAlone'
    BY <1>8 DEF PassReplayDay
  <1>9. ASSUME NEW r \in Resources, MoveVersion(r) PROVE RecordersAreAlone'
    BY <1>9 DEF MoveVersion
  <1>10. ASSUME ChangeWorld PROVE RecordersAreAlone'
    BY <1>10 DEF ChangeWorld
  <1>11. ASSUME NEW c \in Calls, NEW input \in Arguments, Start(c, input) PROVE RecordersAreAlone'
    BY <1>11 DEF Start
  <1>12. ASSUME NEW c \in Calls, Expire(c) PROVE RecordersAreAlone'
    <2> DEFINE i == request[c].intent
    <2>1. i \in Intents /\ UNCHANGED <<request, intent>> /\ \A j \in Intents : Told(j)' = Told(j) /\ \A k : ToldAnd(j, k)' = ToldAnd(j, k)
      BY <1>12 DEF Expire
    <2>2. RecordersAreAlone /\ \A d \in Calls : request[d].intent \in Intents
      OBVIOUS
    <2>3. CASE status[i] \in Open /\ Goto(c, "recordExpired")
      <3>0. Inv /\ EvidenceFollowsTheRow /\ prep[i] = "told" /\ status[i] \in Open \cup {"committing"}
        BY <1>12, <2>3 DEF Expire
      <3>1. evidence' = evidence /\ evidence[i] = Told(i)
        BY <1>12, <2>3, NoneYet, <3>0 DEF Expire
      <3>2. \A d \in Calls : pc[d] \in BodySteps \cup {"recordExpired"} => request[d].intent # i
        <4>1. UnclaimedIsUntouched /\ KnowledgeIsTrue /\ status[i] \in Open
          BY <2>3
        <4> QED
          BY ONLY <4>1, <2>1 DEF UnclaimedIsUntouched, KnowledgeIsTrue, Open, Over, BodySteps
      <3>3. pc' = [pc EXCEPT ![c] = "recordExpired"] /\ pc \in [Calls -> PC]
        BY <2>3
      <3> QED
        BY ONLY <2>1, <2>2, <3>1, <3>2, <3>3 DEF RecordersAreAlone, BodySteps
    <2>4. CASE Goto(c, next[c])
      <3>1. evidence' = evidence /\ pc' = [pc EXCEPT ![c] = next[c]]
        BY <1>12, <2>4 DEF Expire
      <3>2. next[c] \in {"select", "claim"} /\ pc \in [Calls -> PC]
        OBVIOUS
      <3> QED
        BY ONLY <2>1, <2>2, <3>1, <3>2 DEF RecordersAreAlone, BodySteps
    <2> QED
      BY <1>12, <2>3, <2>4 DEF Expire
  <1>13. ASSUME NEW c \in Calls, RecordExpired(c) PROVE RecordersAreAlone'
    <2> PICK i \in Intents : i = request[c].intent
      OBVIOUS
    <2>0. i = request[c].intent
      OBVIOUS
    <2>1. i \in Intents /\ UNCHANGED <<request, intent>> /\ \A j \in Intents : Told(j)' = Told(j) /\ \A k : ToldAnd(j, k)' = ToldAnd(j, k)
      BY <1>13 DEF RecordExpired
    <2>2. RecordersAreAlone /\ \A d \in Calls : request[d].intent \in Intents
      OBVIOUS
    <2>3. /\ evidence' = [evidence EXCEPT ![i] = Append(@, "intent.expired")] /\ evidence \in [Intents -> Seq(EvidenceKind)]
          /\ pc' \in [Calls -> PC] /\ pc'[c] \in {"decide", "claim"} /\ \A d \in Calls \ {c} : pc'[d] = pc[d]
      BY <1>13, TypeStep DEF RecordExpired
    <2>4. \A d \in Calls \ {c} : pc[d] \in BodySteps \cup {"recordExpired"} => request[d].intent # i
      BY <1>13, <2>2 DEF RecordExpired
    <2>5. pc[c] = "recordExpired"
      BY <1>13 DEF RecordExpired
    <2>6. /\ evidence'[i] = Append(evidence[i], "intent.expired")
          /\ \A j \in Intents \ {i} : evidence'[j] = evidence[j]
      BY ONLY <2>1, <2>3
    <2>7. evidence[i] = Told(i)
      BY <2>2, <2>5
    <2>8. evidence'[i] = ToldAnd(i, "intent.expired")'
      BY ONLY <2>1, <2>6, <2>7 DEF ToldAnd
    <2> DEFINE Alone(d, j) ==
           /\ pc'[d] \in {"reprepare", "effect", "settle", "recordCommitted", "stale",
                          "recordStale", "recordExpired"} => evidence'[j] = Told(j)'
           /\ pc'[d] = "recordIssued" => evidence'[j] = ToldAnd(j, "intent.committed")'
           /\ pc'[d] = "recordExpired" => \A e \in Calls \ {d} :
                pc'[e] \in BodySteps \cup {"recordExpired"} => request[e].intent # j
    <2>9. ASSUME NEW d \in Calls, NEW j \in Intents, j = request[d].intent, d = c PROVE Alone(d, j)
      BY ONLY <2>0, <2>1, <2>3, <2>8, <2>9 DEF Alone
    <2>10. ASSUME NEW d \in Calls, NEW j \in Intents, j = request[d].intent, d # c PROVE Alone(d, j)
      <3>1. pc'[d] = pc[d] /\ (pc[d] \in BodySteps \cup {"recordExpired"} => j # i)
        BY ONLY <2>3, <2>4, <2>10
      <3>2. j # i => evidence'[j] = evidence[j]
        BY ONLY <2>6
      <3>3. Told(j)' = Told(j) /\ \A k : ToldAnd(j, k)' = ToldAnd(j, k)
        BY ONLY <2>1
      <3>4. /\ pc[d] \in {"reprepare", "effect", "settle", "recordCommitted", "stale",
                          "recordStale", "recordExpired"} => evidence[j] = Told(j)
            /\ pc[d] = "recordIssued" => evidence[j] = ToldAnd(j, "intent.committed")
            /\ pc[d] = "recordExpired" => \A e \in Calls \ {d} :
                 pc[e] \in BodySteps \cup {"recordExpired"} => request[e].intent # j
        BY <2>2, <2>10
      <3>5. \A e \in Calls \ {d} : pc'[e] \in BodySteps \cup {"recordExpired"} =>
              pc[e] \in BodySteps \cup {"recordExpired"}
        BY ONLY <2>3, <2>5 DEF BodySteps
      <3> QED
        BY ONLY <3>1, <3>2, <3>3, <3>4, <3>5 DEF Alone, BodySteps
    <2>11. \A d \in Calls : request[d].intent \in Intents
      BY ONLY <2>2
    <2> HIDE DEF Inv, CallsNameToldIntents, ClaimsAreConfirmed, EvidenceFollowsTheRow
    <2> QED
      BY <2>1, <2>9, <2>10, <2>11
  <1>14. ASSUME NEW c \in Calls, Select(c) PROVE RecordersAreAlone'
    BY <1>14 DEF Select
  <1>15. ASSUME NEW c \in Calls, Refuse(c) PROVE RecordersAreAlone'
    BY <1>15 DEF Refuse
  <1>16. ASSUME NEW c \in Calls, Accept(c) PROVE RecordersAreAlone'
    BY <1>16 DEF Accept
  <1>17. ASSUME NEW c \in Calls, Claim(c) PROVE RecordersAreAlone'
    <2> DEFINE i == request[c].intent
    <2>1. i \in Intents /\ UNCHANGED <<request, intent>> /\ \A j \in Intents : Told(j)' = Told(j) /\ \A k : ToldAnd(j, k)' = ToldAnd(j, k)
      BY <1>17 DEF Claim
    <2>2. RecordersAreAlone /\ \A d \in Calls : request[d].intent \in Intents
      OBVIOUS
    <2>3. CASE CanMove(c, "prepared") /\ Goto(c, "reprepare")
      <3>0. Inv /\ EvidenceFollowsTheRow /\ prep[i] = "told" /\ status[i] \in Open \cup {"committing"}
        BY <1>17, <2>3 DEF Claim
      <3>1. evidence' = evidence /\ evidence[i] = Told(i)
        BY <1>17, <2>3, NoneYet, <3>0 DEF Claim
      <3>2. \A d \in Calls : pc[d] \in BodySteps \cup {"recordExpired"} => request[d].intent # i
        <4>1. UnclaimedIsUntouched /\ KnowledgeIsTrue /\ status[i] \in Open
          BY <2>3
        <4> QED
          BY ONLY <4>1, <2>1 DEF UnclaimedIsUntouched, KnowledgeIsTrue, Open, Over, BodySteps
      <3>3. pc' = [pc EXCEPT ![c] = "reprepare"] /\ pc \in [Calls -> PC]
        BY <2>3
      <3> QED
        BY ONLY <2>1, <2>2, <3>1, <3>2, <3>3 DEF RecordersAreAlone, BodySteps
    <2>4. CASE Goto(c, "expire")
      <3>1. evidence' = evidence /\ pc' = [pc EXCEPT ![c] = "expire"]
        BY <1>17, <2>4 DEF Claim
      <3>2. pc \in [Calls -> PC]
        OBVIOUS
      <3> QED
        BY ONLY <2>1, <2>2, <3>1, <3>2 DEF RecordersAreAlone, BodySteps
    <2> QED
      BY <1>17, <2>3, <2>4 DEF Claim
  <1>18. ASSUME NEW c \in Calls, MarkStale(c) PROVE RecordersAreAlone'
    BY <1>18 DEF MarkStale
  <1>19. ASSUME NEW c \in Calls, RecordStale(c) PROVE RecordersAreAlone'
    BY <1>19 DEF RecordStale
  <1>20. ASSUME NEW c \in Calls, Settle(c) PROVE RecordersAreAlone'
    BY <1>20 DEF Settle
  <1>21. ASSUME NEW c \in Calls, RecordCommitted(c) PROVE RecordersAreAlone'
    <2> PICK i \in Intents : i = request[c].intent
      OBVIOUS
    <2>0. i = request[c].intent
      OBVIOUS
    <2>1. i \in Intents /\ UNCHANGED <<request, intent>> /\ \A j \in Intents : Told(j)' = Told(j) /\ \A k : ToldAnd(j, k)' = ToldAnd(j, k)
      BY <1>21 DEF RecordCommitted
    <2>2. RecordersAreAlone /\ \A d \in Calls : request[d].intent \in Intents
      OBVIOUS
    <2>3. /\ evidence' = [evidence EXCEPT ![i] = Append(@, "intent.committed")] /\ evidence \in [Intents -> Seq(EvidenceKind)]
          /\ pc' \in [Calls -> PC] /\ pc'[c] \in {"recordIssued"} /\ \A d \in Calls \ {c} : pc'[d] = pc[d]
      BY <1>21, TypeStep DEF RecordCommitted
    <2>4. \A d \in Calls \ {c} : pc[d] \in BodySteps \cup {"recordExpired"} => request[d].intent # i
      BY <1>21, <2>2 DEF RecordCommitted
    <2>5. pc[c] = "recordCommitted"
      BY <1>21 DEF RecordCommitted
    <2>6. /\ evidence'[i] = Append(evidence[i], "intent.committed")
          /\ \A j \in Intents \ {i} : evidence'[j] = evidence[j]
      BY ONLY <2>1, <2>3
    <2>7. evidence[i] = Told(i)
      BY <2>2, <2>5
    <2>8. evidence'[i] = ToldAnd(i, "intent.committed")'
      BY ONLY <2>1, <2>6, <2>7 DEF ToldAnd
    <2> DEFINE Alone(d, j) ==
           /\ pc'[d] \in {"reprepare", "effect", "settle", "recordCommitted", "stale",
                          "recordStale", "recordExpired"} => evidence'[j] = Told(j)'
           /\ pc'[d] = "recordIssued" => evidence'[j] = ToldAnd(j, "intent.committed")'
           /\ pc'[d] = "recordExpired" => \A e \in Calls \ {d} :
                pc'[e] \in BodySteps \cup {"recordExpired"} => request[e].intent # j
    <2>9. ASSUME NEW d \in Calls, NEW j \in Intents, j = request[d].intent, d = c PROVE Alone(d, j)
      BY ONLY <2>0, <2>1, <2>3, <2>8, <2>9 DEF Alone
    <2>10. ASSUME NEW d \in Calls, NEW j \in Intents, j = request[d].intent, d # c PROVE Alone(d, j)
      <3>1. pc'[d] = pc[d] /\ (pc[d] \in BodySteps \cup {"recordExpired"} => j # i)
        BY ONLY <2>3, <2>4, <2>10
      <3>2. j # i => evidence'[j] = evidence[j]
        BY ONLY <2>6
      <3>3. Told(j)' = Told(j) /\ \A k : ToldAnd(j, k)' = ToldAnd(j, k)
        BY ONLY <2>1
      <3>4. /\ pc[d] \in {"reprepare", "effect", "settle", "recordCommitted", "stale",
                          "recordStale", "recordExpired"} => evidence[j] = Told(j)
            /\ pc[d] = "recordIssued" => evidence[j] = ToldAnd(j, "intent.committed")
            /\ pc[d] = "recordExpired" => \A e \in Calls \ {d} :
                 pc[e] \in BodySteps \cup {"recordExpired"} => request[e].intent # j
        BY <2>2, <2>10
      <3>5. \A e \in Calls \ {d} : pc'[e] \in BodySteps \cup {"recordExpired"} =>
              pc[e] \in BodySteps \cup {"recordExpired"}
        BY ONLY <2>3, <2>5 DEF BodySteps
      <3> QED
        BY ONLY <3>1, <3>2, <3>3, <3>4, <3>5 DEF Alone, BodySteps
    <2>11. \A d \in Calls : request[d].intent \in Intents
      BY ONLY <2>2
    <2> HIDE DEF Inv, CallsNameToldIntents, ClaimsAreConfirmed, EvidenceFollowsTheRow
    <2> QED
      BY <2>1, <2>9, <2>10, <2>11
  <1>22. ASSUME NEW c \in Calls, RecordIssued(c) PROVE RecordersAreAlone'
    BY <1>22 DEF RecordIssued
  <1>23. ASSUME NEW c \in Calls, Catch(c) PROVE RecordersAreAlone'
    BY <1>23 DEF Catch
  <1>24. ASSUME NEW c \in Calls, Reprepare(c) PROVE RecordersAreAlone'
    BY <1>24 DEF Reprepare
  <1>25. ASSUME NEW c \in Calls, Apply(c) PROVE RecordersAreAlone'
    <2> DEFINE i == request[c].intent
    <2>1. i \in Intents /\ UNCHANGED <<request, intent>> /\ \A j \in Intents : Told(j)' = Told(j) /\ \A k : ToldAnd(j, k)' = ToldAnd(j, k)
      BY <1>25 DEF Apply
    <2>2. RecordersAreAlone /\ \A d \in Calls : request[d].intent \in Intents
      OBVIOUS
    <2>3. evidence' = evidence /\ pc[c] = "effect" /\ pc \in [Calls -> PC]
      BY <1>25 DEF Apply
    <2>4. pc' = [pc EXCEPT ![c] = "settle"] \/ pc' = [pc EXCEPT ![c] = "catch"]
      BY <1>25 DEF Apply
    <2> QED
      BY ONLY <2>1, <2>2, <2>3, <2>4 DEF RecordersAreAlone, BodySteps
  <1>26. ASSUME NEW c \in Calls, ApplyFails(c) PROVE RecordersAreAlone'
    BY <1>26 DEF ApplyFails
  <1>27. ASSUME NEW c \in Calls, Timeout(c) PROVE RecordersAreAlone'
    BY <1>27 DEF Timeout
  <1>28. ASSUME NEW c \in Calls, StatementFails(c) PROVE RecordersAreAlone'
    BY <1>28 DEF StatementFails
  <1>29. ASSUME NEW c \in Calls, Die(c) PROVE RecordersAreAlone'
    BY <1>29 DEF Die, Running
  <1>30. CASE UNCHANGED vars
    BY <1>30 DEF vars
  <1> QED
    BY <1>1, <1>2, <1>3, <1>4, <1>5, <1>6, <1>7, <1>8, <1>9, <1>10, <1>11, <1>12, <1>13,
       <1>14, <1>15, <1>16, <1>17, <1>18, <1>19, <1>20, <1>21, <1>22, <1>23, <1>24, <1>25,
       <1>26, <1>27, <1>28, <1>29, <1>30
    DEF Next, PrepareStep, CallStep, SdkStep, AuthorStep, EnvironmentStep

\* Each of the four parts survives each step.
LEMMA FaithfulStep == Inv /\ Faithful /\ [Next]_vars => Faithful'
  BY NamesStep, ConfirmedStep, EvidenceStep, RecordersStep DEF Faithful

LEMMA FaithfulInit == Init => Faithful
  <1> SUFFICES ASSUME Init PROVE Faithful
    OBVIOUS
  <1>1. NoPlan \in Plan /\ NoRequest \in Request
    BY StandIns
  <1>2. CallsNameToldIntents
    BY DEF Init, CallsNameToldIntents
  <1>3. ClaimsAreConfirmed
    BY DEF Init, ClaimsAreConfirmed, Claiming, BodySteps
  <1>4. EvidenceFollowsTheRow
    BY DEF Init, EvidenceFollowsTheRow
  <1>5. RecordersAreAlone
    BY DEF Init, RecordersAreAlone
  <1> QED
    BY <1>2, <1>3, <1>4, <1>5 DEF Faithful

\* What the records say is true.
LEMMA TrueEvidence == Inv /\ EvidenceFollowsTheRow => EvidenceIsTrue
  <1> SUFFICES ASSUME Inv, EvidenceFollowsTheRow, NEW i \in Intents
               PROVE  /\ "intent.committed" \in Recorded(i) =>
                           status[i] \in {"committed", "deleted"} /\ applied[i] = {receipt[i]}
                      /\ Recorded(i) \cap {"intent.expired", "intent.stale"} # {} => applied[i] = {}
    BY DEF EvidenceIsTrue
  <1>1. prep[i] \in {"idle", "planned", "swept", "inserted", "approval", "told", "failed"}
    BY DEF Inv, TypeOK
  <1>2. receipt[i] # NoCall => status[i] \in {"committed", "deleted"} /\ applied[i] = {receipt[i]}
    BY DEF Inv, StatusIsTrue, EvidenceFollowsTheRow
  <1>3. DOMAIN <<>> = {} /\ DOMAIN <<"intent.prepared">> = {1}
        /\ DOMAIN <<"intent.prepared", "intent.approval_requested">> = {1, 2}
    OBVIOUS
  <1>4. CASE evidence[i] \in {<<>>, <<"intent.prepared">>, Told(i)}
    <2>1. Recorded(i) \subseteq {"intent.prepared", "intent.approval_requested"}
      BY <1>3, <1>4 DEF Recorded, Told
    <2> QED
      BY <2>1
  <1>5. Told(i) \in Seq(EvidenceKind)
        /\ \A k \in DOMAIN Told(i) : Told(i)[k] \in {"intent.prepared", "intent.approval_requested"}
    <2>1. "intent.prepared" \in EvidenceKind /\ "intent.approval_requested" \in EvidenceKind
      BY DEF EvidenceKind
    <2> QED
      BY <1>3, <2>1, AppendTuples DEF Told
  <1>6. ASSUME NEW k \in EvidenceKind
        PROVE  /\ ToldAnd(i, k) \in Seq(EvidenceKind)
               /\ \A n \in DOMAIN ToldAnd(i, k) :
                    ToldAnd(i, k)[n] \in {"intent.prepared", "intent.approval_requested", k}
    BY <1>5, AppendProperties DEF ToldAnd
  <1>7. CASE Ends(i) /\ applied[i] = {}
    <2>1. "intent.expired" \in EvidenceKind /\ "intent.stale" \in EvidenceKind
      BY DEF EvidenceKind
    <2>2. "intent.committed" \notin Recorded(i)
      BY <1>6, <1>7, <2>1 DEF Ends, Recorded
    <2> QED
      BY <1>7, <2>2
  <1>8. CASE Commits(i) /\ receipt[i] # NoCall
    <2> DEFINE t == ToldAnd(i, "intent.committed")
    <2>1. "intent.committed" \in EvidenceKind /\ "receipt.issued" \in EvidenceKind
      BY DEF EvidenceKind
    <2>2. t \in Seq(EvidenceKind) /\ \A n \in DOMAIN t :
            t[n] \in {"intent.prepared", "intent.approval_requested", "intent.committed"}
      BY <1>6, <2>1
    <2>3. evidence[i] = t \/ evidence[i] = Append(t, "receipt.issued")
      BY <1>8 DEF Commits
    <2> HIDE DEF t
    <2>4. \A n \in DOMAIN Append(t, "receipt.issued") : Append(t, "receipt.issued")[n] \in
            {"intent.prepared", "intent.approval_requested", "intent.committed", "receipt.issued"}
      BY <2>1, <2>2, AppendProperties
    <2>5. Recorded(i) \subseteq
            {"intent.prepared", "intent.approval_requested", "intent.committed", "receipt.issued"}
      BY <2>2, <2>3, <2>4 DEF Recorded
    <2> QED
      BY <1>2, <1>8, <2>5
  <1> QED
    BY <1>1, <1>4, <1>7, <1>8 DEF EvidenceFollowsTheRow

\* What EvidenceFollowsTheRow and its companions say holds in every state.
THEOREM FaithfulInvariant == Spec => []Faithful
  <1>1. Init => Faithful
    BY FaithfulInit
  <1>2. Inv /\ Faithful /\ [Next]_vars => Faithful'
    BY FaithfulStep
  <1> QED
    BY <1>1, <1>2, Invariance, PTL DEF Spec

\* What mcp-postgres keeps of an intent (EvidenceStore.record) is true of its effect,
\* and in the order of one of the stories an intent can have.
THEOREM FaithfulEvidence == Spec => []EvidenceIsFaithful
  <1>1. Inv /\ Faithful => EvidenceIsFaithful
    BY TrueEvidence, OneStory DEF EvidenceIsFaithful, Faithful, Inv
  <1> QED
    BY <1>1, Invariance, FaithfulInvariant, PTL

\* What commitIntent applies, its owner confirmed with its token through the tool of
\* its class, and no person's approval was missing.
THEOREM AppliesTheConfirmed == Spec => []AppliedAsConfirmed
  <1>1. Faithful => AppliedAsConfirmed
    BY DEF Faithful, ClaimsAreConfirmed, Confirmed, AppliedAsConfirmed
  <1> QED
    BY <1>1, FaithfulInvariant, PTL

\* What a step does to an intent's plan, to the versions and to what is applied, and which calls
\* come to apply it.
LEMMA Untouched ==
  ASSUME Inv, [Next]_vars
  PROVE  /\ UNCHANGED intent \/ \E i \in Intents : PrepareTargets(i)
         /\ UNCHANGED version \/ (\E c \in Calls : Apply(c)) \/ (\E r \in Resources : MoveVersion(r))
         /\ UNCHANGED applied \/ \E c \in Calls : Apply(c)
         /\ \A i \in Intents : prep[i] # "idle" => prep'[i] # "idle"
         /\ \A c \in Calls : pc'[c] = "effect" =>
              /\ request'[c] = request[c]
              /\ pc[c] = "effect" \/ ~Moved(request[c].intent)
  <1> USE DEF rowVars, sourceVars, worldVars, callVars
  <1>1. CASE Next
    <2>1. \/ \E i \in Intents : PrepareStep(i)
          \/ \E c \in Calls : CallStep(c)
          \/ EnvironmentStep
      BY <1>1 DEF Next
    <2>2. CASE \E i \in Intents : PrepareStep(i)
      BY <2>2 DEF Inv, TypeOK, PrepareStep, PrepareTargets, Sweep, Insert, RecordPrepared,
         RecordApprovalRequested, PrepareFails
    <2>3. ASSUME NEW c \in Calls, CallStep(c)
          PROVE  /\ UNCHANGED <<intent, prep>> /\ (UNCHANGED <<version, applied>> \/ Apply(c))
                 /\ \A d \in Calls : pc'[d] = "effect" =>
                      /\ request'[d] = request[d]
                      /\ pc[d] = "effect" \/ ~Moved(request[d].intent)
      <3> USE DEF Goto, Finish, Throw
      <3>0. /\ pc \in [Calls -> PC] /\ request \in [Calls -> Request]
            /\ next \in [Calls -> {"select", "claim"}]
        BY DEF Inv, TypeOK
      <3>1. CASE \E input \in Arguments : Start(c, input)
        BY <3>0, <3>1 DEF Start
      <3>2. CASE Expire(c) \/ RecordExpired(c) \/ Select(c) \/ Refuse(c) \/ Accept(c) \/ Claim(c)
        BY <3>0, <3>2 DEF Expire, RecordExpired, Select, Refuse, Accept, Claim
      <3>3. CASE \/ MarkStale(c) \/ RecordStale(c) \/ Settle(c)
                 \/ RecordCommitted(c) \/ RecordIssued(c) \/ Catch(c)
        BY <3>0, <3>3 DEF MarkStale, RecordStale, Settle, RecordCommitted, RecordIssued, Catch
      <3>4. CASE Reprepare(c)
        BY <3>0, <3>4 DEF Reprepare, Moved
      <3>5. CASE Apply(c)
        BY <3>0, <3>5 DEF Apply
      <3>6. CASE ApplyFails(c) \/ Timeout(c) \/ StatementFails(c) \/ Die(c)
        BY <3>0, <3>6 DEF ApplyFails, Timeout, StatementFails, Die
      <3> QED
        BY <2>3, <3>1, <3>2, <3>3, <3>4, <3>5, <3>6 DEF CallStep, SdkStep, AuthorStep
    <2>4. CASE EnvironmentStep
      BY <2>4 DEF EnvironmentStep, PassExpiry, PassReplayDay, MoveVersion, ChangeWorld
    <2> QED
      BY <2>1, <2>2, <2>3, <2>4
  <1>2. CASE UNCHANGED vars
    BY <1>2 DEF vars
  <1> QED
    BY <1>1, <1>2

\* A source's versions only grow (prepareTargets), so that a target that moved stays moved.
THEOREM TargetsGrow == Spec => []VersionsGrow
  <1>1. Init => VersionsGrow
    BY StandIns, IntentsAssumption DEF Init, VersionsGrow, NoPlan
  <1>2. Inv /\ VersionsGrow /\ [Next]_vars => VersionsGrow'
    <2> SUFFICES ASSUME Inv, VersionsGrow, [Next]_vars PROVE VersionsGrow'
      OBVIOUS
    <2>1. /\ version \in [Resources -> Nat] /\ intent \in [Intents -> Plan]
          /\ TargetOf \in [Intents -> Resources]
      BY IntentsAssumption DEF Inv, TypeOK
    <2>2. /\ UNCHANGED intent \/ (\E i \in Intents : PrepareTargets(i))
          /\ UNCHANGED version \/ (\E c \in Calls : Apply(c)) \/ (\E r \in Resources : MoveVersion(r))
      BY Untouched
    <2>3. ASSUME NEW i \in Intents, PrepareTargets(i) PROVE VersionsGrow'
      <3>1. /\ intent' = [intent EXCEPT ![i] = [class |-> policy, capability |-> serving,
                                                base |-> version[TargetOf[i]]]]
            /\ version' = version
        BY <2>3 DEF PrepareTargets, sourceVars
      <3> QED
        BY <2>1, <3>1 DEF VersionsGrow, Plan
    <2>4. ASSUME UNCHANGED intent, NEW r \in Resources, version' = [version EXCEPT ![r] = @ + 1]
          PROVE  VersionsGrow'
      BY <2>1, <2>4 DEF VersionsGrow, Plan
    <2>5. ASSUME NEW c \in Calls, Apply(c) PROVE VersionsGrow'
      <3>1. /\ TargetOf[request[c].intent] \in Resources /\ UNCHANGED intent
            /\ version' = [version EXCEPT ![TargetOf[request[c].intent]] = @ + 1]
        BY <2>1, <2>5 DEF Apply, Inv, TypeOK, Request, rowVars
      <3> QED
        BY <2>4, <3>1
    <2>6. ASSUME NEW r \in Resources, MoveVersion(r) PROVE VersionsGrow'
      BY <2>4, <2>6 DEF MoveVersion, rowVars
    <2>7. CASE UNCHANGED <<intent, version>>
      BY <2>7 DEF VersionsGrow
    <2> QED
      BY <2>2, <2>3, <2>5, <2>6, <2>7
  <1> QED
    BY <1>1, <1>2, Invariance, PTL DEF Spec

\* A call that finds the target of its intent moved does not get past the comparison.
LEMMA RefusableStep ==
  ASSUME NEW i \in Intents, Inv, VersionsGrow, VersionsGrow', Refusable(i), [Next]_vars
  PROVE  Refusable(i)'
  <1>0. /\ version \in [Resources -> Nat] /\ version' \in [Resources -> Nat]
        /\ intent \in [Intents -> Plan] /\ TargetOf[i] \in Resources /\ intent[i].base \in Nat
        /\ pc \in [Calls -> PC] /\ request \in [Calls -> Request] /\ applied \in [Intents -> SUBSET Calls]
    BY TypeStep, IntentsAssumption DEF Inv, TypeOK, Plan
  <1>1. intent[i].base < version[TargetOf[i]]
    BY <1>0 DEF Refusable, Moved, VersionsGrow
  <1>2. prep'[i] # "idle" /\ intent'[i] = intent[i]
    <2>1. prep[i] # "idle"
      BY DEF Refusable
    <2>2. ASSUME NEW j \in Intents, PrepareTargets(j) PROVE intent'[i] = intent[i]
      BY <1>0, <2>1, <2>2 DEF PrepareTargets
    <2> QED
      BY <2>1, <2>2, Untouched
  <1>3. version[TargetOf[i]] <= version'[TargetOf[i]]
    <2>1. ASSUME NEW r \in Resources, version' = [version EXCEPT ![r] = @ + 1]
          PROVE  version[TargetOf[i]] <= version'[TargetOf[i]]
      BY <1>0, <2>1
    <2>2. ASSUME NEW c \in Calls, Apply(c)
          PROVE  version[TargetOf[i]] <= version'[TargetOf[i]]
      <3>1. /\ TargetOf[request[c].intent] \in Resources
            /\ version' = [version EXCEPT ![TargetOf[request[c].intent]] = @ + 1]
        BY <1>0, <2>2, IntentsAssumption DEF Apply, Request
      <3> QED
        BY <2>1, <3>1
    <2>3. ASSUME NEW r \in Resources, MoveVersion(r)
          PROVE  version[TargetOf[i]] <= version'[TargetOf[i]]
      BY <2>1, <2>3 DEF MoveVersion
    <2> QED
      BY <1>0, <2>2, <2>3, Untouched
  <1>4. Moved(i)'
    BY <1>0, <1>1, <1>2, <1>3 DEF Moved
  <1>5. applied'[i] = {}
    <2>1. ASSUME NEW c \in Calls, Apply(c) PROVE applied'[i] = {}
      BY <1>0, <2>1 DEF Apply, Refusable, Request
    <2> QED
      BY <2>1, Untouched DEF Refusable
  <1>6. ASSUME NEW c \in Calls, pc'[c] = "effect", request'[c].intent = i PROVE FALSE
    BY <1>0, <1>6, Untouched DEF Refusable, Moved
  <1> QED
    BY <1>2, <1>4, <1>5, <1>6 DEF Refusable

\* An intent whose target moves while it is open is never applied: reprepare compares
\* the targets after the claim, and no later call gets so far.
THEOREM MovedNeverApplied == Spec => MovedIsNeverApplied
  <1> SUFFICES ASSUME NEW i \in Intents
               PROVE  Spec => [](status[i] \in Open /\ Moved(i) => [](applied[i] = {}))
    BY DEF MovedIsNeverApplied
  <1>1. Inv /\ VersionsGrow /\ VersionsGrow' /\ Refusable(i) /\ [Next]_vars => Refusable(i)'
    BY RefusableStep
  <1>2. Inv /\ status[i] \in Open /\ Moved(i) => Refusable(i)
    BY DEF Inv, UnclaimedIsUntouched, Refusable, Open, BodySteps
  <1>3. Refusable(i) => applied[i] = {}
    BY DEF Refusable
  <1> QED
    BY <1>1, <1>2, <1>3, Invariance, TargetsGrow, PTL DEF Spec
=============================================================================
