------------------------- MODULE PaymentIntentsProofs -------------------------
(***************************************************************************)
(* Proofs about PaymentIntents, for every number of users, intents and     *)
(* concurrent tasks, either backend and every rounding of timestamps that  *)
(* keeps their order.                                                      *)
(***************************************************************************)
EXTENDS PaymentIntents, TLAPS

\* The lifecycle table of payment_status.rs stays within the twelve statuses, and
\* its three terminal rows are empty.
LEMMA SuccessorsType == Successors \in [Statuses -> SUBSET Statuses]
  BY DEF Successors, Statuses

LEMMA TerminalIsFinal ==
  ASSUME NEW s \in Terminal
  PROVE  s \in Statuses /\ Successors[s] = {}
  BY DEF Successors, Statuses, Terminal

\* From wherever nothing is settled yet, moves lead to every end.
LEMMA EndsAreAhead ==
  ASSUME NEW C \in ClosedSets, NEW s \in C, s \notin Terminal
  PROVE  Terminal \subseteq C
<1>1. C \subseteq Statuses /\ \A x \in C : \A y \in Successors[x] : y \in C
  BY DEF ClosedSets
<1>2. s \in Statuses \ Terminal
  BY <1>1
<1>3. "failed" \in C
  <2>1. "failed" \in Successors[s]
    BY <1>2 DEF Successors, Statuses, Terminal
  <2>2. QED
    BY <1>1, <2>1
<1>4. s \in {"created", "funding"} => "pending" \in C
  <2>1. "pending" \in Successors["created"] /\ "pending" \in Successors["funding"]
    BY DEF Successors, Statuses
  <2>2. QED
    BY <1>1, <2>1
<1>5. s \in {"created", "funding", "pending"} => "claimable" \in C
  <2>1. "claimable" \in Successors["pending"]
    BY DEF Successors, Statuses
  <2>2. QED
    BY <1>1, <1>4, <2>1
<1>6. s \in {"created", "funding", "pending", "protected", "claimable"} => "claiming" \in C
  <2>1. "claiming" \in Successors["claimable"] /\ "claiming" \in Successors["protected"]
    BY DEF Successors, Statuses
  <2>2. QED
    BY <1>1, <1>5, <2>1
<1>7. /\ s \in {"refund_available", "expired", "refunding"} \/ "claiming" \in C
      /\ \A x \in {"refund_available", "expired", "refunding", "claiming"} :
           {"claimed", "refunded"} \subseteq Successors[x]
  BY <1>2, <1>6 DEF Successors, Statuses, Terminal
<1>8. "claimed" \in C /\ "refunded" \in C
  BY <1>1, <1>7
<1>9. QED
  BY <1>3, <1>8 DEF Terminal

\* No sequence of moves is a dead end, and none leaves an end.
LEMMA MovesLead ==
  ASSUME NEW s \in Statuses
  PROVE  IF s \in Terminal THEN ReachableStatuses[s] = {s}
         ELSE Terminal \subseteq ReachableStatuses[s]
<1>1. ReachableStatuses[s] = {x \in Statuses : \A C \in ClosedSets : s \in C => x \in C}
  BY DEF ReachableStatuses
<1>2. CASE s \in Terminal
  <2>1. {s} \in ClosedSets
    BY <1>2, TerminalIsFinal DEF ClosedSets
  <2>2. QED
    BY <1>1, <1>2, <2>1
<1>3. CASE s \notin Terminal
  BY <1>1, <1>3, EndsAreAhead DEF Terminal, Statuses
<1>4. QED
  BY <1>2, <1>3

\* The placeholder values are well typed.
LEMMA PlaceholderTypes ==
  NoIntent \in Intent /\ NoReport \in Report /\ NoRow \in Row
<1>1. (CHOOSE u \in Users : TRUE) \in Users
  BY ConstantsAssumption
<1>2. (CHOOSE f \in Forms : TRUE) \in Forms
  BY ConstantsAssumption
<1>3. (CHOOSE i \in Ids : TRUE) \in Ids
  BY ConstantsAssumption
<1>4. (CHOOSE s \in Reports : TRUE) \in Reports
  BY ConstantsAssumption
<1>5. 0 \in Times /\ NoExpiry \in Nat
  BY ConstantsAssumption DEF Times, NoExpiry
<1>6. NoIntent \in Intent
  BY <1>1, <1>2, <1>5 DEF NoIntent, Intent, Identifier, Statuses
<1>7. NoReport \in Report
  BY <1>1, <1>3, <1>4 DEF NoReport, Report
<1>8. NoRow \in Row
  BY <1>5 DEF NoRow, Row, Statuses
<1>9. QED
  BY <1>6, <1>7, <1>8

\* The stored form of the clock is a timestamp, and it is monotone.
LEMMA StoredClock ==
  ASSUME now \in Times
  PROVE  /\ Stored[now] \in Times
         /\ now' \in Times /\ now <= now' => Stored[now] <= Stored[now']
  BY ConstantsAssumption

-------------------------------------------------------------------------------
(***************************************************************************)
(* Type correctness.                                                       *)
(***************************************************************************)

LEMMA InitTypeOK == Init => TypeOK
  BY PlaceholderTypes, ConstantsAssumption DEF Init, TypeOK, Times, Stages, Steps

LEMMA StoredRowType ==
  ASSUME TypeOK, NEW i \in Ids
  PROVE  StoredRow(i) \in Row
  BY DEF TypeOK, StoredRow, Intent, Row

\* Recording an answer keeps the history of answers well typed.
LEMMA AnswerType ==
  ASSUME TypeOK, NEW i \in Ids, NEW r \in Row, Answer(i, r)
  PROVE  told' \in [Ids -> SUBSET Outcome]
<1>1. r.status \in Terminal => r \in Outcome
  BY DEF Row, Outcome
<1>2. QED
  BY <1>1 DEF TypeOK, Answer

\* Storing a row changes the two columns of one intent and nothing else.
LEMMA StoreRowEffect ==
  ASSUME TypeOK, NEW i \in Ids, NEW r \in Row, StoreRow(i, r)
  PROVE  /\ intents' \in [Ids -> Intent]
         /\ StoredRow(i)' = r
         /\ intents'[i].status = r.status /\ intents'[i].updated_at = r.updated_at
         /\ intents'[i] = [intents[i] EXCEPT !.status = r.status, !.updated_at = r.updated_at]
         /\ \A j \in Ids : /\ intents'[j].kind = intents[j].kind
                           /\ intents'[j].sender = intents[j].sender
                           /\ intents'[j].recipient = intents[j].recipient
                           /\ intents'[j].expires_at = intents[j].expires_at
                           /\ j # i => intents'[j] = intents[j]
<1> DEFINE new == [intents[i] EXCEPT !.status = r.status, !.updated_at = r.updated_at]
<1>1. intents[i] \in Intent /\ r.status \in Statuses /\ r.updated_at \in Times
  BY DEF TypeOK, Row
<1>2. new \in Intent
  BY <1>1 DEF Intent
<1>3. /\ new.status = r.status /\ new.updated_at = r.updated_at
      /\ new.kind = intents[i].kind /\ new.sender = intents[i].sender
      /\ new.recipient = intents[i].recipient /\ new.expires_at = intents[i].expires_at
  BY <1>1 DEF Intent
<1>4. intents' = [intents EXCEPT ![i] = new]
  BY DEF StoreRow
<1>5. [status |-> r.status, updated_at |-> r.updated_at] = r
  BY DEF Row
<1> HIDE DEF new
<1>6. intents' \in [Ids -> Intent] /\ intents'[i] = new
      /\ \A j \in Ids : j # i => intents'[j] = intents[j]
  BY <1>2, <1>4 DEF TypeOK
<1>7. QED
  BY <1>3, <1>5, <1>6 DEF StoredRow, new

LEMMA FinishType ==
  ASSUME TypeOK, NEW t \in Tasks, Finish(t)
  PROVE  /\ pc' \in [Tasks -> Steps]
         /\ req' \in [Tasks -> Report]
         /\ row' \in [Tasks -> Row]
  BY PlaceholderTypes DEF TypeOK, Finish, Steps

LEMMA StepTypeOK == TypeOK /\ [Next]_vars => TypeOK'
<1> SUFFICES ASSUME TypeOK, [Next]_vars
             PROVE  TypeOK'
  OBVIOUS
<1>0. Stored[now] \in Times /\ Times \subseteq Nat
  BY StoredClock, ConstantsAssumption DEF TypeOK, Times
<1>1. ASSUME NEW i \in Ids, NEW u \in Users, NEW ident \in Identifier, NEW kind \in Kinds,
             NEW life \in Lifetimes \cup {NoExpiry}, CreateIntent(i, u, ident, kind, life)
      PROVE  TypeOK'
  <2>1. kind \in {"protected", "instant"} /\ InitialStatus(kind) \in Statuses
    BY ConstantsAssumption DEF InitialStatus, Statuses
  <2>2. ExpiresAt(kind, life) \in Nat
    BY <1>0, ConstantsAssumption DEF ExpiresAt, NoExpiry, TypeOK
  <2>3. [kind |-> kind, sender |-> u, recipient |-> ident,
         status |-> InitialStatus(kind), expires_at |-> ExpiresAt(kind, life),
         updated_at |-> Stored[now]] \in Intent
    BY <1>0, <2>1, <2>2 DEF Intent
  <2>4. intents' \in [Ids -> Intent] /\ stage' \in [Ids -> Stages]
    BY <1>1, <2>3 DEF TypeOK, CreateIntent, Stages
  <2>5. QED
    BY <1>1, <2>4 DEF TypeOK, CreateIntent
<1>2. ASSUME NEW i \in Ids, ShowIntent(i)
      PROVE  TypeOK'
  BY <1>2, StoredRowType, AnswerType DEF TypeOK, ShowIntent
<1>3. ASSUME NEW t \in Tasks, NEW u \in Users, NEW i \in Ids, NEW s \in Reports,
             ReceiveReport(t, u, i, s)
      PROVE  TypeOK'
  BY <1>3 DEF TypeOK, ReceiveReport, Report, Steps
<1>4. ASSUME NEW t \in Tasks, TaskStep(t)
      PROVE  TypeOK'
  <2>0. req[t] \in Report /\ row[t] \in Row /\ req[t].id \in Ids
        /\ req[t].target \in Statuses /\ req[t].actor \in Users
    BY ConstantsAssumption DEF TypeOK, Report
  <2>1. CASE LockRow(t)
    BY <2>0, <2>1, StoredRowType DEF TypeOK, LockRow, Steps
  <2>2. CASE RejectReport(t)
    BY <2>2, FinishType DEF TypeOK, RejectReport
  <2>3. CASE RepeatReport(t)
    BY <2>3 DEF TypeOK, RepeatReport, Steps
  <2>4. CASE WriteRow(t)
    BY <1>0, <2>0, <2>4 DEF TypeOK, WriteRow, Steps, Row
  <2>5. CASE CommitRow(t)
    BY <2>0, <2>5, StoreRowEffect DEF TypeOK, CommitRow, Steps
  <2>6. CASE RefuseInMemory(t)
    BY <2>6, FinishType DEF TypeOK, RefuseInMemory
  <2>7. CASE UpdateInMemory(t)
    <3> DEFINE i == req[t].id
               new == IF intents[i].status = req[t].target THEN StoredRow(i)
                      ELSE [status |-> req[t].target, updated_at |-> Stored[now]]
    <3>1. new \in Row
      BY <1>0, <2>0, StoredRowType DEF Row
    <3>2. StoreRow(i, new) /\ row' = [row EXCEPT ![t] = new]
      BY <2>7 DEF UpdateInMemory
    <3> HIDE DEF new
    <3>3. QED
      BY ZenonT(60), <2>0, <2>7, <3>1, <3>2, StoreRowEffect DEF TypeOK, UpdateInMemory, Steps
  <2>8. CASE AnswerReport(t)
    <3>1. [status |-> req[t].target, updated_at |-> row[t].updated_at] \in Row
      BY <2>0 DEF Row
    <3>2. QED
      BY <2>0, <2>8, <3>1, FinishType, AnswerType DEF TypeOK, AnswerReport
  <2>9. QED
    BY <1>4, <2>1, <2>2, <2>3, <2>4, <2>5, <2>6, <2>7, <2>8 DEF TaskStep, PostgresStep
<1>5. ASSUME NEW t \in Tasks, AbandonReport(t)
      PROVE  TypeOK'
  BY <1>5, FinishType DEF TypeOK, AbandonReport
<1>6. CASE Restart
  BY <1>6, PlaceholderTypes DEF TypeOK, Restart, Stages, Steps
<1>7. CASE Tick
  BY <1>7, ConstantsAssumption DEF TypeOK, Tick, Times
<1>8. CASE UNCHANGED vars
  BY <1>8 DEF TypeOK, vars
<1>9. QED
  BY <1>1, <1>2, <1>3, <1>4, <1>5, <1>6, <1>7, <1>8 DEF Next, OtherStep, ReadIntent, ListIntents

\* Type correctness of the coordination register.
THEOREM TypeCorrect == Spec => []TypeOK
  BY InitTypeOK, StepTypeOK, PTL DEF Spec

-------------------------------------------------------------------------------
(***************************************************************************)
(* The inductive invariant.  A step either leaves the store alone and moves *)
(* one task, or changes one row on behalf of the only task that may.       *)
(***************************************************************************)

LEMMA InitIInv == Init => IInv
<1> SUFFICES ASSUME Init PROVE IInv
  OBVIOUS
<1>1. TypeOK
  BY InitTypeOK
<1>2. QED
  BY <1>1 DEF Init, IInv, LockDiscipline, TasksEntitled, AnswersCurrent, StampsPast,
              UntoldUntilIssued, AnswersAgree, OutcomeReportedByEntitledParty

\* What holds of the store is not touched by a step that leaves the store, the
\* answers and the clock alone.
LEMMA StoreUntouched ==
  ASSUME IInv, UNCHANGED <<now, stage, intents, reporter, told>>
  PROVE  /\ StampsPast' /\ UntoldUntilIssued' /\ AnswersAgree'
         /\ OutcomeReportedByEntitledParty'
  BY DEF IInv, StampsPast, UntoldUntilIssued, AnswersAgree, OutcomeReportedByEntitledParty,
         StoredRow, MayReport, IsSender, IsRecipient

\* A task that returns leaves the other tasks as they were.
LEMMA FinishKeepsTasks ==
  ASSUME IInv, NEW t \in Tasks, Finish(t), UNCHANGED <<now, stage, intents>>
  PROVE  LockDiscipline' /\ TasksEntitled' /\ AnswersCurrent'
<1>1. /\ pc'[t] = "idle"
      /\ \A u \in Tasks \ {t} : pc'[u] = pc[u] /\ req'[u] = req[u] /\ row'[u] = row[u]
  BY DEF IInv, TypeOK, Finish
<1>2. LockDiscipline'
  BY <1>1 DEF IInv, LockDiscipline, HoldsRow, StoredRow
<1>3. TasksEntitled'
  BY <1>1 DEF IInv, TasksEntitled, MayReport, IsSender, IsRecipient
<1>4. AnswersCurrent'
  BY <1>1 DEF IInv, AnswersCurrent, StoredRow
<1>5. QED
  BY <1>2, <1>3, <1>4

LEMMA ReceiveReportIInv ==
  ASSUME IInv, NEW t \in Tasks, NEW u \in Users, NEW i \in Ids, NEW s \in Reports,
         ReceiveReport(t, u, i, s)
  PROVE  LockDiscipline' /\ TasksEntitled' /\ AnswersCurrent'
<1>1. /\ pc'[t] = "authorized" /\ req'[t].id = i /\ req'[t].actor = u /\ req'[t].target = s
      /\ \A v \in Tasks \ {t} : pc'[v] = pc[v] /\ req'[v] = req[v]
      /\ UNCHANGED <<now, stage, intents, row>>
  BY DEF IInv, TypeOK, ReceiveReport
<1>2. LockDiscipline'
  BY <1>1 DEF IInv, LockDiscipline, HoldsRow, StoredRow
<1>3. TasksEntitled'
  BY <1>1 DEF IInv, TasksEntitled, MayReport, IsSender, IsRecipient, ReceiveReport
<1>4. AnswersCurrent'
  BY <1>1 DEF IInv, AnswersCurrent, StoredRow
<1>5. QED
  BY <1>2, <1>3, <1>4

\* The steps of a transaction before COMMIT touch only the task itself.
LEMMA TransactionIInv ==
  ASSUME IInv, NEW t \in Tasks, LockRow(t) \/ RepeatReport(t) \/ WriteRow(t)
  PROVE  LockDiscipline' /\ TasksEntitled' /\ AnswersCurrent'
<1>1. /\ UNCHANGED <<now, stage, intents, req>>
      /\ \A u \in Tasks \ {t} : pc'[u] = pc[u] /\ row'[u] = row[u]
      /\ pc[t] # "idle"
  BY DEF IInv, TypeOK, LockRow, RepeatReport, WriteRow
<1>2. TasksEntitled'
  BY <1>1 DEF IInv, TasksEntitled, MayReport, IsSender, IsRecipient
<1>3. CASE LockRow(t)
  <2>1. pc'[t] = "locked" /\ row'[t] = StoredRow(req[t].id) /\ Backend = "postgres"
        /\ ~RowLocked(req[t].id)
    BY <1>3 DEF IInv, TypeOK, LockRow
  <2>2. LockDiscipline'
    BY <1>1, <2>1 DEF IInv, LockDiscipline, HoldsRow, RowLocked, StoredRow
  <2>3. AnswersCurrent'
    BY <1>1, <2>1 DEF IInv, AnswersCurrent, StoredRow
  <2>4. QED
    BY <1>2, <2>2, <2>3
<1>4. CASE RepeatReport(t)
  <2>1. pc'[t] = "answering" /\ row' = row /\ row[t].status = req[t].target
        /\ row[t] = StoredRow(req[t].id)
    BY <1>4 DEF IInv, TypeOK, RepeatReport, LockDiscipline
  <2>2. LockDiscipline'
    BY <1>1, <2>1 DEF IInv, LockDiscipline, HoldsRow, StoredRow
  <2>3. AnswersCurrent'
    BY <1>1, <2>1 DEF IInv, AnswersCurrent, StoredRow
  <2>4. QED
    BY <1>2, <2>2, <2>3
<1>5. CASE WriteRow(t)
  <2>1. /\ pc[t] = "locked" /\ pc'[t] = "written" /\ row[t] = StoredRow(req[t].id)
        /\ row'[t].status = req[t].target /\ row'[t].updated_at = Stored[now]
        /\ req[t].target \in Successors[row[t].status]
    BY <1>5 DEF IInv, TypeOK, WriteRow, LockDiscipline, CanTransitionTo
  <2>2. /\ row[t].status = intents[req[t].id].status
        /\ intents[req[t].id].updated_at <= Stored[now]
        /\ Stored[now] <= Stored[now]
    <3>1. req[t].id \in Ids /\ stage[req[t].id] = "stored"
      BY <1>1 DEF IInv, TypeOK, Report, TasksEntitled
    <3>2. Stored[now] \in Nat
      BY StoredClock DEF IInv, TypeOK, Times
    <3>3. QED
      BY <2>1, <3>1, <3>2 DEF StoredRow, IInv, StampsPast
  <2>3. LockDiscipline'
    BY <1>1, <2>1, <2>2 DEF IInv, LockDiscipline, HoldsRow, StoredRow
  <2>4. AnswersCurrent'
    BY <1>1, <2>1 DEF IInv, AnswersCurrent, StoredRow
  <2>5. QED
    BY <1>2, <2>3, <2>4
<1>6. QED
  BY <1>3, <1>4, <1>5

\* The one way a stored intent changes: task t, which nobody else shares the row
\* with, stores r, which repeats the row or is a legal move from it.
LEMMA MoveIInv ==
  ASSUME IInv, NEW t \in Tasks, NEW r \in Row, pc[t] # "idle",
         \A u \in Tasks \ {t} : ~HoldsRow(u, req[t].id),
         r.status = req[t].target,
         r = StoredRow(req[t].id) \/ r.status \in Successors[intents[req[t].id].status],
         intents[req[t].id].updated_at <= r.updated_at, r.updated_at <= Stored[now],
         StoreRow(req[t].id, r),
         pc' = [pc EXCEPT ![t] = "answering"], row' = [row EXCEPT ![t] = r],
         \/ reporter' = reporter /\ r = StoredRow(req[t].id)
         \/ reporter' = [reporter EXCEPT ![req[t].id] = req[t].actor],
         UNCHANGED <<now, stage, req, told>>
  PROVE  /\ LockDiscipline' /\ TasksEntitled' /\ AnswersCurrent' /\ StampsPast'
         /\ UntoldUntilIssued' /\ AnswersAgree' /\ OutcomeReportedByEntitledParty'
<1> DEFINE i == req[t].id
<1>1. /\ i \in Ids /\ stage[i] = "stored"
      /\ req[t].actor \in Users /\ MayReport(req[t].actor, i, req[t].target)
  BY SMTT(30) DEF IInv, TypeOK, Report, TasksEntitled
<1>2. /\ StoredRow(i)' = r
      /\ intents'[i].status = r.status /\ intents'[i].updated_at = r.updated_at
      /\ \A j \in Ids : /\ intents'[j].sender = intents[j].sender
                        /\ intents'[j].recipient = intents[j].recipient
                        /\ j # i => intents'[j] = intents[j]
  BY <1>1, StoreRowEffect DEF IInv
<1>3. \A u \in Users, j \in Ids, x \in Statuses : MayReport(u, j, x)' <=> MayReport(u, j, x)
  BY <1>2 DEF MayReport, IsSender, IsRecipient
<1>4. /\ pc'[t] = "answering" /\ row'[t] = r
      /\ \A u \in Tasks \ {t} : pc'[u] = pc[u] /\ row'[u] = row[u]
  BY DEF IInv, TypeOK
\* A settled intent is not changed at all.
<1>5. intents[i].status \in Terminal => r = StoredRow(i)
  BY TerminalIsFinal
<1>6. \A u \in Tasks : req[u].id \in Ids /\ req[u].actor \in Users /\ req[u].target \in Statuses
  BY ConstantsAssumption DEF IInv, TypeOK, Report
<1>7. LockDiscipline'
  BY <1>2, <1>4, <1>6 DEF IInv, LockDiscipline, HoldsRow, StoredRow
<1>8. TasksEntitled'
  BY <1>3, <1>4, <1>6 DEF IInv, TasksEntitled
<1>9. AnswersCurrent'
  <2> SUFFICES ASSUME NEW u \in Tasks, pc'[u] = "answering"
               PROVE  /\ row'[u].status = req'[u].target
                      /\ row'[u].status \in Terminal => row'[u] = StoredRow(req[u].id)'
    BY DEF AnswersCurrent
  <2>1. CASE u = t
    BY <1>2, <1>4, <2>1
  <2>2. CASE u # t
    <3>1. /\ row'[u].status = req'[u].target
          /\ row'[u].status \in Terminal => row'[u] = StoredRow(req[u].id)
      BY <1>4, <2>2 DEF IInv, AnswersCurrent
    <3>2. CASE req[u].id # i
      BY <1>2, <1>6, <3>1, <3>2 DEF StoredRow
    <3>3. CASE req[u].id = i
      BY <1>2, <1>5, <3>1, <3>3 DEF StoredRow
    <3>4. QED
      BY <3>2, <3>3
  <2>3. QED
    BY <2>1, <2>2
<1>10. StampsPast'
  BY <1>1, <1>2 DEF IInv, StampsPast
<1>11. UntoldUntilIssued'
  BY <1>1 DEF IInv, TypeOK, UntoldUntilIssued
<1>12. AnswersAgree'
  <2>1. told[i] \subseteq {StoredRow(i)'}
    <3>1. told[i] \subseteq {StoredRow(i)} /\ told[i] \subseteq Outcome
      BY <1>1 DEF IInv, AnswersAgree, TypeOK
    <3>2. CASE told[i] = {}
      BY <3>2
    <3>3. CASE told[i] # {}
      BY <1>2, <1>5, <3>1, <3>3 DEF Outcome, StoredRow
    <3>4. QED
      BY <3>2, <3>3
  <2>2. QED
    BY <1>2, <2>1 DEF IInv, AnswersAgree, StoredRow
<1>13. OutcomeReportedByEntitledParty'
  <2> SUFFICES ASSUME NEW j \in Ids, stage'[j] = "stored", reporter'[j] # NoUser
               PROVE  MayReport(reporter[j], j, intents[j].status)'
    BY DEF OutcomeReportedByEntitledParty
  <2> USE DEF MayReport, IsSender, IsRecipient
  <2>1. CASE j # i
    BY <1>1, <1>2, <2>1 DEF IInv, TypeOK, OutcomeReportedByEntitledParty
  <2>2. CASE j = i /\ reporter' = reporter /\ r = StoredRow(i)
    BY <1>1, <1>2, <2>2 DEF IInv, OutcomeReportedByEntitledParty, StoredRow
  <2>3. CASE j = i /\ reporter' = [reporter EXCEPT ![i] = req[t].actor]
    BY <1>1, <1>2, <2>3 DEF IInv, TypeOK
  <2>4. QED
    BY <2>1, <2>2, <2>3
<1>14. QED
  BY SMTT(30), <1>7, <1>8, <1>9, <1>10, <1>11, <1>12, <1>13

LEMMA CommitRowIInv ==
  ASSUME IInv, NEW t \in Tasks, CommitRow(t)
  PROVE  /\ LockDiscipline' /\ TasksEntitled' /\ AnswersCurrent' /\ StampsPast'
         /\ UntoldUntilIssued' /\ AnswersAgree' /\ OutcomeReportedByEntitledParty'
<1>1. row[t] \in Row /\ row' = [row EXCEPT ![t] = row[t]]
  BY SMTT(30) DEF IInv, TypeOK, CommitRow
<1>2. /\ pc[t] = "written" /\ \A u \in Tasks \ {t} : ~HoldsRow(u, req[t].id)
      /\ row[t].status = req[t].target
      /\ row[t].status \in Successors[intents[req[t].id].status]
      /\ intents[req[t].id].updated_at <= row[t].updated_at
      /\ row[t].updated_at <= Stored[now]
  BY DEF IInv, LockDiscipline, CommitRow
<1>3. QED
  BY <1>1, <1>2, MoveIInv DEF CommitRow

\* What the in-memory store writes repeats the row or is a legal, fresh move.
LEMMA MemoryRow ==
  ASSUME IInv, NEW t \in Tasks, UpdateInMemory(t)
  PROVE  \E r \in Row :
           /\ StoreRow(req[t].id, r) /\ row' = [row EXCEPT ![t] = r]
           /\ r.status = req[t].target
           /\ r = StoredRow(req[t].id) \/ r.status \in Successors[intents[req[t].id].status]
           /\ intents[req[t].id].updated_at <= r.updated_at /\ r.updated_at <= Stored[now]
           /\ \/ reporter' = reporter /\ r = StoredRow(req[t].id)
              \/ reporter' = [reporter EXCEPT ![req[t].id] = req[t].actor]
<1> DEFINE i == req[t].id
           new == IF intents[i].status = req[t].target THEN StoredRow(i)
                  ELSE [status |-> req[t].target, updated_at |-> Stored[now]]
<1>1. /\ Backend = "memory" /\ pc[t] = "authorized"
      /\ CanTransitionTo(intents[i].status, req[t].target)
      /\ StoreRow(i, new) /\ pc' = [pc EXCEPT ![t] = "answering"]
      /\ row' = [row EXCEPT ![t] = new]
      /\ reporter' = IF intents[i].status = req[t].target THEN reporter
                     ELSE [reporter EXCEPT ![i] = req[t].actor]
      /\ UNCHANGED <<now, stage, req, told>>
  BY DEF UpdateInMemory
<1>2. i \in Ids /\ req[t].target \in Statuses /\ stage[i] = "stored"
  BY <1>1, ConstantsAssumption DEF IInv, TypeOK, Report, TasksEntitled
<1>3. Stored[now] \in Times /\ Times \subseteq Nat /\ intents[i].updated_at \in Times
      /\ intents[i].updated_at <= Stored[now]
  BY <1>2, StoredClock DEF IInv, TypeOK, Times, Intent, StampsPast
<1> DEFINE old == intents[i].updated_at
<1>3a. old <= old /\ Stored[now] <= Stored[now]
  <2>1. old \in Nat /\ Stored[now] \in Nat
    BY <1>3
  <2> HIDE DEF old
  <2>2. QED
    BY <2>1
<1>4. new \in Row /\ new.status = req[t].target
      /\ intents[i].updated_at <= new.updated_at /\ new.updated_at <= Stored[now]
  <2>1. CASE intents[i].status = req[t].target
    <3>1. new = StoredRow(i)
      BY <2>1
    <3>2. StoredRow(i) \in Row
      BY <1>2, StoredRowType DEF IInv
    <3>3. StoredRow(i).status = req[t].target /\ StoredRow(i).updated_at = intents[i].updated_at
      BY <2>1 DEF StoredRow
    <3> HIDE DEF new
    <3>4. QED
      BY <1>3, <1>3a, <3>1, <3>2, <3>3
  <2>2. CASE intents[i].status # req[t].target
    <3>1. new = [status |-> req[t].target, updated_at |-> Stored[now]]
      BY <2>2
    <3>2. new \in Row /\ new.status = req[t].target /\ new.updated_at = Stored[now]
      BY <1>2, <1>3, <3>1 DEF Row
    <3> HIDE DEF new
    <3>3. QED
      BY <1>3, <1>3a, <3>2
  <2>3. QED
    BY <2>1, <2>2
<1>5. new = StoredRow(i) \/ new.status \in Successors[intents[i].status]
  BY <1>1 DEF CanTransitionTo
<1>6. \/ reporter' = reporter /\ new = StoredRow(i)
      \/ reporter' = [reporter EXCEPT ![i] = req[t].actor]
  BY <1>1
<1> HIDE DEF new
<1>7. QED
  BY <1>1, <1>4, <1>5, <1>6

LEMMA UpdateInMemoryIInv ==
  ASSUME IInv, NEW t \in Tasks, UpdateInMemory(t)
  PROVE  /\ LockDiscipline' /\ TasksEntitled' /\ AnswersCurrent' /\ StampsPast'
         /\ UntoldUntilIssued' /\ AnswersAgree' /\ OutcomeReportedByEntitledParty'
<1>1. PICK r \in Row :
        /\ StoreRow(req[t].id, r) /\ row' = [row EXCEPT ![t] = r]
        /\ r.status = req[t].target
        /\ r = StoredRow(req[t].id) \/ r.status \in Successors[intents[req[t].id].status]
        /\ intents[req[t].id].updated_at <= r.updated_at /\ r.updated_at <= Stored[now]
        /\ \/ reporter' = reporter /\ r = StoredRow(req[t].id)
           \/ reporter' = [reporter EXCEPT ![req[t].id] = req[t].actor]
  BY MemoryRow
<1>2. /\ Backend = "memory" /\ pc[t] = "authorized" /\ pc' = [pc EXCEPT ![t] = "answering"]
      /\ UNCHANGED <<now, stage, req, told>>
  BY DEF UpdateInMemory
<1>3. \A u \in Tasks \ {t} : ~HoldsRow(u, req[t].id)
  BY <1>2 DEF IInv, LockDiscipline, HoldsRow
<1>4. QED
  BY <1>1, <1>2, <1>3, MoveIInv

\* A new intent takes an id no task works on and nobody was told about.
LEMMA CreateIntentIInv ==
  ASSUME IInv, NEW i \in Ids, NEW u \in Users, NEW ident \in Identifier, NEW kind \in Kinds,
         NEW life \in Lifetimes \cup {NoExpiry}, CreateIntent(i, u, ident, kind, life)
  PROVE  /\ LockDiscipline' /\ TasksEntitled' /\ AnswersCurrent' /\ StampsPast'
         /\ UntoldUntilIssued' /\ AnswersAgree' /\ OutcomeReportedByEntitledParty'
<1>1. /\ stage[i] = "unissued" /\ stage'[i] = "stored"
      /\ \A j \in Ids \ {i} : stage'[j] = stage[j] /\ intents'[j] = intents[j]
      /\ intents'[i].updated_at = Stored[now]
      /\ UNCHANGED <<now, pc, req, row, reporter, told>>
  BY DEF IInv, TypeOK, CreateIntent
<1>2. \A t \in Tasks : req[t].id \in Ids /\ (pc[t] # "idle" => req[t].id # i)
  BY <1>1 DEF IInv, TypeOK, Report, TasksEntitled
<1>3. told[i] = {} /\ reporter[i] = NoUser
  BY <1>1 DEF IInv, UntoldUntilIssued
<1>4. LockDiscipline'
  BY <1>1, <1>2 DEF IInv, LockDiscipline, HoldsRow, StoredRow
<1>5. TasksEntitled'
  BY <1>1, <1>2 DEF IInv, TasksEntitled, MayReport, IsSender, IsRecipient
<1>6. AnswersCurrent'
  BY <1>1, <1>2 DEF IInv, AnswersCurrent, StoredRow
<1>7. StampsPast'
  <2>1. Stored[now] <= Stored[now]
    <3>1. Stored[now] \in Nat
      BY StoredClock DEF IInv, TypeOK, Times
    <3>2. QED
      BY <3>1
  <2>2. QED
    BY <1>1, <2>1 DEF IInv, StampsPast
<1>8. UntoldUntilIssued'
  BY <1>1 DEF IInv, UntoldUntilIssued
<1>9. AnswersAgree'
  BY <1>1, <1>3 DEF IInv, AnswersAgree, StoredRow
<1>10. OutcomeReportedByEntitledParty'
  BY <1>1, <1>3 DEF IInv, OutcomeReportedByEntitledParty, MayReport, IsSender, IsRecipient
<1>11. QED
  BY <1>4, <1>5, <1>6, <1>7, <1>8, <1>9, <1>10

\* Telling a client what is stored adds nothing to the answers but the stored row.
LEMMA TellIInv ==
  ASSUME IInv, NEW i \in Ids, NEW r \in Row, stage[i] = "stored",
         r.status \in Terminal => r = StoredRow(i), Answer(i, r),
         UNCHANGED <<now, stage, intents, reporter>>
  PROVE  /\ StampsPast' /\ UntoldUntilIssued' /\ AnswersAgree'
         /\ OutcomeReportedByEntitledParty'
<1>1. \A j \in Ids : /\ told'[j] \subseteq told[j] \cup {StoredRow(j)}
                     /\ j # i => told'[j] = told[j]
  BY DEF IInv, TypeOK, Answer
<1>2. AnswersAgree'
  BY <1>1 DEF IInv, AnswersAgree, StoredRow
<1>3. UntoldUntilIssued'
  BY <1>1 DEF IInv, UntoldUntilIssued
<1>4. StampsPast' /\ OutcomeReportedByEntitledParty'
  BY DEF IInv, StampsPast, OutcomeReportedByEntitledParty, MayReport, IsSender, IsRecipient
<1>5. QED
  BY <1>2, <1>3, <1>4

LEMMA AnswerReportIInv ==
  ASSUME IInv, NEW t \in Tasks, AnswerReport(t)
  PROVE  /\ LockDiscipline' /\ TasksEntitled' /\ AnswersCurrent' /\ StampsPast'
         /\ UntoldUntilIssued' /\ AnswersAgree' /\ OutcomeReportedByEntitledParty'
<1> DEFINE r == [status |-> req[t].target, updated_at |-> row[t].updated_at]
<1>1. /\ pc[t] = "answering" /\ req[t].id \in Ids /\ stage[req[t].id] = "stored"
      /\ row[t].status = req[t].target
  BY DEF IInv, TypeOK, Report, TasksEntitled, AnswersCurrent, AnswerReport
<1>2. row[t] \in Row /\ r = row[t]
  BY <1>1 DEF IInv, TypeOK, Row
<1>3. r.status \in Terminal => r = StoredRow(req[t].id)
  BY <1>1, <1>2 DEF IInv, AnswersCurrent
<1>4. Finish(t) /\ Answer(req[t].id, r) /\ UNCHANGED <<now, stage, intents, reporter>>
  BY DEF AnswerReport
<1> HIDE DEF r
<1>5. StampsPast' /\ UntoldUntilIssued' /\ AnswersAgree' /\ OutcomeReportedByEntitledParty'
  BY <1>1, <1>2, <1>3, <1>4, TellIInv
<1>6. QED
  BY <1>4, <1>5, FinishKeepsTasks

LEMMA ShowIntentIInv ==
  ASSUME IInv, NEW i \in Ids, ShowIntent(i)
  PROVE  /\ LockDiscipline' /\ TasksEntitled' /\ AnswersCurrent' /\ StampsPast'
         /\ UntoldUntilIssued' /\ AnswersAgree' /\ OutcomeReportedByEntitledParty'
<1>1. StoredRow(i) \in Row
  BY StoredRowType DEF IInv
<1>2. StampsPast' /\ UntoldUntilIssued' /\ AnswersAgree' /\ OutcomeReportedByEntitledParty'
  BY <1>1, TellIInv DEF ShowIntent
<1>3. LockDiscipline' /\ TasksEntitled' /\ AnswersCurrent'
  BY DEF ShowIntent, IInv, LockDiscipline, HoldsRow, StoredRow, TasksEntitled, MayReport,
         IsSender, IsRecipient, AnswersCurrent
<1>4. QED
  BY <1>2, <1>3

LEMMA RestartIInv ==
  ASSUME IInv, Restart
  PROVE  /\ LockDiscipline' /\ TasksEntitled' /\ AnswersCurrent' /\ StampsPast'
         /\ UntoldUntilIssued' /\ AnswersAgree' /\ OutcomeReportedByEntitledParty'
<1>1. LockDiscipline' /\ TasksEntitled' /\ AnswersCurrent'
  BY DEF Restart, LockDiscipline, TasksEntitled, AnswersCurrent
<1>2. CASE UNCHANGED <<stage, intents, reporter>>
  BY <1>1, <1>2, StoreUntouched DEF Restart
<1>3. CASE /\ stage' = [i \in Ids |-> IF stage[i] = "stored" THEN "lost" ELSE stage[i]]
           /\ reporter' = [i \in Ids |-> NoUser]
  <2>1. \A i \in Ids : /\ stage'[i] # "stored" /\ reporter'[i] = NoUser /\ told'[i] = told[i]
                       /\ stage'[i] = "unissued" => stage[i] = "unissued"
    BY <1>3 DEF Restart
  <2>2. StampsPast' /\ UntoldUntilIssued' /\ AnswersAgree' /\ OutcomeReportedByEntitledParty'
    BY <2>1 DEF IInv, StampsPast, UntoldUntilIssued, AnswersAgree,
                OutcomeReportedByEntitledParty
  <2>3. QED
    BY <1>1, <2>2
<1>4. QED
  BY <1>2, <1>3 DEF Restart

\* The clock only widens the room below it.
LEMMA TickIInv ==
  ASSUME IInv, TypeOK', Tick
  PROVE  /\ LockDiscipline' /\ TasksEntitled' /\ AnswersCurrent' /\ StampsPast'
         /\ UntoldUntilIssued' /\ AnswersAgree' /\ OutcomeReportedByEntitledParty'
<1>1. /\ now \in Times /\ now' \in Times /\ Times \subseteq Nat /\ now <= now'
      /\ UNCHANGED <<stage, intents, pc, req, row, reporter, told>>
  BY DEF IInv, TypeOK, Tick, Times
<1>2. /\ Stored[now] \in Nat /\ Stored[now'] \in Nat /\ Stored[now] <= Stored[now']
      /\ Stored' = Stored
  BY <1>1, ConstantsAssumption
<1>3. \A x \in Times : x <= Stored[now] => x <= Stored[now']
  BY <1>1, <1>2 DEF Times
<1>4. /\ \A t \in Tasks : row[t].updated_at \in Times
      /\ \A i \in Ids : stage[i] = "stored" => intents[i].updated_at \in Times
  BY DEF IInv, TypeOK, Row, Intent
<1>5. LockDiscipline'
  BY <1>1, <1>3, <1>4 DEF IInv, LockDiscipline, HoldsRow, StoredRow
<1>6. StampsPast'
  BY <1>1, <1>3, <1>4 DEF IInv, StampsPast
<1>7. TasksEntitled' /\ AnswersCurrent' /\ UntoldUntilIssued' /\ AnswersAgree'
      /\ OutcomeReportedByEntitledParty'
  BY <1>1 DEF IInv, TasksEntitled, AnswersCurrent, UntoldUntilIssued, AnswersAgree,
              OutcomeReportedByEntitledParty, StoredRow, MayReport, IsSender, IsRecipient
<1>8. QED
  BY <1>5, <1>6, <1>7

LEMMA StepIInv == IInv /\ [Next]_vars => IInv'
<1> SUFFICES ASSUME IInv, [Next]_vars
             PROVE  IInv'
  OBVIOUS
<1>0. TypeOK'
  BY StepTypeOK DEF IInv
<1>1. ASSUME NEW i \in Ids, NEW u \in Users, NEW ident \in Identifier, NEW kind \in Kinds,
             NEW life \in Lifetimes \cup {NoExpiry}, CreateIntent(i, u, ident, kind, life)
      PROVE  IInv'
  BY <1>0, <1>1, CreateIntentIInv DEF IInv
<1>2. ASSUME NEW i \in Ids, ShowIntent(i)
      PROVE  IInv'
  BY <1>0, <1>2, ShowIntentIInv DEF IInv
<1>3. ASSUME NEW t \in Tasks, NEW u \in Users, NEW i \in Ids, NEW s \in Reports,
             ReceiveReport(t, u, i, s)
      PROVE  IInv'
  <2>1. UNCHANGED <<now, stage, intents, reporter, told>>
    BY <1>3 DEF ReceiveReport
  <2>2. QED
    BY <1>0, <1>3, <2>1, ReceiveReportIInv, StoreUntouched DEF IInv
<1>4. ASSUME NEW t \in Tasks, TaskStep(t)
      PROVE  IInv'
  <2>1. CASE LockRow(t) \/ RepeatReport(t) \/ WriteRow(t)
    <3>1. UNCHANGED <<now, stage, intents, reporter, told>>
      BY <2>1 DEF LockRow, RepeatReport, WriteRow
    <3>2. QED
      BY <1>0, <2>1, <3>1, TransactionIInv, StoreUntouched DEF IInv
  <2>2. CASE RejectReport(t) \/ RefuseInMemory(t)
    <3>1. Finish(t) /\ UNCHANGED <<now, stage, intents, reporter, told>>
      BY <2>2 DEF RejectReport, RefuseInMemory
    <3>2. QED
      BY <1>0, <3>1, FinishKeepsTasks, StoreUntouched DEF IInv
  <2>3. CASE CommitRow(t)
    BY <1>0, <2>3, CommitRowIInv DEF IInv
  <2>4. CASE UpdateInMemory(t)
    BY <1>0, <2>4, UpdateInMemoryIInv DEF IInv
  <2>5. CASE AnswerReport(t)
    BY <1>0, <2>5, AnswerReportIInv DEF IInv
  <2>6. QED
    BY <1>4, <2>1, <2>2, <2>3, <2>4, <2>5 DEF TaskStep, PostgresStep
<1>5. ASSUME NEW t \in Tasks, AbandonReport(t)
      PROVE  IInv'
  <2>1. Finish(t) /\ UNCHANGED <<now, stage, intents, reporter, told>>
    BY <1>5 DEF AbandonReport
  <2>2. QED
    BY <1>0, <2>1, FinishKeepsTasks, StoreUntouched DEF IInv
<1>6. CASE Restart
  BY <1>0, <1>6, RestartIInv DEF IInv
<1>7. CASE Tick
  BY <1>0, <1>7, TickIInv DEF IInv
<1>8. CASE UNCHANGED vars
  <2>1. UNCHANGED <<now, stage, intents, reporter, told>> /\ UNCHANGED <<pc, req, row>>
    BY <1>8 DEF vars
  <2>2. LockDiscipline' /\ TasksEntitled' /\ AnswersCurrent'
    BY <2>1 DEF IInv, LockDiscipline, HoldsRow, StoredRow, TasksEntitled, MayReport,
                IsSender, IsRecipient, AnswersCurrent
  <2>3. QED
    BY <1>0, <2>1, <2>2, StoreUntouched DEF IInv
<1>9. QED
  BY <1>1, <1>2, <1>3, <1>4, <1>5, <1>6, <1>7, <1>8 DEF Next, OtherStep, ReadIntent, ListIntents

LEMMA Inductive == Spec => []IInv
  BY InitIInv, StepIInv, PTL DEF Spec

\* All terminal answers about an intent are one status with one timestamp, and
\* they are what is stored.
THEOREM TerminalAnswersAgree == Spec => []AnswersAgree
<1>1. IInv => AnswersAgree
  BY DEF IInv
<1>2. QED
  BY <1>1, Inductive, PTL

\* Whatever is stored was reported by the party entitled to report it.
THEOREM OutcomesAreEntitled == Spec => []OutcomeReportedByEntitledParty
<1>1. IInv => OutcomeReportedByEntitledParty
  BY DEF IInv
<1>2. QED
  BY <1>1, Inductive, PTL

\* A transaction alone holds its row and commits a legal, fresh move.
THEOREM TransactionsAreDisciplined == Spec => []LockDiscipline
<1>1. IInv => LockDiscipline
  BY DEF IInv
<1>2. QED
  BY <1>1, Inductive, PTL

\* Wherever legal reports lead an intent, claim and refund both stay possible until it
\* is settled, and then nothing else is.
THEOREM NoReportIsADeadEnd == Spec => []PathsStayOpen
<1>1. TypeOK => PathsStayOpen
  <2> SUFFICES ASSUME TypeOK, NEW i \in Ids, stage[i] = "stored",
                      NEW s \in ReachableStatuses[intents[i].status]
               PROVE  IF s \in Terminal THEN ReachableStatuses[s] = {s}
                      ELSE Terminal \subseteq ReachableStatuses[s]
    BY SMTT(30) DEF PathsStayOpen
  <2>1. intents[i].status \in Statuses
    BY SMTT(30) DEF TypeOK, Intent
  <2>2. s \in Statuses
    BY SMTT(30), <2>1 DEF ReachableStatuses
  <2>3. QED
    BY <2>2, MovesLead
<1>2. QED
  BY <1>1, TypeCorrect, PTL

-------------------------------------------------------------------------------
(***************************************************************************)
(* What a step may do to a stored intent.                                  *)
(***************************************************************************)

\* Only a commit, the write of the in-memory store, a creation and a restart
\* change a row, and the first two make one legal move of one row.
LEMMA RowEffect ==
  ASSUME IInv, [Next]_vars, NEW i \in Ids, stage[i] = "stored", stage'[i] = "stored"
  PROVE  \/ intents'[i] = intents[i]
         \/ \E r \in Row :
              /\ intents'[i] = [intents[i] EXCEPT !.status = r.status, !.updated_at = r.updated_at]
              /\ intents'[i].status = r.status /\ intents'[i].updated_at = r.updated_at
              /\ r = StoredRow(i) \/ r.status \in Successors[intents[i].status]
              /\ intents[i].updated_at <= r.updated_at
<1>1. ASSUME NEW j \in Ids, NEW u \in Users, NEW ident \in Identifier, NEW kind \in Kinds,
             NEW life \in Lifetimes \cup {NoExpiry}, CreateIntent(j, u, ident, kind, life)
      PROVE  intents'[i] = intents[i]
  BY SMTT(30), <1>1 DEF IInv, TypeOK, CreateIntent
<1>2. ASSUME NEW t \in Tasks, CommitRow(t)
      PROVE  \/ intents'[i] = intents[i]
             \/ \E r \in Row :
                  /\ intents'[i] = [intents[i] EXCEPT !.status = r.status,
                                                      !.updated_at = r.updated_at]
                  /\ intents'[i].status = r.status /\ intents'[i].updated_at = r.updated_at
                  /\ r = StoredRow(i) \/ r.status \in Successors[intents[i].status]
                  /\ intents[i].updated_at <= r.updated_at
  <2>1. row[t] \in Row /\ req[t].id \in Ids /\ StoreRow(req[t].id, row[t])
    BY SMTT(30), <1>2 DEF IInv, TypeOK, Report, CommitRow
  <2>2. CASE req[t].id = i
    <3>1. /\ row[t].status \in Successors[intents[i].status]
          /\ intents[i].updated_at <= row[t].updated_at
      BY SMTT(30), <1>2, <2>2 DEF IInv, LockDiscipline, CommitRow
    <3>2. QED
      BY <2>1, <2>2, <3>1, StoreRowEffect DEF IInv
  <2>3. CASE req[t].id # i
    BY <2>1, <2>3, StoreRowEffect DEF IInv
  <2>4. QED
    BY <2>2, <2>3
<1>3. ASSUME NEW t \in Tasks, UpdateInMemory(t)
      PROVE  \/ intents'[i] = intents[i]
             \/ \E r \in Row :
                  /\ intents'[i] = [intents[i] EXCEPT !.status = r.status,
                                                      !.updated_at = r.updated_at]
                  /\ intents'[i].status = r.status /\ intents'[i].updated_at = r.updated_at
                  /\ r = StoredRow(i) \/ r.status \in Successors[intents[i].status]
                  /\ intents[i].updated_at <= r.updated_at
  <2>1. PICK r \in Row :
          /\ StoreRow(req[t].id, r)
          /\ r = StoredRow(req[t].id) \/ r.status \in Successors[intents[req[t].id].status]
          /\ intents[req[t].id].updated_at <= r.updated_at
    BY SMTT(30), <1>3, MemoryRow
  <2>2. req[t].id \in Ids
    BY SMTT(30) DEF IInv, TypeOK, Report
  <2>3. CASE req[t].id = i
    BY ZenonT(60), <2>1, <2>3, StoreRowEffect DEF IInv
  <2>4. CASE req[t].id # i
    BY <2>1, <2>2, <2>4, StoreRowEffect DEF IInv
  <2>5. QED
    BY <2>3, <2>4
<1>4. CASE Restart
  BY <1>4 DEF Restart
<1>5. CASE UNCHANGED intents
  BY <1>5
<1>6. QED
  BY <1>1, <1>2, <1>3, <1>4, <1>5
  DEF Next, OtherStep, vars, ReadIntent, ListIntents, ShowIntent, ReceiveReport, TaskStep, PostgresStep, LockRow,
      RejectReport, RepeatReport, WriteRow, RefuseInMemory, AnswerReport, AbandonReport, Tick

LEMMA SameFields ==
  ASSUME NEW x \in Intent
  PROVE  [x EXCEPT !.status = x.status, !.updated_at = x.updated_at] = x
  BY DEF Intent

\* A stored intent only ever moves along the lifecycle table.
THEOREM OnlyLegalMoves == Spec => ChangesAreLegalMoves
<1>1. ASSUME IInv, [Next]_vars, NEW i \in Ids, stage[i] = "stored", stage'[i] = "stored",
             intents'[i] # intents[i]
      PROVE  /\ intents'[i].status \in Successors[intents[i].status]
             /\ intents'[i] = [intents[i] EXCEPT !.status = intents'[i].status,
                                                 !.updated_at = intents'[i].updated_at]
  <2>1. PICK r \in Row :
          /\ intents'[i] = [intents[i] EXCEPT !.status = r.status, !.updated_at = r.updated_at]
          /\ intents'[i].status = r.status /\ intents'[i].updated_at = r.updated_at
          /\ r = StoredRow(i) \/ r.status \in Successors[intents[i].status]
    BY <1>1, RowEffect
  <2>2. CASE r = StoredRow(i)
    <3>1. intents[i] \in Intent /\ r.status = intents[i].status
          /\ r.updated_at = intents[i].updated_at
      BY <1>1, <2>2 DEF IInv, TypeOK, StoredRow
    <3>2. intents'[i] = intents[i]
      BY <2>1, <3>1, SameFields
    <3>3. QED
      BY <1>1, <3>2
  <2>3. CASE r.status \in Successors[intents[i].status]
    BY <2>1, <2>3
  <2>4. QED
    BY <2>1, <2>2, <2>3
<1>2. IInv /\ [Next]_vars
      => [\A i \in Ids :
            stage[i] = "stored" /\ intents'[i] # intents[i] /\ stage'[i] = "stored"
              => /\ intents'[i].status \in Successors[intents[i].status]
                 /\ intents'[i] = [intents[i] EXCEPT !.status = intents'[i].status,
                                                     !.updated_at = intents'[i].updated_at]]_vars
  BY <1>1
<1>3. QED
  BY <1>2, Inductive, PTL DEF Spec, ChangesAreLegalMoves

\* The timestamp of a stored intent never moves back.
THEOREM TimestampsAdvance == Spec => TimestampNeverMovesBack
<1>1. ASSUME IInv, [Next]_vars, NEW i \in Ids, stage[i] = "stored", stage'[i] = "stored"
      PROVE  intents'[i].updated_at >= intents[i].updated_at
  <2>1. intents[i].updated_at \in Nat
    BY <1>1, ConstantsAssumption DEF IInv, TypeOK, Intent, Times
  <2>2. CASE intents'[i] = intents[i]
    BY <2>1, <2>2
  <2>3. CASE intents'[i] # intents[i]
    <3>1. \E r \in Row : /\ intents'[i].updated_at = r.updated_at
                         /\ intents[i].updated_at <= r.updated_at
      BY <1>1, <2>3, RowEffect
    <3>2. \A r \in Row : r.updated_at \in Nat
      BY ConstantsAssumption DEF Row, Times
    <3>3. QED
      BY <2>1, <3>1, <3>2
  <2>4. QED
    BY <2>2, <2>3
<1>2. IInv /\ [Next]_vars
      => [\A i \in Ids :
            stage[i] = "stored" /\ stage'[i] = "stored"
              => intents'[i].updated_at >= intents[i].updated_at]_vars
  BY <1>1
<1>3. QED
  BY <1>2, Inductive, PTL DEF Spec, TimestampNeverMovesBack

\* Whoever settles an intent is on record, so a settled intent has a reporter.
LEMMA StepReported ==
  ASSUME IInv, OutcomesAreReported, [Next]_vars
  PROVE  OutcomesAreReported'
<1> SUFFICES ASSUME NEW i \in Ids, stage'[i] = "stored", intents'[i].status \in Terminal
             PROVE  reporter'[i] # NoUser
  BY DEF OutcomesAreReported
<1>1. ASSUME NEW j \in Ids, NEW u \in Users, NEW ident \in Identifier, NEW kind \in Kinds,
             NEW life \in Lifetimes \cup {NoExpiry}, CreateIntent(j, u, ident, kind, life)
      PROVE  reporter'[i] # NoUser
  <2>1. InitialStatus(kind) \notin Terminal
    BY DEF InitialStatus, Terminal
  <2>2. i # j
    BY <1>1, <2>1 DEF IInv, TypeOK, CreateIntent
  <2>3. stage[i] = "stored" /\ intents'[i] = intents[i] /\ reporter' = reporter
    BY <1>1, <2>2 DEF IInv, TypeOK, CreateIntent
  <2>4. QED
    BY <2>3 DEF OutcomesAreReported
<1>2. ASSUME NEW t \in Tasks, NEW r \in Row, StoreRow(req[t].id, r), UNCHANGED stage,
             \/ reporter' = reporter /\ r = StoredRow(req[t].id)
             \/ reporter' = [reporter EXCEPT ![req[t].id] = req[t].actor]
      PROVE  reporter'[i] # NoUser
  <2>1. req[t].id \in Ids /\ req[t].actor # NoUser
    BY ConstantsAssumption DEF IInv, TypeOK, Report
  <2>2. CASE req[t].id = i
    <3>1. intents'[i].status = r.status
      BY <1>2, <2>1, <2>2, StoreRowEffect DEF IInv
    <3>2. CASE reporter' = reporter /\ r = StoredRow(req[t].id)
      BY <1>2, <2>2, <3>1, <3>2 DEF OutcomesAreReported, StoredRow
    <3>3. CASE reporter' = [reporter EXCEPT ![req[t].id] = req[t].actor]
      BY <2>1, <2>2, <3>3 DEF IInv, TypeOK
    <3>4. QED
      BY <1>2, <3>2, <3>3
  <2>3. CASE req[t].id # i
    BY <1>2, <2>1, <2>3, StoreRowEffect DEF IInv, TypeOK, OutcomesAreReported
  <2>4. QED
    BY <2>2, <2>3
<1>3. ASSUME NEW t \in Tasks, CommitRow(t)
      PROVE  reporter'[i] # NoUser
  <2>1. row[t] \in Row
    BY DEF IInv, TypeOK
  <2>2. QED
    BY <1>2, <1>3, <2>1 DEF CommitRow
<1>4. ASSUME NEW t \in Tasks, UpdateInMemory(t)
      PROVE  reporter'[i] # NoUser
  <2>1. UNCHANGED stage
    BY <1>4 DEF UpdateInMemory
  <2>2. QED
    BY <1>2, <1>4, <2>1, MemoryRow
<1>5. CASE Restart
  BY <1>5 DEF Restart, OutcomesAreReported
<1>6. CASE UNCHANGED <<stage, intents, reporter>>
  BY <1>6 DEF OutcomesAreReported
<1>7. QED
  BY <1>1, <1>3, <1>4, <1>5, <1>6
  DEF Next, OtherStep, vars, ReadIntent, ListIntents, ShowIntent, ReceiveReport, TaskStep,
      PostgresStep, LockRow, RejectReport, RepeatReport, WriteRow, RefuseInMemory, AnswerReport,
      AbandonReport, Tick

LEMMA ReportedInductive == Spec => []OutcomesAreReported
<1>1. Init => OutcomesAreReported
  BY DEF Init, OutcomesAreReported
<1>2. IInv /\ OutcomesAreReported /\ [Next]_vars => OutcomesAreReported'
  BY StepReported
<1>3. QED
  BY <1>1, <1>2, Inductive, PTL DEF Spec

-------------------------------------------------------------------------------
(***************************************************************************)
(* The register implements SettlementOutcome.                              *)
(***************************************************************************)

\* A step that leaves an intent open or settled as it was keeps its outcome.
LEMMA SameOutcome ==
  ASSUME NEW i \in Ids, stage'[i] = stage[i], intents'[i].status = intents[i].status,
         intents'[i].updated_at = intents[i].updated_at
  PROVE  SettledAs(i)' = SettledAs(i)
  BY DEF SettledAs, StoredRow

\* Storing a row on behalf of a task decides the outcome or leaves it as it is.
LEMMA MoveDecides ==
  ASSUME IInv, NEW i \in Ids, NEW r \in Row, stage[i] = "stored", StoreRow(i, r),
         r = StoredRow(i) \/ r.status \in Successors[intents[i].status],
         UNCHANGED <<stage, told>>
  PROVE  [Register!OutcomeNext]_(Register!outcomeVars)
<1> DEFINE out == [j \in Ids |-> SettledAs(j)]
<1>1. /\ StoredRow(i)' = r /\ intents'[i].status = r.status
      /\ intents'[i].updated_at = r.updated_at
      /\ \A j \in Ids : j # i => SettledAs(j)' = SettledAs(j)
  BY StoreRowEffect, SameOutcome DEF IInv
<1>2. CASE r = StoredRow(i)
  <2>1. SettledAs(i)' = SettledAs(i)
    BY <1>1, <1>2, SameOutcome DEF StoredRow
  <2>2. out' = out
    BY <1>1, <2>1
  <2>3. QED
    BY <2>2 DEF Register!outcomeVars
<1>3. CASE r.status \in Successors[intents[i].status] /\ r.status \notin Terminal
  <2>1. intents[i].status \notin Terminal
    BY <1>3, TerminalIsFinal
  <2>2. SettledAs(i)' = SettledAs(i)
    BY <1>1, <1>3, <2>1 DEF SettledAs
  <2>3. out' = out
    BY <1>1, <2>2
  <2>4. QED
    BY <2>3 DEF Register!outcomeVars
<1>4. CASE r.status \in Successors[intents[i].status] /\ r.status \in Terminal
  <2>1. intents[i].status \notin Terminal
    BY <1>4, TerminalIsFinal
  <2>2. SettledAs(i) = [status |-> "open", updated_at |-> 0] /\ SettledAs(i)' = r
    BY <1>1, <1>4, <2>1 DEF SettledAs
  <2>3. out' = [out EXCEPT ![i] = r]
    BY <1>1, <2>2
  <2>4. r \in Outcome
    BY <1>4 DEF Row, Outcome
  <2>5. Register!Decide(i)
    BY <2>2, <2>3, <2>4 DEF Register!Decide
  <2>6. QED
    BY <2>5 DEF Register!OutcomeNext
<1>5. QED
  BY <1>2, <1>3, <1>4

\* An answer tells the outcome or nothing.
LEMMA AnswerTells ==
  ASSUME IInv, NEW i \in Ids, NEW r \in Row, stage[i] = "stored",
         r.status \in Terminal => r = StoredRow(i), Answer(i, r), UNCHANGED <<stage, intents>>
  PROVE  [Register!OutcomeNext]_(Register!outcomeVars)
<1> DEFINE out == [j \in Ids |-> SettledAs(j)]
<1>1. out' = out
  BY SameOutcome
<1>2. CASE r.status \notin Terminal
  BY <1>1, <1>2 DEF Answer, Register!outcomeVars
<1>3. CASE r.status \in Terminal
  <2>1. out[i] = r /\ r \in Outcome
    BY <1>3 DEF SettledAs, StoredRow, Row, Outcome
  <2>2. told' = [told EXCEPT ![i] = @ \cup {out[i]}]
    BY <1>3, <2>1 DEF Answer
  <2>3. Register!Tell(i)
    BY <1>1, <2>1, <2>2 DEF Register!Tell
  <2>4. QED
    BY <2>3 DEF Register!OutcomeNext
<1>4. QED
  BY <1>2, <1>3

\* The restart of the in-memory store forgets what it had stored.
LEMMA RestartForgets ==
  ASSUME IInv, Restart
  PROVE  [Register!OutcomeNext]_(Register!outcomeVars)
<1> DEFINE out == [j \in Ids |-> SettledAs(j)]
           lost == {j \in Ids : stage[j] = "stored"}
<1>1. CASE UNCHANGED <<stage, intents>>
  <2>1. out' = out
    BY <1>1, SameOutcome
  <2>2. QED
    BY <2>1 DEF Restart, Register!outcomeVars
<1>2. CASE /\ Backend = "memory"
           /\ stage' = [i \in Ids |-> IF stage[i] = "stored" THEN "lost" ELSE stage[i]]
  <2>1. \A i \in Ids : SettledAs(i)' = IF i \in lost THEN [status |-> "gone", updated_at |-> 0]
                                       ELSE SettledAs(i)
    BY <1>2 DEF SettledAs
  <2>2. out' = [i \in Ids |-> IF i \in lost THEN [status |-> "gone", updated_at |-> 0]
                              ELSE out[i]]
    BY <2>1
  <2>3. Register!Forget(lost)
    BY <1>2, <2>2 DEF Register!Forget, Restart
  <2>4. QED
    BY <2>3 DEF Register!OutcomeNext
<1>3. QED
  BY <1>1, <1>2 DEF Restart

\* A new intent is open: no payment type starts in a terminal status.
LEMMA CreateStaysOpen ==
  ASSUME IInv, NEW i \in Ids, NEW u \in Users, NEW ident \in Identifier, NEW kind \in Kinds,
         NEW life \in Lifetimes \cup {NoExpiry}, CreateIntent(i, u, ident, kind, life)
  PROVE  UNCHANGED Register!outcomeVars
<1>1. intents'[i].status = InitialStatus(kind) /\ stage'[i] = "stored"
  BY DEF CreateIntent, IInv, TypeOK
<1>2. InitialStatus(kind) \notin Terminal
  BY DEF InitialStatus, Terminal
<1>3. SettledAs(i)' = SettledAs(i)
  BY <1>1, <1>2 DEF CreateIntent, SettledAs
<1>4. ASSUME NEW j \in Ids, j # i
      PROVE  SettledAs(j)' = SettledAs(j)
  BY <1>4, SameOutcome DEF CreateIntent, IInv, TypeOK
<1>5. QED
  BY <1>3, <1>4 DEF CreateIntent, Register!outcomeVars

\* Every step of the service is a step of the abstract register or none.
LEMMA StepRefines ==
  ASSUME IInv, [Next]_vars
  PROVE  [Register!OutcomeNext]_(Register!outcomeVars)
<1>1. ASSUME NEW i \in Ids, NEW u \in Users, NEW ident \in Identifier, NEW kind \in Kinds,
             NEW life \in Lifetimes \cup {NoExpiry}, CreateIntent(i, u, ident, kind, life)
      PROVE  [Register!OutcomeNext]_(Register!outcomeVars)
  BY <1>1, CreateStaysOpen
<1>2. ASSUME NEW i \in Ids, ShowIntent(i)
      PROVE  [Register!OutcomeNext]_(Register!outcomeVars)
  <2>1. StoredRow(i) \in Row
    BY DEF IInv, TypeOK, Intent, StoredRow, Row
  <2>2. QED
    BY <1>2, <2>1, AnswerTells DEF ShowIntent
<1>3. ASSUME NEW t \in Tasks, CommitRow(t)
      PROVE  [Register!OutcomeNext]_(Register!outcomeVars)
  <2>1. req[t].id \in Ids /\ row[t] \in Row
    BY DEF IInv, TypeOK, Report
  <2>2. /\ stage[req[t].id] = "stored" /\ StoreRow(req[t].id, row[t])
        /\ row[t].status \in Successors[intents[req[t].id].status]
        /\ UNCHANGED <<stage, told>>
    BY <1>3 DEF IInv, TasksEntitled, LockDiscipline, CommitRow
  <2>3. QED
    BY <2>1, <2>2, MoveDecides
<1>4. ASSUME NEW t \in Tasks, UpdateInMemory(t)
      PROVE  [Register!OutcomeNext]_(Register!outcomeVars)
  <2>1. req[t].id \in Ids /\ stage[req[t].id] = "stored" /\ UNCHANGED <<stage, told>>
    BY <1>4 DEF IInv, TypeOK, Report, TasksEntitled, UpdateInMemory
  <2>2. PICK r \in Row :
          /\ StoreRow(req[t].id, r)
          /\ r = StoredRow(req[t].id) \/ r.status \in Successors[intents[req[t].id].status]
    BY <1>4, MemoryRow
  <2>3. QED
    BY <2>1, <2>2, MoveDecides
<1>5. ASSUME NEW t \in Tasks, AnswerReport(t)
      PROVE  [Register!OutcomeNext]_(Register!outcomeVars)
  <2>1. req[t].id \in Ids /\ stage[req[t].id] = "stored" /\ row[t] \in Row
    BY <1>5 DEF IInv, TypeOK, Report, TasksEntitled, AnswerReport
  <2>2. row[t] = [status |-> req[t].target, updated_at |-> row[t].updated_at]
    BY <1>5, <2>1 DEF IInv, AnswersCurrent, AnswerReport, Row
  <2>3. Answer(req[t].id, row[t]) /\ (row[t].status \in Terminal => row[t] = StoredRow(req[t].id))
    BY <1>5, <2>2 DEF IInv, AnswersCurrent, AnswerReport
  <2>4. QED
    BY <1>5, <2>1, <2>3, AnswerTells DEF AnswerReport
<1>6. CASE Restart
  BY <1>6, RestartForgets
<1>7. CASE UNCHANGED <<stage, intents, told>>
  BY <1>7, SameOutcome DEF Register!outcomeVars
<1>8. QED
  BY <1>1, <1>2, <1>3, <1>4, <1>5, <1>6, <1>7
  DEF Next, OtherStep, vars, ReadIntent, ListIntents, ReceiveReport, TaskStep, PostgresStep, LockRow, RejectReport, RepeatReport, WriteRow,
      RefuseInMemory, AbandonReport, Tick

\* The coordination register implements the abstract settlement register.
THEOREM KeepsPromise == Spec => KeepsSettlementPromise
<1>1. Init => Register!OutcomeInit
  BY DEF Init, Register!OutcomeInit, SettledAs
<1>2. IInv /\ [Next]_vars => [Register!OutcomeNext]_(Register!outcomeVars)
  BY StepRefines
<1>3. QED
  BY <1>1, <1>2, Inductive, PTL DEF Spec, KeepsSettlementPromise, Register!OutcomeSpec

\* The store in memory takes no step over PostgreSQL: the specification the
\* PostgreSQL run checks is the one these theorems are about.
THEOREM PostgresSpecIsSpec ==
  ASSUME Backend = "postgres"
  PROVE  FairSpec <=> FairPostgresSpec
<1>1. ASSUME NEW t \in Tasks
      PROVE  TaskStep(t) <=> PostgresStep(t)
  BY DEF TaskStep, RefuseInMemory, UpdateInMemory
<1>2. [Next]_vars <=> [PostgresNext]_vars
  BY <1>1 DEF Next, PostgresNext
<1>3. QED
  BY <1>2, PTL DEF FairSpec, Spec, FairPostgresSpec
===============================================================================
