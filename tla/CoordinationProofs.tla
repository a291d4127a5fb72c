-------------------------- MODULE CoordinationProofs --------------------------
(***************************************************************************)
(* Proofs about Coordination.  The composition is a behaviour of each of   *)
(* its parts, so what is proved of ProtectedMessages and of PaymentIntents *)
(* holds of the server; what joins the two is proved here.                 *)
(***************************************************************************)
EXTENDS Coordination, ProtectedMessagesProofs

\* PaymentIntents as in Coordination, with its theorems.
IntentProofs == INSTANCE PaymentIntentsProofs WITH
  Ids <- IntentIds, Tasks <- IntentTasks, Lifetimes <- {}, DefaultLifetime <- 1,
  Backend <- IF InMemory THEN "memory" ELSE "postgres",
  MaxTime <- MaxTime - 1, Stored <- [x \in 0..(MaxTime - 1) |-> x],
  now <- now - 1, stage <- intentStage, pc <- intentPc, req <- intentReq,
  row <- intentRow, told <- intentTold

\* The instance of this module meets the assumptions of PaymentIntents.
LEMMA IntentConstants == IntentProofs!ConstantsAssumption
<1>1. MaxTime - 1 \in Nat
  BY MessagesAssumption
<1>2. Reports \subseteq IntentProofs!Statuses
  BY CoordinationAssumption DEF Intents!Statuses, IntentProofs!Statuses
<1>3. QED
  BY <1>1, <1>2, MessagesAssumption, CoordinationAssumption
     DEF IntentProofs!ConstantsAssumption, IntentProofs!Times

-------------------------------------------------------------------------------
(***************************************************************************)
(* Both instances of PaymentIntents are the same specification.            *)
(***************************************************************************)

LEMMA SameTerms ==
  /\ Intents!Statuses = IntentProofs!Statuses
  /\ Intents!Terminal = IntentProofs!Terminal
  /\ Intents!Successors = IntentProofs!Successors
  /\ Intents!Identifier = IntentProofs!Identifier
  /\ Intents!NoExpiry = IntentProofs!NoExpiry
  /\ Intents!NoIntent = IntentProofs!NoIntent
  /\ Intents!NoReport = IntentProofs!NoReport
  /\ Intents!NoRow = IntentProofs!NoRow
<1>1. Intents!Statuses = IntentProofs!Statuses
  BY DEF Intents!Statuses, IntentProofs!Statuses
<1>2. Intents!Terminal = IntentProofs!Terminal
  BY DEF Intents!Terminal, IntentProofs!Terminal
<1>3. Intents!Successors = IntentProofs!Successors
  BY <1>1, Zenon DEF Intents!Successors, IntentProofs!Successors
<1>4. Intents!Identifier = IntentProofs!Identifier
  BY DEF Intents!Identifier, IntentProofs!Identifier
<1>5. Intents!NoExpiry = IntentProofs!NoExpiry
  BY DEF Intents!NoExpiry, IntentProofs!NoExpiry
<1>6. Intents!NoIntent = IntentProofs!NoIntent
  BY <1>5 DEF Intents!NoIntent, IntentProofs!NoIntent
<1>7. Intents!NoReport = IntentProofs!NoReport
  BY DEF Intents!NoReport, IntentProofs!NoReport
<1>8. Intents!NoRow = IntentProofs!NoRow
  BY DEF Intents!NoRow, IntentProofs!NoRow
<1>9. QED
  BY <1>1, <1>2, <1>3, <1>4, <1>5, <1>6, <1>7, <1>8

LEMMA SameRules ==
  /\ \A u, i : /\ Intents!IsSender(u, i) <=> IntentProofs!IsSender(u, i)
               /\ Intents!IsRecipient(u, i) <=> IntentProofs!IsRecipient(u, i)
               /\ Intents!FoundByUser(u, i) <=> IntentProofs!FoundByUser(u, i)
  /\ \A u, i, s : Intents!MayReport(u, i, s) <=> IntentProofs!MayReport(u, i, s)
  /\ \A i : /\ Intents!StoredRow(i) = IntentProofs!StoredRow(i)
            /\ Intents!RowLocked(i) <=> IntentProofs!RowLocked(i)
  /\ \A x, y : Intents!CanTransitionTo(x, y) <=> IntentProofs!CanTransitionTo(x, y)
  /\ \A k : Intents!InitialStatus(k) = IntentProofs!InitialStatus(k)
  /\ \A k, l : Intents!ExpiresAt(k, l) = IntentProofs!ExpiresAt(k, l)
<1>1. \A u, i : /\ Intents!IsSender(u, i) <=> IntentProofs!IsSender(u, i)
                /\ Intents!IsRecipient(u, i) <=> IntentProofs!IsRecipient(u, i)
  BY DEF Intents!IsSender, IntentProofs!IsSender, Intents!IsRecipient, IntentProofs!IsRecipient,
         Intents!MatchesActor, IntentProofs!MatchesActor
<1>2. \A u, i : Intents!FoundByUser(u, i) <=> IntentProofs!FoundByUser(u, i)
  BY <1>1 DEF Intents!FoundByUser, IntentProofs!FoundByUser, Intents!ListedForms,
              IntentProofs!ListedForms
<1>3. \A u, i, s : Intents!MayReport(u, i, s) <=> IntentProofs!MayReport(u, i, s)
  BY <1>1, Zenon DEF Intents!MayReport, IntentProofs!MayReport
<1>4. \A i : Intents!StoredRow(i) = IntentProofs!StoredRow(i)
  BY DEF Intents!StoredRow, IntentProofs!StoredRow
<1>5. \A i : Intents!RowLocked(i) <=> IntentProofs!RowLocked(i)
  BY DEF Intents!RowLocked, IntentProofs!RowLocked, Intents!HoldsRow, IntentProofs!HoldsRow
<1>6. \A x, y : Intents!CanTransitionTo(x, y) <=> IntentProofs!CanTransitionTo(x, y)
  BY SameTerms, Zenon DEF Intents!CanTransitionTo, IntentProofs!CanTransitionTo
<1>7. \A k : Intents!InitialStatus(k) = IntentProofs!InitialStatus(k)
  BY DEF Intents!InitialStatus, IntentProofs!InitialStatus
<1>8. \A k, l : Intents!ExpiresAt(k, l) = IntentProofs!ExpiresAt(k, l)
  BY SameTerms DEF Intents!ExpiresAt, IntentProofs!ExpiresAt
<1>9. QED
  BY <1>1, <1>2, <1>3, <1>4, <1>5, <1>6, <1>7, <1>8

LEMMA SameCreate ==
  ASSUME NEW i, NEW u, NEW ident, NEW kind, NEW life, Intents!CreateIntent(i, u, ident, kind, life)
  PROVE  IntentProofs!CreateIntent(i, u, ident, kind, life)
  BY SameRules DEF Intents!CreateIntent, IntentProofs!CreateIntent

LEMMA SameReads ==
  ASSUME NEW i, NEW u
  PROVE  /\ Intents!ReadIntent(i, u) => IntentProofs!ReadIntent(i, u)
         /\ Intents!ListIntents(i, u) => IntentProofs!ListIntents(i, u)
<1>1. Intents!ShowIntent(i) => IntentProofs!ShowIntent(i)
  BY SameTerms, SameRules, Zenon
     DEF Intents!ShowIntent, IntentProofs!ShowIntent, Intents!Answer, IntentProofs!Answer
<1>2. QED
  BY <1>1, SameRules DEF Intents!ReadIntent, IntentProofs!ReadIntent, Intents!ListIntents,
                         IntentProofs!ListIntents

LEMMA SameReports ==
  ASSUME NEW t, NEW u, NEW i, NEW s
  PROVE  /\ Intents!ReceiveReport(t, u, i, s) => IntentProofs!ReceiveReport(t, u, i, s)
         /\ Intents!AbandonReport(t) => IntentProofs!AbandonReport(t)
  BY SameTerms, SameRules, Zenon
     DEF Intents!ReceiveReport, IntentProofs!ReceiveReport, Intents!AbandonReport,
         IntentProofs!AbandonReport, Intents!Finish, IntentProofs!Finish

LEMMA SameTaskSteps ==
  ASSUME NEW t, Intents!TaskStep(t)
  PROVE  IntentProofs!TaskStep(t)
<1> USE SameTerms, SameRules DEF Intents!Finish, IntentProofs!Finish
<1>1. Intents!LockRow(t) => IntentProofs!LockRow(t)
  BY Zenon DEF Intents!LockRow, IntentProofs!LockRow
<1>2. Intents!RejectReport(t) => IntentProofs!RejectReport(t)
  BY Zenon DEF Intents!RejectReport, IntentProofs!RejectReport
<1>3. Intents!RepeatReport(t) => IntentProofs!RepeatReport(t)
  BY Zenon DEF Intents!RepeatReport, IntentProofs!RepeatReport
<1>4. Intents!WriteRow(t) => IntentProofs!WriteRow(t)
  BY Zenon DEF Intents!WriteRow, IntentProofs!WriteRow
<1>5. Intents!CommitRow(t) => IntentProofs!CommitRow(t)
  BY Zenon DEF Intents!CommitRow, IntentProofs!CommitRow, Intents!StoreRow, IntentProofs!StoreRow
<1>6. Intents!RefuseInMemory(t) => IntentProofs!RefuseInMemory(t)
  BY Zenon DEF Intents!RefuseInMemory, IntentProofs!RefuseInMemory
<1>7. Intents!UpdateInMemory(t) => IntentProofs!UpdateInMemory(t)
  BY Zenon DEF Intents!UpdateInMemory, IntentProofs!UpdateInMemory, Intents!StoreRow,
               IntentProofs!StoreRow
<1>8. Intents!AnswerReport(t) => IntentProofs!AnswerReport(t)
  BY Zenon DEF Intents!AnswerReport, IntentProofs!AnswerReport, Intents!Answer, IntentProofs!Answer
<1>9. QED
  BY <1>1, <1>2, <1>3, <1>4, <1>5, <1>6, <1>7, <1>8
     DEF Intents!TaskStep, IntentProofs!TaskStep, Intents!PostgresStep, IntentProofs!PostgresStep

LEMMA SameRestart == Intents!Restart => IntentProofs!Restart
  BY SameTerms, Zenon DEF Intents!Restart, IntentProofs!Restart

-------------------------------------------------------------------------------
(***************************************************************************)
(* The inductive invariant of the composition: those of the two registers  *)
(* and LinksIInv.                                                          *)
(***************************************************************************)
ServerIInv ==
  /\ MessagesIInv
  /\ IntentProofs!IInv
  /\ IntentProofs!OutcomesAreReported
  /\ LinksIInv

LEMMA ServerInit == CoordinationInit => Init /\ IntentProofs!Init /\ ServerIInv
<1> SUFFICES ASSUME CoordinationInit
             PROVE  Init /\ IntentProofs!Init /\ ServerIInv
  OBVIOUS
<1>1. Init /\ MessagesIInv
  BY InitIInv DEF CoordinationInit
<1>2. IntentProofs!Init
  BY SameTerms DEF CoordinationInit, Init, IntentProofs!Init
<1>3. IntentProofs!IInv
  BY <1>2, IntentConstants, IntentProofs!InitIInv
<1>4. IntentProofs!OutcomesAreReported
  BY DEF CoordinationInit, IntentProofs!OutcomesAreReported, Intents!NoIntent,
         IntentProofs!Terminal
<1>5. LinksIInv
  <2>1. (CHOOSE u \in Users : TRUE) \in Users
    BY MessagesAssumption
  <2>2. NothingToSend \in [id : IntentIds \cup {NoLink}, sender : Users, recipient : Users]
    BY <2>1 DEF NothingToSend
  <2>3. QED
    BY <2>2 DEF CoordinationInit, Init, LinksIInv
<1>6. QED
  BY <1>1, <1>2, <1>3, <1>4, <1>5 DEF ServerIInv

\* Every step of the server is a step of the message register or leaves it alone.
LEMMA StepIsMessageStep ==
  ASSUME LinksIInv, [CoordinationNext]_allVars
  PROVE  [Next]_vars
<1>1. CASE MessageStep
  BY <1>1 DEF MessageStep, Next
<1>2. ASSUME NEW s \in Senders, NEW m \in Ids, StoreLinked(s, m)
      PROVE  Next
  <2>1. sending[s].sender \in Users /\ sending[s].recipient \in Users
    BY SMTT(30) DEF LinksIInv
  <2>2. QED
    BY <1>2, <2>1 DEF StoreLinked, Next
<1>3. CASE RestartAll
  BY SMTT(30), <1>3 DEF RestartAll, Next
<1>4. CASE UNCHANGED vars
  BY SMTT(30), <1>4
<1>5. QED
  BY <1>1, <1>2, <1>3, <1>4
     DEF CoordinationNext, allVars, IntentStep, ValidateLink, AbandonSend

\* Every step of the server is a step of the intent register or leaves it alone; the
\* two share the clock.
LEMMA StepIsIntentStep ==
  ASSUME MessagesIInv, [CoordinationNext]_allVars
  PROVE  [IntentProofs!Next]_(IntentProofs!vars)
<1>1. CASE IntentStep
  <2>1. ASSUME NEW i \in IntentIds, NEW u \in Users, NEW ident \in Intents!Identifier,
               NEW kind \in Kinds, Intents!CreateIntent(i, u, ident, kind, Intents!NoExpiry)
        PROVE  IntentProofs!OtherStep
    BY <2>1, SameCreate, SameTerms DEF IntentProofs!OtherStep
  <2>2. ASSUME NEW i \in IntentIds, NEW u \in Users,
               Intents!ReadIntent(i, u) \/ Intents!ListIntents(i, u)
        PROVE  IntentProofs!OtherStep
    BY <2>2, SameReads DEF IntentProofs!OtherStep
  <2>3. ASSUME NEW t \in IntentTasks, NEW u \in Users, NEW i \in IntentIds, NEW s \in Reports,
               Intents!ReceiveReport(t, u, i, s)
        PROVE  IntentProofs!OtherStep
    BY <2>3, SameReports DEF IntentProofs!OtherStep
  <2>4. ASSUME NEW t \in IntentTasks, Intents!AbandonReport(t)
        PROVE  IntentProofs!OtherStep
    BY <2>4, SameReports DEF IntentProofs!OtherStep
  <2>5. ASSUME NEW t \in IntentTasks, Intents!TaskStep(t)
        PROVE  IntentProofs!Next
    BY <2>5, SameTaskSteps DEF IntentProofs!Next
  <2>6. QED
    BY <1>1, <2>1, <2>2, <2>3, <2>4, <2>5 DEF IntentStep, IntentProofs!Next
<1>2. CASE RestartAll
  BY <1>2, SameRestart DEF RestartAll, IntentProofs!OtherStep, IntentProofs!Next
<1>3. CASE Tick /\ UNCHANGED intentVars
  <2>1. now \in Nat /\ MaxTime \in Nat
    BY MessagesAssumption DEF MessagesIInv, TypeOK, Times
  <2>2. now - 1 < MaxTime - 1 /\ now' - 1 = (now - 1) + 1
    BY <1>3, <2>1 DEF Tick
  <2>3. IntentProofs!Tick
    BY <1>3, <2>2 DEF IntentProofs!Tick, intentVars
  <2>4. QED
    BY <2>3 DEF IntentProofs!OtherStep, IntentProofs!Next
<1>4. CASE UNCHANGED now /\ UNCHANGED intentVars
  BY <1>4 DEF IntentProofs!vars, intentVars
<1>5. QED
  BY <1>1, <1>2, <1>3, <1>4
     DEF CoordinationNext, allVars, vars, MessageStep, CreateMessage, ReadMessage, ReceiveAck,
         UpdateMessage, RefuseMessage, AnswerAck, AbandonAck, ValidateLink, StoreLinked, AbandonSend

-------------------------------------------------------------------------------
(***************************************************************************)
(* Links stay good.                                                        *)
(***************************************************************************)

\* The parties and the kind of an intent never change, and only a restart loses it.
LEMMA AcceptedStays ==
  ASSUME ServerIInv, MessageStep \/ IntentStep, NEW i, NEW u, NEW v, LinkAccepted(i, u, v)
  PROVE  LinkAccepted(i, u, v)'
<1>1. [IntentProofs!Next]_(IntentProofs!vars)
  BY SMTT(30), StepIsIntentStep DEF ServerIInv, CoordinationNext
<1>2. i \in IntentIds /\ intentStage[i] = "stored"
  BY DEF LinkAccepted
<1>3. intentStage'[i] = "stored"
  <2>1. intentStage \in [IntentIds -> IntentProofs!Stages]
    BY DEF ServerIInv, IntentProofs!IInv, IntentProofs!TypeOK
  <2>2. ASSUME NEW j \in IntentIds, NEW w \in Users, NEW ident \in Intents!Identifier,
               NEW kind \in Kinds, Intents!CreateIntent(j, w, ident, kind, Intents!NoExpiry)
        PROVE  intentStage'[i] = "stored"
    BY <1>2, <2>1, <2>2 DEF Intents!CreateIntent
  <2>3. CASE UNCHANGED intentStage
    BY <1>2, <2>3
  <2>4. QED
    BY <2>2, <2>3
       DEF intentVars, MessageStep, IntentStep, Intents!ReadIntent, Intents!ListIntents, Intents!ShowIntent,
           Intents!ReceiveReport, Intents!AbandonReport, Intents!TaskStep, Intents!PostgresStep,
           Intents!LockRow, Intents!RejectReport, Intents!RepeatReport, Intents!WriteRow,
           Intents!CommitRow, Intents!RefuseInMemory, Intents!UpdateInMemory,
           Intents!AnswerReport
<1>4. \/ intents'[i] = intents[i]
      \/ \E r \in IntentProofs!Row :
           intents'[i] = [intents[i] EXCEPT !.status = r.status, !.updated_at = r.updated_at]
  BY <1>1, <1>2, <1>3, IntentConstants, IntentProofs!RowEffect DEF ServerIInv
<1>5. intents[i] \in IntentProofs!Intent
  BY <1>2 DEF ServerIInv, IntentProofs!IInv, IntentProofs!TypeOK
<1>6. /\ intents'[i].kind = intents[i].kind
      /\ intents'[i].sender = intents[i].sender
      /\ intents'[i].recipient = intents[i].recipient
  BY ZenonT(60), <1>4, <1>5 DEF IntentProofs!Intent
<1>7. QED
  BY SMTT(30), <1>2, <1>3, <1>6
     DEF LinkAccepted, Intents!IsSender, Intents!IsRecipient, Intents!MatchesActor

\* The parties of a stored message never change, and no stored message is created again.
LEMMA PartiesStay ==
  ASSUME MessagesIInv, MessageStep \/ IntentStep, NEW m \in Ids, stage[m] # "unissued"
  PROVE  /\ stage'[m] = stage[m]
         /\ messages'[m].sender = messages[m].sender
         /\ messages'[m].recipient = messages[m].recipient
<1>1. ASSUME NEW j \in Ids, NEW u \in Users, NEW v \in Users, CreateMessage(j, u, v)
      PROVE  stage'[m] = stage[m] /\ messages'[m] = messages[m]
  BY SMTT(30), <1>1 DEF MessagesIInv, TypeOK, CreateMessage
<1>2. ASSUME NEW t \in Tasks, UpdateMessage(t)
      PROVE  /\ stage'[m] = stage[m]
             /\ messages'[m].sender = messages[m].sender
             /\ messages'[m].recipient = messages[m].recipient
  BY <1>2, UpdateEffect DEF UpdateMessage
<1>3. CASE UNCHANGED <<stage, messages>>
  BY <1>3
<1>4. QED
  BY SMTT(30), <1>1, <1>2, <1>3
     DEF MessageStep, IntentStep, vars, ReadMessage, ReceiveAck, RefuseMessage, AnswerAck,
         AbandonAck, Tick

LEMMA StepLinks ==
  ASSUME ServerIInv, [CoordinationNext]_allVars
  PROVE  LinksIInv'
<1>0. /\ LinksIInv /\ MessagesIInv /\ [Next]_vars
      /\ stage \in [Ids -> {"unissued", "stored", "lost"}]
  BY StepIsMessageStep DEF ServerIInv, MessagesIInv, TypeOK
<1>1. ASSUME NEW s \in Senders, NEW u \in Users, NEW v \in Users, NEW i \in IntentIds,
             ValidateLink(s, u, v, i)
      PROVE  LinksIInv'
  <2>1. LinkAccepted(i, u, v)
    BY <1>1 DEF ValidateLink, LinkAccepted
  <2>2. QED
    BY <1>0, <1>1, <2>1
       DEF ValidateLink, LinksIInv, LinkAccepted, vars, intentVars, Intents!IsSender,
           Intents!IsRecipient
<1>2. CASE MessageStep \/ IntentStep
  <2>0. UNCHANGED <<link, sending>>
    BY <1>2 DEF MessageStep, IntentStep
  <2>1. \A m \in Ids : stage'[m] = "unissued" => link[m] = NoLink
    BY <1>0, <1>2, <2>0, PartiesStay DEF LinksIInv
  <2>2. ASSUME NEW m \in Ids, stage'[m] = "stored", link[m] # NoLink
        PROVE  LinkAccepted(link[m], messages[m].sender, messages[m].recipient)'
    <3>1. /\ stage[m] = "stored"
          /\ messages'[m].sender = messages[m].sender
          /\ messages'[m].recipient = messages[m].recipient
      BY <1>0, <1>2, <2>0, <2>2, PartiesStay DEF LinksIInv
    <3>2. LinkAccepted(link[m], messages[m].sender, messages[m].recipient)
      BY <1>0, <2>2, <3>1 DEF LinksIInv
    <3>3. PICK i, u, v : i = link[m] /\ u = messages[m].sender /\ v = messages[m].recipient
      OBVIOUS
    <3>4. LinkAccepted(i, u, v)'
      BY <1>2, <3>2, <3>3, AcceptedStays
    <3>5. QED
      BY <2>0, <3>1, <3>3, <3>4
  <2>3. ASSUME NEW s \in Senders, sending[s] # NothingToSend
        PROVE  LinkAccepted(sending[s].id, sending[s].sender, sending[s].recipient)'
    <3>1. PICK i, u, v : i = sending[s].id /\ u = sending[s].sender /\ v = sending[s].recipient
      OBVIOUS
    <3>2. LinkAccepted(i, u, v)'
      BY <1>0, <1>2, <2>3, <3>1, AcceptedStays DEF LinksIInv
    <3>3. QED
      BY <2>0, <3>1, <3>2
  <2>4. QED
    BY <1>0, <2>0, <2>1, <2>2, <2>3 DEF LinksIInv
<1>3. ASSUME NEW s \in Senders, NEW m \in Ids, StoreLinked(s, m)
      PROVE  LinksIInv'
  <2>1. /\ sending[s] # NothingToSend /\ stage[m] = "unissued"
        /\ messages'[m].sender = sending[s].sender
        /\ messages'[m].recipient = sending[s].recipient
        /\ stage'[m] = "stored" /\ link'[m] = sending[s].id
        /\ \A n \in Ids \ {m} : /\ stage'[n] = stage[n] /\ messages'[n] = messages[n]
                                /\ link'[n] = link[n]
        /\ UNCHANGED <<intents, intentStage>>
    BY <1>0, <1>3
       DEF StoreLinked, CreateMessage, MessagesIInv, TypeOK, LinksIInv, intentVars
  <2>2. LinkAccepted(sending[s].id, sending[s].sender, sending[s].recipient)
    BY <1>0, <2>1 DEF LinksIInv
  <2>3. /\ link' \in [Ids -> IntentIds \cup {NoLink}]
        /\ sending' \in [Senders -> [id : IntentIds \cup {NoLink}, sender : Users,
                                     recipient : Users]]
        /\ \A r \in Senders : sending'[r] # NothingToSend => sending'[r] = sending[r]
    <3>1. NothingToSend \in [id : IntentIds \cup {NoLink}, sender : Users, recipient : Users]
      BY MessagesAssumption DEF NothingToSend
    <3>2. QED
      BY <1>0, <1>3, <3>1 DEF StoreLinked, LinksIInv
  <2>4. QED
    BY <1>0, <2>1, <2>2, <2>3
       DEF LinksIInv, LinkAccepted, Intents!IsSender, Intents!IsRecipient
<1>4. ASSUME NEW s \in Senders, AbandonSend(s)
      PROVE  LinksIInv'
  <2>1. NothingToSend \in [id : IntentIds \cup {NoLink}, sender : Users, recipient : Users]
    BY MessagesAssumption DEF NothingToSend
  <2>2. QED
    BY <1>0, <1>4, <2>1
       DEF AbandonSend, LinksIInv, LinkAccepted, vars, intentVars, Intents!IsSender,
           Intents!IsRecipient
<1>5. CASE RestartAll
  <2>1. /\ NothingToSend \in [id : IntentIds \cup {NoLink}, sender : Users, recipient : Users]
        /\ sending' = [s \in Senders |-> NothingToSend]
    BY <1>5, MessagesAssumption DEF NothingToSend, RestartAll
  <2>2. CASE InMemory
    BY <1>0, <1>5, <2>1, <2>2 DEF RestartAll, LinksIInv
  <2>3. CASE ~InMemory
    <3>1. UNCHANGED <<stage, messages, link, intents, intentStage>>
      BY <1>5, <2>3 DEF RestartAll, RestartServer, Intents!Restart
    <3>2. QED
      BY <1>0, <2>1, <3>1
         DEF LinksIInv, LinkAccepted, Intents!IsSender, Intents!IsRecipient
  <2>4. QED
    BY <2>2, <2>3
<1>6. CASE UNCHANGED allVars
  BY <1>0, <1>6
     DEF allVars, LinksIInv, LinkAccepted, vars, intentVars, Intents!IsSender, Intents!IsRecipient
<1>7. QED
  BY <1>1, <1>2, <1>3, <1>4, <1>5, <1>6 DEF CoordinationNext

LEMMA StepServerIInv == ServerIInv /\ [CoordinationNext]_allVars => ServerIInv'
<1> SUFFICES ASSUME ServerIInv, [CoordinationNext]_allVars
             PROVE  ServerIInv'
  OBVIOUS
<1>1. MessagesIInv'
  BY StepIsMessageStep, StepIInv DEF ServerIInv
<1>2. [IntentProofs!Next]_(IntentProofs!vars)
  BY StepIsIntentStep DEF ServerIInv
<1>3. IntentProofs!IInv'
  BY <1>2, IntentConstants, IntentProofs!StepIInv DEF ServerIInv
<1>4. IntentProofs!OutcomesAreReported'
  BY <1>2, IntentConstants, IntentProofs!StepReported DEF ServerIInv
<1>5. QED
  BY <1>1, <1>3, <1>4, StepLinks DEF ServerIInv

LEMMA ServerInductive == CoordinationSpec => []ServerIInv
  BY ServerInit, StepServerIInv, PTL DEF CoordinationSpec

-------------------------------------------------------------------------------
(***************************************************************************)
(* The server is a behaviour of each register, so it has their properties. *)
(***************************************************************************)

LEMMA ServerIsMessageRegister == CoordinationSpec => Spec
<1>1. ServerIInv /\ [CoordinationNext]_allVars => [Next]_vars
  BY StepIsMessageStep DEF ServerIInv
<1>2. QED
  BY <1>1, ServerInit, ServerInductive, PTL DEF CoordinationSpec, Spec

LEMMA ServerIsIntentRegister == CoordinationSpec => IntentProofs!Spec
<1>1. ServerIInv /\ [CoordinationNext]_allVars => [IntentProofs!Next]_(IntentProofs!vars)
  BY StepIsIntentStep DEF ServerIInv
<1>2. QED
  BY <1>1, ServerInit, ServerInductive, PTL DEF CoordinationSpec, IntentProofs!Spec

\* Composed with the intents, the messages keep their types, ...
THEOREM ServerTypeCorrect == CoordinationSpec => []TypeOK
  BY ServerIsMessageRegister, TypeCorrect, PTL

\* ... still never move backwards, ...
THEOREM ServerMessagesMoveForward == CoordinationSpec => MessagesMoveForward
  BY ServerIsMessageRegister, OnlyForward, PTL

\* ... and settle once.
THEOREM ServerKeepsMessagePromise == CoordinationSpec => KeepsMessagePromise
  BY ServerIsMessageRegister, KeepsPromise, PTL

\* All terminal answers the server gives about an intent are the same.
THEOREM ServerAnswersAgree == CoordinationSpec => []IntentAnswersAgree
<1>1. ServerIInv => IntentAnswersAgree
  BY SameRules DEF ServerIInv, IntentProofs!IInv, IntentProofs!AnswersAgree, IntentAnswersAgree,
                   Intents!AnswersAgree
<1>2. QED
  BY <1>1, ServerInductive, PTL

\* A stored message never points to an intent that is gone, of others, or not protected.
THEOREM LinksAlwaysResolve == CoordinationSpec => []LinksResolve
<1>1. ServerIInv => LinksResolve
  BY DEF ServerIInv, LinksIInv, LinkAccepted, LinksResolve
<1>2. QED
  BY <1>1, ServerInductive, PTL

\* A message and its intent show opposite outcomes only by the reports of both parties:
\* the recipient's settled the one that is claimed, the sender's the one refunded.
THEOREM OppositesNeedBoth == CoordinationSpec => []OppositeOutcomesNeedBothParties
<1>1. ASSUME ServerIInv
      PROVE  OppositeOutcomesNeedBothParties
  <2> SUFFICES ASSUME NEW m \in Ids, stage[m] = "stored", link[m] # NoLink
               PROVE  /\ messages[m].status = "claimed" /\ intents[link[m]].status = "refunded"
                           => /\ settledBy[m] = messages[m].recipient
                              /\ reporter[link[m]] = messages[m].sender
                      /\ messages[m].status = "refunded" /\ intents[link[m]].status = "claimed"
                           => /\ settledBy[m] = messages[m].sender
                              /\ reporter[link[m]] = messages[m].recipient
    BY DEF OppositeOutcomesNeedBothParties
  <2>1. LinkAccepted(link[m], messages[m].sender, messages[m].recipient)
    BY <1>1 DEF ServerIInv, LinksIInv
  <2>2. PICK i \in IntentIds : i = link[m]
    BY <2>1 DEF LinkAccepted
  <2>3. intentStage[i] = "stored" /\ intents[i].sender = messages[m].sender
        /\ intents[i].recipient.user = messages[m].recipient
    BY <2>1, <2>2 DEF LinkAccepted, Intents!IsSender, Intents!IsRecipient, Intents!MatchesActor
  \* Either outcome of the intent is on the record of the party it belongs to.
  <2>4. intents[i].status \in {"claimed", "refunded"}
          => IntentProofs!MayReport(reporter[i], i, intents[i].status)
    BY <1>1, <2>3 DEF ServerIInv, IntentProofs!IInv, IntentProofs!OutcomesAreReported,
                      IntentProofs!OutcomeReportedByEntitledParty, IntentProofs!Terminal
  <2>5. /\ intents[i].status = "refunded" => reporter[i] = intents[i].sender
        /\ intents[i].status = "claimed" => reporter[i] = intents[i].recipient.user
    BY <2>4 DEF IntentProofs!MayReport, IntentProofs!IsSender, IntentProofs!IsRecipient,
                IntentProofs!MatchesActor
  \* And so is either outcome of the message.
  <2>6. /\ messages[m].status = "claimed" => settledBy[m] = messages[m].recipient
        /\ messages[m].status = "refunded" => settledBy[m] = messages[m].sender
    BY <1>1 DEF ServerIInv, MessagesIInv, SettledByItsParty, Settled
  <2>7. QED
    BY <2>2, <2>3, <2>5, <2>6
<1>2. QED
  BY <1>1, ServerInductive, PTL

\* The intents of the server settle once, too; in memory they may only be forgotten.
THEOREM ServerKeepsIntentPromise == CoordinationSpec => KeepsIntentPromise
<1> USE SameTerms
     DEF IntentProofs!SettledAs, Intents!SettledAs, IntentProofs!StoredRow, Intents!StoredRow,
         IntentProofs!Terminal, Intents!Terminal, IntentProofs!Outcome, Intents!Outcome,
         IntentProofs!Times, Intents!Times
<1>1. IntentProofs!Register!OutcomeInit => Intents!Register!OutcomeInit
  BY DEF IntentProofs!Register!OutcomeInit, Intents!Register!OutcomeInit
<1>2. UNCHANGED IntentProofs!Register!outcomeVars => UNCHANGED Intents!Register!outcomeVars
  BY DEF IntentProofs!Register!outcomeVars, Intents!Register!outcomeVars
<1>3. ASSUME NEW i \in IntentIds
      PROVE  /\ IntentProofs!Register!Tell(i) => Intents!Register!Tell(i)
             /\ IntentProofs!Register!Decide(i) => Intents!Register!Decide(i)
  BY Zenon DEF IntentProofs!Register!Tell, Intents!Register!Tell, IntentProofs!Register!Decide,
         Intents!Register!Decide
<1>4. ASSUME NEW lost \in SUBSET IntentIds
      PROVE  IntentProofs!Register!Forget(lost) => Intents!Register!Forget(lost)
  BY Zenon DEF IntentProofs!Register!Forget, Intents!Register!Forget
<1>5. [IntentProofs!Register!OutcomeNext]_(IntentProofs!Register!outcomeVars)
      => [Intents!Register!OutcomeNext]_(Intents!Register!outcomeVars)
  BY <1>2, <1>3, <1>4
     DEF IntentProofs!Register!OutcomeNext, Intents!Register!OutcomeNext
<1>6. QED
  BY <1>1, <1>5, ServerIsIntentRegister, IntentConstants, IntentProofs!KeepsPromise, PTL
     DEF KeepsIntentPromise, Intents!KeepsSettlementPromise, IntentProofs!KeepsSettlementPromise,
         Intents!Register!OutcomeSpec, IntentProofs!Register!OutcomeSpec
==============================================================================
