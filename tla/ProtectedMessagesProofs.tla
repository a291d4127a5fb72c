----------------------- MODULE ProtectedMessagesProofs -----------------------
(***************************************************************************)
(* Proofs about ProtectedMessages, for any number of users, messages and   *)
(* concurrent reports, over either repository.                             *)
(***************************************************************************)
EXTENDS ProtectedMessages, TLAPS

\* Every status is its own source, a settled status is no other's source, and no
\* report makes a message delivered again.
LEMMA SourcesOfStatus ==
  ASSUME NEW from \in MessageStatuses, NEW to \in MessageStatuses, from \in AllowedSources(to)
  PROVE  /\ from \in Settled => to = from
         /\ to = "delivered" => from = "delivered"
  BY DEF MessageStatuses, AllowedSources, Settled

LEMMA PlaceholderTypes ==
  /\ NoMessage \in Message /\ NoMessageReport \in MessageReport
  /\ NoMessage.status = "delivered"
<1>1. (CHOOSE u \in Users : TRUE) \in Users /\ (CHOOSE i \in Ids : TRUE) \in Ids
  BY MessagesAssumption
<1>2. QED
  BY <1>1 DEF NoMessage, Message, NoMessageReport, MessageReport, MessageStatuses

\* A report accepted by the store moves the status of its message, keeps the time of
\* the first report and the parties, and touches no other message.
LEMMA UpdateEffect ==
  ASSUME MessagesIInv, NEW t \in Tasks, UpdateMessage(t)
  PROVE  LET i == req[t].id
         IN  /\ i \in Ids /\ stage[i] = "stored" /\ messages' \in [Ids -> Message]
             /\ messages[i].status \in AllowedSources(req[t].target)
             /\ messages'[i].status = req[t].target
             /\ messages'[i].acknowledged_at # NotAcknowledged
             /\ messages[i].acknowledged_at \in {NotAcknowledged, messages'[i].acknowledged_at}
             /\ \A j \in Ids : /\ messages'[j].sender = messages[j].sender
                               /\ messages'[j].recipient = messages[j].recipient
                               /\ j # i => messages'[j] = messages[j]
<1> DEFINE i == req[t].id
           stamp == IF messages[i].acknowledged_at = NotAcknowledged THEN now
                    ELSE messages[i].acknowledged_at
           new == [messages[i] EXCEPT !.status = req[t].target, !.acknowledged_at = stamp]
<1>1. /\ i \in Ids /\ stage[i] = "stored" /\ messages[i] \in Message
      /\ req[t].target \in MessageStatuses
  BY DEF MessagesIInv, TypeOK, AcksEntitled, MessageReport, UpdateMessage
<1>2. stamp \in Times /\ stamp # NotAcknowledged
      /\ messages[i].acknowledged_at \in {NotAcknowledged, stamp}
  BY <1>1 DEF MessagesIInv, TypeOK, Message, Times, NotAcknowledged
<1>3. messages' = [messages EXCEPT ![i] = new]
  BY DEF UpdateMessage
<1> HIDE DEF stamp
<1>4. /\ new \in Message /\ new.status = req[t].target /\ new.acknowledged_at = stamp
      /\ new.sender = messages[i].sender /\ new.recipient = messages[i].recipient
  BY <1>1, <1>2 DEF Message
<1> HIDE DEF new
<1>5. messages' \in [Ids -> Message] /\ messages'[i] = new
      /\ \A j \in Ids : j # i => messages'[j] = messages[j]
  BY <1>1, <1>3, <1>4 DEF MessagesIInv, TypeOK
<1>6. messages[i].status \in AllowedSources(req[t].target)
  BY DEF UpdateMessage
<1>7. QED
  BY <1>1, <1>2, <1>4, <1>5, <1>6

-------------------------------------------------------------------------------
(***************************************************************************)
(* The inductive invariant.                                                *)
(***************************************************************************)

LEMMA InitIInv == Init => MessagesIInv
  BY PlaceholderTypes, MessagesAssumption
     DEF Init, MessagesIInv, TypeOK, AcksEntitled, AcksCurrent, ReportsAreStamped,
         SettledByItsParty, Settled, Times

LEMMA StepTypeOK ==
  ASSUME MessagesIInv, [Next]_vars
  PROVE  TypeOK'
<1> USE DEF history
<1>1. ASSUME NEW i \in Ids, NEW u \in Users, NEW v \in Users, CreateMessage(i, u, v)
      PROVE  TypeOK'
  <2>1. [sender |-> u, recipient |-> v, status |-> "delivered",
         acknowledged_at |-> NotAcknowledged] \in Message
    BY DEF Message, MessageStatuses
  <2>2. QED
    BY <1>1, <2>1 DEF MessagesIInv, TypeOK, CreateMessage
<1>2. ASSUME NEW i \in Ids, NEW u \in Users, ReadMessage(i, u)
      PROVE  TypeOK'
  BY <1>2 DEF MessagesIInv, TypeOK, ReadMessage, AnswerStatus
<1>3. ASSUME NEW t \in Tasks, NEW u \in Users, NEW i \in Ids, NEW s \in MessageStatuses,
             ReceiveAck(t, u, i, s)
      PROVE  TypeOK'
  BY <1>3 DEF MessagesIInv, TypeOK, MessageReport, ReceiveAck
<1>4. ASSUME NEW t \in Tasks, UpdateMessage(t)
      PROVE  TypeOK'
  <2>1. req[t].id \in Ids /\ messages' \in [Ids -> Message]
    BY <1>4, UpdateEffect
  <2>2. req[t].actor \in Users
    BY DEF MessagesIInv, TypeOK, MessageReport
  <2>3. QED
    BY <1>4, <2>1, <2>2 DEF MessagesIInv, TypeOK, UpdateMessage, NoteReporter
<1>5. ASSUME NEW t \in Tasks, RefuseMessage(t) \/ AbandonAck(t)
      PROVE  TypeOK'
  BY <1>5, PlaceholderTypes DEF MessagesIInv, TypeOK, RefuseMessage, AbandonAck, FinishAck
<1>6. ASSUME NEW t \in Tasks, AnswerAck(t)
      PROVE  TypeOK'
  <2>1. req[t].id \in Ids
    BY DEF MessagesIInv, TypeOK, MessageReport
  <2>2. QED
    BY <1>6, <2>1, PlaceholderTypes DEF MessagesIInv, TypeOK, AnswerAck, FinishAck, AnswerStatus
<1>7. CASE RestartServer
  BY <1>7, PlaceholderTypes DEF MessagesIInv, TypeOK, RestartServer
<1>8. CASE Tick
  BY <1>8, MessagesAssumption DEF MessagesIInv, TypeOK, Tick, Times
<1>9. CASE UNCHANGED vars
  BY <1>9 DEF MessagesIInv, TypeOK, vars
<1>10. QED
  BY <1>1, <1>2, <1>3, <1>4, <1>5, <1>6, <1>7, <1>8, <1>9 DEF Next

\* A task that returns, answered or not, takes only its own report along.
LEMMA FinishKeepsAcks ==
  ASSUME MessagesIInv, NEW t \in Tasks, FinishAck(t), UNCHANGED <<stage, messages, history>>
  PROVE  AcksEntitled' /\ AcksCurrent' /\ ReportsAreStamped' /\ SettledByItsParty'
<1>1. /\ pc'[t] = "idle"
      /\ \A u \in Tasks \ {t} : pc'[u] = pc[u] /\ req'[u] = req[u]
  BY DEF MessagesIInv, TypeOK, FinishAck
<1>2. QED
  BY <1>1 DEF MessagesIInv, AcksEntitled, AcksCurrent, ReportsAreStamped, SettledByItsParty,
              MayAck, history

\* A report lands: the message it is about was not settled otherwise, so the answers
\* about to be given stay current.
LEMMA UpdateKeepsAcks ==
  ASSUME MessagesIInv, NEW t \in Tasks, UpdateMessage(t)
  PROVE  AcksEntitled' /\ AcksCurrent' /\ ReportsAreStamped' /\ SettledByItsParty'
<1> DEFINE i == req[t].id
<1>1. /\ pc[t] = "authorized" /\ pc'[t] = "answering"
      /\ \A u \in Tasks \ {t} : pc'[u] = pc[u]
      /\ NoteReporter(i, req[t].actor, req[t].target)
      /\ UNCHANGED <<now, stage, req, told>>
  BY DEF MessagesIInv, TypeOK, UpdateMessage
<1>2. /\ i \in Ids /\ stage[i] = "stored" /\ messages[i] \in Message
      /\ req[t].target \in MessageStatuses
      /\ MayAck(req[t].actor, i, req[t].target)
  BY <1>1 DEF MessagesIInv, TypeOK, AcksEntitled, MessageReport
<1>3. AcksEntitled'
  BY <1>1, UpdateEffect DEF MessagesIInv, TypeOK, MessageReport, AcksEntitled, MayAck
<1>4. AcksCurrent'
  <2> SUFFICES ASSUME NEW u \in Tasks, pc'[u] = "answering", req[u].target \in Settled
               PROVE  messages'[req[u].id].status = req[u].target
    BY <1>1 DEF AcksCurrent
  <2>1. CASE req[u].id # i
    <3>1. u # t /\ req[u].id \in Ids
      BY <2>1 DEF MessagesIInv, TypeOK, MessageReport
    <3>2. messages'[req[u].id] = messages[req[u].id]
      BY <2>1, <3>1, UpdateEffect
    <3>3. QED
      BY <1>1, <3>1, <3>2 DEF MessagesIInv, AcksCurrent
  <2>2. CASE u = t
    BY <2>2, UpdateEffect
  <2>3. CASE req[u].id = i /\ u # t
    <3>1. messages[i].status = req[u].target
      BY <1>1, <2>3 DEF MessagesIInv, AcksCurrent
    <3>2. messages[i].status \in MessageStatuses /\ messages[i].status \in AllowedSources(req[t].target)
      BY <1>2, UpdateEffect DEF Message
    <3>3. messages'[i].status = messages[i].status
      BY <1>2, <3>1, <3>2, SourcesOfStatus, UpdateEffect
    <3>4. QED
      BY <2>3, <3>1, <3>3
  <2>4. QED
    BY <2>1, <2>2, <2>3
<1>5. ReportsAreStamped'
  BY <1>1, UpdateEffect DEF MessagesIInv, ReportsAreStamped
<1>6. SettledByItsParty'
  \* A terminal report of an open message settles it in the name of the entitled
  \* party; on a settled message it repeats what is there.
  <2>1. /\ messages[i].status \in MessageStatuses
        /\ messages[i].status \in AllowedSources(req[t].target)
        /\ messages'[i].status = req[t].target
        /\ messages'[i].sender = messages[i].sender
        /\ messages'[i].recipient = messages[i].recipient
        /\ messages[i].sender \in Users /\ messages[i].recipient \in Users
        /\ \A j \in Ids : j # i => messages'[j] = messages[j]
    BY <1>2, UpdateEffect DEF Message
  <2>2. /\ settledBy'[i] = IF settledBy[i] = NoUser /\ req[t].target \in Settled
                           THEN req[t].actor ELSE settledBy[i]
        /\ \A j \in Ids : j # i => settledBy'[j] = settledBy[j]
    BY <1>1, <1>2 DEF MessagesIInv, TypeOK, NoteReporter
  <2>3. CASE messages[i].status \in Settled
    <3>1. req[t].target = messages[i].status
      BY <1>2, <2>1, <2>3, SourcesOfStatus
    <3>2. settledBy[i] # NoUser
      BY <1>2, <2>1, <2>3, MessagesAssumption DEF MessagesIInv, SettledByItsParty
    <3>3. QED
      BY <1>1, <1>2, <2>1, <2>2, <3>1, <3>2 DEF MessagesIInv, SettledByItsParty
  <2>4. CASE messages[i].status \notin Settled
    <3>1. settledBy[i] = NoUser
      BY <1>2, <2>4 DEF MessagesIInv, SettledByItsParty
    <3>2. req[t].target \in Settled
            => req[t].actor = IF req[t].target = "claimed" THEN messages[i].recipient
                              ELSE messages[i].sender
      BY <1>2 DEF MayAck, Settled
    <3>3. QED
      BY <1>1, <1>2, <2>1, <2>2, <3>1, <3>2 DEF MessagesIInv, SettledByItsParty
  <2>5. QED
    BY <2>3, <2>4
<1>7. QED
  BY <1>3, <1>4, <1>5, <1>6

LEMMA StepIInv == MessagesIInv /\ [Next]_vars => MessagesIInv'
<1> SUFFICES ASSUME MessagesIInv, [Next]_vars
             PROVE  MessagesIInv'
  OBVIOUS
<1>0. TypeOK'
  BY StepTypeOK
<1> USE DEF MessagesIInv, AcksEntitled, AcksCurrent, ReportsAreStamped, SettledByItsParty, MayAck, history
<1>1. ASSUME NEW i \in Ids, NEW u \in Users, NEW v \in Users, CreateMessage(i, u, v)
      PROVE  MessagesIInv'
  <2>1. /\ stage[i] = "unissued" /\ stage'[i] = "stored" /\ messages'[i].status = "delivered"
        /\ \A j \in Ids \ {i} : stage'[j] = stage[j] /\ messages'[j] = messages[j]
        /\ UNCHANGED <<pc, req, history>>
    BY <1>1 DEF TypeOK, CreateMessage
  <2>2. \A t \in Tasks : req[t].id \in Ids /\ (pc[t] # "idle" => req[t].id # i)
    BY <2>1 DEF TypeOK, MessageReport
  <2>3. AcksEntitled' /\ AcksCurrent'
    BY <2>1, <2>2
  <2>4. ReportsAreStamped' /\ SettledByItsParty'
    BY <2>1 DEF Settled
  <2>5. QED
    BY <1>0, <2>3, <2>4
<1>2. ASSUME NEW i \in Ids, NEW u \in Users, ReadMessage(i, u)
      PROVE  MessagesIInv'
  BY <1>0, <1>2 DEF ReadMessage
<1>3. ASSUME NEW t \in Tasks, NEW u \in Users, NEW i \in Ids, NEW s \in MessageStatuses,
             ReceiveAck(t, u, i, s)
      PROVE  MessagesIInv'
  <2>1. /\ stage[i] = "stored" /\ MayAck(u, i, s) /\ pc'[t] = "authorized"
        /\ req'[t].id = i /\ req'[t].actor = u /\ req'[t].target = s
        /\ \A v \in Tasks \ {t} : pc'[v] = pc[v] /\ req'[v] = req[v]
        /\ UNCHANGED <<stage, messages, history>>
    BY <1>3 DEF TypeOK, ReceiveAck
  <2>2. AcksEntitled' /\ AcksCurrent'
    BY <2>1
  <2>3. QED
    BY <1>0, <2>1, <2>2
<1>4. ASSUME NEW t \in Tasks, UpdateMessage(t)
      PROVE  MessagesIInv'
  BY <1>0, <1>4, UpdateKeepsAcks
<1>5. ASSUME NEW t \in Tasks, RefuseMessage(t) \/ AnswerAck(t) \/ AbandonAck(t)
      PROVE  MessagesIInv'
  BY <1>0, <1>5, FinishKeepsAcks DEF RefuseMessage, AnswerAck, AbandonAck
<1>6. CASE RestartServer
  <2>1. \A t \in Tasks : pc'[t] = "idle"
    BY <1>6 DEF RestartServer
  <2>2. CASE InMemory
    BY <1>0, <1>6, <2>1, <2>2, PlaceholderTypes DEF RestartServer
  <2>3. CASE ~InMemory
    BY <1>0, <1>6, <2>1, <2>3 DEF RestartServer
  <2>4. QED
    BY <2>2, <2>3
<1>7. CASE Tick \/ UNCHANGED vars
  BY <1>0, <1>7 DEF Tick, vars
<1>8. QED
  BY <1>1, <1>2, <1>3, <1>4, <1>5, <1>6, <1>7 DEF Next

LEMMA Inductive == Spec => []MessagesIInv
  BY InitIInv, StepIInv, PTL DEF Spec

\* Type correctness of the message register.
THEOREM TypeCorrect == Spec => []TypeOK
<1>1. MessagesIInv => TypeOK
  BY DEF MessagesIInv
<1>2. QED
  BY <1>1, Inductive, PTL

\* A stored message never moves backwards, however reports race: a settled status
\* stays, and the time of the first accepted report is set with it and kept.
THEOREM OnlyForward == Spec => MessagesMoveForward
<1>1. ASSUME MessagesIInv, [Next]_vars, NEW i \in Ids, stage[i] = "stored",
             stage'[i] = "stored", messages'[i] # messages[i]
      PROVE  /\ messages[i].status \in AllowedSources(messages'[i].status)
             /\ messages[i].status \notin Settled
             /\ messages'[i].acknowledged_at # NotAcknowledged
             /\ messages[i].acknowledged_at \in {NotAcknowledged, messages'[i].acknowledged_at}
  <2>1. ASSUME NEW t \in Tasks, UpdateMessage(t)
        PROVE  /\ messages[i].status \in AllowedSources(messages'[i].status)
               /\ messages[i].status \notin Settled
               /\ messages'[i].acknowledged_at # NotAcknowledged
               /\ messages[i].acknowledged_at \in {NotAcknowledged, messages'[i].acknowledged_at}
    <3>1. /\ req[t].id = i
          /\ messages[i].status \in AllowedSources(messages'[i].status)
          /\ messages'[i].acknowledged_at # NotAcknowledged
          /\ messages[i].acknowledged_at \in {NotAcknowledged, messages'[i].acknowledged_at}
      BY <1>1, <2>1, UpdateEffect
    <3>2. messages[i] \in Message /\ messages'[i] \in Message
      BY <1>1, <2>1, UpdateEffect DEF MessagesIInv, TypeOK
    \* A settled status would have stayed, and its message was stamped already.
    <3>3. ASSUME messages[i].status \in Settled
          PROVE  FALSE
      <4>1. messages'[i].status = messages[i].status
        BY <3>1, <3>2, <3>3, SourcesOfStatus DEF Message
      <4>2. messages'[i].acknowledged_at = messages[i].acknowledged_at
        BY <1>1, <3>1, <3>3 DEF MessagesIInv, ReportsAreStamped, Settled
      <4>3. /\ messages'[i].sender = messages[i].sender
            /\ messages'[i].recipient = messages[i].recipient
        BY <1>1, <2>1, UpdateEffect
      <4>4. messages'[i] = messages[i]
        BY <3>2, <4>1, <4>2, <4>3 DEF Message
      <4>5. QED
        BY <1>1, <4>4
    <3>4. QED
      BY <3>1, <3>3
  <2>2. ASSUME NEW j \in Ids, NEW u \in Users, NEW v \in Users, CreateMessage(j, u, v)
        PROVE  FALSE
    BY <1>1, <2>2 DEF MessagesIInv, TypeOK, CreateMessage
  <2>3. ASSUME RestartServer
        PROVE  FALSE
    BY <1>1, <2>3 DEF RestartServer
  <2>4. CASE UNCHANGED messages
    BY <1>1, <2>4
  <2>5. QED
    BY <1>1, <2>1, <2>2, <2>3, <2>4
       DEF Next, vars, ReadMessage, ReceiveAck, RefuseMessage, AnswerAck, AbandonAck, Tick
<1>2. MessagesIInv /\ [Next]_vars
      => [\A i \in Ids :
            stage[i] = "stored" /\ stage'[i] = "stored" /\ messages'[i] # messages[i]
              => /\ messages[i].status \in AllowedSources(messages'[i].status)
                 /\ messages[i].status \notin Settled
                 /\ messages'[i].acknowledged_at # NotAcknowledged
                 /\ messages[i].acknowledged_at
                      \in {NotAcknowledged, messages'[i].acknowledged_at}]_vars
  BY <1>1
<1>3. QED
  BY <1>2, Inductive, PTL DEF Spec, MessagesMoveForward

-------------------------------------------------------------------------------
(***************************************************************************)
(* The register implements SettlementOutcome.                              *)
(***************************************************************************)

\* A step that leaves a message as it is keeps its outcome.
LEMMA SameOutcome ==
  ASSUME NEW i \in Ids, stage'[i] = stage[i], messages'[i].status = messages[i].status
  PROVE  MessageOutcome(i)' = MessageOutcome(i)
  BY DEF MessageOutcome

\* Showing a status tells the outcome of a settled message, or nothing.
LEMMA AnswerTells ==
  ASSUME MessagesIInv, NEW i \in Ids, stage[i] = "stored", NEW s,
         s \in Settled => messages[i].status = s,
         AnswerStatus(i, s), UNCHANGED <<stage, messages>>
  PROVE  [Register!OutcomeNext]_(Register!outcomeVars)
<1> DEFINE out == [j \in Ids |-> MessageOutcome(j)]
<1>1. out' = out
  BY SameOutcome
<1>2. CASE s \notin Settled
  BY <1>1, <1>2 DEF AnswerStatus, Register!outcomeVars
<1>3. CASE s \in Settled
  <2>1. out[i] = s
    BY <1>3 DEF MessageOutcome
  <2>2. told' = [told EXCEPT ![i] = @ \cup {out[i]}]
    BY <1>3, <2>1 DEF AnswerStatus
  <2>3. Register!Tell(i)
    BY SMTT(30), <1>1, <1>3, <2>1, <2>2 DEF Register!Tell
  <2>4. QED
    BY <2>3 DEF Register!OutcomeNext
<1>4. QED
  BY <1>2, <1>3

\* An accepted report decides an open message, or repeats what is decided.
LEMMA UpdateDecides ==
  ASSUME MessagesIInv, NEW t \in Tasks, UpdateMessage(t)
  PROVE  [Register!OutcomeNext]_(Register!outcomeVars)
<1> DEFINE out == [j \in Ids |-> MessageOutcome(j)]
<1>0. PICK i \in Ids : i = req[t].id
  BY SMTT(30) DEF MessagesIInv, TypeOK, MessageReport
<1>1. /\ i \in Ids /\ stage[i] = "stored" /\ messages'[i].status = req[t].target
      /\ messages[i].status \in AllowedSources(req[t].target)
      /\ \A j \in Ids : j # i => messages'[j] = messages[j]
      /\ UNCHANGED <<stage, told>>
  BY <1>0, UpdateEffect DEF UpdateMessage
<1>2. /\ messages[i].status \in MessageStatuses /\ req[t].target \in MessageStatuses
  BY <1>1 DEF MessagesIInv, TypeOK, Message, MessageReport
<1>3. \A j \in Ids : j # i => MessageOutcome(j)' = MessageOutcome(j)
  BY <1>1, SameOutcome
<1>4. CASE messages[i].status \in Settled \/ req[t].target \notin Settled
  <2>1. MessageOutcome(i)' = MessageOutcome(i)
    <3>1. CASE messages[i].status \in Settled
      <4>1. req[t].target = messages[i].status
        BY <1>1, <1>2, <3>1, SourcesOfStatus
      <4>2. QED
        BY <1>1, <4>1, SameOutcome
    <3>2. CASE messages[i].status \notin Settled /\ req[t].target \notin Settled
      BY <1>1, <3>2 DEF MessageOutcome
    <3>3. QED
      BY <1>4, <3>1, <3>2
  <2>2. out' = out
    BY <1>3, <2>1
  <2>3. QED
    BY <1>1, <2>2 DEF Register!outcomeVars
<1>5. CASE messages[i].status \notin Settled /\ req[t].target \in Settled
  <2>1. MessageOutcome(i) = "open" /\ MessageOutcome(i)' = req[t].target
    BY <1>1, <1>5 DEF MessageOutcome
  <2>2. out' = [out EXCEPT ![i] = req[t].target]
    BY <1>1, <1>3, <2>1
  <2>3. Register!Decide(i)
    BY <1>1, <1>5, <2>1, <2>2 DEF Register!Decide
  <2>4. QED
    BY <1>1, <2>3 DEF Register!OutcomeNext
<1>6. QED
  BY SMTT(30), <1>4, <1>5

\* Every step of the handlers is a step of the abstract register or none.
LEMMA StepRefines ==
  ASSUME MessagesIInv, [Next]_vars
  PROVE  [Register!OutcomeNext]_(Register!outcomeVars)
<1> DEFINE out == [j \in Ids |-> MessageOutcome(j)]
<1>1. ASSUME NEW i \in Ids, NEW u \in Users, NEW v \in Users, CreateMessage(i, u, v)
      PROVE  [Register!OutcomeNext]_(Register!outcomeVars)
  <2>1. /\ stage[i] = "unissued" /\ stage'[i] = "stored" /\ messages'[i].status = "delivered"
        /\ \A j \in Ids \ {i} : stage'[j] = stage[j] /\ messages'[j] = messages[j]
        /\ UNCHANGED told
    BY <1>1 DEF MessagesIInv, TypeOK, CreateMessage
  <2>2. MessageOutcome(i)' = MessageOutcome(i)
    BY <2>1 DEF MessageOutcome, Settled
  <2>3. out' = out
    BY <2>1, <2>2, SameOutcome
  <2>4. QED
    BY <2>1, <2>3 DEF Register!outcomeVars
<1>2. ASSUME NEW i \in Ids, NEW u \in Users, ReadMessage(i, u)
      PROVE  [Register!OutcomeNext]_(Register!outcomeVars)
  BY <1>2, AnswerTells DEF ReadMessage
<1>3. ASSUME NEW t \in Tasks, UpdateMessage(t)
      PROVE  [Register!OutcomeNext]_(Register!outcomeVars)
  BY <1>3, UpdateDecides
<1>4. ASSUME NEW t \in Tasks, AnswerAck(t)
      PROVE  [Register!OutcomeNext]_(Register!outcomeVars)
  <2>1. /\ req[t].id \in Ids /\ stage[req[t].id] = "stored"
        /\ req[t].target \in Settled => messages[req[t].id].status = req[t].target
    BY <1>4 DEF MessagesIInv, TypeOK, MessageReport, AcksEntitled, AcksCurrent, AnswerAck
  <2>2. QED
    BY <1>4, <2>1, AnswerTells DEF AnswerAck
<1>5. CASE RestartServer
  <2> DEFINE lost == {j \in Ids : stage[j] = "stored"}
  <2>1. CASE InMemory
    <3>1. \A j \in Ids : MessageOutcome(j)' = IF j \in lost THEN "gone" ELSE MessageOutcome(j)
      BY <1>5, <2>1 DEF MessageOutcome, RestartServer
    <3>2. out' = [j \in Ids |-> IF j \in lost THEN "gone" ELSE out[j]]
      BY <3>1
    <3>3. Register!Forget(lost)
      BY <1>5, <2>1, <3>2 DEF Register!Forget, RestartServer
    <3>4. QED
      BY <3>3 DEF Register!OutcomeNext
  <2>2. CASE ~InMemory
    <3>1. out' = out
      BY <1>5, <2>2, SameOutcome DEF RestartServer
    <3>2. QED
      BY <1>5, <3>1 DEF RestartServer, Register!outcomeVars
  <2>3. QED
    BY <2>1, <2>2
<1>6. CASE UNCHANGED <<stage, messages, told>>
  BY <1>6, SameOutcome DEF Register!outcomeVars
<1>7. QED
  BY <1>1, <1>2, <1>3, <1>4, <1>5, <1>6
     DEF Next, vars, ReceiveAck, RefuseMessage, AbandonAck, Tick

\* The message register implements the abstract settlement register: of two racing
\* terminal reports one settles the message, and nobody is ever told the other.
THEOREM KeepsPromise == Spec => KeepsMessagePromise
<1>1. Init => Register!OutcomeInit
  BY DEF Init, Register!OutcomeInit, MessageOutcome
<1>2. MessagesIInv /\ [Next]_vars => [Register!OutcomeNext]_(Register!outcomeVars)
  BY StepRefines
<1>3. QED
  BY <1>1, <1>2, Inductive, PTL DEF Spec, KeepsMessagePromise, Register!OutcomeSpec
==============================================================================
