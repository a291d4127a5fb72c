-------------------------- MODULE ProtectedMessages --------------------------
(***************************************************************************)
(* Protected messages: the handlers of                                     *)
(* services/api/src/routes/protected_messages.rs over either of the two    *)
(* repositories in services/api/src/repositories/protected_message_repo.rs.*)
(*                                                                         *)
(* A message carries an encrypted envelope, and a status both parties      *)
(* report.  A report reads the message, checks the role of the actor, and  *)
(* only then updates the row: PostgreSQL in one conditional UPDATE, the    *)
(* in-memory store under its write lock.                                   *)
(***************************************************************************)
EXTENDS Naturals

CONSTANTS
  Users,      \* authenticated accounts
  NoUser,     \* nobody: no report has stamped or settled the message yet
  Ids,        \* the UUIDs create may draw; none is ever drawn twice
  Tasks,      \* reports the server works on at the same time
  InMemory,   \* TRUE: the in-memory repository, which a restart empties
  MaxTime     \* bound of the clock

ASSUME MessagesAssumption ==
  /\ Users # {} /\ Ids # {}
  /\ NoUser \notin Users
  /\ InMemory \in BOOLEAN
  /\ MaxTime \in Nat \ {0}

VARIABLES
  now,       \* the clock of the store
  stage,     \* of an id: "unissued", "stored", or "lost" with the memory store
  messages,  \* the stored row of every id
  pc,        \* where a task is in ack_message_handler
  req,       \* the report it works on
  stampedBy, \* ghost: whose report set acknowledged_at of a message
  settledBy, \* ghost: whose report settled it
  told       \* ghost: the settled statuses answered about a message

history == <<stampedBy, settledBy>>
vars == <<now, stage, messages, pc, req, history, told>>

-------------------------------------------------------------------------------
MessageStatuses == {"delivered", "acknowledged", "claimed", "refunded"}
Settled == {"claimed", "refunded"}

\* acknowledged_at before the first accepted report; the clock starts after it.
NotAcknowledged == 0
Times == 1..MaxTime

Message == [sender : Users, recipient : Users, status : MessageStatuses,
            acknowledged_at : Times \cup {NotAcknowledged}]
MessageReport == [id : Ids, actor : Users, target : MessageStatuses]

\* Mutant: a report of claimed may still replace a refund.
LateClaimSources(target) ==
  CASE target = "delivered"    -> {"delivered"}
    [] target = "acknowledged" -> {"delivered", "acknowledged"}
    [] target = "claimed"      -> {"delivered", "acknowledged", "claimed", "refunded"}
    [] target = "refunded"     -> {"delivered", "acknowledged", "refunded"}

\* The statuses a report of target may find.
AllowedSources(target) ==
  CASE target = "delivered"    -> {"delivered"}
    [] target = "acknowledged" -> {"delivered", "acknowledged"}
    [] target = "claimed"      -> {"delivered", "acknowledged", "claimed"}
    [] target = "refunded"     -> {"delivered", "acknowledged", "refunded"}

\* Mutant: either party may report anything.
MayAckEither(u, i, target) == u \in {messages[i].sender, messages[i].recipient}

\* The role rules of ack_message_handler.
MayAck(u, i, target) ==
  IF target = "refunded" THEN u = messages[i].sender ELSE u = messages[i].recipient

NoMessage == [sender |-> CHOOSE u \in Users : TRUE, recipient |-> CHOOSE u \in Users : TRUE,
              status |-> "delivered", acknowledged_at |-> NotAcknowledged]
NoMessageReport == [id |-> CHOOSE i \in Ids : TRUE, actor |-> CHOOSE u \in Users : TRUE,
                    target |-> "delivered"]

Init ==
  /\ now = 1
  /\ stage = [i \in Ids |-> "unissued"]
  /\ messages = [i \in Ids |-> NoMessage]
  /\ pc = [t \in Tasks |-> "idle"]
  /\ req = [t \in Tasks |-> NoMessageReport]
  /\ stampedBy = [i \in Ids |-> NoUser]
  /\ settledBy = [i \in Ids |-> NoUser]
  /\ told = [i \in Ids |-> {}]

\* An answer that shows status s.
AnswerStatus(i, s) ==
  told' = IF s \in Settled THEN [told EXCEPT ![i] = @ \cup {s}] ELSE told

FinishAck(t) ==
  /\ pc' = [pc EXCEPT ![t] = "idle"]
  /\ req' = [req EXCEPT ![t] = NoMessageReport]

-------------------------------------------------------------------------------
\* Mutant: create stores a status the transition rules do not know.
CreateSent(i, u, v) ==
  /\ stage[i] = "unissued"
  /\ stage' = [stage EXCEPT ![i] = "stored"]
  /\ messages' = [messages EXCEPT ![i] =
       [sender |-> u, recipient |-> v, status |-> "sent",
        acknowledged_at |-> NotAcknowledged]]
  /\ UNCHANGED <<now, pc, req, history, told>>

\* create_protected_message_handler, for a recipient who exists (it may be the
\* sender) and an accepted link; anything else stores nothing.
CreateMessage(i, u, v) ==
  /\ stage[i] = "unissued"
  /\ stage' = [stage EXCEPT ![i] = "stored"]
  /\ messages' = [messages EXCEPT ![i] =
       [sender |-> u, recipient |-> v, status |-> "delivered",
        acknowledged_at |-> NotAcknowledged]]
  /\ UNCHANGED <<now, pc, req, history, told>>

\* The inbox, the outbox and get_message_by_id show the row to its two parties.
ReadMessage(i, u) ==
  /\ stage[i] = "stored"
  /\ u \in {messages[i].sender, messages[i].recipient}
  /\ AnswerStatus(i, messages[i].status)
  /\ UNCHANGED <<now, stage, messages, pc, req, history>>

\* find_message_by_id and the role rules; NotFound, Forbidden and an unknown
\* status end here.
ReceiveAck(t, u, i, target) ==
  /\ pc[t] = "idle"
  /\ stage[i] = "stored"
  /\ MayAck(u, i, target)
  /\ pc' = [pc EXCEPT ![t] = "authorized"]
  /\ req' = [req EXCEPT ![t] = [id |-> i, actor |-> u, target |-> target]]
  /\ UNCHANGED <<now, stage, messages, history, told>>

\* The first accepted report stamps the message, the first terminal one settles it.
NoteReporter(i, u, target) ==
  /\ stampedBy' = [stampedBy EXCEPT ![i] = IF @ = NoUser THEN u ELSE @]
  /\ settledBy' = [settledBy EXCEPT ![i] = IF @ = NoUser /\ target \in Settled THEN u ELSE @]

\* Mutant: every accepted report stamps acknowledged_at.
RestampAck(t) ==
  LET i == req[t].id
  IN  /\ pc[t] = "authorized"
      /\ messages[i].status \in AllowedSources(req[t].target)
      /\ messages' = [messages EXCEPT ![i].status = req[t].target, ![i].acknowledged_at = now]
      /\ NoteReporter(i, req[t].actor, req[t].target)
      /\ pc' = [pc EXCEPT ![t] = "answering"]
      /\ UNCHANGED <<now, stage, req, told>>

\* update_message_status: the row moves, and the first accepted report stamps it.
UpdateMessage(t) ==
  LET i == req[t].id
  IN  /\ pc[t] = "authorized"
      /\ messages[i].status \in AllowedSources(req[t].target)
      /\ messages' = [messages EXCEPT ![i].status = req[t].target,
                        ![i].acknowledged_at = IF @ = NotAcknowledged THEN now ELSE @]
      /\ NoteReporter(i, req[t].actor, req[t].target)
      /\ pc' = [pc EXCEPT ![t] = "answering"]
      /\ UNCHANGED <<now, stage, req, told>>

\* No row matched: Conflict.
RefuseMessage(t) ==
  /\ pc[t] = "authorized"
  /\ messages[req[t].id].status \notin AllowedSources(req[t].target)
  /\ FinishAck(t)
  /\ UNCHANGED <<now, stage, messages, history, told>>

\* The answer names the reported status.
AnswerAck(t) ==
  /\ pc[t] = "answering"
  /\ AnswerStatus(req[t].id, req[t].target)
  /\ FinishAck(t)
  /\ UNCHANGED <<now, stage, messages, history>>

\* The client or a connection is gone.
AbandonAck(t) ==
  /\ pc[t] # "idle"
  /\ FinishAck(t)
  /\ UNCHANGED <<now, stage, messages, history, told>>

\* AppState::new after a restart.
RestartServer ==
  /\ pc' = [t \in Tasks |-> "idle"]
  /\ req' = [t \in Tasks |-> NoMessageReport]
  /\ IF InMemory
     THEN /\ stage' = [i \in Ids |-> IF stage[i] = "stored" THEN "lost" ELSE stage[i]]
          /\ messages' = [i \in Ids |-> NoMessage]
          /\ stampedBy' = [i \in Ids |-> NoUser]
          /\ settledBy' = [i \in Ids |-> NoUser]
     ELSE UNCHANGED <<stage, messages, history>>
  /\ UNCHANGED <<now, told>>

Tick ==
  /\ now < MaxTime
  /\ now' = now + 1
  /\ UNCHANGED <<stage, messages, pc, req, history, told>>

Next ==
  \/ \E i \in Ids, u, v \in Users : CreateMessage(i, u, v)
  \/ \E i \in Ids, u \in Users : ReadMessage(i, u)
  \/ \E t \in Tasks, u \in Users, i \in Ids, s \in MessageStatuses : ReceiveAck(t, u, i, s)
  \/ \E t \in Tasks : UpdateMessage(t) \/ RefuseMessage(t) \/ AnswerAck(t) \/ AbandonAck(t)
  \/ RestartServer
  \/ Tick

Spec == Init /\ [][Next]_vars

-------------------------------------------------------------------------------
(***************************************************************************)
(* Properties.                                                             *)
(***************************************************************************)

\* Every variable has its type.
TypeOK ==
  /\ now \in Times
  /\ stage \in [Ids -> {"unissued", "stored", "lost"}]
  /\ messages \in [Ids -> Message]
  /\ pc \in [Tasks -> {"idle", "authorized", "answering"}]
  /\ req \in [Tasks -> MessageReport]
  /\ stampedBy \in [Ids -> Users \cup {NoUser}]
  /\ settledBy \in [Ids -> Users \cup {NoUser}]
  /\ told \in [Ids -> SUBSET Settled]

\* However reports race, a stored message never moves backwards: a settled status
\* stays, an acknowledged message does not become delivered again, and the time
\* of the first accepted report is set with it and kept from then on.
MessagesMoveForward ==
  [][\A i \in Ids :
       stage[i] = "stored" /\ stage'[i] = "stored" /\ messages'[i] # messages[i]
         => /\ messages[i].status \in AllowedSources(messages'[i].status)
            /\ messages[i].status \notin Settled
            /\ messages'[i].acknowledged_at # NotAcknowledged
            /\ messages[i].acknowledged_at \in {NotAcknowledged, messages'[i].acknowledged_at}]_vars

\* The message register keeps the promise of SettlementOutcome.
MessageOutcome(i) ==
  CASE stage[i] = "lost" -> "gone"
    [] stage[i] = "stored" /\ messages[i].status \in Settled -> messages[i].status
    [] OTHER -> "open"

Register == INSTANCE SettlementOutcome WITH
  Items <- Ids, Outcomes <- Settled, Open <- "open", Gone <- "gone", Durable <- ~InMemory,
  outcome <- [i \in Ids |-> MessageOutcome(i)]

\* Refinement: a message is settled once, by one of the two terminal reports that
\* race, and nobody is ever told the other one.
KeepsMessagePromise == Register!OutcomeSpec

\* ack_message_handler: "Only the intended recipient can acknowledge message
\* receipt"; so the report that stamps a message as acknowledged is its recipient's.
AcknowledgedByRecipient ==
  \A i \in Ids :
    stage[i] = "stored" /\ messages[i].acknowledged_at # NotAcknowledged
      => stampedBy[i] = messages[i].recipient

-------------------------------------------------------------------------------
(***************************************************************************)
(* The inductive invariant behind the safety properties.                   *)
(***************************************************************************)

\* A working task reports on a stored message, and its actor is still entitled: the
\* parties never change.
AcksEntitled ==
  \A t \in Tasks :
    pc[t] # "idle"
      => /\ stage[req[t].id] = "stored"
         /\ MayAck(req[t].actor, req[t].id, req[t].target)

\* A settled status about to be answered is the one stored.
AcksCurrent ==
  \A t \in Tasks :
    pc[t] = "answering" /\ req[t].target \in Settled
      => messages[req[t].id].status = req[t].target

\* Only a new message has no time of its first report.
ReportsAreStamped ==
  \A i \in Ids :
    stage[i] = "stored" /\ messages[i].status # "delivered"
      => messages[i].acknowledged_at # NotAcknowledged

\* A claimed message was settled by its recipient, a refunded one by its sender, and a
\* message that is not settled by nobody.
SettledByItsParty ==
  \A i \in Ids :
    settledBy[i] = IF stage[i] # "stored" \/ messages[i].status \notin Settled THEN NoUser
                   ELSE IF messages[i].status = "claimed" THEN messages[i].recipient
                   ELSE messages[i].sender

MessagesIInv ==
  /\ TypeOK
  /\ AcksEntitled
  /\ AcksCurrent
  /\ ReportsAreStamped
  /\ SettledByItsParty
==============================================================================
