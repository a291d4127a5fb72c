----------------------------- MODULE Coordination -----------------------------
(***************************************************************************)
(* The coordination server: protected messages (ProtectedMessages) and     *)
(* payment intents (PaymentIntents) of one process, joined by the link a   *)
(* message may carry to an intent.  A create request validates the link in *)
(* the intent repository and afterwards stores the message in the message  *)
(* repository; reports on both go on in between, and a restart ends them   *)
(* all.                                                                    *)
(***************************************************************************)
EXTENDS ProtectedMessages

CONSTANTS
  Forms,        \* spellings of a recipient, see PaymentIntents
  IntentIds,    \* the UUIDs of intents
  IntentTasks,  \* reports on intents the server works on at the same time
  Reports,      \* the statuses reported of intents in this instance
  Kinds,        \* the payment types created in this instance
  Senders,      \* create requests for messages with a link, at the same time
  NoLink        \* payment_intent_id: None

VARIABLES
  intentStage, intents, intentPc, intentReq, intentRow, reporter, intentTold,
  link,     \* payment_intent_id of a stored message
  sending   \* the create request whose link was validated, per sender slot

intentVars == <<intentStage, intents, intentPc, intentReq, intentRow, reporter, intentTold>>
allVars == <<vars, intentVars, link, sending>>

\* The clock of the message store starts at 1, that of the intents at 0.
Intents == INSTANCE PaymentIntents WITH
  Ids <- IntentIds, Tasks <- IntentTasks, Lifetimes <- {}, DefaultLifetime <- 1,
  Backend <- IF InMemory THEN "memory" ELSE "postgres",
  MaxTime <- MaxTime - 1, Stored <- [x \in 0..(MaxTime - 1) |-> x],
  now <- now - 1, stage <- intentStage, pc <- intentPc, req <- intentReq,
  row <- intentRow, told <- intentTold

ASSUME CoordinationAssumption ==
  /\ NoLink \notin IntentIds
  /\ Forms # {} /\ IntentIds # {} /\ Reports # {}
  /\ Reports \subseteq Intents!Statuses
  /\ Kinds \subseteq {"protected", "instant"}

NothingToSend == [id |-> NoLink, sender |-> CHOOSE u \in Users : TRUE,
                  recipient |-> CHOOSE u \in Users : TRUE]

CoordinationInit ==
  /\ Init
  /\ intentStage = [i \in IntentIds |-> "unissued"]
  /\ intents = [i \in IntentIds |-> Intents!NoIntent]
  /\ intentPc = [t \in IntentTasks |-> "idle"]
  /\ intentReq = [t \in IntentTasks |-> Intents!NoReport]
  /\ intentRow = [t \in IntentTasks |-> Intents!NoRow]
  /\ reporter = [i \in IntentIds |-> NoUser]
  /\ intentTold = [i \in IntentIds |-> {}]
  /\ link = [m \in Ids |-> NoLink]
  /\ sending = [s \in Senders |-> NothingToSend]

-------------------------------------------------------------------------------
\* validate_protected_message_link: the intent is the sender's, names the
\* recipient and is protected; its status is not looked at.  A refused link ends
\* the request.
ValidateLink(s, u, v, i) ==
  /\ sending[s] = NothingToSend
  /\ intentStage[i] = "stored"
  /\ Intents!IsSender(u, i)
  /\ Intents!IsRecipient(v, i)
  /\ intents[i].kind = "protected"
  /\ sending' = [sending EXCEPT ![s] = [id |-> i, sender |-> u, recipient |-> v]]
  /\ UNCHANGED <<vars, intentVars, link>>

\* save_message of a request whose link was accepted.
StoreLinked(s, m) ==
  /\ sending[s] # NothingToSend
  /\ CreateMessage(m, sending[s].sender, sending[s].recipient)
  /\ link' = [link EXCEPT ![m] = sending[s].id]
  /\ sending' = [sending EXCEPT ![s] = NothingToSend]
  /\ UNCHANGED intentVars

\* The handler's future is dropped between the two repositories.
AbandonSend(s) ==
  /\ sending[s] # NothingToSend
  /\ sending' = [sending EXCEPT ![s] = NothingToSend]
  /\ UNCHANGED <<vars, intentVars, link>>

\* Everything ProtectedMessages does on its own, with a message without a link.
MessageStep ==
  /\ UNCHANGED <<intentVars, link, sending>>
  /\ \/ \E m \in Ids, u, v \in Users : CreateMessage(m, u, v)
     \/ \E m \in Ids, u \in Users : ReadMessage(m, u)
     \/ \E t \in Tasks, u \in Users, m \in Ids, s \in MessageStatuses : ReceiveAck(t, u, m, s)
     \/ \E t \in Tasks : UpdateMessage(t) \/ RefuseMessage(t) \/ AnswerAck(t) \/ AbandonAck(t)
     \/ Tick

\* Everything PaymentIntents does on its own.
IntentStep ==
  /\ UNCHANGED <<vars, link, sending>>
  /\ \/ \E i \in IntentIds, u \in Users, ident \in Intents!Identifier, kind \in Kinds :
          Intents!CreateIntent(i, u, ident, kind, Intents!NoExpiry)
     \/ \E i \in IntentIds, u \in Users : Intents!ReadIntent(i, u)
     \/ \E i \in IntentIds, u \in Users : Intents!ListIntents(i, u)
     \/ \E t \in IntentTasks, u \in Users, i \in IntentIds, s \in Reports :
          Intents!ReceiveReport(t, u, i, s)
     \/ \E t \in IntentTasks : Intents!TaskStep(t)
     \/ \E t \in IntentTasks : Intents!AbandonReport(t)

\* Mutant: the messages outlive the process although the intents do not.
RestartKeepingMessages ==
  /\ pc' = [t \in Tasks |-> "idle"]
  /\ req' = [t \in Tasks |-> NoMessageReport]
  /\ UNCHANGED <<now, stage, messages, history, told>>
  /\ Intents!Restart
  /\ sending' = [s \in Senders |-> NothingToSend]
  /\ UNCHANGED link

\* AppState::new: every store of the new process is of the same kind.
RestartAll ==
  /\ RestartServer
  /\ Intents!Restart
  /\ sending' = [s \in Senders |-> NothingToSend]
  /\ link' = IF InMemory THEN [m \in Ids |-> NoLink] ELSE link

CoordinationNext ==
  \/ MessageStep
  \/ IntentStep
  \/ \E s \in Senders, u, v \in Users, i \in IntentIds : ValidateLink(s, u, v, i)
  \/ \E s \in Senders, m \in Ids : StoreLinked(s, m)
  \/ \E s \in Senders : AbandonSend(s)
  \/ RestartAll

CoordinationSpec == CoordinationInit /\ [][CoordinationNext]_allVars

-------------------------------------------------------------------------------
(***************************************************************************)
(* Properties.                                                             *)
(***************************************************************************)

\* validate_protected_message_link: "Bind an encrypted envelope only to a
\* protected intent belonging to the authenticated sender and the resolved
\* recipient".  Although the link is checked in one repository and the message
\* stored later in another, and restarts empty both, a stored message never
\* points to an intent that is gone, of others, or not protected.
LinksResolve ==
  \A m \in Ids :
    stage[m] = "stored" /\ link[m] # NoLink
      => /\ intentStage[link[m]] = "stored"
         /\ intents[link[m]].kind = "protected"
         /\ Intents!IsSender(messages[m].sender, link[m])
         /\ Intents!IsRecipient(messages[m].recipient, link[m])

\* A message and the intent it is linked to are reported on separately, and may
\* come to show opposite outcomes.  No single party can bring that about: whichever
\* of the two shows the claim was settled by the recipient's report, and the one
\* that shows the refund by the sender's.
OppositeOutcomesNeedBothParties ==
  \A m \in Ids :
    LET i == link[m] IN
    stage[m] = "stored" /\ i # NoLink
      => /\ messages[m].status = "claimed" /\ intents[i].status = "refunded"
              => settledBy[m] = messages[m].recipient /\ reporter[i] = messages[m].sender
         /\ messages[m].status = "refunded" /\ intents[i].status = "claimed"
              => settledBy[m] = messages[m].sender /\ reporter[i] = messages[m].recipient

\* In memory as in PostgreSQL, all terminal answers about an intent are one
\* status with one timestamp, and the stored ones; lists count as answers.
IntentAnswersAgree == Intents!AnswersAgree

\* The in-memory store settles an intent once as well, and may only forget.
KeepsIntentPromise == Intents!KeepsSettlementPromise

-------------------------------------------------------------------------------
(***************************************************************************)
(* The inductive invariant behind LinksResolve, on top of those of the two *)
(* registers.                                                              *)
(***************************************************************************)

\* What validate_protected_message_link checks.
LinkAccepted(i, u, v) ==
  /\ i \in IntentIds
  /\ intentStage[i] = "stored"
  /\ intents[i].kind = "protected"
  /\ Intents!IsSender(u, i)
  /\ Intents!IsRecipient(v, i)

\* It stays true from the check to the message, and as long as the message is stored;
\* a message without a row has no link.
LinksIInv ==
  /\ link \in [Ids -> IntentIds \cup {NoLink}]
  /\ sending \in [Senders -> [id : IntentIds \cup {NoLink}, sender : Users, recipient : Users]]
  /\ \A s \in Senders :
       sending[s] # NothingToSend
         => LinkAccepted(sending[s].id, sending[s].sender, sending[s].recipient)
  /\ \A m \in Ids :
       /\ stage[m] = "unissued" => link[m] = NoLink
       /\ stage[m] = "stored" /\ link[m] # NoLink
            => LinkAccepted(link[m], messages[m].sender, messages[m].recipient)
==============================================================================
