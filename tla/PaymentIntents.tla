---------------------------- MODULE PaymentIntents ----------------------------
(***************************************************************************)
(* The payment coordination register: PaymentService                       *)
(* (services/api/src/services/payment_service.rs) over either of the two   *)
(* PaymentIntentRepository implementations                                 *)
(* (services/api/src/repositories/payment_intent_repo.rs).                 *)
(*                                                                         *)
(* Requests run concurrently.  A status report reads the intent and checks *)
(* the actor against that snapshot; only afterwards, in a second           *)
(* repository call, is the move validated and stored.  PostgreSQL does so  *)
(* in a transaction that holds the row lock, the in-memory store under its *)
(* write lock.  A request may be abandoned at every await (the client      *)
(* disconnects, the connection breaks) and the process may restart.        *)
(***************************************************************************)
EXTENDS Naturals, PaymentStatus

CONSTANTS
  Users,            \* authenticated accounts
  NoUser,           \* the reporter of an intent nobody has reported on
  Forms,            \* the spellings of a recipient that are tried: "id", "name", "at"
                    \* (the name behind an '@'), "case" (in other case), "email"
  Ids,              \* the UUIDs create may draw; none is ever drawn twice
  Tasks,            \* status reports the server works on at the same time
  Reports,          \* the statuses clients report in this instance
  Kinds,            \* the payment types clients create in this instance
  Backend,          \* "postgres" or "memory"
  MaxTime,          \* bound of the clock
  Lifetimes,        \* values of expires_in_seconds clients send
  DefaultLifetime,  \* the 24 hours of a protected intent without one
  Stored            \* what the store keeps of a timestamp (TIMESTAMPTZ precision)

Times == 0..MaxTime

\* The stored timestamp loses precision, never order; memory loses nothing.
ASSUME ConstantsAssumption ==
  /\ Users # {} /\ Forms # {} /\ Ids # {} /\ Reports # {}
  /\ NoUser \notin Users
  /\ Reports \subseteq Statuses
  /\ Kinds \subseteq {"protected", "instant"}
  /\ Backend \in {"postgres", "memory"}
  /\ MaxTime \in Nat
  /\ Lifetimes \subseteq Nat \ {0}
  /\ DefaultLifetime \in Nat \ {0}
  /\ Stored \in [Times -> Times]
  /\ \A x, y \in Times : x <= y => Stored[x] <= Stored[y]

VARIABLES
  now,       \* the wall clock, Utc::now()
  stage,     \* of an id: "unissued", "stored", or "lost" with the memory store
  intents,   \* the stored row of every id
  pc,        \* where a task is in update_payment_status
  req,       \* the report a task works on
  row,       \* the status and timestamp its transaction last read or was RETURNed
  reporter,  \* ghost: whose report last changed the status of an intent
  told       \* ghost: the terminal answers given to clients about an intent

vars == <<now, stage, intents, pc, req, row, reporter, told>>

-------------------------------------------------------------------------------
(***************************************************************************)
(* Data.                                                                   *)
(***************************************************************************)
NoExpiry == 0

Identifier == [user : Users, form : Forms]
Intent == [kind : {"protected", "instant"}, sender : Users, recipient : Identifier,
           status : Statuses, expires_at : Nat, updated_at : Times]
Report == [id : Ids, actor : Users, target : Reports]
Row == [status : Statuses, updated_at : Times]
Outcome == [status : Terminal, updated_at : Times]

\* A task is idle, has read and authorized ("authorized"), holds the row lock
\* ("locked"), has executed its UPDATE but not committed ("written"), or has
\* only its answer left to send ("answering").
Stages == {"unissued", "stored", "lost"}
Steps == {"idle", "authorized", "locked", "written", "answering"}

\* The row lock of SELECT ... FOR UPDATE, held to the end of the transaction.
HoldsRow(t, i) == pc[t] \in {"locked", "written"} /\ req[t].id = i
RowLocked(i) == \E t \in Tasks : HoldsRow(t, i)

\* matches_actor: an identifier names an account by its id, its username in any
\* case, or either of them behind an '@'; an e-mail address names nobody here.
MatchesActor(u, ident) == ident.user = u /\ ident.form # "email"

IsSender(u, i) == intents[i].sender = u
IsRecipient(u, i) == MatchesActor(u, intents[i].recipient)

\* The spellings of a recipient find_by_user compares; the in-memory store also
\* strips the '@' of what it has stored.
ListedForms == IF Backend = "postgres" THEN {"id", "name"} ELSE {"id", "name", "at"}

\* find_by_user, called with the id and with the username of an account.
FoundByUser(u, i) ==
  IsSender(u, i) \/ (intents[i].recipient.user = u /\ intents[i].recipient.form \in ListedForms)

\* The actor rules of update_payment_status.
MayReport(u, i, s) ==
  CASE s = "claimed"  -> IsRecipient(u, i)
    [] s = "refunded" -> IsSender(u, i)
    [] OTHER          -> IsSender(u, i) \/ IsRecipient(u, i)

InitialStatus(kind) == IF kind = "protected" THEN "created" ELSE "pending"

\* life = NoExpiry stands for a request without expires_in_seconds.
ExpiresAt(kind, life) ==
  IF life # NoExpiry THEN now + life
  ELSE IF kind = "protected" THEN now + DefaultLifetime ELSE NoExpiry

\* The answer to a client: recorded when it shows a terminal status.
Answer(i, r) ==
  told' = IF r.status \in Terminal THEN [told EXCEPT ![i] = @ \cup {r}] ELSE told

StoredRow(i) == [status |-> intents[i].status, updated_at |-> intents[i].updated_at]

\* SET status, updated_at of one row; the other columns stay.
StoreRow(i, r) ==
  intents' = [intents EXCEPT ![i] = [@ EXCEPT !.status = r.status, !.updated_at = r.updated_at]]

\* What a local variable holds before it is assigned.
NoIntent ==
  [kind |-> "instant", sender |-> CHOOSE u \in Users : TRUE,
   recipient |-> [user |-> CHOOSE u \in Users : TRUE, form |-> CHOOSE f \in Forms : TRUE],
   status |-> "created", expires_at |-> NoExpiry, updated_at |-> 0]
NoReport ==
  [id |-> CHOOSE i \in Ids : TRUE, actor |-> CHOOSE u \in Users : TRUE,
   target |-> CHOOSE s \in Reports : TRUE]
NoRow == [status |-> "created", updated_at |-> 0]

Init ==
  /\ now = 0
  /\ stage = [i \in Ids |-> "unissued"]
  /\ intents = [i \in Ids |-> NoIntent]
  /\ pc = [t \in Tasks |-> "idle"]
  /\ req = [t \in Tasks |-> NoReport]
  /\ row = [t \in Tasks |-> NoRow]
  /\ reporter = [i \in Ids |-> NoUser]
  /\ told = [i \in Ids |-> {}]

-------------------------------------------------------------------------------
(***************************************************************************)
(* Requests that are one repository call.                                  *)
(***************************************************************************)

\* create_payment_intent: the sender is the authenticated user, whatever the
\* body says; a request refused by validation stores nothing.
CreateIntent(i, u, ident, kind, life) ==
  /\ stage[i] = "unissued"
  /\ stage' = [stage EXCEPT ![i] = "stored"]
  /\ intents' = [intents EXCEPT ![i] =
       [kind |-> kind, sender |-> u, recipient |-> ident,
        status |-> InitialStatus(kind), expires_at |-> ExpiresAt(kind, life),
        updated_at |-> Stored[now]]]
  /\ UNCHANGED <<now, pc, req, row, reporter, told>>

\* A client is shown the stored intent.
ShowIntent(i) ==
  /\ stage[i] = "stored"
  /\ Answer(i, StoredRow(i))
  /\ UNCHANGED <<now, stage, intents, pc, req, row, reporter>>

\* get_payment_intent and get_payment_intent_by_reference: the sender or the
\* recipient is shown it.
ReadIntent(i, u) ==
  /\ IsSender(u, i) \/ IsRecipient(u, i)
  /\ ShowIntent(i)

\* list_user_payment_intents: what the store finds under the id or the username
\* of the caller.
ListIntents(i, u) ==
  /\ FoundByUser(u, i)
  /\ ShowIntent(i)

-------------------------------------------------------------------------------
(***************************************************************************)
(* update_payment_status.                                                  *)
(***************************************************************************)

\* A task returns; its locals, and with them a transaction it still holds, go.
Finish(t) ==
  /\ pc' = [pc EXCEPT ![t] = "idle"]
  /\ req' = [req EXCEPT ![t] = NoReport]
  /\ row' = [row EXCEPT ![t] = NoRow]

\* Mutant: either party may report anything.
ReceiveUnchecked(t, u, i, s) ==
  /\ pc[t] = "idle"
  /\ stage[i] = "stored"
  /\ IsSender(u, i) \/ IsRecipient(u, i)
  /\ pc' = [pc EXCEPT ![t] = "authorized"]
  /\ req' = [req EXCEPT ![t] = [id |-> i, actor |-> u, target |-> s]]
  /\ UNCHANGED <<now, stage, intents, row, reporter, told>>

\* find_by_id and the actor rules.  A report on an unknown intent (NotFound) or
\* by an actor the rules refuse (Forbidden) ends here and changes nothing.
ReceiveReport(t, u, i, s) ==
  /\ pc[t] = "idle"
  /\ stage[i] = "stored"
  /\ MayReport(u, i, s)
  /\ pc' = [pc EXCEPT ![t] = "authorized"]
  /\ req' = [req EXCEPT ![t] = [id |-> i, actor |-> u, target |-> s]]
  /\ UNCHANGED <<now, stage, intents, row, reporter, told>>

\* Mutant: the SELECT without FOR UPDATE.
ReadRowUnlocked(t) ==
  /\ Backend = "postgres"
  /\ pc[t] = "authorized"
  /\ pc' = [pc EXCEPT ![t] = "locked"]
  /\ row' = [row EXCEPT ![t] = StoredRow(req[t].id)]
  /\ UNCHANGED <<now, stage, intents, req, reporter, told>>

\* PostgreSQL: BEGIN; SELECT status, updated_at ... FOR UPDATE.
LockRow(t) ==
  /\ Backend = "postgres"
  /\ pc[t] = "authorized"
  /\ ~RowLocked(req[t].id)
  /\ pc' = [pc EXCEPT ![t] = "locked"]
  /\ row' = [row EXCEPT ![t] = StoredRow(req[t].id)]
  /\ UNCHANGED <<now, stage, intents, req, reporter, told>>

\* Mutant: a row that is settled already is not rejected, its transaction stays open.
RejectUnsettled(t) ==
  /\ pc[t] = "locked"
  /\ ~CanTransitionTo(row[t].status, req[t].target)
  /\ row[t].status \notin Terminal
  /\ Finish(t)
  /\ UNCHANGED <<now, stage, intents, reporter, told>>

\* transition_to fails: the transaction is dropped and rolled back.
RejectReport(t) ==
  /\ pc[t] = "locked"
  /\ ~CanTransitionTo(row[t].status, req[t].target)
  /\ Finish(t)
  /\ UNCHANGED <<now, stage, intents, reporter, told>>

\* The status is stored already: commit and answer with the stored timestamp.
RepeatReport(t) ==
  /\ pc[t] = "locked"
  /\ row[t].status = req[t].target
  /\ pc' = [pc EXCEPT ![t] = "answering"]
  /\ UNCHANGED <<now, stage, intents, req, row, reporter, told>>

\* Mutant: the UPDATE binds the expiry where the timestamp belongs.
WriteExpiry(t) ==
  /\ pc[t] = "locked"
  /\ CanTransitionTo(row[t].status, req[t].target)
  /\ row[t].status # req[t].target
  /\ pc' = [pc EXCEPT ![t] = "written"]
  /\ row' = [row EXCEPT ![t] = [status |-> req[t].target,
                                updated_at |-> intents[req[t].id].expires_at]]
  /\ UNCHANGED <<now, stage, intents, req, reporter, told>>

\* UPDATE ... RETURNING updated_at, stamped with the clock as it is now.
WriteRow(t) ==
  /\ pc[t] = "locked"
  /\ CanTransitionTo(row[t].status, req[t].target)
  /\ row[t].status # req[t].target
  /\ pc' = [pc EXCEPT ![t] = "written"]
  /\ row' = [row EXCEPT ![t] = [status |-> req[t].target, updated_at |-> Stored[now]]]
  /\ UNCHANGED <<now, stage, intents, req, reporter, told>>

\* COMMIT: the row becomes visible and its lock is released.
CommitRow(t) ==
  /\ pc[t] = "written"
  /\ pc' = [pc EXCEPT ![t] = "answering"]
  /\ StoreRow(req[t].id, row[t])
  /\ reporter' = [reporter EXCEPT ![req[t].id] = req[t].actor]
  /\ UNCHANGED <<now, stage, req, row, told>>

\* The in-memory store: the move is refused under the write lock.
RefuseInMemory(t) ==
  /\ Backend = "memory"
  /\ pc[t] = "authorized"
  /\ ~CanTransitionTo(intents[req[t].id].status, req[t].target)
  /\ Finish(t)
  /\ UNCHANGED <<now, stage, intents, reporter, told>>

\* Mutant: a repeated report is stamped again, as PaymentIntent::update_status does.
RestampInMemory(t) ==
  LET new == [status |-> req[t].target, updated_at |-> Stored[now]]
  IN  /\ Backend = "memory"
      /\ pc[t] = "authorized"
      /\ CanTransitionTo(intents[req[t].id].status, req[t].target)
      /\ StoreRow(req[t].id, new)
      /\ row' = [row EXCEPT ![t] = new]
      /\ reporter' = [reporter EXCEPT ![req[t].id] = req[t].actor]
      /\ pc' = [pc EXCEPT ![t] = "answering"]
      /\ UNCHANGED <<now, stage, req, told>>

\* Mutant: the snapshot the actor was checked against is trusted, nothing is
\* validated under the write lock.
UpdateUnvalidated(t) ==
  LET new == [status |-> req[t].target, updated_at |-> Stored[now]]
  IN  /\ Backend = "memory"
      /\ pc[t] = "authorized"
      /\ StoreRow(req[t].id, new)
      /\ row' = [row EXCEPT ![t] = new]
      /\ reporter' = [reporter EXCEPT ![req[t].id] = req[t].actor]
      /\ pc' = [pc EXCEPT ![t] = "answering"]
      /\ UNCHANGED <<now, stage, req, told>>

\* The in-memory store: validated and stored under the write lock; a status that
\* is stored already keeps its timestamp.
UpdateInMemory(t) ==
  LET i == req[t].id
      to == req[t].target
      new == IF intents[i].status = to THEN StoredRow(i)
             ELSE [status |-> to, updated_at |-> Stored[now]]
  IN  /\ Backend = "memory"
      /\ pc[t] = "authorized"
      /\ CanTransitionTo(intents[i].status, to)
      /\ StoreRow(i, new)
      /\ row' = [row EXCEPT ![t] = new]
      /\ reporter' = IF intents[i].status = to THEN reporter
                     ELSE [reporter EXCEPT ![i] = req[t].actor]
      /\ pc' = [pc EXCEPT ![t] = "answering"]
      /\ UNCHANGED <<now, stage, req, told>>

\* Mutant: the answer carries the clock of the handler, not the stored timestamp.
AnswerWithClock(t) ==
  /\ pc[t] = "answering"
  /\ Answer(req[t].id, [status |-> req[t].target, updated_at |-> now])
  /\ Finish(t)
  /\ UNCHANGED <<now, stage, intents, reporter>>

\* The 200 answer: the reported status and the timestamp the repository returned.
AnswerReport(t) ==
  /\ pc[t] = "answering"
  /\ Answer(req[t].id, [status |-> req[t].target, updated_at |-> row[t].updated_at])
  /\ Finish(t)
  /\ UNCHANGED <<now, stage, intents, reporter>>

\* The handler's future is dropped at an await: an open transaction rolls back,
\* a committed one stays, the answer is lost.
AbandonReport(t) ==
  /\ pc[t] # "idle"
  /\ Finish(t)
  /\ UNCHANGED <<now, stage, intents, reporter, told>>

-------------------------------------------------------------------------------
(***************************************************************************)
(* The process and the clock.                                              *)
(***************************************************************************)

\* AppState::new after a restart: no task survives, the in-memory store is empty.
Restart ==
  /\ pc' = [t \in Tasks |-> "idle"]
  /\ req' = [t \in Tasks |-> NoReport]
  /\ row' = [t \in Tasks |-> NoRow]
  /\ \/ Backend = "postgres" /\ UNCHANGED <<stage, intents, reporter>>
     \/ /\ Backend = "memory"
        /\ stage' = [i \in Ids |-> IF stage[i] = "stored" THEN "lost" ELSE stage[i]]
        /\ intents' = [i \in Ids |-> NoIntent]
        /\ reporter' = [i \in Ids |-> NoUser]
  /\ UNCHANGED <<now, told>>

Tick ==
  /\ now < MaxTime
  /\ now' = now + 1
  /\ UNCHANGED <<stage, intents, pc, req, row, reporter, told>>

\* A report over PostgreSQL, and over the store in memory.
PostgresStep(t) ==
  \/ LockRow(t)
  \/ RejectReport(t)
  \/ RepeatReport(t)
  \/ WriteRow(t)
  \/ CommitRow(t)
  \/ AnswerReport(t)

TaskStep(t) == PostgresStep(t) \/ RefuseInMemory(t) \/ UpdateInMemory(t)

OtherStep ==
  \/ \E i \in Ids, u \in Users, ident \in Identifier, kind \in Kinds,
        life \in Lifetimes \cup {NoExpiry} : CreateIntent(i, u, ident, kind, life)
  \/ \E i \in Ids, u \in Users : ReadIntent(i, u)
  \/ \E i \in Ids, u \in Users : ListIntents(i, u)
  \/ \E t \in Tasks, u \in Users, i \in Ids, s \in Reports : ReceiveReport(t, u, i, s)
  \/ \E t \in Tasks : AbandonReport(t)
  \/ Restart
  \/ Tick

Next == OtherStep \/ \E t \in Tasks : TaskStep(t)

Spec == Init /\ [][Next]_vars

\* The runtime polls every ready task, and PostgreSQL grants a row lock to its
\* waiters in turn, so a waiter is not overtaken for ever.
Fairness == \A t \in Tasks : WF_vars(TaskStep(t)) /\ SF_vars(LockRow(t))

FairSpec == Spec /\ Fairness

\* What is left of the specification over PostgreSQL.
PostgresNext == OtherStep \/ \E t \in Tasks : PostgresStep(t)

FairPostgresSpec == Init /\ [][PostgresNext]_vars /\ Fairness

-------------------------------------------------------------------------------
(***************************************************************************)
(* Properties.                                                             *)
(***************************************************************************)

\* Every variable has its type: rows, requests and answers are well formed.
TypeOK ==
  /\ now \in Times
  /\ stage \in [Ids -> Stages]
  /\ intents \in [Ids -> Intent]
  /\ pc \in [Tasks -> Steps]
  /\ req \in [Tasks -> Report]
  /\ row \in [Tasks -> Row]
  /\ reporter \in [Ids -> Users \cup {NoUser}]
  /\ told \in [Ids -> SUBSET Outcome]

\* However reads, concurrent reports, retries, lost answers and restarts
\* interleave, all terminal answers ever given about an intent are the same
\* status with the same timestamp, and while the intent is stored they are what
\* is stored: a claim and a refund are never both confirmed, a retry is
\* answered with the timestamp of the report it repeats.
AnswersAgree ==
  \A i \in Ids :
    /\ \A a, b \in told[i] : a = b
    /\ stage[i] = "stored" => told[i] \subseteq {StoredRow(i)}

\* The outcome stored for an intent was reported by the party it belongs to,
\* although the actor is checked against a snapshot read before the row lock:
\* claimed by the recipient, refunded by the sender, any other change by one of
\* the two.
OutcomeReportedByEntitledParty ==
  \A i \in Ids :
    stage[i] = "stored" /\ reporter[i] # NoUser
      => MayReport(reporter[i], i, intents[i].status)

\* A stored intent changes only by a move of the lifecycle table from the status
\* that is stored at that moment, whatever the task read earlier; so a terminal
\* status, its parties, its kind and its expiry stay as they are.
ChangesAreLegalMoves ==
  [][\A i \in Ids :
       stage[i] = "stored" /\ intents'[i] # intents[i] /\ stage'[i] = "stored"
         => /\ intents'[i].status \in Successors[intents[i].status]
            /\ intents'[i] = [intents[i] EXCEPT !.status = intents'[i].status,
                                                !.updated_at = intents'[i].updated_at]]_vars

\* updated_at never moves back, although the clock is read by one task while
\* others wait for the row, and the store rounds it.
TimestampNeverMovesBack ==
  [][\A i \in Ids :
       stage[i] = "stored" /\ stage'[i] = "stored"
         => intents'[i].updated_at >= intents[i].updated_at]_vars

\* payment_status.rs: "Both recipient claim and sender refund paths remain
\* possible until the first valid spend is confirmed by the mint".  Wherever an
\* intent can still get to by legal reports, it can from there be brought to
\* claimed and to refunded, unless it is settled, and then to nothing else: no
\* sequence of legal reports is a dead end.
PathsStayOpen ==
  \A i \in Ids :
    stage[i] = "stored"
      => \A s \in ReachableStatuses[intents[i].status] :
           IF s \in Terminal THEN ReachableStatuses[s] = {s}
           ELSE Terminal \subseteq ReachableStatuses[s]

\* A status report that passed the actor check ends, although other reports keep
\* taking the row lock it waits for.
EveryReportFinishes == \A t \in Tasks : pc[t] = "authorized" ~> pc[t] = "idle"

\* payment_status.rs documents RefundAvailable as "Locktime passed; refund
\* spending path is now active for the sender".
RefundAvailableOnlyAfterLocktime ==
  \A i \in Ids :
    stage[i] = "stored" /\ intents[i].kind = "protected"
      /\ intents[i].status = "refund_available"
      => now >= intents[i].expires_at

\* The register keeps the promise of SettlementOutcome.
SettledAs(i) ==
  CASE stage[i] = "lost" -> [status |-> "gone", updated_at |-> 0]
    [] stage[i] = "stored" /\ intents[i].status \in Terminal -> StoredRow(i)
    [] OTHER -> [status |-> "open", updated_at |-> 0]

Register == INSTANCE SettlementOutcome WITH
  Items <- Ids, Outcomes <- Outcome,
  Open <- [status |-> "open", updated_at |-> 0],
  Gone <- [status |-> "gone", updated_at |-> 0],
  Durable <- Backend = "postgres",
  outcome <- [i \in Ids |-> SettledAs(i)]

\* Refinement: every behaviour of the service and its store is a behaviour of the
\* abstract register, in which an intent settles once and is only ever told as
\* settled; with PostgreSQL nothing is forgotten.
KeepsSettlementPromise == Register!OutcomeSpec

-------------------------------------------------------------------------------
(***************************************************************************)
(* The inductive invariant behind the safety properties.                   *)
(***************************************************************************)

\* What holds of a task in a transaction: it is the only one on its row, what it
\* read under the lock is still what is stored, and what it is about to commit is
\* a legal move from there, not older than the stored row nor newer than the
\* clock.
LockDiscipline ==
  \A t \in Tasks :
    /\ pc[t] \in {"locked", "written"}
         => /\ Backend = "postgres"
            /\ \A u \in Tasks \ {t} : ~HoldsRow(u, req[t].id)
    /\ pc[t] = "locked" => row[t] = StoredRow(req[t].id)
    /\ pc[t] = "written"
         => /\ row[t].status = req[t].target
            /\ row[t].status \in Successors[intents[req[t].id].status]
            /\ intents[req[t].id].updated_at <= row[t].updated_at
            /\ row[t].updated_at <= Stored[now]

\* A working task reports on a stored intent, and its actor is still entitled.
TasksEntitled ==
  \A t \in Tasks :
    pc[t] # "idle"
      => /\ stage[req[t].id] = "stored"
         /\ MayReport(req[t].actor, req[t].id, req[t].target)

\* The answer that is about to be sent still describes the stored intent if it
\* is terminal.
AnswersCurrent ==
  \A t \in Tasks :
    pc[t] = "answering"
      => /\ row[t].status = req[t].target
         /\ row[t].status \in Terminal => row[t] = StoredRow(req[t].id)

StampsPast == \A i \in Ids : stage[i] = "stored" => intents[i].updated_at <= Stored[now]

UntoldUntilIssued == \A i \in Ids : stage[i] = "unissued" => told[i] = {} /\ reporter[i] = NoUser

IInv ==
  /\ TypeOK
  /\ LockDiscipline
  /\ TasksEntitled
  /\ AnswersCurrent
  /\ StampsPast
  /\ UntoldUntilIssued
  /\ AnswersAgree
  /\ OutcomeReportedByEntitledParty

\* A settled intent was settled by a report: no intent is created settled.
OutcomesAreReported ==
  \A i \in Ids :
    stage[i] = "stored" /\ intents[i].status \in Terminal => reporter[i] # NoUser
===============================================================================
