# A verification development of the Hanbova backend

TLA+ models of the Hanbova backend (a Rust workspace: an Axum coordination
server, the domain crates, a Cashu escrow provider, a Lightning provider and a
wallet library for mobile clients), the TLC instances that check them, and
machine-checked proofs of every safety property for all values of the constants.
Every definition is translated from the code; `PROJECT.json` gives the lines each
one stands for.

## 1. Inventory

The money of a protected payment never passes through the server.  A sender
locks ecash at a Cashu mint under the recipient's key and, after a locktime, its
own refund key; the mint alone decides who spends it.  The server *coordinates*:
it stores payment intents, carries end-to-end encrypted messages with the locked
token, publishes payment keys, and lets the two parties report what happened.
What it must get right is that the two parties, who retry, race and disconnect,
are never told contradictory things.

| Component (source) | State | Operations | Hard behaviour | Correct means |
|---|---|---|---|---|
| Lifecycle table (`hanbova-core/src/payment_status.rs`) | none | `can_transition_to`, `transition_to`, `is_terminal` | long legal sequences of reports by two parties | terminal rows are final, claim and refund stay possible until one happened |
| Coordination register (`services/payment_service.rs`, `repositories/payment_intent_repo.rs`, `handlers/payment_intents.rs`) | table `payment_intents`, or a map in memory | create, get, get by reference, list, update status | the actor is checked against a snapshot and the move against the row, in two repository calls; concurrent claims and refunds; retries after lost answers; dropped transactions; restarts | one outcome per intent, told with one timestamp; only legal moves; outcome reported by the entitled party |
| Cashu escrow provider (`hanbova-protected-payments/src/cashu.rs`) | map of payments in memory; wallet on disk; proofs at the mint | create, claim, refund, status, balances | funds are locked before the payment is tracked; the write lock is held over a call to the mint; lost answers; spends from another wallet; restart empties the map | the record agrees with the mint; no locked token is lost |
| Protected messages and payment keys (`routes/protected_messages.rs`, `repositories/protected_message_repo.rs`) | table of messages and of payment keys, or maps | create, inbox, outbox, get, acknowledge, publish keys | role check and conditional update are two calls; racing terminal reports; the link is validated in one repository and the message stored in another; a profile is looked up while it is replaced | a message settles once; its acknowledgement time is kept; its link resolves; a profile is one publication |
| Development escrow provider (`hanbova-protected-payments/src/mock.rs`) | map in memory | as the Cashu provider | what happens at the expiry; refused calls that move the intent all the same | settled once and as recorded, never stuck, never refunded early |
| Accounts and sessions (`auth/`) | users, refresh tokens, reset tokens | register, login, refresh, logout, forgot and reset password | several repository calls per request; a refresh in flight during a logout or a reset | a token is exchanged once; a revoked session stays revoked |
| Indicative rate cache (`services/rate_service.rs`) | one cached rate per market | one rate, all rates | concurrent fetches of different speed; provider failure | fresh and stale answers are as old as they claim |
| Request rate limiter (`middleware/mod.rs`) | window and count per peer | check | the bound on tracked peers | at most the limit per window, at most twice in any stretch as long; no refusal without a reason |
| Lightning provider and mint bridge (`hanbova-lightning/`) | invoices, payments and a balance in memory | invoice, quote, pay, balance | a payment takes two locks in turn and may be dropped between them; one invoice paid twice | the balance is the initial one less every payment, recorded or dropped |
| Mobile wallet interface (`hanbova-cdk-ffi/`) | a handle on the wallet, an error slot per thread | create, free, balance, quotes, mint, melt, locked send and receive, token state | several threads on one handle; a failure between wallet and mint; an app that is killed | an answer of success is true and stays true; nothing is left set aside unless a call failed |
| Configuration, startup, state (`config.rs`, `startup.rs`, `state.rs`, `main.rs`) | which stores are used | load, validate, start | combinations of environment and database | no production process on stores in memory |
| Market catalogue, bills, eSIM, payouts (`providers/`, `routes/`) | none (sandbox catalogues) | list, quote, order | seven tables in three files; rounding to sats | the tables agree: what an answer about a market offers is a capability of it, one rate for bills and payouts |
| Domain values and errors, database schema, health | none | constructors, mapping | none of their own | |

How they interact: handlers call services, services call a repository
(PostgreSQL or memory, chosen once in `AppState::new`); messages may link to an
intent of the same two parties; the escrow provider, used by the wallet side,
moves the same `PaymentIntent` type through the same table, and its outcome
reaches the server only as a *report*.

The hazards this code is exposed to are listed with their lines and the
properties aimed at them in `PROJECT.json`.

## 2. Modules

| Module | What it is |
|---|---|
| `PaymentStatus` | the lifecycle table |
| `SettlementOutcome` | abstract specification of a settlement register: an item settles at most once, and only its outcome is ever told; a store that is not durable may forget |
| `PaymentIntents` | the coordination register over both repositories |
| `CashuEscrow` | the escrow provider, the mint, other wallets |
| `ProtectedMessages` | message status over both repositories |
| `Coordination` | `ProtectedMessages` and `PaymentIntents` in one process, joined by the link of a message to an intent |
| `Sessions` | accounts, refresh tokens, password resets |
| `Clock`, `RequestRateLimiter`, `RateService`, `RateRequests` | the limiter in front of the routes, the rate cache, and a rate request's way through both |
| `WalletInterface` | the C interface of the mobile wallet, over an external wallet and mint |
| `Startup` | settings, `main`, and what the process it starts is made of |
| `LightningMock`, `MockEscrow`, `PaymentKeys`, `SandboxMarkets` | the parts a process serves besides: mock Lightning provider, development escrow, key directory, catalogue |
| `Development` | `Startup` composed with these four: they are served by a serving process and end with it |
| `PaymentIntentsProofs`, `CashuEscrowProofs`, `ProtectedMessagesProofs`, `CoordinationProofs`, `SessionsProofs`, `RateRequestsProofs`, `WalletInterfaceProofs`, `DevelopmentProofs` | theorems about the module each is named after and what that module composes |
| `MCPaymentIntents`, `MCCashuEscrow`, `MCProtectedMessages`, `MCCoordination`, `MCSessions`, `MCRateRequests`, `MCWalletInterface`, `MCDevelopment` | the instances TLC checks |

### PaymentIntents

`intents` and `stage` are the stored rows; `pc`, `req` and `row` the position,
the request and the local variables of the reports in progress; `now` the clock;
`reporter` and `told` are history.  `CreateIntent`, `ReadIntent` (by id or by
reference) and `ListIntents` are one repository call each.  A list shows an
intent to its sender and to whoever the store recognises as its recipient:
`ListedForms` in memory and `FoundByUser` for PostgreSQL differ there, from each
other and from the rule that authorizes a report.  A report goes through the steps at which other requests
can intervene:

| Action | Code |
|---|---|
| `ReceiveReport` | `find_by_id`, then the actor rules of `update_payment_status` |
| `LockRow` | `BEGIN; SELECT ... FOR UPDATE` |
| `RejectReport`, `RepeatReport`, `WriteRow` | the three ways on from the locked row: illegal move, status already stored, `UPDATE ... RETURNING` |
| `CommitRow` | `COMMIT`; the row becomes visible and the lock is released |
| `RefuseInMemory`, `UpdateInMemory` | the in-memory repository, under its write lock |
| `AnswerReport` | the 200 answer, made from the request's status and the returned timestamp |
| `AbandonReport` | the handler's future is dropped at an await |
| `Restart` | a new process; the in-memory store is empty |

`Stored` is what the column keeps of a timestamp; any function on times that
preserves order.  A recipient is an account and the form it is written in;
of the forms only an e-mail address matters, because `matches_actor` accepts
the others and no e-mail address.  `FairPostgresSpec`
is the specification without the steps of the store in memory, which `coordination`
takes.  Requests that end in an error before they
change anything (unknown intent, refused actor, validation) are not steps.

### CashuEscrow

`mint` (where the funds of a token are) is the mint's; `tracked` is the map of
the provider, `writer` the holder of its write lock; `pc`, `call`, `reply` the
calls in progress.  Creation is `StartCreate`, `ConfirmSend` (or `FailSend`),
`BuildIntent` (or `RefuseIntent`), `InsertIntent`; claim and refund are
`StartSettle`, `AskMint` (or `RefuseSettle`), the mint's answer, and one of
`RecordPaid`, `RecordSpent`, `RecordFailed`, all under the write lock.
`MintAnswers`, `MintUnreachable`, `LoseAnswer`, `SpendElsewhere` and `Opens` are
the environment: NUT-11 as the integration tests use it, in which the
recipient's key opens a token at any time, the refund key after the locktime, and
any key does after the locktime of a token that was locked without a refund key
(`NoRefundKey`, the tokens of requests that name none).  Neither call compares the
private key it is given with anything, so `MintAnswers` has every call try every
key: a refund signed by the recipient, paid at once, is recorded as a refund.
`RefuseIntent` is every way in which `PaymentIntent::new` refuses a request whose
funds are locked already: an empty recipient, a zero amount, a locktime that passed
meanwhile.  In `mint`, `by` is history: the operation that had a token redeemed.

### ProtectedMessages

`messages` are the rows, `pc` and `req` the reports in progress.  `ReceiveAck` is
the read and the role check, `UpdateMessage` the conditional `UPDATE` (or the
same under the write lock of the map), `RefuseMessage` the conflict, `AnswerAck`
the answer.  `stampedBy` and `settledBy` are history: whose report set
`acknowledged_at` of a message, and whose settled it.

### Coordination

The server as one process: `MessageStep` and `IntentStep` are what the two modules
do on their own, the second through `INSTANCE PaymentIntents WITH` the variables
of this module.  A create request with a link is two steps, `ValidateLink`
(`validate_protected_message_link`, which reads the intent) and `StoreLinked`
(`save_message`), with everything else in between; `AbandonSend` is a request
dropped there.  `RestartAll` ends the process and with it both stores.  A report
on a message changes no intent and the other way round: the code keeps the two
apart, and `OppositeOutcomesNeedBothParties` says what follows: if the two show
opposite outcomes, `settledBy` of the message and `reporter` of the intent are its
two different parties, each the one the outcome belongs to.

### WalletInterface

`thread` holds the call a thread is in, its return value, its out parameter and
whether its error slot is filled.  `quote`, `melt` and `proofs` are the mint's;
`spendable`, `reserved` and `transit` count proofs in the wallet, set aside by
it, and signed by the mint but not yet stored.  Each function is its awaits:

| Function | Actions |
|---|---|
| `wallet_create`, `wallet_free` | `CreateWallet`, `RefuseCreate`; `FreeWallet` |
| `wallet_get_balance` | `ReadSpendable`, `ReadPending` (the two reads are two awaits) |
| `mint_quote`, `check_mint_quote_status`, `melt_quote`, `check_token_state` | `CreateQuote`, `CheckQuote`, `QuotePayment`, `CheckToken` |
| `mint`, `receive_p2pk` | `IssueProofs` or `RedeemToken`, then `StoreProofs` |
| `melt` | `Prepare`, `ConfirmMelt`, `AnswerMelt` |
| `prepare_p2pk_send` | `Prepare`, `ConfirmSend`, `HandToken` |

`RefuseArguments` is every return before the wallet is touched, `FailCall` an await
that fails, `Kill` the end of the app.  `PayInvoice`, `ResolveMelt` and
`SpendElsewhere` are other parties; a proof that is pending at the mint is spent in the
end, or given back.  `check_token_state` answers -1 for a token without proofs or whose
proofs have states it does not know (`CheckToken` with no states).  `trouble` is history:
something failed that the app was told of, or it was killed.

### Startup and Development

`Configure` takes any settings `from_iter` accepts (`Accepted`, over everything its
checks tell apart), then `SkipDatabase`, `ConnectDatabase` or `FailDatabase`,
`BuildState` (`AppState::try_new` with what it refuses), `Listen`; `Stop` may come at
any time, and so may a change of the database.  In `Development` a request needs a
serving process, and `EndProcess` empties what was in its memory.

* `LightningMock`: `Debit` and `Record` are the two halves of `pay_invoice`, which holds
  the lock of the balance while it waits for that of the payments; `DropPayment`
  is a request dropped there.
* `MockEscrow`: `CreateEscrow`, `Claim`, `ClaimLate`, `Refund`, each under the write lock.
  No handler calls the provider; it is exercised through the trait the state exposes.
* `PaymentKeys`: `Publish` is the upsert; a lookup is `FindOwner`, `ShowKeys`.
* `SandboxMarkets`: the tables as functions; one action per request.  The server keeps
  nothing and compares no request with an earlier one, so every request may come at any
  time, about any country, biller or corridor, listed or not; `shown` is the answer
  shown last.

### Sessions

`accounts`, `sessions` and `resets` are the three tables; `pc` and `req` the
requests in progress.  Each action is one repository call: a registration goes
through `CheckUsername`, `CheckEmail`, `CreateUser` (or `RefuseUser`),
`StoreToken`, `AnswerAuth`; a login through `StartLogin` and the same last two; a
refresh through `ExchangeToken` (one `UPDATE` that tests and revokes) and the same
last two; a reset through `ConsumeReset`, `UpdatePassword`, `RevokeSessions`; a
logout through `StartLogout` and `RevokeSessions`.  `Abandon` is everything that
can end a request between two calls, a restart included, since the tables are
all in PostgreSQL.  `held`, `root`, `era`, `born`, `closed` and `changes` are
history: which tokens clients hold, which login each descends from, and how the
moments they were handed out relate to logouts and password changes.

### RequestRateLimiter, RateService and RateRequests

`windows` is the limiter's map; `Allow` and `Refuse` are the two answers of
`allow_request`, which holds its mutex throughout.  `granted` and `refused` are
history.  `cache` is the rate cache; a call goes through `Begin` (the clock is read),
`AnswerFresh` or `Fetch` (under the read lock), `ProviderQuotes` or `ProviderFails`
for each market asked, and `StoreRate`, `FallBack` or `StoreAll` and `ListAll`, each
under a lock taken anew; `EndCall` is the answer or a call dropped at an await.  A
rate is the time at which the provider quoted it.  `RateRequests` composes them as
`build_app` does: a request reaches the service only through `Allow`.

## 3. What is checked

| Run | Question | Bounds |
|---|---|---|
| `intents_pg` | Do concurrent reports over PostgreSQL ever give two answers, an illegal move, an outcome of the wrong party, a timestamp that moves back?  Does the register implement `SettlementOutcome`?  Does every report end although others keep taking the row?  Does some sequence of legal reports close the claim or the refund path? | 2 users, 1 intent, 2 reports at a time, 5 statuses, clock 0..2 with rounded timestamps |
| `coordination` | Does a link ever point to an intent that is gone, of others or not protected?  Can one party alone bring a message and its intent to opposite outcomes?  Do both registers keep their promise in memory, where a restart empties them? | 1 message, 1 intent, 2 reports at a time on the message, 1 on the intent, 4 statuses of the intent (enough to get it claimed and refunded), 1 create request with a link, both payment types, clock of two ticks; sent from one user to another (`AliceToBob`) |
| `intents_locktime` | Is `refund_available` reported only after the locktime? (no) | 1 intent, 1 report |
| `escrow` | Does the record ever claim a spend the mint has not seen, a refund no refund call got or before the locktime, two outcomes, or an error after the funds moved?  Does every call end? | 1 payment id, 2 tokens (so the id is used twice; one without a refund key), 2 calls with any of 3 keys, spends elsewhere by the recipient, lost answers, restarts |
| `escrow_retry`, `escrow_untracked`, `escrow_foreign` | three of the disagreements below | 1 call; `escrow_foreign`: 2 payments |
| `messages_acknowledged` | Is a message acknowledged only by its recipient? (no) | 1 report |
| `sessions` | Does a session chain ever fork?  Does a confirmed logout or reset leave an older session usable?  Do racing registrations leave one name twice?  Does a reset token work twice? | 2 requests, 3 refresh tokens, 1 reset token, 2 logouts or password changes, 1 name, 2 ids, 1 expiry |
| `rates` | Can a peer get more than two limits through in a stretch as long as a window, or be refused without a reason, when the map is full?  Is a rate ever shown as fresh, or at all, that was quoted too long ago? | 2 peers, room for 1, limit 2, window 2; 1 market, 2 calls, fresh 1, stale 3; clock 0..4 |
| `wallet` | Is a return value of 0 ever untrue, now or later?  Do funds go out of sight although no call failed?  Does the wallet overspend? | 2 threads, 2 mint quotes, 1 payment, 1 token of 2 proofs |
| `mocks` | Does any way through settings, database and failures serve mocks in production?  Do the books of the mock Lightning provider balance?  Does the development escrow settle an intent twice, refund it early, or leave it stuck?  Do the catalogue tables agree?  Is a profile ever put together from two publications? | 2 payers, balance for 2 payments; 2 payments, clock 0..3; 3 amounts around the limits; 2 accounts, 2 environments, 3 publications, 1 lookup |

Why the bounds are enough.  Intents, messages and tokens do not influence each
other except through the id that is reused and the token that is handed in, and
the runs about those have two of them.  Two reports give every interleaving of a check
and a write; a third adds only another waiter (the proofs below cover any
number).  The clock needs one tick before, at and after a locktime, and two
ticks that round to the same timestamp.  A session chain needs three tokens to fork
(one that is exchanged twice, and its two successors).  Five points in time let
two windows of length 2 end, and an entry of the cache become stale and unusable;
markets of the rate cache share nothing, so one is enough.  In
`coordination` one message and one intent suffice because a link joins one of each
and neither repository compares two of them; two reports on the message race
while a third, on the intent, goes on; that is little for the intents, whose races are in
`intents_pg` and, in the composed server, in the theorems.  In `escrow` the recipient alone also
spends with a wallet of its own: to the provider all owners look the same.  The constraint of
`coordination`, `AliceToBob`, keeps to payments
between two different users and names the sender alice, which loses nothing since
no action tells users apart; payments to oneself are in `intents_pg`.  In `wallet` two threads give every
interleaving of two calls, two quotes fund a send and a payment at the same time,
and a token needs two proofs for its state to be mixed.  In `mocks` the parts share
nothing but the process, so a behaviour exercises one of them.  Only tasks, calls, peers, threads, payers, and the
ids, quotes and tokens nobody chooses by name, are declared symmetric, and no run
with a liveness property declares any.  A passing run never stops for lack of a step (reads and
restarts remain possible), so deadlock is checked in all of them.

Fairness.  `PaymentIntents`: a request whose next step is possible takes it (the
runtime polls every ready task), and a report that keeps finding the row locked
gets it in the end (PostgreSQL queues waiters for a row).  `CashuEscrow`: the same
for calls, with the write lock of tokio, which is granted in order; and the mint
answers or the connection fails.  The provider sets no timeout of its own: behind a
mint that does neither, every call would wait for the write lock, and `CallsFinish` says
nothing of that.  Nothing is assumed of clients, of the clock, or
of abandoned calls and restarts.

Disagreements between the code and what it documents (each the counterexample of
a run, with the quoted line in `PROJECT.json`):

* `escrow_retry`: a refund that was paid but whose caller went away is retried;
  the provider takes the spent token for a claim and records `claimed`.
* `escrow_untracked`: the payment is refused only after the mint has locked the funds,
  for an empty recipient, a zero amount or a locktime that passed meanwhile; the call
  drops the only copy of the token.
* `escrow_foreign`: a claim that hands in the token of another payment settles
  this one, whose own token stays locked.
* `intents_locktime`: the server accepts `refund_available` before the locktime.
* `messages_acknowledged`: a refund reported by the sender stamps
  `acknowledged_at`.

One more is a single guard, and no run is spent on it: the development escrow, which
"simulates the exact state machine rules" (`mock.rs:19`), refuses every claim after the expiry
(`mock.rs:83`, `ClaimAccepted` in `MockEscrow`).  The lifecycle (`payment_status.rs:12-14`), its
table (`:99`) and its test (`:205-206`) have the claim possible until the refund is
settled.  So do `cdk_test.rs:120-123` of the Cashu provider and, of the mint,
`README.md:83-86` and `docker-compose.yml:22-24` of the repository, which call a mint that
rejects such claims incompatible.  `EscrowSettlesOnce` holds of the provider as it is.

Time.  The clock of every module stands still or moves forward.  The code reads the wall
clock (`Utc::now`), which an operator or a time service can set back:
`TimestampNeverMovesBack` and `AnswersWithinWindows` hold as long as that does not
happen, and say nothing of when it does.

## 4. What is proved

Every safety invariant, every action property and every refinement the passing
runs check is a theorem of its specification, for all values of the constants:
any number of users, requests, tokens, peers, threads, any limits, and any value of the
bounds that keep a run finite (`MaxTime`, `MaxEra`, `MaxInvoices`, `Publications`).
The specification of a run with fairness implies the one of the theorem.

| Module | Theorem | Property |
|---|---|---|
| `PaymentIntentsProofs` | `TypeCorrect` | `TypeOK` |
| | `TerminalAnswersAgree` | `AnswersAgree` |
| | `OutcomesAreEntitled` | `OutcomeReportedByEntitledParty` |
| | `TransactionsAreDisciplined` | `LockDiscipline` |
| | `NoReportIsADeadEnd` | `PathsStayOpen` |
| | `OnlyLegalMoves` | `ChangesAreLegalMoves`, an action property |
| | `TimestampsAdvance` | `TimestampNeverMovesBack`, an action property |
| | `KeepsPromise` | `KeepsSettlementPromise`, the refinement of `SettlementOutcome` |
| | `PostgresSpecIsSpec` | with `Backend = "postgres"`, `FairSpec <=> FairPostgresSpec`, the specification of `intents_pg` |
| `ProtectedMessagesProofs` | `TypeCorrect` | `TypeOK` |
| | `OnlyForward` | `MessagesMoveForward`, an action property |
| | `KeepsPromise` | `KeepsMessagePromise`, the refinement of `SettlementOutcome` |
| `CoordinationProofs` | `ServerTypeCorrect`, `ServerMessagesMoveForward`, `ServerKeepsMessagePromise` | the same of the composed server |
| | `ServerAnswersAgree`, `ServerKeepsIntentPromise` | `IntentAnswersAgree`, `KeepsIntentPromise` |
| | `LinksAlwaysResolve` | `LinksResolve` |
| | `OppositesNeedBoth` | `OppositeOutcomesNeedBothParties` |
| `CashuEscrowProofs` | `TypeCorrect` | `TypeOK` |
| | `SettledAnswersAgree` | `AnswersAgree` |
| | `SettlementsAreSpent`, `RefundsAreReal`, `PaymentsAreRecordable` | `SettledMeansSpent`, `RefundedMeansRefunded`, `PaidIsRecordable`, if `~ForeignTokens` |
| `SessionsProofs` | `TypeCorrect` | `TypeOK` |
| | `OneTokenPerLogin` | `ChainsDoNotFork` |
| | `ConfirmationIsFinal` | `ConfirmedEndsSessions` |
| | `NamesAreTakenOnce` | `AccountsAreDistinct` |
| | `ResetsPayForChanges` | `ChangesNeedTokens` |
| `RateRequestsProofs` | `TypeCorrect` | `TypeOK` |
| | `TwoLimitsAtMost` | `NoMoreThanTwoLimits` |
| | `NobodyIsRefusedIdly` | `RefusalsHaveReasons` |
| | `RatesAreAsFreshAsShown` | `AnswersWithinWindows` |
| `WalletInterfaceProofs` | `TypeCorrect` | `TypeOK` |
| | `ReturnedValuesStayTrue` | `SuccessIsTrue` |
| | `NothingGoesAstray` | `QuietMeansSettled` |
| `DevelopmentProofs` | `TypeCorrect` | `TypeOK` |
| | `ProductionHasNoMocks` | `NoMockServesProduction` |
| | `BooksAlwaysBalance` | `BooksBalance` |
| | `EscrowsSettleOnce` | `EscrowSettlesOnce` |
| | `OffersFitMarkets` | `AnswersFitMarkets` |
| | `ProfilesStayWhole` | `ProfilesAreWhole` |

### From which assumptions

Each module's named `ASSUME`, which TLC evaluates on the runs: sets of which a
value must be chosen are not empty, the placeholders a proof tells apart (`NoUser`, `NoToken`, the
`Nothing` of the wallet) are not among what they stand for, durations and limits are naturals,
positive where the code has them so, `Stored` preserves order.  Sets of tasks, tokens and calls may be
infinite; the peers of the limiter may not (`LimiterAssumption`), because the
code counts them.  Three theorems about the escrow have the hypothesis
`~ForeignTokens`, that callers hand in the token of the payment they name or none; the
run `escrow_foreign` shows that `SettledMeansSpent` is false without it.

### Along which argument

None of these properties but the plainest is inductive.  What is added is in
the section "inductive invariant" at the end of each module (the conjunction for a
composition is in its proofs module), and was checked by TLC before it was proved.  Each proof has a lemma per action, or per kind of step, that the action keeps the
invariant, and a theorem per property that reads it off.

* `PaymentIntents`, `IInv`.  An answer is built from what a transaction returned
  some steps earlier.  A task in a transaction is alone on its row and what it
  read is still stored (`LockDiscipline`); a working task's actor is still entitled,
  because parties never change (`TasksEntitled`); an answer about to be sent
  describes the stored row if it is terminal, because no move leaves a terminal
  status (`AnswersCurrent`, lemma `TerminalIsFinal`); stored timestamps are not in
  the future (`StampsPast`); nothing was told of an id nobody has drawn
  (`UntoldUntilIssued`).  The action properties and the refinement follow from
  `IInv` and the same lemmas about the effect of a commit.  `PathsStayOpen` is about
  the closure of the table, given as the least set that no move leaves, so
  its proof names a path from each open status to each end (`EndsAreAhead`).
* `ProtectedMessages`, `MessagesIInv`.  The role was checked on an earlier read,
  and stays right because the parties of a message never change; a settled answer
  under way is what is stored; a settled message was settled by the party its status
  belongs to (`SettledByItsParty`), which with `OutcomesAreEntitled` for the intent gives
  `OppositesNeedBoth`.
* `Coordination`.  A step of the server is a step of one register and a stutter of the
  other (`StepIsMessageStep`, `StepIsIntentStep`), so the server is a behaviour of each and
  the theorems of `ProtectedMessagesProofs` and, through an instance, of
  `PaymentIntentsProofs` hold of it.  `LinksIInv` adds that what was validated for a message
  under way stays true until it is stored: an intent is never removed while
  the process lives, and a restart takes both stores and the request along.
* `CashuEscrow`, `RecordIInv` and `FundsIInv`.  A token is in one place: with the one
  call that creates its payment, in one entry of the map, or forgotten
  (`TokensInOnePlace`); a call is at the mint exactly while it holds the write lock.
  For callers without tokens of their own, a reply in hand is still true when it is
  recorded, although other wallets go on spending (`RepliesStayTrue`), and the locktime the
  map has is the one the mint locked the token with, also when an id is used again
  (`LocktimesAgree`), so a refund that passed the provider's check came late enough.  No
  hypothesis is needed about keys or refund keys.
* `Sessions`, `SessionsIInv`.  Between the revocation of a refresh token and the storing of
  its successor, the chain has no active token and no second exchange
  (`ExchangesAreAlone`).  An era of an account, which a logout or a reset begins, is
  confirmed only after it began (`ErasInOrder`), so a token handed out later is not counted among
  those it ended.  `AccountsAreDistinct` rests on the unique columns and the types alone.
  For `ChangesNeedTokens` the requests that hold a used reset token are counted against the used
  tokens, both finite in every reachable state (`CountsHold`).
* `RateRequests`, `RequestsIInv`.  The grants of a peer within the last window are at
  most one limit from before its present window and those its present window counts
  (`SplitAt`), which bounds them by two limits; a peer
  without a window was granted one limit at most, all of it in the past.
* `WalletInterface`, `WalletIInv`.  What mint and app know only moves forward (`Forward` in the
  proofs), so an answer that is true stays true; every proof set aside or in transit is claimed by
  exactly the calls that can take it back or store it, counted by cardinality
  (`FundsAreClaimed`).
* `Development`.  One invariant per part, none of which needs another: the parts share
  nothing but the process, and `EndProcess` takes each to its initial state, or, for
  the keys, to what the database has.  An intent of the escrow that is not settled is claimable
  or, expired, refundable (`UnsettledIsOpen`).  A lookup of keys is bounded from below by the pair its row
  had when it began, and no later pair of the row is older (`LookupsLookForward`).  The
  catalogue is proved by cases over the countries, its amounts by arithmetic for every amount.

### What is only model-checked

Liveness (`EveryReportFinishes`, `CallsFinish`): fairness and ENABLED are out of the
prover's reach.  The disagreements of section 3 are counterexamples and
have no theorem.  The inductive invariants themselves are no property of a run: they
are stated in the modules, and proved.

## 5. What is not promised, and what is not modelled

The code gives no order between a login or refresh in flight and a logout or
reset: its token may be stored after all others were revoked, and `Sessions`
has those behaviours; `ConfirmedEndsSessions` speaks of tokens clients held
before.  An access token stays valid for 15 minutes after a logout.  A username
may look like an e-mail address, and the unique columns do not compare the two.
A claim that finds its token spent is answered that the sender has refunded it,
without a check; the status does not follow that answer (`RefundedMeansRefunded`).

A slow fetch may overwrite the rate a later one stored; only the two windows are
promised (`AnswersWithinWindows`).

What the code does that a reader may not expect, and no document denies:

* A production process cannot start yet: the settings demand production providers
  and `AppState::try_new` refuses them (`NoMockServesProduction` rests on this).
* Outside production a process whose database fails goes on in memory.
* The two intent stores find different intents under one recipient name; lists,
  reports and links each match a recipient in their own way.
* A refund call signed with the recipient's key is paid and recorded as a refund, and
  a claim call may be made with the sender's: `RefundedMeansRefunded` says who asked for
  the redemption, not who holds the funds.
* A restart of the escrow provider forgets every payment; the locked tokens are left to
  whoever has a copy of them.
* `get_balance` of the mock Lightning provider, whose consistency `BooksBalance` is about,
  is served by no route; the provider and its trait have it.
* After the first call of the mobile wallet that fails, funds may stay set aside or in
  transit for good; `QuietMeansSettled` is about the time before.
* Bill quotes have no minimum and round small amounts to zero sats.
* `pay_invoice` of the mock pays one invoice as often as it is asked to.
* Three biller ids (`ng_ikedc`, `ug_nwsc`, `rw_wasac`) are quoted as airtime, receipts of
  bills and payouts have fixed contents whatever was quoted, an unknown `?service=`
  lists every biller, some services of a market have no biller, and Tanzania and the US list
  services no adapter offers, although `market.rs:43` calls the matrix "driven by provider
  capabilities"; `AnswersFitMarkets` goes the other way.
* The header names the out parameter of `check_token_state` `out_is_spent`; the code
  writes 0, 1 or 2 for unspent, pending and spent.  `LAST_ERROR` is not cleared by a success.

Not modelled:

Fees, and the balances of the escrow provider; formats of envelopes, keys and fingerprints, which
the server compares with nothing; access tokens, which are stateless; the mint bridge
(an HTTP client that keeps nothing and passes answers on); products, customer
validation and the fixed status answers of the sandbox, which decide nothing;
pointers, strings and the wording of errors in the wallet interface; domain value
types and the mapping of errors to HTTP; the schema beyond the uniqueness and the
timestamp precision it enforces; health endpoints, CORS, body limits and tracing.

## 6. Plan

In this order, the most important behaviour first; all of it is done.

1. `PaymentStatus`, `SettlementOutcome`, `PaymentIntents`, its instances and proofs.
2. `CashuEscrow` against an external mint.
3. `ProtectedMessages`, implementing `SettlementOutcome` as well.
4. `Sessions`: registration, login, refresh rotation, logout and password reset as
   the repository calls they are made of.
5. The way of a rate request: `RequestRateLimiter` in front of `RateService`, in one
   composed run.
6. `Coordination`: messages and intents composed by the link.
7. `WalletInterface`.
8. `Development`: startup and the parts that live in its process (`LightningMock`,
   `MockEscrow`, `PaymentKeys`, `SandboxMarkets`).
9. Proofs of every invariant, action property and refinement that the runs check.

Left: `SettlementOutcome` as the abstract specification of `MockEscrow`, and of the answers of
`CashuEscrow`, with the refinements proved.
