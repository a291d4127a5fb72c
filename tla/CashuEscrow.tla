----------------------------- MODULE CashuEscrow -----------------------------
(***************************************************************************)
(* CashuProtectedPaymentProvider                                           *)
(* (crates/hanbova-protected-payments/src/cashu.rs): payments locked at a  *)
(* Cashu mint under a recipient key and, after a locktime, a refund key.   *)
(*                                                                         *)
(* The provider keeps the payments it created in a map in memory; the mint *)
(* alone decides who gets the funds.  claim_payment and refund_payment hold *)
(* the write lock of the map while they wait for the mint.  A token can    *)
(* also be spent past the provider, from the wallet of its owner, the      *)
(* mint's answer can be lost after it acted, a call can be abandoned at    *)
(* every await, and the process may restart and forget the map.            *)
(*                                                                         *)
(* The mint is external: it is modelled by what the scenarios of           *)
(* cdk_test.rs rely on.                                                    *)
(***************************************************************************)
EXTENDS Naturals, PaymentStatus

CONSTANTS
  Payments,       \* payment ids; the caller may choose one, also one in use
  Tokens,         \* the tokens prepare_send/confirm may produce, each once
  NoRefundKey,    \* those of them a request without a refund key produces
  NoToken,        \* no token, no tracked payment
  Tasks,          \* calls the provider works on at the same time
  NoTask,         \* nobody holds the write lock
  Delays,         \* how far in the future senders put the locktime
  ForeignTokens,  \* TRUE: a caller may hand in the token of another payment
  Elsewhere,      \* the keys whose owners also spend with a wallet of their own
  Interrupted,    \* TRUE: calls are abandoned and the process restarts
  MaxTime         \* bound of the clock

ASSUME EscrowAssumption ==
  /\ Payments # {}
  /\ NoToken \notin Tokens
  /\ NoRefundKey \subseteq Tokens
  /\ NoTask \notin Tasks
  /\ Delays \subseteq Nat
  /\ Elsewhere \subseteq {"recipient", "sender", "other"}
  /\ ForeignTokens \in BOOLEAN /\ Interrupted \in BOOLEAN
  /\ MaxTime \in Nat

VARIABLES
  now,      \* unix time
  mint,     \* of a token at the mint: whether it is locked or which key opened it, its
            \* locktime, and (ghost) the operation that had it redeemed
  tracked,  \* the intents map: NoToken, or the status, token and locktime of a payment
  writer,   \* the task that holds the write lock of the map
  pc,       \* where a task is in its call
  call,     \* the call a task works on
  reply,    \* the mint's answer to it
  told      \* ghost: settled statuses answered about a token

vars == <<now, mint, tracked, writer, pc, call, reply, told>>

-------------------------------------------------------------------------------
(***************************************************************************)
(* Data.                                                                   *)
(***************************************************************************)
Keys == {"recipient", "sender", "other"}
Spent == Keys
Operations == {"create", "claim", "refund"}
Replies == {"none", "paid", "spent", "failed"}

\* A call is idle, has its funds being locked at the mint ("locking"), holds a
\* locked token ("confirmed"), is about to insert it ("inserting"), waits for the
\* write lock ("waiting"), for the mint ("at_mint"), or has its answer ("replied").
Steps == {"idle", "locking", "confirmed", "inserting", "waiting", "at_mint", "replied"}

\* The statuses the map ever holds between two calls.
TrackedStatuses == {"claimable", "claimed", "refunded"}

Funds == [at : {"unissued", "locked"} \cup Spent, locktime : Nat,
          by : Operations \cup {"nobody", "elsewhere"}]
Tracked == [status : TrackedStatuses, token : Tokens, locktime : Nat]
Call == [op : Operations, payment : Payments, token : Tokens \cup {NoToken}, locktime : Nat]

IsTracked(p) == tracked[p].token # NoToken

NoPayment == [status |-> "claimable", token |-> NoToken, locktime |-> 0]
NoCall == [op |-> "create", payment |-> CHOOSE p \in Payments : TRUE, token |-> NoToken,
           locktime |-> 0]

\* Mutant: the status is assigned without asking the lifecycle table.
Assigned(from, to) == to

\* PaymentIntent::update_status with its error ignored or returned: an illegal
\* move leaves the status as it is.
Moved(from, to) == IF CanTransitionTo(from, to) THEN to ELSE from

SetStatus(p, s) == tracked' = [tracked EXCEPT ![p].status = s]

\* NUT-11 as cdk_test.rs uses it: the recipient's key opens a locked token at any
\* time, the refund key once the locktime lies in the past; a token that was locked
\* without a refund key opens to every key from then on.
Opens(key, tok) ==
  /\ mint[tok].at = "locked"
  /\ \/ key = "recipient"
     \/ /\ now > mint[tok].locktime
        /\ key = "sender" \/ tok \in NoRefundKey

\* The mint swaps the token for whoever holds the key.
Redeemed(tok, key, by) == mint' = [mint EXCEPT ![tok].at = key, ![tok].by = by]

Init ==
  /\ now = 0
  /\ mint = [k \in Tokens |-> [at |-> "unissued", locktime |-> 0, by |-> "nobody"]]
  /\ tracked = [p \in Payments |-> NoPayment]
  /\ writer = NoTask
  /\ pc = [t \in Tasks |-> "idle"]
  /\ call = [t \in Tasks |-> NoCall]
  /\ reply = [t \in Tasks |-> "none"]
  /\ told = [k \in Tokens |-> {}]

\* A call returns; the guard of the write lock, if it holds it, goes with it.
Finish(t) ==
  /\ pc' = [pc EXCEPT ![t] = "idle"]
  /\ call' = [call EXCEPT ![t] = NoCall]
  /\ reply' = [reply EXCEPT ![t] = "none"]
  /\ writer' = IF writer = t THEN NoTask ELSE writer

-------------------------------------------------------------------------------
(***************************************************************************)
(* create_protected_payment.                                               *)
(***************************************************************************)

\* The mint supports NUT-11, keys and locktime are valid: prepare_send starts.  Which
\* token comes of it tells whether the request names a refund key.
StartCreate(t, p, delay) ==
  /\ pc[t] = "idle"
  /\ delay > 0
  /\ pc' = [pc EXCEPT ![t] = "locking"]
  /\ call' = [call EXCEPT ![t] = [NoCall EXCEPT !.payment = p, !.locktime = now + delay]]
  /\ UNCHANGED <<now, mint, tracked, writer, reply, told>>

\* confirm: the wallet's proofs are swapped for locked ones.
ConfirmSend(t, tok) ==
  /\ pc[t] = "locking"
  /\ mint[tok].at = "unissued"
  /\ mint' = [mint EXCEPT ![tok] = [at |-> "locked", locktime |-> call[t].locktime,
                                     by |-> "nobody"]]
  /\ pc' = [pc EXCEPT ![t] = "confirmed"]
  /\ call' = [call EXCEPT ![t].token = tok]
  /\ UNCHANGED <<now, tracked, writer, reply, told>>

\* The mint is unreachable or the wallet has too little.
FailSend(t) ==
  /\ pc[t] = "locking"
  /\ Finish(t)
  /\ UNCHANGED <<now, mint, tracked, told>>

\* PaymentIntent::new accepts the request: its recipient and amount are filled in, which
\* nothing looked at so far (filledIn), and its expiry lies in the future.  Created ->
\* Protected -> Claimable.
BuildIntent(t, filledIn) ==
  /\ pc[t] = "confirmed"
  /\ filledIn /\ call[t].locktime > now
  /\ pc' = [pc EXCEPT ![t] = "inserting"]
  /\ UNCHANGED <<now, mint, tracked, writer, call, reply, told>>

\* PaymentIntent::new refuses an empty recipient, a zero amount or an expiry that
\* passed in the meantime, and with the error the token is dropped.
RefuseIntent(t, filledIn) ==
  /\ pc[t] = "confirmed"
  /\ ~filledIn \/ call[t].locktime <= now
  /\ Finish(t)
  /\ UNCHANGED <<now, mint, tracked, told>>

\* Mutant: the payment is inserted before its second status update.
InsertProtected(t) ==
  /\ pc[t] = "inserting"
  /\ writer = NoTask
  /\ tracked' = [tracked EXCEPT ![call[t].payment] =
       [status |-> "protected", token |-> call[t].token, locktime |-> call[t].locktime]]
  /\ Finish(t)
  /\ UNCHANGED <<now, mint, told>>

\* The insert replaces whatever the map held under this id.
InsertIntent(t) ==
  /\ pc[t] = "inserting"
  /\ writer = NoTask
  /\ tracked' = [tracked EXCEPT ![call[t].payment] =
       [status |-> "claimable", token |-> call[t].token, locktime |-> call[t].locktime]]
  /\ Finish(t)
  /\ UNCHANGED <<now, mint, told>>

-------------------------------------------------------------------------------
(***************************************************************************)
(* claim_payment and refund_payment.                                       *)
(***************************************************************************)

\* tok is the token the caller hands in, NoToken if it hands in none.
StartSettle(t, op, p, tok) ==
  /\ pc[t] = "idle"
  /\ pc' = [pc EXCEPT ![t] = "waiting"]
  /\ call' = [call EXCEPT ![t] = [NoCall EXCEPT !.op = op, !.payment = p, !.token = tok]]
  /\ UNCHANGED <<now, mint, tracked, writer, reply, told>>

\* The provider's own check: no refund before the locktime.
TooEarly(t) == call[t].op = "refund" /\ now < tracked[call[t].payment].locktime

\* The write lock is free, the payment unknown or not yet refundable.
RefuseSettle(t) ==
  /\ pc[t] = "waiting"
  /\ writer = NoTask
  /\ ~IsTracked(call[t].payment) \/ TooEarly(t)
  /\ Finish(t)
  /\ UNCHANGED <<now, mint, tracked, told>>

\* Mutant: the lock is released before the wallet asks the mint.
AskMintUnlocked(t) ==
  /\ pc[t] = "waiting"
  /\ writer = NoTask
  /\ IsTracked(call[t].payment) /\ ~TooEarly(t)
  /\ pc' = [pc EXCEPT ![t] = "at_mint"]
  /\ call' = [call EXCEPT ![t].token = IF @ = NoToken THEN tracked[call[t].payment].token ELSE @]
  /\ UNCHANGED <<now, mint, tracked, writer, reply, told>>

\* wallet.receive, under the write lock, with the token of the request or, if it
\* has none, the tracked one.
AskMint(t) ==
  /\ pc[t] = "waiting"
  /\ writer = NoTask
  /\ IsTracked(call[t].payment) /\ ~TooEarly(t)
  /\ writer' = t
  /\ pc' = [pc EXCEPT ![t] = "at_mint"]
  /\ call' = [call EXCEPT ![t].token = IF @ = NoToken THEN tracked[call[t].payment].token ELSE @]
  /\ UNCHANGED <<now, mint, tracked, reply, told>>

\* The mint swaps the token, or refuses a spent one or a key that does not open it.  The
\* private key of the request may be anybody's: neither call compares it with the
\* payment, only the mint looks at it.
MintAnswers(t, key) ==
  /\ pc[t] = "at_mint"
  /\ pc' = [pc EXCEPT ![t] = "replied"]
  /\ IF Opens(key, call[t].token)
     THEN /\ Redeemed(call[t].token, key, call[t].op)
          /\ reply' = [reply EXCEPT ![t] = "paid"]
     ELSE /\ reply' = [reply EXCEPT ![t] = IF mint[call[t].token].at \in Spent
                                           THEN "spent" ELSE "failed"]
          /\ UNCHANGED mint
  /\ UNCHANGED <<now, tracked, writer, call, told>>

\* The request never reaches the mint, or the wallet refuses it: the key or the token
\* does not parse.
MintUnreachable(t) ==
  /\ pc[t] = "at_mint"
  /\ pc' = [pc EXCEPT ![t] = "replied"]
  /\ reply' = [reply EXCEPT ![t] = "failed"]
  /\ UNCHANGED <<now, mint, tracked, writer, call, told>>

\* The mint acted, but its answer is lost.
LoseAnswer(t) ==
  /\ pc[t] = "replied"
  /\ reply[t] \in {"paid", "spent"}
  /\ reply' = [reply EXCEPT ![t] = "failed"]
  /\ UNCHANGED <<now, mint, tracked, writer, pc, call, told>>

\* receive returned an amount: Claimed, or RefundAvailable and Refunded; the
\* receipt tells the status, an illegal last move is an error that tells none.
RecordPaid(t) ==
  LET p == call[t].payment
      s == tracked[p].status
      wanted == IF call[t].op = "claim" THEN "claimed" ELSE "refunded"
      to == IF call[t].op = "claim" THEN Moved(s, "claimed")
            ELSE Moved(Moved(s, "refund_available"), "refunded")
  IN  /\ pc[t] = "replied" /\ reply[t] = "paid"
      /\ SetStatus(p, to)
      /\ told' = IF to = wanted
                 THEN [told EXCEPT ![tracked[p].token] = @ \cup {to}] ELSE told
      /\ Finish(t)
      /\ UNCHANGED <<now, mint>>

\* receive says already spent: the other party is taken for the spender.
RecordSpent(t) ==
  LET p == call[t].payment
      other == IF call[t].op = "claim" THEN "refunded" ELSE "claimed"
  IN  /\ pc[t] = "replied" /\ reply[t] = "spent"
      /\ SetStatus(p, Moved(tracked[p].status, other))
      /\ Finish(t)
      /\ UNCHANGED <<now, mint, told>>

\* Mutant: every error of receive is taken for a spent token.
RecordAnyError(t) ==
  LET p == call[t].payment
      other == IF call[t].op = "claim" THEN "refunded" ELSE "claimed"
  IN  /\ pc[t] = "replied" /\ reply[t] = "failed"
      /\ SetStatus(p, Moved(tracked[p].status, other))
      /\ Finish(t)
      /\ UNCHANGED <<now, mint, told>>

\* Mutant: the error return leaves the lock taken.
FailLocked(t) ==
  /\ pc[t] = "replied" /\ reply[t] = "failed"
  /\ pc' = [pc EXCEPT ![t] = "idle"]
  /\ call' = [call EXCEPT ![t] = NoCall]
  /\ reply' = [reply EXCEPT ![t] = "none"]
  /\ UNCHANGED <<now, mint, tracked, writer, told>>

\* receive failed otherwise: nothing changes.
RecordFailed(t) ==
  /\ pc[t] = "replied" /\ reply[t] = "failed"
  /\ Finish(t)
  /\ UNCHANGED <<now, mint, tracked, told>>

-------------------------------------------------------------------------------
(***************************************************************************)
(* Status queries, the owners' wallets, the process and the clock.         *)
(***************************************************************************)

\* get_payment_status: the status, but RefundAvailable for a Claimable payment
\* whose locktime has come.
Status(p) ==
  IF tracked[p].status = "claimable" /\ now >= tracked[p].locktime
  THEN "refund_available" ELSE tracked[p].status

GetStatus(p) ==
  /\ writer = NoTask
  /\ IsTracked(p)
  /\ told' = IF Status(p) \in Terminal
             THEN [told EXCEPT ![tracked[p].token] = @ \cup {Status(p)}] ELSE told
  /\ UNCHANGED <<now, mint, tracked, writer, pc, call, reply>>

\* A wallet that holds the token and a key spends it at the mint directly.
SpendElsewhere(tok, key) ==
  /\ Opens(key, tok)
  /\ Redeemed(tok, key, "elsewhere")
  /\ UNCHANGED <<now, tracked, writer, pc, call, reply, told>>

\* The future of a call is dropped while it waits.
AbandonCall(t) ==
  /\ Interrupted
  /\ pc[t] # "idle"
  /\ Finish(t)
  /\ UNCHANGED <<now, mint, tracked, told>>

\* The map lives in memory only.
Restart ==
  /\ Interrupted
  /\ tracked' = [p \in Payments |-> NoPayment]
  /\ writer' = NoTask
  /\ pc' = [t \in Tasks |-> "idle"]
  /\ call' = [t \in Tasks |-> NoCall]
  /\ reply' = [t \in Tasks |-> "none"]
  /\ UNCHANGED <<now, mint, told>>

Tick ==
  /\ now < MaxTime
  /\ now' = now + 1
  /\ UNCHANGED <<mint, tracked, writer, pc, call, reply, told>>

\* The tokens a caller can hand in: with ForeignTokens any that was issued.
HandedIn == {NoToken} \cup {k \in Tokens : ForeignTokens /\ mint[k].at # "unissued"}

TaskStep(t) ==
  \/ \E tok \in Tokens : ConfirmSend(t, tok)
  \/ FailSend(t)
  \/ \E filledIn \in BOOLEAN : BuildIntent(t, filledIn) \/ RefuseIntent(t, filledIn)
  \/ InsertIntent(t)
  \/ RefuseSettle(t)
  \/ AskMint(t)
  \/ \E key \in Keys : MintAnswers(t, key)
  \/ MintUnreachable(t)
  \/ RecordPaid(t)
  \/ RecordSpent(t)
  \/ RecordFailed(t)

Next ==
  \/ \E t \in Tasks, p \in Payments, d \in Delays : StartCreate(t, p, d)
  \/ \E t \in Tasks, op \in {"claim", "refund"}, p \in Payments, tok \in HandedIn :
       StartSettle(t, op, p, tok)
  \/ \E t \in Tasks : TaskStep(t) \/ LoseAnswer(t) \/ AbandonCall(t)
  \/ \E p \in Payments : GetStatus(p)
  \/ \E tok \in Tokens, key \in Elsewhere : SpendElsewhere(tok, key)
  \/ Restart
  \/ Tick

Spec == Init /\ [][Next]_vars

\* The runtime polls every ready call, the mint answers or the connection fails,
\* and tokio's RwLock serves its waiters in turn.
Fairness ==
  \A t \in Tasks :
    WF_vars(TaskStep(t)) /\ SF_vars(InsertIntent(t) \/ RefuseSettle(t) \/ AskMint(t))

FairSpec == Spec /\ Fairness

-------------------------------------------------------------------------------
(***************************************************************************)
(* Properties.                                                             *)
(***************************************************************************)

\* A refund call had the mint swap the token, its locktime reached.
WasRefunded(k) == mint[k].by = "refund" /\ now >= mint[k].locktime

\* Every variable has its type; between two calls a tracked payment is claimable,
\* claimed or refunded and nothing else.
TypeOK ==
  /\ now \in 0..MaxTime
  /\ mint \in [Tokens -> Funds]
  /\ tracked \in [Payments -> Tracked \cup {NoPayment}]
  /\ writer \in Tasks \cup {NoTask}
  /\ pc \in [Tasks -> Steps]
  /\ call \in [Tasks -> Call]
  /\ reply \in [Tasks -> Replies]
  /\ told \in [Tokens -> SUBSET {"claimed", "refunded"}]

\* A payment is recorded or reported as settled only if its token is spent at the
\* mint: the provider never closes a payment whose funds are still locked.
SettledMeansSpent ==
  /\ \A p \in Payments :
       IsTracked(p) /\ tracked[p].status \in Terminal => mint[tracked[p].token].at \in Spent
  /\ \A k \in Tokens : told[k] # {} => mint[k].at \in Spent

\* A payment is recorded or reported as refunded only if a refund call of the provider
\* redeemed its token, and not before the locktime: claim_payment tries to record a
\* refund for every token it finds spent, the recipient's key would open the token for
\* a refund at any time, and an id may be created again with a later locktime.
RefundedMeansRefunded ==
  /\ \A p \in Payments :
       IsTracked(p) /\ tracked[p].status = "refunded" => WasRefunded(tracked[p].token)
  /\ \A k \in Tokens : "refunded" \in told[k] => WasRefunded(k)

\* The receipts and status answers about one token never name two outcomes, over
\* retries, lost answers, overwritten ids and restarts.
AnswersAgree == \A k \in Tokens : \A a, b \in told[k] : a = b

\* When the mint has paid a call, the payment it settles is still there, still
\* claimable and still has that token, so the move that follows is recorded and
\* the caller is not left with an error after the funds moved.
PaidIsRecordable ==
  \A t \in Tasks :
    pc[t] = "replied" /\ reply[t] = "paid"
      => LET p == call[t].payment
         IN  /\ tracked[p].token = call[t].token
             /\ tracked[p].status = "claimable"

\* Every call ends, although claims and refunds keep the write lock while they
\* wait for the mint.
CallsFinish == \A t \in Tasks : pc[t] # "idle" ~> pc[t] = "idle"

\* payment_status.rs: Claimed means "Recipient has successfully claimed and
\* swapped proofs at the mint": a payment whose token a refund call redeemed with the
\* sender's key is not recorded as claimed.
ClaimedMeansClaimed ==
  \A p \in Payments :
    IsTracked(p) /\ tracked[p].status = "claimed"
      => LET funds == mint[tracked[p].token]
         IN  ~(funds.by = "refund" /\ funds.at = "sender")

\* payment_status.rs: the sender creates locked proofs and "Status becomes
\* Protected / Claimable": a locked token belongs to a payment the provider
\* tracks, or to a call that is creating it.
LockedMeansTracked ==
  \A k \in Tokens :
    mint[k].at = "locked"
      => \/ \E p \in Payments : tracked[p].token = k
         \/ \E t \in Tasks : call[t].op = "create" /\ call[t].token = k

-------------------------------------------------------------------------------
(***************************************************************************)
(* The inductive invariants of the proofs: of the record for any callers,   *)
(* of the record and the mint for callers that hand in no token.           *)
(***************************************************************************)

\* A call is at the mint exactly while it holds the write lock, and the payment it
\* settles is in the map until it lets go.
LockDiscipline ==
  \A t \in Tasks : /\ pc[t] \in {"at_mint", "replied"} <=> writer = t
                   /\ writer = t => IsTracked(call[t].payment)

\* A call has its token when it starts to insert it, or to settle with it.
TokensInHand ==
  \A t \in Tasks :
    pc[t] \in {"confirmed", "inserting", "at_mint", "replied"} => call[t].token \in Tokens

Holds(t, k) == pc[t] \in {"confirmed", "inserting"} /\ call[t].token = k

\* A token is issued before anybody holds it, and it is in one place: with the one
\* call that creates its payment, in one entry of the map, or forgotten.
TokensInOnePlace ==
  /\ \A t \in Tasks, k \in Tokens :
       Holds(t, k) => /\ mint[k].at # "unissued"
                      /\ told[k] = {}
                      /\ \A p \in Payments : tracked[p].token # k
                      /\ \A u \in Tasks \ {t} : ~Holds(u, k)
  /\ \A p \in Payments :
       IsTracked(p) => /\ mint[tracked[p].token].at # "unissued"
                       /\ \A q \in Payments \ {p} : tracked[q].token # tracked[p].token
  /\ \A k \in Tokens : told[k] # {} => mint[k].at # "unissued"

\* What was answered about the token of a payment in the map is its status.
AnswersAreRecorded ==
  \A p \in Payments : IsTracked(p) => told[tracked[p].token] \subseteq {tracked[p].status}

RecordIInv ==
  /\ TypeOK
  /\ LockDiscipline
  /\ TokensInHand
  /\ TokensInOnePlace
  /\ AnswersAreRecorded
  /\ AnswersAgree

\* The token that goes to the mint is the one the map has for the payment, and a
\* refund goes there only once the locktime of the payment has come.
CallsUseOwnToken ==
  \A t \in Tasks :
    /\ pc[t] = "waiting" => call[t].token = NoToken
    /\ pc[t] \in {"waiting", "at_mint", "replied"} => call[t].op \in {"claim", "refund"}
    /\ writer = t => /\ call[t].token = tracked[call[t].payment].token
                     /\ call[t].op = "refund" => now >= tracked[call[t].payment].locktime

\* The locktime in the map, and in a call about to insert it, is the one the mint
\* locked the token with.
LocktimesAgree ==
  /\ \A p \in Payments : IsTracked(p) => tracked[p].locktime = mint[tracked[p].token].locktime
  /\ \A t \in Tasks, k \in Tokens : Holds(t, k) => call[t].locktime = mint[k].locktime

\* The mint's answer stays true while its receiver holds the lock: the funds went to
\* the call, and the payment has not been settled meanwhile.
RepliesStayTrue ==
  \A t \in Tasks :
    pc[t] = "replied"
      => /\ reply[t] = "paid" => /\ mint[call[t].token].at \in Spent
                                 /\ mint[call[t].token].by = call[t].op
                                 /\ tracked[call[t].payment].status = "claimable"
         /\ reply[t] = "spent" => mint[call[t].token].at \in Spent

FundsIInv ==
  /\ RecordIInv
  /\ CallsUseOwnToken
  /\ LocktimesAgree
  /\ RepliesStayTrue
  /\ SettledMeansSpent
  /\ RefundedMeansRefunded
==============================================================================
