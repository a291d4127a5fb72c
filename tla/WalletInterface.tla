---------------------------- MODULE WalletInterface ----------------------------
(***************************************************************************)
(* The C interface of the mobile wallet, hanbova-cdk-ffi/src/lib.rs: the   *)
(* threads of an app call one wallet handle.  Every function checks its    *)
(* arguments, runs one or several operations of the cdk wallet to their    *)
(* end, and returns 0 with its out parameters written, or a code and a     *)
(* message in a slot of the calling thread.  The cdk wallet and the mint   *)
(* are external; either may fail at any point of a call, and the app may   *)
(* be killed.                                                              *)
(*                                                                         *)
(* Funds are counted in proofs: a quote, a payment and a token are two.    *)
(***************************************************************************)
EXTENDS Naturals, FiniteSets

CONSTANTS
  Threads,  \* threads of the app
  Quotes,   \* mint quotes
  Melts,    \* melt quotes
  Tokens,   \* locked tokens the wallet may make
  Nothing   \* no call, no item, no output

ASSUME WalletAssumption == Threads # {} /\ Nothing \notin Quotes \cup Melts \cup Tokens

VARIABLES
  handle,     \* "none" or "open": the CdkWalletHandle of the app
  thread,     \* call, return value and out parameter of a thread, and whether
              \* its LAST_ERROR holds a message
  quote,      \* mint: the state of a mint quote
  melt,       \* mint: the state of a melt quote
  proofs,     \* mint: the states of the two proofs of a token
  spendable,  \* wallet: total_balance
  reserved,   \* wallet: set aside for a send or a payment
  transit,    \* signed by the mint, not yet in the wallet
  app,        \* the tokens the app has been handed
  trouble     \* ghost: some call failed, left a payment unpaid, or was killed

vars == <<handle, thread, quote, melt, proofs, spendable, reserved, transit, app, trouble>>
funds == <<quote, melt, proofs, spendable, reserved, transit, app>>

-------------------------------------------------------------------------------
Operations == {"create", "balance", "mint_quote", "check_quote", "mint", "melt_quote", "melt",
               "send", "receive", "check_token"}
Steps == {"idle", "called", "prepared", "confirmed", "counting", "returned"}
Items == Quotes \cup Melts \cup Tokens \cup {Nothing}
ProofIds == {1, 2}
ProofStates == {"none", "unspent", "pending", "spent"}
QuoteStates == {"none", "unpaid", "paid", "issued"}
MeltStates == {"none", "unpaid", "pending", "paid"}
Outputs == {"unspent", "pending", "spent", "unknown", "PAID", "OTHER", "done"} \cup {Nothing}

IdleThread == [pc |-> "idle", op |-> Nothing, item |-> Nothing, code |-> 0, out |-> Nothing,
               error |-> FALSE]

Init ==
  /\ handle = "none"
  /\ thread = [t \in Threads |-> IdleThread]
  /\ quote = [q \in Quotes |-> "none"]
  /\ melt = [m \in Melts |-> "none"]
  /\ proofs = [k \in Tokens |-> [p \in ProofIds |-> "none"]]
  /\ spendable = 0 /\ reserved = 0 /\ transit = 0
  /\ app = {}
  /\ trouble = FALSE

Free(t) == thread[t].pc \in {"idle", "returned"}
At(t, op, pc) == thread[t].op = op /\ thread[t].pc = pc
Goto(t, pc) == thread' = [thread EXCEPT ![t].pc = pc]

\* The function returns 0 with out written; LAST_ERROR keeps what it had.
ReturnItem(t, x, out) ==
  /\ thread' = [thread EXCEPT ![t].pc = "returned", ![t].item = x, ![t].code = 0,
                  ![t].out = out]
  /\ UNCHANGED handle
Return(t, out) == ReturnItem(t, thread[t].item, out)

\* set_last_error on the calling thread, and a code; the out parameters are not
\* written.  Which function failed is left out.
ReturnError(t) ==
  /\ thread' = [thread EXCEPT ![t] =
       [pc |-> "returned", op |-> Nothing, item |-> Nothing, code |-> 1, out |-> Nothing,
        error |-> TRUE]]
  /\ trouble' = TRUE

-------------------------------------------------------------------------------
(***************************************************************************)
(* The handle.                                                             *)
(***************************************************************************)

\* hanbova_cdk_wallet_create: runtime, database and wallet are there.
CreateWallet(t) ==
  /\ Free(t) /\ handle = "none"
  /\ handle' = "open"
  /\ thread' = [thread EXCEPT ![t].pc = "returned", ![t].op = "create", ![t].item = Nothing,
                  ![t].code = 0, ![t].out = "done"]
  /\ UNCHANGED <<funds, trouble>>

\* One of its nine error returns: no handle is written.
RefuseCreate(t) ==
  /\ Free(t) /\ handle = "none"
  /\ ReturnError(t)
  /\ UNCHANGED <<handle, funds>>

\* hanbova_cdk_wallet_free; an app frees a handle no thread is using.
FreeWallet ==
  /\ handle = "open"
  /\ \A t \in Threads : Free(t)
  /\ handle' = "none"
  /\ UNCHANGED <<thread, funds, trouble>>

\* The app process dies: its threads and their slots go, the wallet database and
\* the tokens the app has saved stay.
Kill ==
  /\ handle' = "none"
  /\ thread' = [t \in Threads |-> IdleThread]
  /\ trouble' = TRUE
  /\ UNCHANGED funds

-------------------------------------------------------------------------------
(***************************************************************************)
(* Calls.                                                                  *)
(***************************************************************************)

\* What a call of op may be about: quotes and payments the app has asked for,
\* tokens it holds.
Suits(op, x) ==
  CASE op \in {"balance", "mint_quote", "melt_quote", "send"} -> x = Nothing
    [] op \in {"check_quote", "mint"}  -> x \in Quotes /\ quote[x] # "none"
    [] op = "melt"                     -> x \in Melts /\ melt[x] # "none"
    [] op \in {"receive", "check_token"} -> x \in app

\* The arguments are accepted.
Call(t, op, x) ==
  /\ Free(t) /\ handle = "open"
  /\ op # "create" /\ Suits(op, x)
  /\ thread' = [thread EXCEPT ![t].pc = "called", ![t].op = op, ![t].item = x,
                  ![t].code = 0, ![t].out = Nothing]
  /\ UNCHANGED <<handle, funds, trouble>>

\* A null pointer, text that is not UTF-8, an invalid key, conditions the library
\* rejects: the function returns before it touches the wallet.
RefuseArguments(t) ==
  /\ Free(t)
  /\ ReturnError(t)
  /\ UNCHANGED <<handle, funds>>

\* An await of the call fails: the mint refuses or cannot be reached, its answer
\* is lost, or the database fails.  What was set aside may stay set aside.
FailCall(t) ==
  /\ ~Free(t)
  /\ ReturnError(t)
  /\ \/ UNCHANGED funds
     \/ /\ thread[t].pc = "prepared"
        /\ spendable' = spendable + 2 /\ reserved' = reserved - 2
        /\ UNCHANGED <<quote, melt, proofs, transit, app>>
  /\ UNCHANGED handle

\* get_balance: total_balance, then total_pending_balance; other threads may
\* move funds in between.
ReadSpendable(t) ==
  /\ At(t, "balance", "called") /\ Goto(t, "counting")
  /\ UNCHANGED <<handle, funds, trouble>>
ReadPending(t) ==
  /\ At(t, "balance", "counting") /\ Return(t, "done")
  /\ UNCHANGED <<funds, trouble>>

\* mint_quote: the mint makes a new quote.
CreateQuote(t, q) ==
  /\ At(t, "mint_quote", "called") /\ quote[q] = "none"
  /\ quote' = [quote EXCEPT ![q] = "unpaid"]
  /\ ReturnItem(t, q, "done")
  /\ UNCHANGED <<melt, proofs, spendable, reserved, transit, app, trouble>>

\* check_mint_quote_status: out_paid is set for a paid quote only, not for an
\* issued one.
CheckQuote(t) ==
  /\ At(t, "check_quote", "called")
  /\ Return(t, IF quote[thread[t].item] = "paid" THEN "PAID" ELSE "OTHER")
  /\ UNCHANGED <<funds, trouble>>

\* mint: the mint signs the proofs of a paid quote, the wallet stores them.
IssueProofs(t) ==
  /\ At(t, "mint", "called") /\ quote[thread[t].item] = "paid"
  /\ quote' = [quote EXCEPT ![thread[t].item] = "issued"]
  /\ transit' = transit + 2
  /\ Goto(t, "confirmed")
  /\ UNCHANGED <<handle, melt, proofs, spendable, reserved, app, trouble>>

\* receive_p2pk: the mint swaps the proofs of a token, all or none.
RedeemToken(t) ==
  /\ At(t, "receive", "called")
  /\ \A p \in ProofIds : proofs[thread[t].item][p] = "unspent"
  /\ proofs' = [proofs EXCEPT ![thread[t].item] = [p \in ProofIds |-> "spent"]]
  /\ transit' = transit + 2
  /\ Goto(t, "confirmed")
  /\ UNCHANGED <<handle, quote, melt, spendable, reserved, app, trouble>>

\* The new proofs are in the wallet; mint and receive_p2pk return their sum.
StoreProofs(t) ==
  /\ At(t, "mint", "confirmed") \/ At(t, "receive", "confirmed")
  /\ transit' = transit - 2 /\ spendable' = spendable + 2
  /\ Return(t, "done")
  /\ UNCHANGED <<quote, melt, proofs, reserved, app, trouble>>

\* melt_quote: the mint makes a new quote of the payment.
QuotePayment(t, m) ==
  /\ At(t, "melt_quote", "called") /\ melt[m] = "none"
  /\ melt' = [melt EXCEPT ![m] = "unpaid"]
  /\ ReturnItem(t, m, "done")
  /\ UNCHANGED <<quote, proofs, spendable, reserved, transit, app, trouble>>

\* Mutant: the funds are set aside without a look at what is there.
PrepareUnfunded(t) ==
  /\ At(t, "send", "called") \/ (At(t, "melt", "called") /\ melt[thread[t].item] = "unpaid")
  /\ spendable' = spendable - 2 /\ reserved' = reserved + 2
  /\ Goto(t, "prepared")
  /\ UNCHANGED <<handle, quote, melt, proofs, transit, app, trouble>>

\* prepare_send and prepare_melt set the funds aside.
Prepare(t) ==
  /\ At(t, "send", "called") \/ (At(t, "melt", "called") /\ melt[thread[t].item] = "unpaid")
  /\ spendable >= 2
  /\ spendable' = spendable - 2 /\ reserved' = reserved + 2
  /\ Goto(t, "prepared")
  /\ UNCHANGED <<handle, quote, melt, proofs, transit, app, trouble>>

\* out_paid: 1 if the finalized state is Paid, 0 for every other.
MeltAnswer(state) == IF state = "paid" THEN "PAID" ELSE "OTHER"

\* melt: the mint takes the quote once, and has paid the invoice or has not yet.
ConfirmMelt(t) ==
  /\ At(t, "melt", "prepared") /\ melt[thread[t].item] = "unpaid"
  /\ \E state \in {"paid", "pending"} :
       /\ melt' = [melt EXCEPT ![thread[t].item] = state]
       /\ thread' = [thread EXCEPT ![t].pc = "confirmed", ![t].out = MeltAnswer(state)]
  /\ UNCHANGED <<handle, quote, proofs, spendable, reserved, transit, app, trouble>>

\* The answer of the mint arrives; a pending payment keeps its funds set aside.
AnswerMelt(t) ==
  /\ At(t, "melt", "confirmed") /\ Return(t, thread[t].out)
  /\ reserved' = IF thread[t].out = "PAID" THEN reserved - 2 ELSE reserved
  /\ trouble' = (trouble \/ thread[t].out # "PAID")
  /\ UNCHANGED <<quote, melt, proofs, spendable, transit, app>>

\* prepare_p2pk_send: the mint locks the proofs to the recipient.
ConfirmSend(t, k) ==
  /\ At(t, "send", "prepared")
  /\ \A p \in ProofIds : proofs[k][p] = "none"
  /\ proofs' = [proofs EXCEPT ![k] = [p \in ProofIds |-> "unspent"]]
  /\ reserved' = reserved - 2
  /\ thread' = [thread EXCEPT ![t].pc = "confirmed", ![t].item = k]
  /\ UNCHANGED <<handle, quote, melt, spendable, transit, app, trouble>>

\* Mutant: the out parameter is not written.
ForgetToken(t) ==
  /\ At(t, "send", "confirmed") /\ Return(t, "done")
  /\ UNCHANGED <<funds, trouble>>

\* The token is written to out_token.
HandToken(t) ==
  /\ At(t, "send", "confirmed") /\ Return(t, "done")
  /\ app' = app \cup {thread[t].item}
  /\ UNCHANGED <<quote, melt, proofs, spendable, reserved, transit, trouble>>

\* Mutant: one spent proof makes a token spent.
AnySpent(states) ==
  IF "spent" \in states THEN "spent"
  ELSE IF "pending" \in states THEN "pending"
  ELSE IF "unspent" \in states THEN "unspent" ELSE "unknown"

\* check_token_state: one unspent proof makes the token unspent, then one
\* pending proof makes it pending; no known state at all is -1, unknown.
TokenState(states) ==
  IF "unspent" \in states THEN "unspent"
  ELSE IF "pending" \in states THEN "pending"
  ELSE IF "spent" \in states THEN "spent" ELSE "unknown"

\* The mint answers the state of every proof; there is none if the text holds no
\* proofs or the mint answers states the interface does not know.
CheckToken(t) ==
  /\ At(t, "check_token", "called")
  /\ \E states \in {{proofs[thread[t].item][p] : p \in ProofIds}, {}} :
       Return(t, TokenState(states))
  /\ UNCHANGED <<funds, trouble>>

-------------------------------------------------------------------------------
(***************************************************************************)
(* Other parties.                                                          *)
(***************************************************************************)

\* Somebody pays the invoice of a mint quote.
PayInvoice(q) ==
  /\ quote[q] = "unpaid"
  /\ quote' = [quote EXCEPT ![q] = "paid"]
  /\ UNCHANGED <<handle, thread, melt, proofs, spendable, reserved, transit, app, trouble>>

\* The recipient's wallet uses proofs of a token in a swap or a payment; a payment
\* that fails gives its pending proofs back.
SpendElsewhere(k, p) ==
  /\ k \in app
  /\ \/ proofs[k][p] = "unspent" /\ proofs' = [proofs EXCEPT ![k][p] = "pending"]
     \/ proofs[k][p] = "pending" /\ proofs' = [proofs EXCEPT ![k][p] = "spent"]
     \/ proofs[k][p] = "pending" /\ proofs' = [proofs EXCEPT ![k][p] = "unspent"]
  /\ UNCHANGED <<handle, thread, quote, melt, spendable, reserved, transit, app, trouble>>

\* The mint learns how a pending payment ended; the wallet does not hear of it.
ResolveMelt(m) ==
  /\ melt[m] = "pending"
  /\ \E state \in {"paid", "unpaid"} : melt' = [melt EXCEPT ![m] = state]
  /\ UNCHANGED <<handle, thread, quote, proofs, spendable, reserved, transit, app, trouble>>

Next ==
  \/ \E t \in Threads : CreateWallet(t) \/ RefuseCreate(t) \/ RefuseArguments(t)
  \/ FreeWallet
  \/ Kill
  \/ \E t \in Threads, op \in Operations, x \in Items : Call(t, op, x)
  \/ \E t \in Threads : FailCall(t) \/ ReadSpendable(t) \/ ReadPending(t)
  \/ \E t \in Threads : CheckQuote(t) \/ IssueProofs(t)
  \/ \E t \in Threads : RedeemToken(t) \/ StoreProofs(t)
  \/ \E t \in Threads, q \in Quotes : CreateQuote(t, q)
  \/ \E t \in Threads, m \in Melts : QuotePayment(t, m)
  \/ \E t \in Threads : Prepare(t) \/ ConfirmMelt(t) \/ AnswerMelt(t)
  \/ \E t \in Threads, k \in Tokens : ConfirmSend(t, k)
  \/ \E t \in Threads : HandToken(t) \/ CheckToken(t)
  \/ \E q \in Quotes : PayInvoice(q)
  \/ \E m \in Melts : ResolveMelt(m)
  \/ \E k \in Tokens, p \in ProofIds : SpendElsewhere(k, p)

Spec == Init /\ [][Next]_vars

-------------------------------------------------------------------------------
(***************************************************************************)
(* Properties.                                                             *)
(***************************************************************************)

\* Every variable has its type; the wallet never spends what it does not have, a
\* failed call has left a message, no thread uses a handle that is gone.
TypeOK ==
  /\ handle \in {"none", "open"}
  /\ thread \in [Threads -> [pc : Steps, op : Operations \cup {Nothing}, item : Items,
                             code : {0, 1}, out : Outputs,
                             error : BOOLEAN]]
  /\ quote \in [Quotes -> QuoteStates]
  /\ melt \in [Melts -> MeltStates]
  /\ proofs \in [Tokens -> [ProofIds -> ProofStates]]
  /\ spendable \in Nat /\ reserved \in Nat /\ transit \in Nat
  /\ app \subseteq Tokens
  /\ trouble \in BOOLEAN
  /\ \A t \in Threads : thread[t].code = 1 => thread[t].error
  /\ handle = "none" => \A t \in Threads : Free(t)

\* What the return value 0 of a thread says.
ReturnIsTrue(t) ==
  LET c == thread[t] IN
  c.pc = "returned" /\ c.code = 0
    => CASE c.op = "mint"        -> quote[c.item] = "issued"
         [] c.op = "check_quote" -> c.out = "PAID" => quote[c.item] \in {"paid", "issued"}
         [] c.op = "melt"        -> c.out = "PAID" => melt[c.item] = "paid"
         [] c.op = "send"        -> c.item \in app
         [] c.op = "receive"     -> \A p \in ProofIds : proofs[c.item][p] = "spent"
         [] c.op = "check_token" ->
              c.out = "spent" => \A p \in ProofIds : proofs[c.item][p] = "spent"
         [] OTHER                -> TRUE

\* A return value of 0 is true, and stays true while other threads and wallets go
\* on: the funds of a mint or a receive are signed, a paid quote or payment is
\* paid at the mint, a token that was sent is in the app's hands, and a token
\* reported as spent is spent to its last proof, so no money is left in it.
SuccessIsTrue == \A t \in Threads : ReturnIsTrue(t)

\* Funds are only ever out of the app's sight after something went wrong that it
\* knows of: as long as every call has returned success and none is running,
\* nothing is set aside, nothing is between mint and wallet, and every token
\* that holds funds is in the app's hands.
QuietMeansSettled ==
  ~trouble /\ (\A t \in Threads : Free(t))
    => /\ reserved = 0 /\ transit = 0
       /\ \A k \in Tokens : proofs[k][1] # "none" => k \in app

-------------------------------------------------------------------------------
(***************************************************************************)
(* The inductive invariant behind the safety properties.                   *)
(***************************************************************************)

\* A call that runs, or has returned success, is about an item of its kind.
CallFits(t) ==
  LET c == thread[t] IN
  ~Free(t) \/ (c.pc = "returned" /\ c.code = 0)
    => /\ c.op \in {"check_quote", "mint"} => c.item \in Quotes
       /\ c.op = "melt" => c.item \in Melts
       /\ c.op \in {"receive", "check_token"} => c.item \in app
       /\ At(t, "send", "confirmed")
            => c.item \in Tokens /\ \A p \in ProofIds : proofs[c.item][p] # "none"

\* What the mint confirmed to a call that has not returned yet stays true.
ResultIsReal(t) ==
  LET c == thread[t] IN
  /\ At(t, "mint", "confirmed") => quote[c.item] = "issued"
  /\ At(t, "melt", "confirmed") /\ c.out = "PAID" => melt[c.item] = "paid"
  /\ At(t, "receive", "confirmed") => \A p \in ProofIds : proofs[c.item][p] = "spent"

\* A token exists at the mint before the app holds it; if nothing went wrong, the app
\* holds it or is about to be handed it.
TokensAreSeen ==
  /\ \A k \in app : \A p \in ProofIds : proofs[k][p] # "none"
  /\ ~trouble
       => \A k \in Tokens :
            proofs[k][1] # "none"
              => k \in app \/ \E t \in Threads : At(t, "send", "confirmed") /\ thread[t].item = k

\* The calls that have set funds aside, and those whose funds are in transit.
Reserving == {t \in Threads : thread[t].pc = "prepared" \/ At(t, "melt", "confirmed")}
Storing == {t \in Threads : At(t, "mint", "confirmed") \/ At(t, "receive", "confirmed")}

\* What a call may take back or store is there; if nothing went wrong, nothing else is.
FundsAreClaimed ==
  /\ IsFiniteSet(Reserving) /\ reserved >= 2 * Cardinality(Reserving)
  /\ IsFiniteSet(Storing) /\ transit >= 2 * Cardinality(Storing)
  /\ ~trouble => reserved = 2 * Cardinality(Reserving) /\ transit = 2 * Cardinality(Storing)

WalletIInv ==
  /\ TypeOK
  /\ \A t \in Threads : CallFits(t) /\ ResultIsReal(t) /\ ReturnIsTrue(t)
  /\ TokensAreSeen
  /\ FundsAreClaimed
==============================================================================
