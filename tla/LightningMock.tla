----------------------------- MODULE LightningMock -----------------------------
(***************************************************************************)
(* MockLightningProvider (crates/hanbova-lightning/src/mock.rs) behind     *)
(* services/api/src/routes/lightning.rs: invoices nobody settles, and      *)
(* payments of a fixed cost out of one balance.  A payment holds the lock  *)
(* of the balance while it waits for that of the payments; its request may *)
(* be dropped there.                                                       *)
(***************************************************************************)
EXTENDS Integers, FiniteSets

CONSTANTS
  Payers,          \* pay requests the provider works on at the same time
  InitialBalance,  \* 100,000 sat in AppState::new
  Cost,            \* amount and fee of every payment, 1,002 sat
  MaxInvoices      \* bound of the invoices created

ASSUME LightningAssumption ==
  InitialBalance \in Nat /\ Cost \in Nat \ {0} /\ MaxInvoices \in Nat

VARIABLES
  invoices,  \* how many invoices are stored; all of them stay unpaid
  balance,   \* balance_sats
  paying,    \* the request between the debit and the record, which holds the lock
  payments,  \* how many payments are stored
  dropped,   \* ghost: how many were debited and never recorded
  seen       \* ghost: the balance last answered, and what had been paid by then

lightningVars == <<invoices, balance, paying, payments, dropped, seen>>

LightningInit ==
  /\ invoices = 0 /\ balance = InitialBalance /\ paying = {}
  /\ payments = 0 /\ dropped = 0
  /\ seen = [balance |-> InitialBalance, spent |-> 0]

Locked == paying # {}

\* create_invoice, for an amount the route accepts.
CreateInvoice ==
  /\ invoices < MaxInvoices
  /\ invoices' = invoices + 1
  /\ UNCHANGED <<balance, paying, payments, dropped, seen>>

\* Mutant: the balance is compared before its lock is taken.
DebitUnlocked(r) ==
  /\ r \notin paying
  /\ balance + Cost * Cardinality(paying) >= Cost
  /\ balance' = balance - Cost
  /\ paying' = paying \cup {r}
  /\ UNCHANGED <<invoices, payments, dropped, seen>>

\* pay_invoice up to its second lock, for anything that starts with lnbc: the
\* invoice, its amount and max_fee_sats are not looked at.  Without the funds it
\* is refused.
Debit(r) ==
  /\ ~Locked
  /\ balance >= Cost
  /\ balance' = balance - Cost
  /\ paying' = {r}
  /\ UNCHANGED <<invoices, payments, dropped, seen>>

\* The payment is stored and answered.
Record(r) ==
  /\ r \in paying
  /\ paying' = paying \ {r}
  /\ payments' = payments + 1
  /\ UNCHANGED <<invoices, balance, dropped, seen>>

\* The client of the request is gone.
DropPayment(r) ==
  /\ r \in paying
  /\ paying' = paying \ {r}
  /\ dropped' = dropped + 1
  /\ UNCHANGED <<invoices, balance, payments, seen>>

\* Mutant: the balance is read past the lock.
ReadBalanceUnlocked ==
  /\ seen' = [balance |-> balance, spent |-> payments + dropped]
  /\ UNCHANGED <<invoices, balance, paying, payments, dropped>>

\* get_balance waits for the lock.
ReadBalance ==
  /\ ~Locked
  /\ seen' = [balance |-> balance, spent |-> payments + dropped]
  /\ UNCHANGED <<invoices, balance, paying, payments, dropped>>

LightningNext ==
  \/ CreateInvoice \/ ReadBalance
  \/ \E r \in Payers : Debit(r) \/ Record(r) \/ DropPayment(r)

LightningTypeOK ==
  /\ invoices \in 0..MaxInvoices
  /\ balance \in Nat
  /\ paying \subseteq Payers
  /\ payments \in Nat /\ dropped \in Nat
  /\ seen \in [balance : Nat, spent : Nat]

-------------------------------------------------------------------------------
\* "balance accounting": however payments race and are dropped, every debit is a
\* payment that is recorded, dropped or under way, and a balance that is shown to
\* a client has no payment in it that is neither recorded nor dropped.
BooksBalance ==
  /\ InitialBalance - balance = Cost * (payments + dropped + Cardinality(paying))
  /\ seen.balance = InitialBalance - Cost * seen.spent

-------------------------------------------------------------------------------
(***************************************************************************)
(* The inductive invariant behind the safety property.                     *)
(***************************************************************************)

\* One request at most holds the lock.
LightningIInv == LightningTypeOK /\ IsFiniteSet(paying) /\ BooksBalance
==============================================================================
