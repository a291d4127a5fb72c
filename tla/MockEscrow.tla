------------------------------ MODULE MockEscrow ------------------------------
(***************************************************************************)
(* MockProtectedPaymentProvider                                            *)
(* (crates/hanbova-protected-payments/src/mock.rs), the development escrow *)
(* in memory.  Every operation holds the write lock of the map to its end. *)
(***************************************************************************)
EXTENDS Clock, FiniteSets, PaymentStatus

CONSTANTS
  Payments  \* the payment ids of this instance; a request may choose one

VARIABLES
  escrow,      \* the stored intent of a payment id, or NoEscrow
  settlements  \* ghost: when the intent stored under an id was settled, and how

escrowVars == <<escrow, settlements>>

NoEscrow == [status |-> "created", expires_at |-> 0]
Held == [status : Statuses, expires_at : Times]

EscrowInit ==
  /\ escrow = [p \in Payments |-> NoEscrow]
  /\ settlements = [p \in Payments |-> {}]

Exists(p) == escrow[p] # NoEscrow

\* PaymentIntent::is_expired
IsExpired(p) == now >= escrow[p].expires_at

Moves(p, status) == escrow' = [escrow EXCEPT ![p].status = status]
Settles(p, how) ==
  settlements' = [settlements EXCEPT ![p] = @ \cup {[how |-> how, at |-> now]}]

\* create_protected_payment: an expiry in the future, and an id that may replace
\* a stored intent.
CreateEscrow(p, expiry) ==
  /\ expiry > now
  /\ escrow' = [escrow EXCEPT ![p] = [status |-> "claimable", expires_at |-> expiry]]
  /\ settlements' = [settlements EXCEPT ![p] = {}]

\* claim_payment after the expiry: PaymentExpired, and the refund is announced if
\* the table allows it.
ClaimLate(p) ==
  /\ Exists(p) /\ IsExpired(p)
  /\ CanTransitionTo(escrow[p].status, "refund_available")
  /\ Moves(p, "refund_available")
  /\ UNCHANGED settlements

\* claim_payment with a proof that is not empty goes through: narrower than the table,
\* which allows the claim of an expired intent until it is refunded.
ClaimAccepted(p) ==
  /\ Exists(p) /\ ~IsExpired(p)
  /\ escrow[p].status \in {"claimable", "protected"}

Claim(p) == ClaimAccepted(p) /\ Moves(p, "claimed") /\ Settles(p, "claimed")

\* Where refund_payment goes through before the refund.
Announced(status) == IF status = "expired" THEN "expired" ELSE "refund_available"

\* refund_payment goes through.
RefundAccepted(p) ==
  /\ Exists(p) /\ IsExpired(p)
  /\ CanTransitionTo(escrow[p].status, Announced(escrow[p].status))
  /\ CanTransitionTo(Announced(escrow[p].status), "refunded")

\* Mutant: the status is assigned without update_status.
RefundUnvalidated(p) ==
  /\ Exists(p) /\ IsExpired(p)
  /\ Moves(p, "refunded") /\ Settles(p, "refunded")

Refund(p) == RefundAccepted(p) /\ Moves(p, "refunded") /\ Settles(p, "refunded")

EscrowNext ==
  /\ \E p \in Payments :
       \/ \E expiry \in Times : CreateEscrow(p, expiry)
       \/ ClaimLate(p) \/ Claim(p) \/ Refund(p)
  /\ UNCHANGED now

EscrowTick == Advance /\ UNCHANGED escrowVars

EscrowTypeOK ==
  /\ now \in Times
  /\ escrow \in [Payments -> Held]
  /\ settlements \in [Payments -> SUBSET [how : {"claimed", "refunded"}, at : Times]]

-------------------------------------------------------------------------------
\* An intent is settled at most once, whatever claims and refunds are attempted
\* before and after its expiry; its status says how, and it was not refunded before
\* it expired.  Until it is settled it is not stuck either: refused claims that move
\* it included, the claim or the refund goes through at any time.
EscrowSettlesOnce ==
  \A p \in Payments :
    /\ Cardinality(settlements[p]) <= 1
    /\ \A x \in settlements[p] :
         /\ escrow[p].status = x.how
         /\ x.how = "refunded" => x.at >= escrow[p].expires_at
    /\ Exists(p) /\ settlements[p] = {} => ClaimAccepted(p) \/ RefundAccepted(p)

-------------------------------------------------------------------------------
(***************************************************************************)
(* The inductive invariant behind the safety property.                     *)
(***************************************************************************)

\* An intent that is not settled is open, and the refund is announced from the expiry
\* on only.
UnsettledIsOpen ==
  \A p \in Payments :
    Exists(p) /\ settlements[p] = {}
      => \/ escrow[p].status = "claimable"
         \/ escrow[p].status = "refund_available" /\ IsExpired(p)

EscrowIInv == EscrowTypeOK /\ UnsettledIsOpen /\ EscrowSettlesOnce
==============================================================================
