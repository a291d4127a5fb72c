---------------------------- MODULE PaymentStatus ----------------------------
(***************************************************************************)
(* The payment lifecycle of crates/hanbova-core/src/payment_status.rs:     *)
(* twelve statuses and the table of moves every component (the             *)
(* coordination server, the Cashu provider, the mock provider) consults    *)
(* before it changes a status.                                             *)
(***************************************************************************)

Statuses ==
  {"created", "funding", "pending", "protected", "claimable", "claiming",
   "claimed", "refund_available", "refunding", "refunded", "expired", "failed"}

\* PaymentStatus::is_terminal
Terminal == {"claimed", "refunded", "failed"}

\* Mutant: a claim is no longer accepted once a refund has been announced.
NoClaimWhileRefunding ==
  [s \in Statuses |->
     CASE s = "created"   -> {"funding", "pending", "protected", "claimable", "failed"}
       [] s = "funding"   -> {"protected", "claimable", "pending", "failed"}
       [] s = "pending"   -> {"protected", "claimable", "claimed", "failed"}
       [] s = "protected" -> {"claimable", "claiming", "refund_available", "expired",
                              "claimed", "failed"}
       [] s = "claimable" -> {"claiming", "claimed", "refund_available", "expired", "failed"}
       [] s = "claiming"  -> {"claimed", "claimable", "refund_available", "refunded", "failed"}
       [] s = "refund_available" -> {"refunding", "refunded", "failed"}
       [] s = "expired"   -> {"refund_available", "refunding", "refunded", "failed"}
       [] s = "refunding" -> {"refunded", "refund_available", "failed"}
       [] OTHER           -> {}]

\* The rows of can_transition_to without the self-transitions.
Successors ==
  [s \in Statuses |->
     CASE s = "created"   -> {"funding", "pending", "protected", "claimable", "failed"}
       [] s = "funding"   -> {"protected", "claimable", "pending", "failed"}
       [] s = "pending"   -> {"protected", "claimable", "claimed", "failed"}
       [] s = "protected" -> {"claimable", "claiming", "refund_available", "expired",
                              "claimed", "failed"}
       [] s = "claimable" -> {"claiming", "claimed", "refund_available", "expired", "failed"}
       [] s = "claiming"  -> {"claimed", "claimable", "refund_available", "refunded", "failed"}
       [] s = "refund_available" -> {"refunding", "refunded", "claiming", "claimed", "failed"}
       [] s = "expired"   -> {"refund_available", "refunding", "refunded", "claimed", "failed"}
       [] s = "refunding" -> {"refunded", "claimed", "refund_available", "failed"}
       [] OTHER           -> {}]

\* PaymentStatus::can_transition_to; transition_to fails exactly when it is false.
CanTransitionTo(from, to) == from = to \/ to \in Successors[from]

\* The statuses that any number of moves leads to from s: what is in every set that
\* has s and that no move leaves.
ClosedSets == {C \in SUBSET Statuses : \A s \in C : Successors[s] \subseteq C}
ReachableStatuses ==
  [s \in Statuses |-> {x \in Statuses : \A C \in ClosedSets : s \in C => x \in C}]
============================================================================
