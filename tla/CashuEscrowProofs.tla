-------------------------- MODULE CashuEscrowProofs --------------------------
(***************************************************************************)
(* Proofs about CashuEscrow, for any sets of payments, tokens and calls,    *)
(* any locktimes, whoever spends elsewhere, and with or without abandoned  *)
(* calls and restarts.                                                     *)
(*                                                                         *)
(* TypeOK and AnswersAgree hold whatever token a caller hands in.  What    *)
(* relates the record to the mint needs callers that hand in none: with    *)
(* the token of another payment it is false (run escrow_foreign).          *)
(***************************************************************************)
EXTENDS CashuEscrow, TLAPS

\* The lifecycle table on the statuses the map holds: a claim or refund settles a
\* claimable payment, a settled one stays as it is, and a claimable payment is never
\* moved to refunded directly.
LEMMA MovedStatuses ==
  ASSUME NEW s \in TrackedStatuses
  PROVE  /\ Moved(s, "claimed") = IF s = "claimable" THEN "claimed" ELSE s
         /\ Moved(s, "refunded") = s
         /\ Moved(Moved(s, "refund_available"), "refunded")
              = IF s = "claimable" THEN "refunded" ELSE s
  BY DEF TrackedStatuses, Moved, CanTransitionTo, Successors, Statuses

\* The placeholder values are well typed, and NoPayment is the only entry of the
\* map without a token.
LEMMA PlaceholderTypes ==
  /\ NoCall \in Call /\ NoCall.op = "create" /\ NoCall.token = NoToken
  /\ NoPayment.token = NoToken
  /\ \A e \in Tracked : e # NoPayment /\ e.token # NoToken /\ e.token \in Tokens
<1>1. (CHOOSE p \in Payments : TRUE) \in Payments
  BY EscrowAssumption
<1>2. NoCall \in Call
  BY <1>1 DEF NoCall, Call, Operations
<1>3. QED
  BY <1>2, EscrowAssumption DEF NoCall, NoPayment, Tracked

\* An entry of the map with a token is a payment.
LEMMA TrackedEntry ==
  ASSUME TypeOK, NEW p \in Payments, IsTracked(p)
  PROVE  /\ tracked[p] \in Tracked
         /\ tracked[p].token \in Tokens
         /\ tracked[p].status \in TrackedStatuses
  BY PlaceholderTypes DEF TypeOK, IsTracked, Tracked

\* Changing the status of a payment in the map changes nothing else.
LEMMA SetStatusEffect ==
  ASSUME TypeOK, NEW p \in Payments, IsTracked(p), NEW s \in TrackedStatuses, SetStatus(p, s)
  PROVE  /\ tracked' \in [Payments -> Tracked \cup {NoPayment}]
         /\ tracked'[p].status = s
         /\ \A q \in Payments : /\ tracked'[q].token = tracked[q].token
                                /\ q # p => tracked'[q] = tracked[q]
<1> DEFINE new == [tracked[p] EXCEPT !.status = s]
<1>1. new \in Tracked /\ new.token = tracked[p].token /\ new.status = s
  BY TrackedEntry DEF Tracked
<1>2. tracked' = [tracked EXCEPT ![p] = new]
  BY DEF SetStatus
<1> HIDE DEF new
<1>3. QED
  BY <1>1, <1>2 DEF TypeOK

\* A call that returns touches no other call.
LEMMA FinishEffect ==
  ASSUME TypeOK, NEW t \in Tasks, Finish(t)
  PROVE  /\ pc' \in [Tasks -> Steps] /\ call' \in [Tasks -> Call]
         /\ reply' \in [Tasks -> Replies] /\ writer' \in Tasks \cup {NoTask}
         /\ pc'[t] = "idle" /\ writer' # t
         /\ \A u \in Tasks \ {t} : /\ pc'[u] = pc[u] /\ call'[u] = call[u]
                                   /\ reply'[u] = reply[u]
                                   /\ writer' = u <=> writer = u
  BY PlaceholderTypes, EscrowAssumption DEF TypeOK, Finish, Steps, Replies

\* Asking the mint takes the lock and completes the call with the token of the
\* payment if it has none.
LEMMA AskMintEffect ==
  ASSUME TypeOK, NEW t \in Tasks, AskMint(t)
  PROVE  LET p == call[t].payment
             k == IF call[t].token = NoToken THEN tracked[p].token ELSE call[t].token
         IN  /\ p \in Payments /\ IsTracked(p) /\ k \in Tokens
             /\ call' \in [Tasks -> Call]
             /\ call'[t] = [call[t] EXCEPT !.token = k]
             /\ call'[t].token = k /\ call'[t].payment = p
             /\ call'[t].op = call[t].op /\ call'[t].locktime = call[t].locktime
             /\ \A u \in Tasks \ {t} : call'[u] = call[u]
<1> DEFINE p == call[t].payment
           k == IF call[t].token = NoToken THEN tracked[p].token ELSE call[t].token
           new == [call[t] EXCEPT !.token = k]
<1>1. call[t] \in Call /\ p \in Payments /\ IsTracked(p)
  BY DEF TypeOK, Call, AskMint
<1>2. k \in Tokens
  BY <1>1, TrackedEntry DEF Call
<1>3. call' = [call EXCEPT ![t] = new]
  BY DEF AskMint
<1> HIDE DEF k
<1>4. new \in Call /\ new.token = k /\ new.payment = p /\ new.op = call[t].op
      /\ new.locktime = call[t].locktime
  BY <1>1, <1>2 DEF Call
<1> HIDE DEF new
<1>5. QED
  BY <1>1, <1>2, <1>3, <1>4 DEF TypeOK, k, new

-------------------------------------------------------------------------------
(***************************************************************************)
(* Type correctness.  A status is only set for a payment that is in the    *)
(* map, which the write lock guarantees.                                   *)
(***************************************************************************)

\* Redeeming a token changes who has its funds, and by whose doing.
LEMMA RedeemedEffect ==
  ASSUME TypeOK, NEW k \in Tokens, NEW key \in Spent,
         NEW by \in Operations \cup {"nobody", "elsewhere"}, Redeemed(k, key, by)
  PROVE  /\ mint' \in [Tokens -> Funds]
         /\ mint'[k].at = key /\ mint'[k].by = by /\ mint'[k].locktime = mint[k].locktime
         /\ \A j \in Tokens \ {k} : mint'[j] = mint[j]
<1> DEFINE new == [mint[k] EXCEPT !.at = key, !.by = by]
<1>1. new \in Funds /\ new.at = key /\ new.by = by /\ new.locktime = mint[k].locktime
  BY DEF TypeOK, Funds
<1>2. mint' = [mint EXCEPT ![k] = new]
  BY DEF TypeOK, Funds, Redeemed
<1> HIDE DEF new
<1>3. QED
  BY <1>1, <1>2 DEF TypeOK

LEMMA InitTypeOK == Init => TypeOK /\ LockDiscipline /\ TokensInHand
  BY PlaceholderTypes, EscrowAssumption
     DEF Init, TypeOK, LockDiscipline, TokensInHand, Funds, Spent, Steps, Replies

LEMMA StepTypeOK == TypeOK /\ LockDiscipline /\ TokensInHand /\ [Next]_vars => TypeOK'
<1> SUFFICES ASSUME TypeOK, LockDiscipline, TokensInHand, [Next]_vars
             PROVE  TypeOK'
  OBVIOUS
<1>0. /\ NoCall \in Call /\ now \in Nat
      /\ \A t \in Tasks : call[t] \in Call /\ call[t].payment \in Payments
  BY PlaceholderTypes DEF TypeOK, Call
<1>1. ASSUME NEW t \in Tasks, NEW p \in Payments, NEW d \in Delays, StartCreate(t, p, d)
      PROVE  TypeOK'
  <2>1. now + d \in Nat
    BY <1>0, EscrowAssumption
  <2>2. [NoCall EXCEPT !.payment = p, !.locktime = now + d] \in Call
    BY <1>0, <2>1 DEF Call
  <2>3. QED
    BY <1>1, <2>2 DEF TypeOK, StartCreate, Steps
<1>2. ASSUME NEW t \in Tasks, NEW op \in {"claim", "refund"}, NEW p \in Payments,
             NEW tok \in Tokens \cup {NoToken}, StartSettle(t, op, p, tok)
      PROVE  TypeOK'
  <2>1. [NoCall EXCEPT !.op = op, !.payment = p, !.token = tok] \in Call
    BY <1>0 DEF Call, Operations
  <2>2. QED
    BY <1>2, <2>1 DEF TypeOK, StartSettle, Steps
<1>3. ASSUME NEW t \in Tasks, TaskStep(t) \/ LoseAnswer(t) \/ AbandonCall(t)
      PROVE  TypeOK'
  <2>1. ASSUME NEW tok \in Tokens, ConfirmSend(t, tok)
        PROVE  TypeOK'
    <3>1. [at |-> "locked", locktime |-> call[t].locktime, by |-> "nobody"] \in Funds
      BY <1>0 DEF Call, Funds
    <3>2. [call[t] EXCEPT !.token = tok] \in Call
      BY <1>0 DEF Call
    <3>3. call' = [call EXCEPT ![t] = [call[t] EXCEPT !.token = tok]]
      BY <2>1 DEF ConfirmSend
    <3>4. call' \in [Tasks -> Call] /\ mint' \in [Tokens -> Funds]
      BY <2>1, <3>1, <3>2, <3>3 DEF TypeOK, ConfirmSend
    <3>5. QED
      BY <2>1, <3>4 DEF TypeOK, ConfirmSend, Steps
  <2>2. CASE FailSend(t) \/ (\E f \in BOOLEAN : RefuseIntent(t, f)) \/ RefuseSettle(t) \/ RecordFailed(t)
             \/ AbandonCall(t)
    <3>1. Finish(t) /\ UNCHANGED <<now, mint, tracked, told>>
      BY <2>2 DEF FailSend, RefuseIntent, RefuseSettle, RecordFailed, AbandonCall
    <3>2. QED
      BY <3>1, FinishEffect DEF TypeOK
  <2>3. CASE \E f \in BOOLEAN : BuildIntent(t, f)
    BY <2>3 DEF TypeOK, BuildIntent, Steps
  <2>4. CASE InsertIntent(t)
    <3> DEFINE entry == [status |-> "claimable", token |-> call[t].token,
                         locktime |-> call[t].locktime]
    <3>1. entry \in Tracked
      BY <1>0, <2>4 DEF Tracked, TrackedStatuses, Call, TokensInHand, InsertIntent
    <3>1a. tracked' = [tracked EXCEPT ![call[t].payment] = entry]
      BY <2>4 DEF InsertIntent
    <3> HIDE DEF entry
    <3>1b. tracked' \in [Payments -> Tracked \cup {NoPayment}]
      BY <1>0, <3>1, <3>1a DEF TypeOK
    <3>2. QED
      BY <2>4, <3>1b, FinishEffect DEF TypeOK, InsertIntent
  <2>5. CASE AskMint(t)
    BY <2>5, AskMintEffect DEF TypeOK, AskMint, Steps
  <2>6. ASSUME NEW key \in Keys, MintAnswers(t, key)
        PROVE  TypeOK'
    <3> DEFINE k == call[t].token
    <3>1. k \in Tokens
      BY <2>6 DEF TokensInHand, MintAnswers
    <3>2. CASE Opens(key, k)
      <4>1. Redeemed(k, key, call[t].op) /\ call[t].op \in Operations
        BY <1>0, <2>6, <3>2 DEF MintAnswers, Call
      <4>2. mint' \in [Tokens -> Funds]
        BY <3>1, <4>1, RedeemedEffect DEF Spent
      <4>3. QED
        BY <2>6, <3>2, <4>2 DEF TypeOK, MintAnswers, Steps, Replies
    <3>3. CASE ~Opens(key, k)
      BY <2>6, <3>3 DEF TypeOK, MintAnswers, Steps, Replies
    <3>4. QED
      BY <3>2, <3>3
  <2>7. CASE MintUnreachable(t) \/ LoseAnswer(t)
    BY <2>7 DEF TypeOK, MintUnreachable, LoseAnswer, Steps, Replies
  <2>8. CASE RecordPaid(t)
    <3> DEFINE p == call[t].payment
               s == tracked[p].status
               wanted == IF call[t].op = "claim" THEN "claimed" ELSE "refunded"
               to == IF call[t].op = "claim" THEN Moved(s, "claimed")
                     ELSE Moved(Moved(s, "refund_available"), "refunded")
    <3>1. p \in Payments /\ IsTracked(p)
      BY <1>0, <2>8 DEF LockDiscipline, RecordPaid
    <3>2. s \in TrackedStatuses /\ tracked[p].token \in Tokens
      BY <3>1, TrackedEntry
    <3>3. to \in TrackedStatuses
      BY <3>2, MovedStatuses DEF TrackedStatuses
    <3>4. SetStatus(p, to) /\ Finish(t) /\ UNCHANGED <<now, mint>>
          /\ told' = IF to = wanted
                     THEN [told EXCEPT ![tracked[p].token] = @ \cup {to}] ELSE told
      BY <2>8 DEF RecordPaid
    <3>5. wanted \in {"claimed", "refunded"}
      OBVIOUS
    <3> HIDE DEF to, wanted
    <3>6. told' \in [Tokens -> SUBSET {"claimed", "refunded"}]
      BY <3>2, <3>4, <3>5 DEF TypeOK
    <3>7. QED
      BY <3>1, <3>3, <3>4, <3>6, SetStatusEffect, FinishEffect DEF TypeOK
  <2>9. CASE RecordSpent(t)
    <3> DEFINE p == call[t].payment
               other == IF call[t].op = "claim" THEN "refunded" ELSE "claimed"
               to == Moved(tracked[p].status, other)
    <3>1. p \in Payments /\ IsTracked(p)
      BY <1>0, <2>9 DEF LockDiscipline, RecordSpent
    <3>2. to \in TrackedStatuses
      BY <3>1, TrackedEntry, MovedStatuses DEF TrackedStatuses
    <3>3. SetStatus(p, to) /\ Finish(t) /\ UNCHANGED <<now, mint, told>>
      BY <2>9 DEF RecordSpent
    <3>4. QED
      BY <3>1, <3>2, <3>3, SetStatusEffect, FinishEffect DEF TypeOK
  <2>10. QED
    BY <1>3, <2>1, <2>2, <2>3, <2>4, <2>5, <2>6, <2>7, <2>8, <2>9 DEF TaskStep
<1>4. ASSUME NEW p \in Payments, GetStatus(p)
      PROVE  TypeOK'
  <2>1. CASE Status(p) \in Terminal
    <3>1. Status(p) \in {"claimed", "refunded"} /\ tracked[p].token \in Tokens
      BY <1>4, <2>1, TrackedEntry DEF GetStatus, Status, TrackedStatuses, Terminal
    <3>2. QED
      BY <1>4, <2>1, <3>1 DEF TypeOK, GetStatus
  <2>2. CASE Status(p) \notin Terminal
    BY <1>4, <2>2 DEF TypeOK, GetStatus
  <2>3. QED
    BY <2>1, <2>2
<1>5. ASSUME NEW tok \in Tokens, NEW key \in Elsewhere, SpendElsewhere(tok, key)
      PROVE  TypeOK'
  <2>1. key \in Spent /\ Redeemed(tok, key, "elsewhere")
    BY <1>5, EscrowAssumption DEF Spent, Keys, SpendElsewhere
  <2>2. mint' \in [Tokens -> Funds]
    BY <2>1, RedeemedEffect
  <2>3. QED
    BY <1>5, <2>2 DEF TypeOK, SpendElsewhere
<1>6. CASE Restart
  BY <1>0, <1>6 DEF TypeOK, Restart, Steps, Replies
<1>7. CASE Tick
  BY <1>7, EscrowAssumption DEF TypeOK, Tick
<1>8. CASE UNCHANGED vars
  BY <1>8 DEF TypeOK, vars
<1>9. QED
  BY <1>1, <1>2, <1>3, <1>4, <1>5, <1>6, <1>7, <1>8 DEF Next, HandedIn

-------------------------------------------------------------------------------
(***************************************************************************)
(* The write lock.                                                         *)
(***************************************************************************)

\* A call that returns gives up the lock, and the payments of the others stay.
LEMMA FinishKeepsLock ==
  ASSUME TypeOK, LockDiscipline, TokensInHand, NEW t \in Tasks, Finish(t),
         writer \in {NoTask, t} \/ \A p \in Payments : tracked'[p].token = tracked[p].token
  PROVE  LockDiscipline' /\ TokensInHand'
<1>1. /\ pc'[t] = "idle" /\ writer' # t
      /\ \A u \in Tasks \ {t} : /\ pc'[u] = pc[u] /\ call'[u] = call[u]
                                /\ writer' = u <=> writer = u
  BY FinishEffect
<1>2. \A u \in Tasks : call[u].payment \in Payments
  BY DEF TypeOK, Call
<1>3. \A u \in Tasks : u # NoTask
  BY EscrowAssumption
<1>4. QED
  BY <1>1, <1>2, <1>3 DEF LockDiscipline, TokensInHand, IsTracked

LEMMA StepLock == TypeOK /\ LockDiscipline /\ TokensInHand /\ [Next]_vars
                    => LockDiscipline' /\ TokensInHand'
<1> SUFFICES ASSUME TypeOK, LockDiscipline, TokensInHand, [Next]_vars
             PROVE  LockDiscipline' /\ TokensInHand'
  OBVIOUS
<1>0. /\ \A t \in Tasks : t # NoTask
      /\ \A t \in Tasks : call[t] \in Call /\ call[t].payment \in Payments
  BY EscrowAssumption DEF TypeOK, Call
<1>1. ASSUME NEW t \in Tasks, NEW p \in Payments, NEW d \in Delays, StartCreate(t, p, d)
      PROVE  LockDiscipline' /\ TokensInHand'
  BY <1>1 DEF TypeOK, LockDiscipline, TokensInHand, IsTracked, StartCreate
<1>2. ASSUME NEW t \in Tasks, NEW op \in {"claim", "refund"}, NEW p \in Payments,
             NEW tok \in Tokens \cup {NoToken}, StartSettle(t, op, p, tok)
      PROVE  LockDiscipline' /\ TokensInHand'
  BY <1>2 DEF TypeOK, LockDiscipline, TokensInHand, IsTracked, StartSettle
<1>3. ASSUME NEW t \in Tasks, TaskStep(t) \/ LoseAnswer(t) \/ AbandonCall(t)
      PROVE  LockDiscipline' /\ TokensInHand'
  <2>1. ASSUME NEW tok \in Tokens, ConfirmSend(t, tok)
        PROVE  LockDiscipline' /\ TokensInHand'
    <3>1. /\ call' = [call EXCEPT ![t].token = tok] /\ pc' = [pc EXCEPT ![t] = "confirmed"]
          /\ pc[t] = "locking" /\ UNCHANGED <<tracked, writer>>
      BY <2>1 DEF ConfirmSend
    <3>2. /\ call'[t].token = tok /\ pc'[t] = "confirmed"
          /\ \A u \in Tasks \ {t} : call'[u] = call[u] /\ pc'[u] = pc[u]
      BY <1>0, <3>1 DEF TypeOK, Call
    <3>3. QED
      BY <3>1, <3>2 DEF LockDiscipline, TokensInHand, IsTracked
  <2>2. CASE FailSend(t) \/ (\E f \in BOOLEAN : RefuseIntent(t, f)) \/ RefuseSettle(t) \/ RecordFailed(t)
             \/ AbandonCall(t)
    <3>1. Finish(t) /\ UNCHANGED <<now, mint, tracked, told>>
      BY <2>2 DEF FailSend, RefuseIntent, RefuseSettle, RecordFailed, AbandonCall
    <3>2. QED
      BY <3>1, FinishKeepsLock
  <2>3. CASE \E f \in BOOLEAN : BuildIntent(t, f)
    BY <2>3 DEF TypeOK, LockDiscipline, TokensInHand, IsTracked, BuildIntent
  <2>4. CASE InsertIntent(t)
    BY <2>4, FinishKeepsLock DEF InsertIntent
  <2>5. CASE AskMint(t)
    <3>1. /\ pc'[t] = "at_mint" /\ writer' = t /\ writer = NoTask /\ pc[t] = "waiting"
          /\ \A u \in Tasks \ {t} : pc'[u] = pc[u]
          /\ UNCHANGED tracked
      BY <2>5 DEF TypeOK, AskMint
    <3>2. QED
      BY <1>0, <2>5, <3>1, AskMintEffect DEF LockDiscipline, TokensInHand, IsTracked
  <2>6. CASE (\E key \in Keys : MintAnswers(t, key)) \/ MintUnreachable(t) \/ LoseAnswer(t)
    <3>1. /\ pc[t] \in {"at_mint", "replied"}
          /\ pc' = [pc EXCEPT ![t] = "replied"] \/ pc' = pc
          /\ UNCHANGED <<tracked, writer, call>>
      BY <2>6 DEF MintAnswers, MintUnreachable, LoseAnswer
    <3>2. QED
      BY <3>1 DEF TypeOK, LockDiscipline, TokensInHand, IsTracked
  <2>7. CASE RecordPaid(t) \/ RecordSpent(t)
    <3>1. Finish(t) /\ writer = t
      BY <2>7 DEF RecordPaid, RecordSpent, LockDiscipline
    <3>2. QED
      BY <3>1, FinishKeepsLock
  <2>8. QED
    BY <1>3, <2>1, <2>2, <2>3, <2>4, <2>5, <2>6, <2>7 DEF TaskStep
<1>4. CASE \E p \in Payments : GetStatus(p)
  BY <1>4 DEF LockDiscipline, TokensInHand, IsTracked, GetStatus
<1>5. CASE \E tok \in Tokens, key \in Elsewhere : SpendElsewhere(tok, key)
  BY <1>5 DEF LockDiscipline, TokensInHand, IsTracked, SpendElsewhere
<1>6. CASE Restart
  BY <1>0, <1>6 DEF LockDiscipline, TokensInHand, Restart
<1>7. CASE Tick \/ UNCHANGED vars
  BY <1>7 DEF LockDiscipline, TokensInHand, IsTracked, Tick, vars
<1>8. QED
  BY <1>1, <1>2, <1>3, <1>4, <1>5, <1>6, <1>7 DEF Next, HandedIn

\* The types alone are no more inductive than the lock: a status is set for a
\* payment that is in the map because its call has kept the lock.
LEMMA CallsInductive == Spec => [](TypeOK /\ LockDiscipline /\ TokensInHand)
  BY InitTypeOK, StepTypeOK, StepLock, PTL DEF Spec

\* Type correctness of the escrow provider: between two calls a payment in the map
\* is claimable, claimed or refunded, never half-way through its status updates.
THEOREM TypeCorrect == Spec => []TypeOK
  BY CallsInductive, PTL

-------------------------------------------------------------------------------
(***************************************************************************)
(* The record: one place per token, one answer per token.                  *)
(***************************************************************************)

\* Custody is kept by every step that hands no token over.
LEMMA CustodyKept ==
  ASSUME TypeOK, TypeOK', TokensInOnePlace,
         \A t \in Tasks, k \in Tokens : Holds(t, k)' => Holds(t, k),
         \A p \in Payments : tracked'[p].token = tracked[p].token,
         \A k \in Tokens : mint[k].at # "unissued" => mint'[k].at # "unissued",
         \A k \in Tokens :
           told'[k] = told[k] \/ \E p \in Payments : IsTracked(p) /\ tracked[p].token = k
  PROVE  TokensInOnePlace'
<1>1. \A p \in Payments : IsTracked(p) => tracked[p].token \in Tokens
  BY TrackedEntry
<1>2. ASSUME NEW t \in Tasks, NEW k \in Tokens, Holds(t, k)'
      PROVE  /\ mint'[k].at # "unissued"
             /\ told'[k] = {}
             /\ \A p \in Payments : tracked'[p].token # k
             /\ \A u \in Tasks \ {t} : ~Holds(u, k)'
  <2>1. Holds(t, k)
    BY <1>2
  <2>2. \A p \in Payments : tracked[p].token # k
    BY <2>1 DEF TokensInOnePlace
  <2>3. QED
    BY <2>1, <2>2 DEF TokensInOnePlace
<1>3. ASSUME NEW p \in Payments, IsTracked(p)'
      PROVE  /\ mint'[tracked'[p].token].at # "unissued"
             /\ \A q \in Payments \ {p} : tracked'[q].token # tracked'[p].token
  BY <1>1, <1>3 DEF TokensInOnePlace, IsTracked
<1>4. ASSUME NEW k \in Tokens, told'[k] # {}
      PROVE  mint'[k].at # "unissued"
  BY <1>1, <1>4 DEF TokensInOnePlace
<1>5. QED
  BY <1>2, <1>3, <1>4 DEF TokensInOnePlace

\* Settling or reporting one payment: its status changes only if it was claimable,
\* and what is told of its token is the status it then has.
LEMMA SettleKeepsRecord ==
  ASSUME TypeOK, TypeOK', TokensInOnePlace, AnswersAreRecorded, AnswersAgree,
         NEW p \in Payments, IsTracked(p),
         tracked'[p].token = tracked[p].token,
         tracked'[p].status = tracked[p].status \/ tracked[p].status = "claimable",
         \A q \in Payments : q # p => tracked'[q] = tracked[q],
         \/ told' = told
         \/ told' = [told EXCEPT ![tracked[p].token] = @ \cup {tracked'[p].status}]
  PROVE  AnswersAreRecorded' /\ AnswersAgree'
<1> DEFINE k == tracked[p].token
<1>1. k \in Tokens /\ told[k] \subseteq {tracked[p].status}
      /\ told[k] \subseteq {"claimed", "refunded"}
  BY TrackedEntry DEF TypeOK, AnswersAreRecorded
<1>2. told[k] \subseteq {tracked'[p].status}
  BY <1>1
<1>3. told'[k] \subseteq {tracked'[p].status}
  BY <1>1, <1>2 DEF TypeOK
<1>4. \A j \in Tokens : j # k => told'[j] = told[j]
  BY <1>1 DEF TypeOK
<1>5. AnswersAreRecorded'
  <2> SUFFICES ASSUME NEW q \in Payments, IsTracked(q)'
               PROVE  told'[tracked'[q].token] \subseteq {tracked'[q].status}
    BY DEF AnswersAreRecorded
  <2>1. CASE q = p
    BY <1>3, <2>1
  <2>2. CASE q # p
    <3>1. tracked'[q] = tracked[q] /\ IsTracked(q)
      BY <2>2 DEF IsTracked
    <3>2. tracked[q].token # k /\ tracked[q].token \in Tokens
      BY <2>2, <3>1, TrackedEntry DEF TokensInOnePlace
    <3>3. QED
      BY <1>4, <3>1, <3>2 DEF AnswersAreRecorded
  <2>3. QED
    BY <2>1, <2>2
<1>6. AnswersAgree'
  BY <1>3, <1>4 DEF AnswersAgree
<1>7. QED
  BY <1>5, <1>6

\* A step that changes neither the entries of the map nor the answers.
LEMMA RecordUntouched ==
  ASSUME AnswersAreRecorded, AnswersAgree, UNCHANGED <<tracked, told>>
  PROVE  AnswersAreRecorded' /\ AnswersAgree'
  BY DEF AnswersAreRecorded, AnswersAgree, IsTracked

LEMMA ConfirmSendCustody ==
  ASSUME RecordIInv, NEW t \in Tasks, NEW tok \in Tokens, ConfirmSend(t, tok)
  PROVE  TokensInOnePlace'
<1>1. /\ pc[t] = "locking" /\ mint[tok].at = "unissued" /\ mint'[tok].at = "locked"
      /\ \A k \in Tokens \ {tok} : mint'[k] = mint[k]
      /\ pc'[t] = "confirmed" /\ call'[t].token = tok
      /\ \A u \in Tasks \ {t} : pc'[u] = pc[u] /\ call'[u] = call[u]
      /\ UNCHANGED <<tracked, told>>
  BY DEF RecordIInv, TypeOK, Call, ConfirmSend
<1>2. \A k \in Tokens : Holds(t, k)' <=> k = tok
  BY <1>1 DEF Holds
<1>3. \A u \in Tasks \ {t}, k \in Tokens : Holds(u, k)' <=> Holds(u, k)
  BY <1>1 DEF Holds
<1>4. /\ \A u \in Tasks : ~Holds(u, tok)
      /\ \A p \in Payments : tracked[p].token # tok
      /\ told[tok] = {}
  <2>1. \A p \in Payments : IsTracked(p) \/ tracked[p].token # tok
    BY EscrowAssumption DEF IsTracked
  <2>2. QED
    BY <1>1, <2>1 DEF RecordIInv, TokensInOnePlace
<1>5. ASSUME NEW u \in Tasks, NEW k \in Tokens, Holds(u, k)'
      PROVE  /\ mint'[k].at # "unissued" /\ told'[k] = {}
             /\ \A p \in Payments : tracked'[p].token # k
             /\ \A v \in Tasks \ {u} : ~Holds(v, k)'
  <2>1. CASE u = t
    BY <1>1, <1>2, <1>3, <1>4, <1>5, <2>1
  <2>2. CASE u # t
    BY <1>1, <1>2, <1>3, <1>4, <1>5, <2>2 DEF RecordIInv, TokensInOnePlace
  <2>3. QED
    BY <2>1, <2>2
<1>6. \A k \in Tokens : mint[k].at # "unissued" => mint'[k].at # "unissued"
  BY <1>1
<1>7. ASSUME NEW p \in Payments, IsTracked(p)'
      PROVE  /\ mint'[tracked'[p].token].at # "unissued"
             /\ \A q \in Payments \ {p} : tracked'[q].token # tracked'[p].token
  <2>1. IsTracked(p) /\ tracked' = tracked
    BY <1>1, <1>7 DEF IsTracked
  <2>2. QED
    BY <1>6, <2>1, TrackedEntry DEF RecordIInv, TokensInOnePlace
<1>8. \A k \in Tokens : told'[k] # {} => mint'[k].at # "unissued"
  BY <1>1, <1>6 DEF RecordIInv, TokensInOnePlace
<1>9. QED
  BY <1>5, <1>7, <1>8 DEF TokensInOnePlace

LEMMA InsertIntentRecord ==
  ASSUME RecordIInv, NEW t \in Tasks, InsertIntent(t)
  PROVE  TokensInOnePlace' /\ AnswersAreRecorded' /\ AnswersAgree'
<1> DEFINE p == call[t].payment
           k == call[t].token
<1>1. p \in Payments /\ k \in Tokens /\ Holds(t, k) /\ k # NoToken
  BY EscrowAssumption DEF RecordIInv, TypeOK, Call, TokensInHand, InsertIntent, Holds
<1>2. /\ tracked'[p].token = k /\ tracked'[p].status = "claimable"
      /\ \A q \in Payments \ {p} : tracked'[q] = tracked[q]
      /\ UNCHANGED <<mint, told>>
  BY <1>1 DEF RecordIInv, TypeOK, InsertIntent
<1>3. /\ \A u \in Tasks, j \in Tokens : Holds(u, j)' => Holds(u, j) /\ u # t
  BY FinishEffect DEF RecordIInv, Holds, InsertIntent
<1>4. /\ mint[k].at # "unissued" /\ told[k] = {}
      /\ \A q \in Payments : tracked[q].token # k
      /\ \A u \in Tasks \ {t} : ~Holds(u, k)
  BY <1>1 DEF RecordIInv, TokensInOnePlace
<1>5. TokensInOnePlace'
  <2>1. ASSUME NEW u \in Tasks, NEW j \in Tokens, Holds(u, j)'
        PROVE  /\ mint'[j].at # "unissued" /\ told'[j] = {}
               /\ \A q \in Payments : tracked'[q].token # j
               /\ \A v \in Tasks \ {u} : ~Holds(v, j)'
    <3>1. Holds(u, j) /\ j # k
      BY <1>3, <1>4, <2>1
    <3>2. QED
      BY <1>2, <1>3, <3>1 DEF RecordIInv, TokensInOnePlace
  <2>2. ASSUME NEW q \in Payments, IsTracked(q)'
        PROVE  /\ mint'[tracked'[q].token].at # "unissued"
               /\ \A r \in Payments \ {q} : tracked'[r].token # tracked'[q].token
    BY <1>2, <1>4, <2>2 DEF RecordIInv, TokensInOnePlace, IsTracked
  <2>3. \A j \in Tokens : told'[j] # {} => mint'[j].at # "unissued"
    BY <1>2 DEF RecordIInv, TokensInOnePlace
  <2>4. QED
    BY <2>1, <2>2, <2>3 DEF TokensInOnePlace
<1>6. AnswersAreRecorded'
  BY <1>2, <1>4 DEF RecordIInv, AnswersAreRecorded, IsTracked
<1>7. AnswersAgree'
  BY <1>2 DEF RecordIInv, AnswersAgree
<1>8. QED
  BY <1>5, <1>6, <1>7

\* The steps of one call, and a status query: each is an insertion, one settlement,
\* or leaves the map and the answers alone.
LEMMA CallKeepsRecord ==
  ASSUME RecordIInv, TypeOK', NEW t \in Tasks, TaskStep(t) \/ LoseAnswer(t) \/ AbandonCall(t)
  PROVE  TokensInOnePlace' /\ AnswersAreRecorded' /\ AnswersAgree'
<1>0. call[t] \in Call /\ call[t].payment \in Payments
  BY DEF RecordIInv, TypeOK, Call
<1>1. ASSUME NEW tok \in Tokens, ConfirmSend(t, tok)
      PROVE  TokensInOnePlace' /\ AnswersAreRecorded' /\ AnswersAgree'
  BY <1>1, ConfirmSendCustody, RecordUntouched DEF RecordIInv, ConfirmSend
<1>2. CASE FailSend(t) \/ (\E f \in BOOLEAN : RefuseIntent(t, f)) \/ RefuseSettle(t) \/ RecordFailed(t) \/ AbandonCall(t)
  <2>1. Finish(t) /\ UNCHANGED <<now, mint, tracked, told>>
    BY <1>2 DEF FailSend, RefuseIntent, RefuseSettle, RecordFailed, AbandonCall
  <2>2. \A u \in Tasks, k \in Tokens : Holds(u, k)' => Holds(u, k)
    BY <2>1, FinishEffect DEF RecordIInv, Holds
  <2>3. QED
    BY <2>1, <2>2, CustodyKept, RecordUntouched DEF RecordIInv
<1>3. CASE (\E f \in BOOLEAN : BuildIntent(t, f)) \/ AskMint(t) \/ MintUnreachable(t) \/ LoseAnswer(t)
  <2>1. UNCHANGED <<mint, tracked, told>>
    BY <1>3 DEF BuildIntent, AskMint, MintUnreachable, LoseAnswer
  <2>2. \A u \in Tasks, k \in Tokens : Holds(u, k)' => Holds(u, k)
    BY <1>3 DEF RecordIInv, TypeOK, Holds, BuildIntent, AskMint, MintUnreachable, LoseAnswer
  <2>3. QED
    BY <2>1, <2>2, CustodyKept, RecordUntouched DEF RecordIInv
<1>4. ASSUME NEW key \in Keys, MintAnswers(t, key)
      PROVE  TokensInOnePlace' /\ AnswersAreRecorded' /\ AnswersAgree'
  <2>1. \A k \in Tokens : mint[k].at # "unissued" => mint'[k].at # "unissued"
    <3>1. CASE Opens(key, call[t].token)
      <4>1. call[t].token \in Tokens /\ Redeemed(call[t].token, key, call[t].op)
        BY <1>4, <3>1 DEF RecordIInv, TokensInHand, MintAnswers
      <4>2. key # "unissued" /\ key \in Spent /\ call[t].op \in Operations
        BY <1>0 DEF Call, Keys, Spent
      <4>3. QED
        BY <4>1, <4>2, RedeemedEffect DEF RecordIInv
    <3>2. CASE ~Opens(key, call[t].token)
      BY <1>4, <3>2 DEF MintAnswers
    <3>3. QED
      BY <3>1, <3>2
  <2>2. \A u \in Tasks, k \in Tokens : Holds(u, k)' => Holds(u, k)
    BY <1>4 DEF RecordIInv, TypeOK, Holds, MintAnswers
  <2>3. UNCHANGED <<tracked, told>>
    BY <1>4 DEF MintAnswers
  <2>4. QED
    BY <2>1, <2>2, <2>3, CustodyKept, RecordUntouched DEF RecordIInv
<1>5. CASE InsertIntent(t)
  BY <1>5, InsertIntentRecord
<1>6. CASE RecordPaid(t) \/ RecordSpent(t)
  <2> DEFINE p == call[t].payment
             s == tracked[p].status
  <2>1. Finish(t) /\ writer = t /\ UNCHANGED mint
    BY <1>6 DEF RecordIInv, LockDiscipline, RecordPaid, RecordSpent
  <2>2. IsTracked(p) /\ s \in TrackedStatuses
    BY <1>0, <2>1, TrackedEntry DEF RecordIInv, LockDiscipline
  <2>3. PICK to \in TrackedStatuses :
          /\ to = s \/ s = "claimable"
          /\ SetStatus(p, to)
          /\ \/ told' = told
             \/ told' = [told EXCEPT ![tracked[p].token] = @ \cup {to}]
    <3>1. CASE RecordPaid(t)
      <4> DEFINE to == IF call[t].op = "claim" THEN Moved(s, "claimed")
                       ELSE Moved(Moved(s, "refund_available"), "refunded")
      <4>1. to \in TrackedStatuses /\ (to = s \/ s = "claimable")
        BY SMTT(30), <2>2, MovedStatuses DEF TrackedStatuses
      <4>2. /\ SetStatus(p, to)
            /\ \/ told' = told
               \/ told' = [told EXCEPT ![tracked[p].token] = @ \cup {to}]
        BY <3>1 DEF RecordPaid
      <4>3. QED
        BY SMTT(30), <4>1, <4>2
    <3>2. CASE RecordSpent(t)
      <4> DEFINE to == Moved(s, IF call[t].op = "claim" THEN "refunded" ELSE "claimed")
      <4>1. to \in TrackedStatuses /\ (to = s \/ s = "claimable")
        BY <2>2, MovedStatuses DEF TrackedStatuses
      <4>2. SetStatus(p, to) /\ told' = told
        BY <3>2 DEF RecordSpent
      <4>3. QED
        BY <4>1, <4>2
    <3>3. QED
      BY SMTT(30), <1>6, <3>1, <3>2
  <2>4. /\ tracked'[p].status = to
        /\ \A q \in Payments : /\ tracked'[q].token = tracked[q].token
                               /\ q # p => tracked'[q] = tracked[q]
    BY <1>0, <2>2, <2>3, SetStatusEffect DEF RecordIInv
  <2>5. \A u \in Tasks, k \in Tokens : Holds(u, k)' => Holds(u, k)
    BY <2>1, FinishEffect DEF RecordIInv, Holds
  <2>6. \A k \in Tokens : told'[k] = told[k] \/ tracked[p].token = k
    BY <2>3 DEF RecordIInv, TypeOK
  <2>7. TokensInOnePlace'
    BY <1>0, <2>1, <2>2, <2>4, <2>5, <2>6, CustodyKept DEF RecordIInv
  <2>8. AnswersAreRecorded' /\ AnswersAgree'
    BY <1>0, <2>2, <2>3, <2>4, SettleKeepsRecord DEF RecordIInv
  <2>9. QED
    BY <2>7, <2>8
<1>7. QED
  BY <1>1, <1>2, <1>3, <1>4, <1>5, <1>6 DEF TaskStep

LEMMA GetStatusRecord ==
  ASSUME RecordIInv, TypeOK', NEW p \in Payments, GetStatus(p)
  PROVE  TokensInOnePlace' /\ AnswersAreRecorded' /\ AnswersAgree'
<1>1. IsTracked(p) /\ UNCHANGED <<mint, tracked, pc, call>>
  BY DEF GetStatus
<1>2. \/ told' = told
      \/ told' = [told EXCEPT ![tracked[p].token] = @ \cup {tracked'[p].status}]
  BY <1>1 DEF GetStatus, Status, Terminal
<1>3. \A k \in Tokens : told'[k] = told[k] \/ tracked[p].token = k
  BY <1>2 DEF RecordIInv, TypeOK
<1>4. TokensInOnePlace'
  BY <1>1, <1>3, CustodyKept DEF RecordIInv, Holds
<1>5. AnswersAreRecorded' /\ AnswersAgree'
  BY <1>1, <1>2, SettleKeepsRecord DEF RecordIInv
<1>6. QED
  BY <1>4, <1>5

LEMMA StepRecord == RecordIInv /\ [Next]_vars => RecordIInv'
<1> SUFFICES ASSUME RecordIInv, [Next]_vars
             PROVE  RecordIInv'
  OBVIOUS
<1>0. TypeOK' /\ LockDiscipline' /\ TokensInHand'
  BY StepTypeOK, StepLock DEF RecordIInv
<1>1. ASSUME NEW t \in Tasks, NEW p \in Payments, NEW d \in Delays, StartCreate(t, p, d)
      PROVE  RecordIInv'
  <2>1. \A u \in Tasks, k \in Tokens : Holds(u, k)' => Holds(u, k)
    BY <1>1 DEF RecordIInv, TypeOK, Holds, StartCreate
  <2>2. QED
    BY <1>0, <1>1, <2>1, CustodyKept, RecordUntouched DEF RecordIInv, StartCreate
<1>2. ASSUME NEW t \in Tasks, NEW op \in {"claim", "refund"}, NEW p \in Payments,
             NEW tok \in Tokens \cup {NoToken}, StartSettle(t, op, p, tok)
      PROVE  RecordIInv'
  <2>1. \A u \in Tasks, k \in Tokens : Holds(u, k)' => Holds(u, k)
    BY <1>2 DEF RecordIInv, TypeOK, Holds, StartSettle
  <2>2. QED
    BY <1>0, <1>2, <2>1, CustodyKept, RecordUntouched DEF RecordIInv, StartSettle
<1>3. ASSUME NEW t \in Tasks, TaskStep(t) \/ LoseAnswer(t) \/ AbandonCall(t)
      PROVE  RecordIInv'
  BY <1>0, <1>3, CallKeepsRecord DEF RecordIInv
<1>4. ASSUME NEW p \in Payments, GetStatus(p)
      PROVE  RecordIInv'
  BY <1>0, <1>4, GetStatusRecord DEF RecordIInv
<1>5. ASSUME NEW tok \in Tokens, NEW key \in Elsewhere, SpendElsewhere(tok, key)
      PROVE  RecordIInv'
  <2>1. \A k \in Tokens : mint[k].at # "unissued" => mint'[k].at # "unissued"
    <3>1. key # "unissued" /\ key \in Spent /\ Redeemed(tok, key, "elsewhere")
      BY <1>5, EscrowAssumption DEF Keys, Spent, SpendElsewhere
    <3>2. QED
      BY <3>1, RedeemedEffect DEF RecordIInv
  <2>2. UNCHANGED <<tracked, told, pc, call>>
    BY <1>5 DEF SpendElsewhere
  <2>3. QED
    BY <1>0, <2>1, <2>2, CustodyKept, RecordUntouched DEF RecordIInv, Holds
<1>6. CASE Restart
  <2>1. /\ \A t \in Tasks : pc'[t] = "idle"
        /\ \A p \in Payments : tracked'[p].token = NoToken
        /\ UNCHANGED <<mint, told>>
    BY <1>6, PlaceholderTypes DEF Restart
  <2>2. TokensInOnePlace' /\ AnswersAreRecorded' /\ AnswersAgree'
    BY <2>1 DEF RecordIInv, TokensInOnePlace, Holds, IsTracked, AnswersAreRecorded, AnswersAgree
  <2>3. QED
    BY <1>0, <2>2 DEF RecordIInv
<1>7. CASE Tick \/ UNCHANGED vars
  <2>1. UNCHANGED <<mint, tracked, told, pc, call>>
    BY <1>7 DEF Tick, vars
  <2>2. QED
    BY <1>0, <2>1, CustodyKept, RecordUntouched DEF RecordIInv, Holds
<1>8. QED
  BY <1>1, <1>2, <1>3, <1>4, <1>5, <1>6, <1>7 DEF Next, HandedIn

LEMMA InitRecord == Init => RecordIInv
  BY InitTypeOK, PlaceholderTypes
     DEF Init, RecordIInv, TokensInOnePlace, Holds, IsTracked, AnswersAreRecorded, AnswersAgree

LEMMA RecordInductive == Spec => []RecordIInv
  BY InitRecord, StepRecord, PTL DEF Spec

\* The receipts and status answers about a token never name two outcomes, whatever
\* tokens callers hand in, over retries, lost answers, overwritten ids and restarts.
THEOREM SettledAnswersAgree == Spec => []AnswersAgree
<1>1. RecordIInv => AnswersAgree
  BY DEF RecordIInv
<1>2. QED
  BY <1>1, RecordInductive, PTL

-------------------------------------------------------------------------------
(***************************************************************************)
(* The record and the mint, when callers hand in no token.                 *)
(***************************************************************************)

\* Funds that were spent stay where they are, whoever asks the mint, a token's
\* locktime stays once it is issued, and the clock does not move back.
LEMMA SpentStays ==
  ASSUME TypeOK, TokensInHand, [Next]_vars, NEW k \in Tokens
  PROVE  /\ mint[k].at \in Spent => mint'[k] = mint[k]
         /\ mint[k].at # "unissued" => mint'[k].locktime = mint[k].locktime
         /\ now' \in Nat /\ now' >= now
<1> DEFINE Kept == /\ mint[k].at \in Spent => mint'[k] = mint[k]
                   /\ mint[k].at # "unissued" => mint'[k].locktime = mint[k].locktime
<1>0. now \in Nat /\ \A t \in Tasks : call[t] \in Call
  BY EscrowAssumption DEF TypeOK
<1>1. ASSUME UNCHANGED mint
      PROVE  Kept
  BY <1>1
<1>2. ASSUME NEW t \in Tasks, NEW tok \in Tokens, ConfirmSend(t, tok)
      PROVE  Kept
  BY <1>2 DEF TypeOK, Spent, Keys, ConfirmSend
<1>3. ASSUME NEW tok \in Tokens, NEW key \in Keys, Opens(key, tok),
             NEW by \in Operations \cup {"nobody", "elsewhere"}, Redeemed(tok, key, by)
      PROVE  Kept
  <2>1. mint[tok].at \notin Spent
    BY <1>3 DEF Opens, Spent, Keys
  <2>2. mint'[tok].locktime = mint[tok].locktime /\ \A j \in Tokens \ {tok} : mint'[j] = mint[j]
    BY <1>3, RedeemedEffect DEF Spent
  <2>3. QED
    BY <2>1, <2>2
<1>4. ASSUME NEW t \in Tasks, NEW key \in Keys, MintAnswers(t, key)
      PROVE  Kept
  <2>1. CASE Opens(key, call[t].token)
    <3>1. Redeemed(call[t].token, key, call[t].op) /\ call[t].token \in Tokens
          /\ call[t].op \in Operations
      BY <1>0, <1>4, <2>1 DEF MintAnswers, TokensInHand, Call
    <3>2. QED
      BY <1>3, <2>1, <3>1
  <2>2. CASE ~Opens(key, call[t].token)
    BY <1>1, <1>4, <2>2 DEF MintAnswers
  <2>3. QED
    BY <2>1, <2>2
<1>5. ASSUME NEW t \in Tasks, TaskStep(t) \/ LoseAnswer(t) \/ AbandonCall(t)
      PROVE  Kept /\ now' = now
  <2>1. (\E tok \in Tokens : ConfirmSend(t, tok)) \/ (\E key \in Keys : MintAnswers(t, key))
        \/ UNCHANGED mint
    BY <1>5
       DEF TaskStep, FailSend, BuildIntent, RefuseIntent, InsertIntent, RefuseSettle, AskMint,
           MintUnreachable, RecordPaid, RecordSpent, RecordFailed, LoseAnswer, AbandonCall
  <2>2. now' = now
    BY <1>5
       DEF TaskStep, ConfirmSend, FailSend, BuildIntent, RefuseIntent, InsertIntent, RefuseSettle,
           AskMint, MintAnswers, MintUnreachable, RecordPaid, RecordSpent, RecordFailed,
           LoseAnswer, AbandonCall
  <2>3. QED
    BY <1>1, <1>2, <1>4, <2>1, <2>2
<1>6. ASSUME NEW tok \in Tokens, NEW key \in Elsewhere, SpendElsewhere(tok, key)
      PROVE  Kept /\ now' = now
  <2>1. key \in Keys /\ Opens(key, tok) /\ Redeemed(tok, key, "elsewhere") /\ now' = now
    BY <1>6, EscrowAssumption DEF SpendElsewhere, Keys
  <2>2. QED
    BY <1>3, <2>1
<1>7. CASE UNCHANGED mint /\ (now' = now \/ now' = now + 1)
  BY <1>0, <1>1, <1>7
<1>8. QED
  <2>1. \/ \E t \in Tasks : TaskStep(t) \/ LoseAnswer(t) \/ AbandonCall(t)
        \/ \E tok \in Tokens, key \in Elsewhere : SpendElsewhere(tok, key)
        \/ UNCHANGED mint /\ (now' = now \/ now' = now + 1)
    BY DEF Next, vars, StartCreate, StartSettle, GetStatus, Restart, Tick
  <2>2. QED
    BY <1>0, <1>5, <1>6, <1>7, <2>1

\* What was true of the record and the mint stays true while the record stays.
LEMMA FundsKept ==
  ASSUME TypeOK, TypeOK', TokensInHand, SettledMeansSpent, RefundedMeansRefunded,
         [Next]_vars, UNCHANGED <<tracked, told>>
  PROVE  SettledMeansSpent' /\ RefundedMeansRefunded'
<1>1. \A p \in Payments : IsTracked(p) => tracked[p].token \in Tokens
  BY TrackedEntry
<1>2. \A k \in Tokens : mint[k].at \in Spent => mint'[k] = mint[k]
  BY SpentStays
<1>3. ASSUME NEW k \in Tokens, mint[k].at \in Spent, WasRefunded(k)
      PROVE  WasRefunded(k)'
  <2>1. now \in Nat /\ mint[k].locktime \in Nat /\ now' \in Nat /\ now' >= now
    BY SpentStays, EscrowAssumption DEF TypeOK, Funds
  <2>2. QED
    BY <1>2, <1>3, <2>1 DEF WasRefunded
<1>4. SettledMeansSpent'
  BY <1>1, <1>2 DEF SettledMeansSpent, IsTracked
<1>5. ASSUME NEW p \in Payments, IsTracked(p)', tracked'[p].status = "refunded"
      PROVE  WasRefunded(tracked[p].token)'
  BY <1>1, <1>3, <1>5 DEF RefundedMeansRefunded, SettledMeansSpent, IsTracked, Terminal
<1>6. ASSUME NEW k \in Tokens, "refunded" \in told'[k]
      PROVE  WasRefunded(k)'
  BY <1>3, <1>6 DEF RefundedMeansRefunded, SettledMeansSpent
<1>7. RefundedMeansRefunded'
  BY <1>5, <1>6 DEF RefundedMeansRefunded, WasRefunded
<1>8. QED
  BY <1>4, <1>7

\* Recording a status for one payment whose token the mint agrees was spent so.
LEMMA SettleKeepsFunds ==
  ASSUME TypeOK, TypeOK', SettledMeansSpent, RefundedMeansRefunded,
         NEW p \in Payments, IsTracked(p), NEW to \in TrackedStatuses,
         UNCHANGED <<now, mint>>, tracked'[p].status = to,
         \A q \in Payments : /\ tracked'[q].token = tracked[q].token
                             /\ q # p => tracked'[q] = tracked[q],
         to \in Terminal => mint[tracked[p].token].at \in Spent,
         to = "refunded" => WasRefunded(tracked[p].token),
         \/ told' = told
         \/ to \in Terminal /\ told' = [told EXCEPT ![tracked[p].token] = @ \cup {to}]
  PROVE  SettledMeansSpent' /\ RefundedMeansRefunded'
<1>0. \A k : WasRefunded(k)' <=> WasRefunded(k)
  BY DEF WasRefunded
<1>1. \A k \in Tokens :
        \/ told'[k] = told[k]
        \/ /\ k = tracked[p].token
           /\ to \in Terminal
           /\ told'[k] = told[k] \cup {to}
  BY DEF TypeOK
<1>2. ASSUME NEW q \in Payments, IsTracked(q)'
      PROVE  /\ tracked'[q].status \in Terminal => mint'[tracked'[q].token].at \in Spent
             /\ tracked'[q].status = "refunded" => WasRefunded(tracked'[q].token)
  <2>1. CASE q = p
    BY <2>1
  <2>2. CASE q # p
    <3>1. tracked'[q] = tracked[q] /\ IsTracked(q)
      BY <1>2, <2>2 DEF IsTracked
    <3>2. QED
      BY <3>1 DEF SettledMeansSpent, RefundedMeansRefunded
  <2>3. QED
    BY <2>1, <2>2
<1>3. ASSUME NEW k \in Tokens
      PROVE  /\ told'[k] # {} => mint'[k].at \in Spent
             /\ "refunded" \in told'[k] => WasRefunded(k)
  BY <1>1 DEF SettledMeansSpent, RefundedMeansRefunded
<1>4. SettledMeansSpent'
  BY <1>2, <1>3 DEF SettledMeansSpent
<1>5. RefundedMeansRefunded'
  BY <1>2, <1>3 DEF RefundedMeansRefunded, WasRefunded
<1>6. QED
  BY <1>4, <1>5

\* The locktimes of the map and of the calls about to insert one are the mint's.
LEMMA StepLocktimes ==
  ASSUME RecordIInv, RecordIInv', LocktimesAgree, [Next]_vars
  PROVE  LocktimesAgree'
<1>1. ASSUME NEW p \in Payments, IsTracked(p)', tracked'[p].token = tracked[p].token,
             tracked'[p].locktime = tracked[p].locktime
      PROVE  tracked'[p].locktime = mint'[tracked'[p].token].locktime
  <2>1. IsTracked(p) /\ tracked[p].token \in Tokens /\ mint[tracked[p].token].at # "unissued"
    BY <1>1, TrackedEntry DEF RecordIInv, TokensInOnePlace, IsTracked
  <2>2. QED
    BY <1>1, <2>1, SpentStays DEF RecordIInv, LocktimesAgree
<1>2. ASSUME NEW t \in Tasks, NEW k \in Tokens, Holds(t, k), call'[t].locktime = call[t].locktime
      PROVE  call'[t].locktime = mint'[k].locktime
  <2>1. mint[k].at # "unissued"
    BY <1>2 DEF RecordIInv, TokensInOnePlace
  <2>2. QED
    BY <1>2, <2>1, SpentStays DEF RecordIInv, LocktimesAgree
<1>3. ASSUME \A p \in Payments : /\ tracked'[p].token = tracked[p].token
                                  /\ tracked'[p].locktime = tracked[p].locktime,
             \A t \in Tasks, k \in Tokens :
               Holds(t, k)' => Holds(t, k) /\ call'[t].locktime = call[t].locktime
      PROVE  LocktimesAgree'
  BY <1>1, <1>2, <1>3 DEF LocktimesAgree
<1>4. ASSUME NEW t \in Tasks, NEW tok \in Tokens, ConfirmSend(t, tok)
      PROVE  LocktimesAgree'
  <2>1. /\ mint'[tok].locktime = call[t].locktime /\ UNCHANGED tracked
        /\ call'[t].token = tok /\ call'[t].locktime = call[t].locktime
        /\ \A u \in Tasks \ {t} : pc'[u] = pc[u] /\ call'[u] = call[u]
    BY <1>4 DEF RecordIInv, TypeOK, Call, ConfirmSend
  <2>2. ASSUME NEW u \in Tasks, NEW k \in Tokens, Holds(u, k)'
        PROVE  call'[u].locktime = mint'[k].locktime
    <3>1. CASE u = t
      BY <2>1, <2>2, <3>1 DEF Holds
    <3>2. CASE u # t
      BY <1>2, <2>1, <2>2, <3>2 DEF Holds
    <3>3. QED
      BY <3>1, <3>2
  <2>3. QED
    BY <1>1, <2>1, <2>2 DEF LocktimesAgree
<1>5. ASSUME NEW t \in Tasks, InsertIntent(t)
      PROVE  LocktimesAgree'
  <2> DEFINE p == call[t].payment
  <2>1. /\ p \in Payments /\ Holds(t, call[t].token) /\ call[t].token \in Tokens
        /\ tracked'[p].token = call[t].token /\ tracked'[p].locktime = call[t].locktime
        /\ \A q \in Payments \ {p} : tracked'[q] = tracked[q]
        /\ UNCHANGED mint
    BY <1>5 DEF RecordIInv, TypeOK, Call, TokensInHand, InsertIntent, Holds
  <2>2. \A u \in Tasks, k \in Tokens :
          Holds(u, k)' => Holds(u, k) /\ call'[u].locktime = call[u].locktime
    BY <1>5, FinishEffect DEF RecordIInv, Holds, InsertIntent
  <2>3. tracked'[p].locktime = mint'[tracked'[p].token].locktime
    BY <2>1 DEF LocktimesAgree
  <2>4. QED
    BY <1>1, <1>2, <2>1, <2>2, <2>3 DEF LocktimesAgree
<1>6. ASSUME NEW t \in Tasks, RecordPaid(t) \/ RecordSpent(t)
      PROVE  LocktimesAgree'
  <2>1. PICK s : SetStatus(call[t].payment, s) /\ Finish(t)
    BY <1>6 DEF RecordPaid, RecordSpent
  <2>2. \A p \in Payments : /\ tracked'[p].token = tracked[p].token
                             /\ tracked'[p].locktime = tracked[p].locktime
    BY <2>1 DEF SetStatus, RecordIInv, TypeOK, Tracked, NoPayment
  <2>3. \A u \in Tasks, k \in Tokens :
          Holds(u, k)' => Holds(u, k) /\ call'[u].locktime = call[u].locktime
    BY <2>1, FinishEffect DEF RecordIInv, Holds
  <2>4. QED
    BY <1>3, <2>2, <2>3
<1>7. ASSUME NEW t \in Tasks, Finish(t), UNCHANGED tracked
      PROVE  LocktimesAgree'
  <2>1. \A u \in Tasks, k \in Tokens :
          Holds(u, k)' => Holds(u, k) /\ call'[u].locktime = call[u].locktime
    BY <1>7, FinishEffect DEF RecordIInv, Holds
  <2>2. QED
    BY <1>3, <1>7, <2>1
<1>8. ASSUME NEW t \in Tasks, TaskStep(t) \/ LoseAnswer(t) \/ AbandonCall(t)
      PROVE  LocktimesAgree'
  <2>1. CASE FailSend(t) \/ (\E f \in BOOLEAN : RefuseIntent(t, f)) \/ RefuseSettle(t)
             \/ RecordFailed(t) \/ AbandonCall(t)
    BY <1>7, <2>1 DEF FailSend, RefuseIntent, RefuseSettle, RecordFailed, AbandonCall
  <2>2. CASE (\E f \in BOOLEAN : BuildIntent(t, f)) \/ (\E key \in Keys : MintAnswers(t, key))
             \/ MintUnreachable(t) \/ LoseAnswer(t)
    <3>1. UNCHANGED <<tracked, call>>
      BY <2>2 DEF BuildIntent, MintAnswers, MintUnreachable, LoseAnswer
    <3>2. \A u \in Tasks, k \in Tokens : Holds(u, k)' => Holds(u, k)
      BY <2>2, <3>1 DEF RecordIInv, TypeOK, Holds, BuildIntent, MintAnswers, MintUnreachable,
                       LoseAnswer
    <3>3. QED
      BY <1>3, <3>1, <3>2
  <2>3. CASE AskMint(t)
    <3>1. UNCHANGED tracked /\ pc' = [pc EXCEPT ![t] = "at_mint"]
          /\ \A u \in Tasks \ {t} : call'[u] = call[u]
      BY <2>3, AskMintEffect DEF RecordIInv, AskMint
    <3>2. \A u \in Tasks, k \in Tokens :
            Holds(u, k)' => Holds(u, k) /\ call'[u].locktime = call[u].locktime
      BY <3>1 DEF RecordIInv, TypeOK, Holds
    <3>3. QED
      BY <1>3, <3>1, <3>2
  <2>4. QED
    BY <1>4, <1>5, <1>6, <1>8, <2>1, <2>2, <2>3 DEF TaskStep
<1>9. ASSUME NEW t \in Tasks, UNCHANGED tracked, pc[t] = "idle",
             pc' = [pc EXCEPT ![t] = "locking"] \/ pc' = [pc EXCEPT ![t] = "waiting"],
             \A u \in Tasks \ {t} : call'[u] = call[u]
      PROVE  LocktimesAgree'
  <2>1. \A u \in Tasks, k \in Tokens :
          Holds(u, k)' => Holds(u, k) /\ call'[u].locktime = call[u].locktime
    BY <1>9 DEF RecordIInv, TypeOK, Holds
  <2>2. QED
    BY <1>3, <1>9, <2>1
<1>10. CASE \E t \in Tasks, p \in Payments, d \in Delays : StartCreate(t, p, d)
  BY <1>9, <1>10 DEF StartCreate, RecordIInv, TypeOK
<1>11. CASE \E t \in Tasks, op \in {"claim", "refund"}, p \in Payments, tok \in HandedIn :
              StartSettle(t, op, p, tok)
  BY <1>9, <1>11 DEF StartSettle, RecordIInv, TypeOK
<1>12. CASE Restart
  <2>1. /\ \A t \in Tasks : pc'[t] = "idle"
        /\ \A p \in Payments : tracked'[p].token = NoToken
    BY <1>12, PlaceholderTypes DEF Restart
  <2>2. QED
    BY <2>1 DEF LocktimesAgree, Holds, IsTracked
<1>13. CASE UNCHANGED <<tracked, pc, call>>
  <2>1. \A u \in Tasks, k \in Tokens : Holds(u, k)' => Holds(u, k)
    BY <1>13 DEF Holds
  <2>2. QED
    BY <1>3, <1>13, <2>1
<1>14. QED
  BY <1>8, <1>10, <1>11, <1>12, <1>13 DEF Next, vars, GetStatus, SpendElsewhere, Tick

\* A call that returns leaves the other calls and what they rely on.
LEMMA FinishKeepsReplies ==
  ASSUME FundsIInv, NEW t \in Tasks, Finish(t), UNCHANGED <<now, mint>>,
         writer \in {NoTask, t} \/ UNCHANGED tracked
  PROVE  CallsUseOwnToken' /\ RepliesStayTrue'
<1>1. /\ pc'[t] = "idle" /\ writer' # t
      /\ \A u \in Tasks \ {t} : /\ pc'[u] = pc[u] /\ call'[u] = call[u]
                                /\ reply'[u] = reply[u]
                                /\ writer' = u <=> writer = u
  BY FinishEffect DEF FundsIInv, RecordIInv
<1>2. \A u \in Tasks \ {t} : pc[u] \in {"at_mint", "replied"} => writer = u /\ UNCHANGED tracked
  BY EscrowAssumption DEF FundsIInv, RecordIInv, LockDiscipline
<1>3. \A u \in Tasks \ {t} : writer = u => UNCHANGED tracked
  BY EscrowAssumption
<1>4. CallsUseOwnToken'
  BY <1>1, <1>3 DEF FundsIInv, CallsUseOwnToken
<1>5. RepliesStayTrue'
  BY <1>1, <1>2 DEF FundsIInv, RepliesStayTrue
<1>6. QED
  BY <1>4, <1>5

\* The mint pays a token at most once, so the payment that holds it cannot have been
\* settled before.
LEMMA MintAnswersFunds ==
  ASSUME FundsIInv, NEW t \in Tasks, NEW key \in Keys, MintAnswers(t, key)
  PROVE  CallsUseOwnToken' /\ RepliesStayTrue'
<1> DEFINE p == call[t].payment
           k == call[t].token
<1>1. /\ pc[t] = "at_mint" /\ writer = t /\ IsTracked(p) /\ p \in Payments
      /\ k = tracked[p].token /\ k \in Tokens /\ call[t].op \in Operations
      /\ UNCHANGED <<now, tracked, writer, call>>
  BY TrackedEntry DEF FundsIInv, RecordIInv, TypeOK, Call, LockDiscipline, CallsUseOwnToken, MintAnswers
<1>2. /\ pc'[t] = "replied"
      /\ \A u \in Tasks \ {t} : pc'[u] = pc[u] /\ pc[u] \notin {"at_mint", "replied"}
  BY <1>1 DEF FundsIInv, RecordIInv, TypeOK, LockDiscipline, MintAnswers
<1>3. CallsUseOwnToken'
  BY <1>1, <1>2 DEF FundsIInv, CallsUseOwnToken
<1>4. CASE Opens(key, k)
  <2>1. reply'[t] = "paid" /\ Redeemed(k, key, call[t].op)
    BY <1>1, <1>4 DEF FundsIInv, RecordIInv, TypeOK, MintAnswers
  <2>2. mint'[k].at \in Spent /\ mint'[k].by = call[t].op
    BY <1>1, <2>1, RedeemedEffect DEF FundsIInv, RecordIInv, Spent
  <2>3. tracked[p].status = "claimable"
    <3>1. mint[k].at \notin Spent
      BY <1>4 DEF Opens, Spent, Keys
    <3>2. tracked[p].status \in TrackedStatuses /\ tracked[p].status \notin Terminal
      BY <1>1, <3>1, TrackedEntry DEF FundsIInv, RecordIInv, SettledMeansSpent
    <3>3. QED
      BY <3>2 DEF TrackedStatuses, Terminal
  <2>4. ASSUME NEW u \in Tasks, pc'[u] = "replied"
        PROVE  /\ u = t /\ call'[u] = call[t] /\ reply'[u] = "paid"
               /\ tracked'[p].status = "claimable"
    <3>1. u = t
      BY <1>2, <2>4
    <3>2. QED
      BY <1>1, <2>1, <2>3, <3>1
  <2>5. RepliesStayTrue'
    BY <2>2, <2>4 DEF RepliesStayTrue
  <2>6. QED
    BY <1>3, <2>5
<1>5. CASE ~Opens(key, k)
  <2>1. /\ reply'[t] = IF mint[k].at \in Spent THEN "spent" ELSE "failed"
        /\ UNCHANGED mint
    BY <1>5 DEF FundsIInv, RecordIInv, TypeOK, MintAnswers
  <2>2. ASSUME NEW u \in Tasks, pc'[u] = "replied"
        PROVE  /\ reply'[u] # "paid"
               /\ reply'[u] = "spent" => mint'[call'[u].token].at \in Spent
    <3>1. u = t
      BY <1>2, <2>2
    <3>2. QED
      BY <1>1, <2>1, <3>1
  <2>3. RepliesStayTrue'
    BY <2>2 DEF RepliesStayTrue
  <2>4. QED
    BY <1>3, <2>3
<1>6. QED
  BY <1>4, <1>5

\* A record is moved to refunded by a refund call the mint paid, after the locktime,
\* and by nothing else.
LEMMA RecordFunds ==
  ASSUME FundsIInv, TypeOK', NEW t \in Tasks, RecordPaid(t) \/ RecordSpent(t)
  PROVE  SettledMeansSpent' /\ RefundedMeansRefunded'
<1> DEFINE p == call[t].payment
           k == tracked[p].token
           s == tracked[p].status
<1>1. /\ pc[t] = "replied" /\ writer = t /\ IsTracked(p) /\ p \in Payments
      /\ k = call[t].token /\ s \in TrackedStatuses
  BY TrackedEntry DEF FundsIInv, RecordIInv, TypeOK, Call, LockDiscipline, CallsUseOwnToken,
                      RecordPaid, RecordSpent
<1>2. PICK to \in TrackedStatuses :
        /\ SetStatus(p, to) /\ UNCHANGED <<now, mint>>
        /\ to \in Terminal => mint[k].at \in Spent
        /\ to = "refunded" => WasRefunded(k)
        /\ \/ told' = told
           \/ to \in Terminal /\ told' = [told EXCEPT ![k] = @ \cup {to}]
  <2>1. CASE RecordPaid(t)
    <3> DEFINE wanted == IF call[t].op = "claim" THEN "claimed" ELSE "refunded"
               to == IF call[t].op = "claim" THEN Moved(s, "claimed")
                     ELSE Moved(Moved(s, "refund_available"), "refunded")
    <3>1. /\ s = "claimable" /\ mint[k].at \in Spent /\ mint[k].by = call[t].op
          /\ call[t].op \in {"claim", "refund"}
          /\ call[t].op = "refund" => now >= mint[k].locktime
      BY <1>1, <2>1 DEF FundsIInv, RepliesStayTrue, CallsUseOwnToken, LocktimesAgree, RecordPaid
    <3>2. \/ call[t].op = "claim" /\ to = "claimed" /\ wanted = "claimed"
          \/ call[t].op = "refund" /\ to = "refunded" /\ wanted = "refunded"
      BY <1>1, <3>1, MovedStatuses
    <3>3. to = "refunded" => WasRefunded(k)
      BY <3>1, <3>2 DEF WasRefunded
    <3>4. SetStatus(p, to) /\ UNCHANGED <<now, mint>> /\ told' = [told EXCEPT ![k] = @ \cup {to}]
      BY <2>1, <3>2 DEF RecordPaid
    <3>5. QED
      BY <3>1, <3>2, <3>3, <3>4 DEF TrackedStatuses, Terminal
  <2>2. CASE RecordSpent(t)
    <3> DEFINE to == Moved(s, IF call[t].op = "claim" THEN "refunded" ELSE "claimed")
    <3>1. mint[k].at \in Spent
      BY <1>1, <2>2 DEF FundsIInv, RepliesStayTrue, RecordSpent
    <3>2. to \in TrackedStatuses /\ (to = "refunded" => s = "refunded")
      BY <1>1, MovedStatuses DEF TrackedStatuses
    <3>3. s = "refunded" => WasRefunded(k)
      BY <1>1 DEF FundsIInv, RefundedMeansRefunded
    <3>4. SetStatus(p, to) /\ UNCHANGED <<now, mint, told>>
      BY <2>2 DEF RecordSpent
    <3>5. QED
      BY <3>1, <3>2, <3>3, <3>4
  <2>3. QED
    BY SMTT(30), <2>1, <2>2
<1>3. /\ tracked'[p].status = to
      /\ \A q \in Payments : /\ tracked'[q].token = tracked[q].token
                             /\ q # p => tracked'[q] = tracked[q]
  BY <1>1, <1>2, SetStatusEffect DEF FundsIInv, RecordIInv
<1>4. QED
  BY <1>1, <1>2, <1>3, SettleKeepsFunds DEF FundsIInv, RecordIInv

\* What the calls rely on is kept by every step that leaves the record alone.
LEMMA CallKeepsReplies ==
  ASSUME FundsIInv, NEW t \in Tasks, TaskStep(t) \/ LoseAnswer(t) \/ AbandonCall(t),
         UNCHANGED <<now, tracked, told>>
  PROVE  CallsUseOwnToken' /\ RepliesStayTrue'
<1>1. ASSUME NEW tok \in Tokens, ConfirmSend(t, tok)
      PROVE  CallsUseOwnToken' /\ RepliesStayTrue'
  <2>1. /\ mint[tok].at = "unissued" /\ \A k \in Tokens \ {tok} : mint'[k] = mint[k]
        /\ pc[t] = "locking" /\ pc' = [pc EXCEPT ![t] = "confirmed"]
        /\ \A u \in Tasks \ {t} : call'[u] = call[u]
        /\ UNCHANGED <<tracked, writer, reply>>
    BY <1>1 DEF FundsIInv, RecordIInv, TypeOK, ConfirmSend
  <2>2. /\ pc'[t] = "confirmed" /\ writer # t
        /\ \A u \in Tasks \ {t} : pc'[u] = pc[u]
    BY <2>1 DEF FundsIInv, RecordIInv, TypeOK, LockDiscipline
  <2>3. CallsUseOwnToken'
    BY <2>1, <2>2 DEF FundsIInv, CallsUseOwnToken
  <2>4. \A u \in Tasks : pc[u] = "replied" => /\ IsTracked(call[u].payment)
                                              /\ call[u].payment \in Payments
                                              /\ call[u].token = tracked[call[u].payment].token
    BY DEF FundsIInv, RecordIInv, TypeOK, Call, LockDiscipline, CallsUseOwnToken
  <2>5. \A u \in Tasks : pc[u] = "replied" => /\ call[u].token \in Tokens
                                              /\ call[u].token # tok
    BY <2>1, <2>4, TrackedEntry DEF FundsIInv, RecordIInv, TokensInOnePlace
  <2>6. RepliesStayTrue'
    BY <2>1, <2>2, <2>5 DEF FundsIInv, RepliesStayTrue
  <2>7. QED
    BY <2>3, <2>6
<1>2. CASE FailSend(t) \/ (\E f \in BOOLEAN : RefuseIntent(t, f)) \/ RefuseSettle(t) \/ RecordFailed(t)
           \/ AbandonCall(t)
  <2>1. Finish(t) /\ UNCHANGED <<now, mint, tracked>>
    BY <1>2 DEF FailSend, RefuseIntent, RefuseSettle, RecordFailed, AbandonCall
  <2>2. QED
    BY <2>1, FinishKeepsReplies
<1>3. CASE \E f \in BOOLEAN : BuildIntent(t, f)
  BY <1>3 DEF FundsIInv, RecordIInv, TypeOK, CallsUseOwnToken, RepliesStayTrue, BuildIntent
<1>4. CASE AskMint(t)
  <2>1. /\ pc[t] = "waiting" /\ pc'[t] = "at_mint" /\ writer = NoTask /\ writer' = t
        /\ \A u \in Tasks \ {t} : pc'[u] = pc[u]
        /\ UNCHANGED <<mint, tracked, reply>>
    BY <1>4 DEF FundsIInv, RecordIInv, TypeOK, AskMint
  <2>2. call[t].token = NoToken /\ ~TooEarly(t)
    BY <1>4, <2>1 DEF FundsIInv, CallsUseOwnToken, AskMint
  <2>3. /\ call'[t].token = tracked[call[t].payment].token
        /\ call'[t].payment = call[t].payment
        /\ call'[t].op = call[t].op
        /\ \A u \in Tasks \ {t} : call'[u] = call[u]
    BY <1>4, <2>2, AskMintEffect DEF FundsIInv, RecordIInv
  <2>3a. call[t].op = "refund" => now >= tracked[call[t].payment].locktime
    <3>0. call[t].payment \in Payments /\ IsTracked(call[t].payment)
      BY <1>4, AskMintEffect DEF FundsIInv, RecordIInv
    <3>1. now \in Nat /\ tracked[call[t].payment].locktime \in Nat
      BY <3>0, TrackedEntry, EscrowAssumption DEF FundsIInv, RecordIInv, TypeOK, Tracked
    <3>2. QED
      BY <2>2, <3>1 DEF TooEarly
  <2>4. CallsUseOwnToken'
    BY <2>1, <2>2, <2>3, <2>3a DEF FundsIInv, CallsUseOwnToken
  <2>5. RepliesStayTrue'
    BY <2>1, <2>3 DEF FundsIInv, RepliesStayTrue
  <2>6. QED
    BY <2>4, <2>5
<1>5. CASE \E key \in Keys : MintAnswers(t, key)
  BY <1>5, MintAnswersFunds
<1>6. CASE MintUnreachable(t) \/ LoseAnswer(t)
  <2>1. /\ pc[t] \in {"at_mint", "replied"} /\ reply'[t] = "failed" /\ pc'[t] = "replied"
        /\ \A u \in Tasks \ {t} : pc'[u] = pc[u] /\ reply'[u] = reply[u]
        /\ UNCHANGED <<mint, tracked, writer, call>>
    BY <1>6 DEF FundsIInv, RecordIInv, TypeOK, MintUnreachable, LoseAnswer
  <2>2. CallsUseOwnToken'
    BY <2>1 DEF FundsIInv, CallsUseOwnToken
  <2>3. RepliesStayTrue'
    BY <2>1 DEF FundsIInv, RepliesStayTrue
  <2>4. QED
    BY <2>2, <2>3
<1>7. CASE InsertIntent(t) \/ RecordPaid(t) \/ RecordSpent(t)
  <2>1. Finish(t) /\ UNCHANGED <<now, mint, tracked>>
    BY <1>7 DEF InsertIntent, RecordPaid, RecordSpent
  <2>2. QED
    BY <2>1, FinishKeepsReplies
<1>8. QED
  BY <1>1, <1>2, <1>3, <1>4, <1>5, <1>6, <1>7 DEF TaskStep

LEMMA CallKeepsFunds ==
  ASSUME ~ForeignTokens, FundsIInv, RecordIInv', LocktimesAgree', [Next]_vars,
         NEW t \in Tasks, TaskStep(t) \/ LoseAnswer(t) \/ AbandonCall(t)
  PROVE  FundsIInv'
<1>0. call[t] \in Call /\ call[t].payment \in Payments
  BY DEF FundsIInv, RecordIInv, TypeOK, Call
<1>1. CASE UNCHANGED <<now, tracked, told>>
  <2>1. SettledMeansSpent' /\ RefundedMeansRefunded'
    BY <1>1, FundsKept DEF FundsIInv, RecordIInv
  <2>2. CallsUseOwnToken' /\ RepliesStayTrue'
    BY <1>1, CallKeepsReplies
  <2>3. QED
    BY <2>1, <2>2 DEF FundsIInv
<1>2. CASE InsertIntent(t)
  <2>1. /\ tracked'[call[t].payment].status = "claimable"
        /\ \A q \in Payments : q # call[t].payment => tracked'[q] = tracked[q]
        /\ Finish(t) /\ UNCHANGED <<now, mint, told>> /\ writer = NoTask
    BY <1>0, <1>2 DEF FundsIInv, RecordIInv, TypeOK, InsertIntent
  <2>2. SettledMeansSpent' /\ RefundedMeansRefunded'
    BY <2>1 DEF FundsIInv, SettledMeansSpent, RefundedMeansRefunded, WasRefunded, IsTracked, Terminal
  <2>3. QED
    BY <2>1, <2>2, FinishKeepsReplies DEF FundsIInv
<1>3. CASE RecordPaid(t) \/ RecordSpent(t)
  <2>1. SettledMeansSpent' /\ RefundedMeansRefunded'
    BY <1>3, RecordFunds DEF RecordIInv
  <2>2. Finish(t) /\ writer = t /\ UNCHANGED <<now, mint>>
    BY <1>3 DEF FundsIInv, RecordIInv, LockDiscipline, RecordPaid, RecordSpent
  <2>3. QED
    BY <2>1, <2>2, FinishKeepsReplies DEF FundsIInv
<1>4. CASE ~(InsertIntent(t) \/ RecordPaid(t) \/ RecordSpent(t))
  <2>1. UNCHANGED <<now, tracked, told>>
    BY <1>4 DEF TaskStep, ConfirmSend, FailSend, BuildIntent, RefuseIntent, RefuseSettle, AskMint,
                MintAnswers, MintUnreachable, RecordFailed, LoseAnswer, AbandonCall
  <2>2. QED
    BY <1>1, <2>1
<1>5. QED
  BY <1>2, <1>3, <1>4

LEMMA StepFunds == ~ForeignTokens /\ FundsIInv /\ [Next]_vars => FundsIInv'
<1> SUFFICES ASSUME ~ForeignTokens, FundsIInv, [Next]_vars
             PROVE  FundsIInv'
  OBVIOUS
<1>0. RecordIInv' /\ LocktimesAgree'
  BY StepRecord, StepLocktimes DEF FundsIInv
<1>1. ASSUME UNCHANGED <<tracked, told>>
      PROVE  SettledMeansSpent' /\ RefundedMeansRefunded'
  BY <1>0, <1>1, FundsKept DEF FundsIInv, RecordIInv
<1>2. ASSUME NEW t \in Tasks, NEW p \in Payments, NEW d \in Delays, StartCreate(t, p, d)
      PROVE  FundsIInv'
  <2>1. CallsUseOwnToken' /\ RepliesStayTrue'
    BY <1>2 DEF FundsIInv, RecordIInv, TypeOK, LockDiscipline, CallsUseOwnToken, RepliesStayTrue,
                StartCreate
  <2>2. QED
    BY <1>0, <1>1, <1>2, <2>1 DEF FundsIInv, StartCreate
<1>3. ASSUME NEW t \in Tasks, NEW p \in Payments, NEW op \in {"claim", "refund"},
             StartSettle(t, op, p, NoToken)
      PROVE  FundsIInv'
  <2>1. /\ pc[t] = "idle" /\ pc'[t] = "waiting" /\ call'[t].token = NoToken /\ call'[t].op = op
        /\ writer # t
        /\ \A u \in Tasks \ {t} : pc'[u] = pc[u] /\ call'[u] = call[u]
        /\ UNCHANGED <<now, mint, tracked, writer, reply, told>>
    BY <1>3, PlaceholderTypes DEF FundsIInv, RecordIInv, TypeOK, Call, LockDiscipline, StartSettle
  <2>2. CallsUseOwnToken' /\ RepliesStayTrue'
    BY <1>3, <2>1 DEF FundsIInv, CallsUseOwnToken, RepliesStayTrue
  <2>3. QED
    BY <1>0, <1>1, <2>1, <2>2 DEF FundsIInv
<1>4. ASSUME NEW t \in Tasks, TaskStep(t) \/ LoseAnswer(t) \/ AbandonCall(t)
      PROVE  FundsIInv'
  BY <1>0, <1>4, CallKeepsFunds
<1>5. ASSUME NEW p \in Payments, GetStatus(p)
      PROVE  FundsIInv'
  <2>1. CallsUseOwnToken' /\ RepliesStayTrue'
    BY <1>5 DEF FundsIInv, CallsUseOwnToken, RepliesStayTrue, GetStatus
  <2>2. IsTracked(p) /\ tracked[p] \in Tracked /\ tracked[p].status \in TrackedStatuses
    BY <1>5, TrackedEntry DEF FundsIInv, RecordIInv, GetStatus
  <2>3. \/ told' = told
        \/ /\ tracked[p].status \in Terminal
           /\ told' = [told EXCEPT ![tracked[p].token] = @ \cup {tracked[p].status}]
    BY <1>5 DEF GetStatus, Status, Terminal
  <2>4. /\ tracked[p].status \in Terminal => mint[tracked[p].token].at \in Spent
        /\ tracked[p].status = "refunded" => WasRefunded(tracked[p].token)
    BY <2>2 DEF FundsIInv, SettledMeansSpent, RefundedMeansRefunded
  <2>5. SettledMeansSpent' /\ RefundedMeansRefunded'
    BY <1>0, <1>5, <2>2, <2>3, <2>4, SettleKeepsFunds DEF FundsIInv, RecordIInv, GetStatus
  <2>6. QED
    BY <1>0, <2>1, <2>5 DEF FundsIInv
<1>6. ASSUME NEW tok \in Tokens, NEW key \in Elsewhere, SpendElsewhere(tok, key)
      PROVE  FundsIInv'
  <2>1. UNCHANGED <<now, tracked, writer, pc, call, reply, told>>
    BY <1>6 DEF SpendElsewhere
  <2>2. CallsUseOwnToken'
    BY <2>1 DEF FundsIInv, CallsUseOwnToken
  <2>3. ASSUME NEW t \in Tasks, pc[t] = "replied", reply[t] \in {"paid", "spent"}
        PROVE  mint'[call[t].token] = mint[call[t].token]
    <3>1. call[t].token \in Tokens /\ mint[call[t].token].at \in Spent
      BY <2>3 DEF FundsIInv, RecordIInv, TokensInHand, RepliesStayTrue
    <3>2. QED
      BY <3>1, SpentStays DEF FundsIInv, RecordIInv
  <2>4. RepliesStayTrue'
    BY <2>1, <2>3 DEF FundsIInv, RepliesStayTrue
  <2>5. QED
    BY <1>0, <1>1, <2>1, <2>2, <2>4 DEF FundsIInv
<1>7. CASE Restart
  <2>1. /\ \A t \in Tasks : pc'[t] = "idle" /\ writer' # t
        /\ \A p \in Payments : tracked'[p].token = NoToken
        /\ UNCHANGED <<now, mint, told>>
    BY <1>7, PlaceholderTypes, EscrowAssumption DEF Restart
  <2>2. CallsUseOwnToken' /\ RepliesStayTrue' /\ SettledMeansSpent' /\ RefundedMeansRefunded'
    BY <2>1 DEF FundsIInv, CallsUseOwnToken, RepliesStayTrue, SettledMeansSpent,
                RefundedMeansRefunded, WasRefunded, IsTracked
  <2>3. QED
    BY <1>0, <2>2 DEF FundsIInv
<1>8. CASE Tick \/ UNCHANGED vars
  <2>1. UNCHANGED <<mint, tracked, writer, pc, call, reply, told>>
    BY <1>8 DEF Tick, vars
  <2>2. ASSUME NEW t \in Tasks, writer = t, call[t].op = "refund"
        PROVE  now' >= tracked[call[t].payment].locktime
    <3>1. call[t].payment \in Payments /\ IsTracked(call[t].payment)
      BY <2>2 DEF FundsIInv, RecordIInv, TypeOK, Call, LockDiscipline
    <3>2. /\ now \in Nat /\ tracked[call[t].payment].locktime \in Nat
          /\ now' = now \/ now' = now + 1
      BY <1>8, <3>1, TrackedEntry, EscrowAssumption
         DEF FundsIInv, RecordIInv, TypeOK, Tracked, Tick, vars
    <3>3. now >= tracked[call[t].payment].locktime
      BY <2>2 DEF FundsIInv, CallsUseOwnToken
    <3>4. QED
      BY <3>2, <3>3
  <2>2a. CallsUseOwnToken' /\ RepliesStayTrue'
    BY <2>1, <2>2 DEF FundsIInv, CallsUseOwnToken, RepliesStayTrue
  <2>3. QED
    BY <1>0, <1>1, <2>1, <2>2a DEF FundsIInv
<1>9. HandedIn = {NoToken}
  BY DEF HandedIn
<1>10. QED
  BY <1>2, <1>3, <1>4, <1>5, <1>6, <1>7, <1>8, <1>9 DEF Next

LEMMA InitFunds == Init => FundsIInv
  BY InitRecord, PlaceholderTypes, EscrowAssumption
     DEF Init, FundsIInv, CallsUseOwnToken, LocktimesAgree, Holds, RepliesStayTrue, SettledMeansSpent,
         RefundedMeansRefunded, IsTracked

LEMMA FundsInductive ==
  ASSUME ~ForeignTokens
  PROVE  Spec => []FundsIInv
<1>1. FundsIInv /\ [Next]_vars => FundsIInv'
  BY StepFunds
<1>2. QED
  BY <1>1, InitFunds, PTL DEF Spec

\* The provider never records or reports a payment as settled whose funds are still
\* locked at the mint, if callers hand in no token of their own.
THEOREM SettlementsAreSpent ==
  ASSUME ~ForeignTokens
  PROVE  Spec => []SettledMeansSpent
<1>1. FundsIInv => SettledMeansSpent
  BY DEF FundsIInv
<1>2. QED
  BY <1>1, FundsInductive, PTL

\* The provider never records or reports a refund unless one of its refund calls had
\* the token redeemed, its locktime reached: whatever keys callers use, with or without
\* a refund key, and although a claim that finds its token spent tries to record one.
THEOREM RefundsAreReal ==
  ASSUME ~ForeignTokens
  PROVE  Spec => []RefundedMeansRefunded
<1>1. FundsIInv => RefundedMeansRefunded
  BY DEF FundsIInv
<1>2. QED
  BY <1>1, FundsInductive, PTL

\* Between the mint's payment and its record nothing intervenes: the payment is still
\* in the map, claimable and with the token that was paid.
THEOREM PaymentsAreRecordable ==
  ASSUME ~ForeignTokens
  PROVE  Spec => []PaidIsRecordable
<1>1. FundsIInv => PaidIsRecordable
  <2>1. ASSUME FundsIInv, NEW t \in Tasks, pc[t] = "replied", reply[t] = "paid"
        PROVE  /\ tracked[call[t].payment].token = call[t].token
               /\ tracked[call[t].payment].status = "claimable"
    BY <2>1 DEF FundsIInv, RecordIInv, LockDiscipline, CallsUseOwnToken, RepliesStayTrue
  <2>2. QED
    BY <2>1 DEF PaidIsRecordable
<1>2. QED
  BY <1>1, FundsInductive, PTL
==============================================================================
