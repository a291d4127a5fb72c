------------------------- MODULE WalletInterfaceProofs -------------------------
(***************************************************************************)
(* Proofs about WalletInterface, for any number of threads, quotes,        *)
(* payments and tokens.                                                    *)
(***************************************************************************)
EXTENDS WalletInterface, FiniteSetTheorems, TLAPS

ThreadState == [pc : Steps, op : Operations \cup {Nothing}, item : Items, code : {0, 1},
                out : Outputs, error : BOOLEAN]

-------------------------------------------------------------------------------
(***************************************************************************)
(* How a step moves its thread.                                            *)
(***************************************************************************)

\* A function that returns success keeps its name and its message slot.
LEMMA ReturnEffect ==
  ASSUME TypeOK, NEW t \in Threads, NEW x \in Items, NEW out \in Outputs, ReturnItem(t, x, out)
  PROVE  /\ thread' \in [Threads -> ThreadState]
         /\ thread'[t].pc = "returned" /\ thread'[t].op = thread[t].op /\ thread'[t].item = x
         /\ thread'[t].code = 0 /\ thread'[t].out = out /\ thread'[t].error = thread[t].error
         /\ \A u \in Threads \ {t} : thread'[u] = thread[u]
         /\ UNCHANGED handle
<1> DEFINE new == [thread[t] EXCEPT !.pc = "returned", !.item = x, !.code = 0, !.out = out]
<1>1. thread[t] \in ThreadState
  BY DEF TypeOK, ThreadState
<1>2. /\ new \in ThreadState /\ new.pc = "returned" /\ new.op = thread[t].op /\ new.item = x
      /\ new.code = 0 /\ new.out = out /\ new.error = thread[t].error
  BY <1>1 DEF ThreadState, Steps
<1>3. thread' = [thread EXCEPT ![t] = new]
  BY DEF ReturnItem
<1> HIDE DEF new
<1>4. /\ thread' \in [Threads -> ThreadState] /\ thread'[t] = new
      /\ \A u \in Threads \ {t} : thread'[u] = thread[u]
  BY <1>2, <1>3 DEF TypeOK, ThreadState
<1>5. UNCHANGED handle
  BY DEF ReturnItem
<1>6. QED
  BY <1>2, <1>4, <1>5

\* A call that goes on keeps everything but its place.
LEMMA GotoEffect ==
  ASSUME TypeOK, NEW t \in Threads, NEW s \in Steps, Goto(t, s)
  PROVE  /\ thread' \in [Threads -> ThreadState]
         /\ thread'[t].pc = s /\ thread'[t].op = thread[t].op /\ thread'[t].item = thread[t].item
         /\ thread'[t].code = thread[t].code /\ thread'[t].out = thread[t].out
         /\ thread'[t].error = thread[t].error
         /\ \A u \in Threads \ {t} : thread'[u] = thread[u]
<1> DEFINE new == [thread[t] EXCEPT !.pc = s]
<1>1. thread[t] \in ThreadState
  BY DEF TypeOK, ThreadState
<1>2. /\ new \in ThreadState /\ new.pc = s /\ new.op = thread[t].op /\ new.item = thread[t].item
      /\ new.code = thread[t].code /\ new.out = thread[t].out /\ new.error = thread[t].error
  BY <1>1 DEF ThreadState
<1>3. thread' = [thread EXCEPT ![t] = new]
  BY DEF Goto
<1> HIDE DEF new
<1>4. QED
  BY <1>2, <1>3 DEF TypeOK, ThreadState

\* A function that fails leaves its message and nothing of its call.
LEMMA ErrorEffect ==
  ASSUME TypeOK, NEW t \in Threads, ReturnError(t)
  PROVE  /\ thread' \in [Threads -> ThreadState]
         /\ thread'[t].pc = "returned" /\ thread'[t].code = 1 /\ thread'[t].error
         /\ \A u \in Threads \ {t} : thread'[u] = thread[u]
         /\ trouble'
<1> DEFINE new == [pc |-> "returned", op |-> Nothing, item |-> Nothing, code |-> 1,
                   out |-> Nothing, error |-> TRUE]
<1>1. new \in ThreadState /\ new.pc = "returned" /\ new.code = 1 /\ new.error
  BY DEF ThreadState, Steps, Items, Outputs
<1>2. thread' = [thread EXCEPT ![t] = new] /\ trouble'
  BY DEF ReturnError
<1> HIDE DEF new
<1>3. QED
  BY <1>1, <1>2 DEF TypeOK, ThreadState

\* A call begins.
LEMMA CallEffect ==
  ASSUME TypeOK, NEW t \in Threads, NEW op \in Operations, NEW x \in Items, Call(t, op, x)
  PROVE  /\ thread' \in [Threads -> ThreadState]
         /\ thread'[t].pc = "called" /\ thread'[t].op = op /\ thread'[t].item = x
         /\ thread'[t].code = 0
         /\ \A u \in Threads \ {t} : thread'[u] = thread[u]
<1> DEFINE new == [thread[t] EXCEPT !.pc = "called", !.op = op, !.item = x, !.code = 0,
                                    !.out = Nothing]
<1>1. thread[t] \in ThreadState
  BY DEF TypeOK, ThreadState
<1>2. /\ new \in ThreadState /\ new.pc = "called" /\ new.op = op /\ new.item = x /\ new.code = 0
  BY <1>1 DEF ThreadState, Steps, Outputs
<1>3. thread' = [thread EXCEPT ![t] = new]
  BY DEF Call
<1> HIDE DEF new
<1>4. QED
  BY <1>2, <1>3 DEF TypeOK, ThreadState

LEMMA CreateEffect ==
  ASSUME TypeOK, NEW t \in Threads, CreateWallet(t)
  PROVE  /\ thread' \in [Threads -> ThreadState]
         /\ thread'[t].pc = "returned" /\ thread'[t].op = "create" /\ thread'[t].code = 0
         /\ \A u \in Threads \ {t} : thread'[u] = thread[u]
<1> DEFINE new == [thread[t] EXCEPT !.pc = "returned", !.op = "create", !.item = Nothing,
                                    !.code = 0, !.out = "done"]
<1>1. thread[t] \in ThreadState
  BY DEF TypeOK, ThreadState
<1>2. new \in ThreadState /\ new.pc = "returned" /\ new.op = "create" /\ new.code = 0
  BY <1>1 DEF ThreadState, Steps, Outputs, Operations, Items
<1>3. thread' = [thread EXCEPT ![t] = new]
  BY DEF CreateWallet
<1> HIDE DEF new
<1>4. QED
  BY <1>2, <1>3 DEF TypeOK, ThreadState

\* The mint has taken the quote of a payment.
LEMMA ConfirmMeltEffect ==
  ASSUME TypeOK, NEW t \in Threads, ConfirmMelt(t), thread[t].item \in Melts
  PROVE  /\ thread' \in [Threads -> ThreadState]
         /\ thread'[t].pc = "confirmed" /\ thread'[t].op = "melt"
         /\ thread'[t].item = thread[t].item /\ thread'[t].code = thread[t].code
         /\ thread'[t].error = thread[t].error
         /\ \A u \in Threads \ {t} : thread'[u] = thread[u]
         /\ melt' \in [Melts -> MeltStates]
         /\ thread'[t].out = "PAID" => melt'[thread[t].item] = "paid"
         /\ \A m \in Melts : melt[m] = "paid" => melt'[m] = "paid"
<1>1. PICK state \in {"paid", "pending"} :
        /\ melt' = [melt EXCEPT ![thread[t].item] = state]
        /\ thread' = [thread EXCEPT ![t].pc = "confirmed", ![t].out = MeltAnswer(state)]
  BY DEF ConfirmMelt
<1> DEFINE new == [thread[t] EXCEPT !.pc = "confirmed", !.out = MeltAnswer(state)]
<1>2. thread[t] \in ThreadState /\ thread[t].op = "melt" /\ melt[thread[t].item] = "unpaid"
  BY DEF TypeOK, ThreadState, ConfirmMelt, At
<1>3. MeltAnswer(state) \in Outputs /\ (MeltAnswer(state) = "PAID" => state = "paid")
  BY DEF MeltAnswer, Outputs
<1>4. /\ new \in ThreadState /\ new.pc = "confirmed" /\ new.op = "melt"
      /\ new.item = thread[t].item /\ new.code = thread[t].code
      /\ new.out = MeltAnswer(state) /\ new.error = thread[t].error
  BY <1>2, <1>3 DEF ThreadState, Steps
<1>5. thread' = [thread EXCEPT ![t] = new]
  BY <1>1
<1> HIDE DEF new
<1>6. /\ thread' \in [Threads -> ThreadState] /\ thread'[t] = new
      /\ \A u \in Threads \ {t} : thread'[u] = thread[u]
  BY <1>4, <1>5 DEF TypeOK, ThreadState
<1>7. /\ melt' \in [Melts -> MeltStates] /\ melt'[thread[t].item] = state
      /\ \A m \in Melts : melt[m] = "paid" => melt'[m] = "paid"
  BY <1>1, <1>2 DEF TypeOK, MeltStates
<1>8. QED
  BY <1>3, <1>4, <1>6, <1>7

\* A locked token exists.
LEMMA ConfirmSendEffect ==
  ASSUME TypeOK, NEW t \in Threads, NEW k \in Tokens, ConfirmSend(t, k)
  PROVE  /\ thread' \in [Threads -> ThreadState]
         /\ thread'[t].pc = "confirmed" /\ thread'[t].op = "send" /\ thread'[t].item = k
         /\ thread'[t].code = thread[t].code /\ thread'[t].error = thread[t].error
         /\ \A u \in Threads \ {t} : thread'[u] = thread[u]
<1> DEFINE new == [thread[t] EXCEPT !.pc = "confirmed", !.item = k]
<1>1. thread[t] \in ThreadState /\ thread[t].op = "send" /\ k \in Items
  BY DEF TypeOK, ThreadState, ConfirmSend, At, Items
<1>2. /\ new \in ThreadState /\ new.pc = "confirmed" /\ new.op = "send" /\ new.item = k
      /\ new.code = thread[t].code /\ new.error = thread[t].error
  BY <1>1 DEF ThreadState, Steps
<1>3. thread' = [thread EXCEPT ![t] = new]
  BY DEF ConfirmSend
<1> HIDE DEF new
<1>4. QED
  BY <1>2, <1>3 DEF TypeOK, ThreadState

-------------------------------------------------------------------------------
(***************************************************************************)
(* What the mint and the app know only moves forward, so that what a call  *)
(* was told stays true.                                                    *)
(***************************************************************************)
Forward ==
  /\ \A q \in Quotes : /\ quote[q] = "issued" => quote'[q] = "issued"
                       /\ quote[q] = "paid" => quote'[q] \in {"paid", "issued"}
  /\ \A m \in Melts : melt[m] = "paid" => melt'[m] = "paid"
  /\ \A k \in Tokens, p \in ProofIds : /\ proofs[k][p] = "spent" => proofs'[k][p] = "spent"
                                       /\ proofs[k][p] # "none" => proofs'[k][p] # "none"
  /\ app \subseteq app'

\* The invariant of one thread.
CallIsTrue(t) == CallFits(t) /\ ResultIsReal(t) /\ ReturnIsTrue(t)

\* ReturnIsTrue without its CASE.
ReturnParts(t) ==
  LET c == thread[t] IN
  c.pc = "returned" /\ c.code = 0
    => /\ c.op = "mint" => quote[c.item] = "issued"
       /\ c.op = "check_quote" /\ c.out = "PAID" => quote[c.item] \in {"paid", "issued"}
       /\ c.op = "melt" /\ c.out = "PAID" => melt[c.item] = "paid"
       /\ c.op = "send" => c.item \in app
       /\ c.op = "receive" => \A p \in ProofIds : proofs[c.item][p] = "spent"
       /\ c.op = "check_token" /\ c.out = "spent"
            => \A p \in ProofIds : proofs[c.item][p] = "spent"

LEMMA ReturnSplit ==
  ASSUME NEW t \in Threads
  PROVE  (ReturnIsTrue(t) <=> ReturnParts(t)) /\ (ReturnIsTrue(t)' <=> ReturnParts(t)')
<1>1. ReturnIsTrue(t) <=> ReturnParts(t)
  BY DEF ReturnIsTrue, ReturnParts
<1>2. ReturnIsTrue(t)' <=> ReturnParts(t)'
  BY DEF ReturnIsTrue, ReturnParts
<1>3. QED
  BY <1>1, <1>2

\* A thread a step leaves alone keeps its invariant.
LEMMA CallKept ==
  ASSUME TypeOK, Forward, NEW u \in Threads, CallIsTrue(u), thread'[u] = thread[u]
  PROVE  CallIsTrue(u)'
<1>1. app \subseteq Tokens
  BY DEF TypeOK
<1>2. CallFits(u)'
  BY <1>1 DEF Forward, CallIsTrue, CallFits, Free, At
<1>3. ResultIsReal(u)'
  BY <1>1 DEF Forward, CallIsTrue, CallFits, ResultIsReal, Free, At
<1>4. ReturnParts(u)'
  BY <1>1, ReturnSplit DEF Forward, CallIsTrue, CallFits, ReturnParts, Free, At
<1>5. QED
  BY <1>2, <1>3, <1>4, ReturnSplit DEF CallIsTrue

-------------------------------------------------------------------------------
(***************************************************************************)
(* The threads whose calls claim funds, and the tokens about to be handed. *)
(***************************************************************************)

\* A call claims funds, or stops, only by its own steps.
LEMMA ReservingMoves ==
  ASSUME NEW t \in Threads, \A u \in Threads \ {t} : thread'[u] = thread[u],
         IsFiniteSet(Reserving)
  PROVE  /\ (t \in Reserving <=> t \in Reserving') => Reserving' = Reserving
         /\ t \notin Reserving /\ t \in Reserving'
              => IsFiniteSet(Reserving') /\ Cardinality(Reserving') = Cardinality(Reserving) + 1
         /\ t \in Reserving /\ t \notin Reserving'
              => IsFiniteSet(Reserving') /\ Cardinality(Reserving') = Cardinality(Reserving) - 1
<1>1. \A u \in Threads \ {t} : u \in Reserving <=> u \in Reserving'
  BY DEF Reserving, At
<1>2. Reserving \subseteq Threads /\ Reserving' \subseteq Threads
  BY DEF Reserving
<1>3. (t \in Reserving <=> t \in Reserving') => Reserving' = Reserving
  BY <1>1, <1>2
<1>4. t \notin Reserving /\ t \in Reserving' => Reserving' = Reserving \cup {t}
  BY <1>1, <1>2
<1>5. t \in Reserving /\ t \notin Reserving' => Reserving' = Reserving \ {t}
  BY <1>1, <1>2
<1>6. QED
  BY <1>3, <1>4, <1>5, FS_AddElement, FS_RemoveElement

LEMMA StoringMoves ==
  ASSUME NEW t \in Threads, \A u \in Threads \ {t} : thread'[u] = thread[u],
         IsFiniteSet(Storing)
  PROVE  /\ (t \in Storing <=> t \in Storing') => Storing' = Storing
         /\ t \notin Storing /\ t \in Storing'
              => IsFiniteSet(Storing') /\ Cardinality(Storing') = Cardinality(Storing) + 1
         /\ t \in Storing /\ t \notin Storing'
              => IsFiniteSet(Storing') /\ Cardinality(Storing') = Cardinality(Storing) - 1
<1>1. \A u \in Threads \ {t} : u \in Storing <=> u \in Storing'
  BY DEF Storing, At
<1>2. Storing \subseteq Threads /\ Storing' \subseteq Threads
  BY DEF Storing
<1>3. (t \in Storing <=> t \in Storing') => Storing' = Storing
  BY <1>1, <1>2
<1>4. t \notin Storing /\ t \in Storing' => Storing' = Storing \cup {t}
  BY <1>1, <1>2
<1>5. t \in Storing /\ t \notin Storing' => Storing' = Storing \ {t}
  BY <1>1, <1>2
<1>6. QED
  BY <1>3, <1>4, <1>5, FS_AddElement, FS_RemoveElement

\* A call that claims funds can be counted, so what it takes back or stores is there.
LEMMA ClaimsAreCovered ==
  ASSUME TypeOK, FundsAreClaimed
  PROVE  /\ Cardinality(Reserving) \in Nat /\ Cardinality(Storing) \in Nat
         /\ Reserving # {} => reserved >= 2
         /\ Storing # {} => transit >= 2
<1>1. Cardinality(Reserving) \in Nat /\ Cardinality(Storing) \in Nat
  BY FS_CardinalityType DEF FundsAreClaimed
<1>2. /\ Reserving # {} => Cardinality(Reserving) # 0
      /\ Storing # {} => Cardinality(Storing) # 0
  BY FS_EmptySet DEF FundsAreClaimed
<1> DEFINE r == Cardinality(Reserving)
           s == Cardinality(Storing)
<1>3. r \in Nat /\ s \in Nat /\ (Reserving # {} => r # 0) /\ (Storing # {} => s # 0)
  BY <1>1, <1>2
<1>4. reserved \in Nat /\ transit \in Nat /\ reserved >= 2 * r /\ transit >= 2 * s
  BY DEF TypeOK, FundsAreClaimed
<1> HIDE DEF r, s
<1>5. (Reserving # {} => reserved >= 2) /\ (Storing # {} => transit >= 2)
  BY <1>3, <1>4
<1>6. QED
  BY <1>1, <1>5

\* FundsAreClaimed after a step that moves no claim.
LEMMA ClaimsKept ==
  ASSUME FundsAreClaimed, Reserving' = Reserving, Storing' = Storing,
         UNCHANGED <<reserved, transit>>, trouble => trouble'
  PROVE  FundsAreClaimed'
<1>1. QED
  BY DEF FundsAreClaimed

\* TokensAreSeen after a step that makes no token and hands none.
LEMMA TokensKept ==
  ASSUME TypeOK, TokensAreSeen, NEW t \in Threads,
         \A u \in Threads \ {t} : thread'[u] = thread[u],
         Forward, UNCHANGED app, trouble => trouble',
         \A k \in Tokens : proofs'[k][1] # "none" => proofs[k][1] # "none",
         ~trouble' => ~At(t, "send", "confirmed")
  PROVE  TokensAreSeen'
<1>1. \A k \in app' : \A p \in ProofIds : proofs'[k][p] # "none"
  BY DEF TypeOK, TokensAreSeen, Forward
<1>2. ASSUME ~trouble', NEW k \in Tokens, proofs'[k][1] # "none", k \notin app'
      PROVE  \E u \in Threads : At(u, "send", "confirmed")' /\ thread'[u].item = k
  <2>1. PICK u \in Threads : At(u, "send", "confirmed") /\ thread[u].item = k
    BY <1>2 DEF TokensAreSeen
  <2>2. u # t
    BY <1>2, <2>1
  <2>3. QED
    BY <2>1, <2>2 DEF At
<1>3. QED
  BY <1>1, <1>2 DEF TokensAreSeen

-------------------------------------------------------------------------------
(***************************************************************************)
(* A step of one thread, put together from its parts.                      *)
(***************************************************************************)

\* TypeOK without the handle and the threads.
DataTypeOK ==
  /\ quote \in [Quotes -> QuoteStates]
  /\ melt \in [Melts -> MeltStates]
  /\ proofs \in [Tokens -> [ProofIds -> ProofStates]]
  /\ spendable \in Nat /\ reserved \in Nat /\ transit \in Nat
  /\ app \subseteq Tokens
  /\ trouble \in BOOLEAN

LEMMA ThreadSteps ==
  ASSUME WalletIInv, NEW t \in Threads,
         thread' \in [Threads -> ThreadState],
         \A u \in Threads \ {t} : thread'[u] = thread[u],
         thread'[t].code = 1 => thread'[t].error,
         handle' = handle \/ handle' = "open",
         handle' = "none" => Free(t)',
         DataTypeOK', Forward, CallIsTrue(t)', TokensAreSeen', FundsAreClaimed'
  PROVE  WalletIInv'
<1>1. handle' = "none" => handle = "none"
  OBVIOUS
<1>2. \A u \in Threads \ {t} : Free(u) => Free(u)'
  BY DEF Free
<1>3. handle' = "none" => \A u \in Threads : Free(u)'
  BY <1>1, <1>2 DEF WalletIInv, TypeOK
<1>4. \A u \in Threads : thread'[u].code = 1 => thread'[u].error
  BY DEF WalletIInv, TypeOK
<1>5. TypeOK'
  BY <1>3, <1>4 DEF WalletIInv, TypeOK, DataTypeOK, ThreadState
<1>6. ASSUME NEW u \in Threads \ {t}
      PROVE  CallIsTrue(u)'
  BY CallKept DEF WalletIInv, CallIsTrue
<1>7. \A u \in Threads : CallIsTrue(u)'
  BY <1>6
<1>8. QED
  BY <1>5, <1>7 DEF WalletIInv, CallIsTrue

\* The facts about the acting thread that every step starts from.
LEMMA CallFacts ==
  ASSUME WalletIInv, NEW t \in Threads
  PROVE  /\ TypeOK /\ DataTypeOK /\ TokensAreSeen /\ FundsAreClaimed
         /\ CallIsTrue(t) /\ thread[t] \in ThreadState
         /\ thread[t].item \in Items /\ app \subseteq Tokens
         /\ IsFiniteSet(Reserving) /\ IsFiniteSet(Storing)
         /\ handle = "none" => Free(t)
<1>1. QED
  BY DEF WalletIInv, TypeOK, DataTypeOK, CallIsTrue, FundsAreClaimed, ThreadState

\* A step that moves no funds and no claim.
LEMMA QuietStep ==
  ASSUME WalletIInv, NEW t \in Threads,
         thread' \in [Threads -> ThreadState],
         \A u \in Threads \ {t} : thread'[u] = thread[u],
         thread'[t].code = 1 => thread'[t].error,
         handle' = handle \/ handle' = "open",
         handle' = "none" => Free(t)',
         UNCHANGED funds, trouble' \in BOOLEAN, trouble => trouble',
         t \notin Reserving \cup Storing, t \notin Reserving' \cup Storing',
         ~At(t, "send", "confirmed"),
         CallIsTrue(t)'
  PROVE  WalletIInv'
<1>1. DataTypeOK' /\ Forward
  BY CallFacts DEF DataTypeOK, funds, Forward
<1>2. TokensAreSeen'
  BY <1>1, CallFacts, TokensKept DEF funds
<1>3. FundsAreClaimed'
  BY CallFacts, ReservingMoves, StoringMoves, ClaimsKept DEF funds
<1>4. QED
  BY <1>1, <1>2, <1>3, ThreadSteps

\* A call that is over claims nothing.
LEMMA FreeClaimsNothing ==
  ASSUME NEW t \in Threads, Free(t)
  PROVE  t \notin Reserving \cup Storing /\ \A op : ~At(t, op, "confirmed")
<1>1. QED
  BY DEF Free, At, Reserving, Storing

-------------------------------------------------------------------------------
(***************************************************************************)
(* The steps of the handle, of the arguments and of the reads.             *)
(***************************************************************************)

LEMMA CreateWalletKeeps ==
  ASSUME WalletIInv, NEW t \in Threads, CreateWallet(t)
  PROVE  WalletIInv'
<1>1. Free(t) /\ handle' = "open" /\ UNCHANGED <<funds, trouble>>
  BY DEF CreateWallet
<1>2. t \notin Reserving' \cup Storing'
  BY CallFacts, CreateEffect DEF Reserving, Storing, At
<1>3. CallIsTrue(t)'
  BY CallFacts, CreateEffect, ReturnSplit
     DEF CallIsTrue, CallFits, ResultIsReal, ReturnParts, Free, At
<1>4. QED
  BY <1>1, <1>2, <1>3, CallFacts, CreateEffect, FreeClaimsNothing, QuietStep DEF DataTypeOK

\* RefuseCreate and RefuseArguments.
LEMMA RefusalKeeps ==
  ASSUME WalletIInv, NEW t \in Threads, Free(t), ReturnError(t), UNCHANGED <<handle, funds>>
  PROVE  WalletIInv'
<1>1. t \notin Reserving' \cup Storing'
  BY CallFacts, ErrorEffect DEF Reserving, Storing, At
<1>2. CallIsTrue(t)' /\ Free(t)'
  BY CallFacts, ErrorEffect, ReturnSplit
     DEF CallIsTrue, CallFits, ResultIsReal, ReturnParts, Free, At
<1>3. trouble' \in BOOLEAN /\ trouble'
  BY DEF ReturnError
<1>4. QED
  BY <1>1, <1>2, <1>3, CallFacts, ErrorEffect, FreeClaimsNothing, QuietStep

LEMMA CallKeeps ==
  ASSUME WalletIInv, NEW t \in Threads, NEW op \in Operations, NEW x \in Items, Call(t, op, x)
  PROVE  WalletIInv'
<1>1. Free(t) /\ handle = "open" /\ Suits(op, x) /\ UNCHANGED <<handle, funds, trouble>>
  BY DEF Call
<1>2. /\ op \in {"check_quote", "mint"} => x \in Quotes
      /\ op = "melt" => x \in Melts
      /\ op \in {"receive", "check_token"} => x \in app
  BY <1>1 DEF Suits
<1>3. t \notin Reserving' \cup Storing'
  BY CallFacts, CallEffect DEF Reserving, Storing, At
<1>4. CallIsTrue(t)'
  BY <1>1, <1>2, CallFacts, CallEffect, ReturnSplit
     DEF CallIsTrue, CallFits, ResultIsReal, ReturnParts, Free, At, funds
<1>5. QED
  BY <1>1, <1>3, <1>4, CallFacts, CallEffect, FreeClaimsNothing, QuietStep DEF DataTypeOK

LEMMA ReadSpendableKeeps ==
  ASSUME WalletIInv, NEW t \in Threads, ReadSpendable(t)
  PROVE  WalletIInv'
<1>1. /\ At(t, "balance", "called") /\ Goto(t, "counting") /\ "counting" \in Steps
      /\ UNCHANGED <<handle, funds, trouble>>
  BY DEF ReadSpendable, Steps
<1>2. t \notin Reserving \cup Storing /\ t \notin Reserving' \cup Storing'
  BY <1>1, CallFacts, GotoEffect DEF Reserving, Storing, At
<1>3. CallIsTrue(t)' /\ ~Free(t) /\ ~At(t, "send", "confirmed")
  BY <1>1, CallFacts, GotoEffect, ReturnSplit
     DEF CallIsTrue, CallFits, ResultIsReal, ReturnParts, Free, At
<1>4. thread'[t].code = 1 => thread'[t].error
  BY <1>1, CallFacts, GotoEffect DEF TypeOK
<1>5. QED
  BY <1>1, <1>2, <1>3, <1>4, CallFacts, GotoEffect, QuietStep DEF DataTypeOK

\* A call that claims nothing returns success.
LEMMA ReturnKeeps ==
  ASSUME WalletIInv, NEW t \in Threads, NEW out \in Outputs, Return(t, out),
         thread[t].pc \in {"called", "counting"}, UNCHANGED <<funds, trouble>>,
         ReturnParts(t)'
  PROVE  WalletIInv'
<1>1. ReturnItem(t, thread[t].item, out) /\ thread[t].item \in Items
  BY CallFacts DEF Return
<1>2. t \notin Reserving \cup Storing /\ t \notin Reserving' \cup Storing'
  BY <1>1, CallFacts, ReturnEffect DEF Reserving, Storing, At
<1>3. CallIsTrue(t)' /\ ~At(t, "send", "confirmed") /\ Free(t)'
  BY <1>1, CallFacts, ReturnEffect, ReturnSplit
     DEF CallIsTrue, CallFits, ResultIsReal, Free, At, funds
<1>4. QED
  BY <1>1, <1>2, <1>3, CallFacts, ReturnEffect, QuietStep DEF DataTypeOK

LEMMA ReadPendingKeeps ==
  ASSUME WalletIInv, NEW t \in Threads, ReadPending(t)
  PROVE  WalletIInv'
<1>1. /\ At(t, "balance", "called") \/ At(t, "balance", "counting")
      /\ Return(t, "done") /\ "done" \in Outputs /\ UNCHANGED <<funds, trouble>>
  BY DEF ReadPending, Outputs
<1>2. ReturnItem(t, thread[t].item, "done") /\ thread[t].item \in Items
  BY <1>1, CallFacts DEF Return
<1>3. ReturnParts(t)'
  BY <1>1, <1>2, CallFacts, ReturnEffect DEF ReturnParts, At
<1>4. QED
  BY <1>1, <1>3, ReturnKeeps DEF At

LEMMA CheckQuoteKeeps ==
  ASSUME WalletIInv, NEW t \in Threads, CheckQuote(t)
  PROVE  WalletIInv'
<1>1. PICK out \in Outputs : Return(t, out) /\ (out = "PAID" => quote[thread[t].item] = "paid")
  BY DEF CheckQuote, Outputs
<1>2. At(t, "check_quote", "called") /\ UNCHANGED <<funds, trouble>>
  BY DEF CheckQuote
<1>3. ReturnItem(t, thread[t].item, out) /\ thread[t].item \in Items
  BY <1>1, CallFacts DEF Return
<1>4. ReturnParts(t)'
  BY <1>1, <1>2, <1>3, CallFacts, ReturnEffect DEF ReturnParts, At, funds
<1>5. QED
  BY <1>1, <1>2, <1>4, ReturnKeeps DEF At

\* A token is reported spent only if neither proof is unspent or pending.
LEMMA SpentMeansAllSpent ==
  ASSUME WalletIInv, NEW k \in app, NEW states \in {{proofs[k][p] : p \in ProofIds}, {}}
  PROVE  /\ TokenState(states) \in Outputs
         /\ TokenState(states) = "spent" => \A p \in ProofIds : proofs[k][p] = "spent"
<1>1. \A p \in ProofIds : proofs[k][p] \in {"unspent", "pending", "spent"}
  BY DEF WalletIInv, TypeOK, TokensAreSeen, ProofStates
<1>2. QED
  BY <1>1 DEF TokenState, Outputs

LEMMA CheckTokenKeeps ==
  ASSUME WalletIInv, NEW t \in Threads, CheckToken(t)
  PROVE  WalletIInv'
<1>0. PICK states \in {{proofs[thread[t].item][p] : p \in ProofIds}, {}} :
        Return(t, TokenState(states))
  BY DEF CheckToken
<1> DEFINE out == TokenState(states)
<1>1. At(t, "check_token", "called") /\ Return(t, out) /\ UNCHANGED <<funds, trouble>>
  BY <1>0 DEF CheckToken
<1>2. thread[t].item \in app
  BY <1>1, CallFacts DEF CallIsTrue, CallFits, Free, At
<1>3. out \in Outputs /\ (out = "spent" => \A p \in ProofIds : proofs[thread[t].item][p] = "spent")
  BY <1>2, SpentMeansAllSpent
<1> HIDE DEF out
<1>4. ReturnItem(t, thread[t].item, out) /\ thread[t].item \in Items
  BY <1>1, CallFacts DEF Return
<1>5. ReturnParts(t)'
  BY <1>1, <1>3, <1>4, CallFacts, ReturnEffect DEF ReturnParts, At, funds
<1>6. QED
  BY <1>1, <1>3, <1>5, ReturnKeeps DEF At

-------------------------------------------------------------------------------
(***************************************************************************)
(* The steps that move quotes, funds and tokens.                           *)
(***************************************************************************)

\* A call that fails gives up its claim; its funds come back or stay set aside.
LEMMA FailCallKeeps ==
  ASSUME WalletIInv, NEW t \in Threads, FailCall(t)
  PROVE  WalletIInv'
<1>1. ~Free(t) /\ ReturnError(t) /\ UNCHANGED <<handle, quote, melt, proofs, transit, app>>
  BY DEF FailCall, funds
<1>2. /\ thread' \in [Threads -> ThreadState] /\ thread'[t].pc = "returned"
      /\ thread'[t].code = 1 /\ thread'[t].error /\ trouble' = TRUE
      /\ \A u \in Threads \ {t} : thread'[u] = thread[u]
  BY <1>1, CallFacts, ErrorEffect DEF ReturnError
<1>3. t \notin Reserving' /\ t \notin Storing'
  BY <1>2 DEF Reserving, Storing, At
<1>4. CallIsTrue(t)' /\ Free(t)'
  BY <1>2, CallFacts, ReturnSplit DEF CallIsTrue, CallFits, ResultIsReal, ReturnParts, Free, At
<1> DEFINE r == Cardinality(Reserving)
           s == Cardinality(Storing)
           rn == Cardinality(Reserving')
           sn == Cardinality(Storing')
<1>5. /\ r \in Nat /\ s \in Nat /\ reserved >= 2 * r /\ transit >= 2 * s
      /\ reserved \in Nat /\ transit \in Nat /\ spendable \in Nat
      /\ Reserving # {} => reserved >= 2
  BY CallFacts, ClaimsAreCovered DEF FundsAreClaimed, TypeOK
<1>6. /\ IsFiniteSet(Reserving') /\ IsFiniteSet(Storing')
      /\ t \in Reserving => rn = r - 1
      /\ t \notin Reserving => rn = r
      /\ sn = s \/ sn = s - 1
  BY <1>2, <1>3, CallFacts, ReservingMoves, StoringMoves
<1>7. \/ UNCHANGED <<spendable, reserved>>
      \/ t \in Reserving /\ spendable' = spendable + 2 /\ reserved' = reserved - 2
  BY DEF FailCall, funds, Reserving
<1> HIDE DEF r, s, rn, sn
<1>8. /\ reserved' \in Nat /\ spendable' \in Nat
      /\ reserved' >= 2 * rn /\ transit >= 2 * sn
  BY <1>5, <1>6, <1>7
<1>9. FundsAreClaimed'
  BY <1>1, <1>2, <1>6, <1>8 DEF FundsAreClaimed, rn, sn
<1>10. DataTypeOK' /\ Forward
  BY <1>1, <1>2, <1>8, CallFacts DEF DataTypeOK, Forward
<1>11. TokensAreSeen'
  BY <1>1, <1>2, <1>10, CallFacts, TokensKept
<1>12. QED
  BY <1>1, <1>2, <1>4, <1>9, <1>10, <1>11, ThreadSteps

\* The mint has a new quote, and a call returns it.
LEMMA CreateQuoteKeeps ==
  ASSUME WalletIInv, NEW t \in Threads, NEW q \in Quotes, CreateQuote(t, q)
  PROVE  WalletIInv'
<1>1. /\ At(t, "mint_quote", "called") /\ quote[q] = "none" /\ ReturnItem(t, q, "done")
      /\ quote' = [quote EXCEPT ![q] = "unpaid"] /\ q \in Items /\ "done" \in Outputs
      /\ UNCHANGED <<melt, proofs, spendable, reserved, transit, app, trouble>>
  BY DEF CreateQuote, Items, Outputs
<1>2. DataTypeOK' /\ Forward
  BY <1>1, CallFacts DEF DataTypeOK, Forward, QuoteStates
<1>3. /\ t \notin Reserving /\ t \notin Storing /\ ~At(t, "send", "confirmed")
      /\ t \notin Reserving' /\ t \notin Storing'
  BY <1>1, CallFacts, ReturnEffect DEF Reserving, Storing, At
<1>4. CallIsTrue(t)' /\ Free(t)'
  BY <1>1, CallFacts, ReturnEffect, ReturnSplit
     DEF CallIsTrue, CallFits, ResultIsReal, ReturnParts, Free, At
<1>5. FundsAreClaimed'
  BY <1>1, <1>3, CallFacts, ReturnEffect, ReservingMoves, StoringMoves, ClaimsKept
<1>6. TokensAreSeen'
  BY <1>1, <1>2, <1>3, CallFacts, ReturnEffect, TokensKept
<1>7. QED
  BY <1>1, <1>2, <1>4, <1>5, <1>6, CallFacts, ReturnEffect, ThreadSteps

LEMMA QuotePaymentKeeps ==
  ASSUME WalletIInv, NEW t \in Threads, NEW m \in Melts, QuotePayment(t, m)
  PROVE  WalletIInv'
<1>1. /\ At(t, "melt_quote", "called") /\ melt[m] = "none" /\ ReturnItem(t, m, "done")
      /\ melt' = [melt EXCEPT ![m] = "unpaid"] /\ m \in Items /\ "done" \in Outputs
      /\ UNCHANGED <<quote, proofs, spendable, reserved, transit, app, trouble>>
  BY DEF QuotePayment, Items, Outputs
<1>2. DataTypeOK' /\ Forward
  BY <1>1, CallFacts DEF DataTypeOK, Forward, MeltStates
<1>3. /\ t \notin Reserving /\ t \notin Storing /\ ~At(t, "send", "confirmed")
      /\ t \notin Reserving' /\ t \notin Storing'
  BY <1>1, CallFacts, ReturnEffect DEF Reserving, Storing, At
<1>4. CallIsTrue(t)' /\ Free(t)'
  BY <1>1, CallFacts, ReturnEffect, ReturnSplit
     DEF CallIsTrue, CallFits, ResultIsReal, ReturnParts, Free, At
<1>5. FundsAreClaimed'
  BY <1>1, <1>3, CallFacts, ReturnEffect, ReservingMoves, StoringMoves, ClaimsKept
<1>6. TokensAreSeen'
  BY <1>1, <1>2, <1>3, CallFacts, ReturnEffect, TokensKept
<1>7. QED
  BY <1>1, <1>2, <1>4, <1>5, <1>6, CallFacts, ReturnEffect, ThreadSteps

\* A call starts to store: its funds are in transit.
LEMMA StoringStarts ==
  ASSUME WalletIInv, NEW t \in Threads,
         thread' \in [Threads -> ThreadState],
         \A u \in Threads \ {t} : thread'[u] = thread[u],
         t \notin Reserving, t \notin Reserving', t \notin Storing, t \in Storing',
         transit' = transit + 2, UNCHANGED <<reserved, trouble>>
  PROVE  FundsAreClaimed' /\ transit' \in Nat
<1> DEFINE s == Cardinality(Storing)
           sn == Cardinality(Storing')
<1>1. /\ s \in Nat /\ transit \in Nat /\ transit >= 2 * s
      /\ ~trouble => transit = 2 * s
  BY CallFacts, ClaimsAreCovered DEF FundsAreClaimed, TypeOK
<1>2. IsFiniteSet(Storing') /\ sn = s + 1 /\ Reserving' = Reserving
  BY CallFacts, ReservingMoves, StoringMoves
<1> HIDE DEF s, sn
<1>3. /\ transit' \in Nat /\ transit' >= 2 * sn
      /\ ~trouble => transit' = 2 * sn
  BY <1>1, <1>2
<1>4. FundsAreClaimed'
  BY <1>2, <1>3, CallFacts DEF FundsAreClaimed, sn
<1>5. QED
  BY <1>3, <1>4

LEMMA IssueProofsKeeps ==
  ASSUME WalletIInv, NEW t \in Threads, IssueProofs(t)
  PROVE  WalletIInv'
<1>1. /\ At(t, "mint", "called") /\ quote[thread[t].item] = "paid"
      /\ quote' = [quote EXCEPT ![thread[t].item] = "issued"]
      /\ transit' = transit + 2 /\ Goto(t, "confirmed") /\ "confirmed" \in Steps
      /\ UNCHANGED <<handle, melt, proofs, spendable, reserved, app, trouble>>
  BY DEF IssueProofs, Steps
<1>2. thread[t].item \in Quotes /\ ~Free(t)
  BY <1>1, CallFacts DEF CallIsTrue, CallFits, Free, At
<1>3. /\ t \notin Reserving /\ t \notin Storing /\ ~At(t, "send", "confirmed")
      /\ t \notin Reserving' /\ t \in Storing'
  BY <1>1, CallFacts, GotoEffect DEF Reserving, Storing, At
<1>4. FundsAreClaimed' /\ transit' \in Nat
  BY <1>1, <1>3, CallFacts, GotoEffect, StoringStarts
<1>5. DataTypeOK' /\ Forward
  BY <1>1, <1>2, <1>4, CallFacts DEF DataTypeOK, Forward, QuoteStates
<1>6. CallIsTrue(t)'
  <2>1. quote'[thread[t].item] = "issued"
    BY <1>1, <1>2, CallFacts DEF DataTypeOK
  <2>2. QED
    BY <1>1, <1>2, <2>1, CallFacts, GotoEffect, ReturnSplit
       DEF CallIsTrue, CallFits, ResultIsReal, ReturnParts, Free, At, TypeOK
<1>7. TokensAreSeen'
  BY <1>1, <1>3, <1>5, CallFacts, GotoEffect, TokensKept
<1>8. thread'[t].code = 1 => thread'[t].error
  BY <1>1, CallFacts, GotoEffect DEF TypeOK
<1>9. QED
  BY <1>1, <1>2, <1>4, <1>5, <1>6, <1>7, <1>8, CallFacts, GotoEffect, ThreadSteps

LEMMA RedeemTokenKeeps ==
  ASSUME WalletIInv, NEW t \in Threads, RedeemToken(t)
  PROVE  WalletIInv'
<1>1. /\ At(t, "receive", "called") /\ \A p \in ProofIds : proofs[thread[t].item][p] = "unspent"
      /\ proofs' = [proofs EXCEPT ![thread[t].item] = [p \in ProofIds |-> "spent"]]
      /\ transit' = transit + 2 /\ Goto(t, "confirmed") /\ "confirmed" \in Steps
      /\ UNCHANGED <<handle, quote, melt, spendable, reserved, app, trouble>>
  BY DEF RedeemToken, Steps
<1>2. thread[t].item \in app /\ thread[t].item \in Tokens /\ ~Free(t)
  BY <1>1, CallFacts DEF CallIsTrue, CallFits, Free, At
<1>3. /\ t \notin Reserving /\ t \notin Storing /\ ~At(t, "send", "confirmed")
      /\ t \notin Reserving' /\ t \in Storing'
  BY <1>1, CallFacts, GotoEffect DEF Reserving, Storing, At
<1>4. FundsAreClaimed' /\ transit' \in Nat
  BY <1>1, <1>3, CallFacts, GotoEffect, StoringStarts
<1>5. /\ proofs' \in [Tokens -> [ProofIds -> ProofStates]]
      /\ \A p \in ProofIds : proofs'[thread[t].item][p] = "spent"
      /\ \A k \in Tokens \ {thread[t].item} : proofs'[k] = proofs[k]
  BY <1>1, <1>2, CallFacts DEF DataTypeOK, ProofStates
<1>6. DataTypeOK' /\ Forward
  BY <1>1, <1>4, <1>5, CallFacts DEF DataTypeOK, Forward
<1>7. CallIsTrue(t)'
  BY <1>1, <1>2, <1>5, CallFacts, GotoEffect, ReturnSplit
     DEF CallIsTrue, CallFits, ResultIsReal, ReturnParts, Free, At
<1>8. TokensAreSeen'
  <2>1. \A k \in Tokens : proofs'[k][1] # "none" => proofs[k][1] # "none"
    BY <1>1, <1>5 DEF ProofIds
  <2>2. QED
    BY <1>1, <1>3, <1>6, <2>1, CallFacts, GotoEffect, TokensKept
<1>9. thread'[t].code = 1 => thread'[t].error
  BY <1>1, CallFacts, GotoEffect DEF TypeOK
<1>10. QED
  BY <1>1, <1>2, <1>4, <1>6, <1>7, <1>8, <1>9, CallFacts, GotoEffect, ThreadSteps

\* What a call has in transit is there when it stores it.
LEMMA StoreProofsKeeps ==
  ASSUME WalletIInv, NEW t \in Threads, StoreProofs(t)
  PROVE  WalletIInv'
<1>1. /\ At(t, "mint", "confirmed") \/ At(t, "receive", "confirmed")
      /\ transit' = transit - 2 /\ spendable' = spendable + 2
      /\ Return(t, "done") /\ "done" \in Outputs
      /\ UNCHANGED <<quote, melt, proofs, reserved, app, trouble>>
  BY DEF StoreProofs, Outputs
<1>2. ReturnItem(t, thread[t].item, "done") /\ thread[t].item \in Items
  BY <1>1, CallFacts DEF Return
<1>3. /\ thread' \in [Threads -> ThreadState]
      /\ thread'[t].pc = "returned" /\ thread'[t].op = thread[t].op
      /\ thread'[t].item = thread[t].item /\ thread'[t].code = 0
      /\ \A u \in Threads \ {t} : thread'[u] = thread[u]
      /\ UNCHANGED handle
  BY <1>1, <1>2, CallFacts, ReturnEffect
<1>4. /\ t \notin Reserving /\ t \in Storing /\ ~At(t, "send", "confirmed") /\ ~Free(t)
      /\ t \notin Reserving' /\ t \notin Storing'
  BY <1>1, <1>3 DEF Reserving, Storing, At, Free
<1> DEFINE s == Cardinality(Storing)
           sn == Cardinality(Storing')
<1>5. /\ s \in Nat /\ transit \in Nat /\ spendable \in Nat /\ transit >= 2 * s /\ transit >= 2
      /\ ~trouble => transit = 2 * s
  BY <1>4, CallFacts, ClaimsAreCovered DEF FundsAreClaimed, TypeOK
<1>6. IsFiniteSet(Storing') /\ sn = s - 1 /\ Reserving' = Reserving
  BY <1>4, <1>3, CallFacts, ReservingMoves, StoringMoves
<1> HIDE DEF s, sn
<1>7. /\ transit' \in Nat /\ spendable' \in Nat /\ transit' >= 2 * sn
      /\ ~trouble => transit' = 2 * sn
  BY <1>1, <1>5, <1>6
<1>8. FundsAreClaimed'
  BY <1>1, <1>6, <1>7, CallFacts DEF FundsAreClaimed, sn
<1>9. DataTypeOK' /\ Forward
  BY <1>1, <1>7, CallFacts DEF DataTypeOK, Forward
<1>10. CallIsTrue(t)' /\ Free(t)'
  BY <1>1, <1>4, <1>3, CallFacts, ReturnSplit
     DEF CallIsTrue, CallFits, ResultIsReal, ReturnParts, Free, At
<1>11. TokensAreSeen'
  BY <1>1, <1>4, <1>9, <1>3, CallFacts, TokensKept
<1>12. QED
  BY <1>8, <1>9, <1>10, <1>11, <1>3, ThreadSteps

LEMMA PrepareKeeps ==
  ASSUME WalletIInv, NEW t \in Threads, Prepare(t)
  PROVE  WalletIInv'
<1>1. /\ At(t, "send", "called") \/ At(t, "melt", "called")
      /\ spendable >= 2 /\ spendable' = spendable - 2 /\ reserved' = reserved + 2
      /\ Goto(t, "prepared") /\ "prepared" \in Steps
      /\ UNCHANGED <<handle, quote, melt, proofs, transit, app, trouble>>
  BY DEF Prepare, Steps
<1>2. /\ t \notin Reserving /\ t \notin Storing /\ ~At(t, "send", "confirmed") /\ ~Free(t)
      /\ t \in Reserving' /\ t \notin Storing'
  BY <1>1, CallFacts, GotoEffect DEF Reserving, Storing, At, Free
<1> DEFINE r == Cardinality(Reserving)
           rn == Cardinality(Reserving')
<1>3. /\ r \in Nat /\ reserved \in Nat /\ spendable \in Nat /\ reserved >= 2 * r
      /\ ~trouble => reserved = 2 * r
  BY CallFacts, ClaimsAreCovered DEF FundsAreClaimed, TypeOK
<1>4. IsFiniteSet(Reserving') /\ rn = r + 1 /\ Storing' = Storing
  BY <1>1, <1>2, CallFacts, GotoEffect, ReservingMoves, StoringMoves
<1> HIDE DEF r, rn
<1>5. /\ reserved' \in Nat /\ spendable' \in Nat /\ reserved' >= 2 * rn
      /\ ~trouble => reserved' = 2 * rn
  BY <1>1, <1>3, <1>4
<1>6. FundsAreClaimed'
  BY <1>1, <1>4, <1>5, CallFacts DEF FundsAreClaimed, rn
<1>7. DataTypeOK' /\ Forward
  BY <1>1, <1>5, CallFacts DEF DataTypeOK, Forward
<1>8. CallIsTrue(t)'
  BY <1>1, <1>2, CallFacts, GotoEffect, ReturnSplit
     DEF CallIsTrue, CallFits, ResultIsReal, ReturnParts, Free, At
<1>9. TokensAreSeen'
  BY <1>1, <1>2, <1>7, CallFacts, GotoEffect, TokensKept
<1>10. thread'[t].code = 1 => thread'[t].error
  BY <1>1, CallFacts, GotoEffect DEF TypeOK
<1>11. QED
  BY <1>1, <1>2, <1>6, <1>7, <1>8, <1>9, <1>10, CallFacts, GotoEffect, ThreadSteps

\* The claim of a payment stays until its answer arrives.
LEMMA ConfirmMeltKeeps ==
  ASSUME WalletIInv, NEW t \in Threads, ConfirmMelt(t)
  PROVE  WalletIInv'
<1>1. /\ At(t, "melt", "prepared")
      /\ UNCHANGED <<handle, quote, proofs, spendable, reserved, transit, app, trouble>>
  BY DEF ConfirmMelt
<1>2. thread[t].item \in Melts /\ ~Free(t)
  BY <1>1, CallFacts DEF CallIsTrue, CallFits, Free, At
<1>3. /\ t \in Reserving /\ t \notin Storing /\ ~At(t, "send", "confirmed")
      /\ t \in Reserving' /\ t \notin Storing'
  BY <1>1, <1>2, CallFacts, ConfirmMeltEffect DEF Reserving, Storing, At
<1>4. DataTypeOK' /\ Forward
  BY <1>1, <1>2, CallFacts, ConfirmMeltEffect DEF DataTypeOK, Forward
<1>5. CallIsTrue(t)'
  BY <1>2, CallFacts, ConfirmMeltEffect, ReturnSplit
     DEF CallIsTrue, CallFits, ResultIsReal, ReturnParts, Free, At
<1>6. FundsAreClaimed'
  BY <1>1, <1>2, <1>3, CallFacts, ConfirmMeltEffect, ReservingMoves, StoringMoves, ClaimsKept
<1>7. TokensAreSeen'
  BY <1>1, <1>2, <1>3, <1>4, CallFacts, ConfirmMeltEffect, TokensKept
<1>8. thread'[t].code = 1 => thread'[t].error
  <2>1. thread[t].code = 1 => thread[t].error
    BY CallFacts DEF TypeOK
  <2>2. thread'[t].error = thread[t].error /\ thread'[t].code = thread[t].code
    BY <1>2, CallFacts, ConfirmMeltEffect
  <2>3. QED
    BY <2>1, <2>2
<1>9. QED
  BY <1>1, <1>2, <1>4, <1>5, <1>6, <1>7, <1>8, CallFacts, ConfirmMeltEffect, ThreadSteps

\* A paid melt uses up its funds; an unpaid one leaves them set aside, and the app knows.
LEMMA AnswerMeltKeeps ==
  ASSUME WalletIInv, NEW t \in Threads, AnswerMelt(t)
  PROVE  WalletIInv'
<1>1. /\ At(t, "melt", "confirmed") /\ Return(t, thread[t].out)
      /\ reserved' = IF thread[t].out = "PAID" THEN reserved - 2 ELSE reserved
      /\ trouble' = (trouble \/ thread[t].out # "PAID")
      /\ UNCHANGED <<quote, melt, proofs, spendable, transit, app>>
  BY DEF AnswerMelt
<1>2. /\ ReturnItem(t, thread[t].item, thread[t].out) /\ thread[t].item \in Items
      /\ thread[t].out \in Outputs
  BY <1>1, CallFacts DEF Return, ThreadState
<1>3. /\ thread' \in [Threads -> ThreadState]
      /\ thread'[t].pc = "returned" /\ thread'[t].op = thread[t].op
      /\ thread'[t].item = thread[t].item /\ thread'[t].code = 0 /\ thread'[t].out = thread[t].out
      /\ \A u \in Threads \ {t} : thread'[u] = thread[u]
      /\ UNCHANGED handle
  BY <1>1, <1>2, CallFacts, ReturnEffect
<1>4. /\ t \in Reserving /\ t \notin Storing /\ ~At(t, "send", "confirmed") /\ ~Free(t)
      /\ t \notin Reserving' /\ t \notin Storing'
  BY <1>1, <1>3 DEF Reserving, Storing, At, Free
<1> DEFINE r == Cardinality(Reserving)
           rn == Cardinality(Reserving')
<1>5. /\ r \in Nat /\ reserved \in Nat /\ reserved >= 2 * r /\ reserved >= 2
      /\ ~trouble => reserved = 2 * r
      /\ trouble \in BOOLEAN
  BY <1>4, CallFacts, ClaimsAreCovered DEF FundsAreClaimed, TypeOK
<1>6. IsFiniteSet(Reserving') /\ rn = r - 1 /\ Storing' = Storing
  BY <1>3, <1>4, CallFacts, ReservingMoves, StoringMoves
<1> HIDE DEF r, rn
<1>7. /\ trouble' \in BOOLEAN /\ (trouble => trouble')
      /\ reserved' \in Nat /\ reserved' >= 2 * rn
      /\ ~trouble' => reserved' = 2 * rn
  <2>1. CASE thread[t].out = "PAID"
    BY <1>1, <1>5, <1>6, <2>1
  <2>2. CASE thread[t].out # "PAID"
    <3>1. trouble' /\ reserved' = reserved
      BY <1>1, <2>2
    <3>2. reserved' \in Nat /\ reserved' >= 2 * rn
      BY <1>5, <1>6, <3>1
    <3>3. trouble' \in BOOLEAN
      BY <1>1, Zenon
    <3>4. QED
      BY <3>1, <3>2, <3>3
  <2>3. QED
    BY <2>1, <2>2
<1>8. FundsAreClaimed'
  BY <1>1, <1>6, <1>7, CallFacts DEF FundsAreClaimed, rn
<1>9. DataTypeOK' /\ Forward
  BY <1>1, <1>7, CallFacts DEF DataTypeOK, Forward
<1>10. CallIsTrue(t)' /\ Free(t)'
  BY <1>1, <1>3, <1>4, CallFacts, ReturnSplit
     DEF CallIsTrue, CallFits, ResultIsReal, ReturnParts, Free, At
<1>11. TokensAreSeen'
  BY <1>1, <1>3, <1>4, <1>7, <1>9, CallFacts, TokensKept
<1>12. QED
  BY <1>3, <1>8, <1>9, <1>10, <1>11, ThreadSteps

\* The token that leaves the wallet is with the call that made it.
LEMMA ConfirmSendKeeps ==
  ASSUME WalletIInv, NEW t \in Threads, NEW k \in Tokens, ConfirmSend(t, k)
  PROVE  WalletIInv'
<1>1. /\ At(t, "send", "prepared") /\ \A p \in ProofIds : proofs[k][p] = "none"
      /\ proofs' = [proofs EXCEPT ![k] = [p \in ProofIds |-> "unspent"]]
      /\ reserved' = reserved - 2
      /\ UNCHANGED <<handle, quote, melt, spendable, transit, app, trouble>>
  BY DEF ConfirmSend
<1>2. /\ thread' \in [Threads -> ThreadState]
      /\ thread'[t].pc = "confirmed" /\ thread'[t].op = "send" /\ thread'[t].item = k
      /\ thread'[t].code = thread[t].code /\ thread'[t].error = thread[t].error
      /\ \A u \in Threads \ {t} : thread'[u] = thread[u]
  BY CallFacts, ConfirmSendEffect
<1>3. /\ t \in Reserving /\ t \notin Storing /\ ~Free(t)
      /\ t \notin Reserving' /\ t \notin Storing'
  BY <1>1, <1>2 DEF Reserving, Storing, At, Free
<1> DEFINE r == Cardinality(Reserving)
           rn == Cardinality(Reserving')
<1>4. /\ r \in Nat /\ reserved \in Nat /\ reserved >= 2 * r /\ reserved >= 2
      /\ ~trouble => reserved = 2 * r
  BY <1>3, CallFacts, ClaimsAreCovered DEF FundsAreClaimed, TypeOK
<1>5. IsFiniteSet(Reserving') /\ rn = r - 1 /\ Storing' = Storing
  BY <1>2, <1>3, CallFacts, ReservingMoves, StoringMoves
<1> HIDE DEF r, rn
<1>6. /\ reserved' \in Nat /\ reserved' >= 2 * rn
      /\ ~trouble => reserved' = 2 * rn
  BY <1>1, <1>4, <1>5
<1>7. FundsAreClaimed'
  BY <1>1, <1>5, <1>6, CallFacts DEF FundsAreClaimed, rn
<1>8. /\ proofs' \in [Tokens -> [ProofIds -> ProofStates]]
      /\ \A p \in ProofIds : proofs'[k][p] = "unspent"
      /\ \A j \in Tokens \ {k} : proofs'[j] = proofs[j]
  BY <1>1, CallFacts DEF DataTypeOK, ProofStates
<1>9. DataTypeOK' /\ Forward
  BY <1>1, <1>6, <1>8, CallFacts DEF DataTypeOK, Forward
<1>10. CallIsTrue(t)'
  BY <1>2, <1>8, ReturnSplit DEF CallIsTrue, CallFits, ResultIsReal, ReturnParts, Free, At
<1>11. TokensAreSeen'
  <2>1. \A j \in app' : \A p \in ProofIds : proofs'[j][p] # "none"
    BY <1>1, <1>9, CallFacts DEF TokensAreSeen, Forward
  <2>2. ASSUME ~trouble', NEW j \in Tokens, proofs'[j][1] # "none", j \notin app'
        PROVE  \E u \in Threads : At(u, "send", "confirmed")' /\ thread'[u].item = j
    <3>1. CASE j = k
      BY <1>2, <3>1 DEF At
    <3>2. CASE j # k
      <4>1. PICK u \in Threads : At(u, "send", "confirmed") /\ thread[u].item = j
        BY <1>1, <1>8, <2>2, <3>2, CallFacts DEF TokensAreSeen
      <4>2. u # t
        BY <1>1, <4>1 DEF At
      <4>3. QED
        BY <1>2, <4>1, <4>2 DEF At
    <3>3. QED
      BY <3>1, <3>2
  <2>3. QED
    BY <2>1, <2>2 DEF TokensAreSeen
<1>12. thread'[t].code = 1 => thread'[t].error
  BY <1>2, CallFacts DEF TypeOK
<1>13. handle' # "none"
  BY <1>1, <1>3, CallFacts
<1>14. QED
  BY <1>1, <1>2, <1>7, <1>9, <1>10, <1>11, <1>12, <1>13, ThreadSteps

LEMMA HandTokenKeeps ==
  ASSUME WalletIInv, NEW t \in Threads, HandToken(t)
  PROVE  WalletIInv'
<1>1. /\ At(t, "send", "confirmed") /\ Return(t, "done") /\ "done" \in Outputs
      /\ app' = app \cup {thread[t].item}
      /\ UNCHANGED <<quote, melt, proofs, spendable, reserved, transit, trouble>>
  BY DEF HandToken, Outputs
<1>2. /\ thread[t].item \in Tokens
      /\ \A p \in ProofIds : proofs[thread[t].item][p] # "none"
  BY <1>1, CallFacts DEF CallIsTrue, CallFits, Free, At
<1>3. ReturnItem(t, thread[t].item, "done") /\ thread[t].item \in Items
  BY <1>1, CallFacts DEF Return
<1>4. /\ thread' \in [Threads -> ThreadState]
      /\ thread'[t].pc = "returned" /\ thread'[t].op = thread[t].op
      /\ thread'[t].item = thread[t].item /\ thread'[t].code = 0
      /\ \A u \in Threads \ {t} : thread'[u] = thread[u]
      /\ UNCHANGED handle
  BY <1>1, <1>3, CallFacts, ReturnEffect
<1>5. /\ t \notin Reserving /\ t \notin Storing /\ t \notin Reserving' /\ t \notin Storing'
  BY <1>1, <1>4 DEF Reserving, Storing, At
<1>6. DataTypeOK' /\ Forward
  BY <1>1, <1>2, CallFacts DEF DataTypeOK, Forward
<1>7. CallIsTrue(t)' /\ Free(t)'
  BY <1>1, <1>4, ReturnSplit DEF CallIsTrue, CallFits, ResultIsReal, ReturnParts, Free, At
<1>8. FundsAreClaimed'
  BY <1>1, <1>4, <1>5, CallFacts, ReservingMoves, StoringMoves, ClaimsKept
<1>9. TokensAreSeen'
  <2>1. \A k \in app' : \A p \in ProofIds : proofs'[k][p] # "none"
    BY <1>1, <1>2, CallFacts DEF TokensAreSeen
  <2>2. ASSUME ~trouble', NEW k \in Tokens, proofs'[k][1] # "none", k \notin app'
        PROVE  \E u \in Threads : At(u, "send", "confirmed")' /\ thread'[u].item = k
    <3>1. PICK u \in Threads : At(u, "send", "confirmed") /\ thread[u].item = k
      BY <1>1, <2>2, CallFacts DEF TokensAreSeen
    <3>2. u # t
      BY <1>1, <2>2, <3>1
    <3>3. QED
      BY <1>4, <3>1, <3>2 DEF At
  <2>3. QED
    BY <2>1, <2>2 DEF TokensAreSeen
<1>10. QED
  BY <1>4, <1>6, <1>7, <1>8, <1>9, ThreadSteps

-------------------------------------------------------------------------------
(***************************************************************************)
(* The steps of other parties, and of the app as a whole.                  *)
(***************************************************************************)

\* A step of the mint, of a payer or of another wallet.
LEMMA OtherSteps ==
  ASSUME WalletIInv, UNCHANGED <<handle, thread, spendable, reserved, transit, app, trouble>>,
         DataTypeOK', Forward,
         \A k \in Tokens : proofs'[k][1] # "none" => proofs[k][1] # "none"
  PROVE  WalletIInv'
<1>1. TypeOK'
  BY DEF WalletIInv, TypeOK, DataTypeOK, Free
<1>2. \A u \in Threads : CallIsTrue(u)'
  BY CallKept DEF WalletIInv, CallIsTrue
<1>3. TokensAreSeen'
  <2>1. \A k \in app' : \A p \in ProofIds : proofs'[k][p] # "none"
    BY DEF WalletIInv, TypeOK, TokensAreSeen, Forward
  <2>2. ~trouble'
          => \A k \in Tokens :
               proofs'[k][1] # "none"
                 => k \in app' \/ \E t \in Threads : At(t, "send", "confirmed")' /\ thread'[t].item = k
    BY DEF WalletIInv, TokensAreSeen, At
  <2>3. QED
    BY <2>1, <2>2 DEF TokensAreSeen
<1>4. FundsAreClaimed'
  <2>1. Reserving' = Reserving /\ Storing' = Storing
    BY DEF Reserving, Storing, At
  <2>2. QED
    BY <2>1, ClaimsKept DEF WalletIInv
<1>5. QED
  BY <1>1, <1>2, <1>3, <1>4 DEF WalletIInv, CallIsTrue

LEMMA PayInvoiceKeeps ==
  ASSUME WalletIInv, NEW q \in Quotes, PayInvoice(q)
  PROVE  WalletIInv'
<1>1. DataTypeOK' /\ Forward
  BY DEF WalletIInv, TypeOK, DataTypeOK, Forward, PayInvoice, QuoteStates
<1>2. QED
  BY <1>1, OtherSteps DEF PayInvoice

LEMMA ResolveMeltKeeps ==
  ASSUME WalletIInv, NEW m \in Melts, ResolveMelt(m)
  PROVE  WalletIInv'
<1>1. DataTypeOK' /\ Forward
  BY DEF WalletIInv, TypeOK, DataTypeOK, Forward, ResolveMelt, MeltStates
<1>2. QED
  BY <1>1, OtherSteps DEF ResolveMelt

LEMMA SpendElsewhereKeeps ==
  ASSUME WalletIInv, NEW k \in Tokens, NEW p \in ProofIds, SpendElsewhere(k, p)
  PROVE  WalletIInv'
<1>1. PICK state \in {"unspent", "pending", "spent"} :
        proofs[k][p] \in {"unspent", "pending"} /\ proofs' = [proofs EXCEPT ![k][p] = state]
  BY DEF SpendElsewhere
<1>2. /\ k \in app
      /\ UNCHANGED <<handle, thread, quote, melt, spendable, reserved, transit, app, trouble>>
  BY DEF SpendElsewhere
<1>3. /\ proofs' \in [Tokens -> [ProofIds -> ProofStates]]
      /\ proofs'[k][p] = state
      /\ \A j \in Tokens, i \in ProofIds : j # k \/ i # p => proofs'[j][i] = proofs[j][i]
  BY <1>1 DEF WalletIInv, TypeOK, ProofStates
<1>4. DataTypeOK' /\ Forward
  BY <1>1, <1>2, <1>3 DEF WalletIInv, TypeOK, DataTypeOK, Forward
<1>5. \A j \in Tokens : proofs'[j][1] # "none" => proofs[j][1] # "none"
  BY <1>1, <1>3 DEF ProofIds
<1>6. QED
  BY <1>2, <1>4, <1>5, OtherSteps

LEMMA FreeWalletKeeps ==
  ASSUME WalletIInv, FreeWallet
  PROVE  WalletIInv'
<1>1. /\ handle' = "none" /\ \A t \in Threads : Free(t)
      /\ UNCHANGED <<thread, quote, melt, proofs, spendable, reserved, transit, app, trouble>>
  BY DEF FreeWallet, funds
<1>2. TypeOK' /\ DataTypeOK' /\ Forward
  BY <1>1 DEF WalletIInv, TypeOK, DataTypeOK, Forward, Free
<1>3. \A u \in Threads : CallIsTrue(u)'
  BY <1>1, <1>2, CallKept DEF WalletIInv, CallIsTrue
<1>4. TokensAreSeen'
  BY <1>1 DEF WalletIInv, TokensAreSeen, At
<1>5. FundsAreClaimed'
  <2>1. Reserving' = Reserving /\ Storing' = Storing
    BY <1>1 DEF Reserving, Storing, At
  <2>2. QED
    BY <1>1, <2>1, ClaimsKept DEF WalletIInv
<1>6. QED
  BY <1>2, <1>3, <1>4, <1>5 DEF WalletIInv, CallIsTrue

LEMMA KillKeeps ==
  ASSUME WalletIInv, Kill
  PROVE  WalletIInv'
<1>1. /\ handle' = "none" /\ thread' = [t \in Threads |-> IdleThread] /\ trouble' = TRUE
      /\ UNCHANGED <<quote, melt, proofs, spendable, reserved, transit, app>>
  BY DEF Kill, funds
<1>2. IdleThread \in ThreadState /\ IdleThread.pc = "idle" /\ IdleThread.code = 0
  BY DEF IdleThread, ThreadState, Steps, Items, Outputs
<1>3. TypeOK'
  BY <1>1, <1>2 DEF WalletIInv, TypeOK, ThreadState, Free
<1>4. \A u \in Threads : CallIsTrue(u)'
  BY <1>1, <1>2, ReturnSplit DEF CallIsTrue, CallFits, ResultIsReal, ReturnParts, Free, At
<1>5. TokensAreSeen'
  BY <1>1 DEF WalletIInv, TokensAreSeen
<1>6. FundsAreClaimed'
  <2>1. Reserving' = {} /\ Storing' = {}
    BY <1>1, <1>2 DEF Reserving, Storing, At
  <2>2. reserved' >= 2 * 0 /\ transit' >= 2 * 0
    BY <1>1 DEF WalletIInv, TypeOK
  <2>3. QED
    BY <1>1, <2>1, <2>2, FS_EmptySet DEF FundsAreClaimed
<1>7. QED
  BY <1>3, <1>4, <1>5, <1>6 DEF WalletIInv, CallIsTrue

-------------------------------------------------------------------------------
(***************************************************************************)
(* The theorems.                                                           *)
(***************************************************************************)

LEMMA WalletInit ==
  ASSUME Init
  PROVE  WalletIInv
<1>1. IdleThread \in ThreadState /\ IdleThread.pc = "idle" /\ IdleThread.code = 0
  BY DEF IdleThread, ThreadState, Steps, Items, Outputs
<1>2. TypeOK
  <2>1. /\ thread \in [Threads -> ThreadState]
        /\ \A t \in Threads : thread[t].code = 0 /\ Free(t)
    BY <1>1 DEF Init, Free
  <2>2. DataTypeOK
    BY DEF Init, DataTypeOK, QuoteStates, MeltStates, ProofStates
  <2>3. \A t \in Threads : thread[t].code # 1
    BY <2>1
  <2>4. QED
    BY <2>1, <2>2, <2>3 DEF Init, TypeOK, DataTypeOK, ThreadState
<1>3. \A u \in Threads : CallIsTrue(u)
  BY <1>1, ReturnSplit DEF Init, CallIsTrue, CallFits, ResultIsReal, ReturnParts, Free, At
<1>4. TokensAreSeen
  BY DEF Init, TokensAreSeen, ProofIds
<1>5. FundsAreClaimed
  <2>1. Reserving = {} /\ Storing = {} /\ reserved = 0 /\ transit = 0
    BY <1>1 DEF Init, Reserving, Storing, At
  <2>2. 0 >= 2 * 0 /\ 0 = 2 * 0
    OBVIOUS
  <2>3. QED
    BY <2>1, <2>2, FS_EmptySet DEF FundsAreClaimed
<1>6. QED
  BY <1>2, <1>3, <1>4, <1>5 DEF WalletIInv, CallIsTrue

LEMMA StepWalletIInv ==
  ASSUME WalletIInv, Next
  PROVE  WalletIInv'
<1>1. ASSUME NEW t \in Threads, CreateWallet(t) \/ RefuseCreate(t) \/ RefuseArguments(t)
      PROVE  WalletIInv'
  BY <1>1, CreateWalletKeeps, RefusalKeeps DEF RefuseCreate, RefuseArguments
<1>2. ASSUME NEW t \in Threads, NEW op \in Operations, NEW x \in Items, Call(t, op, x)
      PROVE  WalletIInv'
  BY <1>2, CallKeeps
<1>3. ASSUME NEW t \in Threads,
             \/ FailCall(t) \/ ReadSpendable(t) \/ ReadPending(t)
             \/ CheckQuote(t) \/ IssueProofs(t) \/ RedeemToken(t) \/ StoreProofs(t)
      PROVE  WalletIInv'
  BY <1>3, FailCallKeeps, ReadSpendableKeeps, ReadPendingKeeps, CheckQuoteKeeps,
     IssueProofsKeeps, RedeemTokenKeeps, StoreProofsKeeps
<1>4. ASSUME NEW t \in Threads,
             \/ Prepare(t) \/ ConfirmMelt(t) \/ AnswerMelt(t) \/ HandToken(t) \/ CheckToken(t)
      PROVE  WalletIInv'
  BY <1>4, PrepareKeeps, ConfirmMeltKeeps, AnswerMeltKeeps, HandTokenKeeps, CheckTokenKeeps
<1>5. ASSUME NEW t \in Threads, NEW q \in Quotes, CreateQuote(t, q)
      PROVE  WalletIInv'
  BY <1>5, CreateQuoteKeeps
<1>6. ASSUME NEW t \in Threads, NEW m \in Melts, QuotePayment(t, m)
      PROVE  WalletIInv'
  BY <1>6, QuotePaymentKeeps
<1>7. ASSUME NEW t \in Threads, NEW k \in Tokens, ConfirmSend(t, k)
      PROVE  WalletIInv'
  BY <1>7, ConfirmSendKeeps
<1>8. QED
  BY <1>1, <1>2, <1>3, <1>4, <1>5, <1>6, <1>7, FreeWalletKeeps, KillKeeps, PayInvoiceKeeps,
     ResolveMeltKeeps, SpendElsewhereKeeps DEF Next

THEOREM WalletInductive == Spec => []WalletIInv
<1>1. WalletIInv /\ UNCHANGED vars => WalletIInv'
  <2> SUFFICES ASSUME WalletIInv, UNCHANGED vars
               PROVE  WalletIInv'
    OBVIOUS
  <2>1. /\ DataTypeOK' /\ Forward
        /\ UNCHANGED <<handle, thread, spendable, reserved, transit, app, trouble>>
    BY DEF WalletIInv, TypeOK, DataTypeOK, Forward, vars
  <2>2. QED
    BY <2>1, OtherSteps DEF vars
<1>2. QED
  BY WalletInit, StepWalletIInv, <1>1, PTL DEF Spec

\* Every variable keeps its type: the balance, the funds set aside and the funds in
\* transit never go below zero, every failed call has left its message, and no call
\* runs on a handle that is gone.
THEOREM TypeCorrect == Spec => []TypeOK
<1>1. WalletIInv => TypeOK
  BY DEF WalletIInv
<1>2. QED
  BY <1>1, WalletInductive, PTL

\* What a function returned with 0 is true and stays true, whatever the other threads,
\* the mint and the holders of the tokens do afterwards.
THEOREM ReturnedValuesStayTrue == Spec => []SuccessIsTrue
<1>1. WalletIInv => SuccessIsTrue
  BY DEF WalletIInv, SuccessIsTrue
<1>2. QED
  BY <1>1, WalletInductive, PTL

\* When no call runs and none has failed, no funds are out of the app's sight.
THEOREM NothingGoesAstray == Spec => []QuietMeansSettled
<1>1. WalletIInv => QuietMeansSettled
  <2> SUFFICES ASSUME WalletIInv, ~trouble, \A t \in Threads : Free(t)
               PROVE  /\ reserved = 0 /\ transit = 0
                      /\ \A k \in Tokens : proofs[k][1] # "none" => k \in app
    BY DEF QuietMeansSettled
  <2>1. Reserving = {} /\ Storing = {}
    BY DEF Reserving, Storing, Free, At
  <2>2. reserved = 2 * 0 /\ transit = 2 * 0
    BY <2>1, FS_EmptySet DEF WalletIInv, FundsAreClaimed
  <2>3. \A k \in Tokens : proofs[k][1] # "none" => k \in app
    BY DEF WalletIInv, TokensAreSeen, Free, At
  <2>4. QED
    BY <2>2, <2>3
<1>2. QED
  BY <1>1, WalletInductive, PTL
==============================================================================
