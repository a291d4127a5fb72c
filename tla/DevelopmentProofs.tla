--------------------------- MODULE DevelopmentProofs ---------------------------
(***************************************************************************)
(* Proofs about Development and the parts it composes: any initial balance *)
(* and cost, any payers, payments, accounts, environments and lookups.     *)
(***************************************************************************)
EXTENDS Development, FiniteSetTheorems, SequenceTheorems, TLAPS

-------------------------------------------------------------------------------
(***************************************************************************)
(* The process.                                                            *)
(***************************************************************************)

\* Accepted settings of production name production providers.
LEMMA AcceptedProduction ==
  ASSUME NEW c \in AcceptedConfigs
  PROVE  c \in Configs /\ (c.environment = "production" => c.provider_mode = "production")
<1>1. PICK s \in Settings : Accepted(s) /\ c = ConfigOf(s)
  BY DEF AcceptedConfigs
<1>2. /\ s.environment \in {"development", "test", "production"} /\ s.database_url \in BOOLEAN
      /\ s.environment = "production" => s.provider = "production"
  BY <1>1 DEF Settings, Accepted
<1>3. /\ c.environment = s.environment /\ c.database_url = s.database_url
      /\ c.provider_mode = IF s.provider = "production" THEN "production" ELSE "mock"
      /\ c = [environment |-> c.environment, database_url |-> c.database_url,
              provider_mode |-> c.provider_mode]
  BY <1>1 DEF ConfigOf
<1>4. QED
  BY <1>2, <1>3 DEF Configs

LEMMA ExitKeeps ==
  ASSUME StartupIInv, Exit
  PROVE  StartupIInv'
<1>1. QED
  BY DEF StartupIInv, StartupTypeOK, NoMockServesProduction, IsProduction, Exit, NoConfig, Configs

LEMMA MainKeeps ==
  ASSUME StartupIInv, StartupNext
  PROVE  StartupIInv'
<1> USE DEF StartupIInv, StartupTypeOK, NoMockServesProduction, IsProduction
<1>1. ASSUME NEW c \in AcceptedConfigs, Configure(c)
      PROVE  StartupIInv'
  BY <1>1, AcceptedProduction DEF Configure
<1>2. CASE SkipDatabase
  BY <1>2 DEF SkipDatabase
<1>3. CASE ConnectDatabase
  BY <1>3 DEF ConnectDatabase
<1>4. CASE FailDatabase
  BY <1>4, ExitKeeps DEF FailDatabase
<1>5. CASE BuildState
  BY <1>5, ExitKeeps DEF BuildState, StateRefused
<1>6. CASE Listen
  BY <1>6 DEF Listen
<1>7. CASE DatabaseChanges
  BY <1>7 DEF DatabaseChanges
<1>8. QED
  BY <1>1, <1>2, <1>3, <1>4, <1>5, <1>6, <1>7 DEF StartupNext

-------------------------------------------------------------------------------
(***************************************************************************)
(* The Lightning provider.                                                 *)
(***************************************************************************)

LEMMA LightningKeeps ==
  ASSUME LightningIInv, LightningNext
  PROVE  LightningIInv'
<1> DEFINE n == Cardinality(paying)
           m == Cardinality(paying')
<1>1. /\ Cost \in Int /\ Cost > 0 /\ InitialBalance \in Int /\ n \in Nat
      /\ balance \in Int /\ balance >= 0 /\ payments \in Nat /\ dropped \in Nat
      /\ invoices \in 0..MaxInvoices /\ MaxInvoices \in Nat
      /\ IsFiniteSet(paying) /\ paying \subseteq Payers
      /\ seen \in [balance : Nat, spent : Nat]
      /\ InitialBalance - balance = Cost * (payments + dropped + n)
      /\ seen.balance = InitialBalance - Cost * seen.spent
  BY LightningAssumption, FS_CardinalityType DEF LightningIInv, LightningTypeOK, BooksBalance
<1>2. CASE CreateInvoice
  BY <1>1, <1>2 DEF CreateInvoice, LightningIInv, LightningTypeOK, BooksBalance
<1>3. CASE ReadBalance
  <2>1. paying = {} /\ n = 0
    BY <1>3, FS_EmptySet DEF ReadBalance, Locked
  <2>2. /\ seen' = [balance |-> balance, spent |-> payments + dropped]
        /\ UNCHANGED <<invoices, balance, paying, payments, dropped>>
    BY <1>3 DEF ReadBalance
  <2>3. /\ seen'.balance = balance /\ seen'.spent = payments + dropped
        /\ seen' \in [balance : Nat, spent : Nat]
    BY <1>1, <2>2
  <2> HIDE DEF n
  <2>4. balance = InitialBalance - Cost * (payments + dropped)
    <3>1. payments + dropped + n = payments + dropped
      BY <1>1, <2>1
    <3>2. Cost * (payments + dropped) \in Int
      BY <1>1
    <3>3. QED
      BY <1>1, <3>1, <3>2
  <2>5. BooksBalance'
    BY <1>1, <2>2, <2>3, <2>4 DEF BooksBalance, n
  <2>6. QED
    BY <1>1, <2>2, <2>3, <2>5 DEF LightningIInv, LightningTypeOK
<1>4. ASSUME NEW r \in Payers, Debit(r)
      PROVE  LightningIInv'
  <2>1. /\ paying = {} /\ paying' = {r} /\ balance' = balance - Cost /\ balance >= Cost
        /\ UNCHANGED <<invoices, payments, dropped, seen>>
    BY <1>4 DEF Debit, Locked
  <2>2. n = 0 /\ m = 1 /\ IsFiniteSet(paying')
    BY <2>1, FS_EmptySet, FS_Singleton
  <2> HIDE DEF n, m
  <2>3. InitialBalance - balance' = Cost * (payments + dropped + m)
    <3>1. payments + dropped + m = (payments + dropped + n) + 1
      BY <1>1, <2>2
    <3>2. Cost * ((payments + dropped + n) + 1) = Cost * (payments + dropped + n) + Cost
      BY <1>1
    <3>3. QED
      BY <1>1, <2>1, <3>1, <3>2
  <2>4. balance' \in Nat
    BY <1>1, <2>1
  <2>5. QED
    BY <1>1, <2>1, <2>2, <2>3, <2>4 DEF LightningIInv, LightningTypeOK, BooksBalance, m
<1>5. ASSUME NEW r \in Payers, Record(r)
      PROVE  LightningIInv'
  <2>1. /\ r \in paying /\ paying' = paying \ {r} /\ payments' = payments + 1
        /\ UNCHANGED <<invoices, balance, dropped, seen>>
    BY <1>5 DEF Record
  <2>2. m = n - 1 /\ IsFiniteSet(paying')
    BY <1>1, <2>1, FS_RemoveElement
  <2> HIDE DEF n, m
  <2>3. payments' + dropped' + m = payments + dropped + n
    BY <1>1, <2>1, <2>2
  <2>4. QED
    BY <1>1, <2>1, <2>2, <2>3 DEF LightningIInv, LightningTypeOK, BooksBalance, m
<1>6. ASSUME NEW r \in Payers, DropPayment(r)
      PROVE  LightningIInv'
  <2>1. /\ r \in paying /\ paying' = paying \ {r} /\ dropped' = dropped + 1
        /\ UNCHANGED <<invoices, balance, payments, seen>>
    BY <1>6 DEF DropPayment
  <2>2. m = n - 1 /\ IsFiniteSet(paying')
    BY <1>1, <2>1, FS_RemoveElement
  <2> HIDE DEF n, m
  <2>3. payments' + dropped' + m = payments + dropped + n
    BY <1>1, <2>1, <2>2
  <2>4. QED
    BY <1>1, <2>1, <2>2, <2>3 DEF LightningIInv, LightningTypeOK, BooksBalance, m
<1>7. QED
  BY <1>2, <1>3, <1>4, <1>5, <1>6 DEF LightningNext

\* The books of a provider that has just been created.
LEMMA LightningStarts == LightningInit => LightningIInv
<1> SUFFICES ASSUME LightningInit PROVE LightningIInv
  OBVIOUS
<1>1. /\ invoices = 0 /\ balance = InitialBalance /\ paying = {} /\ payments = 0 /\ dropped = 0
      /\ seen = [balance |-> InitialBalance, spent |-> 0]
  BY DEF LightningInit
<1>2. InitialBalance \in Nat /\ Cost \in Int /\ MaxInvoices \in Nat /\ Cost * 0 = 0
  BY LightningAssumption
<1>3. IsFiniteSet(paying) /\ Cardinality(paying) = 0
  BY <1>1, FS_EmptySet
<1>4. InitialBalance - balance = 0 /\ InitialBalance - Cost * 0 = InitialBalance
  BY <1>1, <1>2
<1>5. payments + dropped + Cardinality(paying) = 0
  BY <1>1, <1>3
<1>6. QED
  BY <1>1, <1>2, <1>3, <1>4, <1>5 DEF LightningIInv, LightningTypeOK, BooksBalance

\* The same of the next process.
LEMMA LightningRestarts == LightningInit' => LightningIInv'
BY LightningStarts, PTL

-------------------------------------------------------------------------------
(***************************************************************************)
(* The development escrow.                                                 *)
(***************************************************************************)

\* A settled intent has no way on.
LEMMA SettledRests ==
  ASSUME NEW status \in {"claimed", "refunded"}, NEW next \in Statuses, status # next
  PROVE  ~CanTransitionTo(status, next)
<1>1. Successors["claimed"] = {} /\ Successors["refunded"] = {}
  BY DEF Successors, Statuses
<1>2. QED
  BY <1>1 DEF CanTransitionTo

\* What is known of the intent under an id before its step.
LEMMA EscrowFacts ==
  ASSUME EscrowIInv, NEW p \in Payments
  PROVE  /\ escrow[p] \in Held /\ escrow[p].status \in Statuses /\ escrow[p].expires_at \in Times
         /\ settlements[p] \in SUBSET [how : {"claimed", "refunded"}, at : Times]
         /\ escrow[p].status \notin {"claimed", "refunded"} => settlements[p] = {}
         /\ now \in Times /\ Times \subseteq Int
<1>1. /\ escrow[p] \in Held /\ now \in Times
      /\ settlements[p] \in SUBSET [how : {"claimed", "refunded"}, at : Times]
  BY DEF EscrowIInv, EscrowTypeOK
<1>2. \A x \in settlements[p] : x.how \in {"claimed", "refunded"} /\ escrow[p].status = x.how
  BY <1>1 DEF EscrowIInv, EscrowSettlesOnce
<1>3. QED
  BY <1>1, <1>2 DEF Held, Times

\* The claim or the refund of an open intent goes through.
SomePathOpen ==
  \A p \in Payments :
    Exists(p) /\ settlements[p] = {} => ClaimAccepted(p) \/ RefundAccepted(p)

LEMMA OpenHasPath == UnsettledIsOpen => SomePathOpen
<1> SUFFICES ASSUME UnsettledIsOpen, NEW p \in Payments, Exists(p), settlements[p] = {}
             PROVE  ClaimAccepted(p) \/ RefundAccepted(p)
  BY DEF SomePathOpen
<1>1. \/ escrow[p].status = "claimable"
      \/ escrow[p].status = "refund_available" /\ IsExpired(p)
  BY DEF UnsettledIsOpen
<1>2. /\ CanTransitionTo("claimable", "refund_available")
      /\ CanTransitionTo("refund_available", "refund_available")
      /\ CanTransitionTo("refund_available", "refunded")
  BY DEF CanTransitionTo, Successors, Statuses
<1>3. CASE ~IsExpired(p)
  BY <1>1, <1>3 DEF ClaimAccepted
<1>4. CASE IsExpired(p)
  BY <1>1, <1>2, <1>4 DEF RefundAccepted, Announced
<1>5. QED
  BY <1>3, <1>4

\* The same after a step.
LEMMA OpenKeepsPath == UnsettledIsOpen' => SomePathOpen'
BY OpenHasPath, PTL

\* How the intent e under an id may have been settled by now.
SettledAs(e, S) ==
  \/ /\ S = {}
     /\ e.status = "claimable" \/ (e.status = "refund_available" /\ now >= e.expires_at)
  \/ \E x \in S :
       S = {x} /\ e.status = x.how /\ (x.how = "refunded" => x.at >= e.expires_at)

\* A step that touches one id keeps the invariant if it holds for that id afterwards.
LEMMA EscrowSteps ==
  ASSUME EscrowIInv, UNCHANGED now, NEW p \in Payments, NEW e \in Held,
         NEW S \in SUBSET [how : {"claimed", "refunded"}, at : Times],
         escrow' = [escrow EXCEPT ![p] = e], settlements' = [settlements EXCEPT ![p] = S],
         SettledAs(e, S)
  PROVE  EscrowIInv'
<1>1. /\ escrow'[p] = e /\ settlements'[p] = S
      /\ \A q \in Payments \ {p} : escrow'[q] = escrow[q] /\ settlements'[q] = settlements[q]
      /\ EscrowTypeOK'
  BY DEF EscrowIInv, EscrowTypeOK
<1>2. /\ Cardinality(S) <= 1
      /\ \A x \in S : e.status = x.how /\ (x.how = "refunded" => x.at >= e.expires_at)
      /\ S = {} => e.status = "claimable" \/ (e.status = "refund_available" /\ now >= e.expires_at)
  <2>1. CASE S = {}
    BY <2>1, FS_EmptySet DEF SettledAs
  <2>2. CASE S # {}
    BY <2>2, FS_Singleton DEF SettledAs
  <2>3. QED
    BY <2>1, <2>2
<1>3. UnsettledIsOpen'
  <2>1. ASSUME NEW q \in Payments, Exists(q)', settlements'[q] = {}
        PROVE  \/ escrow'[q].status = "claimable"
               \/ escrow'[q].status = "refund_available" /\ now' >= escrow'[q].expires_at
    BY <1>1, <1>2, <2>1 DEF EscrowIInv, UnsettledIsOpen, Exists, IsExpired
  <2>2. QED
    BY <2>1 DEF UnsettledIsOpen, IsExpired
<1>4. EscrowSettlesOnce'
  <2>1. ASSUME NEW q \in Payments
        PROVE  /\ Cardinality(settlements'[q]) <= 1
               /\ \A x \in settlements'[q] :
                    /\ escrow'[q].status = x.how
                    /\ x.how = "refunded" => x.at >= escrow'[q].expires_at
    BY <1>1, <1>2 DEF EscrowIInv, EscrowSettlesOnce
  <2>2. SomePathOpen'
    BY <1>3, OpenKeepsPath
  <2>3. QED
    BY <2>1, <2>2 DEF EscrowSettlesOnce, SomePathOpen
<1>5. QED
  BY <1>1, <1>3, <1>4 DEF EscrowIInv

LEMMA EscrowKeeps ==
  ASSUME EscrowIInv, EscrowNext
  PROVE  EscrowIInv'
<1>1. PICK p \in Payments :
        \/ \E expiry \in Times : CreateEscrow(p, expiry)
        \/ ClaimLate(p) \/ Claim(p) \/ Refund(p)
  BY DEF EscrowNext
<1>2. UNCHANGED now /\ escrow \in [Payments -> Held]
      /\ settlements \in [Payments -> SUBSET [how : {"claimed", "refunded"}, at : Times]]
  BY DEF EscrowNext, EscrowIInv, EscrowTypeOK
<1>3. ASSUME NEW expiry \in Times, CreateEscrow(p, expiry)
      PROVE  EscrowIInv'
  <2>1. PICK e \in Held : e = [status |-> "claimable", expires_at |-> expiry]
    BY DEF Held, Statuses
  <2>2. SettledAs(e, {})
    BY <2>1 DEF SettledAs
  <2>3. QED
    BY <1>2, <1>3, <2>1, <2>2, EscrowSteps DEF CreateEscrow
<1>4. CASE ClaimLate(p)
  <2>1. /\ CanTransitionTo(escrow[p].status, "refund_available") /\ settlements' = settlements
        /\ escrow' = [escrow EXCEPT ![p].status = "refund_available"]
        /\ now >= escrow[p].expires_at
    BY <1>4 DEF ClaimLate, Moves, IsExpired
  <2>2. escrow[p].status \notin {"claimed", "refunded"}
    BY <2>1, SettledRests DEF Statuses
  <2>3. PICK e \in Held : e = [escrow[p] EXCEPT !.status = "refund_available"]
    BY EscrowFacts DEF Held, Statuses
  <2>4. escrow' = [escrow EXCEPT ![p] = e] /\ settlements' = [settlements EXCEPT ![p] = {}]
    BY <1>2, <2>1, <2>2, <2>3, EscrowFacts
  <2>5. e.status = "refund_available" /\ e.expires_at = escrow[p].expires_at
    BY <2>3, EscrowFacts DEF Held
  <2>6. SettledAs(e, {})
    BY <2>1, <2>5 DEF SettledAs
  <2>7. QED
    BY <1>2, <2>4, <2>6, EscrowSteps
<1>5. CASE Claim(p)
  <2>1. /\ escrow[p].status \in {"claimable", "protected"}
        /\ escrow' = [escrow EXCEPT ![p].status = "claimed"]
        /\ settlements' = [settlements EXCEPT ![p] = @ \cup {[how |-> "claimed", at |-> now]}]
    BY <1>5 DEF Claim, ClaimAccepted, Moves, Settles
  <2>2. PICK e \in Held : e = [escrow[p] EXCEPT !.status = "claimed"]
    BY EscrowFacts DEF Held, Statuses
  <2>3. PICK x \in [how : {"claimed", "refunded"}, at : Times] : x = [how |-> "claimed", at |-> now]
    BY EscrowFacts
  <2>4. escrow' = [escrow EXCEPT ![p] = e] /\ settlements' = [settlements EXCEPT ![p] = {x}]
    BY <1>2, <2>1, <2>2, <2>3, EscrowFacts
  <2>5. e.status = "claimed" /\ x.how = "claimed"
    BY <2>2, <2>3, EscrowFacts DEF Held
  <2>6. SettledAs(e, {x})
    BY <2>5 DEF SettledAs
  <2>7. QED
    BY <1>2, <2>4, <2>6, EscrowSteps
<1>6. CASE Refund(p)
  <2>1. /\ CanTransitionTo(escrow[p].status, Announced(escrow[p].status))
        /\ now >= escrow[p].expires_at
        /\ escrow' = [escrow EXCEPT ![p].status = "refunded"]
        /\ settlements' = [settlements EXCEPT ![p] = @ \cup {[how |-> "refunded", at |-> now]}]
    BY <1>6 DEF Refund, RefundAccepted, Moves, Settles, IsExpired
  <2>2. escrow[p].status \notin {"claimed", "refunded"}
    BY <2>1, SettledRests DEF Announced, Statuses
  <2>3. PICK e \in Held : e = [escrow[p] EXCEPT !.status = "refunded"]
    BY EscrowFacts DEF Held, Statuses
  <2>4. PICK x \in [how : {"claimed", "refunded"}, at : Times] : x = [how |-> "refunded", at |-> now]
    BY EscrowFacts
  <2>5. escrow' = [escrow EXCEPT ![p] = e] /\ settlements' = [settlements EXCEPT ![p] = {x}]
    BY <1>2, <2>1, <2>2, <2>3, <2>4, EscrowFacts
  <2>6. /\ e.status = "refunded" /\ e.expires_at = escrow[p].expires_at
        /\ x.how = "refunded" /\ x.at = now
    BY <2>3, <2>4, EscrowFacts DEF Held
  <2>7. SettledAs(e, {x})
    BY <2>1, <2>6 DEF SettledAs
  <2>8. QED
    BY <1>2, <2>5, <2>7, EscrowSteps
<1>7. QED
  BY <1>1, <1>3, <1>4, <1>5, <1>6

LEMMA EscrowStarts == EscrowInit /\ now \in Times => EscrowIInv
<1> SUFFICES ASSUME EscrowInit, now \in Times PROVE EscrowIInv
  OBVIOUS
<1>1. NoEscrow \in Held
  BY ClockAssumption DEF NoEscrow, Held, Statuses, Times
<1>2. \A p \in Payments : ~Exists(p) /\ settlements[p] = {}
  BY DEF EscrowInit, Exists
<1>3. UnsettledIsOpen
  BY <1>2 DEF UnsettledIsOpen
<1>4. EscrowSettlesOnce
  BY <1>2, FS_EmptySet DEF EscrowSettlesOnce
<1>5. QED
  BY <1>1, <1>3, <1>4 DEF EscrowInit, EscrowIInv, EscrowTypeOK

\* The same of the next process.
LEMMA EscrowRestarts == EscrowInit' /\ (now \in Times)' => EscrowIInv'
BY EscrowStarts, PTL

\* As time goes by, what is expired stays so.
LEMMA EscrowAges ==
  ASSUME EscrowIInv, now' \in Times, now' >= now, UNCHANGED escrowVars
  PROVE  EscrowIInv'
<1>1. /\ now \in Int /\ now' \in Int /\ escrow' = escrow /\ settlements' = settlements
      /\ \A p \in Payments : escrow[p].expires_at \in Int
  BY DEF EscrowIInv, EscrowTypeOK, Held, Times, escrowVars
<1>2. UnsettledIsOpen'
  BY <1>1 DEF EscrowIInv, UnsettledIsOpen, Exists, IsExpired
<1>3. SomePathOpen'
  BY <1>2, OpenKeepsPath
<1>4. EscrowSettlesOnce'
  BY <1>1, <1>3 DEF EscrowIInv, EscrowSettlesOnce, SomePathOpen
<1>5. QED
  BY <1>1, <1>2, <1>4 DEF EscrowIInv, EscrowTypeOK

-------------------------------------------------------------------------------
(***************************************************************************)
(* The catalogue.                                                          *)
(***************************************************************************)

\* The tables of markets agree.
LEMMA MarketsAgree ==
  ASSUME NEW c \in Countries
  PROVE  /\ Listed[c] = Capabilities[c] /\ Supported[c] \subseteq Capabilities[c]
         /\ Capabilities[c] \subseteq AllCapabilities
         /\ "esim" \in Capabilities[c]
         /\ c \in {"NG", "KE", "GH", "ZA", "UG", "RW"}
              => {"payouts", "cards", "airtime"} \subseteq Capabilities[c]
<1>1. CASE c = "KE"
  BY <1>1 DEF Listed, Capabilities, Supported, AllCapabilities, Services, Countries
<1>2. CASE c = "NG"
  BY <1>2 DEF Listed, Capabilities, Supported, AllCapabilities, Services, Countries
<1>3. CASE c = "GH"
  BY <1>3 DEF Listed, Capabilities, Supported, AllCapabilities, Services, Countries
<1>4. CASE c = "ZA"
  BY <1>4 DEF Listed, Capabilities, Supported, AllCapabilities, Services, Countries
<1>5. CASE c = "UG"
  BY <1>5 DEF Listed, Capabilities, Supported, AllCapabilities, Services, Countries
<1>6. CASE c = "RW"
  BY <1>6 DEF Listed, Capabilities, Supported, AllCapabilities, Services, Countries
<1>7. CASE c = "TZ"
  BY <1>7 DEF Listed, Capabilities, Supported, AllCapabilities, Services, Countries
<1>8. CASE c = "US"
  BY <1>8 DEF Listed, Capabilities, Supported, AllCapabilities, Services, Countries
<1>9. QED
  BY <1>1, <1>2, <1>3, <1>4, <1>5, <1>6, <1>7, <1>8 DEF Countries

\* Every biller sells a service that the provider supports in its country.
LEMMA BillersAreSupported ==
  ASSUME NEW c, NEW b \in DOMAIN Billers(c)
  PROVE  /\ c \in {"NG", "KE", "GH", "ZA", "UG", "RW"}
         /\ Billers(c)[b] \in Supported[c]
<1>1. CASE c = "KE"
  BY <1>1 DEF Billers, BillersKenya, Supported, Services, Countries
<1>2. CASE c = "NG"
  BY <1>2 DEF Billers, BillersNigeria, Supported, Services, Countries
<1>3. CASE c = "GH"
  BY <1>3 DEF Billers, BillersGhana, Supported, Services, Countries
<1>4. CASE c = "ZA"
  BY <1>4 DEF Billers, BillersSouthAfrica, Supported, Services, Countries
<1>5. CASE c = "UG"
  BY <1>5 DEF Billers, BillersUganda, Supported, Services, Countries
<1>6. CASE c = "RW"
  BY <1>6 DEF Billers, BillersRwanda, Supported, Services, Countries
<1>7. CASE c \notin {"NG", "KE", "GH", "ZA", "UG", "RW"}
  <2>1. Billers(c) = [x \in {} |-> Nothing]
    BY <1>7 DEF Billers
  <2>2. QED
    BY <2>1
<1>8. QED
  BY <1>1, <1>2, <1>3, <1>4, <1>5, <1>6, <1>7

\* A positive amount is a natural number of sats, and one of ten or more is not free.
LEMMA SatsOfAnAmount ==
  ASSUME NEW r \in BillRates, NEW amount \in Int, amount > 0
  PROVE  r \in Nat /\ InSats(amount, r) \in Nat /\ (amount >= 10 => InSats(amount, r) > 0)
<1>1. r \in {950, 9, 11, 2200, 800, 78}
  BY DEF BillRates
<1>2. /\ (2000 * amount + r) \div (2 * r) \in Nat
      /\ amount >= 10 => (2000 * amount + r) \div (2 * r) > 0
  BY <1>1
<1>3. QED
  BY <1>1, <1>2 DEF InSats

\* The two tables of rates agree.
LEMMA RatesAgree ==
  ASSUME NEW c \in {"NG", "KE", "GH", "ZA", "UG", "RW"}
  PROVE  PayoutRate(c) = BillRate(c) /\ BillRate(c) \in BillRates
BY DEF PayoutRate, BillRate, BillRates

\* What the corridors share: their country is a market and their least amount is
\* more than ten of its units.
LEMMA CorridorsFitMarkets ==
  ASSUME NEW k \in Corridors
  PROVE  /\ k.country \in {"NG", "KE", "GH", "ZA", "UG", "RW"}
         /\ k.least \in Int /\ k.most \in Int /\ k.least >= 10
         /\ k.mobile => "mobile_money" \in Capabilities[k.country]
<1>1. /\ k.country \in {"NG", "KE", "GH", "ZA", "UG", "RW"}
      /\ k.least \in Int /\ k.most \in Int /\ k.least >= 10
      /\ k.mobile => k.country \in {"KE", "GH", "UG", "RW"}
  BY DEF Corridors
<1>2. ASSUME NEW c \in {"KE", "GH", "UG", "RW"}
      PROVE  "mobile_money" \in Capabilities[c]
  BY <1>2 DEF Capabilities, AllCapabilities, Countries
<1>3. QED
  BY <1>1, <1>2

\* What may be answered about a country.
Answerable(what, country, services, rate, sats) ==
  /\ what \in {"market", "services", "billers", "bill quote", "corridors", "payout quote",
               "receipt", "eligibility", "card", "esim"}
  /\ country \in Countries \cup {Nothing}
  /\ services \in SUBSET AllCapabilities /\ rate \in Nat /\ sats \in Nat
  /\ country # Nothing =>
       /\ services \subseteq Capabilities[country]
       /\ what = "market" => services = Capabilities[country]
       /\ what = "bill quote" => rate = PayoutRate(country)
       /\ what = "payout quote" => sats > 0 /\ rate = BillRate(country)

\* An answer that may be given keeps the invariant.
LEMMA AnswersKeep ==
  ASSUME NEW what, NEW country, NEW services, NEW rate, NEW sats,
         Answerable(what, country, services, rate, sats),
         shown' = Answer(what, country, services, rate, sats)
  PROVE  SandboxIInv'
<1>1. /\ shown'.what = what /\ shown'.country = country /\ shown'.services = services
      /\ shown'.rate = rate /\ shown'.sats = sats
  BY DEF Answer
<1>2. shown' \in Answers
  BY DEF Answer, Answers, Answerable
<1>3. QED
  BY <1>1, <1>2 DEF SandboxIInv, SandboxTypeOK, AnswersFitMarkets, Answerable

\* An answer about no country offers whatever there is.
LEMMA AnswersWithoutCountry ==
  ASSUME NEW what \in {"bill quote", "receipt", "card"}, NEW service \in AllCapabilities,
         NEW rate \in Nat, NEW sats \in Nat, shown' = Answer(what, Nothing, {service}, rate, sats)
  PROVE  SandboxIInv'
<1>1. Answerable(what, Nothing, {service}, rate, sats)
  BY DEF Answerable
<1>2. QED
  BY <1>1, AnswersKeep

\* What the corridors of a country offer are its capabilities.
LEMMA ChannelsFitMarkets ==
  ASSUME NEW c, NEW K \in SUBSET Corridors, K # {}, \A k \in K : k.country = c
  PROVE  /\ c \in {"NG", "KE", "GH", "ZA", "UG", "RW"} /\ c \in Countries
         /\ Channels(K) \subseteq Capabilities[c] /\ Channels(K) \subseteq AllCapabilities
<1>1. c \in {"NG", "KE", "GH", "ZA", "UG", "RW"} /\ c \in Countries
  BY CorridorsFitMarkets DEF Countries
<1>2. "payouts" \in Capabilities[c] /\ Capabilities[c] \subseteq AllCapabilities
  BY <1>1, MarketsAgree
<1>3. (\E k \in K : k.mobile) => "mobile_money" \in Capabilities[c]
  BY CorridorsFitMarkets
<1>4. QED
  BY <1>1, <1>2, <1>3 DEF Channels

LEMMA SandboxKeeps ==
  ASSUME SandboxNext
  PROVE  SandboxIInv'
<1> DEFINE Served == {"NG", "KE", "GH", "ZA", "UG", "RW"}
<1>0. /\ Services \subseteq AllCapabilities
      /\ {"payouts", "mobile_money", "cards", "esim"} \subseteq AllCapabilities
  BY DEF AllCapabilities
<1>1. CASE ShowMarket
  <2>1. PICK c \in Countries :
          shown' = Answer("market", c, Listed[c], 0, 0) \/ shown' = Answer("market", c, Capabilities[c], 0, 0)
    BY <1>1 DEF ShowMarket
  <2>2. shown' = Answer("market", c, Capabilities[c], 0, 0)
    BY <2>1, MarketsAgree
  <2>3. Answerable("market", c, Capabilities[c], 0, 0)
    BY MarketsAgree DEF Answerable
  <2>4. QED
    BY <2>2, <2>3, AnswersKeep
<1>2. CASE ShowServices
  <2>1. PICK c \in Countries : shown' = Answer("services", c, Supported[c], 0, 0)
    BY <1>2 DEF ShowServices
  <2>2. Answerable("services", c, Supported[c], 0, 0)
    BY MarketsAgree DEF Answerable
  <2>3. QED
    BY <2>1, <2>2, AnswersKeep
<1>3. CASE ShowBillers
  <2>1. PICK c \in Countries, wanted \in SUBSET Services :
          shown' = Answer("billers", c, {Billers(c)[b] : b \in DOMAIN Billers(c)} \cap wanted, 0, 0)
    BY <1>3 DEF ShowBillers
  <2> DEFINE sold == {Billers(c)[b] : b \in DOMAIN Billers(c)} \cap wanted
  <2>2. sold \subseteq Capabilities[c] /\ sold \in SUBSET AllCapabilities
    BY <1>0, BillersAreSupported, MarketsAgree
  <2> HIDE DEF sold
  <2>3. Answerable("billers", c, sold, 0, 0)
    BY <2>2 DEF Answerable
  <2>4. QED
    BY <2>1, <2>3, AnswersKeep DEF sold
<1>4. CASE ShowCorridors
  <2>1. PICK c \in Countries \cup {Nothing} :
          LET K == {k \in Corridors : c = Nothing \/ k.country = c}
          IN  K # {} /\ shown' = Answer("corridors", c, Channels(K), 0, 0)
    BY <1>4 DEF ShowCorridors
  <2> DEFINE K == {k \in Corridors : c = Nothing \/ k.country = c}
  <2>2. K # {} /\ shown' = Answer("corridors", c, Channels(K), 0, 0)
    BY <2>1
  <2>3. c # Nothing => c \in Countries /\ Channels(K) \subseteq Capabilities[c]
    BY <2>2, ChannelsFitMarkets
  <2>4. Channels(K) \in SUBSET AllCapabilities
    BY <1>0 DEF Channels
  <2> HIDE DEF K
  <2>5. Answerable("corridors", c, Channels(K), 0, 0)
    BY <2>3, <2>4 DEF Answerable
  <2>6. QED
    BY <2>2, <2>5, AnswersKeep
<1>5. CASE ShowEsim \/ PurchaseEsim
  <2>1. PICK c \in Countries \cup {Nothing}, price \in {0, 5000, 12000, 30000} :
          shown' = Answer("esim", c, {"esim"}, 0, price)
    BY <1>5 DEF ShowEsim, PurchaseEsim, Countries
  <2>2. Answerable("esim", c, {"esim"}, 0, price)
    BY <1>0, MarketsAgree DEF Answerable
  <2>3. QED
    BY <2>1, <2>2, AnswersKeep
<1>6. ASSUME NEW a \in Amounts, QuoteBill(a)
      PROVE  SandboxIInv'
  <2>1. PICK c \in Countries : \E b \in DOMAIN Billers(c) :
          /\ a > 0
          /\ shown' = Answer("bill quote", c, {QuotedService(c, b)}, BillRate(c),
                             InSats(a, BillRate(c)))
    BY <1>6 DEF QuoteBill
  <2>2. PICK b \in DOMAIN Billers(c) :
          /\ a > 0
          /\ shown' = Answer("bill quote", c, {QuotedService(c, b)}, BillRate(c),
                             InSats(a, BillRate(c)))
    BY <2>1
  <2>3. c \in Served /\ Billers(c)[b] \in Supported[c]
    BY BillersAreSupported
  <2>4. /\ "airtime" \in Capabilities[c] /\ Billers(c)[b] \in Capabilities[c]
        /\ Capabilities[c] \subseteq AllCapabilities
    BY <2>3, MarketsAgree
  <2>5. QuotedService(c, b) \in Capabilities[c]
    BY <2>4 DEF QuotedService
  <2>6. /\ BillRate(c) \in Nat /\ BillRate(c) = PayoutRate(c) /\ InSats(a, BillRate(c)) \in Nat
    BY <2>2, <2>3, RatesAgree, SatsOfAnAmount, SandboxAssumption
  <2>7. Answerable("bill quote", c, {QuotedService(c, b)}, BillRate(c), InSats(a, BillRate(c)))
    BY <2>4, <2>5, <2>6 DEF Answerable
  <2>8. QED
    BY <2>2, <2>7, AnswersKeep
<1>7. ASSUME NEW a \in Amounts, QuoteUnknownBill(a)
      PROVE  SandboxIInv'
  <2>1. PICK service \in Services, rate \in BillRates :
          a > 0 /\ shown' = Answer("bill quote", Nothing, {service}, rate, InSats(a, rate))
    BY <1>7 DEF QuoteUnknownBill
  <2>2. rate \in Nat /\ InSats(a, rate) \in Nat
    BY <2>1, SatsOfAnAmount, SandboxAssumption
  <2>3. service \in AllCapabilities
    BY <1>0
  <2>4. QED
    BY <2>1, <2>2, <2>3, AnswersWithoutCountry
<1>8. ASSUME NEW a \in Amounts, QuotePayout(a)
      PROVE  SandboxIInv'
  <2>1. PICK k \in Corridors :
          /\ k.least <= a /\ a <= k.most
          /\ shown' = Answer("payout quote", k.country, Channels({k}), PayoutRate(k.country),
                             InSats(a, PayoutRate(k.country)))
    BY <1>8 DEF QuotePayout
  <2> DEFINE c == k.country
  <2>2. /\ c \in Served /\ c \in Countries /\ Channels({k}) \subseteq Capabilities[c]
        /\ Channels({k}) \subseteq AllCapabilities
    BY ChannelsFitMarkets
  <2>3. PayoutRate(c) = BillRate(c) /\ PayoutRate(c) \in BillRates
    BY <2>2, RatesAgree
  <2>4. a \in Int /\ a >= 10 /\ a > 0
    <3>1. a \in Int /\ k.least \in Int /\ k.least >= 10
      BY CorridorsFitMarkets, SandboxAssumption
    <3>2. k.least <= a
      BY <2>1
    <3> HIDE DEF c
    <3>3. QED
      BY <3>1, <3>2
  <2>5. PayoutRate(c) \in Nat /\ InSats(a, PayoutRate(c)) \in Nat /\ InSats(a, PayoutRate(c)) > 0
    BY <2>3, <2>4, SatsOfAnAmount
  <2> HIDE DEF c
  <2>6. Answerable("payout quote", c, Channels({k}), PayoutRate(c), InSats(a, PayoutRate(c)))
    BY <2>2, <2>3, <2>5 DEF Answerable
  <2>7. QED
    BY <2>1, <2>6, AnswersKeep DEF c
<1>9. CASE PayBill \/ CreatePayout
  <2>1. /\ "airtime" \in AllCapabilities /\ "payouts" \in AllCapabilities
        /\ 0 \in Nat /\ 500 \in Nat /\ 1000 \in Nat
    BY DEF AllCapabilities, Services
  <2>2. CASE PayBill
    <3>1. shown' = Answer("receipt", Nothing, {"airtime"}, 0, 500)
      BY <2>2 DEF PayBill
    <3>2. Answerable("receipt", Nothing, {"airtime"}, 0, 500)
      BY <2>1 DEF Answerable
    <3>3. QED
      BY <3>1, <3>2, AnswersKeep
  <2>3. CASE CreatePayout
    <3>1. shown' = Answer("receipt", Nothing, {"payouts"}, 0, 1000)
      BY <2>3 DEF CreatePayout
    <3>2. Answerable("receipt", Nothing, {"payouts"}, 0, 1000)
      BY <2>1 DEF Answerable
    <3>3. QED
      BY <3>1, <3>2, AnswersKeep
  <2>4. QED
    BY <1>9, <2>2, <2>3
<1>10. CASE CheckCard
  <2>1. PICK c \in Countries \cup {Nothing} :
          shown' = Answer("eligibility", c, IF c \in Served THEN {"cards"} ELSE {}, 0, 5000)
    BY <1>10 DEF CheckCard
  <2>2. c \in Served => c \in Countries /\ "cards" \in Capabilities[c]
    BY MarketsAgree DEF Countries
  <2>3. Answerable("eligibility", c, IF c \in Served THEN {"cards"} ELSE {}, 0, 5000)
    BY <1>0, <2>2 DEF Answerable
  <2>4. QED
    BY <2>1, <2>3, AnswersKeep
<1>11. ASSUME NEW sats \in Fundings, CreateCard(sats)
       PROVE  SandboxIInv'
  <2>1. shown' = Answer("card", Nothing, {"cards"}, 0, sats)
    BY <1>11 DEF CreateCard
  <2>2. "cards" \in AllCapabilities /\ sats \in Nat /\ 0 \in Nat
    BY <1>0, SandboxAssumption
  <2>3. QED
    BY <2>1, <2>2, AnswersWithoutCountry
<1>12. QED
  BY <1>1, <1>2, <1>3, <1>4, <1>5, <1>6, <1>7, <1>8, <1>9, <1>10, <1>11 DEF SandboxNext

-------------------------------------------------------------------------------
(***************************************************************************)
(* The payment keys.                                                       *)
(***************************************************************************)

\* What is known of the keys and of a lookup before a step.
LEMMA KeysFacts ==
  ASSUME KeysIInv
  PROVE  /\ Publications \in Nat /\ author \in Seq(Rows) /\ Len(author) \in Nat
         /\ Len(author) <= Publications /\ DOMAIN author = 1..Len(author)
         /\ keys \in [Rows -> [p2pk : 0..Publications, transport : 0..Publications]]
         /\ \A k \in Rows :
              /\ keys[k].p2pk \in 0..Len(author) /\ keys[k].p2pk = keys[k].transport
              /\ keys[k] # NoKeys => keys[k].p2pk \in 1..Len(author) /\ author[keys[k].p2pk] = k
         /\ lookup \in [Lookups -> LookupStates]
         /\ \A l \in Lookups :
              /\ lookup[l].stage \in {"idle", "found", "shown"}
              /\ lookup[l].stage = "found" =>
                   /\ lookup[l].row \in Rows /\ lookup[l].since \in 0..Publications
                   /\ lookup[l].since <= keys[lookup[l].row].p2pk
              /\ lookup[l].stage = "shown" =>
                   /\ lookup[l].p2pk \in 1..Len(author) /\ lookup[l].p2pk = lookup[l].transport
                   /\ author[lookup[l].p2pk] = lookup[l].row /\ lookup[l].p2pk >= lookup[l].since
<1>1. /\ Publications \in Nat /\ author \in Seq(Rows) /\ Len(author) \in Nat
      /\ Len(author) <= Publications /\ DOMAIN author = 1..Len(author)
      /\ keys \in [Rows -> [p2pk : 0..Publications, transport : 0..Publications]]
      /\ lookup \in [Lookups -> LookupStates]
  BY KeysAssumption DEF KeysIInv, KeysTypeOK
<1>2. ASSUME NEW k \in Rows
      PROVE  /\ keys[k].p2pk \in 0..Len(author) /\ keys[k].p2pk = keys[k].transport
             /\ keys[k] # NoKeys => keys[k].p2pk \in 1..Len(author) /\ author[keys[k].p2pk] = k
  <2>1. /\ keys[k].p2pk = keys[k].transport
        /\ keys[k] # NoKeys => keys[k].p2pk \in DOMAIN author /\ author[keys[k].p2pk] = k
    BY DEF KeysIInv, PairsAreWhole
  <2>2. keys[k] = NoKeys => keys[k].p2pk = 0
    BY DEF NoKeys
  <2>3. QED
    BY <1>1, <2>1, <2>2
<1>3. ASSUME NEW l \in Lookups
      PROVE  /\ lookup[l].stage \in {"idle", "found", "shown"}
             /\ lookup[l].stage = "found" =>
                  /\ lookup[l].row \in Rows /\ lookup[l].since \in 0..Publications
                  /\ lookup[l].since <= keys[lookup[l].row].p2pk
             /\ lookup[l].stage = "shown" =>
                  /\ lookup[l].p2pk \in 1..Len(author) /\ lookup[l].p2pk = lookup[l].transport
                  /\ author[lookup[l].p2pk] = lookup[l].row /\ lookup[l].p2pk >= lookup[l].since
  <2>1. /\ lookup[l].stage \in {"idle", "found", "shown"}
        /\ lookup[l].stage = "found" => lookup[l].row \in Rows /\ lookup[l].since \in 0..Publications
    BY <1>1 DEF LookupStates
  <2>2. /\ lookup[l].stage = "found" => lookup[l].since <= keys[lookup[l].row].p2pk
        /\ lookup[l].stage = "shown" => lookup[l].p2pk \in DOMAIN author
    BY DEF KeysIInv, LookupsLookForward
  <2>3. lookup[l].stage = "shown" =>
          /\ lookup[l].p2pk = lookup[l].transport
          /\ author[lookup[l].p2pk] = lookup[l].row /\ lookup[l].p2pk >= lookup[l].since
    BY DEF KeysIInv, ProfilesAreWhole
  <2>4. QED
    BY <1>1, <2>1, <2>2, <2>3
<1>4. QED
  BY <1>1, <1>2, <1>3

\* A step of one lookup keeps the invariant if what it becomes is right.
LEMMA LookupSteps ==
  ASSUME KeysIInv, UNCHANGED <<keys, author>>, NEW l \in Lookups, NEW x \in LookupStates,
         lookup' = [lookup EXCEPT ![l] = x],
         x.stage = "found" => x.since <= keys[x.row].p2pk,
         x.stage = "shown" => /\ x.p2pk \in DOMAIN author /\ x.p2pk = x.transport
                              /\ author[x.p2pk] = x.row /\ x.p2pk >= x.since
  PROVE  KeysIInv'
<1>1. /\ lookup' \in [Lookups -> LookupStates] /\ lookup'[l] = x
      /\ \A j \in Lookups \ {l} : lookup'[j] = lookup[j]
  BY DEF KeysIInv
<1>2. x.stage \in {"idle", "found", "shown"}
  BY DEF LookupStates
<1>3. KeysTypeOK'
  BY <1>1, <1>2 DEF KeysIInv, KeysTypeOK
<1>4. LookupsLookForward'
  BY <1>1 DEF KeysIInv, LookupsLookForward
<1>5. ProfilesAreWhole'
  BY <1>1 DEF KeysIInv, ProfilesAreWhole
<1>6. PairsAreWhole'
  BY DEF KeysIInv, PairsAreWhole
<1>7. QED
  BY <1>1, <1>3, <1>4, <1>5, <1>6 DEF KeysIInv

\* Every row with a lookup under way is answered by the youngest pair.
LEMMA PublishKeeps ==
  ASSUME KeysIInv, NEW k \in Rows, Publish(k)
  PROVE  KeysIInv'
<1> DEFINE n == Len(author) + 1
<1>1. /\ n <= Publications /\ author' = Append(author, k) /\ UNCHANGED lookup
      /\ keys' = [keys EXCEPT ![k] = [p2pk |-> n, transport |-> n]]
  BY DEF Publish
<1>2. n \in Nat /\ n \in 1..Publications
  BY <1>1, KeysFacts
<1>3. /\ author' \in Seq(Rows) /\ Len(author') = n /\ DOMAIN author' = 1..n /\ author'[n] = k
      /\ \A i \in 1..Len(author) : author'[i] = author[i] /\ i \in 1..n
  BY <1>1, KeysFacts
<1>4. /\ keys'[k] = [p2pk |-> n, transport |-> n]
      /\ \A r \in Rows \ {k} : keys'[r] = keys[r]
      /\ keys' \in [Rows -> [p2pk : 0..Publications, transport : 0..Publications]]
  BY <1>1, <1>2, KeysFacts
<1>5. keys'[k].p2pk = n /\ keys'[k].transport = n
  BY <1>4
<1>6. KeysTypeOK' /\ Len(author') <= Publications /\ lookup' \in [Lookups -> LookupStates]
  BY <1>1, <1>3, <1>4, KeysFacts DEF KeysTypeOK
<1> HIDE DEF n
<1>7. PairsAreWhole'
  <2>1. ASSUME NEW r \in Rows
        PROVE  /\ keys'[r].p2pk = keys'[r].transport
               /\ keys'[r] # NoKeys => keys'[r].p2pk \in DOMAIN author' /\ author'[keys'[r].p2pk] = r
    <3>1. CASE r = k
      BY <1>2, <1>3, <1>5, <3>1
    <3>2. CASE r # k
      BY <1>3, <1>4, <3>2, KeysFacts
    <3>3. QED
      BY <3>1, <3>2
  <2>2. QED
    BY <2>1 DEF PairsAreWhole, NoKeys
<1>8. ASSUME NEW l \in Lookups
      PROVE  /\ lookup'[l].stage = "found" => lookup'[l].since <= keys'[lookup'[l].row].p2pk
             /\ lookup'[l].stage = "shown" =>
                  /\ lookup'[l].p2pk \in DOMAIN author' /\ lookup'[l].p2pk = lookup'[l].transport
                  /\ author'[lookup'[l].p2pk] = lookup'[l].row /\ lookup'[l].p2pk >= lookup'[l].since
  <2>1. CASE lookup[l].stage = "found"
    <3>1. /\ lookup[l].row \in Rows /\ lookup[l].since \in 0..Publications
          /\ lookup[l].since <= keys[lookup[l].row].p2pk
          /\ keys[lookup[l].row].p2pk \in 0..Len(author)
      BY <2>1, KeysFacts
    <3>2. keys[lookup[l].row].p2pk <= keys'[lookup[l].row].p2pk
      <4>1. CASE lookup[l].row = k
        BY <1>5, <3>1, <4>1, KeysFacts DEF n
      <4>2. CASE lookup[l].row # k
        BY <1>4, <3>1, <4>2
      <4>3. QED
        BY <4>1, <4>2
    <3>3. keys'[lookup[l].row].p2pk \in Int
      BY <1>4, <3>1
    <3>4. QED
      BY <1>1, <2>1, <3>1, <3>2, <3>3
  <2>2. CASE lookup[l].stage = "shown"
    BY <1>1, <1>3, <2>2, KeysFacts
  <2>3. QED
    BY <1>1, <2>1, <2>2
<1>9. LookupsLookForward' /\ ProfilesAreWhole'
  BY <1>8 DEF LookupsLookForward, ProfilesAreWhole
<1>10. QED
  BY <1>6, <1>7, <1>9 DEF KeysIInv

LEMMA KeysKeeps ==
  ASSUME KeysIInv, NEW store \in {"postgres", "memory"}, KeysStep(store)
  PROVE  KeysIInv'
<1>1. PICK l \in Lookups, k \in {store} \X Owners \X Environments :
        Publish(k) \/ FindOwner(l, k) \/ ShowKeys(l) \/ EndLookup(l)
  BY DEF KeysStep
<1>2. k \in Rows
  BY DEF Rows
<1>3. CASE FindOwner(l, k)
  <2>1. /\ lookup' = [lookup EXCEPT ![l] = [stage |-> "found", row |-> k, since |-> keys[k].p2pk]]
        /\ UNCHANGED <<keys, author>>
    BY <1>3 DEF FindOwner
  <2>2. keys[k].p2pk \in 0..Publications
    BY <1>2, KeysFacts
  <2>3. PICK x \in LookupStates : x = [stage |-> "found", row |-> k, since |-> keys[k].p2pk]
    BY <1>2, <2>2 DEF LookupStates
  <2>4. x.stage = "found" /\ x.row = k /\ x.since = keys[k].p2pk
    BY <2>3
  <2>5. x.since <= keys[x.row].p2pk
    BY <2>2, <2>4
  <2>6. QED
    BY <2>1, <2>3, <2>4, <2>5, LookupSteps
<1>4. CASE ShowKeys(l)
  <2> DEFINE pair == keys[lookup[l].row]
  <2>1. /\ lookup[l].stage = "found" /\ UNCHANGED <<keys, author>>
        /\ lookup' = [lookup EXCEPT ![l] =
             IF pair = NoKeys THEN IdleLookup
             ELSE [stage |-> "shown", row |-> lookup[l].row, since |-> lookup[l].since,
                   p2pk |-> pair.p2pk, transport |-> pair.transport]]
    BY <1>4 DEF ShowKeys
  <2>2. /\ lookup[l].row \in Rows /\ lookup[l].since \in 0..Publications
        /\ lookup[l].since <= pair.p2pk /\ pair.p2pk = pair.transport
        /\ pair.p2pk \in 0..Len(author)
        /\ pair # NoKeys => pair.p2pk \in 1..Len(author) /\ author[pair.p2pk] = lookup[l].row
    BY <2>1, KeysFacts
  <2>3. CASE pair = NoKeys
    <3>1. PICK x \in LookupStates : x = IdleLookup
      BY DEF LookupStates, IdleLookup
    <3>2. x.stage = "idle"
      BY <3>1 DEF IdleLookup
    <3>3. lookup' = [lookup EXCEPT ![l] = x] /\ UNCHANGED <<keys, author>>
      BY <2>1, <2>3, <3>1
    <3> HIDE DEF pair
    <3>4. QED
      BY <3>2, <3>3, LookupSteps
  <2>4. CASE pair # NoKeys
    <3>1. pair.p2pk \in 1..Publications /\ pair.transport \in 1..Publications
      BY <2>2, <2>4, KeysFacts
    <3> HIDE DEF pair
    <3>2. PICK x \in LookupStates :
            x = [stage |-> "shown", row |-> lookup[l].row, since |-> lookup[l].since,
                 p2pk |-> pair.p2pk, transport |-> pair.transport]
      BY <2>2, <3>1 DEF LookupStates
    <3>3. /\ x.stage = "shown" /\ x.row = lookup[l].row /\ x.since = lookup[l].since
          /\ x.p2pk = pair.p2pk /\ x.transport = pair.transport
      BY <3>2
    <3>4. lookup' = [lookup EXCEPT ![l] = x] /\ UNCHANGED <<keys, author>>
      BY <2>1, <2>4, <3>2
    <3>5. /\ x.p2pk \in DOMAIN author /\ x.p2pk = x.transport
          /\ author[x.p2pk] = x.row /\ x.p2pk >= x.since
      BY <2>2, <2>4, <3>1, <3>3, KeysFacts
    <3>6. x.stage # "found"
      BY <3>3
    <3> HIDE DEF pair
    <3>7. QED
      BY <3>4, <3>5, <3>6, LookupSteps
  <2>5. QED
    BY <2>3, <2>4
<1>5. CASE EndLookup(l)
  <2>1. PICK x \in LookupStates : x = IdleLookup
    BY DEF LookupStates, IdleLookup
  <2>2. x.stage = "idle"
    BY <2>1 DEF IdleLookup
  <2>3. QED
    BY <1>5, <2>1, <2>2, LookupSteps DEF EndLookup
<1>6. QED
  BY <1>1, <1>2, <1>3, <1>4, <1>5, PublishKeeps

LEMMA KeysStart == KeysInit => KeysIInv
<1> SUFFICES ASSUME KeysInit PROVE KeysIInv
  OBVIOUS
<1>1. /\ keys = [k \in Rows |-> NoKeys] /\ author = <<>>
      /\ lookup = [l \in Lookups |-> IdleLookup] /\ Publications \in Nat
  BY KeysAssumption DEF KeysInit
<1>2. /\ NoKeys \in [p2pk : 0..Publications, transport : 0..Publications]
      /\ NoKeys.p2pk = NoKeys.transport
  BY <1>1 DEF NoKeys
<1>3. IdleLookup \in LookupStates /\ IdleLookup.stage = "idle"
  BY DEF IdleLookup, LookupStates
<1>4. author \in Seq(Rows) /\ Len(author) = 0
  BY <1>1
<1> HIDE DEF NoKeys, IdleLookup
<1>5. QED
  BY <1>1, <1>2, <1>3, <1>4
     DEF KeysIInv, KeysTypeOK, PairsAreWhole, LookupsLookForward, ProfilesAreWhole

\* The next process finds the pairs of the database.
LEMMA KeysRestart ==
  ASSUME KeysIInv, keys' = KeysLeft, lookup' = [l \in Lookups |-> IdleLookup], UNCHANGED author
  PROVE  KeysIInv'
<1>1. /\ keys \in [Rows -> [p2pk : 0..Publications, transport : 0..Publications]]
      /\ Publications \in Nat
      /\ author \in Seq(Rows) /\ Len(author) <= Publications /\ PairsAreWhole
  BY KeysAssumption DEF KeysIInv, KeysTypeOK
<1>2. /\ NoKeys \in [p2pk : 0..Publications, transport : 0..Publications]
      /\ NoKeys.p2pk = NoKeys.transport
  BY <1>1 DEF NoKeys
<1>3. IdleLookup \in LookupStates /\ IdleLookup.stage = "idle"
  BY DEF IdleLookup, LookupStates
<1> HIDE DEF NoKeys, IdleLookup
<1>4. /\ keys' \in [Rows -> [p2pk : 0..Publications, transport : 0..Publications]]
      /\ \A k \in Rows : keys'[k] = keys[k] \/ keys'[k] = NoKeys
  BY <1>1, <1>2 DEF KeysLeft
<1>5. PairsAreWhole'
  BY <1>1, <1>2, <1>4 DEF PairsAreWhole
<1>6. \A l \in Lookups : lookup'[l] = IdleLookup
  OBVIOUS
<1>7. KeysTypeOK' /\ lookup' \in [Lookups -> LookupStates]
  BY <1>1, <1>3, <1>4, <1>6 DEF KeysTypeOK
<1>8. LookupsLookForward' /\ ProfilesAreWhole'
  BY <1>3, <1>6 DEF LookupsLookForward, ProfilesAreWhole
<1>9. QED
  BY <1>1, <1>5, <1>7, <1>8 DEF KeysIInv

-------------------------------------------------------------------------------
(***************************************************************************)
(* The process with its parts.                                             *)
(***************************************************************************)

\* The inductive invariant: no part needs anything of another.
DevelopmentIInv ==
  /\ StartupIInv /\ LightningIInv /\ EscrowIInv /\ SandboxIInv /\ KeysIInv
  /\ part \in Parts

LEMMA DevelopmentStarts == Init => DevelopmentIInv
<1> SUFFICES ASSUME Init PROVE DevelopmentIInv
  OBVIOUS
<1>1. StartupIInv
  BY DEF Init, StartupInit, StartupIInv, StartupTypeOK, NoMockServesProduction, IsProduction,
         NoConfig, Configs
<1>2. now \in Times
  BY ClockAssumption DEF Init, Times
<1>3. SandboxIInv
  BY DEF Init, SandboxInit, SandboxIInv, SandboxTypeOK, AnswersFitMarkets
<1>4. QED
  BY <1>1, <1>2, <1>3, LightningStarts, EscrowStarts, KeysStart DEF Init, DevelopmentIInv

LEMMA StepDevelopmentIInv == DevelopmentIInv /\ [Next]_vars => DevelopmentIInv'
<1> SUFFICES ASSUME DevelopmentIInv, [Next]_vars PROVE DevelopmentIInv'
  OBVIOUS
<1>1. /\ StartupIInv /\ LightningIInv /\ EscrowIInv /\ SandboxIInv /\ KeysIInv
      /\ part \in Parts /\ now \in Times /\ now >= now
  BY DEF DevelopmentIInv, EscrowIInv, EscrowTypeOK, Times
<1>2. UNCHANGED startupVars => StartupIInv'
  BY <1>1
     DEF startupVars, StartupIInv, StartupTypeOK, NoMockServesProduction, IsProduction
<1>3. UNCHANGED lightningVars => LightningIInv'
  BY <1>1 DEF lightningVars, LightningIInv, LightningTypeOK, BooksBalance
<1>4. UNCHANGED <<escrowVars, now>> => EscrowIInv'
  BY <1>1, EscrowAges
<1>5. UNCHANGED sandboxVars => SandboxIInv'
  BY <1>1
     DEF sandboxVars, SandboxIInv, SandboxTypeOK, AnswersFitMarkets
<1>6. UNCHANGED keysVars => KeysIInv'
  BY <1>1
     DEF keysVars, KeysIInv, KeysTypeOK, PairsAreWhole, LookupsLookForward, ProfilesAreWhole
<1>7. CASE MainStep
  BY <1>1, <1>3, <1>4, <1>5, <1>6, <1>7, MainKeeps DEF MainStep, DevelopmentIInv
<1>8. CASE EndProcess
  <2>1. StartupIInv' /\ SandboxIInv' /\ (now \in Times)' /\ part' = part
    BY <1>1, <1>5, <1>8, ExitKeeps DEF EndProcess, Stop
  <2>2. LightningIInv'
    BY <1>8, LightningRestarts DEF EndProcess, LightningInit
  <2>3. EscrowIInv'
    BY <1>8, <2>1, EscrowRestarts DEF EndProcess, EscrowInit
  <2>4. KeysIInv'
    BY <1>1, <1>8, KeysRestart DEF EndProcess
  <2>5. QED
    BY <1>1, <2>1, <2>2, <2>3, <2>4 DEF DevelopmentIInv
<1>9. CASE Tick
  <2>1. now' \in Times /\ now' >= now /\ UNCHANGED escrowVars
    BY <1>1, <1>9, ClockAssumption DEF Tick, EscrowTick, Advance, Times
  <2>2. EscrowIInv'
    BY <1>1, <2>1, EscrowAges
  <2>3. QED
    BY <1>1, <1>2, <1>3, <1>5, <1>6, <1>9, <2>2 DEF Tick, DevelopmentIInv
<1>10. CASE ServeLightning
  BY <1>1, <1>2, <1>4, <1>5, <1>6, <1>10, LightningKeeps DEF ServeLightning, DevelopmentIInv
<1>11. CASE ServeEscrow
  BY <1>1, <1>2, <1>3, <1>5, <1>6, <1>11, EscrowKeeps DEF ServeEscrow, DevelopmentIInv
<1>12. CASE ServeSandbox
  BY <1>1, <1>2, <1>3, <1>4, <1>6, <1>12, SandboxKeeps DEF ServeSandbox, DevelopmentIInv
<1>13. CASE ServeKeys
  <2>1. PICK store \in {"postgres", "memory"} : KeysStep(store)
    BY <1>13 DEF ServeKeys
  <2>2. KeysIInv'
    BY <1>1, <2>1, KeysKeeps
  <2>3. QED
    BY <1>1, <1>2, <1>3, <1>4, <1>5, <1>13, <2>2 DEF ServeKeys, DevelopmentIInv
<1>14. CASE UNCHANGED vars
  BY <1>1, <1>2, <1>3, <1>4, <1>5, <1>6, <1>14 DEF vars, DevelopmentIInv
<1>15. QED
  BY <1>7, <1>8, <1>9, <1>10, <1>11, <1>12, <1>13, <1>14 DEF Next

\* The invariant of the process and of each part holds throughout, though the process
\* may end between any two steps of a part.
THEOREM DevelopmentInductive == Spec => []DevelopmentIInv
BY DevelopmentStarts, StepDevelopmentIInv, PTL DEF Spec

\* Every variable of the process and of its parts keeps its type; the balance of the
\* Lightning provider, a u64, is never overdrawn.
THEOREM TypeCorrect == Spec => []TypeOK
<1>1. DevelopmentIInv => TypeOK
  BY DEF DevelopmentIInv, StartupIInv, LightningIInv, EscrowIInv, SandboxIInv, KeysIInv, TypeOK
<1>2. QED
  BY <1>1, DevelopmentInductive, PTL

\* No path through the settings, the database and its failures leads to a production
\* process that serves mocks.
THEOREM ProductionHasNoMocks == Spec => []NoMockServesProduction
<1>1. DevelopmentIInv => NoMockServesProduction
  BY DEF DevelopmentIInv, StartupIInv
<1>2. QED
  BY <1>1, DevelopmentInductive, PTL

\* Every debit of the Lightning provider is a payment recorded, dropped or under way, and
\* a balance that is shown has none under way in it, for any balance, cost and payers.
THEOREM BooksAlwaysBalance == Spec => []BooksBalance
<1>1. DevelopmentIInv => BooksBalance
  BY DEF DevelopmentIInv, LightningIInv
<1>2. QED
  BY <1>1, DevelopmentInductive, PTL

\* An intent of the development escrow is settled at most once, as its status says and
\* not refunded before its expiry, and until then the claim or the refund goes through.
THEOREM EscrowsSettleOnce == Spec => []EscrowSettlesOnce
<1>1. DevelopmentIInv => EscrowSettlesOnce
  BY DEF DevelopmentIInv, EscrowIInv
<1>2. QED
  BY <1>1, DevelopmentInductive, PTL

\* What any answer about a market offers is among the capabilities of the market, bills
\* and payouts of one country are quoted at one rate, and no payout is quoted as free,
\* for any amounts, though any request may come at any time.
THEOREM OffersFitMarkets == Spec => []AnswersFitMarkets
<1>1. DevelopmentIInv => AnswersFitMarkets
  BY DEF DevelopmentIInv, SandboxIInv
<1>2. QED
  BY <1>1, DevelopmentInductive, PTL

\* A payment profile shows two keys of one publication, made for what was asked and not
\* replaced before it was asked, for any number of publications and lookups.
THEOREM ProfilesStayWhole == Spec => []ProfilesAreWhole
<1>1. DevelopmentIInv => ProfilesAreWhole
  BY DEF DevelopmentIInv, KeysIInv
<1>2. QED
  BY <1>1, DevelopmentInductive, PTL
==============================================================================
