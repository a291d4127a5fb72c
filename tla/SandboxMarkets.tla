---------------------------- MODULE SandboxMarkets ----------------------------
(***************************************************************************)
(* The catalogue a traveller shops from: markets and what they can do      *)
(* (services/api/src/routes/markets.rs), bills and eSIMs                   *)
(* (providers/dtone.rs), payouts and cards (providers/bitnob.rs).  The     *)
(* server keeps nothing between calls and compares no call with an earlier *)
(* one: any request may come at any time.  The state here is the answer    *)
(* shown last.  A request that needs a country and names none is about     *)
(* Kenya.                                                                  *)
(***************************************************************************)
EXTENDS FiniteSets, Integers

CONSTANTS
  Amounts,   \* amounts in fiat money a quote is asked for
  Fundings,  \* amounts in sats a card is funded with
  Nothing    \* no country, or none of the markets; nothing shown

ASSUME SandboxAssumption == Amounts \subseteq Int /\ Fundings \subseteq Nat

VARIABLE shown  \* the answer that was shown last

sandboxVars == <<shown>>

-------------------------------------------------------------------------------
Countries == {"KE", "NG", "GH", "ZA", "UG", "RW", "TZ", "US"}
Services == {"airtime", "data", "electricity", "water", "tv", "internet"}
AllCapabilities == Services \cup {"payouts", "mobile_money", "cards", "esim"}

\* list_markets.
Listed ==
  [c \in Countries |->
     CASE c = "KE" -> AllCapabilities
       [] c \in {"NG", "ZA"} -> AllCapabilities \ {"mobile_money", "water"}
       [] c \in {"GH", "UG", "RW"} -> AllCapabilities \ {"internet"}
       [] c = "TZ" -> AllCapabilities \ {"tv", "internet"}
       [] c = "US" -> {"payouts", "cards", "esim"}]

\* get_market_capabilities, a second table.
Capabilities ==
  [c \in Countries |->
     CASE c = "KE" -> AllCapabilities
       [] c = "NG" -> AllCapabilities \ {"mobile_money", "water"}
       [] c = "GH" -> AllCapabilities \ {"internet"}
       [] c = "ZA" -> AllCapabilities \ {"mobile_money", "water"}
       [] c = "UG" -> AllCapabilities \ {"internet"}
       [] c = "RW" -> AllCapabilities \ {"internet"}
       [] c = "TZ" -> AllCapabilities \ {"tv", "internet"}
       [] c = "US" -> {"payouts", "cards", "esim"}]

\* DtOneAdapter::get_supported_services; Tanzania and the US are an error.
Supported ==
  [c \in Countries |->
     CASE c = "KE" -> Services
       [] c \in {"NG", "ZA"} -> Services \ {"water"}
       [] c \in {"GH", "UG", "RW"} -> Services \ {"internet"}
       [] OTHER -> {}]

\* DtOneAdapter::get_billers: the service of every biller.
BillersKenya ==
  [ke_safaricom |-> "airtime", ke_safaricom_data |-> "data", ke_airtel |-> "airtime",
   ke_kplc_prepaid |-> "electricity", ke_nairobi_water |-> "water", ke_dstv |-> "tv",
   ke_zuku |-> "internet"]
BillersNigeria ==
  [ng_mtn |-> "airtime", ng_mtn_data |-> "data", ng_airtel |-> "airtime",
   ng_ikedc |-> "electricity", ng_dstv |-> "tv", ng_spectranet |-> "internet"]
BillersGhana ==
  [gh_mtn |-> "airtime", gh_mtn_data |-> "data", gh_ecg |-> "electricity",
   gh_water |-> "water", gh_dstv |-> "tv"]
BillersSouthAfrica ==
  [za_vodacom |-> "airtime", za_vodacom_data |-> "data", za_eskom |-> "electricity",
   za_dstv |-> "tv"]
BillersUganda ==
  [ug_mtn |-> "airtime", ug_umeme |-> "electricity", ug_nwsc |-> "water"]
BillersRwanda ==
  [rw_mtn |-> "airtime", rw_eucl |-> "electricity", rw_wasac |-> "water"]

Billers(c) ==
  CASE c = "KE" -> BillersKenya
    [] c = "NG" -> BillersNigeria
    [] c = "GH" -> BillersGhana
    [] c = "ZA" -> BillersSouthAfrica
    [] c = "UG" -> BillersUganda
    [] c = "RW" -> BillersRwanda
    [] OTHER    -> [b \in {} |-> Nothing]

\* BitnobAdapter::get_supported_corridors.
Corridors ==
  {[id |-> "ke_mpesa", country |-> "KE", mobile |-> TRUE, least |-> 100, most |-> 150000],
   [id |-> "ke_bank", country |-> "KE", mobile |-> FALSE, least |-> 500, most |-> 500000],
   [id |-> "ng_bank", country |-> "NG", mobile |-> FALSE, least |-> 1000, most |-> 5000000],
   [id |-> "gh_momo", country |-> "GH", mobile |-> TRUE, least |-> 10, most |-> 10000],
   [id |-> "ug_momo", country |-> "UG", mobile |-> TRUE, least |-> 5000, most |-> 5000000],
   [id |-> "rw_momo", country |-> "RW", mobile |-> TRUE, least |-> 1000, most |-> 2000000],
   [id |-> "za_bank", country |-> "ZA", mobile |-> FALSE, least |-> 50, most |-> 50000]}

\* rate_per_btc of the payouts in a currency, in units of 100,000.
PayoutRate(c) ==
  CASE c = "KE" -> 78
    [] c = "NG" -> 950
    [] c = "GH" -> 9
    [] c = "ZA" -> 11
    [] c = "UG" -> 2200
    [] c = "RW" -> 800

\* rate_per_btc of bills, a second table: by the first letters of the biller id, which
\* are those of the country in every id of a table.
BillRate(c) ==
  CASE c = "NG" -> 950
    [] c = "GH" -> 9
    [] c = "ZA" -> 11
    [] c = "UG" -> 2200
    [] c = "RW" -> 800
    [] OTHER    -> 78

BillRates == {950, 9, 11, 2200, 800, 78}

\* The service get_bill_quote reads out of a biller id: three ids say nothing, and
\* pass for airtime.
QuotedService(c, b) ==
  IF b \in {"ng_ikedc", "ug_nwsc", "rw_wasac"} THEN "airtime" ELSE Billers(c)[b]

\* amount / rate_per_btc * 100,000,000, rounded to the nearest sat; small amounts
\* of a weak currency come out as zero.
InSats(amount, rate) == (2000 * amount + rate) \div (2 * rate)

-------------------------------------------------------------------------------
\* An answer about a country: the one asked for, or that of the biller or corridor.
Answer(what, country, services, rate, sats) ==
  [what |-> what, country |-> country, services |-> services, rate |-> rate, sats |-> sats]

SandboxInit == shown = Nothing

\* list_markets shows every market, get_market_capabilities one.
ShowMarket ==
  \E c \in Countries, table \in {Listed, Capabilities} :
    shown' = Answer("market", c, table[c], 0, 0)

\* get_supported_services; a country without is an error.
ShowServices ==
  \E c \in Countries :
    /\ Supported[c] # {}
    /\ shown' = Answer("services", c, Supported[c], 0, 0)

\* get_billers: of one service, or of all if the service is absent or unknown.
ShowBillers ==
  \E c \in Countries, wanted \in SUBSET Services :
    /\ Cardinality(wanted) = 1 \/ wanted = Services
    /\ DOMAIN Billers(c) # {}
    /\ shown' = Answer("billers", c, {Billers(c)[b] : b \in DOMAIN Billers(c)} \cap wanted, 0, 0)

\* get_bill_quote for a biller of a table: any positive amount, whatever the product
\* says.
QuoteBill(amount) ==
  \E c \in Countries : \E b \in DOMAIN Billers(c) :
    /\ amount > 0
    /\ shown' = Answer("bill quote", c, {QuotedService(c, b)}, BillRate(c),
                       InSats(amount, BillRate(c)))

\* get_bill_quote for any other id: its letters may say any service and any rate.
QuoteUnknownBill(amount) ==
  \E service \in Services, rate \in BillRates :
    /\ amount > 0
    /\ shown' = Answer("bill quote", Nothing, {service}, rate, InSats(amount, rate))

\* pay_bill: a receipt for airtime of a fixed amount, whatever the quote id names.
PayBill == shown' = Answer("receipt", Nothing, {"airtime"}, 0, 500)

\* What a set of corridors offers.
Channels(K) == {"payouts"} \cup (IF \E k \in K : k.mobile THEN {"mobile_money"} ELSE {})

\* get_supported_corridors: of one country, which is an error if it has none, or all.
ShowCorridors ==
  \E c \in Countries \cup {Nothing} :
    LET K == {k \in Corridors : c = Nothing \/ k.country = c} IN
    /\ K # {}
    /\ shown' = Answer("corridors", c, Channels(K), 0, 0)

\* Mutant: the limits of the corridor are not compared.
QuotePayoutUnlimited(amount) ==
  \E k \in Corridors :
    shown' = Answer("payout quote", k.country, Channels({k}), PayoutRate(k.country),
                    InSats(amount, PayoutRate(k.country)))

\* get_payout_quote: any corridor, and an amount within its limits.
QuotePayout(amount) ==
  \E k \in Corridors :
    /\ k.least <= amount /\ amount <= k.most
    /\ shown' = Answer("payout quote", k.country, Channels({k}), PayoutRate(k.country),
                       InSats(amount, PayoutRate(k.country)))

\* create_payout to an account that is not empty: a receipt of a fixed amount, whatever
\* the quote id names.
CreatePayout == shown' = Answer("receipt", Nothing, {"payouts"}, 0, 1000)

\* check_card_eligibility of any country: cards or none, and the least funding.
CheckCard ==
  \E c \in Countries \cup {Nothing} :
    shown' = Answer("eligibility", c,
                    IF c \in {"NG", "KE", "GH", "ZA", "UG", "RW"} THEN {"cards"} ELSE {}, 0, 5000)

\* create_virtual_card: the request names no country, and the eligibility is not
\* looked at.
CreateCard(sats) ==
  /\ sats >= 5000
  /\ shown' = Answer("card", Nothing, {"cards"}, 0, sats)

\* get_esim_packages for any country, a market or not: three prices.
ShowEsim ==
  \E c \in Countries \cup {Nothing}, price \in {5000, 12000, 30000} :
    shown' = Answer("esim", c, {"esim"}, 0, price)

\* purchase_esim: a fixed profile of Kenya, whatever the package id names.
PurchaseEsim == shown' = Answer("esim", "KE", {"esim"}, 0, 0)

SandboxNext ==
  \/ ShowMarket \/ ShowServices \/ ShowBillers \/ ShowCorridors \/ ShowEsim
  \/ \E a \in Amounts : QuoteBill(a) \/ QuoteUnknownBill(a) \/ QuotePayout(a)
  \/ PayBill \/ CreatePayout \/ CheckCard \/ PurchaseEsim
  \/ \E sats \in Fundings : CreateCard(sats)

Answers ==
  [what : {"market", "services", "billers", "bill quote", "corridors", "payout quote",
           "receipt", "eligibility", "card", "esim"},
   country : Countries \cup {Nothing}, services : SUBSET AllCapabilities,
   rate : Nat, sats : Nat]

SandboxTypeOK == shown = Nothing \/ shown \in Answers

-------------------------------------------------------------------------------
\* The seven tables of three files agree: what any answer about a market offers is
\* among the capabilities of that market, bills and payouts of one country are
\* quoted at one rate, and the least amount of every corridor is worth a sat.
AnswersFitMarkets ==
  shown # Nothing /\ shown.country # Nothing =>
    /\ shown.services \subseteq Capabilities[shown.country]
    /\ shown.what = "market" => shown.services = Capabilities[shown.country]
    /\ shown.what = "bill quote" => shown.rate = PayoutRate(shown.country)
    /\ shown.what = "payout quote" => shown.sats > 0 /\ shown.rate = BillRate(shown.country)

SandboxIInv == SandboxTypeOK /\ AnswersFitMarkets
==============================================================================
