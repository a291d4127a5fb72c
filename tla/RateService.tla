----------------------------- MODULE RateService -----------------------------
(***************************************************************************)
(* HanbovaRateService (services/api/src/services/rate_service.rs):         *)
(* indicative rates with a short cache and a longer fallback for the time  *)
(* a provider is down.  A call reads the clock once, looks into the cache, *)
(* asks the provider without holding a lock, and writes what it got; other *)
(* calls do the same meanwhile.                                            *)
(***************************************************************************)
EXTENDS Clock

CONSTANTS
  Markets,  \* the cache keys: market, asset and currency in upper case
  Calls,    \* calls the service works on at the same time
  Fresh,    \* fresh_ttl
  Stale     \* stale_ttl

ASSUME RateAssumption == Fresh \in Nat \ {0} /\ Stale \in Nat /\ Fresh <= Stale

VARIABLES
  cache,  \* of a market: the cached entry or NoEntry
  stage,  \* where a call is
  call    \* the call: its keys, its clock, what was fetched, what it shows

rateVars == <<cache, stage, call>>

-------------------------------------------------------------------------------
\* A rate is known by the time at which the provider quoted it.
NotYet == -1
Failed == -2
NoEntry == [quoted |-> NotYet, cached_at |-> 0]
Nothing == [quoted |-> NotYet, is_stale |-> FALSE]

Entry == [quoted : Times, cached_at : Times]
Shown == [quoted : Times \cup {NotYet}, is_stale : BOOLEAN]

\* A call looks into the cache ("reading"), waits for the provider ("fetching"),
\* has only the list of get_all_rates left to read ("listing"), or shows its
\* answer ("answered").
Stages == {"idle", "reading", "fetching", "listing", "answered"}

\* asked: the markets of the call; fetching: those the provider is asked for;
\* fetched: what came of it.
Call == [all : BOOLEAN, asked : SUBSET Markets, started : Times, fetching : SUBSET Markets,
         fetched : [Markets -> Times \cup {NotYet, Failed}], shown : [Markets -> Shown]]

NoCall == [all |-> FALSE, asked |-> {}, started |-> 0, fetching |-> {},
           fetched |-> [k \in Markets |-> NotYet], shown |-> [k \in Markets |-> Nothing]]

RateInit ==
  /\ cache = [k \in Markets |-> NoEntry]
  /\ stage = [c \in Calls |-> "idle"]
  /\ call = [c \in Calls |-> NoCall]

Cached(k) == cache[k] # NoEntry
Age(c, k) == call[c].started - cache[k].cached_at
IsFresh(c, k) == Cached(k) /\ Age(c, k) < Fresh
IsUsable(c, k) == Cached(k) /\ Age(c, k) < Stale

Goto(c, s) == stage' = [stage EXCEPT ![c] = s]
Show(c, shown) == call' = [call EXCEPT ![c].shown = shown]

-------------------------------------------------------------------------------
\* get_rate of one market or get_all_rates: the clock is read before the cache.
Begin(c, all, keys) ==
  /\ stage[c] = "idle"
  /\ Goto(c, "reading")
  /\ call' = [call EXCEPT ![c] = [NoCall EXCEPT !.all = all, !.asked = keys, !.started = now]]
  /\ UNCHANGED cache

\* Under the read lock: get_rate answers with a fresh entry.
AnswerFresh(c) ==
  /\ stage[c] = "reading"
  /\ ~call[c].all
  /\ \A k \in call[c].asked : IsFresh(c, k)
  /\ Show(c, [k \in Markets |-> IF k \in call[c].asked
                                THEN [quoted |-> cache[k].quoted, is_stale |-> FALSE]
                                ELSE Nothing])
  /\ Goto(c, "answered")
  /\ UNCHANGED cache

\* Otherwise the provider is asked for what is not fresh, all at once.
Fetch(c) ==
  /\ stage[c] = "reading"
  /\ call[c].all \/ \E k \in call[c].asked : ~IsFresh(c, k)
  /\ call' = [call EXCEPT ![c].fetching = {k \in call[c].asked : ~IsFresh(c, k)}]
  /\ Goto(c, "fetching")
  /\ UNCHANGED cache

Pending(c) == {k \in call[c].fetching : call[c].fetched[k] = NotYet}

\* The provider quotes a rate, or fails or times out.
ProviderQuotes(c, k) ==
  /\ stage[c] = "fetching"
  /\ k \in Pending(c)
  /\ call' = [call EXCEPT ![c].fetched[k] = now]
  /\ UNCHANGED <<cache, stage>>

ProviderFails(c, k) ==
  /\ stage[c] = "fetching"
  /\ k \in Pending(c)
  /\ call' = [call EXCEPT ![c].fetched[k] = Failed]
  /\ UNCHANGED <<cache, stage>>

Got(c) == {k \in call[c].fetching : call[c].fetched[k] >= 0}

\* Mutant: an entry is as old as its insertion.
InsertStampedNow(c) ==
  cache' = [k \in Markets |-> IF k \in Got(c)
                              THEN [quoted |-> call[c].fetched[k], cached_at |-> now]
                              ELSE cache[k]]

\* What was fetched is cached with the clock of the call.
Insert(c) ==
  cache' = [k \in Markets |-> IF k \in Got(c)
                              THEN [quoted |-> call[c].fetched[k], cached_at |-> call[c].started]
                              ELSE cache[k]]

\* get_rate: the provider answered.
StoreRate(c) ==
  /\ stage[c] = "fetching"
  /\ ~call[c].all
  /\ Got(c) = call[c].fetching
  /\ Insert(c)
  /\ Show(c, [k \in Markets |-> IF k \in Got(c)
                                THEN [quoted |-> call[c].fetched[k], is_stale |-> FALSE]
                                ELSE Nothing])
  /\ Goto(c, "answered")

\* get_rate: the provider failed; an entry in the stale window helps out, or the
\* rate is unavailable.
FallBack(c) ==
  /\ stage[c] = "fetching"
  /\ ~call[c].all
  /\ Pending(c) = {} /\ Got(c) = {}
  /\ Show(c, [k \in Markets |-> IF k \in call[c].asked /\ IsUsable(c, k)
                                THEN [quoted |-> cache[k].quoted, is_stale |-> TRUE]
                                ELSE Nothing])
  /\ Goto(c, "answered")
  /\ UNCHANGED cache

\* get_all_rates: all fetches are back, the good ones are cached.
StoreAll(c) ==
  /\ stage[c] = "fetching"
  /\ call[c].all
  /\ Pending(c) = {}
  /\ Insert(c)
  /\ Goto(c, "listing")
  /\ UNCHANGED call

\* get_all_rates: the list is read from the cache, under a lock taken anew.
ListAll(c) ==
  /\ stage[c] = "listing"
  /\ Show(c, [k \in Markets |-> IF IsUsable(c, k)
                                THEN [quoted |-> cache[k].quoted, is_stale |-> ~IsFresh(c, k)]
                                ELSE Nothing])
  /\ Goto(c, "answered")
  /\ UNCHANGED cache

\* The answer is sent, or the call is dropped at an await.
EndCall(c) ==
  /\ stage[c] # "idle"
  /\ Goto(c, "idle")
  /\ call' = [call EXCEPT ![c] = NoCall]
  /\ UNCHANGED cache

RateStep(c) ==
  \/ AnswerFresh(c)
  \/ Fetch(c)
  \/ \E k \in Markets : ProviderQuotes(c, k) \/ ProviderFails(c, k)
  \/ StoreRate(c)
  \/ FallBack(c)
  \/ StoreAll(c)
  \/ ListAll(c)
  \/ EndCall(c)

-------------------------------------------------------------------------------
RateTypeOK ==
  /\ cache \in [Markets -> Entry \cup {NoEntry}]
  /\ stage \in [Calls -> Stages]
  /\ call \in [Calls -> Call]

\* However slow a provider is and however calls overwrite each other's entries,
\* a rate is shown as fresh only if it was quoted less than the fresh window
\* before the call began, and at all only if less than the stale window before.
AnswersWithinWindows ==
  \A c \in Calls : \A k \in Markets :
    LET s == call[c].shown[k]
    IN  stage[c] = "answered" /\ s.quoted # NotYet =>
          IF s.is_stale THEN call[c].started - s.quoted < Stale
          ELSE call[c].started - s.quoted < Fresh

-------------------------------------------------------------------------------
(***************************************************************************)
(* The inductive invariant behind the safety property.                     *)
(***************************************************************************)

\* No rate was quoted before the call that fetched it began, and the age of an entry
\* counts from there.
RatesAreTimely ==
  /\ \A k \in Markets : Cached(k) => cache[k].cached_at <= cache[k].quoted
  /\ \A c \in Calls :
       /\ call[c].started <= now
       /\ \A k \in Markets : call[c].fetched[k] >= 0 => call[c].started <= call[c].fetched[k]

RateIInv == RateTypeOK /\ RatesAreTimely /\ AnswersWithinWindows
==============================================================================
