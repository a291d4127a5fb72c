----------------------------- MODULE RateRequests -----------------------------
(***************************************************************************)
(* Rate requests on their way through the server (services/api/src/lib.rs, *)
(* routes/rates.rs): the rate limiter lets a request through or refuses    *)
(* it, and only then is the rate service called.                           *)
(***************************************************************************)
EXTENDS RequestRateLimiter, RateService

vars == <<now, windows, granted, refused, cache, stage, call>>

Init == now = 0 /\ LimiterInit /\ RateInit

\* GET /rates/hanbova and GET /rates/hanbova/all.
GetRate(p, c, k) == Allow(p) /\ Begin(c, FALSE, {k}) /\ UNCHANGED now
GetAllRates(p, c) == Allow(p) /\ Begin(c, TRUE, Markets) /\ UNCHANGED now

\* 429 RATE_LIMITED.
RefuseRequest(p) == Refuse(p) /\ UNCHANGED rateVars /\ UNCHANGED now

Serve(c) == RateStep(c) /\ UNCHANGED limiterVars /\ UNCHANGED now

Tick == Advance /\ LimiterTick /\ UNCHANGED rateVars

Next ==
  \/ \E p \in Peers, c \in Calls, k \in Markets : GetRate(p, c, k)
  \/ \E p \in Peers, c \in Calls : GetAllRates(p, c)
  \/ \E p \in Peers : RefuseRequest(p)
  \/ \E c \in Calls : Serve(c)
  \/ Tick

Spec == Init /\ [][Next]_vars

-------------------------------------------------------------------------------
\* Every variable of the two components has its type.
TypeOK == now \in Times /\ LimiterTypeOK /\ RateTypeOK
===============================================================================
