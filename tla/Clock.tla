-------------------------------- MODULE Clock --------------------------------
(***************************************************************************)
(* The clock that the middleware (Instant::now) and the rate service       *)
(* (Utc::now) read.                                                        *)
(***************************************************************************)
EXTENDS Integers

CONSTANT MaxTime  \* bound of the clock

ASSUME ClockAssumption == MaxTime \in Nat

VARIABLE now

Times == 0..MaxTime

Advance == now < MaxTime /\ now' = now + 1
==============================================================================
