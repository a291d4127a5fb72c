--------------------------- MODULE MCPaymentIntents ---------------------------
(***************************************************************************)
(* Small instances of PaymentIntents.                                      *)
(***************************************************************************)
EXTENDS PaymentIntents

\* TIMESTAMPTZ drops the last digit of the clock: two ticks share a timestamp.
MCRounded == [x \in Times |-> x - (x % 2)]

MCLifetimes == {1}
===============================================================================
