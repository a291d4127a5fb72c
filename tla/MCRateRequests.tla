---------------------------- MODULE MCRateRequests ----------------------------
(***************************************************************************)
(* Small instances of RateRequests.                                        *)
(***************************************************************************)
EXTENDS RateRequests, TLC

\* Calls and peers are interchangeable.
MCSymmetry == Permutations(Calls) \cup Permutations(Peers)
===============================================================================
