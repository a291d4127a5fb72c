---------------------------- MODULE MCCashuEscrow ----------------------------
(***************************************************************************)
(* Small instances of CashuEscrow.                                         *)
(***************************************************************************)
EXTENDS CashuEscrow

\* A locktime that is not in the future, and one that passes within the bound.
MCDelays == {0, 1}
==============================================================================
