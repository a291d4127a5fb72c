---------------------------- MODULE MCDevelopment ----------------------------
(***************************************************************************)
(* Small instances of Development.                                         *)
(***************************************************************************)
EXTENDS Development, TLC

\* Payers, accounts and wallet environments are interchangeable.
MCSymmetry == Permutations(Payers) \cup Permutations(Owners) \cup Permutations(Environments)
==============================================================================
