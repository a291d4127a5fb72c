-------------------------- MODULE MCWalletInterface --------------------------
(***************************************************************************)
(* Small instances of WalletInterface.                                     *)
(***************************************************************************)
EXTENDS WalletInterface, TLC

\* Threads are, and quotes are interchangeable: no action tells one from
\* another.
MCSymmetry == Permutations(Threads) \cup Permutations(Quotes)
==============================================================================
