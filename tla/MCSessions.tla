------------------------------ MODULE MCSessions ------------------------------
(***************************************************************************)
(* Small instances of Sessions.                                            *)
(***************************************************************************)
EXTENDS Sessions, TLC

\* Requests and the tokens the generator draws are interchangeable.
MCSymmetry == Permutations(Tasks) \cup Permutations(Tokens)
===============================================================================
