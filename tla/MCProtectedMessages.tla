------------------------- MODULE MCProtectedMessages -------------------------
(***************************************************************************)
(* Small instances of ProtectedMessages.                                   *)
(***************************************************************************)
EXTENDS ProtectedMessages, TLC

\* Tasks are interchangeable: no action tells one from another.
MCSymmetry == Permutations(Tasks)
==============================================================================
