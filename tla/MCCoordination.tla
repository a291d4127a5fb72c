---------------------------- MODULE MCCoordination ----------------------------
(***************************************************************************)
(* Small instances of Coordination.                                        *)
(***************************************************************************)
EXTENDS Coordination, TLC

\* The reports on a message are interchangeable: no action tells one from another.
MCSymmetry == Permutations(Tasks)

CONSTANTS alice, bob

\* A bound of this instance: the message and the intent go from one account to
\* another, called alice and bob since no action tells users apart.  A message the
\* other way shares nothing with the intent; payments to oneself are in the runs of
\* PaymentIntents.
AliceToBob ==
  /\ \A m \in Ids :
       stage[m] = "stored" => messages[m].sender = alice /\ messages[m].recipient = bob
  /\ \A i \in IntentIds :
       intentStage[i] = "stored" => intents[i].sender = alice /\ intents[i].recipient.user = bob
===============================================================================
