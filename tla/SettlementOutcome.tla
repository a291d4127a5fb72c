-------------------------- MODULE SettlementOutcome --------------------------
(***************************************************************************)
(* What a settlement register promises, whatever implements it: an item    *)
(* gets at most one outcome, the outcome is never replaced, and nobody is  *)
(* ever told anything but that outcome.  A store that is not durable may   *)
(* forget items, but a forgotten item is neither decided nor told again.   *)
(***************************************************************************)
CONSTANTS
  Items,     \* what is being settled
  Outcomes,  \* what an item may settle to
  Open,      \* the value of an item that is not settled, outside Outcomes
  Gone,      \* the value of an item that was forgotten, outside Outcomes
  Durable    \* TRUE if the store survives a restart

VARIABLES
  outcome,   \* the outcome of every item
  told       \* what has been answered to anybody about every item

outcomeVars == <<outcome, told>>

OutcomeInit ==
  /\ outcome = [i \in Items |-> Open]
  /\ told = [i \in Items |-> {}]

\* An open item settles.
Decide(i) ==
  /\ outcome[i] = Open
  /\ outcome'[i] \in Outcomes
  /\ outcome' = [outcome EXCEPT ![i] = outcome'[i]]
  /\ UNCHANGED told

\* Somebody learns the outcome of a settled item.
Tell(i) ==
  /\ outcome[i] \in Outcomes
  /\ told' = [told EXCEPT ![i] = @ \cup {outcome[i]}]
  /\ UNCHANGED outcome

\* A store in memory restarts empty.
Forget(lost) ==
  /\ ~Durable
  /\ outcome' = [i \in Items |-> IF i \in lost THEN Gone ELSE outcome[i]]
  /\ UNCHANGED told

OutcomeNext ==
  \/ \E i \in Items : Tell(i) \/ Decide(i)
  \/ \E lost \in SUBSET Items : Forget(lost)

OutcomeSpec == OutcomeInit /\ [][OutcomeNext]_outcomeVars
==============================================================================
