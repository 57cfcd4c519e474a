------------------------------ MODULE OneOutcome ------------------------------
(***************************************************************************)
(* What the durable controls promise to a workflow instance, without       *)
(* documents, swaps, rounds, retries, sweeps or crashes: an external       *)
(* correlation, a child invocation and the recovery of a poisoned message  *)
(* get at most one outcome each, the outcome never changes, and the only   *)
(* turn the Kernel ever admits for one is the turn of that outcome.        *)
(***************************************************************************)
CONSTANTS Keys, Outcomes, NoOutcome

VARIABLES outcome,   \* key -> its outcome, or NoOutcome
          admitted   \* pairs <<key, outcome>> the Kernel admitted

vars == <<outcome, admitted>>

Init ==
  /\ outcome = [k \in Keys |-> NoOutcome]
  /\ admitted = {}

Choose(k) ==
  /\ outcome[k] = NoOutcome
  /\ outcome'[k] \in Outcomes
  /\ outcome' = [outcome EXCEPT ![k] = outcome'[k]]
  /\ UNCHANGED admitted

Admit(k) ==
  /\ outcome[k] # NoOutcome
  /\ admitted' = admitted \cup {<<k, outcome[k]>>}
  /\ UNCHANGED outcome

Next == \E k \in Keys : Choose(k) \/ Admit(k)

Spec == Init /\ [][Next]_vars
=============================================================================
