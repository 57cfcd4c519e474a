------------------------------- MODULE OnceOnly -------------------------------
(***************************************************************************)
(* What central admission promises to the clients of one workflow instance *)
(* and to the external resources, without fences, journals, permits,       *)
(* retries or crashes: turns are admitted one at a time, each at most once *)
(* and at the next state revision; an answer is the receipt of an admitted *)
(* turn; a guarded effect is dispatched at most once, and never for a turn *)
(* that is already admitted.                                               *)
(***************************************************************************)
EXTENDS Integers

CONSTANTS Turns, Inputs, NoReceipt,
          Effects,   \* pairs <<turn, ordinal>>
          Guarded    \* effects that may reach their adapter only once

VARIABLES count,     \* number of admitted turns, the state revision
          receipt,   \* turn -> [rev, input], or NoReceipt
          calls,     \* effect -> dispatches: 0, 1 or 2 (twice or more)
          answered   \* receipts told to clients

vars == <<count, receipt, calls, answered>>

Init ==
  /\ count = 0
  /\ receipt = [t \in Turns |-> NoReceipt]
  /\ calls = [e \in Effects |-> 0]
  /\ answered = {}

Admit(t, i) ==
  /\ receipt[t] = NoReceipt
  /\ count' = count + 1
  /\ receipt' = [receipt EXCEPT ![t] = [rev |-> count + 1, input |-> i]]
  /\ UNCHANGED <<calls, answered>>

Dispatch(e) ==
  /\ e \in Guarded => calls[e] = 0 /\ receipt[e[1]] = NoReceipt
  /\ calls' = [calls EXCEPT ![e] = IF @ < 2 THEN @ + 1 ELSE 2]
  /\ UNCHANGED <<count, receipt, answered>>

Answer(t) ==
  /\ receipt[t] # NoReceipt
  /\ answered' = answered \cup {[turn |-> t, rev |-> receipt[t].rev,
                                 input |-> receipt[t].input]}
  /\ UNCHANGED <<count, receipt, calls>>

Next ==
  \/ \E t \in Turns, i \in Inputs : Admit(t, i)
  \/ \E e \in Effects : Dispatch(e)
  \/ \E t \in Turns : Answer(t)

Spec == Init /\ [][Next]_vars
=============================================================================
