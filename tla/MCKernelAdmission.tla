------------------------- MODULE MCKernelAdmission -------------------------
(***************************************************************************)
(* Values for the constants of KernelAdmission: model values, and one      *)
(* intent plan per question.                                               *)
(***************************************************************************)
EXTENDS KernelAdmissionInv, TLC

CONSTANTS r1, r2, t1, t2, i1, i2

External    == [idempotent |-> FALSE, external |-> TRUE]
ExternalIdem == [idempotent |-> TRUE, external |-> TRUE]
Internal    == [idempotent |-> FALSE, external |-> FALSE]
InternalIdem == [idempotent |-> TRUE, external |-> FALSE]

\* t1 carries an external effect, t2 nothing.
PlanExternal == t1 :> <<External>> @@ t2 :> <<>>

\* An external effect and after it an internal one that may be repeated.
PlanOrdered == t1 :> <<External, InternalIdem>>

\* Turns without effects.
PlanEffectFree == t1 :> <<>> @@ t2 :> <<>>

\* An idempotent external effect and the recovery turn that reconciles it.
PlanIdemAndRecovery == t1 :> <<ExternalIdem>> @@ t2 :> <<>>

RuntimeSymmetry == Permutations(Runtimes)
=============================================================================
