-------------------------- MODULE MCInstanceLifecycle --------------------------
(***************************************************************************)
(* Values for the constants of InstanceLifecycle.                          *)
(***************************************************************************)
EXTENDS InstanceLifecycle

CONSTANTS h1, h2, i1, i2, c1, c2, c3, c4, c5, r1

\* Three calls in one lane, one in the lane of the same instance at another
\* host, and one for another instance.
MCHostOf == [c \in Calls |-> IF c \in {c4, c5} THEN h2 ELSE h1]
MCInstanceOf == [c \in Calls |-> IF c = c5 THEN i2 ELSE i1]
MCReadOf == [r \in Readers |-> i1]
=============================================================================
