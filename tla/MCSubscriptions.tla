---------------------------- MODULE MCSubscriptions ----------------------------
(***************************************************************************)
(* Values for the constants of SubscriptionRegistry: one subscribe call on *)
(* one instance.  Only Stop and Observe touch several registrations, and   *)
(* they treat each alike; the safety of any number of them is proved in    *)
(* SubscriptionRegistryProofs.                                             *)
(***************************************************************************)
EXTENDS SubscriptionRegistry

CONSTANTS s1, i1
=============================================================================
