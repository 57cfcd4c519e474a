---------------------------- MODULE MCOccurrencePin ----------------------------
(***************************************************************************)
(* Values for the constants of OccurrencePin.                              *)
(***************************************************************************)
EXTENDS OccurrencePin, TLC

CONSTANTS a1, a2, a3, r1, b1, b2, m1, m2

MCBuildOf == (a1 :> b1) @@ (a2 :> b1) @@ (a3 :> b2) @@ (r1 :> b1)

\* The intent of m1 is denied to the caller role in BUILD b2.
MCRoleDenied == {<<b2, m1>>}

\* A pin of a version before inFlight existed, its writer crashed or not.
Legacy(slot, bound) ==
  [NoPin EXCEPT !.phase = "RESERVED", !.build = b1, !.msg = m1, !.rev = 0,
                !.ver = 0, !.slot = slot, !.tracked = FALSE, !.bound = bound]

Fresh ==
  [pin |-> NoPin, asserts |-> Assertions, removes |-> TRUE, restarts |-> TRUE]

\* A fresh target over either kind of store, one without a remove seam, and a
\* legacy pin.
MCStarts ==
  {Fresh, [Fresh EXCEPT !.restarts = FALSE],
   [Fresh EXCEPT !.asserts = {"none"}, !.removes = FALSE]}
  \cup {[pin |-> Legacy(a3, b), removes |-> TRUE, restarts |-> TRUE,
         asserts |-> {"none", "priorWriterTerminated"}] : b \in BOOLEAN}

PinSymmetry == Permutations({a1, a2})

\* One fresh target over the stores of the repository, whose Host asserts
\* nothing, or over a store that never gives a revision twice.
OnlyRestarting == {[Fresh EXCEPT !.asserts = {"none"}]}

OnlyUnique == {[Fresh EXCEPT !.restarts = FALSE]}

\* A Host that asserts falsely of attempts its own BUILD denies: every call is
\* of b1, whose roles exclude the intent of m1.
OneBuild == [c \in Callers |-> b1]

OneDenied == {<<b1, m1>>}
=============================================================================
