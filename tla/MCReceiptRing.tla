----------------------------- MODULE MCReceiptRing -----------------------------
(***************************************************************************)
(* Values for the constants of OriginalReceiptRing.                        *)
(***************************************************************************)
EXTENDS OriginalReceiptRing, TLC

RingSymmetry == Permutations(Runtimes) \cup Permutations(Turns)
                \cup Permutations(Inputs)
=============================================================================
