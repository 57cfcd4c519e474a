------------------------ MODULE KernelAdmissionProofs ------------------------
(***************************************************************************)
(* Proofs about KernelAdmission, for every number of runtimes and turns,   *)
(* every intent plan and every bound on crashes and faults.                *)
(***************************************************************************)
EXTENDS KernelAdmissionInv, TLAPS

-----------------------------------------------------------------------------
(* Operators of the occurrence                                              *)

\* The intents of a turn are counted by a natural number.
LEMMA IntentCount ==
  ASSUME NEW t \in Turns
  PROVE  /\ Len(Intents[t]) \in Nat
         /\ Intents[t] \in Seq([idempotent : BOOLEAN, external : BOOLEAN])
BY IntentAssumption

\* An effect is a turn and an ordinal of its plan.
LEMMA EffectIs ==
  ASSUME NEW t \in Turns, NEW n \in Nat
  PROVE  <<t, n>> \in Effects <=> n \in 1..Len(Intents[t])
BY IntentCount DEF Effects

\* The four ways the code leaves a step keep the table of occurrences in its
\* type and touch one runtime only.
LEMMA GotoMoves ==
  ASSUME NEW r \in Runtimes, NEW l \in Labels,
         loc \in [Runtimes -> Occurrence], Goto(r, l)
  PROVE  /\ loc' \in [Runtimes -> Occurrence]
         /\ loc'[r] = [loc[r] EXCEPT !.pc = l]
         /\ \A q \in Runtimes : q # r => loc'[q] = loc[q]
<1>1. [loc[r] EXCEPT !.pc = l] \in Occurrence
  BY DEF Occurrence
<1> QED
  BY <1>1 DEF Goto

LEMMA IdleType == Idle \in Occurrence
BY DEF Idle, Occurrence, Labels, Receipt, NoReceipt, NoRevision

LEMMA ReturnMoves ==
  ASSUME NEW r \in Runtimes, loc \in [Runtimes -> Occurrence], Return(r)
  PROVE  /\ loc' \in [Runtimes -> Occurrence]
         /\ loc'[r] = Idle
         /\ \A q \in Runtimes : q # r => loc'[q] = loc[q]
BY IdleType DEF Return

LEMMA ExecutorFailedMoves ==
  ASSUME NEW r \in Runtimes, NEW zero \in BOOLEAN,
         loc \in [Runtimes -> Occurrence], ExecutorFailed(r, zero)
  PROVE  /\ loc' \in [Runtimes -> Occurrence]
         /\ loc'[r] = [loc[r] EXCEPT
                         !.pc = "complete",
                         !.result = IF zero THEN "failedZero" ELSE "failed"]
         /\ \A q \in Runtimes : q # r => loc'[q] = loc[q]
<1> DEFINE v == IF zero THEN "failedZero" ELSE "failed"
<1>1. v \in Outcomes
  BY DEF Outcomes
<1>2. loc' = [loc EXCEPT ![r] =
                [loc[r] EXCEPT !.pc = "complete", !.result = v]]
  BY DEF ExecutorFailed
<1> HIDE DEF v
<1>3. "complete" \in Labels
  BY DEF Labels, EffectLabels
<1>4. [loc[r] EXCEPT !.pc = "complete", !.result = v] \in Occurrence
  BY <1>1, <1>3 DEF Occurrence
<1>5. /\ loc' \in [Runtimes -> Occurrence]
      /\ loc'[r] = [loc[r] EXCEPT !.pc = "complete", !.result = v]
      /\ \A q \in Runtimes : q # r => loc'[q] = loc[q]
  BY <1>2, <1>4
<1> QED
  BY <1>5 DEF v

LEMMA NextIntentMoves ==
  ASSUME NEW r \in Runtimes, NEW n \in Nat \ {0},
         loc \in [Runtimes -> Occurrence], NextIntent(r, n)
  PROVE  /\ loc' \in [Runtimes -> Occurrence]
         /\ loc'[r] = [loc[r] EXCEPT
                         !.pc = IF n > Len(Intents[loc[r].turn])
                                  THEN "commitRead" ELSE "beginRead",
                         !.ord = n, !.result = "none"]
         /\ \A q \in Runtimes : q # r => loc'[q] = loc[q]
<1> DEFINE l == IF n > Len(Intents[loc[r].turn]) THEN "commitRead"
                                                  ELSE "beginRead"
<1>1. l \in Labels
  BY DEF Labels, EffectLabels, CommitLabels
<1>2. loc' = [loc EXCEPT ![r] =
                [loc[r] EXCEPT !.pc = l, !.ord = n, !.result = "none"]]
  BY DEF NextIntent
<1> HIDE DEF l
<1>3. [loc[r] EXCEPT !.pc = l, !.ord = n, !.result = "none"] \in Occurrence
  BY <1>1 DEF Occurrence
<1>4. /\ loc' \in [Runtimes -> Occurrence]
      /\ loc'[r] = [loc[r] EXCEPT !.pc = l, !.ord = n, !.result = "none"]
      /\ \A q \in Runtimes : q # r => loc'[q] = loc[q]
  BY <1>2, <1>3
<1> QED
  BY <1>4 DEF l

\* The same, field by field: what the step says of the acting runtime.
SameTurn(r) ==
  /\ loc'[r].turn = loc[r].turn /\ loc'[r].input = loc[r].input
  /\ loc'[r].snapRev = loc[r].snapRev
  /\ loc'[r].snapReceipt = loc[r].snapReceipt

OthersStand(r) == \A q \in Runtimes : q # r => loc'[q] = loc[q]

LEMMA GotoFields ==
  ASSUME NEW r \in Runtimes, NEW l \in Labels,
         loc \in [Runtimes -> Occurrence], Goto(r, l)
  PROVE  /\ SameTurn(r) /\ OthersStand(r)
         /\ loc'[r].pc = l
         /\ loc'[r].ord = loc[r].ord /\ loc'[r].result = loc[r].result
<1>1. loc'[r] = [loc[r] EXCEPT !.pc = l] /\ OthersStand(r)
  BY GotoMoves DEF OthersStand
<1>2. loc[r] \in Occurrence
  OBVIOUS
<1> QED
  BY <1>1, <1>2 DEF Occurrence, SameTurn

LEMMA ExecutorFailedFields ==
  ASSUME NEW r \in Runtimes, NEW zero \in BOOLEAN,
         loc \in [Runtimes -> Occurrence], ExecutorFailed(r, zero)
  PROVE  /\ SameTurn(r) /\ OthersStand(r)
         /\ loc'[r].pc = "complete"
         /\ loc'[r].ord = loc[r].ord
         /\ loc'[r].result = IF zero THEN "failedZero" ELSE "failed"
<1> DEFINE v == IF zero THEN "failedZero" ELSE "failed"
<1>1. /\ loc'[r] = [loc[r] EXCEPT !.pc = "complete", !.result = v]
      /\ OthersStand(r)
  BY ExecutorFailedMoves DEF OthersStand
<1>2. loc[r] \in Occurrence
  OBVIOUS
<1> HIDE DEF v
<1>3. /\ SameTurn(r) /\ OthersStand(r)
      /\ loc'[r].pc = "complete"
      /\ loc'[r].ord = loc[r].ord
      /\ loc'[r].result = v
  BY <1>1, <1>2 DEF Occurrence, SameTurn
<1> QED
  BY <1>3 DEF v

LEMMA NextIntentFields ==
  ASSUME NEW r \in Runtimes, NEW n \in Nat \ {0},
         loc \in [Runtimes -> Occurrence], NextIntent(r, n)
  PROVE  /\ SameTurn(r) /\ OthersStand(r)
         /\ loc'[r].pc = IF n > Len(Intents[loc[r].turn]) THEN "commitRead"
                                                         ELSE "beginRead"
         /\ loc'[r].ord = n /\ loc'[r].result = "none"
<1> DEFINE l == IF n > Len(Intents[loc[r].turn]) THEN "commitRead"
                                                  ELSE "beginRead"
<1>1. /\ loc'[r] = [loc[r] EXCEPT !.pc = l, !.ord = n, !.result = "none"]
      /\ OthersStand(r)
  BY NextIntentMoves DEF OthersStand
<1>2. loc[r] \in Occurrence
  OBVIOUS
<1> HIDE DEF l
<1>3. /\ SameTurn(r) /\ OthersStand(r)
      /\ loc'[r].pc = l /\ loc'[r].ord = n /\ loc'[r].result = "none"
  BY <1>1, <1>2 DEF Occurrence, SameTurn
<1> QED
  BY <1>3 DEF l

-----------------------------------------------------------------------------
(* Type correctness                                                         *)

\* Moving a begun occurrence to a label keeps the occurrences well formed if
\* an executing label is reached only at an intent.
LEMMA GotoOK ==
  ASSUME NEW r \in Runtimes, NEW l \in Labels, OccurrencesOK,
         ~At(r, "idle"), l \in EffectLabels => Current(r) \in Effects,
         Goto(r, l)
  PROVE  OccurrencesOK'
<1>1. /\ loc' \in [Runtimes -> Occurrence]
      /\ loc'[r] = [loc[r] EXCEPT !.pc = l]
      /\ \A q \in Runtimes : q # r => loc'[q] = loc[q]
  BY GotoMoves DEF OccurrencesOK
<1>2. loc[r] \in Occurrence
  BY DEF OccurrencesOK
<1>3. /\ loc'[r].pc = l
      /\ loc'[r].turn = loc[r].turn
      /\ loc'[r].input = loc[r].input
      /\ loc'[r].ord = loc[r].ord
  BY <1>1, <1>2 DEF Occurrence
<1> QED
  BY <1>1, <1>3 DEF OccurrencesOK, At, Current

LEMMA ReturnOK ==
  ASSUME NEW r \in Runtimes, OccurrencesOK, Return(r)
  PROVE  OccurrencesOK'
<1>1. /\ loc' \in [Runtimes -> Occurrence]
      /\ loc'[r] = Idle
      /\ \A q \in Runtimes : q # r => loc'[q] = loc[q]
  BY ReturnMoves DEF OccurrencesOK
<1>2. Idle.pc = "idle" /\ "idle" \notin EffectLabels
  BY DEF Idle, EffectLabels
<1> QED
  BY <1>1, <1>2 DEF OccurrencesOK, At, Current

LEMMA ExecutorFailedOK ==
  ASSUME NEW r \in Runtimes, NEW zero \in BOOLEAN, OccurrencesOK,
         loc[r].pc \in EffectLabels, ExecutorFailed(r, zero)
  PROVE  OccurrencesOK'
<1>1. loc' \in [Runtimes -> Occurrence]
  BY ExecutorFailedMoves DEF OccurrencesOK
<1>2. /\ loc'[r].pc = "complete"
      /\ loc'[r].turn = loc[r].turn
      /\ loc'[r].input = loc[r].input
      /\ loc'[r].ord = loc[r].ord
      /\ \A q \in Runtimes : q # r => loc'[q] = loc[q]
  BY ExecutorFailedFields DEF OccurrencesOK, SameTurn, OthersStand
<1>3. ~At(r, "idle")
  BY DEF At, EffectLabels
<1> QED
  BY <1>1, <1>2, <1>3 DEF OccurrencesOK, At, Current

LEMMA NextIntentOK ==
  ASSUME NEW r \in Runtimes, NEW n \in Nat \ {0}, OccurrencesOK,
         ~At(r, "idle"), NextIntent(r, n)
  PROVE  OccurrencesOK'
<1> DEFINE l == IF n > Len(Intents[loc[r].turn]) THEN "commitRead"
                                                  ELSE "beginRead"
<1>1. loc' \in [Runtimes -> Occurrence]
  BY NextIntentMoves DEF OccurrencesOK
<1>2. loc[r].turn \in Turns /\ loc[r].input \in Inputs
  BY DEF OccurrencesOK
<1>3. /\ loc'[r].pc = l
      /\ loc'[r].turn = loc[r].turn
      /\ loc'[r].input = loc[r].input
      /\ loc'[r].ord = n
      /\ \A q \in Runtimes : q # r => loc'[q] = loc[q]
  BY NextIntentFields DEF OccurrencesOK, SameTurn, OthersStand
<1>4. l \in EffectLabels => <<loc[r].turn, n>> \in Effects
  <2>1. SUFFICES ASSUME l \in EffectLabels
                 PROVE  n \in 1..Len(Intents[loc[r].turn])
    BY <1>2, EffectIs
  <2>2. l = "beginRead"
    BY <2>1 DEF EffectLabels
  <2> QED
    BY <2>2, <1>2, IntentCount
<1> HIDE DEF l
<1>5. ASSUME NEW q \in Runtimes
      PROVE  /\ loc'[q].pc # "idle"
                  => loc'[q].turn \in Turns /\ loc'[q].input \in Inputs
             /\ loc'[q].pc \in EffectLabels
                  => <<loc'[q].turn, loc'[q].ord>> \in Effects
  <2>1. CASE q = r
    BY <2>1, <1>2, <1>3, <1>4
  <2>2. CASE q # r
    BY <2>2, <1>3 DEF OccurrencesOK, At, Current
  <2> QED
    BY <2>1, <2>2
<1> QED
  BY <1>1, <1>5 DEF OccurrencesOK, At, Current

LEMMA UpdateOK ==
  ASSUME NEW r \in Runtimes, NEW o \in Occurrence, OccurrencesOK,
         loc' = [loc EXCEPT ![r] = o],
         o.pc # "idle" => o.turn \in Turns /\ o.input \in Inputs,
         o.pc \in EffectLabels => <<o.turn, o.ord>> \in Effects
  PROVE  OccurrencesOK'
<1>1. /\ loc' \in [Runtimes -> Occurrence]
      /\ loc'[r] = o
      /\ \A q \in Runtimes : q # r => loc'[q] = loc[q]
  BY DEF OccurrencesOK
<1> QED
  BY <1>1 DEF OccurrencesOK, At, Current

LEMMA InitType == Init => TypeOK
<1> SUFFICES ASSUME Init PROVE TypeOK
  OBVIOUS
<1>1. DocumentsOK
  BY DEF Init, DocumentsOK, Receipt, NoReceipt, FenceDocument, NoFence,
         JournalRecord, NoRecord
<1>2. Idle \in Occurrence /\ Idle.pc = "idle" /\ "idle" \notin EffectLabels
  BY IdleType DEF Idle, EffectLabels
<1>3. OccurrencesOK
  BY <1>2 DEF Init, OccurrencesOK, At
<1>4. ObservedOK
  BY DEF Init, ObservedOK
<1> QED
  BY <1>1, <1>3, <1>4 DEF TypeOK

\* The start of an occurrence and the claim of the fence.
LEMMA StartType ==
  ASSUME TypeOK, NEW r \in Runtimes,
         \/ \E t \in Turns, i \in Inputs : Submit(r, t, i)
         \/ ReadFenceRevision(r) \/ ReplayReceipt(r) \/ Decline(r)
         \/ Decide(r)
  PROVE  TypeOK'
<1> USE DEF TypeOK
<1>1. loc[r] \in Occurrence
  BY DEF OccurrencesOK
<1>2. CASE \E t \in Turns, i \in Inputs : Submit(r, t, i)
  <2> PICK t \in Turns, i \in Inputs : Submit(r, t, i)
    BY <1>2
  <2> DEFINE o == [Idle EXCEPT !.pc = "readFence", !.turn = t, !.input = i,
                               !.snapRev = stateRev,
                               !.snapReceipt = receipts[t]]
  <2>1. /\ o \in Occurrence
        /\ o.pc = "readFence" /\ o.turn = t /\ o.input = i
    <3>1. "readFence" \in Labels
      BY DEF Labels, ClaimLabels
    <3>2. stateRev \in Nat /\ receipts[t] \in Receipt
      BY DEF DocumentsOK
    <3> HIDE DEF TypeOK
    <3> QED
      BY <3>1, <3>2, IdleType DEF Occurrence
  <2>2. loc' = [loc EXCEPT ![r] = o] /\ UNCHANGED <<docs, world, acks, budget>>
    BY DEF Submit
  <2> HIDE DEF o
  <2>3. OccurrencesOK'
    BY <2>1, <2>2, UpdateOK DEF EffectLabels
  <2> QED
    BY <2>2, <2>3 DEF docs, world, budget, DocumentsOK, ObservedOK
<1>3. CASE ReadFenceRevision(r)
  <2> DEFINE o == [loc[r] EXCEPT
                     !.pc = "ladder",
                     !.snapFence = IF fence.turn = NoTurn THEN NoRevision
                                                          ELSE fence.rev]
  <2>1. /\ o \in Occurrence /\ o.pc = "ladder"
        /\ o.turn = loc[r].turn /\ o.input = loc[r].input
    <3>1. "ladder" \in Labels
      BY DEF Labels, ClaimLabels
    <3>2. fence.rev \in Nat
      BY DEF DocumentsOK, FenceDocument
    <3> HIDE DEF TypeOK
    <3> QED
      BY <1>1, <3>1, <3>2 DEF Occurrence
  <2>2. loc' = [loc EXCEPT ![r] = o] /\ UNCHANGED <<docs, world, acks, budget>>
    BY <1>3 DEF ReadFenceRevision
  <2>3. o.turn \in Turns /\ o.input \in Inputs
    BY <1>3, <2>1 DEF ReadFenceRevision, OccurrencesOK, At
  <2> HIDE DEF o
  <2>4. OccurrencesOK'
    BY <2>1, <2>2, <2>3, UpdateOK DEF EffectLabels
  <2> QED
    BY <2>2, <2>4 DEF docs, world, budget, DocumentsOK, ObservedOK
<1>4. CASE ReplayReceipt(r)
  <2>1. loc[r].turn \in Turns
    BY <1>4 DEF ReplayReceipt, OccurrencesOK, At
  <2>2. LadderReceipt(r) \in Receipt
    BY <1>1, <2>1 DEF LadderReceipt, Occurrence, DocumentsOK
  <2>3. disp' \in [Turns -> Receipt]
    BY <1>4, <2>2 DEF ReplayReceipt, WriteDisposition, DocumentsOK
  <2>4. Ack(loc[r].turn, LadderReceipt(r))
          \in [turn : Turns, rev : Nat, input : Inputs \cup {NoInput}]
    BY <2>1, <2>2 DEF Ack, Receipt
  <2>5. acks' \in SUBSET [turn : Turns, rev : Nat,
                          input : Inputs \cup {NoInput}]
    BY <1>4, <2>4 DEF ReplayReceipt, ObservedOK
  <2>6. OccurrencesOK'
    BY <1>4, ReturnOK DEF ReplayReceipt
  <2> QED
    BY <1>4, <2>3, <2>5, <2>6
    DEF ReplayReceipt, world, budget, DocumentsOK, ObservedOK
<1>5. CASE Decline(r)
  BY <1>5, ReturnOK
  DEF Decline, docs, world, budget, DocumentsOK, ObservedOK
<1>6. CASE Decide(r)
  <2>1. "claimRead" \in Labels /\ "claimRead" \notin EffectLabels
    BY DEF Labels, ClaimLabels, EffectLabels
  <2>2. OccurrencesOK'
    BY <1>6, <2>1, GotoOK DEF Decide, At
  <2> QED
    BY <1>6, <2>2 DEF Decide, docs, world, budget, DocumentsOK, ObservedOK
<1> QED
  BY <1>2, <1>3, <1>4, <1>5, <1>6

LEMMA ClaimType ==
  ASSUME TypeOK, NEW r \in Runtimes,
         \/ ClaimRead(r) \/ AttachState(r) \/ AttachRecheck(r)
         \/ Reconcile(r) \/ ClaimPut(r) \/ ClaimVerify(r)
  PROVE  TypeOK'
<1> USE DEF TypeOK
<1>1. loc[r] \in Occurrence
  BY DEF OccurrencesOK
<1>2. /\ {"attachState", "attachRecheck", "reconcile", "claimPut",
          "claimVerify"} \subseteq Labels
      /\ \A l \in {"attachState", "attachRecheck", "reconcile", "claimPut",
                   "claimVerify"} : l # "idle" /\ l \notin EffectLabels
  BY DEF Labels, ClaimLabels, EffectLabels
<1>3. /\ ~At(r, "idle")
      /\ loc[r].turn \in Turns
      /\ loc[r].input \in Inputs
  BY DEF ClaimRead, AttachState, AttachRecheck, Reconcile, ClaimPut,
         ClaimVerify, At, OccurrencesOK
<1>4. fence \in FenceDocument
  BY DEF DocumentsOK
<1>5. CASE ClaimRead(r)
  <2> SUFFICES OccurrencesOK'
    BY <1>5 DEF ClaimRead, docs, world, budget, DocumentsOK, ObservedOK
  <2>1. CASE Return(r)
    BY <2>1, ReturnOK
  <2>2. CASE loc' = [loc EXCEPT ![r].pc = "attachState",
                                ![r].fenceRev = fence.rev]
    <3> DEFINE o == [loc[r] EXCEPT !.pc = "attachState",
                                   !.fenceRev = fence.rev]
    <3>1. /\ o \in Occurrence /\ o.pc = "attachState"
          /\ o.turn = loc[r].turn /\ o.input = loc[r].input
      BY <1>1, <1>2, <1>4 DEF Occurrence, FenceDocument
    <3>2. loc' = [loc EXCEPT ![r] = o]
      BY <2>2
    <3> HIDE DEF o
    <3> QED
      BY <1>2, <1>3, <3>1, <3>2, UpdateOK
  <2>3. CASE loc' = [loc EXCEPT ![r].pc = "reconcile",
                                ![r].heldBy = fence.turn]
    <3> DEFINE o == [loc[r] EXCEPT !.pc = "reconcile",
                                   !.heldBy = fence.turn]
    <3>1. /\ o \in Occurrence /\ o.pc = "reconcile"
          /\ o.turn = loc[r].turn /\ o.input = loc[r].input
      BY <1>1, <1>2, <1>4 DEF Occurrence, FenceDocument
    <3>2. loc' = [loc EXCEPT ![r] = o]
      BY <2>3
    <3> HIDE DEF o
    <3> QED
      BY <1>2, <1>3, <3>1, <3>2, UpdateOK
  <2>4. CASE Goto(r, "claimPut")
    BY <2>4, <1>2, <1>3, GotoOK
  <2> QED
    BY <1>5, <2>1, <2>2, <2>3, <2>4 DEF ClaimRead
<1>6. CASE AttachState(r)
  <2>1. OccurrencesOK'
    BY <1>2, <1>3, <1>6, GotoOK, ReturnOK DEF AttachState
  <2> QED
    BY <1>6, <2>1
    DEF AttachState, docs, world, budget, DocumentsOK, ObservedOK
<1>7. CASE AttachRecheck(r)
  <2>1. OccurrencesOK'
    BY <1>3, <1>7, NextIntentOK, ReturnOK DEF AttachRecheck
  <2> QED
    BY <1>7, <2>1
    DEF AttachRecheck, docs, world, budget, DocumentsOK, ObservedOK
<1>8. CASE Reconcile(r)
  <2>1. OccurrencesOK'
    BY <1>2, <1>3, <1>8, GotoOK, ReturnOK DEF Reconcile
  <2> QED
    BY <1>8, <2>1
    DEF Reconcile, docs, world, budget, DocumentsOK, ObservedOK
<1>9. CASE ClaimPut(r)
  <2>1. CASE Return(r) /\ UNCHANGED fence
    BY <1>9, <2>1, ReturnOK
    DEF ClaimPut, world, budget, DocumentsOK, ObservedOK
  <2>2. CASE
    /\ fence' = [turn |-> loc[r].turn, input |-> loc[r].input,
                 state |-> loc[r].snapRev, rev |-> loc[r].snapFence + 1]
    /\ loc' = [loc EXCEPT ![r].pc = "claimVerify",
                          ![r].fenceRev = loc[r].snapFence + 1]
    <3> DEFINE o == [loc[r] EXCEPT !.pc = "claimVerify",
                                   !.fenceRev = loc[r].snapFence + 1]
    <3>1. loc[r].snapRev \in Nat /\ loc[r].snapFence + 1 \in Nat
      BY <1>1 DEF Occurrence, NoRevision
    <3>2. /\ o \in Occurrence /\ o.pc = "claimVerify"
          /\ o.turn = loc[r].turn /\ o.input = loc[r].input
      BY <1>1, <1>2, <3>1 DEF Occurrence
    <3>3. loc' = [loc EXCEPT ![r] = o]
      BY <2>2
    <3> HIDE DEF o
    <3>4. OccurrencesOK'
      BY <1>2, <1>3, <3>2, <3>3, UpdateOK
    <3>5. fence' \in FenceDocument
      BY <1>3, <2>2, <3>1 DEF FenceDocument
    <3> QED
      BY <1>9, <3>4, <3>5 DEF ClaimPut, world, budget, DocumentsOK, ObservedOK
  <2> QED
    BY <1>9, <2>1, <2>2 DEF ClaimPut
<1>10. CASE ClaimVerify(r)
  <2>1. OccurrencesOK'
    BY <1>3, <1>10, NextIntentOK, ReturnOK DEF ClaimVerify
  <2> QED
    BY <1>10, <2>1
    DEF ClaimVerify, docs, world, budget, DocumentsOK, ObservedOK
<1> QED
  BY <1>5, <1>6, <1>7, <1>8, <1>9, <1>10

\* The labels an executing occurrence may be sent to.
LEMMA EffectTargets ==
  /\ EffectLabels \subseteq Labels
  /\ {"releaseCheck", "releaseRemove"} \subseteq Labels
  /\ "idle" \notin EffectLabels
  /\ "releaseCheck" \notin EffectLabels /\ "releaseRemove" \notin EffectLabels
  /\ {"beginRead", "beginPut", "mint", "mintFail", "dispatchClaim",
      "gatePermit", "gateJournal", "gateFence", "call", "consume",
      "complete"} = EffectLabels
BY DEF Labels, EffectLabels, ReleaseLabels

LEMMA UseExistingOK ==
  ASSUME NEW r \in Runtimes, NEW e, OccurrencesOK,
         loc[r].pc \in EffectLabels, UseExisting(r, e)
  PROVE  OccurrencesOK'
<1>1. ~At(r, "idle") /\ Current(r) \in Effects
  BY EffectTargets DEF At, OccurrencesOK
<1>2. loc[r].ord + 1 \in Nat \ {0}
  BY DEF OccurrencesOK, Occurrence
<1>3. \/ Goto(r, "releaseCheck") \/ Goto(r, "mint") \/ Goto(r, "call")
      \/ NextIntent(r, loc[r].ord + 1) \/ Return(r)
  BY DEF UseExisting
<1>4. {"releaseCheck", "mint", "call"} \subseteq Labels
  BY EffectTargets
<1> QED
  BY <1>1, <1>2, <1>3, <1>4, GotoOK, NextIntentOK, ReturnOK

\* An intent up to its dispatch.
LEMMA DispatchType ==
  ASSUME TypeOK, NEW r \in Runtimes,
         \/ BeginRead(r) \/ BeginPut(r) \/ Mint(r) \/ MintFail(r)
         \/ HandlerRefused(r) \/ DispatchClaim(r) \/ GatePermit(r)
         \/ GateJournal(r) \/ GateFence(r) \/ GateRefused(r)
  PROVE  TypeOK'
<1> USE DEF TypeOK
<1>1. loc[r].pc \in EffectLabels
  BY EffectTargets
  DEF BeginRead, BeginPut, Mint, MintFail, HandlerRefused, DispatchClaim,
      GatePermit, GateJournal, GateFence, GateRefused, At
<1>2. /\ ~At(r, "idle") /\ Current(r) \in Effects
      /\ loc[r].turn \in Turns /\ loc[r].input \in Inputs
  BY <1>1, EffectTargets DEF At, OccurrencesOK
<1>3. ASSUME NEW l \in EffectLabels \cup {"releaseCheck"}, Goto(r, l)
      PROVE  OccurrencesOK'
  <2>1. l \in Labels
    BY EffectTargets
  <2> QED
    BY <1>2, <1>3, <2>1, GotoOK
<1>4. ASSUME Return(r) PROVE OccurrencesOK'
  BY <1>4, ReturnOK
<1>5. ASSUME NEW zero \in BOOLEAN, ExecutorFailed(r, zero)
      PROVE  OccurrencesOK'
  BY <1>1, <1>5, ExecutorFailedOK
<1>6. ASSUME NEW record \in JournalRecord, NEW e
      PROVE  [journal EXCEPT ![e] = record] \in [Effects -> JournalRecord]
  BY DEF DocumentsOK
<1>7. CASE BeginRead(r)
  <2>1. OccurrencesOK'
    BY <1>1, <1>3, <1>7, UseExistingOK, EffectTargets DEF BeginRead
  <2> QED
    BY <1>7, <2>1 DEF BeginRead, docs, world, budget, DocumentsOK, ObservedOK
<1>8. CASE BeginPut(r)
  <2>1. OccurrencesOK'
    BY <1>1, <1>3, <1>8, UseExistingOK, EffectTargets DEF BeginPut
  <2>2. journal' \in [Effects -> JournalRecord]
    <3>1. [status |-> "started", input |-> loc[r].input] \in JournalRecord
      BY <1>2 DEF JournalRecord
    <3> QED
      BY <1>6, <1>8, <3>1 DEF BeginPut, DocumentsOK
  <2> QED
    BY <1>8, <2>1, <2>2 DEF BeginPut, world, budget, DocumentsOK, ObservedOK
<1>9. CASE Mint(r)
  <2>1. OccurrencesOK'
    BY <1>3, <1>9, EffectTargets DEF Mint
  <2> QED
    BY <1>9, <2>1 DEF Mint, world, budget, DocumentsOK, ObservedOK
<1>10. CASE MintFail(r)
  <2>1. OccurrencesOK'
    BY <1>3, <1>4, <1>10 DEF MintFail
  <2>2. journal' \in [Effects -> JournalRecord]
    <3>1. [journal[Current(r)] EXCEPT !.status = "failedZero"]
            \in JournalRecord
      BY <1>2 DEF DocumentsOK, JournalRecord, Outcomes
    <3> QED
      BY <1>6, <1>10, <3>1 DEF MintFail, DocumentsOK
  <2> QED
    BY <1>10, <2>1, <2>2 DEF MintFail, world, budget, DocumentsOK, ObservedOK
<1>11. CASE HandlerRefused(r) \/ GateRefused(r)
  BY <1>5, <1>11
  DEF HandlerRefused, GateRefused, RefusedBeforeAdapter, docs, world, budget,
      DocumentsOK, ObservedOK
<1>12. CASE DispatchClaim(r)
  <2>1. OccurrencesOK'
    BY <1>3, <1>5, <1>12, EffectTargets DEF DispatchClaim
  <2> QED
    BY <1>2, <1>12, <2>1
    DEF DispatchClaim, world, budget, DocumentsOK, ObservedOK
<1>13. CASE GatePermit(r) \/ GateJournal(r) \/ GateFence(r)
  BY <1>3, <1>13, EffectTargets
  DEF GatePermit, GateJournal, GateFence, docs, world, budget, DocumentsOK,
      ObservedOK
<1> QED
  BY <1>7, <1>8, <1>9, <1>10, <1>11, <1>12, <1>13

\* The dispatch, its settlement and the release of the fence.
LEMMA SettleType ==
  ASSUME TypeOK, NEW r \in Runtimes,
         \/ Call(r) \/ Consume(r) \/ Complete(r) \/ ReleaseCheck(r)
         \/ ReleaseRemove(r)
  PROVE  TypeOK'
<1> USE DEF TypeOK
<1>1. loc[r].pc \in EffectLabels \cup {"releaseCheck", "releaseRemove"}
  BY EffectTargets
  DEF Call, Consume, Complete, ReleaseCheck, ReleaseRemove, At
<1>2. ~At(r, "idle") /\ loc[r] \in Occurrence
  BY <1>1, EffectTargets DEF At, OccurrencesOK
<1>3. ASSUME loc[r].pc \in EffectLabels,
             NEW l \in {"complete", "consume", "releaseCheck"}, Goto(r, l)
      PROVE  OccurrencesOK'
  <2>1. l \in Labels /\ Current(r) \in Effects
    BY <1>3, EffectTargets DEF OccurrencesOK
  <2> QED
    BY <1>2, <1>3, <2>1, GotoOK
<1>4. ASSUME Return(r) PROVE OccurrencesOK'
  BY <1>4, ReturnOK
<1>5. CASE Call(r)
  <2>1. loc[r].pc \in EffectLabels /\ Current(r) \in Effects
    BY <1>5, EffectTargets DEF Call, At, OccurrencesOK
  <2>2. OccurrencesOK'
    <3>1. CASE ExecutorFailed(r, FALSE)
      BY <2>1, <3>1, ExecutorFailedOK
    <3>2. CASE loc' = [loc EXCEPT
                         ![r].pc = IF Intent(Current(r)).external
                                     THEN "consume" ELSE "complete",
                         ![r].result = "completed"]
      <4> DEFINE l == IF Intent(Current(r)).external THEN "consume"
                                                     ELSE "complete"
                 o == [loc[r] EXCEPT !.pc = l, !.result = "completed"]
      <4>1. l \in Labels /\ l # "idle"
        BY EffectTargets
      <4>2. loc' = [loc EXCEPT ![r] = o]
        BY <3>2
      <4> HIDE DEF l
      <4>3. /\ o \in Occurrence
            /\ o.turn = loc[r].turn /\ o.input = loc[r].input
            /\ o.ord = loc[r].ord
        BY <1>2, <4>1 DEF Occurrence, Outcomes
      <4>4. loc[r].turn \in Turns /\ loc[r].input \in Inputs
        BY <1>2 DEF OccurrencesOK
      <4>5. <<o.turn, o.ord>> \in Effects
        BY <2>1, <4>3 DEF Current
      <4> HIDE DEF o
      <4> QED
        BY <4>2, <4>3, <4>4, <4>5, UpdateOK
    <3> QED
      BY <1>5, <3>1, <3>2 DEF Call
  <2>3. calls' \in [Effects -> 0..2]
    BY <1>5, <2>1 DEF Call, ObservedOK
  <2>4. landed' \in SUBSET Effects
    BY <1>5, <2>1 DEF Call, ObservedOK
  <2> QED
    BY <1>5, <2>2, <2>3, <2>4 DEF Call, docs, budget, DocumentsOK, ObservedOK
<1>6. CASE Consume(r)
  <2>1. loc[r].pc \in EffectLabels
    BY <1>6, EffectTargets DEF Consume, At
  <2>2. OccurrencesOK'
    BY <1>3, <1>4, <1>6, <2>1 DEF Consume, Raise
  <2> QED
    BY <1>6, <2>2 DEF Consume, world, budget, DocumentsOK, ObservedOK
<1>7. CASE Complete(r)
  <2>1. loc[r].pc \in EffectLabels /\ Current(r) \in Effects
    BY <1>7, EffectTargets DEF Complete, At, OccurrencesOK
  <2>2. ASSUME AfterOutcome(r, Current(r)) PROVE OccurrencesOK'
    <3>1. loc[r].ord + 1 \in Nat \ {0}
      BY <1>2 DEF Occurrence
    <3> QED
      BY <1>2, <1>3, <1>4, <2>1, <2>2, <3>1, NextIntentOK
      DEF AfterOutcome, Raise
  <2>3. OccurrencesOK'
    BY <1>4, <1>7, <2>2 DEF Complete
  <2>4. journal' \in [Effects -> JournalRecord]
    <3>1. [journal[Current(r)] EXCEPT !.status = loc[r].result]
            \in JournalRecord
      BY <1>2, <2>1 DEF DocumentsOK, JournalRecord, Occurrence
    <3> QED
      BY <1>7, <3>1 DEF Complete, DocumentsOK
  <2> QED
    BY <1>7, <2>3, <2>4 DEF Complete, world, budget, DocumentsOK, ObservedOK
<1>8. CASE ReleaseCheck(r)
  <2>1. OccurrencesOK'
    BY <1>2, <1>4, <1>8, EffectTargets, GotoOK DEF ReleaseCheck
  <2> QED
    BY <1>8, <2>1
    DEF ReleaseCheck, docs, world, budget, DocumentsOK, ObservedOK
<1>9. CASE ReleaseRemove(r)
  <2>1. NoFence \in FenceDocument
    BY DEF NoFence, FenceDocument
  <2> QED
    BY <1>4, <1>9, <2>1
    DEF ReleaseRemove, world, budget, DocumentsOK, ObservedOK
<1> QED
  BY <1>5, <1>6, <1>7, <1>8, <1>9

LEMMA CommitType ==
  ASSUME TypeOK, NEW r \in Runtimes,
         \/ CommitRead(r) \/ CommitFence(r) \/ CommitPut(r)
         \/ CommitReread(r) \/ CommitFail(r) \/ Acknowledge(r)
  PROVE  TypeOK'
<1> USE DEF TypeOK
<1>1. /\ loc[r] \in Occurrence
      /\ ~At(r, "idle")
      /\ loc[r].turn \in Turns
      /\ loc[r].input \in Inputs
  BY DEF CommitRead, CommitFence, CommitPut, CommitReread, CommitFail,
         Acknowledge, At, OccurrencesOK
<1>2. /\ CommitLabels \cup {"releaseRemove"} \subseteq Labels
      /\ \A l \in CommitLabels \cup {"releaseRemove"} : l \notin EffectLabels
  BY DEF Labels, CommitLabels, ReleaseLabels, EffectLabels
<1>3. ASSUME NEW l \in CommitLabels \cup {"releaseRemove"}, Goto(r, l)
      PROVE  OccurrencesOK'
  BY <1>1, <1>2, <1>3, GotoOK
<1>4. ASSUME Return(r) PROVE OccurrencesOK'
  BY <1>4, ReturnOK
<1>5. CASE CommitRead(r) \/ CommitFence(r) \/ CommitReread(r)
  <2>1. OccurrencesOK'
    BY <1>3, <1>5
    DEF CommitRead, CommitFence, CommitReread, CommitLabels
  <2> QED
    BY <1>5, <2>1
    DEF CommitRead, CommitFence, CommitReread, docs, world, budget,
        DocumentsOK, ObservedOK
<1>6. CASE CommitPut(r)
  <2>1. OccurrencesOK'
    BY <1>3, <1>6 DEF CommitPut, CommitLabels
  <2>2. stateRev' \in Nat /\ receipts' \in [Turns -> Receipt]
    <3>1. [rev |-> stateRev + 1, input |-> loc[r].input] \in Receipt
      BY <1>1 DEF Receipt, DocumentsOK
    <3> QED
      BY <1>6, <3>1 DEF CommitPut, DocumentsOK
  <2> QED
    BY <1>6, <2>1, <2>2
    DEF CommitPut, world, budget, DocumentsOK, ObservedOK
<1>7. CASE CommitFail(r)
  <2>1. OccurrencesOK'
    BY <1>3, <1>4, <1>7 DEF CommitFail
  <2> QED
    BY <1>7, <2>1
    DEF CommitFail, docs, world, budget, DocumentsOK, ObservedOK
<1>8. CASE Acknowledge(r)
  <2> DEFINE receipt == [rev |-> loc[r].snapRev + 1, input |-> loc[r].input]
  <2>1. receipt \in Receipt
    BY <1>1 DEF Receipt, Occurrence
  <2>2. Ack(loc[r].turn, receipt)
          \in [turn : Turns, rev : Nat, input : Inputs \cup {NoInput}]
    BY <1>1, <2>1 DEF Ack, Receipt
  <2>3. /\ WriteDisposition(loc[r].turn, receipt)
        /\ acks' = acks \cup {Ack(loc[r].turn, receipt)}
    BY <1>8 DEF Acknowledge
  <2> HIDE DEF receipt
  <2>4. disp' \in [Turns -> Receipt]
    BY <2>1, <2>3 DEF WriteDisposition, DocumentsOK
  <2>5. acks' \in SUBSET [turn : Turns, rev : Nat,
                          input : Inputs \cup {NoInput}]
    BY <2>2, <2>3 DEF ObservedOK
  <2>6. OccurrencesOK'
    BY <1>4, <1>8 DEF Acknowledge
  <2> QED
    BY <1>8, <2>4, <2>5, <2>6
    DEF Acknowledge, world, budget, DocumentsOK, ObservedOK
<1> QED
  BY <1>5, <1>6, <1>7, <1>8

\* Where a store fault sends an occurrence.
LEMMA FaultTargets ==
  ASSUME NEW r \in Runtimes, loc[r].pc \in Labels,
         loc[r].pc \notin {"idle", "call", "disposition"}, FaultExit(r)
  PROVE  \/ Return(r)
         \/ Goto(r, "releaseCheck")
         \/ At(r, "mint") /\ Goto(r, "mintFail")
         \/ loc[r].pc \in EffectLabels /\ ExecutorFailed(r, FALSE)
         \/ Goto(r, "commitFail")
BY DEF FaultExit, Labels, ClaimLabels, EffectLabels, ReleaseLabels,
       CommitLabels, At

LEMMA FailureType ==
  ASSUME TypeOK, NEW r \in Runtimes, Crash(r) \/ StoreFault(r)
  PROVE  TypeOK'
<1> USE DEF TypeOK
<1>1. /\ {"releaseCheck", "mintFail", "commitFail"} \subseteq Labels
      /\ "releaseCheck" \notin EffectLabels /\ "commitFail" \notin EffectLabels
      /\ "mint" \in EffectLabels
  BY DEF Labels, CommitLabels, ReleaseLabels, EffectLabels
<1>2. CASE Crash(r)
  BY <1>2, ReturnOK
  DEF Crash, docs, world, DocumentsOK, ObservedOK
<1>3. CASE StoreFault(r)
  <2>1. /\ loc[r].pc \in Labels
        /\ loc[r].pc \notin {"idle", "call", "disposition"}
        /\ FaultExit(r)
    BY <1>3 DEF StoreFault, OccurrencesOK, Occurrence
  <2>2. ~At(r, "idle")
    BY <2>1 DEF At
  <2>3. At(r, "mint") => Current(r) \in Effects
    BY <1>1 DEF At, OccurrencesOK
  <2>4. OccurrencesOK'
    BY <1>1, <2>1, <2>2, <2>3, FaultTargets, ReturnOK, GotoOK,
       ExecutorFailedOK
  <2> QED
    BY <1>3, <2>4 DEF StoreFault, docs, world, DocumentsOK, ObservedOK
<1> QED
  BY <1>2, <1>3

LEMMA StutterType == TypeOK /\ UNCHANGED vars => TypeOK'
BY DEF vars, docs, world, budget, TypeOK, DocumentsOK, OccurrencesOK,
       ObservedOK, At, Current

LEMMA NextType == TypeOK /\ [Next]_vars => TypeOK'
BY StartType, ClaimType, DispatchType, SettleType, CommitType, FailureType,
   StutterType
DEF Next, Step

\* Every document, occurrence and observation keeps its type in every
\* behaviour (the whole of kernel-mechanism-v1's occurrence path).
THEOREM TypeCorrect == Spec => []TypeOK
BY InitType, NextType, PTL DEF Spec

-----------------------------------------------------------------------------
(* Once-only admission: no turn moves the state twice, and every answer is  *)
(* the original receipt.                                                    *)
(*                                                                          *)
(* A turn is admitted only by CommitPut, at the revision of the occurrence's*)
(* snapshot.  The snapshot then still shows the truth about the turn, and   *)
(* an occurrence that got past the ladder saw no receipt in it: the turn    *)
(* had none, and gets the next revision.                                    *)

\* The step leaves the snapshot of the occurrence as it was; the labels that
\* carry a claim of SnapshotOf are entered only where the code enters them.
KeepsSnapshot(r) ==
  /\ loc'[r].turn = loc[r].turn
  /\ loc'[r].input = loc[r].input
  /\ loc'[r].snapRev = loc[r].snapRev
  /\ loc'[r].snapReceipt = loc[r].snapReceipt
  /\ loc[r].pc # "idle"
  /\ PastLadder(r)' => PastLadder(r) \/ Decide(r)
  /\ loc'[r].pc \in {"commitReread", "disposition"}
       => CommitPut(r) \/ CommitReread(r)

\* Moving along labels keeps the snapshot.
LEMMA GotoKeeps ==
  ASSUME NEW r \in Runtimes, NEW l \in Labels, OccurrencesOK,
         PastLadder(r), Goto(r, l),
         l \notin {"commitReread", "disposition"}
  PROVE  KeepsSnapshot(r) /\ OthersStand(r)
<1>1. SameTurn(r) /\ OthersStand(r) /\ loc'[r].pc = l
  BY GotoFields DEF OccurrencesOK
<1> QED
  BY <1>1 DEF KeepsSnapshot, SameTurn, PastLadder

LEMMA ReturnLeaves ==
  ASSUME NEW r \in Runtimes, OccurrencesOK, Return(r)
  PROVE  loc'[r] = Idle /\ OthersStand(r)
BY ReturnMoves DEF OccurrencesOK, OthersStand

LEMMA ExecutorFailedKeeps ==
  ASSUME NEW r \in Runtimes, NEW zero \in BOOLEAN, OccurrencesOK,
         PastLadder(r), ExecutorFailed(r, zero)
  PROVE  KeepsSnapshot(r) /\ OthersStand(r)
<1>1. SameTurn(r) /\ OthersStand(r) /\ loc'[r].pc = "complete"
  BY ExecutorFailedFields DEF OccurrencesOK
<1> QED
  BY <1>1 DEF KeepsSnapshot, SameTurn, PastLadder

LEMMA NextIntentKeeps ==
  ASSUME NEW r \in Runtimes, NEW n \in Nat \ {0}, OccurrencesOK,
         PastLadder(r), NextIntent(r, n)
  PROVE  KeepsSnapshot(r) /\ OthersStand(r)
<1>1. /\ SameTurn(r) /\ OthersStand(r)
      /\ loc'[r].pc \in {"commitRead", "beginRead"}
  BY NextIntentFields DEF OccurrencesOK
<1> QED
  BY <1>1 DEF KeepsSnapshot, SameTurn, PastLadder

\* After a begun occurrence's step it has ended or kept its snapshot, and no
\* other occurrence has moved.
LEMMA StepKeeps ==
  ASSUME TypeOK, NEW r \in Runtimes, Step(r) \/ Crash(r) \/ StoreFault(r)
  PROVE  /\ OthersStand(r)
         /\ loc'[r] = Idle \/ KeepsSnapshot(r)
<1> USE DEF TypeOK
<1>1. loc[r] \in Occurrence
  BY DEF OccurrencesOK
<1>2. \A l \in Labels \ {"idle", "readFence", "ladder"} :
        loc[r].pc = l => PastLadder(r)
  BY DEF PastLadder
<1>3. ASSUME PastLadder(r),
             NEW l \in Labels \ {"commitReread", "disposition"}, Goto(r, l)
      PROVE  KeepsSnapshot(r) /\ OthersStand(r)
  BY <1>3, GotoKeeps
<1>4. ASSUME Return(r) PROVE loc'[r] = Idle /\ OthersStand(r)
  BY <1>4, ReturnLeaves
<1>5. ASSUME PastLadder(r), NEW zero \in BOOLEAN, ExecutorFailed(r, zero)
      PROVE  KeepsSnapshot(r) /\ OthersStand(r)
  BY <1>5, ExecutorFailedKeeps
<1>6. ASSUME PastLadder(r), NextIntent(r, loc[r].ord + 1)
      PROVE  KeepsSnapshot(r) /\ OthersStand(r)
  <2>1. loc[r].ord + 1 \in Nat \ {0}
    BY <1>1 DEF Occurrence
  <2> QED
    BY <1>6, <2>1, NextIntentKeeps
<1>7. ASSUME PastLadder(r), NextIntent(r, 1)
      PROVE  KeepsSnapshot(r) /\ OthersStand(r)
  BY <1>7, NextIntentKeeps
<1>8. CASE ReadFenceRevision(r) \/ Decide(r)
  <2>1. loc' = [loc EXCEPT ![r] = loc'[r]] /\ OthersStand(r)
    BY <1>1, <1>8
    DEF ReadFenceRevision, Decide, Goto, OccurrencesOK, OthersStand
  <2>2. /\ loc'[r].turn = loc[r].turn /\ loc'[r].input = loc[r].input
        /\ loc'[r].snapRev = loc[r].snapRev
        /\ loc'[r].snapReceipt = loc[r].snapReceipt
        /\ loc'[r].pc \in {"ladder", "claimRead"}
        /\ loc[r].pc # "idle"
        /\ loc'[r].pc = "claimRead" => Decide(r)
    BY <1>1, <1>8
    DEF ReadFenceRevision, Decide, Goto, At, OccurrencesOK, Occurrence
  <2> QED
    BY <2>1, <2>2 DEF KeepsSnapshot, PastLadder
<1>9. CASE ReplayReceipt(r) \/ Decline(r) \/ Crash(r)
  BY <1>4, <1>9 DEF ReplayReceipt, Decline, Crash
<1>10. CASE ClaimRead(r)
  <2>1. PastLadder(r)
    BY <1>10 DEF ClaimRead, At, PastLadder
  <2>2. ASSUME \/ loc' = [loc EXCEPT ![r].pc = "attachState",
                                     ![r].fenceRev = fence.rev]
               \/ loc' = [loc EXCEPT ![r].pc = "reconcile",
                                     ![r].heldBy = fence.turn]
        PROVE  KeepsSnapshot(r) /\ OthersStand(r)
    BY <1>1, <2>1, <2>2
    DEF OccurrencesOK, Occurrence, KeepsSnapshot, OthersStand, PastLadder
  <2>3. "claimPut" \in Labels
    BY DEF Labels, ClaimLabels
  <2> QED
    BY <1>3, <1>4, <1>10, <2>1, <2>2, <2>3 DEF ClaimRead
<1>11. CASE \/ AttachState(r) \/ AttachRecheck(r) \/ Reconcile(r)
            \/ ClaimVerify(r)
  <2>1. PastLadder(r)
    BY <1>11 DEF AttachState, AttachRecheck, Reconcile, ClaimVerify, At,
                 PastLadder
  <2>2. "attachRecheck" \in Labels /\ "claimPut" \in Labels
    BY DEF Labels, ClaimLabels
  <2> QED
    BY <1>3, <1>4, <1>7, <1>11, <2>1, <2>2
    DEF AttachState, AttachRecheck, Reconcile, ClaimVerify
<1>12. CASE ClaimPut(r)
  <2>1. PastLadder(r)
    BY <1>12 DEF ClaimPut, At, PastLadder
  <2>2. ASSUME loc' = [loc EXCEPT ![r].pc = "claimVerify",
                                  ![r].fenceRev = loc[r].snapFence + 1]
        PROVE  KeepsSnapshot(r) /\ OthersStand(r)
    BY <1>1, <2>1, <2>2
    DEF OccurrencesOK, Occurrence, KeepsSnapshot, OthersStand, PastLadder
  <2> QED
    BY <1>4, <1>12, <2>2 DEF ClaimPut
<1>13. CASE \/ BeginRead(r) \/ BeginPut(r) \/ Mint(r) \/ MintFail(r)
            \/ HandlerRefused(r) \/ DispatchClaim(r) \/ GatePermit(r)
            \/ GateJournal(r) \/ GateFence(r) \/ GateRefused(r)
  <2>1. PastLadder(r)
    BY <1>13
    DEF BeginRead, BeginPut, Mint, MintFail, HandlerRefused, DispatchClaim,
        GatePermit, GateJournal, GateFence, GateRefused, At, PastLadder
  <2>2. {"beginPut", "mint", "mintFail", "dispatchClaim", "gatePermit",
         "gateJournal", "gateFence", "call", "releaseCheck"}
          \subseteq Labels \ {"commitReread", "disposition"}
    BY DEF Labels, EffectLabels, ReleaseLabels
  <2>3. ASSUME NEW e, UseExisting(r, e)
        PROVE  (loc'[r] = Idle \/ KeepsSnapshot(r)) /\ OthersStand(r)
    BY <1>3, <1>4, <1>6, <2>1, <2>2, <2>3 DEF UseExisting
  <2>4. CASE BeginRead(r) \/ BeginPut(r)
    BY <1>3, <2>1, <2>2, <2>3, <2>4 DEF BeginRead, BeginPut
  <2>5. CASE \/ Mint(r) \/ MintFail(r) \/ GatePermit(r) \/ GateJournal(r)
             \/ GateFence(r)
    BY <1>3, <1>4, <2>1, <2>2, <2>5
    DEF Mint, MintFail, GatePermit, GateJournal, GateFence
  <2>6. CASE HandlerRefused(r) \/ GateRefused(r) \/ DispatchClaim(r)
    BY <1>3, <1>5, <2>1, <2>2, <2>6
    DEF HandlerRefused, GateRefused, RefusedBeforeAdapter, DispatchClaim
  <2> QED
    BY <1>13, <2>4, <2>5, <2>6
<1>14. CASE Call(r)
  <2>1. PastLadder(r)
    BY <1>14 DEF Call, At, PastLadder
  <2>2. ASSUME loc' = [loc EXCEPT ![r].pc = IF Intent(Current(r)).external
                                              THEN "consume"
                                              ELSE "complete",
                                  ![r].result = "completed"]
        PROVE  KeepsSnapshot(r) /\ OthersStand(r)
    BY <1>1, <2>1, <2>2
    DEF OccurrencesOK, Occurrence, KeepsSnapshot, OthersStand, PastLadder
  <2> QED
    BY <1>5, <1>14, <2>1, <2>2 DEF Call
<1>15. CASE \/ Consume(r) \/ Complete(r) \/ ReleaseCheck(r)
            \/ ReleaseRemove(r)
  <2>1. PastLadder(r)
    BY <1>15
    DEF Consume, Complete, ReleaseCheck, ReleaseRemove, At, PastLadder
  <2>2. {"complete", "consume", "releaseCheck", "releaseRemove"}
          \subseteq Labels \ {"commitReread", "disposition"}
    BY DEF Labels, EffectLabels, ReleaseLabels
  <2>3. ASSUME NEW e, AfterOutcome(r, e)
        PROVE  (loc'[r] = Idle \/ KeepsSnapshot(r)) /\ OthersStand(r)
    BY <1>3, <1>4, <1>6, <2>1, <2>2, <2>3 DEF AfterOutcome, Raise
  <2>4. CASE Consume(r)
    BY <1>3, <1>4, <2>1, <2>2, <2>4 DEF Consume, Raise
  <2>5. CASE Complete(r)
    BY <1>4, <2>3, <2>5 DEF Complete
  <2>6. CASE ReleaseCheck(r) \/ ReleaseRemove(r)
    BY <1>3, <1>4, <2>1, <2>2, <2>6 DEF ReleaseCheck, ReleaseRemove
  <2> QED
    BY <1>15, <2>4, <2>5, <2>6
<1>16. CASE CommitRead(r) \/ CommitFence(r) \/ CommitFail(r) \/ Acknowledge(r)
  <2>1. PastLadder(r)
    BY <1>16
    DEF CommitRead, CommitFence, CommitFail, Acknowledge, At, PastLadder
  <2>2. {"commitFence", "commitPut", "commitFail", "releaseRemove"}
          \subseteq Labels \ {"commitReread", "disposition"}
    BY DEF Labels, CommitLabels, ReleaseLabels
  <2> QED
    BY <1>3, <1>4, <1>16, <2>1, <2>2
    DEF CommitRead, CommitFence, CommitFail, Acknowledge
<1>17. CASE CommitPut(r) \/ CommitReread(r)
  <2>1. PastLadder(r)
    BY <1>17 DEF CommitPut, CommitReread, At, PastLadder
  <2>2. PICK l \in {"commitReread", "disposition", "commitFail"} : Goto(r, l)
    BY <1>17 DEF CommitPut, CommitReread
  <2>3. l \in Labels
    BY DEF Labels, CommitLabels
  <2>4. /\ loc'[r] = [loc[r] EXCEPT !.pc = l]
        /\ \A q \in Runtimes : q # r => loc'[q] = loc[q]
    BY <2>2, <2>3, GotoMoves DEF OccurrencesOK
  <2> QED
    BY <1>1, <1>17, <2>1, <2>4
    DEF Occurrence, KeepsSnapshot, OthersStand, PastLadder
<1>18. CASE StoreFault(r)
  <2>1. /\ loc[r].pc \in Labels
        /\ loc[r].pc \notin {"idle", "call", "disposition"}
        /\ FaultExit(r)
    BY <1>1, <1>18 DEF StoreFault, Occurrence
  <2>2. {"releaseCheck", "mintFail", "commitFail"}
          \subseteq Labels \ {"commitReread", "disposition"}
    BY DEF Labels, EffectLabels, CommitLabels, ReleaseLabels
  <2>3. CASE loc[r].pc \in ClaimLabels
    BY <1>4, <2>1, <2>3 DEF FaultExit, ClaimLabels
  <2>4. CASE loc[r].pc \notin ClaimLabels
    <3>1. PastLadder(r)
      BY <2>1, <2>4 DEF PastLadder, ClaimLabels
    <3> QED
      BY <1>3, <1>4, <1>5, <2>1, <2>2, <3>1, FaultTargets
  <2> QED
    BY <2>3, <2>4
<1> QED
  BY <1>8, <1>9, <1>10, <1>11, <1>12, <1>13, <1>14, <1>15, <1>16, <1>17,
     <1>18
  DEF Step

-----------------------------------------------------------------------------
(* The invariant                                                            *)

LEMMA InitAdmission == Init => AdmissionInv
<1> SUFFICES ASSUME Init PROVE AdmissionInv
  OBVIOUS
<1>1. NoReceipt.rev = 0
  BY DEF NoReceipt
<1>2. ReceiptsInv
  BY <1>1 DEF Init, ReceiptsInv, OnceOnlyAdmission
<1>3. SnapshotInv
  BY DEF Init, SnapshotInv, At, Idle
<1>4. AnswerInv
  BY DEF Init, AnswerInv
<1> QED
  BY <1>2, <1>3, <1>4 DEF AdmissionInv

\* A receipt that is there has a positive revision.
LEMMA ReceiptPositive ==
  ASSUME TypeOK, ReceiptsInv, NEW t \in Turns
  PROVE  /\ receipts[t] \in Receipt
         /\ receipts[t] # NoReceipt <=> receipts[t].rev \in Nat \ {0}
BY DEF TypeOK, DocumentsOK, Receipt, ReceiptsInv, NoReceipt

\* What the ladder answers is the receipt of the turn.
LEMMA LadderTruth ==
  ASSUME TypeOK, AdmissionInv, NEW r \in Runtimes, At(r, "ladder"),
         LadderReceipt(r) # NoReceipt
  PROVE  loc[r].turn \in Turns /\ LadderReceipt(r) = receipts[loc[r].turn]
BY DEF TypeOK, OccurrencesOK, AdmissionInv, SnapshotInv, SnapshotOf,
       AnswerInv, LadderReceipt, At

\* While the instance stands, the snapshots keep their claims.
LEMMA SnapshotStands ==
  ASSUME TypeOK, AdmissionInv, NEW r \in Runtimes,
         Step(r) \/ Crash(r) \/ StoreFault(r),
         ~CommitPut(r), UNCHANGED <<stateRev, receipts>>
  PROVE  SnapshotInv'
<1>1. /\ OthersStand(r)
      /\ loc'[r] = Idle \/ KeepsSnapshot(r)
  BY StepKeeps
<1>2. SUFFICES ASSUME NEW q \in Runtimes, ~At(q, "idle")'
               PROVE  SnapshotOf(q)'
  BY DEF SnapshotInv
<1>3. CASE q # r
  <2>1. loc'[q] = loc[q] /\ ~At(q, "idle") /\ SnapshotOf(q)
    BY <1>1, <1>2, <1>3 DEF OthersStand, At, AdmissionInv, SnapshotInv
  <2> QED
    BY <2>1 DEF SnapshotOf, PastLadder
<1>4. CASE q = r
  <2>1. KeepsSnapshot(r)
    BY <1>1, <1>2, <1>4 DEF At, Idle
  <2>2. ~At(r, "idle") /\ SnapshotOf(r)
    BY <2>1 DEF KeepsSnapshot, At, AdmissionInv, SnapshotInv
  <2>3. PastLadder(r)' => loc'[r].snapReceipt = NoReceipt
    <3>1. ASSUME Decide(r) PROVE loc[r].snapReceipt = NoReceipt
      BY <3>1 DEF Decide, LadderReceipt
    <3> QED
      BY <2>1, <2>2, <3>1 DEF KeepsSnapshot, SnapshotOf
  <2>4. loc'[r].pc \in {"commitReread", "disposition"}
          => receipts[loc[r].turn] = [rev |-> loc[r].snapRev + 1,
                                      input |-> loc[r].input]
    BY <2>1, <2>2 DEF KeepsSnapshot, SnapshotOf, CommitReread, At
  <2> QED
    BY <1>4, <2>1, <2>2, <2>3, <2>4 DEF KeepsSnapshot, SnapshotOf
<1> QED
  BY <1>3, <1>4

\* The one step that admits.
LEMMA CommitPutAdmits ==
  ASSUME TypeOK, AdmissionInv, NEW r \in Runtimes, CommitPut(r)
  PROVE  AdmissionInv'
<1>1. /\ OthersStand(r)
      /\ loc'[r] = Idle \/ KeepsSnapshot(r)
  BY StepKeeps DEF Step
<1>2. /\ ~At(r, "idle") /\ PastLadder(r)
      /\ loc[r].turn \in Turns /\ loc[r].input \in Inputs
      /\ SnapshotOf(r)
  BY DEF CommitPut, At, PastLadder, TypeOK, OccurrencesOK, AdmissionInv,
         SnapshotInv
<1>3. UNCHANGED <<disp, acks>>
  BY DEF CommitPut
<1>4. CASE stateRev # loc[r].snapRev
  <2>1. UNCHANGED <<stateRev, receipts>> /\ Goto(r, "commitFail")
    BY <1>4 DEF CommitPut
  <2>2. loc'[r].pc = "commitFail"
    <3>1. "commitFail" \in Labels
      BY DEF Labels, CommitLabels
    <3> QED
      BY <2>1, <3>1, GotoFields DEF TypeOK, OccurrencesOK
  <2>3. KeepsSnapshot(r)
    BY <1>1, <2>2 DEF Idle
  <2>4. SnapshotInv'
    <3>1. SUFFICES ASSUME NEW q \in Runtimes, ~At(q, "idle")'
                   PROVE  SnapshotOf(q)'
      BY DEF SnapshotInv
    <3>2. CASE q # r
      <4>1. loc'[q] = loc[q] /\ ~At(q, "idle") /\ SnapshotOf(q)
        BY <1>1, <3>1, <3>2 DEF OthersStand, At, AdmissionInv, SnapshotInv
      <4> QED
        BY <2>1, <4>1 DEF SnapshotOf, PastLadder
    <3>3. CASE q = r
      BY <1>2, <2>1, <2>2, <2>3, <3>3
      DEF KeepsSnapshot, SnapshotOf, PastLadder
    <3> QED
      BY <3>2, <3>3
  <2> QED
    BY <1>3, <2>1, <2>4
    DEF AdmissionInv, ReceiptsInv, OnceOnlyAdmission, AnswerInv
<1>5. CASE stateRev = loc[r].snapRev
  <2> DEFINE t == loc[r].turn
  <2>1. /\ stateRev \in Nat
        /\ stateRev' = stateRev + 1
        /\ receipts' = [receipts EXCEPT ![t] = [rev |-> stateRev + 1,
                                                input |-> loc[r].input]]
        /\ receipts \in [Turns -> Receipt]
    BY <1>5 DEF CommitPut, TypeOK, DocumentsOK
  <2>2. receipts[t] = NoReceipt
    BY <1>2, <1>5 DEF SnapshotOf
  <2>3. /\ receipts'[t] = [rev |-> stateRev + 1, input |-> loc[r].input]
        /\ \A u \in Turns : u # t => receipts'[u] = receipts[u]
    BY <1>2, <2>1
  <2> HIDE DEF t
  <2>4. t \in Turns /\ receipts[t].rev = 0 /\ receipts'[t].rev = stateRev + 1
    BY <1>2, <2>2, <2>3 DEF NoReceipt, t
  <2>5. \A u \in Turns : receipts[u].rev \in Nat /\ receipts[u].rev <= stateRev
    BY <2>1 DEF Receipt, AdmissionInv, ReceiptsInv, OnceOnlyAdmission
  <2>6. ReceiptsInv'
    <3>1. ASSUME NEW n \in 1..stateRev'
          PROVE  \E u \in Turns : receipts'[u].rev = n
      <4>1. CASE n = stateRev + 1
        BY <2>4, <4>1
      <4>2. CASE n # stateRev + 1
        <5>1. n \in 1..stateRev
          BY <2>1, <3>1, <4>2
        <5>2. PICK u \in Turns : receipts[u].rev = n
          BY <5>1 DEF AdmissionInv, ReceiptsInv, OnceOnlyAdmission
        <5>3. u # t
          BY <2>4, <5>1, <5>2
        <5> QED
          BY <2>3, <5>2, <5>3
      <4> QED
        BY <4>1, <4>2
    <3>2. \A u \in Turns : receipts'[u].rev <= stateRev'
      BY <2>1, <2>3, <2>4, <2>5
    <3>3. ASSUME NEW u \in Turns, NEW v \in Turns,
                 receipts'[u].rev = receipts'[v].rev, receipts'[u].rev # 0
          PROVE  u = v
      <4>1. CASE u # t /\ v # t
        BY <2>3, <3>3, <4>1 DEF AdmissionInv, ReceiptsInv, OnceOnlyAdmission
      <4>2. CASE u = t \/ v = t
        BY <2>1, <2>3, <2>4, <2>5, <3>3, <4>2
      <4> QED
        BY <4>1, <4>2
    <3>4. \A u \in Turns : receipts'[u].rev = 0 => receipts'[u] = NoReceipt
      BY <2>1, <2>3, <2>4 DEF AdmissionInv, ReceiptsInv
    <3> QED
      BY <3>1, <3>2, <3>3, <3>4 DEF ReceiptsInv, OnceOnlyAdmission
  <2>7. \A u \in Turns : receipts[u] # NoReceipt => receipts'[u] = receipts[u]
    BY <2>2, <2>3 DEF t
  <2>8. SnapshotInv'
    <3>1. SUFFICES ASSUME NEW q \in Runtimes, ~At(q, "idle")'
                   PROVE  SnapshotOf(q)'
      BY DEF SnapshotInv
    <3>2. CASE q # r
      <4>1. loc'[q] = loc[q] /\ ~At(q, "idle") /\ SnapshotOf(q)
        BY <1>1, <3>1, <3>2 DEF OthersStand, At, AdmissionInv, SnapshotInv
      <4>2. loc[q].turn \in Turns /\ loc[q].snapRev \in Nat
        BY <4>1 DEF TypeOK, OccurrencesOK, Occurrence
      <4>3. loc[q].snapRev # stateRev' /\ loc[q].snapRev <= stateRev'
        BY <2>1, <4>1, <4>2 DEF SnapshotOf
      <4>4. loc[q].pc \in {"commitReread", "disposition"}
              => receipts[loc[q].turn] # NoReceipt
        BY <4>1, <4>2 DEF SnapshotOf, NoReceipt
      <4> QED
        BY <2>7, <4>1, <4>2, <4>3, <4>4 DEF SnapshotOf, PastLadder
    <3>3. CASE q = r
      <4>1. KeepsSnapshot(r)
        BY <1>1, <3>1, <3>3 DEF At, Idle
      <4>2. loc[r].snapReceipt = NoReceipt /\ loc[r].snapRev \in Nat
        BY <1>2, <1>5, <2>1 DEF SnapshotOf
      <4> QED
        BY <1>5, <2>1, <2>3, <3>3, <4>1, <4>2
        DEF KeepsSnapshot, SnapshotOf, t
    <3> QED
      BY <3>2, <3>3
  <2>9. AnswerInv'
    BY <1>3, <2>7 DEF AdmissionInv, AnswerInv, TypeOK, ObservedOK, Ack
  <2> QED
    BY <2>6, <2>8, <2>9 DEF AdmissionInv
<1> QED
  BY <1>4, <1>5

\* An answer, and the disposition it leaves, is the receipt of the turn.
LEMMA AnswerKept ==
  ASSUME TypeOK, AdmissionInv, NEW r \in Runtimes,
         Step(r) \/ Crash(r) \/ StoreFault(r), ~CommitPut(r),
         UNCHANGED <<stateRev, receipts>>
  PROVE  AnswerInv'
<1>1. ASSUME NEW t \in Turns, NEW receipt, receipt = receipts[t],
             receipt # NoReceipt, WriteDisposition(t, receipt),
             acks' = acks \cup {Ack(t, receipt)} \/ UNCHANGED acks
      PROVE  AnswerInv'
  <2>1. \A u \in Turns : disp'[u] # NoReceipt => disp'[u] = receipts[u]
    BY <1>1 DEF WriteDisposition, TypeOK, DocumentsOK, AdmissionInv, AnswerInv
  <2>2. ASSUME NEW a \in acks'
        PROVE  receipts[a.turn] # NoReceipt /\ a = Ack(a.turn, receipts[a.turn])
    <3>1. CASE a \in acks
      BY <3>1 DEF AdmissionInv, AnswerInv
    <3>2. CASE a \notin acks
      BY <1>1, <2>2, <3>2 DEF Ack
    <3> QED
      BY <3>1, <3>2
  <2> QED
    BY <2>1, <2>2 DEF AnswerInv, Ack
<1>2. CASE ReplayReceipt(r)
  <2>1. /\ loc[r].turn \in Turns
        /\ LadderReceipt(r) = receipts[loc[r].turn]
        /\ LadderReceipt(r) # NoReceipt
    BY <1>2, LadderTruth DEF ReplayReceipt
  <2>2. CASE LadderReceipt(r).input = loc[r].input
    BY <1>1, <1>2, <2>1, <2>2 DEF ReplayReceipt
  <2>3. CASE LadderReceipt(r).input # loc[r].input
    BY <1>2, <2>3 DEF ReplayReceipt, AdmissionInv, AnswerInv, Ack
  <2> QED
    BY <2>2, <2>3
<1>3. CASE Acknowledge(r)
  <2> DEFINE receipt == [rev |-> loc[r].snapRev + 1, input |-> loc[r].input]
  <2>1. /\ loc[r].turn \in Turns
        /\ receipt = receipts[loc[r].turn]
    BY <1>3 DEF Acknowledge, At, TypeOK, OccurrencesOK, AdmissionInv,
                SnapshotInv, SnapshotOf
  <2>2. loc[r].snapRev + 1 # 0
    BY DEF TypeOK, OccurrencesOK, Occurrence
  <2>3. receipt # NoReceipt
    BY <2>2 DEF NoReceipt
  <2>4. /\ WriteDisposition(loc[r].turn, receipt)
        /\ acks' = acks \cup {Ack(loc[r].turn, receipt)}
    BY <1>3 DEF Acknowledge
  <2> HIDE DEF receipt
  <2> QED
    BY <1>1, <2>1, <2>3, <2>4
<1>4. CASE ~ReplayReceipt(r) /\ ~Acknowledge(r)
  <2>1. UNCHANGED <<disp, acks>>
    BY <1>4
    DEF Step, Crash, StoreFault, docs, ReadFenceRevision, Decline, Decide,
        ClaimRead, AttachState, AttachRecheck, Reconcile, ClaimPut,
        ClaimVerify, BeginRead, BeginPut, Mint, MintFail, HandlerRefused,
        RefusedBeforeAdapter, DispatchClaim, GatePermit, GateJournal,
        GateFence, GateRefused, Call, Consume, Complete, ReleaseCheck,
        ReleaseRemove, CommitRead, CommitFence, CommitPut, CommitReread,
        CommitFail
  <2> QED
    BY <2>1 DEF AdmissionInv, AnswerInv, Ack
<1> QED
  BY <1>2, <1>3, <1>4

\* Only CommitPut writes the instance document.
LEMMA OnlyCommitMoves ==
  ASSUME NEW r \in Runtimes, Step(r) \/ Crash(r) \/ StoreFault(r),
         ~CommitPut(r)
  PROVE  UNCHANGED <<stateRev, receipts>>
BY DEF Step, Crash, StoreFault, docs, ReadFenceRevision, ReplayReceipt,
       Decline, Decide, ClaimRead, AttachState, AttachRecheck, Reconcile,
       ClaimPut, ClaimVerify, BeginRead, BeginPut, Mint, MintFail,
       HandlerRefused, RefusedBeforeAdapter, DispatchClaim, GatePermit,
       GateJournal, GateFence, GateRefused, Call, Consume, Complete,
       ReleaseCheck, ReleaseRemove, CommitRead, CommitFence, CommitReread,
       CommitFail, Acknowledge

\* A new occurrence reads the instance document as it is.
LEMMA SubmitAdmission ==
  ASSUME TypeOK, AdmissionInv, NEW r \in Runtimes, NEW t \in Turns,
         NEW i \in Inputs, Submit(r, t, i)
  PROVE  AdmissionInv'
<1>1. /\ loc'[r].pc = "readFence" /\ loc'[r].turn = t
      /\ loc'[r].snapRev = stateRev /\ loc'[r].snapReceipt = receipts[t]
      /\ \A q \in Runtimes : q # r => loc'[q] = loc[q]
  BY DEF Submit, Idle, TypeOK, OccurrencesOK
<1>2. UNCHANGED <<stateRev, receipts, disp, acks>>
  BY DEF Submit, docs
<1>3. SnapshotInv'
  <2>1. SUFFICES ASSUME NEW q \in Runtimes, ~At(q, "idle")'
                 PROVE  SnapshotOf(q)'
    BY DEF SnapshotInv
  <2>2. CASE q # r
    <3>1. loc'[q] = loc[q] /\ ~At(q, "idle") /\ SnapshotOf(q)
      BY <1>1, <2>1, <2>2 DEF At, AdmissionInv, SnapshotInv
    <3> QED
      BY <1>2, <3>1 DEF SnapshotOf, PastLadder
  <2>3. CASE q = r
    BY <1>1, <1>2, <2>3 DEF SnapshotOf, PastLadder, TypeOK, DocumentsOK
  <2> QED
    BY <2>2, <2>3
<1> QED
  BY <1>2, <1>3
  DEF AdmissionInv, ReceiptsInv, OnceOnlyAdmission, AnswerInv, Ack

LEMMA NextAdmission ==
  TypeOK /\ AdmissionInv /\ [Next]_vars => AdmissionInv'
<1> SUFFICES ASSUME TypeOK, AdmissionInv, [Next]_vars PROVE AdmissionInv'
  OBVIOUS
<1>1. CASE UNCHANGED vars
  BY <1>1 DEF vars, docs, AdmissionInv, ReceiptsInv, OnceOnlyAdmission,
              SnapshotInv, SnapshotOf, AnswerInv, At, PastLadder, Ack
<1>2. CASE Next
  <2>1. PICK r \in Runtimes :
          \/ \E t \in Turns, i \in Inputs : Submit(r, t, i)
          \/ Step(r) \/ Crash(r) \/ StoreFault(r)
    BY <1>2 DEF Next
  <2>2. CASE \E t \in Turns, i \in Inputs : Submit(r, t, i)
    BY <2>2, SubmitAdmission
  <2>3. CASE CommitPut(r)
    BY <2>3, CommitPutAdmits
  <2>4. CASE (Step(r) \/ Crash(r) \/ StoreFault(r)) /\ ~CommitPut(r)
    <3>1. UNCHANGED <<stateRev, receipts>>
      BY <2>4, OnlyCommitMoves
    <3>2. SnapshotInv' /\ AnswerInv'
      BY <2>4, <3>1, SnapshotStands, AnswerKept
    <3> QED
      BY <3>1, <3>2 DEF AdmissionInv, ReceiptsInv, OnceOnlyAdmission
  <2> QED
    BY <2>1, <2>2, <2>3, <2>4
<1> QED
  BY <1>1, <1>2

LEMMA AdmissionInvariant == Spec => []AdmissionInv
<1>1. Init => TypeOK /\ AdmissionInv
  BY InitType, InitAdmission
<1>2. TypeOK /\ AdmissionInv /\ [Next]_vars => TypeOK' /\ AdmissionInv'
  BY NextType, NextAdmission
<1> QED
  BY <1>1, <1>2, PTL DEF Spec

\* No turn moves the state of the instance twice: state revisions and
\* admitted turns correspond one to one (commitAcceptedTransitionInLane and
\* the replay ladder).
THEOREM OnceOnlyHolds == Spec => []OnceOnlyAdmission
<1>1. AdmissionInv => OnceOnlyAdmission
  BY DEF AdmissionInv, ReceiptsInv
<1> QED
  BY <1>1, AdmissionInvariant, PTL

\* Every answer a client is given is the original receipt of its turn
\* (adjudicateDurableOriginalReceipt, readTurnDispositionOrReplay).
THEOREM AnswersHold == Spec => []AnswersAreOriginal
<1>1. AdmissionInv => AnswersAreOriginal
  BY DEF AdmissionInv, AnswerInv, AnswersAreOriginal
<1> QED
  BY <1>1, AdmissionInvariant, PTL
=============================================================================
