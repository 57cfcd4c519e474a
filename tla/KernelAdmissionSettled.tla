------------------------ MODULE KernelAdmissionSettled ------------------------
(***************************************************************************)
(* A turn is admitted only over effects that are durably completed for the *)
(* input it is admitted with, and that reached the resource; its intents   *)
(* run in order, what is settled stands, a proof of zero effect is true,   *)
(* and the whole protocol implements OnceOnly.                             *)
(*                                                                         *)
(* An occurrence carries its knowledge with it: the intents it has passed  *)
(* are completed for its input (SettledOf), and since a completed record   *)
(* never changes it still knows so when it commits, whoever else has run   *)
(* in between.                                                             *)
(***************************************************************************)
EXTENDS KernelAdmissionDispatch

Done(i) == [status |-> "completed", input |-> i]

\* What a step never takes back: a begun record with its input, a completed
\* one, a landed change, a dead permit.
FactsStand ==
  /\ landed \subseteq landed'
  /\ \A e \in Effects :
       /\ Begun(e) => journal'[e].status # "none"
       /\ Begun(e) => journal'[e].input = journal[e].input
       /\ journal[e].status = "completed" => journal'[e] = journal[e]
       /\ permit[e] = "consumed" => permit'[e] = "consumed"

\* What every completed record rests on.
CompletedRests ==
  \A e \in Effects : journal[e].status = "completed" =>
    /\ e \in landed
    /\ Intent(e).external => permit[e] = "consumed"

LEMMA Parts ==
  SettlementInv <=> /\ CompletedRests
                    /\ \A r \in Runtimes : SettledOf(r)
                    /\ AdmittedEffectsSettled
BY DEF SettlementInv, CompletedRests

LEMMA PartsNext ==
  SettlementInv' <=> /\ CompletedRests'
                     /\ \A r \in Runtimes : SettledOf(r)'
                     /\ AdmittedEffectsSettled'
BY DEF SettlementInv, CompletedRests

\* The intents up to its own are effects of the turn.
LEMMA Earlier ==
  ASSUME TypeOK, NEW r \in Runtimes, loc[r].pc \in EffectLabels
  PROVE  /\ loc[r].turn \in Turns
         /\ loc[r].ord \in 1..Len(Intents[loc[r].turn])
         /\ Len(Intents[loc[r].turn]) \in Nat
         /\ \A n \in 1..loc[r].ord : <<loc[r].turn, n>> \in Effects
<1>1. /\ loc[r].turn \in Turns
      /\ loc[r].ord \in Nat
      /\ <<loc[r].turn, loc[r].ord>> \in Effects
  BY DEF TypeOK, OccurrencesOK, Occurrence, EffectLabels, At, Current
<1>2. Len(Intents[loc[r].turn]) \in Nat
  BY <1>1, IntentCount
<1>3. loc[r].ord \in 1..Len(Intents[loc[r].turn])
  BY <1>1, EffectIs
<1>4. ASSUME NEW n \in 1..loc[r].ord
      PROVE  <<loc[r].turn, n>> \in Effects
  <2>1. n \in Nat /\ n \in 1..Len(Intents[loc[r].turn])
    BY <1>2, <1>3
  <2> QED
    BY <1>1, <2>1, EffectIs
<1> QED
  BY <1>1, <1>2, <1>3, <1>4

LEMMA EffectsOfAre ==
  ASSUME NEW t \in Turns
  PROVE  EffectsOf(t) \subseteq Effects
BY DEF EffectsOf, Effects

-----------------------------------------------------------------------------
(* Who does not move keeps what he knows                                    *)

LEMMA OthersSettled ==
  ASSUME TypeOK, SettlementInv, NEW r \in Runtimes, OnlyMoves(r), FactsStand
  PROVE  \A q \in Runtimes : q # r => SettledOf(q)'
<1> SUFFICES ASSUME NEW q \in Runtimes, q # r PROVE SettledOf(q)'
  OBVIOUS
<1>1. loc'[q] = loc[q] /\ SettledOf(q)
  BY DEF OnlyMoves, SettlementInv
<1>2. ASSUME loc[q].pc \in EffectLabels,
             NEW n \in 1..(loc[q].ord - 1)
      PROVE  journal'[<<loc[q].turn, n>>] = Done(loc[q].input)
  <2>1. <<loc[q].turn, n>> \in Effects
    BY <1>2, Earlier
  <2> QED
    BY <1>1, <1>2, <2>1 DEF SettledOf, FactsStand, Done
<1>3. ASSUME loc[q].pc \in CommitLabels, NEW e \in EffectsOf(loc[q].turn)
      PROVE  journal'[e] = Done(loc[q].input)
  <2>1. e \in Effects
    BY <1>3, EffectsOfAre
    DEF TypeOK, OccurrencesOK, At, CommitLabels
  <2> QED
    BY <1>1, <1>3, <2>1 DEF SettledOf, FactsStand, Done
<1>4. ASSUME loc[q].pc \in Exec
      PROVE  /\ journal'[Current(q)].status # "none"
             /\ journal'[Current(q)].input = loc[q].input
             /\ Current(q) \in Effects
  BY <1>1, <1>4, Earlier
  DEF SettledOf, FactsStand, Exec, Begun, TypeOK, OccurrencesOK
<1>5. ASSUME loc[q].pc \in {"consume", "complete"},
             loc[q].result = "completed"
      PROVE  /\ Current(q) \in landed'
             /\ loc[q].pc = "complete" /\ Intent(Current(q)).external
                  => permit'[Current(q)] = "consumed"
  <2>1. Current(q) \in Effects
    BY <1>4, <1>5, Labelled
  <2> QED
    BY <1>1, <1>5, <2>1 DEF SettledOf, FactsStand
<1> QED
  BY <1>1, <1>2, <1>3, <1>4, <1>5
  DEF SettledOf, Done, Exec, Current, Begun, Intent, EffectsOf

-----------------------------------------------------------------------------
(* Who moves knows what he needs                                            *)

LEMMA LabelsApart ==
  /\ EffectLabels \cap CommitLabels = {}
  /\ Exec \subseteq EffectLabels
  /\ {"idle", "readFence", "ladder", "claimRead", "attachState",
      "attachRecheck", "reconcile", "claimPut", "claimVerify",
      "releaseCheck", "releaseRemove"} \cap (EffectLabels \cup CommitLabels)
       = {}
  /\ "commitRead" \in CommitLabels /\ "beginRead" \in EffectLabels
  /\ "consume" \in Exec /\ "complete" \in Exec
  /\ "beginRead" \notin Exec /\ "beginPut" \notin Exec
BY DEF EffectLabels, CommitLabels, Exec

\* Away from effects and commit nothing is claimed.
LEMMA Unclaimed ==
  ASSUME NEW r \in Runtimes,
         loc'[r].pc \notin EffectLabels \cup CommitLabels
  PROVE  SettledOf(r)'
BY LabelsApart DEF SettledOf

\* An occurrence stays with its effect.
LEMMA Forward ==
  ASSUME TypeOK, SettlementInv, NEW r \in Runtimes, FactsStand,
         loc[r].pc \in EffectLabels, loc'[r].pc \in EffectLabels,
         loc'[r].turn = loc[r].turn, loc'[r].ord = loc[r].ord,
         loc'[r].input = loc[r].input,
         loc'[r].pc \in Exec =>
           /\ journal'[Current(r)].status # "none"
           /\ journal'[Current(r)].input = loc[r].input,
         loc'[r].pc \in {"consume", "complete"}
           /\ loc'[r].result = "completed" =>
             /\ Current(r) \in landed'
             /\ loc'[r].pc = "complete" /\ Intent(Current(r)).external
                  => permit'[Current(r)] = "consumed"
  PROVE  SettledOf(r)'
<1>1. SettledOf(r)
  BY DEF SettlementInv
<1>2. ASSUME NEW n \in 1..(loc[r].ord - 1)
      PROVE  journal'[<<loc[r].turn, n>>] = Done(loc[r].input)
  <2>1. <<loc[r].turn, n>> \in Effects
    BY <1>2, Earlier
  <2> QED
    BY <1>1, <1>2, <2>1 DEF SettledOf, FactsStand, Done
<1>3. loc'[r].pc \notin CommitLabels
  BY LabelsApart
<1> QED
  BY <1>2, <1>3 DEF SettledOf, Done, Exec, Current, Begun, Intent

\* What an executing occurrence knows of its own record survives the step.
LEMMA OwnRecord ==
  ASSUME TypeOK, SettlementInv, NEW r \in Runtimes, FactsStand,
         loc[r].pc \in Exec
  PROVE  /\ Current(r) \in Effects
         /\ journal[Current(r)].input = loc[r].input
         /\ journal'[Current(r)].status # "none"
         /\ journal'[Current(r)].input = loc[r].input
<1>1. Current(r) \in Effects
  BY LabelsApart DEF TypeOK, OccurrencesOK
<1>2. Begun(Current(r)) /\ journal[Current(r)].input = loc[r].input
  BY DEF SettlementInv, SettledOf, Exec
<1> QED
  BY <1>1, <1>2 DEF FactsStand

\* The first intent has nothing before it.
LEMMA FirstSettled ==
  ASSUME TypeOK, NEW r \in Runtimes, loc[r].turn \in Turns, NextIntent(r, 1)
  PROVE  SettledOf(r)'
<1>1. /\ loc'[r].pc = IF 1 > Len(Intents[loc[r].turn]) THEN "commitRead"
                                                       ELSE "beginRead"
      /\ loc'[r].turn = loc[r].turn
      /\ loc'[r].ord = 1
  BY NextIntentGoes DEF TypeOK
<1>2. Len(Intents[loc[r].turn]) \in Nat
  BY IntentCount
<1>3. loc'[r].pc \in CommitLabels => EffectsOf(loc'[r].turn) = {}
  <2>1. SUFFICES ASSUME loc'[r].pc \in CommitLabels
                 PROVE  EffectsOf(loc[r].turn) = {}
    BY <1>1
  <2>2. Len(Intents[loc[r].turn]) = 0
    BY <1>1, <1>2, <2>1, LabelsApart
  <2> QED
    BY <2>2 DEF EffectsOf
<1>4. loc'[r].pc \notin Exec
  BY <1>1, LabelsApart, Labelled
<1> QED
  BY <1>1, <1>3, <1>4, LabelsApart DEF SettledOf, Exec, EffectsOf

\* The intent that was just completed joins those before it.
LEMMA NextSettled ==
  ASSUME TypeOK, SettlementInv, NEW r \in Runtimes, FactsStand,
         loc[r].pc \in EffectLabels, NextIntent(r, loc[r].ord + 1),
         journal'[Current(r)] = Done(loc[r].input)
  PROVE  SettledOf(r)'
<1> DEFINE t == loc[r].turn
           n0 == loc[r].ord
<1>1. /\ t \in Turns /\ n0 \in 1..Len(Intents[t])
      /\ Len(Intents[t]) \in Nat
      /\ \A n \in 1..n0 : <<t, n>> \in Effects
      /\ n0 \in Nat
  BY Earlier
<1>2. /\ loc'[r].pc = IF n0 + 1 > Len(Intents[t]) THEN "commitRead"
                                                  ELSE "beginRead"
      /\ loc'[r].turn = t
      /\ loc'[r].input = loc[r].input
      /\ loc'[r].ord = n0 + 1
  BY <1>1, NextIntentGoes DEF TypeOK
<1>3. ASSUME NEW n \in 1..n0
      PROVE  journal'[<<t, n>>] = Done(loc[r].input)
  <2>1. CASE n = n0
    BY <2>1 DEF Current
  <2>2. CASE n # n0
    <3>1. n \in 1..(n0 - 1) /\ <<t, n>> \in Effects
      BY <1>1, <2>2
    <3> QED
      BY <3>1 DEF SettlementInv, SettledOf, FactsStand, Done
  <2> QED
    BY <2>1, <2>2
<1>4. loc'[r].pc \in EffectLabels =>
        \A n \in 1..(loc'[r].ord - 1) :
          journal'[<<loc'[r].turn, n>>] = Done(loc'[r].input)
  BY <1>1, <1>2, <1>3
<1>5. loc'[r].pc \in CommitLabels =>
        \A e \in EffectsOf(t) : journal'[e] = Done(loc[r].input)
  <2> SUFFICES ASSUME loc'[r].pc \in CommitLabels, NEW e \in EffectsOf(t)
               PROVE  journal'[e] = Done(loc[r].input)
    OBVIOUS
  <2>1. n0 = Len(Intents[t])
    BY <1>1, <1>2, LabelsApart
  <2>2. PICK n \in 1..n0 : e = <<t, n>>
    BY <2>1 DEF EffectsOf
  <2> QED
    BY <1>3, <2>2
<1>6. loc'[r].pc \notin Exec
  BY <1>2, LabelsApart, Labelled
<1>7. loc'[r].pc \notin {"consume", "complete"}
  BY <1>6, LabelsApart
<1> HIDE DEF t, n0
<1>8. loc'[r].pc \notin EffectLabels \ {"beginRead", "beginPut"}
  BY <1>6 DEF Exec
<1> QED
  BY <1>2, <1>4, <1>5, <1>7, <1>8 DEF SettledOf, Done, EffectsOf

\* What is admitted stays settled as long as nothing more is admitted.
LEMMA AdmittedKept ==
  ASSUME SettlementInv, FactsStand, receipts' = receipts
  PROVE  AdmittedEffectsSettled'
<1> SUFFICES ASSUME NEW t \in Turns, receipts[t] # NoReceipt,
                    NEW e \in EffectsOf(t)
             PROVE  /\ journal'[e] = Done(receipts[t].input)
                    /\ e \in landed'
  BY DEF AdmittedEffectsSettled, EffectsOf, Done
<1>1. e \in Effects
  BY EffectsOfAre
<1>2. journal[e] = Done(receipts[t].input) /\ e \in landed
  BY DEF SettlementInv, AdmittedEffectsSettled, Done
<1> QED
  BY <1>1, <1>2 DEF FactsStand, Done

\* A step that completes and admits nothing keeps the invariant if its
\* occurrence keeps its knowledge.
LEMMA SettlementKept ==
  ASSUME TypeOK, SettlementInv, NEW r \in Runtimes, OnlyMoves(r), FactsStand,
         \A e \in Effects : journal'[e].status = "completed"
                              => journal[e].status = "completed",
         receipts' = receipts, SettledOf(r)'
  PROVE  SettlementInv'
<1>1. CompletedRests'
  BY DEF SettlementInv, FactsStand, CompletedRests, Intent, Effects
<1>2. \A q \in Runtimes : SettledOf(q)'
  BY OthersSettled
<1>3. AdmittedEffectsSettled'
  BY AdmittedKept
<1> QED
  BY <1>1, <1>2, <1>3, PartsNext

-----------------------------------------------------------------------------
(* The steps without an effect                                              *)

LEMMA FactsUntouched ==
  UNCHANGED <<journal, permit, landed>> => FactsStand
BY DEF FactsStand, Begun

\* Nothing changes but the place of r, and there r still knows enough.
LEMMA PlaceKept ==
  ASSUME TypeOK, SettlementInv, NEW r \in Runtimes, OnlyMoves(r),
         UNCHANGED <<journal, permit, landed, receipts>>, SettledOf(r)'
  PROVE  SettlementInv'
BY FactsUntouched, SettlementKept

LEMMA StartSettles ==
  ASSUME TypeOK, SettlementInv, NEW r \in Runtimes,
         \/ \E t \in Turns, i \in Inputs : Submit(r, t, i)
         \/ ReadFenceRevision(r) \/ ReplayReceipt(r) \/ Decline(r)
         \/ Decide(r)
  PROVE  SettlementInv'
<1>1. UNCHANGED <<journal, permit, landed, receipts>>
  BY DEF Submit, ReadFenceRevision, ReplayReceipt, Decline, Decide, docs, world
<1>2. OnlyMoves(r) /\ SettledOf(r)'
  BY StartGoes, Unclaimed, LabelsApart
<1> QED
  BY <1>1, <1>2, PlaceKept

LEMMA ClaimSettles ==
  ASSUME TypeOK, SettlementInv, NEW r \in Runtimes,
         \/ ClaimRead(r) \/ AttachState(r) \/ AttachRecheck(r)
         \/ Reconcile(r) \/ ClaimPut(r) \/ ClaimVerify(r)
  PROVE  SettlementInv'
<1>1. UNCHANGED <<journal, permit, landed, receipts>>
  BY DEF ClaimRead, AttachState, AttachRecheck, Reconcile, ClaimPut,
         ClaimVerify, docs, world
<1>2. loc[r].turn \in Turns
  BY DEF ClaimRead, AttachState, AttachRecheck, Reconcile, ClaimPut,
         ClaimVerify, At, TypeOK, OccurrencesOK
<1>3. OnlyMoves(r) /\ SettledOf(r)'
  BY <1>2, ClaimGoes, Unclaimed, FirstSettled, LabelsApart
<1> QED
  BY <1>1, <1>3, PlaceKept

\* What an occurrence on its way to the commit knows, it knows at every label
\* of the commit.
LEMMA CommitStays ==
  ASSUME TypeOK, SettlementInv, NEW r \in Runtimes, FactsStand,
         loc[r].pc \in CommitLabels, loc'[r].pc \in CommitLabels,
         loc'[r].turn = loc[r].turn, loc'[r].input = loc[r].input
  PROVE  SettledOf(r)'
<1>1. ASSUME NEW e \in EffectsOf(loc[r].turn)
      PROVE  journal'[e] = Done(loc[r].input)
  <2>1. e \in Effects
    BY EffectsOfAre DEF TypeOK, OccurrencesOK, At, CommitLabels
  <2> QED
    BY <2>1 DEF SettlementInv, SettledOf, FactsStand, Done
<1>2. loc'[r].pc \notin EffectLabels
  BY LabelsApart
<1>3. loc'[r].pc \notin {"consume", "complete"}
  BY <1>2, LabelsApart
<1> QED
  BY <1>1, <1>2, <1>3 DEF SettledOf, Done, EffectsOf

LEMMA CommitPlace ==
  ASSUME TypeOK, SettlementInv, NEW r \in Runtimes,
         \/ ReleaseCheck(r) \/ ReleaseRemove(r)
         \/ CommitRead(r) \/ CommitFence(r) \/ CommitPut(r)
         \/ CommitReread(r) \/ CommitFail(r) \/ Acknowledge(r)
  PROVE  /\ OnlyMoves(r) /\ SettledOf(r)'
         /\ UNCHANGED <<journal, permit, landed>>
<1>1. UNCHANGED <<journal, permit, landed>>
  BY DEF ReleaseCheck, ReleaseRemove, CommitRead, CommitFence, CommitPut,
         CommitReread, CommitFail, Acknowledge, docs, world
<1>2. CASE loc'[r].pc \in {"idle", "releaseRemove"}
  BY <1>1, <1>2, CommitGoes, Unclaimed, LabelsApart
<1>3. CASE /\ loc[r].pc \in CommitLabels
           /\ loc'[r].pc \in {"commitFence", "commitFail", "commitPut",
                              "commitReread", "disposition"}
           /\ loc'[r].turn = loc[r].turn
           /\ loc'[r].input = loc[r].input
  <2>1. loc'[r].pc \in CommitLabels
    BY <1>3 DEF CommitLabels
  <2> QED
    BY <1>1, <1>3, <2>1, FactsUntouched, CommitStays, CommitGoes
<1> QED
  BY <1>2, <1>3, CommitGoes

\* The one step that admits does so over what its occurrence knows.
LEMMA CommitSettles ==
  ASSUME TypeOK, SettlementInv, NEW r \in Runtimes,
         \/ ReleaseCheck(r) \/ ReleaseRemove(r)
         \/ CommitRead(r) \/ CommitFence(r) \/ CommitPut(r)
         \/ CommitReread(r) \/ CommitFail(r) \/ Acknowledge(r)
  PROVE  SettlementInv'
<1>1. CASE UNCHANGED receipts
  BY <1>1, CommitPlace, PlaceKept
<1>2. CASE /\ CommitPut(r)
           /\ receipts' = [receipts EXCEPT ![loc[r].turn] =
                [rev |-> stateRev + 1, input |-> loc[r].input]]
  <2>1. /\ OnlyMoves(r) /\ SettledOf(r)' /\ FactsStand
        /\ UNCHANGED <<journal, permit, landed>>
    BY <1>2, CommitPlace, FactsUntouched
  <2>2. CompletedRests'
    BY <2>1 DEF SettlementInv, CompletedRests, Intent, Effects
  <2>3. \A q \in Runtimes : SettledOf(q)'
    BY <2>1, OthersSettled
  <2>4. AdmittedEffectsSettled'
    <3> SUFFICES ASSUME NEW t \in Turns, receipts'[t] # NoReceipt,
                        NEW e \in EffectsOf(t)
                 PROVE  /\ journal[e] = Done(receipts'[t].input)
                        /\ e \in landed
      BY <2>1 DEF AdmittedEffectsSettled, EffectsOf, Done
    <3>1. CASE t = loc[r].turn
      <4>1. receipts'[t].input = loc[r].input /\ loc[r].pc \in CommitLabels
        BY <1>2, <3>1
        DEF TypeOK, DocumentsOK, CommitPut, At, CommitLabels
      <4>2. journal[e] = Done(loc[r].input)
        BY <3>1, <4>1 DEF SettlementInv, SettledOf, Done
      <4>3. e \in landed
        BY <4>2, EffectsOfAre DEF SettlementInv, Done
      <4> QED
        BY <4>1, <4>2, <4>3
    <3>2. CASE t # loc[r].turn
      BY <1>2, <3>2
      DEF TypeOK, DocumentsOK, SettlementInv, AdmittedEffectsSettled, Done
    <3> QED
      BY <3>1, <3>2
  <2> QED
    BY <2>2, <2>3, <2>4, PartsNext
<1> QED
  BY <1>1, <1>2
  DEF ReleaseCheck, ReleaseRemove, CommitRead, CommitFence, CommitPut,
      CommitReread, CommitFail, Acknowledge, docs

\* A failed or refused execution carries no completed outcome.
LEMMA FailedForward ==
  ASSUME TypeOK, SettlementInv, NEW r \in Runtimes, FactsStand,
         NEW zero \in BOOLEAN, ExecutorFailed(r, zero), loc[r].pc \in Exec
  PROVE  OnlyMoves(r) /\ SettledOf(r)'
<1>1. /\ OnlyMoves(r)
      /\ loc'[r].pc = "complete"
      /\ loc'[r].turn = loc[r].turn
      /\ loc'[r].ord = loc[r].ord
      /\ loc'[r].input = loc[r].input
      /\ loc'[r].result # "completed"
  BY ExecutorFailedGoes DEF TypeOK
<1>2. /\ journal'[Current(r)].status # "none"
      /\ journal'[Current(r)].input = loc[r].input
  BY OwnRecord
<1> QED
  BY <1>1, <1>2, Forward, LabelsApart

\* An executing occurrence goes on to another label of its effect, before the
\* outcome is known.
LEMMA GotoForward ==
  ASSUME TypeOK, SettlementInv, NEW r \in Runtimes, FactsStand,
         loc[r].pc \in Exec, NEW l \in Exec, Goto(r, l),
         l \in {"consume", "complete"} /\ loc[r].result = "completed" =>
           /\ Current(r) \in landed'
           /\ l = "complete" /\ Intent(Current(r)).external
                => permit'[Current(r)] = "consumed"
  PROVE  OnlyMoves(r) /\ SettledOf(r)'
<1>1. /\ OnlyMoves(r)
      /\ loc'[r].pc = l
      /\ loc'[r].turn = loc[r].turn
      /\ loc'[r].ord = loc[r].ord
      /\ loc'[r].input = loc[r].input
      /\ loc'[r].result = loc[r].result
  BY GotoGoes, Labelled DEF TypeOK
<1>2. /\ journal'[Current(r)].status # "none"
      /\ journal'[Current(r)].input = loc[r].input
  BY OwnRecord
<1> QED
  BY <1>1, <1>2, Forward, LabelsApart

LEMMA GotoAway ==
  ASSUME TypeOK, NEW r \in Runtimes, Goto(r, "releaseCheck") \/ Return(r)
  PROVE  OnlyMoves(r) /\ SettledOf(r)'
<1>1. "releaseCheck" \in Labels
  BY DEF Labels, ReleaseLabels
<1>2. OnlyMoves(r) /\ loc'[r].pc \in {"releaseCheck", "idle"}
  BY <1>1, GotoGoes, ReturnGoes DEF TypeOK
<1> QED
  BY <1>2, Unclaimed, LabelsApart

LEMMA FailureSettles ==
  ASSUME TypeOK, SettlementInv, NEW r \in Runtimes, Crash(r) \/ StoreFault(r)
  PROVE  SettlementInv'
<1>1. UNCHANGED <<journal, permit, landed, receipts>>
  BY DEF Crash, StoreFault, docs, world
<1>2. FactsStand
  BY <1>1, FactsUntouched
<1>3. CASE Return(r) \/ Goto(r, "releaseCheck")
  BY <1>1, <1>3, GotoAway, PlaceKept
<1>4. CASE loc[r].pc \in CommitLabels /\ Goto(r, "commitFail")
  <2>1. "commitFail" \in Labels /\ "commitFail" \in CommitLabels
    BY DEF Labels, CommitLabels
  <2>2. OnlyMoves(r) /\ SettledOf(r)'
    BY <1>2, <1>4, <2>1, GotoGoes, CommitStays DEF TypeOK
  <2> QED
    BY <1>1, <2>2, PlaceKept
<1>5. CASE At(r, "mint") /\ Goto(r, "mintFail")
  BY <1>1, <1>2, <1>5, GotoForward, Labelled, PlaceKept DEF At
<1>6. CASE /\ loc[r].pc \in {"dispatchClaim", "gatePermit", "gateJournal",
                             "gateFence"}
           /\ ExecutorFailed(r, FALSE)
  BY <1>1, <1>2, <1>6, FailedForward, Labelled, PlaceKept
<1> QED
  BY <1>3, <1>4, <1>5, <1>6, FaultGoes

-----------------------------------------------------------------------------
(* The steps of an effect                                                   *)

\* A record found is passed over only if it is completed for the very input,
\* and executed again only for the very input.
LEMMA ExistingSettled ==
  ASSUME TypeOK, SettlementInv, NEW r \in Runtimes,
         loc[r].pc \in {"beginRead", "beginPut"}, Begun(Current(r)),
         FactsStand, UNCHANGED journal, UseExisting(r, Current(r))
  PROVE  OnlyMoves(r) /\ SettledOf(r)'
<1>1. loc[r].pc \in EffectLabels
  BY DEF EffectLabels
<1>2. CASE Goto(r, "releaseCheck") \/ Return(r)
  BY <1>2, GotoAway
<1>3. CASE /\ NextIntent(r, loc[r].ord + 1)
           /\ journal[Current(r)].status = "completed"
           /\ journal[Current(r)].input = loc[r].input
  <2>1. Current(r) \in Effects /\ loc[r].ord + 1 \in Nat \ {0}
    BY <1>1 DEF TypeOK, OccurrencesOK, Occurrence
  <2>2. journal'[Current(r)] = Done(loc[r].input)
    BY <1>3, <2>1 DEF TypeOK, DocumentsOK, JournalRecord, Done
  <2> QED
    BY <1>1, <1>3, <2>1, <2>2, NextSettled, NextIntentGoes DEF TypeOK
<1>4. CASE /\ Goto(r, "mint") \/ Goto(r, "call")
           /\ journal[Current(r)].input = loc[r].input
  <2>1. /\ {"mint", "call"} \subseteq Labels
        /\ {"mint", "call"} \subseteq EffectLabels
    BY DEF Labels, EffectLabels
  <2>2. /\ OnlyMoves(r)
        /\ loc'[r].pc \in {"mint", "call"}
        /\ loc'[r].turn = loc[r].turn
        /\ loc'[r].ord = loc[r].ord
        /\ loc'[r].input = loc[r].input
    BY <1>4, <2>1, GotoGoes DEF TypeOK
  <2> QED
    BY <1>1, <1>4, <2>1, <2>2, Forward DEF Begun
<1>5. CASE /\ journal[Current(r)].input = loc[r].input
           /\ Goto(r, IF Intent(Current(r)).external THEN "mint" ELSE "call")
  BY <1>4, <1>5
<1> QED
  BY <1>2, <1>3, <1>5 DEF UseExisting

LEMMA BeginSettles ==
  ASSUME TypeOK, SettlementInv, NEW r \in Runtimes,
         BeginRead(r) \/ BeginPut(r)
  PROVE  SettlementInv'
<1> DEFINE e0 == Current(r)
<1>1. /\ loc[r].pc \in {"beginRead", "beginPut"}
      /\ loc[r].pc \in EffectLabels
      /\ e0 \in Effects
  BY DEF BeginRead, BeginPut, At, EffectLabels, TypeOK, OccurrencesOK
<1>2. {"beginPut", "mint", "call"} \subseteq Labels \cap EffectLabels
  BY DEF Labels, EffectLabels
<1>3. CASE /\ Begun(e0)
           /\ UNCHANGED <<journal, permit, landed, receipts>>
           /\ UseExisting(r, e0) \/ Goto(r, "releaseCheck")
  BY <1>1, <1>3, ExistingSettled, GotoAway, FactsUntouched, PlaceKept
<1>4. CASE /\ UNCHANGED <<journal, permit, landed, receipts>>
           /\ Goto(r, "beginPut")
  <2>1. /\ OnlyMoves(r)
        /\ loc'[r].pc = "beginPut"
        /\ loc'[r].turn = loc[r].turn
        /\ loc'[r].ord = loc[r].ord
        /\ loc'[r].input = loc[r].input
    BY <1>2, <1>4, GotoGoes DEF TypeOK
  <2>2. SettledOf(r)'
    BY <1>1, <1>2, <1>4, <2>1, FactsUntouched, Forward, LabelsApart
  <2> QED
    BY <1>4, <2>1, <2>2, PlaceKept
<1>5. CASE /\ ~Begun(e0)
           /\ journal' = [journal EXCEPT ![e0] =
                            [status |-> "started", input |-> loc[r].input]]
           /\ UNCHANGED <<permit, landed, receipts>>
           /\ Goto(r, IF Intent(e0).external THEN "mint" ELSE "call")
  <2>1. FactsStand
    BY <1>1, <1>5 DEF FactsStand, Begun, TypeOK, DocumentsOK
  <2>2. \A e \in Effects : journal'[e].status = "completed"
                             => journal[e].status = "completed"
    BY <1>1, <1>5 DEF TypeOK, DocumentsOK
  <2>3. /\ journal'[e0].status # "none"
        /\ journal'[e0].input = loc[r].input
    BY <1>1, <1>5 DEF TypeOK, DocumentsOK
  <2>4. PICK l \in {"mint", "call"} : Goto(r, l)
    BY <1>5
  <2>5. /\ OnlyMoves(r)
        /\ loc'[r].pc = l
        /\ loc'[r].turn = loc[r].turn
        /\ loc'[r].ord = loc[r].ord
        /\ loc'[r].input = loc[r].input
    BY <1>2, <2>4, GotoGoes DEF TypeOK
  <2>6. SettledOf(r)'
    BY <1>1, <1>2, <2>1, <2>3, <2>5, Forward
  <2> QED
    BY <1>5, <2>1, <2>2, <2>5, <2>6, SettlementKept
<1>6. CASE BeginRead(r)
  <2>1. UNCHANGED <<journal, permit, landed, receipts>>
    BY <1>6 DEF BeginRead, docs, world
  <2>2. IF Begun(e0) THEN UseExisting(r, e0) ELSE Goto(r, "beginPut")
    BY <1>6 DEF BeginRead
  <2> HIDE DEF e0
  <2> QED
    BY <1>3, <1>4, <2>1, <2>2
<1>7. CASE BeginPut(r)
  <2>1. UNCHANGED <<permit, landed, receipts>>
    BY <1>7 DEF BeginPut, world
  <2>2. IF ~Begun(e0)
          THEN /\ journal' = [journal EXCEPT ![e0] =
                                [status |-> "started", input |-> loc[r].input]]
               /\ Goto(r, IF Intent(e0).external THEN "mint" ELSE "call")
          ELSE /\ UNCHANGED journal
               /\ UseExisting(r, e0) \/ Goto(r, "releaseCheck")
    BY <1>7 DEF BeginPut
  <2> HIDE DEF e0
  <2> QED
    BY <1>3, <1>5, <2>1, <2>2
<1> QED
  BY <1>6, <1>7

\* The steps between the record and the outcome.
LEMMA DispatchSettles ==
  ASSUME TypeOK, SettlementInv, NEW r \in Runtimes,
         \/ Mint(r) \/ HandlerRefused(r) \/ DispatchClaim(r)
         \/ GatePermit(r) \/ GateJournal(r) \/ GateFence(r) \/ GateRefused(r)
  PROVE  SettlementInv'
<1>1. loc[r].pc \in Exec
  BY Labelled
  DEF Mint, HandlerRefused, DispatchClaim, GatePermit, GateJournal, GateFence,
      GateRefused, At
<1>2. UNCHANGED <<journal, landed, receipts>> /\ FactsStand
  <2>1. CASE Mint(r)
    BY <2>1 DEF Mint, world, FactsStand, Begun, TypeOK, DocumentsOK
  <2>2. CASE ~Mint(r)
    BY <2>2, FactsUntouched
    DEF HandlerRefused, RefusedBeforeAdapter, DispatchClaim, GatePermit,
        GateJournal, GateFence, GateRefused, docs, world
  <2> QED
    BY <2>1, <2>2
<1>3. \/ \E l \in {"mintFail", "dispatchClaim", "gatePermit", "gateJournal",
                   "gateFence", "call"} : Goto(r, l)
      \/ \E zero \in BOOLEAN : ExecutorFailed(r, zero)
  BY DEF Mint, HandlerRefused, RefusedBeforeAdapter, DispatchClaim,
         GatePermit, GateJournal, GateFence, GateRefused
<1>4. OnlyMoves(r) /\ SettledOf(r)'
  <2>1. ASSUME NEW l \in {"mintFail", "dispatchClaim", "gatePermit",
                          "gateJournal", "gateFence", "call"},
               Goto(r, l)
        PROVE  OnlyMoves(r) /\ SettledOf(r)'
    BY <1>1, <1>2, <2>1, GotoForward, Labelled
  <2> QED
    BY <1>1, <1>2, <1>3, <2>1, FailedForward
<1> QED
  BY <1>2, <1>4, SettlementKept

\* A record given its status in place keeps what it had.
LEMMA StatusFacts ==
  ASSUME TypeOK, NEW e \in Effects, NEW s, s # "none",
         journal[e].status = "started",
         journal' = [journal EXCEPT ![e].status = s],
         UNCHANGED <<permit, landed>>
  PROVE  /\ FactsStand
         /\ journal'[e].status = s
         /\ journal'[e] = [status |-> s, input |-> journal[e].input]
         /\ \A f \in Effects : f # e => journal'[f] = journal[f]
<1>1. /\ journal \in [Effects -> JournalRecord]
      /\ journal[e] \in JournalRecord
  BY DEF TypeOK, DocumentsOK
<1>2. /\ journal'[e] = [journal[e] EXCEPT !.status = s]
      /\ \A f \in Effects : f # e => journal'[f] = journal[f]
  BY <1>1
<1>3. journal'[e] = [status |-> s, input |-> journal[e].input]
  BY <1>1, <1>2 DEF JournalRecord
<1> QED
  BY <1>2, <1>3 DEF FactsStand, Begun

LEMMA MintFailSettles ==
  ASSUME TypeOK, SettlementInv, NEW r \in Runtimes, MintFail(r)
  PROVE  SettlementInv'
<1> DEFINE e0 == Current(r)
<1>1. e0 \in Effects
  BY DEF MintFail, At, EffectLabels, TypeOK, OccurrencesOK
<1>2. UNCHANGED <<permit, landed, receipts>>
  BY DEF MintFail, world
<1>3. OnlyMoves(r) /\ SettledOf(r)'
  BY GotoAway DEF MintFail
<1>4. CASE UNCHANGED journal
  BY <1>2, <1>3, <1>4, PlaceKept
<1>5. CASE /\ journal[e0].status = "started"
           /\ journal' = [journal EXCEPT ![e0].status = "failedZero"]
  <2>1. /\ FactsStand
        /\ journal'[e0].status = "failedZero"
        /\ \A f \in Effects : f # e0 => journal'[f] = journal[f]
    BY <1>1, <1>2, <1>5, StatusFacts
  <2>2. \A f \in Effects : journal'[f].status = "completed"
                             => journal[f].status = "completed"
    BY <2>1
  <2> QED
    BY <1>2, <1>3, <2>1, <2>2, SettlementKept
<1> QED
  BY <1>4, <1>5 DEF MintFail

\* The call itself changes the world and no document.
LEMMA CallSettles ==
  ASSUME TypeOK, SettlementInv, NEW r \in Runtimes, Call(r)
  PROVE  SettlementInv'
<1> DEFINE e0 == Current(r)
<1>1. /\ loc[r].pc = "call"
      /\ loc[r].pc \in Exec /\ loc[r].pc \in EffectLabels
      /\ loc \in [Runtimes -> Occurrence]
  BY Labelled, LabelsApart DEF Call, At, TypeOK, OccurrencesOK
<1>2. UNCHANGED <<journal, permit, receipts>> /\ landed \subseteq landed'
  BY DEF Call, docs
<1>3. FactsStand
  BY <1>2 DEF FactsStand, Begun
<1>4. CASE ExecutorFailed(r, FALSE)
  BY <1>1, <1>2, <1>3, <1>4, FailedForward, SettlementKept
<1>5. CASE /\ landed' = landed \cup {e0}
           /\ loc' = [loc EXCEPT ![r].pc = IF Intent(e0).external
                                             THEN "consume" ELSE "complete",
                                 ![r].result = "completed"]
  <2>1. /\ OnlyMoves(r)
        /\ loc'[r].pc = IF Intent(e0).external THEN "consume"
                                                ELSE "complete"
        /\ loc'[r].turn = loc[r].turn
        /\ loc'[r].ord = loc[r].ord
        /\ loc'[r].input = loc[r].input
    BY <1>1, <1>5 DEF OnlyMoves, Occurrence
  <2>2. /\ journal'[e0].status # "none"
        /\ journal'[e0].input = loc[r].input
    BY <1>1, <1>3, OwnRecord
  <2>3. loc'[r].pc \in EffectLabels
    BY <2>1, LabelsApart
  <2>4. e0 \in landed'
    BY <1>5
  <2>5. ~(loc'[r].pc = "complete" /\ Intent(e0).external)
    BY <2>1
  <2>6. SettledOf(r)'
    BY <1>1, <1>3, <2>1, <2>2, <2>3, <2>4, <2>5, Forward
  <2> QED
    BY <1>2, <1>3, <2>1, <2>6, SettlementKept
<1> QED
  BY <1>4, <1>5 DEF Call

LEMMA ConsumeSettles ==
  ASSUME TypeOK, SettlementInv, NEW r \in Runtimes, Consume(r)
  PROVE  SettlementInv'
<1> DEFINE e0 == Current(r)
<1>1. /\ loc[r].pc = "consume" /\ loc[r].pc \in Exec
      /\ e0 \in Effects
      /\ permit \in [Effects -> {"none", "live", "consumed"}]
  BY Labelled
  DEF Consume, At, EffectLabels, TypeOK, OccurrencesOK, DocumentsOK
<1>2. UNCHANGED <<journal, landed, receipts>>
  BY DEF Consume, world
<1>3. permit' = permit \/ permit' = [permit EXCEPT ![e0] = "consumed"]
  BY DEF Consume
<1>4. FactsStand
  BY <1>1, <1>2, <1>3 DEF FactsStand, Begun
<1>5. OnlyMoves(r) /\ SettledOf(r)'
  <2>1. CASE Return(r) \/ Goto(r, "releaseCheck")
    BY <2>1, GotoAway
  <2>2. CASE /\ Goto(r, "complete") /\ loc[r].result = "completed"
             /\ permit' = [permit EXCEPT ![e0] = "consumed"]
    <3>1. permit'[e0] = "consumed"
      BY <1>1, <2>2
    <3>2. e0 \in landed'
      BY <1>1, <1>2, <2>2 DEF SettlementInv, SettledOf
    <3> QED
      BY <1>1, <1>4, <2>2, <3>1, <3>2, GotoForward, LabelsApart
  <2> QED
    BY <2>1, <2>2 DEF Consume, Raise
<1> QED
  BY <1>2, <1>4, <1>5, SettlementKept

\* The one step that completes a record does so for a landed change, under a
\* dead permit.
LEMMA CompleteSettles ==
  ASSUME TypeOK, DispatchInv, SettlementInv, NEW r \in Runtimes, Complete(r)
  PROVE  SettlementInv'
<1> DEFINE e0 == Current(r)
<1>1. /\ loc[r].pc = "complete"
      /\ loc[r].pc \in Exec /\ loc[r].pc \in EffectLabels
      /\ e0 \in Effects
  BY Labelled DEF Complete, At, EffectLabels, TypeOK, OccurrencesOK
<1>2. UNCHANGED <<permit, landed, receipts>>
  BY DEF Complete, world
<1>3. loc[r].result # "none"
  BY <1>1 DEF DispatchInv, OutcomeInv, Outcomes
<1>4. CASE UNCHANGED journal /\ Return(r)
  BY <1>2, <1>4, GotoAway, PlaceKept
<1>5. CASE /\ AfterOutcome(r, e0)
           /\ \/ /\ journal[e0].status = "started"
                 /\ journal' = [journal EXCEPT ![e0].status = loc[r].result]
              \/ /\ journal[e0].status = loc[r].result
                 /\ UNCHANGED journal
  <2>1. /\ FactsStand
        /\ journal'[e0].status = loc[r].result
        /\ \A f \in Effects : f # e0 => journal'[f] = journal[f]
    BY <1>1, <1>2, <1>3, <1>5, StatusFacts, FactsUntouched
  <2>2. journal'[e0].input = loc[r].input
    BY <1>1, <2>1, OwnRecord
  <2>3. loc[r].result = "completed" =>
          /\ e0 \in landed'
          /\ Intent(e0).external => permit'[e0] = "consumed"
    BY <1>1, <1>2 DEF SettlementInv, SettledOf
  <2>4. CompletedRests'
    <3> SUFFICES ASSUME NEW f \in Effects, journal'[f].status = "completed"
                 PROVE  /\ f \in landed'
                        /\ Intent(f).external => permit'[f] = "consumed"
      BY DEF CompletedRests, Intent, Effects
    <3>1. CASE f = e0
      BY <2>1, <2>3, <3>1
    <3>2. CASE f # e0
      BY <1>2, <2>1, <3>2 DEF SettlementInv
    <3> QED
      BY <3>1, <3>2
  <2>5. OnlyMoves(r) /\ SettledOf(r)'
    <3>1. CASE NextIntent(r, loc[r].ord + 1) /\ loc[r].result = "completed"
      <4>1. journal'[e0] = [status |-> "completed",
                            input |-> journal[e0].input]
        <5>1. CASE journal' = [journal EXCEPT ![e0].status = "completed"]
                     /\ journal[e0].status = "started"
          BY <1>1, <1>2, <5>1, StatusFacts
        <5>2. CASE UNCHANGED journal /\ journal[e0].status = "completed"
          <6>1. journal[e0] \in JournalRecord
            BY <1>1 DEF TypeOK, DocumentsOK
          <6> QED
            BY <5>2, <6>1 DEF JournalRecord
        <5> QED
          BY <1>5, <3>1, <5>1, <5>2
      <4>2. journal'[e0] = Done(loc[r].input)
        <5>1. journal[e0].input = loc[r].input
          BY <1>1, <2>1, OwnRecord
        <5> QED
          BY <4>1, <5>1 DEF Done
      <4>3. loc[r].ord + 1 \in Nat \ {0}
        BY DEF TypeOK, OccurrencesOK, Occurrence
      <4> QED
        BY <1>1, <2>1, <3>1, <4>2, <4>3, NextSettled, NextIntentGoes
        DEF TypeOK
    <3>2. CASE Goto(r, "consume") /\ loc[r].result # "completed"
      BY <1>1, <2>1, <3>2, GotoForward, LabelsApart
    <3>3. CASE Return(r) \/ Goto(r, "releaseCheck")
      BY <3>3, GotoAway
    <3> QED
      BY <1>5, <3>1, <3>2, <3>3 DEF AfterOutcome, Raise
  <2>6. \A q \in Runtimes : SettledOf(q)'
    BY <2>1, <2>5, OthersSettled
  <2>7. AdmittedEffectsSettled'
    BY <1>2, <2>1, AdmittedKept
  <2> QED
    BY <2>4, <2>6, <2>7, PartsNext
<1> QED
  BY <1>4, <1>5 DEF Complete

-----------------------------------------------------------------------------
(* The theorem                                                              *)

LEMMA InitSettlement == Init => SettlementInv
<1> SUFFICES ASSUME Init PROVE SettlementInv
  OBVIOUS
<1>1. \A r \in Runtimes : SettledOf(r)
  BY LabelsApart DEF Init, Idle, SettledOf
<1> QED
  BY <1>1
  DEF Init, SettlementInv, NoRecord, AdmittedEffectsSettled

LEMMA StutterSettlement == SettlementInv /\ UNCHANGED vars => SettlementInv'
BY DEF vars, docs, world, SettlementInv, SettledOf, AdmittedEffectsSettled,
       Current, Begun, Intent, Effects, EffectsOf

LEMMA NextSettlement ==
  TypeOK /\ DispatchInv /\ SettlementInv /\ [Next]_vars => SettlementInv'
<1> SUFFICES ASSUME TypeOK, DispatchInv, SettlementInv, Next
             PROVE  SettlementInv'
  BY StutterSettlement
<1>1. PICK r \in Runtimes :
        \/ \E t \in Turns, i \in Inputs : Submit(r, t, i)
        \/ Step(r) \/ Crash(r) \/ StoreFault(r)
  BY DEF Next
<1>2. CASE \/ \E t \in Turns, i \in Inputs : Submit(r, t, i)
           \/ ReadFenceRevision(r) \/ ReplayReceipt(r) \/ Decline(r)
           \/ Decide(r)
  BY <1>2, StartSettles
<1>3. CASE \/ ClaimRead(r) \/ AttachState(r) \/ AttachRecheck(r)
           \/ Reconcile(r) \/ ClaimPut(r) \/ ClaimVerify(r)
  BY <1>3, ClaimSettles
<1>4. CASE BeginRead(r) \/ BeginPut(r)
  BY <1>4, BeginSettles
<1>5. CASE \/ Mint(r) \/ HandlerRefused(r) \/ DispatchClaim(r)
           \/ GatePermit(r) \/ GateJournal(r) \/ GateFence(r)
           \/ GateRefused(r)
  BY <1>5, DispatchSettles
<1>6. CASE MintFail(r) \/ Call(r) \/ Consume(r) \/ Complete(r)
  BY <1>6, MintFailSettles, CallSettles, ConsumeSettles, CompleteSettles
<1>7. CASE \/ ReleaseCheck(r) \/ ReleaseRemove(r)
           \/ CommitRead(r) \/ CommitFence(r) \/ CommitPut(r)
           \/ CommitReread(r) \/ CommitFail(r) \/ Acknowledge(r)
  BY <1>7, CommitSettles
<1>8. CASE Crash(r) \/ StoreFault(r)
  BY <1>8, FailureSettles
<1> QED
  BY <1>1, <1>2, <1>3, <1>4, <1>5, <1>6, <1>7, <1>8 DEF Step

\* What an occurrence believes settled is settled, in every behaviour
\* (executeEffectIntents, completeEffect, commitAcceptedTransitionInLane).
THEOREM SettlementInvariant == Spec => []SettlementInv
BY InitSettlement, NextSettlement, TypeCorrect, DispatchInvariant, PTL
DEF Spec

\* A turn is admitted only over effects that are durably completed for the
\* input it was admitted with, each of which reached the resource, for any
\* number of runtimes, crashes and faults (executeEffectIntents,
\* commitAcceptedTransitionInLane).
THEOREM AdmittedSettledHolds == Spec => []AdmittedEffectsSettled
<1>1. SettlementInv => AdmittedEffectsSettled
  BY DEF SettlementInv
<1> QED
  BY <1>1, SettlementInvariant, PTL

\* An external effect is durably completed only under a permit that is dead,
\* so no later dispatch can ride it (consume before completeEffect).
THEOREM SettledPermitHolds == Spec => []SettledPermitDead
<1>1. SettlementInv => SettledPermitDead
  BY DEF SettlementInv, SettledPermitDead
<1> QED
  BY <1>1, SettlementInvariant, PTL

-----------------------------------------------------------------------------
(* The shapes of a step, as the journal and the resource see it             *)

\* A failure is called proven only by an occurrence that has not called, or
\* that called it so before.
ResultQuiet(r) ==
  loc'[r].pc \in {"consume", "complete"} /\ loc'[r].result = "failedZero" =>
    /\ loc[r].pc \in Exec /\ Current(r)' = Current(r)
    /\ \/ loc[r].pc \in BeforeCall /\ loc[r].pc # "mintFail"
       \/ /\ loc[r].pc \in {"consume", "complete"}
          /\ loc[r].result = "failedZero"

Creates(r) ==
  /\ loc[r].pc = "beginPut" /\ ~Begun(Current(r))
  /\ journal' = [journal EXCEPT ![Current(r)] =
                   [status |-> "started", input |-> loc[r].input]]
  /\ UNCHANGED <<calls, landed>>
  /\ loc'[r].pc \in {"mint", "call"} /\ Current(r)' = Current(r)

Leaves(r) == CreatorQuiet(r) /\ UNCHANGED <<journal, calls, landed>>

Settles(r) ==
  /\ loc[r].pc \in {"mintFail", "complete"}
  /\ journal[Current(r)].status = "started"
  /\ journal' = [journal EXCEPT ![Current(r)].status =
                   IF loc[r].pc = "mintFail" THEN "failedZero"
                                             ELSE loc[r].result]
  /\ loc'[r].pc \notin BeforeCall
  /\ CreatorQuiet(r) /\ UNCHANGED <<calls, landed>>

Spends(r) ==
  /\ loc[r].pc = "call"
  /\ calls' = [calls EXCEPT ![Current(r)] = IF @ < 2 THEN @ + 1 ELSE 2]
  /\ landed' \in {landed, landed \cup {Current(r)}}
  /\ loc'[r].pc \in {"consume", "complete"} /\ loc'[r].result # "failedZero"
  /\ CreatorQuiet(r) /\ UNCHANGED <<journal, receipts>>

Shape(r) ==
  /\ OnlyMoves(r) /\ ResultQuiet(r)
  /\ Creates(r) \/ Leaves(r) \/ Settles(r) \/ Spends(r)

\* A step that ends away from consume and complete reports nothing.
LEMMA AwayShape ==
  ASSUME NEW r \in Runtimes, Quiet(r), UNCHANGED <<journal, calls, landed>>,
         loc'[r].pc \notin {"consume", "complete"}
  PROVE  Shape(r)
BY DEF Shape, Quiet, ResultQuiet, Leaves

LEMMA OutsideShape ==
  ASSUME TypeOK, NEW r \in Runtimes,
         \/ \E t \in Turns, i \in Inputs : Submit(r, t, i)
         \/ ReadFenceRevision(r) \/ ReplayReceipt(r) \/ Decline(r)
         \/ Decide(r)
         \/ ClaimRead(r) \/ AttachState(r) \/ AttachRecheck(r)
         \/ Reconcile(r) \/ ClaimPut(r) \/ ClaimVerify(r)
         \/ ReleaseCheck(r) \/ ReleaseRemove(r)
         \/ CommitRead(r) \/ CommitFence(r) \/ CommitPut(r)
         \/ CommitReread(r) \/ CommitFail(r) \/ Acknowledge(r)
  PROVE  Shape(r)
<1>1. CASE \/ \E t \in Turns, i \in Inputs : Submit(r, t, i)
           \/ ReadFenceRevision(r) \/ ReplayReceipt(r) \/ Decline(r)
           \/ Decide(r)
  <2>1. UNCHANGED <<journal, calls, landed>>
    BY <1>1 DEF Submit, ReadFenceRevision, ReplayReceipt, Decline, Decide,
       docs, world
  <2> QED
    BY <1>1, <2>1, StartAway, StartGoes, AwayShape
<1>2. CASE \/ ClaimRead(r) \/ AttachState(r) \/ AttachRecheck(r)
           \/ Reconcile(r) \/ ClaimPut(r) \/ ClaimVerify(r)
  <2>1. UNCHANGED <<journal, calls, landed>>
    BY <1>2 DEF ClaimRead, AttachState, AttachRecheck, Reconcile, ClaimPut,
       ClaimVerify, docs, world
  <2>2. loc'[r].pc \notin {"consume", "complete"}
    BY <1>2, ClaimGoes, NextIntentGoes DEF TypeOK
  <2> QED
    BY <1>2, <2>1, <2>2, ClaimAway, AwayShape
<1>3. CASE \/ ReleaseCheck(r) \/ ReleaseRemove(r)
           \/ CommitRead(r) \/ CommitFence(r) \/ CommitPut(r)
           \/ CommitReread(r) \/ CommitFail(r) \/ Acknowledge(r)
  <2>1. UNCHANGED <<journal, calls, landed>>
    BY <1>3 DEF ReleaseCheck, ReleaseRemove, CommitRead, CommitFence,
       CommitPut, CommitReread, CommitFail, Acknowledge, docs, world
  <2>2. loc'[r].pc \notin {"consume", "complete"}
    BY <1>3, CommitGoes
  <2> QED
    BY <1>3, <2>1, <2>2, CommitAway, AwayShape
<1> QED
  BY <1>1, <1>2, <1>3

\* A refusal or a fault before the call.
LEMMA RefusedShape ==
  ASSUME TypeOK, NEW r \in Runtimes, Quiet(r),
         UNCHANGED <<journal, calls, landed>>,
         NEW zero \in BOOLEAN, ExecutorFailed(r, zero),
         loc[r].pc \in BeforeCall \ {"mintFail"}
  PROVE  Shape(r)
<1>1. Current(r)' = Current(r)
  BY ExecutorFailedGoes DEF TypeOK, Current
<1> QED
  BY <1>1, Labelled DEF Shape, Quiet, ResultQuiet, Leaves

LEMMA FailureShape ==
  ASSUME TypeOK, NEW r \in Runtimes, Crash(r) \/ StoreFault(r)
  PROVE  Shape(r)
<1>1. Quiet(r) /\ UNCHANGED <<journal, calls, landed>>
  BY FailureQuiet DEF Crash, StoreFault, docs, world
<1>2. {"releaseCheck", "mintFail", "commitFail"} \subseteq Labels
  BY DEF Labels, EffectLabels, ReleaseLabels, CommitLabels
<1>3. CASE \/ Return(r) \/ Goto(r, "releaseCheck") \/ Goto(r, "commitFail")
           \/ Goto(r, "mintFail")
  <2>1. loc'[r].pc \notin {"consume", "complete"}
    BY <1>2, <1>3, ReturnGoes, GotoGoes DEF TypeOK
  <2> QED
    BY <1>1, <2>1, AwayShape
<1>4. CASE /\ loc[r].pc \in {"dispatchClaim", "gatePermit", "gateJournal",
                             "gateFence"}
           /\ ExecutorFailed(r, FALSE)
  <2>1. loc[r].pc \in BeforeCall \ {"mintFail"}
    BY <1>4 DEF BeforeCall
  <2> QED
    BY <1>1, <1>4, <2>1, RefusedShape
<1> QED
  BY <1>3, <1>4, FaultGoes

\* A record found by beginEffect leads nowhere near a report.
LEMMA ExistingShape ==
  ASSUME TypeOK, NEW r \in Runtimes, loc[r].pc \in {"beginRead", "beginPut"},
         UNCHANGED <<journal, calls, landed, claims>>,
         UseExisting(r, Current(r)) \/ Goto(r, "releaseCheck")
           \/ Goto(r, "beginPut")
  PROVE  Shape(r)
<1>1. {"releaseCheck", "mint", "call", "beginPut"} \subseteq Labels
  BY DEF Labels, ReleaseLabels, EffectLabels
<1>2. OccurrencesOK /\ loc[r].ord + 1 \in Nat \ {0} /\ GrantsStand
  BY GrantsUntouched DEF TypeOK, OccurrencesOK, Occurrence
<1>3. CASE Goto(r, "releaseCheck") \/ Goto(r, "beginPut")
  <2>1. loc'[r].pc \notin {"consume", "complete"} /\ Quiet(r)
    BY <1>1, <1>2, <1>3, GotoGoes, Away, Labelled
  <2> QED
    BY <2>1, AwayShape
<1>4. CASE UseExisting(r, Current(r))
  <2>1. \/ Return(r) \/ Goto(r, "releaseCheck") \/ Goto(r, "mint")
        \/ Goto(r, "call") \/ NextIntent(r, loc[r].ord + 1)
    BY <1>4 DEF UseExisting
  <2>2. loc'[r].pc \notin {"consume", "complete"}
    BY <1>1, <1>2, <2>1, GotoGoes, ReturnGoes, NextIntentGoes
  <2> QED
    BY <1>2, <1>4, <2>2, ExistingQuiet, AwayShape
<1> QED
  BY <1>3, <1>4

LEMMA BeginShape ==
  ASSUME TypeOK, NEW r \in Runtimes, BeginRead(r) \/ BeginPut(r)
  PROVE  Shape(r)
<1>1. loc[r].pc \in {"beginRead", "beginPut"} /\ UNCHANGED <<calls, landed, claims>>
  BY DEF BeginRead, BeginPut, At, docs, world
<1>2. CASE /\ loc[r].pc = "beginPut" /\ ~Begun(Current(r))
           /\ journal' = [journal EXCEPT ![Current(r)] =
                            [status |-> "started", input |-> loc[r].input]]
           /\ Goto(r, IF Intent(Current(r)).external THEN "mint" ELSE "call")
  <2>1. {"mint", "call"} \subseteq Labels
    BY DEF Labels, EffectLabels
  <2>2. PICK l \in {"mint", "call"} : Goto(r, l)
    BY <1>2
  <2>3. /\ OnlyMoves(r) /\ loc'[r].pc \in {"mint", "call"}
        /\ Current(r)' = Current(r)
    BY <2>1, <2>2, GotoGoes DEF TypeOK, Current
  <2> QED
    BY <1>1, <1>2, <2>3 DEF Shape, Creates, ResultQuiet
<1>3. CASE /\ UNCHANGED journal
           /\ \/ UseExisting(r, Current(r)) \/ Goto(r, "releaseCheck")
              \/ Goto(r, "beginPut")
  BY <1>1, <1>3, ExistingShape
<1> QED
  BY <1>2, <1>3 DEF BeginRead, BeginPut, At, docs

\* Between the record and the call nothing is settled.
LEMMA GateShape ==
  ASSUME TypeOK, OutcomeInv, NEW r \in Runtimes,
         \/ Mint(r) \/ HandlerRefused(r) \/ DispatchClaim(r)
         \/ GatePermit(r) \/ GateJournal(r) \/ GateFence(r) \/ GateRefused(r)
  PROVE  Shape(r)
<1>1. UNCHANGED <<journal, calls, landed>>
  BY DEF Mint, HandlerRefused, RefusedBeforeAdapter, DispatchClaim,
         GatePermit, GateJournal, GateFence, GateRefused, docs, world
<1>2. loc[r].pc \in BeforeCall \ {"mintFail"} /\ loc[r].pc \in Exec
  BY Labelled
  DEF Mint, HandlerRefused, DispatchClaim, GatePermit, GateJournal, GateFence,
      GateRefused, At, BeforeCall
<1>3. \/ \E l \in {"mintFail", "dispatchClaim", "gatePermit", "gateJournal",
                   "gateFence", "call"} : Goto(r, l)
      \/ \E zero \in BOOLEAN : ExecutorFailed(r, zero)
  BY DEF Mint, HandlerRefused, RefusedBeforeAdapter, DispatchClaim,
         GatePermit, GateJournal, GateFence, GateRefused
<1>4. OnlyMoves(r) /\ CreatorQuiet(r)
  <2>1. ASSUME NEW l \in {"mintFail", "dispatchClaim", "gatePermit",
                          "gateJournal", "gateFence", "call"}, Goto(r, l)
        PROVE  OnlyMoves(r) /\ CreatorQuiet(r)
    <3>1. OnlyMoves(r) /\ loc'[r].turn = loc[r].turn /\ loc'[r].ord = loc[r].ord
      BY <2>1, Labelled, GotoGoes DEF TypeOK
    <3> QED
      BY <1>2, <3>1 DEF CreatorQuiet, Executing, Current, Exec
  <2>2. ASSUME NEW zero \in BOOLEAN, ExecutorFailed(r, zero)
        PROVE  OnlyMoves(r) /\ CreatorQuiet(r)
    <3>1. OnlyMoves(r) /\ loc'[r].turn = loc[r].turn /\ loc'[r].ord = loc[r].ord
      BY <2>2, ExecutorFailedGoes DEF TypeOK
    <3> QED
      BY <1>2, <3>1 DEF CreatorQuiet, Executing, Current, Exec
  <2> QED
    BY <1>3, <2>1, <2>2
<1>5. ResultQuiet(r)
  <2>1. Current(r)' = Current(r)
    BY <1>3, Labelled, GotoGoes, ExecutorFailedGoes DEF TypeOK, Current
  <2> QED
    BY <1>2, <2>1 DEF ResultQuiet
<1> QED
  BY <1>1, <1>4, <1>5 DEF Shape, Leaves

LEMMA CallShape ==
  ASSUME TypeOK, NEW r \in Runtimes, Call(r)
  PROVE  Shape(r)
<1>1. /\ loc[r].pc = "call" /\ loc[r].pc \in BeforeCall /\ loc[r].pc \in Exec
      /\ loc \in [Runtimes -> Occurrence]
      /\ calls' = [calls EXCEPT ![Current(r)] = IF @ < 2 THEN @ + 1 ELSE 2]
      /\ landed' \in {landed, landed \cup {Current(r)}}
      /\ UNCHANGED <<journal, receipts>>
  BY Labelled DEF Call, At, BeforeCall, TypeOK, OccurrencesOK, docs
<1>2. /\ OnlyMoves(r)
      /\ loc'[r].pc \in {"consume", "complete"}
      /\ loc'[r].result # "failedZero"
      /\ loc'[r].turn = loc[r].turn /\ loc'[r].ord = loc[r].ord
  <2>1. CASE ExecutorFailed(r, FALSE)
    <3>1. loc'[r].result = "failed"
      BY <1>1, <2>1 DEF ExecutorFailed, Occurrence
    <3> QED
      BY <2>1, <3>1, ExecutorFailedGoes DEF TypeOK
  <2>2. CASE loc' = [loc EXCEPT ![r].pc = IF Intent(Current(r)).external
                                            THEN "consume" ELSE "complete",
                                ![r].result = "completed"]
    BY <1>1, <2>2 DEF OnlyMoves, Occurrence
  <2> QED
    BY <2>1, <2>2 DEF Call
<1>3. CreatorQuiet(r)
  <2>1. loc'[r].pc \notin BeforeCall
    BY <1>2 DEF BeforeCall
  <2> QED
    BY <1>1, <1>2, <2>1 DEF CreatorQuiet, Executing, Current, Exec
<1>4. ResultQuiet(r)
  BY <1>2 DEF ResultQuiet
<1> QED
  BY <1>1, <1>2, <1>3, <1>4 DEF Shape, Spends

LEMMA SettleShape ==
  ASSUME TypeOK, OutcomeInv, NEW r \in Runtimes,
         MintFail(r) \/ Consume(r) \/ Complete(r)
  PROVE  Shape(r)
<1>1. /\ Quiet(r) /\ UNCHANGED <<calls, landed>>
      /\ OccurrencesOK
  BY EffectQuiet DEF MintFail, Consume, Complete, world, TypeOK
<1>2. /\ loc[r].pc \in {"mintFail", "consume", "complete"}
      /\ loc[r].pc \in Exec
  BY Labelled DEF MintFail, Consume, Complete, At
<1>3. /\ {"releaseCheck", "consume", "complete"} \subseteq Labels
      /\ {"releaseCheck", "consume", "complete", "idle", "beginRead",
          "commitRead"} \cap BeforeCall = {}
  BY DEF Labels, EffectLabels, ReleaseLabels, BeforeCall
<1>4. \/ Return(r) \/ Goto(r, "releaseCheck")
      \/ /\ Goto(r, "consume") \/ Goto(r, "complete")
         /\ loc[r].pc \in {"consume", "complete"}
      \/ NextIntent(r, loc[r].ord + 1)
  BY <1>2 DEF MintFail, Consume, Complete, AfterOutcome, Raise, At
<1>5. loc[r].ord + 1 \in Nat \ {0}
  BY <1>1 DEF OccurrencesOK, Occurrence
<1>6. loc'[r].pc \notin BeforeCall /\ ResultQuiet(r)
  <2>1. CASE \/ Return(r) \/ Goto(r, "releaseCheck")
             \/ NextIntent(r, loc[r].ord + 1)
    <3>1. loc'[r].pc \in {"idle", "releaseCheck", "beginRead", "commitRead"}
      BY <1>1, <1>3, <1>5, <2>1, ReturnGoes, GotoGoes, NextIntentGoes
    <3> QED
      BY <1>3, <3>1 DEF ResultQuiet
  <2>2. ASSUME NEW l \in {"consume", "complete"}, Goto(r, l),
               loc[r].pc \in {"consume", "complete"}
        PROVE  loc'[r].pc \notin BeforeCall /\ ResultQuiet(r)
    <3>1. /\ loc'[r].pc = l /\ loc'[r].result = loc[r].result
          /\ Current(r)' = Current(r)
      BY <1>1, <1>3, <2>2, GotoGoes DEF Current
    <3> QED
      BY <1>2, <1>3, <2>2, <3>1 DEF ResultQuiet
  <2> QED
    BY <1>4, <2>1, <2>2
<1>7. \/ UNCHANGED journal
      \/ /\ loc[r].pc \in {"mintFail", "complete"}
         /\ journal[Current(r)].status = "started"
         /\ journal' = [journal EXCEPT ![Current(r)].status =
                          IF loc[r].pc = "mintFail" THEN "failedZero"
                                                    ELSE loc[r].result]
  BY DEF MintFail, Consume, Complete, At
<1> QED
  BY <1>1, <1>6, <1>7 DEF Shape, Quiet, Leaves, Settles

LEMMA StepShape ==
  ASSUME TypeOK, OutcomeInv, Next
  PROVE  \E r \in Runtimes : Shape(r)
<1>1. PICK r \in Runtimes :
        \/ \E t \in Turns, i \in Inputs : Submit(r, t, i)
        \/ Step(r) \/ Crash(r) \/ StoreFault(r)
  BY DEF Next
<1>2. CASE \/ BeginRead(r) \/ BeginPut(r)
  BY <1>2, BeginShape
<1>3. CASE \/ Mint(r) \/ HandlerRefused(r) \/ DispatchClaim(r)
           \/ GatePermit(r) \/ GateJournal(r) \/ GateFence(r)
           \/ GateRefused(r)
  BY <1>3, GateShape
<1>4. CASE Call(r)
  BY <1>4, CallShape
<1>5. CASE MintFail(r) \/ Consume(r) \/ Complete(r)
  BY <1>5, SettleShape
<1>6. CASE Crash(r) \/ StoreFault(r)
  BY <1>6, FailureShape
<1> QED
  BY <1>1, <1>2, <1>3, <1>4, <1>5, <1>6, OutsideShape DEF Step

-----------------------------------------------------------------------------
(* Order, settlement and the proof of zero effect                           *)

\* What becomes of a journal record in a step of r.
LEMMA RecordMoves ==
  ASSUME TypeOK, OutcomeInv, NEW r \in Runtimes, Shape(r), NEW e \in Effects
  PROVE  \/ journal'[e] = journal[e]
         \/ /\ e = Current(r) /\ Creates(r) /\ ~Begun(e)
            /\ journal'[e] = [status |-> "started", input |-> loc[r].input]
         \/ /\ e = Current(r) /\ Settles(r) /\ loc[r].pc \in Exec
            /\ journal[e].status = "started"
            /\ journal'[e] = [status |-> IF loc[r].pc = "mintFail"
                                           THEN "failedZero"
                                           ELSE loc[r].result,
                              input |-> journal[e].input]
<1>1. journal \in [Effects -> JournalRecord] /\ journal[e] \in JournalRecord
  BY DEF TypeOK, DocumentsOK
<1>2. CASE Creates(r)
  BY <1>1, <1>2 DEF Creates
<1>3. CASE Leaves(r) \/ Spends(r)
  BY <1>3 DEF Leaves, Spends
<1>4. CASE Settles(r)
  <2> DEFINE s == IF loc[r].pc = "mintFail" THEN "failedZero"
                                            ELSE loc[r].result
  <2>1. /\ journal' = [journal EXCEPT ![Current(r)].status = s]
        /\ journal[Current(r)].status = "started"
        /\ loc[r].pc \in Exec
    BY <1>4, Labelled DEF Settles
  <2>2. CASE e # Current(r)
    BY <1>1, <2>1, <2>2
  <2>3. CASE e = Current(r)
    <3>1. journal'[e] = [journal[e] EXCEPT !.status = s]
      BY <1>1, <2>1, <2>3
    <3>2. journal'[e] = [status |-> s, input |-> journal[e].input]
      BY <1>1, <3>1 DEF JournalRecord
    <3> QED
      BY <1>4, <2>1, <2>3, <3>2
  <2> QED
    BY <2>2, <2>3
<1> QED
  BY <1>2, <1>3, <1>4 DEF Shape

\* A record settled once is settled for good, and its input never changes.
LEMMA OutcomeStands ==
  ASSUME TypeOK, OutcomeInv, NEW r \in Runtimes, Shape(r), NEW e \in Effects
  PROVE  /\ journal[e].status \in Outcomes => journal'[e] = journal[e]
         /\ Begun(e) => journal'[e].input = journal[e].input
         /\ Begun(e) => Begun(e)'
<1>1. Settles(r) /\ loc[r].pc # "mintFail" => loc[r].result \in Outcomes
  BY DEF Settles, OutcomeInv
<1>2. CASE journal'[e] = journal[e]
  BY <1>2 DEF Begun
<1>3. CASE ~Begun(e)
  BY <1>3 DEF Begun, Outcomes
<1>4. ASSUME NEW s \in Outcomes, journal[e].status = "started",
             journal'[e] = [status |-> s, input |-> journal[e].input]
      PROVE  /\ journal[e].status \notin Outcomes
             /\ journal'[e].input = journal[e].input
             /\ Begun(e)'
  BY <1>4 DEF Outcomes, Begun
<1>5. CASE /\ journal[e].status = "started" /\ Settles(r)
           /\ journal'[e] = [status |-> IF loc[r].pc = "mintFail"
                                          THEN "failedZero"
                                          ELSE loc[r].result,
                             input |-> journal[e].input]
  <2>1. CASE loc[r].pc = "mintFail"
    BY <1>4, <1>5, <2>1 DEF Outcomes
  <2>2. CASE loc[r].pc # "mintFail"
    BY <1>1, <1>4, <1>5, <2>2
  <2> QED
    BY <2>1, <2>2
<1> QED
  BY <1>2, <1>3, <1>5, RecordMoves

\* The intents before one that is begun are completed.
LEMMA OrderKept ==
  ASSUME TypeOK, OutcomeInv, SettlementInv, IntentsInOrder,
         NEW r \in Runtimes, Shape(r)
  PROVE  IntentsInOrder'
<1> SUFFICES ASSUME NEW t \in Turns, NEW n \in 2..Len(Intents[t]),
                    Begun(<<t, n>>)'
             PROVE  journal'[<<t, n - 1>>].status = "completed"
  BY DEF IntentsInOrder
<1>1. /\ Len(Intents[t]) \in Nat
      /\ <<t, n>> \in Effects /\ <<t, n - 1>> \in Effects
  <2>1. Len(Intents[t]) \in Nat
    BY IntentCount
  <2> QED
    BY <2>1, EffectIs
<1>2. journal[<<t, n - 1>>].status = "completed"
  <2>1. CASE Begun(<<t, n>>)
    BY <2>1 DEF IntentsInOrder
  <2>2. CASE ~Begun(<<t, n>>)
    <3>1. <<t, n>> = Current(r) /\ loc[r].pc = "beginPut"
      BY <1>1, <2>2, RecordMoves DEF Begun, Creates
    <3>2. loc[r].turn = t /\ loc[r].ord = n
      BY <3>1 DEF Current
    <3>3. n - 1 \in 1..(loc[r].ord - 1) /\ loc[r].pc \in EffectLabels
      BY <1>1, <3>1, <3>2 DEF EffectLabels
    <3>4. SettledOf(r)
      BY DEF SettlementInv
    <3>5. \A m \in 1..(loc[r].ord - 1) :
            journal[<<loc[r].turn, m>>].status = "completed"
      BY <3>3, <3>4 DEF SettledOf
    <3> QED
      BY <3>2, <3>3, <3>5
  <2> QED
    BY <2>1, <2>2
<1> QED
  BY <1>1, <1>2, OutcomeStands DEF Outcomes

LEMMA LandedKept ==
  ASSUME TypeOK, LandedInv, NEW r \in Runtimes, Shape(r)
  PROVE  LandedInv'
<1>1. CASE UNCHANGED <<calls, landed>>
  BY <1>1 DEF LandedInv
<1>2. CASE Spends(r)
  <2>1. calls \in [Effects -> 0..2] /\ landed \subseteq Effects
        /\ Current(r) \in Effects
    BY <1>2, LabelsApart, Labelled
    DEF Spends, TypeOK, ObservedOK, OccurrencesOK, BeforeCall
  <2>2. \A e \in Effects : calls[e] # 0 => calls'[e] # 0
    BY <1>2, <2>1 DEF Spends
  <2>3. calls'[Current(r)] # 0
    BY <1>2, <2>1 DEF Spends
  <2> QED
    BY <1>2, <2>1, <2>2, <2>3 DEF Spends, LandedInv
<1> QED
  BY <1>1, <1>2 DEF Shape, Creates, Leaves, Settles

\* Who executes a non-idempotent effect after the step executed it before,
\* or has just created its record.
LEMMA ExecutorBefore ==
  ASSUME NEW r \in Runtimes, Shape(r), NEW e \in Effects,
         ~Intent(e).idempotent, NEW q \in Runtimes, Executing(q, e)'
  PROVE  \/ /\ Executing(q, e)
            /\ loc'[q].pc \in BeforeCall => loc[q].pc \in BeforeCall
         \/ q = r /\ Creates(r) /\ e = Current(r)
<1>1. CASE q # r
  BY <1>1, OthersExecute DEF Shape
<1>2. CASE q = r /\ CreatorQuiet(r)
  BY <1>2 DEF CreatorQuiet
<1>3. CASE q = r /\ Creates(r)
  BY <1>3 DEF Creates, Executing, Current
<1> QED
  BY <1>1, <1>2, <1>3 DEF Shape, Leaves, Settles, Spends

LEMMA ProvenKept ==
  ASSUME TypeOK, DispatchInv, ProvenInv, NEW r \in Runtimes, Shape(r)
  PROVE  ProvenInv'
<1> SUFFICES ASSUME NEW e \in Effects, ~Intent(e).idempotent
             PROVE  /\ journal'[e].status = "failedZero" => calls'[e] = 0
                    /\ \A q \in Runtimes : Executing(q, e)' =>
                         /\ loc'[q].pc \in BeforeCall
                              => journal'[e].status = "started"
                         /\ /\ loc'[q].pc \in {"consume", "complete"}
                            /\ loc'[q].result = "failedZero"
                            => calls'[e] = 0
  BY DEF ProvenInv, Intent, Effects
<1>1. /\ journal[e].status = "failedZero" => calls[e] = 0
      /\ \A q \in Runtimes : Executing(q, e) =>
           /\ loc[q].pc \in BeforeCall => journal[e].status = "started"
           /\ loc[q].pc \in BeforeCall => calls[e] = 0
           /\ /\ loc[q].pc \in {"consume", "complete"}
              /\ loc[q].result = "failedZero"
              => calls[e] = 0
           /\ Begun(e)
           /\ \A p \in Runtimes : Executing(p, e) => p = q
  BY DEF ProvenInv, DispatchInv, CreatorInv
<1>2. OutcomeInv /\ OnlyMoves(r) /\ ResultQuiet(r)
  BY DEF DispatchInv, Shape
<1>3. loc[r].pc \in Exec => (Executing(r, e) <=> e = Current(r))
  BY DEF Exec, Executing
<1>4. calls'[e] = calls[e] \/ (Spends(r) /\ e = Current(r))
  BY DEF Shape, Creates, Leaves, Settles, Spends, TypeOK, ObservedOK
<1>5. Spends(r) => loc[r].pc \in Exec /\ loc[r].pc \in BeforeCall
  BY Labelled DEF Spends, BeforeCall
<1>6. ASSUME journal'[e].status = "failedZero"
      PROVE  calls'[e] = 0
  <2>1. CASE journal'[e] = journal[e]
    BY <1>1, <1>3, <1>4, <1>5, <1>6, <2>1
  <2>2. CASE /\ e = Current(r) /\ Settles(r) /\ loc[r].pc \in Exec
             /\ loc[r].pc = "mintFail" \/ loc[r].result = "failedZero"
    <3>1. Executing(r, e) /\ ~Spends(r)
      BY <1>3, <2>2 DEF Settles, Spends
    <3>2. calls[e] = 0
      BY <1>1, <2>2, <3>1 DEF Settles, BeforeCall
    <3> QED
      BY <1>4, <3>1, <3>2
  <2>3. ASSUME Settles(r), loc[r].pc \in Exec, e = Current(r),
               journal'[e] = [status |-> IF loc[r].pc = "mintFail"
                                           THEN "failedZero"
                                           ELSE loc[r].result,
                              input |-> journal[e].input]
        PROVE  calls'[e] = 0
    <3>1. journal'[e].status = IF loc[r].pc = "mintFail" THEN "failedZero"
                                                          ELSE loc[r].result
      BY <2>3
    <3> QED
      BY <1>6, <2>2, <2>3, <3>1
  <2>4. journal'[e] # [status |-> "started", input |-> loc[r].input]
    BY <1>6
  <2> QED
    BY <1>2, <2>1, <2>3, <2>4, RecordMoves
<1>7. ASSUME NEW q \in Runtimes, Executing(q, e)', loc'[q].pc \in BeforeCall
      PROVE  journal'[e].status = "started"
  <2>1. CASE Executing(q, e) /\ loc[q].pc \in BeforeCall
    <3>1. journal[e].status = "started" /\ Begun(e)
      BY <1>1, <2>1
    <3>2. ~(Settles(r) /\ e = Current(r) /\ loc[r].pc \in Exec)
      <4> SUFFICES ASSUME Settles(r), Executing(r, e) PROVE FALSE
        BY <1>3
      <4>1. q = r
        BY <1>1, <2>1
      <4> QED
        BY <1>7, <4>1 DEF Settles
    <3> QED
      BY <1>2, <3>1, <3>2, RecordMoves
  <2>2. CASE q = r /\ Creates(r) /\ e = Current(r)
    BY <2>2 DEF Creates, TypeOK, DocumentsOK
  <2> QED
    BY <1>7, <2>1, <2>2, ExecutorBefore
<1>8. ASSUME NEW q \in Runtimes, Executing(q, e)',
             loc'[q].pc \in {"consume", "complete"},
             loc'[q].result = "failedZero"
      PROVE  calls'[e] = 0
  <2>1. CASE q = r
    <3>1. Executing(r, e)
      <4>1. loc[r].pc \in Exec /\ Current(r)' = Current(r)
        BY <1>2, <1>8, <2>1 DEF ResultQuiet
      <4> QED
        BY <1>3, <1>8, <2>1, <4>1 DEF Executing
    <3>2. ~Spends(r)
      BY <1>8, <2>1 DEF Spends
    <3>3. calls[e] = 0
      BY <1>1, <1>2, <1>8, <2>1, <3>1 DEF ResultQuiet
    <3> QED
      BY <1>4, <3>2, <3>3
  <2>2. CASE q # r
    <3>1. Executing(q, e) /\ loc'[q] = loc[q]
      BY <1>2, <1>8, <2>2, OthersExecute
    <3>2. ~(Spends(r) /\ e = Current(r))
      BY <1>1, <1>3, <1>5, <2>2, <3>1
    <3> QED
      BY <1>1, <1>4, <1>8, <3>1, <3>2
  <2> QED
    BY <2>1, <2>2
<1> QED
  BY <1>6, <1>7, <1>8

LEMMA InitOrder == Init => IntentsInOrder /\ ProvenInv /\ LandedInv
<1> SUFFICES ASSUME Init PROVE IntentsInOrder /\ ProvenInv /\ LandedInv
  OBVIOUS
<1>1. \A e \in Effects : journal[e].status = "none" /\ calls[e] = 0
  BY DEF Init, NoRecord
<1>2. \A r \in Runtimes : \A e : ~Executing(r, e)
  BY DEF Init, Idle, Executing, EffectLabels
<1>3. IntentsInOrder
  <2> SUFFICES ASSUME NEW t \in Turns, NEW n \in 2..Len(Intents[t])
               PROVE  ~Begun(<<t, n>>)
    BY DEF IntentsInOrder
  <2>1. Len(Intents[t]) \in Nat
    BY IntentCount
  <2>2. <<t, n>> \in Effects
    BY <2>1, EffectIs
  <2> QED
    BY <1>1, <2>2 DEF Begun
<1> QED
  BY <1>1, <1>2, <1>3 DEF Init, ProvenInv, LandedInv

LEMMA NextOrder ==
  /\ TypeOK /\ DispatchInv /\ SettlementInv
  /\ IntentsInOrder /\ ProvenInv /\ LandedInv /\ [Next]_vars
  => IntentsInOrder' /\ ProvenInv' /\ LandedInv'
<1> SUFFICES ASSUME TypeOK, DispatchInv, SettlementInv, IntentsInOrder,
                    ProvenInv, LandedInv, [Next]_vars
             PROVE  IntentsInOrder' /\ ProvenInv' /\ LandedInv'
  OBVIOUS
<1>1. CASE Next
  <2>1. OutcomeInv
    BY DEF DispatchInv
  <2>2. PICK r \in Runtimes : Shape(r)
    BY <1>1, <2>1, StepShape
  <2> QED
    BY <2>1, <2>2, OrderKept, ProvenKept, LandedKept
<1>2. CASE UNCHANGED vars
  <2>1. UNCHANGED <<journal, calls, landed, loc>>
    BY <1>2 DEF vars, docs, world
  <2>2. IntentsInOrder'
    BY <2>1 DEF IntentsInOrder, Begun
  <2>3. ProvenInv'
    BY <2>1 DEF ProvenInv, Executing, Current, Intent, Effects
  <2>4. LandedInv'
    BY <2>1 DEF LandedInv
  <2> QED
    BY <2>2, <2>3, <2>4
<1> QED
  BY <1>1, <1>2

LEMMA OrderInvariant == Spec => [](IntentsInOrder /\ ProvenInv /\ LandedInv)
BY InitOrder, NextOrder, TypeCorrect, DispatchInvariant, SettlementInvariant,
   PTL DEF Spec

\* The intents of a turn run strictly in order: an effect is begun only after
\* the one before it completed durably, by whichever runtime, attachment or
\* restart (executeEffectIntents, KernelDurableEffectJournal.beginEffect).
THEOREM IntentsKeepOrder == Spec => []IntentsInOrder
BY OrderInvariant, PTL

\* A durable failure that bears the zero-external-effect mark tells the truth
\* of a non-idempotent effect: no adapter was ever called for it, whoever
\* reported it and whatever raced (executeEffectIntents, completeEffect).
THEOREM ZeroEffectIsTrue == Spec => []ZeroProofNonIdempotent
<1>1. ProvenInv => ZeroProofNonIdempotent
  BY DEF ProvenInv, ZeroProofNonIdempotent
<1> QED
  BY <1>1, OrderInvariant, PTL

\* An outcome journaled once is never replaced, and a begun record keeps the
\* input it was begun with, however many completions race
\* (KernelDurableEffectJournal.completeEffect).
THEOREM OutcomesStand == Spec => SettledOutcomeStands
<1> DEFINE A == \A e \in Effects :
                  /\ journal[e].status \in {"completed", "failed",
                                            "failedZero"}
                       => journal'[e] = journal[e]
                  /\ Begun(e) => journal'[e].input = journal[e].input
<1>1. TypeOK /\ DispatchInv /\ [Next]_vars => [A]_journal
  <2> SUFFICES ASSUME TypeOK, DispatchInv, [Next]_vars PROVE [A]_journal
    OBVIOUS
  <2>1. CASE Next
    <3>1. OutcomeInv
      BY DEF DispatchInv
    <3>2. PICK r \in Runtimes : Shape(r)
      BY <2>1, <3>1, StepShape
    <3> QED
      BY <3>1, <3>2, OutcomeStands DEF Outcomes
  <2>2. CASE UNCHANGED vars
    BY <2>2 DEF vars, docs
  <2> QED
    BY <2>1, <2>2
<1> QED
  BY <1>1, TypeCorrect, DispatchInvariant, PTL DEF Spec, SettledOutcomeStands

-----------------------------------------------------------------------------
(* Admission implements OnceOnly                                            *)

\* What OnceOnly sees of a step.
Unseen == UNCHANGED <<stateRev, receipts, calls, acks>>

\* The adapter of a guarded effect is about to be called for the first time,
\* and its turn is not admitted: the resource would have changed before.
LEMMA CallIsDispatch ==
  ASSUME TypeOK, DispatchInv, SettlementInv, LandedInv,
         NEW r \in Runtimes, Call(r)
  PROVE  Promise!Next
<1> DEFINE e == Current(r)
<1>1. /\ loc[r].pc = "call" /\ loc[r].pc \in BeforeCall
      /\ loc[r].pc \in PastClaim
      /\ Executing(r, e)
      /\ e \in Effects
  BY DEF Call, At, BeforeCall, PastClaim, Executing, EffectLabels, TypeOK,
         OccurrencesOK
<1>2. e \in Guarded => calls[e] = 0
  BY <1>1 DEF Guarded, DispatchInv, CreatorInv, ClaimInv
<1>3. /\ loc[r].turn \in Turns
      /\ e[1] = loc[r].turn /\ e \in EffectsOf(e[1])
  <2>1. loc[r].turn \in Turns /\ loc[r].ord \in 1..Len(Intents[loc[r].turn])
    BY <1>1, LabelsApart, Labelled, Earlier
  <2> QED
    BY <2>1 DEF EffectsOf, Current
<1>4. e \in Guarded => receipts[e[1]] = NoReceipt
  BY <1>2, <1>3 DEF LandedInv, SettlementInv, AdmittedEffectsSettled
<1>5. /\ calls' = [calls EXCEPT ![e] = IF @ < 2 THEN @ + 1 ELSE 2]
      /\ UNCHANGED <<stateRev, receipts, acks>>
  BY DEF Call, docs
<1>6. Promise!Dispatch(e)
  BY <1>2, <1>4, <1>5 DEF Promise!Dispatch
<1> QED
  BY <1>1, <1>6 DEF Promise!Next

\* The revision CAS lands only on the snapshot that showed no receipt.
LEMMA CommitIsAdmit ==
  ASSUME TypeOK, AdmissionInv, NEW r \in Runtimes, CommitPut(r)
  PROVE  Promise!Next \/ Unseen
<1>1. CASE stateRev # loc[r].snapRev
  BY <1>1 DEF CommitPut, world, Unseen
<1>2. CASE stateRev = loc[r].snapRev
  <2> DEFINE t == loc[r].turn
             i == loc[r].input
  <2>1. ~At(r, "idle") /\ PastLadder(r)
    BY DEF CommitPut, At, PastLadder
  <2>2. t \in Turns /\ i \in Inputs
    BY <2>1 DEF TypeOK, OccurrencesOK
  <2>3. receipts[t] = NoReceipt
    BY <1>2, <2>1 DEF AdmissionInv, SnapshotInv, SnapshotOf
  <2>4. /\ stateRev' = stateRev + 1
        /\ receipts' = [receipts EXCEPT ![t] =
                          [rev |-> stateRev + 1, input |-> i]]
        /\ UNCHANGED <<calls, acks>>
    BY <1>2 DEF CommitPut, world
  <2>5. Promise!Admit(t, i)
    BY <2>3, <2>4 DEF Promise!Admit
  <2> HIDE DEF t, i
  <2> QED
    BY <2>2, <2>5 DEF Promise!Next
<1> QED
  BY <1>1, <1>2

\* A replay and an acknowledgement tell the receipt the turn has.
LEMMA ReplyIsAnswer ==
  ASSUME TypeOK, AdmissionInv, NEW r \in Runtimes,
         ReplayReceipt(r) \/ Acknowledge(r)
  PROVE  Promise!Next \/ Unseen
<1>1. ASSUME NEW t \in Turns, receipts[t] # NoReceipt,
             acks' = acks \cup {Ack(t, receipts[t])},
             UNCHANGED <<stateRev, receipts, calls>>
      PROVE  Promise!Next
  <2>1. Promise!Answer(t)
    BY <1>1 DEF Promise!Answer, Ack
  <2> QED
    BY <2>1 DEF Promise!Next
<1>2. UNCHANGED <<stateRev, receipts, calls>>
  BY DEF ReplayReceipt, Acknowledge, world
<1>3. CASE ReplayReceipt(r)
  <2>1. /\ loc[r].turn \in Turns
        /\ LadderReceipt(r) = receipts[loc[r].turn]
        /\ LadderReceipt(r) # NoReceipt
    BY <1>3, LadderTruth DEF ReplayReceipt
  <2>2. CASE LadderReceipt(r).input = loc[r].input
    BY <1>1, <1>2, <1>3, <2>1, <2>2 DEF ReplayReceipt
  <2>3. CASE LadderReceipt(r).input # loc[r].input
    BY <1>2, <1>3, <2>3 DEF ReplayReceipt, Unseen
  <2> QED
    BY <2>2, <2>3
<1>4. CASE Acknowledge(r)
  <2> DEFINE receipt == [rev |-> loc[r].snapRev + 1, input |-> loc[r].input]
  <2>1. /\ loc[r].turn \in Turns
        /\ receipt = receipts[loc[r].turn]
    BY <1>4 DEF Acknowledge, At, TypeOK, OccurrencesOK, AdmissionInv,
                SnapshotInv, SnapshotOf
  <2>2. loc[r].snapRev + 1 # 0
    BY DEF TypeOK, OccurrencesOK, Occurrence
  <2>3. receipts[loc[r].turn] # NoReceipt
    BY <2>1, <2>2 DEF NoReceipt
  <2>4. acks' = acks \cup {Ack(loc[r].turn, receipt)}
    BY <1>4 DEF Acknowledge
  <2> QED
    BY <1>1, <1>2, <2>1, <2>3, <2>4
<1> QED
  BY <1>3, <1>4

\* Everything else happens behind the promise.
LEMMA RestUnseen ==
  ASSUME NEW r \in Runtimes,
         \/ \E t \in Turns, i \in Inputs : Submit(r, t, i)
         \/ Step(r) \/ Crash(r) \/ StoreFault(r),
         ~Call(r), ~CommitPut(r), ~ReplayReceipt(r), ~Acknowledge(r)
  PROVE  Unseen
BY DEF Step, Crash, StoreFault, Submit, docs, world, Unseen,
       ReadFenceRevision, Decline, Decide, ClaimRead, AttachState,
       AttachRecheck, Reconcile, ClaimPut, ClaimVerify, BeginRead, BeginPut,
       Mint, MintFail, HandlerRefused, RefusedBeforeAdapter, DispatchClaim,
       GatePermit, GateJournal, GateFence, GateRefused, Consume, Complete,
       ReleaseCheck, ReleaseRemove, CommitRead, CommitFence, CommitReread,
       CommitFail

\* The protocol with its fences, journals, permits, replays and crashes
\* implements the promise that knows nothing of them: each step admits one
\* new turn, dispatches one effect, answers with an original receipt, or is
\* unseen.
THEOREM AdmissionImplementsOnceOnly == Spec => ImplementsOnceOnly
<1>1. Init => Promise!Init
  BY DEF Init, Promise!Init
<1>2. /\ TypeOK /\ AdmissionInv /\ DispatchInv /\ SettlementInv /\ LandedInv
      /\ [Next]_vars
      => [Promise!Next]_(Promise!vars)
  <2> SUFFICES ASSUME TypeOK, AdmissionInv, DispatchInv, SettlementInv,
                      LandedInv, [Next]_vars
               PROVE  Promise!Next \/ Unseen
    BY DEF Promise!vars, Unseen
  <2>1. CASE UNCHANGED vars
    BY <2>1 DEF vars, docs, world, Unseen
  <2>2. CASE Next
    <3>1. PICK r \in Runtimes :
            \/ \E t \in Turns, i \in Inputs : Submit(r, t, i)
            \/ Step(r) \/ Crash(r) \/ StoreFault(r)
      BY <2>2 DEF Next
    <3> QED
      BY <3>1, CallIsDispatch, CommitIsAdmit, ReplyIsAnswer, RestUnseen
  <2> QED
    BY <2>1, <2>2
<1> QED
  BY <1>1, <1>2, TypeCorrect, AdmissionInvariant, DispatchInvariant,
     SettlementInvariant, OrderInvariant, PTL
  DEF Spec, ImplementsOnceOnly, Promise!Spec
=============================================================================
