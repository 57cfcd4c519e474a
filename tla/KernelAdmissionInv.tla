-------------------------- MODULE KernelAdmissionInv --------------------------
(***************************************************************************)
(* Inductive strengthenings of the safety properties of KernelAdmission:   *)
(* what an occurrence knows, at each label, of the documents it has read.  *)
(***************************************************************************)
EXTENDS KernelAdmission

\* The occurrence has been told that its turn was not admitted.
PastLadder(r) == loc[r].pc \notin {"idle", "readFence", "ladder"}

-----------------------------------------------------------------------------
(* Admission                                                                *)

ReceiptsInv ==
  /\ OnceOnlyAdmission
  /\ \A t \in Turns : receipts[t].rev = 0 => receipts[t] = NoReceipt

\* A snapshot is of the past: it shows the receipt of the turn if it shows
\* one at all, and as long as the instance has not moved it shows the truth.
SnapshotOf(r) ==
  /\ loc[r].snapRev <= stateRev
  /\ loc[r].snapReceipt # NoReceipt
       => loc[r].snapReceipt = receipts[loc[r].turn]
  /\ loc[r].snapRev = stateRev
       => loc[r].snapReceipt = receipts[loc[r].turn]
  /\ PastLadder(r) => loc[r].snapReceipt = NoReceipt
  /\ loc[r].pc \in {"commitReread", "disposition"}
       => receipts[loc[r].turn] = [rev |-> loc[r].snapRev + 1,
                                   input |-> loc[r].input]

SnapshotInv == \A r \in Runtimes : ~At(r, "idle") => SnapshotOf(r)

AnswerInv ==
  /\ \A t \in Turns : disp[t] # NoReceipt => disp[t] = receipts[t]
  /\ \A a \in acks : /\ receipts[a.turn] # NoReceipt
                     /\ a = Ack(a.turn, receipts[a.turn])

AdmissionInv == ReceiptsInv /\ SnapshotInv /\ AnswerInv

-----------------------------------------------------------------------------
(* Dispatch                                                                 *)

\* The occurrence has begun the effect and may still call or settle it.
Executing(r, e) ==
  /\ loc[r].pc \in EffectLabels \ {"beginRead", "beginPut"}
  /\ Current(r) = e

BeforeCall == {"mint", "mintFail", "dispatchClaim", "gatePermit",
               "gateJournal", "gateFence", "call"}
PastClaim  == {"gatePermit", "gateJournal", "gateFence", "call"}

\* A non-idempotent effect is executed by the occurrence that created its
\* journal record and by no other, and it is called once at most.
CreatorInv ==
  \A e \in Effects : ~Intent(e).idempotent =>
    /\ ~Begun(e) => calls[e] = 0
    /\ calls[e] <= 1
    /\ \A r \in Runtimes : Executing(r, e) =>
         /\ Begun(e)
         /\ loc[r].pc \in BeforeCall => calls[e] = 0
         /\ \A q \in Runtimes : Executing(q, e) => q = r

\* An external effect is called only by the occurrence whose dispatch claim
\* created the claim document.
ClaimInv ==
  \A e \in Effects : Intent(e).external =>
    /\ e \notin claims => calls[e] = 0
    /\ calls[e] <= 1
    /\ \A r \in Runtimes : Executing(r, e) /\ loc[r].pc \in PastClaim =>
         /\ e \in claims
         /\ calls[e] = 0
         /\ \A q \in Runtimes :
              Executing(q, e) /\ loc[q].pc \in PastClaim => q = r

\* What is about to be journaled is an outcome, so a begun record stays begun.
OutcomeInv ==
  \A r \in Runtimes :
    loc[r].pc \in {"consume", "complete"} => loc[r].result \in Outcomes

DispatchInv == CreatorInv /\ ClaimInv /\ OutcomeInv

-----------------------------------------------------------------------------
(* Settlement                                                               *)

\* What an occurrence has behind it: the intents before its own are
\* completed for its input, and what it reports completed has landed.
SettledOf(r) ==
  /\ loc[r].pc \in EffectLabels =>
       \A n \in 1..(loc[r].ord - 1) :
         journal[<<loc[r].turn, n>>] = [status |-> "completed",
                                        input |-> loc[r].input]
  /\ loc[r].pc \in CommitLabels =>
       \A e \in EffectsOf(loc[r].turn) :
         journal[e] = [status |-> "completed", input |-> loc[r].input]
  /\ loc[r].pc \in EffectLabels \ {"beginRead", "beginPut"} =>
       /\ Begun(Current(r))
       /\ journal[Current(r)].input = loc[r].input
  /\ loc[r].pc \in {"consume", "complete"} =>
       /\ loc[r].result = "completed" => Current(r) \in landed
       /\ /\ loc[r].pc = "complete"
          /\ loc[r].result = "completed"
          /\ Intent(Current(r)).external
          => permit[Current(r)] = "consumed"

SettlementInv ==
  /\ \A e \in Effects : journal[e].status = "completed" =>
       /\ e \in landed
       /\ Intent(e).external => permit[e] = "consumed"
  /\ \A r \in Runtimes : SettledOf(r)
  /\ AdmittedEffectsSettled

-----------------------------------------------------------------------------
(* Proofs of zero effect                                                    *)

\* A failure that is reported, or about to be reported, as proven free of
\* effect is one of an effect that was never called; whoever may still call
\* a non-idempotent effect finds its record started.
ProvenInv ==
  \A e \in Effects : ~Intent(e).idempotent =>
    /\ journal[e].status = "failedZero" => calls[e] = 0
    /\ \A r \in Runtimes : Executing(r, e) =>
         /\ loc[r].pc \in BeforeCall => journal[e].status = "started"
         /\ /\ loc[r].pc \in {"consume", "complete"}
            /\ loc[r].result = "failedZero"
            => calls[e] = 0

\* The resource changes through calls alone.
LandedInv == \A e \in landed : calls[e] # 0
=============================================================================
