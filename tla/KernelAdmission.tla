--------------------------- MODULE KernelAdmission ---------------------------
(***************************************************************************)
(* Central admission of one workflow instance by the selected Kernel       *)
(* Primary, src/domain-packages/kernel/basic/kernel-mechanism-v1.mjs.      *)
(*                                                                         *)
(* Several kernel runtimes (Host processes) share one compare-and-swap     *)
(* document store.  Inside a runtime the per-instance lane serialises the  *)
(* occurrences of the instance, so a runtime has at most one in flight;    *)
(* nothing serialises two runtimes except the revisions of the documents.  *)
(* An action is one awaited store access (or one adapter call) with the    *)
(* synchronous code up to the next one, so every interleaving of awaits is *)
(* a behaviour, and a runtime may crash between any two of them.           *)
(*                                                                         *)
(* A turn is one source (a messageId) and an input is the canonical input  *)
(* it was submitted with: the same messageId may arrive with two inputs.   *)
(***************************************************************************)
EXTENDS Integers, Sequences

CONSTANTS
  Runtimes,        \* kernel runtimes over the shared store
  Turns,           \* durable control turns of the instance
  RecoveryTurns,   \* turns of source kind "recovery" (trusted Host seam)
  DeclinableTurns, \* turns a rule, guard or cancellation may decline
  Inputs,          \* canonical inputs a turn may be submitted with
  Intents,         \* turn -> sequence of [idempotent, external] intents
  KeyExistsCode,   \* TRUE: a lost create reports HOST_KEY_EXISTS (SQLite,
                   \* in-memory store); FALSE: HOST_CAS_CONFLICT, what the
                   \* K docs port makes of a refusal without a code
  MaxCrashes,      \* bound on runtime crashes
  MaxFaults,       \* bound on store faults
  NoTurn, NoInput

ASSUME TurnAssumption ==
  /\ NoTurn \notin Turns
  /\ NoInput \notin Inputs
  /\ RecoveryTurns \subseteq Turns
  /\ DeclinableTurns \subseteq Turns

ASSUME IntentAssumption ==
  Intents \in [Turns -> Seq([idempotent : BOOLEAN, external : BOOLEAN])]

ASSUME BoundAssumption ==
  /\ KeyExistsCode \in BOOLEAN
  /\ MaxCrashes \in Nat
  /\ MaxFaults \in Nat

VARIABLES
  \* the documents of the shared store
  stateRev,  \* instance document: its stateRevision, also its CAS revision
  receipts,  \* instance document: original receipt of every admitted turn
  fence,     \* admission-fence document (turn NoTurn: absent)
  journal,   \* effect-journal documents
  permit,    \* effect-permit documents
  claims,    \* effects whose dispatch-claim document exists (attempt 1)
  disp,      \* turn-disposition documents
  \* the external world
  calls,     \* adapter invocations of an effect: 0, 1 or 2 (twice or more)
  landed,    \* effects that changed the external resource
  \* the runtimes and what clients were told
  loc,       \* the occurrence a runtime has on its lane
  acks,      \* receipts answered to clients
  crashes, faults

docs == <<stateRev, receipts, fence, journal, permit, claims, disp>>
world == <<calls, landed>>
budget == <<crashes, faults>>
vars == <<docs, world, loc, acks, budget>>

-----------------------------------------------------------------------------
(* Values                                                                   *)

Effects == UNION {{<<t, n>> : n \in 1..Len(Intents[t])} : t \in Turns}
Intent(e) == Intents[e[1]][e[2]]
EffectsOf(t) == {<<t, n>> : n \in 1..Len(Intents[t])}

NoRevision == -1
NoReceipt == [rev |-> 0, input |-> NoInput]
NoFence == [turn |-> NoTurn, input |-> NoInput, state |-> 0, rev |-> 0]
NoRecord == [status |-> "none", input |-> NoInput]
Ack(t, receipt) == [turn |-> t, rev |-> receipt.rev, input |-> receipt.input]
Begun(e) == journal[e].status # "none"

Idle == [pc |-> "idle", turn |-> NoTurn, input |-> NoInput, snapRev |-> 0,
         snapReceipt |-> NoReceipt, snapFence |-> NoRevision,
         heldBy |-> NoTurn, fenceRev |-> NoRevision, ord |-> 1,
         result |-> "none"]

\* where an occurrence may stand, in the order the code reaches it
ClaimLabels  == {"readFence", "ladder", "claimRead", "attachState",
                 "attachRecheck", "reconcile", "claimPut", "claimVerify"}
EffectLabels == {"beginRead", "beginPut", "mint", "mintFail", "dispatchClaim",
                 "gatePermit", "gateJournal", "gateFence", "call",
                 "consume", "complete"}
ReleaseLabels == {"releaseCheck", "releaseRemove"}
CommitLabels  == {"commitRead", "commitFence", "commitPut", "commitReread",
                  "commitFail", "disposition"}
Labels == {"idle"} \cup ClaimLabels \cup EffectLabels \cup ReleaseLabels
            \cup CommitLabels

At(r, l) == loc[r].pc = l
Goto(r, l) == loc' = [loc EXCEPT ![r].pc = l]
Return(r) == loc' = [loc EXCEPT ![r] = Idle]
Current(r) == <<loc[r].turn, loc[r].ord>>

\* A thrown admission error: one that carries the zero-external-effect mark
\* runs the release policy, any other leaves the fence held.
Raise(r, zero) == IF zero THEN Goto(r, "releaseCheck") ELSE Return(r)

\* Broken form: every throw of the executor counts as a proof of zero effect.
ExecutorFailedProven(r, zero) ==
  loc' = [loc EXCEPT ![r].pc = "complete", ![r].result = "failedZero"]

\* The executor threw: the journal records the failure before the error
\* leaves (executeEffectIntents).
ExecutorFailed(r, zero) ==
  loc' = [loc EXCEPT ![r].pc = "complete",
                     ![r].result = IF zero THEN "failedZero" ELSE "failed"]

\* Broken form: the last intent is looked for one place too far.
NextIntentTooFar(r, n) ==
  loc' = [loc EXCEPT
            ![r].pc = IF n > Len(Intents[loc[r].turn]) + 1 THEN "commitRead"
                                                          ELSE "beginRead",
            ![r].ord = n,
            ![r].result = "none"]

\* The next intent, or the commit when there is none.
NextIntent(r, n) ==
  loc' = [loc EXCEPT
            ![r].pc = IF n > Len(Intents[loc[r].turn]) THEN "commitRead"
                                                      ELSE "beginRead",
            ![r].ord = n,
            ![r].result = "none"]

Init ==
  /\ stateRev = 0
  /\ receipts = [t \in Turns |-> NoReceipt]
  /\ fence = NoFence
  /\ journal = [e \in Effects |-> NoRecord]
  /\ permit = [e \in Effects |-> "none"]
  /\ claims = {}
  /\ disp = [t \in Turns |-> NoReceipt]
  /\ calls = [e \in Effects |-> 0]
  /\ landed = {}
  /\ loc = [r \in Runtimes |-> Idle]
  /\ acks = {}
  /\ crashes = 0
  /\ faults = 0

-----------------------------------------------------------------------------
(* The start of an occurrence: snapshot, fence revision, replay ladder      *)

\* submitOccurrence enters the lane and reads the instance document.
Submit(r, t, i) ==
  /\ At(r, "idle")
  /\ loc' = [loc EXCEPT ![r] =
               [Idle EXCEPT !.pc = "readFence", !.turn = t, !.input = i,
                            !.snapRev = stateRev,
                            !.snapReceipt = receipts[t]]]
  /\ UNCHANGED <<docs, world, acks, budget>>

\* readAdmissionFenceRevision: a separate read, after the snapshot.
ReadFenceRevision(r) ==
  /\ At(r, "readFence")
  /\ loc' = [loc EXCEPT
               ![r].pc = "ladder",
               ![r].snapFence = IF fence.turn = NoTurn THEN NoRevision
                                                       ELSE fence.rev]
  /\ UNCHANGED <<docs, world, acks, budget>>

\* Broken form: only the best-effort disposition document is asked.
LadderDispositionOnly(r) == disp[loc[r].turn]

\* What the replay ladder finds: the receipt in the snapshot, else the
\* turn-disposition document.
LadderReceipt(r) ==
  IF loc[r].snapReceipt # NoReceipt THEN loc[r].snapReceipt
                                    ELSE disp[loc[r].turn]

\* writeTurnDisposition creates the document if it is absent; the write is
\* best-effort and its failure changes nothing else.
WriteDisposition(t, receipt) ==
  disp' \in {disp, [disp EXCEPT ![t] = IF @ = NoReceipt THEN receipt ELSE @]}

\* An admitted turn is answered with its original receipt (and the replay
\* heals the disposition), or refused when its input differs.
ReplayReceipt(r) ==
  /\ At(r, "ladder")
  /\ LadderReceipt(r) # NoReceipt
  /\ IF LadderReceipt(r).input = loc[r].input
       THEN /\ acks' = acks \cup {Ack(loc[r].turn, LadderReceipt(r))}
            /\ WriteDisposition(loc[r].turn, LadderReceipt(r))
       ELSE UNCHANGED <<acks, disp>>
  /\ Return(r)
  /\ UNCHANGED <<stateRev, receipts, fence, journal, permit, claims, world,
                 budget>>

\* A cancellation seen before the ladder, and after it a denial by schema,
\* invariant, guard or rule, end the occurrence before any claim.
Decline(r) ==
  /\ At(r, "ladder")
  /\ loc[r].turn \in DeclinableTurns
  /\ Return(r)
  /\ UNCHANGED <<docs, world, acks, budget>>

Decide(r) ==
  /\ At(r, "ladder")
  /\ LadderReceipt(r) = NoReceipt
  /\ Goto(r, "claimRead")
  /\ UNCHANGED <<docs, world, acks, budget>>

-----------------------------------------------------------------------------
(* claimAdmissionFence                                                      *)

\* Broken form: a turn does not attach to the fence it holds already.
ClaimReadNoAttach(r) ==
  /\ At(r, "claimRead")
  /\ IF fence.turn # NoTurn /\ fence.state = loc[r].snapRev
       THEN IF loc[r].turn \in RecoveryTurns \ {fence.turn}
              THEN loc' = [loc EXCEPT ![r].pc = "reconcile",
                                      ![r].heldBy = fence.turn]
              ELSE Return(r)
       ELSE Goto(r, "claimPut")
  /\ UNCHANGED <<docs, world, acks, budget>>

\* The fence document is read once; what it says decides which of the three
\* paths the claim takes.
ClaimRead(r) ==
  LET here == fence.turn # NoTurn /\ fence.state = loc[r].snapRev
      mine == here /\ fence.turn = loc[r].turn
  IN /\ At(r, "claimRead")
     /\ \/ /\ mine
           /\ IF fence.input = loc[r].input
                THEN loc' = [loc EXCEPT ![r].pc = "attachState",
                                        ![r].fenceRev = fence.rev]
                ELSE Return(r)
        \/ /\ here /\ ~mine
           /\ IF loc[r].turn \in RecoveryTurns
                THEN loc' = [loc EXCEPT ![r].pc = "reconcile",
                                        ![r].heldBy = fence.turn]
                ELSE Return(r)
        \/ /\ ~here
           /\ Goto(r, "claimPut")
     /\ UNCHANGED <<docs, world, acks, budget>>

\* The same turn attaches to its own fence without writing it: the instance
\* must still be at the snapshot, and the fence unchanged on a second read.
AttachState(r) ==
  /\ At(r, "attachState")
  /\ IF stateRev = loc[r].snapRev THEN Goto(r, "attachRecheck") ELSE Return(r)
  /\ UNCHANGED <<docs, world, acks, budget>>

AttachRecheck(r) ==
  /\ At(r, "attachRecheck")
  /\ IF fence = [turn |-> loc[r].turn, input |-> loc[r].input,
                 state |-> loc[r].snapRev, rev |-> loc[r].fenceRev]
       THEN NextIntent(r, 1)
       ELSE Return(r)
  /\ UNCHANGED <<docs, world, acks, budget>>

\* heldFenceIsDurablyFailed: a recovery turn may take the fence of a holder
\* that began at least one effect and whose begun effects are all failed.
DurablyFailed(t) ==
  /\ \E e \in EffectsOf(t) : Begun(e)
  /\ \A e \in EffectsOf(t) :
       Begun(e) => journal[e].status \in {"failed", "failedZero"}

Reconcile(r) ==
  /\ At(r, "reconcile")
  /\ IF DurablyFailed(loc[r].heldBy) THEN Goto(r, "claimPut") ELSE Return(r)
  /\ UNCHANGED <<docs, world, acks, budget>>

\* The claim: create when the snapshot saw no fence, else CAS on the fence
\* revision the snapshot saw.
ClaimPut(r) ==
  /\ At(r, "claimPut")
  /\ IF loc[r].snapFence = (IF fence.turn = NoTurn THEN NoRevision
                                                   ELSE fence.rev)
       THEN /\ fence' = [turn |-> loc[r].turn, input |-> loc[r].input,
                         state |-> loc[r].snapRev,
                         rev |-> loc[r].snapFence + 1]
            /\ loc' = [loc EXCEPT ![r].pc = "claimVerify",
                                  ![r].fenceRev = loc[r].snapFence + 1]
       ELSE Return(r) /\ UNCHANGED fence
  /\ UNCHANGED <<stateRev, receipts, journal, permit, claims, disp, world,
                 acks, budget>>

\* A claim whose instance moved on is refused; the fence it wrote stays.
ClaimVerify(r) ==
  /\ At(r, "claimVerify")
  /\ IF stateRev = loc[r].snapRev THEN NextIntent(r, 1) ELSE Return(r)
  /\ UNCHANGED <<docs, world, acks, budget>>

-----------------------------------------------------------------------------
(* executeEffectIntents, one intent at a time                               *)

\* Broken form: a record that is only started is taken for a settled one.
UseExistingAsDone(r, e) ==
  LET same == journal[e].input = loc[r].input
      status == journal[e].status
  IN \/ /\ ~same \/ status = "failedZero"
        /\ Goto(r, "releaseCheck")
     \/ /\ same /\ status = "failed"
        /\ Return(r)
     \/ /\ same /\ status \in {"started", "completed"}
        /\ NextIntent(r, loc[r].ord + 1)

\* What an existing journal record of this effect lets the occurrence do.
\* Another input is a conflict whatever the status.  An outcome already
\* settled is replayed, never executed again; a record that is only started
\* is executed again when the effect is idempotent.
UseExisting(r, e) ==
  LET same == journal[e].input = loc[r].input
      status == journal[e].status
  IN \/ /\ ~same \/ status = "failedZero"
        /\ Goto(r, "releaseCheck")
     \/ /\ same
        /\ status = "failed" \/ (status = "started" /\ ~Intent(e).idempotent)
        /\ Return(r)
     \/ /\ same /\ status = "completed"
        /\ NextIntent(r, loc[r].ord + 1)
     \/ /\ same /\ status = "started" /\ Intent(e).idempotent
        /\ Goto(r, IF Intent(e).external THEN "mint" ELSE "call")

BeginRead(r) ==
  LET e == Current(r)
  IN /\ At(r, "beginRead")
     /\ IF Begun(e) THEN UseExisting(r, e) ELSE Goto(r, "beginPut")
     /\ UNCHANGED <<docs, world, acks, budget>>

\* The conditional create of the started record.  A lost create is settled
\* against the winner, but only when the store reports it as a CAS conflict:
\* HOST_KEY_EXISTS is rethrown and becomes a marked journal conflict.
BeginPut(r) ==
  LET e == Current(r)
  IN /\ At(r, "beginPut")
     /\ IF ~Begun(e)
          THEN /\ journal' = [journal EXCEPT ![e] =
                                [status |-> "started", input |-> loc[r].input]]
               /\ Goto(r, IF Intent(e).external THEN "mint" ELSE "call")
          ELSE /\ UNCHANGED journal
               /\ IF KeyExistsCode THEN Goto(r, "releaseCheck")
                                   ELSE UseExisting(r, e)
     /\ UNCHANGED <<stateRev, receipts, fence, permit, claims, disp, world,
                    acks, budget>>

\* The permit is created live, or the live original is reused; a consumed
\* one is a mint failure.
Mint(r) ==
  LET e == Current(r)
  IN /\ At(r, "mint")
     /\ IF permit[e] = "consumed"
          THEN Goto(r, "mintFail") /\ UNCHANGED permit
          ELSE /\ permit' = [permit EXCEPT ![e] = "live"]
               /\ Goto(r, "dispatchClaim")
     /\ UNCHANGED <<stateRev, receipts, fence, journal, claims, disp, world,
                    acks, budget>>

\* A mint failure is journaled as a proven zero-external-effect failure; the
\* error carries the mark only if that record is durable.
MintFail(r) ==
  LET e == Current(r)
  IN /\ At(r, "mintFail")
     /\ \/ /\ journal[e].status = "started"
           /\ journal' = [journal EXCEPT ![e].status = "failedZero"]
           /\ Goto(r, "releaseCheck")
        \/ /\ journal[e].status = "failedZero"
           /\ Goto(r, "releaseCheck")
           /\ UNCHANGED journal
        \/ /\ journal[e].status # "started"
           /\ Return(r)
           /\ UNCHANGED journal
     /\ UNCHANGED <<stateRev, receipts, fence, permit, claims, disp, world,
                    acks, budget>>

\* The handler throws before any port call, or its port call is refused by
\* the dispatcher before a handler: zero external effect is proved only when
\* every port call it made was such a refusal.
RefusedBeforeAdapter(r) ==
  /\ \E zero \in BOOLEAN : ExecutorFailed(r, zero)
  /\ UNCHANGED <<docs, world, acks, budget>>

HandlerRefused(r) ==
  /\ loc[r].pc \in {"call", "dispatchClaim"}
  /\ ~(At(r, "call") /\ Intent(Current(r)).external)
  /\ RefusedBeforeAdapter(r)

\* Broken form: an existing dispatch claim is taken for one's own.
DispatchClaimShared(r) ==
  /\ At(r, "dispatchClaim")
  /\ claims' = claims \cup {Current(r)}
  /\ Goto(r, "gatePermit")
  /\ UNCHANGED <<stateRev, receipts, fence, journal, permit, disp, world,
                 acks, budget>>

\* An external call first creates the dispatch claim of its attempt.
DispatchClaim(r) ==
  LET e == Current(r)
  IN /\ At(r, "dispatchClaim")
     /\ IF e \in claims
          THEN ExecutorFailed(r, FALSE) /\ UNCHANGED claims
          ELSE claims' = claims \cup {e} /\ Goto(r, "gatePermit")
     /\ UNCHANGED <<stateRev, receipts, fence, journal, permit, disp, world,
                    acks, budget>>

\* The Host gate re-reads the permit, the journal and the fence, one read
\* each, and attests its own refusals.
GatePermit(r) ==
  /\ At(r, "gatePermit")
  /\ permit[Current(r)] = "live"
  /\ Goto(r, "gateJournal")
  /\ UNCHANGED <<docs, world, acks, budget>>

GateJournal(r) ==
  /\ At(r, "gateJournal")
  /\ journal[Current(r)].status = "started"
  /\ Goto(r, "gateFence")
  /\ UNCHANGED <<docs, world, acks, budget>>

GateFence(r) ==
  /\ At(r, "gateFence")
  /\ fence.turn = loc[r].turn
  /\ Goto(r, "call")
  /\ UNCHANGED <<docs, world, acks, budget>>

\* The permit may also have expired by the Host's clock.
GateRefused(r) ==
  LET e == Current(r)
  IN /\ \/ At(r, "gatePermit")
        \/ At(r, "gateJournal") /\ journal[e].status # "started"
        \/ At(r, "gateFence") /\ fence.turn # loc[r].turn
     /\ RefusedBeforeAdapter(r)

\* Broken form: the journal completes before the permit is consumed.
CallLeavesPermit(r) ==
  LET e == Current(r)
  IN /\ At(r, "call")
     /\ calls' = [calls EXCEPT ![e] = IF @ < 2 THEN @ + 1 ELSE 2]
     /\ \/ /\ landed' = landed \cup {e}
           /\ loc' = [loc EXCEPT ![r].pc = "complete",
                                 ![r].result = "completed"]
        \/ /\ landed' \in {landed, landed \cup {e}}
           /\ ExecutorFailed(r, FALSE)
     /\ UNCHANGED <<docs, acks, budget>>

\* The adapter runs.  It returns an envelope for a change that the resource has
\* taken (terminal, or, unless the effect awaits that, accepted or running), or
\* it fails (throws, or is pending under await: terminal) with the change taken
\* or not: the caller cannot tell.
Call(r) ==
  LET e == Current(r)
  IN /\ At(r, "call")
     /\ calls' = [calls EXCEPT ![e] = IF @ < 2 THEN @ + 1 ELSE 2]
     /\ \/ /\ landed' = landed \cup {e}
           /\ loc' = [loc EXCEPT ![r].pc = IF Intent(e).external
                                             THEN "consume" ELSE "complete",
                                 ![r].result = "completed"]
        \/ /\ landed' \in {landed, landed \cup {e}}
           /\ ExecutorFailed(r, FALSE)
     /\ UNCHANGED <<docs, acks, budget>>

\* A completed call consumes its permit before the journal completes, a
\* failed one after the failure is journaled.  An ambiguous consume is a
\* journal conflict: nothing terminal is claimed.
Consume(r) ==
  LET e == Current(r)
  IN /\ At(r, "consume")
     /\ IF permit[e] # "live"
          THEN Return(r) /\ UNCHANGED permit
          ELSE /\ permit' = [permit EXCEPT ![e] = "consumed"]
               /\ IF loc[r].result = "completed"
                    THEN Goto(r, "complete")
                    ELSE Raise(r, loc[r].result = "failedZero")
     /\ UNCHANGED <<stateRev, receipts, fence, journal, claims, disp, world,
                    acks, budget>>

\* Broken form: an unproven failure does not stop the turn.
AfterOutcomeGoesOn(r, e) ==
  IF loc[r].result # "failedZero" THEN NextIntent(r, loc[r].ord + 1)
  ELSE IF Intent(e).external THEN Goto(r, "consume")
  ELSE Raise(r, TRUE)

\* What follows a journaled outcome of this occurrence.
AfterOutcome(r, e) ==
  IF loc[r].result = "completed" THEN NextIntent(r, loc[r].ord + 1)
  ELSE IF Intent(e).external THEN Goto(r, "consume")
  ELSE Raise(r, loc[r].result = "failedZero")

\* Broken form: the outcome is written over whatever the record holds.
CompleteOverwrites(r) ==
  /\ At(r, "complete")
  /\ journal' = [journal EXCEPT ![Current(r)].status = loc[r].result]
  /\ AfterOutcome(r, Current(r))
  /\ UNCHANGED <<stateRev, receipts, fence, permit, claims, disp, world,
                 acks, budget>>

\* completeEffect: the CAS on the started record lands once; a record that
\* is already settled is accepted only when its outcome is the same.
Complete(r) ==
  LET e == Current(r)
  IN /\ At(r, "complete")
     /\ \/ /\ journal[e].status = "started"
           /\ journal' = [journal EXCEPT ![e].status = loc[r].result]
           /\ AfterOutcome(r, e)
        \/ /\ journal[e].status = loc[r].result
           /\ AfterOutcome(r, e)
           /\ UNCHANGED journal
        \/ /\ journal[e].status # "started"
           /\ Return(r)
           /\ UNCHANGED journal
     /\ UNCHANGED <<stateRev, receipts, fence, permit, claims, disp, world,
                    acks, budget>>

-----------------------------------------------------------------------------
(* The failure policy of the fence                                          *)

\* A marked error releases the fence unless some begun effect of the turn is
\* not failed; the unmarked failed outcome counts as failed here.
ReleaseCheck(r) ==
  /\ At(r, "releaseCheck")
  /\ IF \A e \in EffectsOf(loc[r].turn) :
          journal[e].status \in {"none", "failed", "failedZero"}
       THEN Goto(r, "releaseRemove")
       ELSE Return(r)
  /\ UNCHANGED <<docs, world, acks, budget>>

\* releaseAdmissionFence removes the document on its claim revision alone.
ReleaseRemove(r) ==
  /\ At(r, "releaseRemove")
  /\ fence' = IF fence.turn # NoTurn /\ fence.rev = loc[r].fenceRev
                THEN NoFence ELSE fence
  /\ Return(r)
  /\ UNCHANGED <<stateRev, receipts, journal, permit, claims, disp, world,
                 acks, budget>>

-----------------------------------------------------------------------------
(* commitAcceptedTransitionInLane                                           *)

CommitRead(r) ==
  /\ At(r, "commitRead")
  /\ Goto(r, IF stateRev = loc[r].snapRev THEN "commitFence" ELSE "commitFail")
  /\ UNCHANGED <<docs, world, acks, budget>>

CommitFence(r) ==
  /\ At(r, "commitFence")
  /\ Goto(r, IF /\ fence.turn = loc[r].turn
                /\ fence.state = loc[r].snapRev
                /\ fence.rev = loc[r].fenceRev
               THEN "commitPut" ELSE "commitFail")
  /\ UNCHANGED <<docs, world, acks, budget>>

\* One write moves the state and appends the original receipt.
CommitPut(r) ==
  /\ At(r, "commitPut")
  /\ IF stateRev = loc[r].snapRev
       THEN /\ stateRev' = stateRev + 1
            /\ receipts' = [receipts EXCEPT ![loc[r].turn] =
                              [rev |-> stateRev + 1, input |-> loc[r].input]]
            /\ Goto(r, "commitReread")
       ELSE Goto(r, "commitFail") /\ UNCHANGED <<stateRev, receipts>>
  /\ UNCHANGED <<fence, journal, permit, claims, disp, world, acks, budget>>

\* The committed instance is read back; a revision that is not the next one
\* is an error even though the commit landed.
CommitReread(r) ==
  /\ At(r, "commitReread")
  /\ Goto(r, IF stateRev = loc[r].snapRev + 1 THEN "disposition"
                                              ELSE "commitFail")
  /\ UNCHANGED <<docs, world, acks, budget>>

\* After a failed commit the fence is released only when the turn has no
\* journal record.
CommitFail(r) ==
  /\ At(r, "commitFail")
  /\ IF \E e \in EffectsOf(loc[r].turn) : Begun(e)
       THEN Return(r) ELSE Goto(r, "releaseRemove")
  /\ UNCHANGED <<docs, world, acks, budget>>

\* Broken form: the answer carries the revision the instance has by now.
AcknowledgeCurrent(r) ==
  LET receipt == [rev |-> stateRev, input |-> loc[r].input]
  IN /\ At(r, "disposition")
     /\ WriteDisposition(loc[r].turn, receipt)
     /\ acks' = acks \cup {Ack(loc[r].turn, receipt)}
     /\ Return(r)
     /\ UNCHANGED <<stateRev, receipts, fence, journal, permit, claims, world,
                    budget>>

\* The post-commit observation and the acknowledgement.
Acknowledge(r) ==
  LET receipt == [rev |-> loc[r].snapRev + 1, input |-> loc[r].input]
  IN /\ At(r, "disposition")
     /\ WriteDisposition(loc[r].turn, receipt)
     /\ acks' = acks \cup {Ack(loc[r].turn, receipt)}
     /\ Return(r)
     /\ UNCHANGED <<stateRev, receipts, fence, journal, permit, claims, world,
                    budget>>

-----------------------------------------------------------------------------
(* Crashes and store faults                                                 *)

\* The Host process dies and restarts: its occurrence is lost, the documents
\* and the external world stay.
Crash(r) ==
  /\ ~At(r, "idle")
  /\ crashes < MaxCrashes
  /\ crashes' = crashes + 1
  /\ Return(r)
  /\ UNCHANGED <<docs, world, acks, faults>>

\* A store access throws without effect; each await has its own catch.
FaultExit(r) ==
  CASE loc[r].pc \in ClaimLabels \cup ReleaseLabels
                       \cup {"consume", "complete", "mintFail", "commitFail"}
         -> Return(r)
    [] loc[r].pc \in {"beginRead", "beginPut"} -> Goto(r, "releaseCheck")
    [] loc[r].pc = "mint" -> Goto(r, "mintFail")
    [] loc[r].pc \in {"dispatchClaim", "gatePermit", "gateJournal",
                      "gateFence"} -> ExecutorFailed(r, FALSE)
    [] loc[r].pc \in {"commitRead", "commitFence", "commitPut",
                      "commitReread"} -> Goto(r, "commitFail")

StoreFault(r) ==
  /\ loc[r].pc \notin {"idle", "call", "disposition"}
  /\ faults < MaxFaults
  /\ faults' = faults + 1
  /\ FaultExit(r)
  /\ UNCHANGED <<docs, world, acks, crashes>>

-----------------------------------------------------------------------------
(* The step the runtime's scheduler owes an occurrence once it has begun.   *)
Step(r) ==
  \/ ReadFenceRevision(r) \/ ReplayReceipt(r) \/ Decline(r) \/ Decide(r)
  \/ ClaimRead(r) \/ AttachState(r) \/ AttachRecheck(r) \/ Reconcile(r)
  \/ ClaimPut(r) \/ ClaimVerify(r)
  \/ BeginRead(r) \/ BeginPut(r) \/ Mint(r) \/ MintFail(r)
  \/ HandlerRefused(r) \/ DispatchClaim(r)
  \/ GatePermit(r) \/ GateJournal(r) \/ GateFence(r) \/ GateRefused(r)
  \/ Call(r) \/ Consume(r) \/ Complete(r)
  \/ ReleaseCheck(r) \/ ReleaseRemove(r)
  \/ CommitRead(r) \/ CommitFence(r) \/ CommitPut(r) \/ CommitReread(r)
  \/ CommitFail(r) \/ Acknowledge(r)

Next ==
  \E r \in Runtimes :
    \/ \E t \in Turns, i \in Inputs : Submit(r, t, i)
    \/ Step(r)
    \/ Crash(r)
    \/ StoreFault(r)

Spec == Init /\ [][Next]_vars

\* The event loop continues an occurrence it has begun, and a client sends a
\* turn again until it is acknowledged (an idempotent re-send is the replay
\* ladder's reason to exist).
Fairness ==
  \A r \in Runtimes :
    /\ WF_vars(Step(r))
    /\ \A t \in Turns, i \in Inputs : SF_vars(Submit(r, t, i))

FairSpec == Spec /\ Fairness

-----------------------------------------------------------------------------
(* Types                                                                    *)

Receipt == [rev : Nat, input : Inputs \cup {NoInput}]
FenceDocument == [turn : Turns \cup {NoTurn}, input : Inputs \cup {NoInput},
                  state : Nat, rev : Nat]
Outcomes == {"completed", "failed", "failedZero"}
JournalRecord == [status : {"none", "started"} \cup Outcomes,
                  input : Inputs \cup {NoInput}]
Occurrence ==
  [pc : Labels, turn : Turns \cup {NoTurn}, input : Inputs \cup {NoInput},
   snapRev : Nat, snapReceipt : Receipt, snapFence : Nat \cup {NoRevision},
   heldBy : Turns \cup {NoTurn}, fenceRev : Nat \cup {NoRevision},
   ord : Nat \ {0}, result : {"none"} \cup Outcomes]

DocumentsOK ==
  /\ stateRev \in Nat
  /\ receipts \in [Turns -> Receipt]
  /\ fence \in FenceDocument
  /\ journal \in [Effects -> JournalRecord]
  /\ permit \in [Effects -> {"none", "live", "consumed"}]
  /\ claims \in SUBSET Effects
  /\ disp \in [Turns -> Receipt]

OccurrencesOK ==
  /\ loc \in [Runtimes -> Occurrence]
  /\ \A r \in Runtimes :
       ~At(r, "idle") => loc[r].turn \in Turns /\ loc[r].input \in Inputs
  /\ \A r \in Runtimes :
       loc[r].pc \in EffectLabels => Current(r) \in Effects

ObservedOK ==
  /\ calls \in [Effects -> 0..2]
  /\ landed \in SUBSET Effects
  /\ acks \in SUBSET [turn : Turns, rev : Nat, input : Inputs \cup {NoInput}]
  /\ crashes \in Nat
  /\ faults \in Nat

\* The documents, the world and every runtime's occurrence stay in their
\* types, an occurrence that has begun has a turn and an input, and one that
\* executes stands at an intent of its plan (submitOccurrence,
\* executeEffectIntents).
TypeOK == DocumentsOK /\ OccurrencesOK /\ ObservedOK

-----------------------------------------------------------------------------
(* What admission promises                                                  *)

\* Once-only admission: the state revisions 1..stateRev and the admitted
\* turns correspond one to one, so no turn ever moved the state twice,
\* whatever was retried, crashed, raced or replayed (commitAcceptedTransition-
\* InLane and the replay ladder together).
OnceOnlyAdmission ==
  /\ \A n \in 1..stateRev : \E t \in Turns : receipts[t].rev = n
  /\ \A t \in Turns : receipts[t].rev <= stateRev
  /\ \A t, u \in Turns :
       receipts[t].rev = receipts[u].rev /\ receipts[t].rev # 0 => t = u

\* A non-idempotent effect and an external effect reach their adapter at most
\* once in the life of the system: the journal's conditional create grants
\* the first, the dispatch claim the second (executeEffectIntents,
\* effectTools.execute).
SingleDispatch ==
  \A e \in Effects :
    ~Intent(e).idempotent \/ Intent(e).external => calls[e] <= 1

\* A turn is admitted only over effects that are durably completed for the
\* very input it was admitted with, each of which did reach the resource.
AdmittedEffectsSettled ==
  \A t \in Turns : receipts[t] # NoReceipt =>
    \A e \in EffectsOf(t) :
      /\ journal[e] = [status |-> "completed", input |-> receipts[t].input]
      /\ e \in landed

\* Whatever a client is answered, now or at any replay, is the original
\* receipt: the revision the turn committed and the input it was admitted
\* with (commitReread, the ladder, writeTurnDisposition).
AnswersAreOriginal ==
  \A a \in acks : a = Ack(a.turn, receipts[a.turn])

\* The zero-external-effect mark of a durable failure is true of a
\* non-idempotent effect: it was never handed to an adapter.
ZeroProofNonIdempotent ==
  \A e \in Effects :
    ~Intent(e).idempotent /\ journal[e].status = "failedZero" => calls[e] = 0

\* The intents of a turn run strictly in order: an effect is begun only after
\* the one before it completed durably, also across crashes and attachments.
IntentsInOrder ==
  \A t \in Turns : \A n \in 2..Len(Intents[t]) :
    Begun(<<t, n>>) => journal[<<t, n - 1>>].status = "completed"

\* An external effect is durably completed only under a permit that is
\* already dead, so no second dispatch can ride a live permit of a settled
\* effect (consume before completeEffect).
SettledPermitDead ==
  \A e \in Effects :
    Intent(e).external /\ journal[e].status = "completed"
      => permit[e] = "consumed"

\* A settled outcome stands: of several completions racing over one effect
\* at most one lands, and the input of a begun effect never changes
\* (KernelDurableEffectJournal).
SettledOutcomeStands ==
  [][\A e \in Effects :
       /\ journal[e].status \in {"completed", "failed", "failedZero"}
            => journal'[e] = journal[e]
       /\ Begun(e) => journal'[e].input = journal[e].input]_journal

\* The whole of it as a specification of its own: admission implements
\* OnceOnly, the promise without the machinery that keeps it.
Guarded == {e \in Effects : ~Intent(e).idempotent \/ Intent(e).external}

Promise == INSTANCE OnceOnly WITH
  count <- stateRev, receipt <- receipts, answered <- acks

ImplementsOnceOnly == Promise!Spec

\* A turn that carries no effect is eventually admitted when it is sent again
\* and again, whatever stale fence a crash, a fault or a lost race left
\* behind (claimAdmissionFence, the commit-failure release).
EffectFreeTurnsAdmitted ==
  \A t \in Turns : Intents[t] = <<>> => <>(receipts[t] # NoReceipt)
=============================================================================
