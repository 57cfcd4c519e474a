----------------------- MODULE KernelAdmissionDispatch -----------------------
(***************************************************************************)
(* Single dispatch: a non-idempotent or external effect is called once.    *)
(*                                                                         *)
(* The right to call is handed out by the creation of one document, the    *)
(* journal record of a non-idempotent effect and the dispatch claim of an  *)
(* external one.  Only three kinds of steps matter: BeginPut and           *)
(* DispatchClaim, which create them, and Call, which spends the right.     *)
(* Every other step is quiet: it gives nobody a right he did not have.     *)
(***************************************************************************)
EXTENDS KernelAdmissionProofs

OnlyMoves(r) == \A q \in Runtimes : q # r => loc'[q] = loc[q]

\* The documents that grant a right stay, and nothing is called.
GrantsStand ==
  /\ calls' = calls
  /\ claims \subseteq claims'
  /\ \A e \in Effects : Begun(e) => Begun(e)'

\* The step does not make r the executor of a non-idempotent effect, nor take
\* it back before its call.
CreatorQuiet(r) ==
  \A e \in Effects : ~Intent(e).idempotent /\ Executing(r, e)' =>
    /\ Executing(r, e)
    /\ loc'[r].pc \in BeforeCall => loc[r].pc \in BeforeCall

\* The step does not take r past the dispatch claim of an external effect.
ClaimQuiet(r) ==
  \A e \in Effects :
    Intent(e).external /\ Executing(r, e)' /\ loc'[r].pc \in PastClaim =>
      Executing(r, e) /\ loc[r].pc \in PastClaim

\* What r is about to journal is an outcome.
OutcomeNamed(r) ==
  loc'[r].pc \in {"consume", "complete"} => loc'[r].result \in Outcomes

Quiet(r) ==
  /\ OnlyMoves(r) /\ GrantsStand
  /\ CreatorQuiet(r) /\ ClaimQuiet(r) /\ OutcomeNamed(r)

-----------------------------------------------------------------------------
(* Quiet steps keep the invariant                                           *)

LEMMA OthersExecute ==
  ASSUME NEW r \in Runtimes, OnlyMoves(r)
  PROVE  \A q \in Runtimes : q # r =>
           /\ loc'[q] = loc[q]
           /\ \A e \in Effects : Executing(q, e)' <=> Executing(q, e)
BY DEF OnlyMoves, Executing, Current

LEMMA CreatorKept ==
  ASSUME CreatorInv, NEW r \in Runtimes, OnlyMoves(r), GrantsStand,
         CreatorQuiet(r)
  PROVE  CreatorInv'
<1> SUFFICES ASSUME NEW e \in Effects, ~Intent(e).idempotent
             PROVE  /\ ~Begun(e)' => calls'[e] = 0
                    /\ calls'[e] <= 1
                    /\ \A q \in Runtimes : Executing(q, e)' =>
                         /\ Begun(e)'
                         /\ loc'[q].pc \in BeforeCall => calls'[e] = 0
                         /\ \A p \in Runtimes : Executing(p, e)' => p = q
  BY DEF CreatorInv, Intent, Effects
<1>1. \A q \in Runtimes : Executing(q, e)' =>
        /\ Executing(q, e)
        /\ loc'[q].pc \in BeforeCall => loc[q].pc \in BeforeCall
  BY OthersExecute DEF CreatorQuiet
<1> QED
  BY <1>1 DEF CreatorInv, GrantsStand

LEMMA ClaimKept ==
  ASSUME ClaimInv, NEW r \in Runtimes, OnlyMoves(r), GrantsStand,
         ClaimQuiet(r)
  PROVE  ClaimInv'
<1> SUFFICES ASSUME NEW e \in Effects, Intent(e).external
             PROVE  /\ e \notin claims' => calls'[e] = 0
                    /\ calls'[e] <= 1
                    /\ \A q \in Runtimes :
                         Executing(q, e)' /\ loc'[q].pc \in PastClaim =>
                           /\ e \in claims'
                           /\ calls'[e] = 0
                           /\ \A p \in Runtimes :
                                Executing(p, e)' /\ loc'[p].pc \in PastClaim
                                  => p = q
  BY DEF ClaimInv, Intent, Effects
<1>1. \A q \in Runtimes : Executing(q, e)' /\ loc'[q].pc \in PastClaim =>
        Executing(q, e) /\ loc[q].pc \in PastClaim
  BY OthersExecute DEF ClaimQuiet
<1> QED
  BY <1>1 DEF ClaimInv, GrantsStand

LEMMA OutcomeKept ==
  ASSUME OutcomeInv, NEW r \in Runtimes, OnlyMoves(r), OutcomeNamed(r)
  PROVE  OutcomeInv'
BY DEF OutcomeInv, OutcomeNamed, OnlyMoves

LEMMA QuietKept ==
  ASSUME DispatchInv, NEW r \in Runtimes, Quiet(r)
  PROVE  DispatchInv'
BY CreatorKept, ClaimKept, OutcomeKept DEF DispatchInv, Quiet

-----------------------------------------------------------------------------
(* The shapes of a quiet step                                               *)

\* The labels an occurrence executes an effect at.
Exec == EffectLabels \ {"beginRead", "beginPut"}

LEMMA Away ==
  ASSUME NEW r \in Runtimes, OnlyMoves(r), GrantsStand, loc'[r].pc \notin Exec
  PROVE  Quiet(r)
<1>1. loc'[r].pc \notin {"consume", "complete"}
  BY DEF Exec, EffectLabels
<1> QED
  BY <1>1
  DEF Quiet, CreatorQuiet, ClaimQuiet, OutcomeNamed, Executing, Exec

LEMMA Onward ==
  ASSUME NEW r \in Runtimes, OnlyMoves(r), GrantsStand,
         loc[r].pc \in Exec, loc'[r].turn = loc[r].turn,
         loc'[r].ord = loc[r].ord,
         loc'[r].pc \in BeforeCall => loc[r].pc \in BeforeCall,
         loc'[r].pc \in PastClaim => loc[r].pc \in PastClaim,
         OutcomeNamed(r)
  PROVE  Quiet(r)
BY DEF Quiet, CreatorQuiet, ClaimQuiet, Executing, Current, Exec

LEMMA Labelled ==
  /\ Exec \subseteq Labels
  /\ BeforeCall \subseteq Exec /\ PastClaim \subseteq BeforeCall
  /\ Exec \cap {"idle", "beginRead", "beginPut", "readFence", "ladder",
                "claimRead", "attachState", "attachRecheck", "reconcile",
                "claimPut", "claimVerify", "releaseCheck", "releaseRemove",
                "commitRead", "commitFence", "commitPut", "commitReread",
                "commitFail", "disposition"} = {}
  /\ Exec = {"mint", "mintFail", "dispatchClaim", "gatePermit",
             "gateJournal", "gateFence", "call", "consume", "complete"}
BY DEF Exec, Labels, EffectLabels, BeforeCall, PastClaim

\* The operators that end a step, seen from here.
LEMMA GotoGoes ==
  ASSUME OccurrencesOK, NEW r \in Runtimes, NEW l \in Labels, Goto(r, l)
  PROVE  /\ OnlyMoves(r)
         /\ loc'[r].pc = l
         /\ loc'[r].turn = loc[r].turn
         /\ loc'[r].ord = loc[r].ord
         /\ loc'[r].input = loc[r].input
         /\ loc'[r].result = loc[r].result
BY GotoFields DEF OccurrencesOK, SameTurn, OthersStand, OnlyMoves

LEMMA ReturnGoes ==
  ASSUME OccurrencesOK, NEW r \in Runtimes, Return(r)
  PROVE  OnlyMoves(r) /\ loc'[r].pc = "idle"
BY ReturnMoves DEF OccurrencesOK, Idle, OnlyMoves

LEMMA ExecutorFailedGoes ==
  ASSUME OccurrencesOK, NEW r \in Runtimes, NEW zero \in BOOLEAN,
         ExecutorFailed(r, zero)
  PROVE  /\ OnlyMoves(r)
         /\ loc'[r].pc = "complete"
         /\ loc'[r].turn = loc[r].turn
         /\ loc'[r].ord = loc[r].ord
         /\ loc'[r].input = loc[r].input
         /\ loc'[r].result \in {"failed", "failedZero"}
         /\ OutcomeNamed(r)
<1>1. /\ SameTurn(r) /\ OthersStand(r)
      /\ loc'[r].pc = "complete"
      /\ loc'[r].ord = loc[r].ord
      /\ loc'[r].result \in {"failed", "failedZero"}
  BY ExecutorFailedFields DEF OccurrencesOK
<1> QED
  BY <1>1 DEF SameTurn, OthersStand, OnlyMoves, OutcomeNamed, Outcomes

LEMMA NextIntentGoes ==
  ASSUME OccurrencesOK, NEW r \in Runtimes, NEW n \in Nat \ {0},
         NextIntent(r, n)
  PROVE  /\ OnlyMoves(r)
         /\ loc'[r].pc = IF n > Len(Intents[loc[r].turn]) THEN "commitRead"
                                                         ELSE "beginRead"
         /\ loc'[r].turn = loc[r].turn
         /\ loc'[r].input = loc[r].input
         /\ loc'[r].ord = n
<1>1. /\ SameTurn(r) /\ OthersStand(r)
      /\ loc'[r].pc = IF n > Len(Intents[loc[r].turn]) THEN "commitRead"
                                                      ELSE "beginRead"
      /\ loc'[r].ord = n
  BY NextIntentFields DEF OccurrencesOK
<1> QED
  BY <1>1 DEF SameTurn, OthersStand, OnlyMoves

LEMMA GrantsUntouched ==
  UNCHANGED <<journal, claims, calls>> => GrantsStand
BY DEF GrantsStand, Begun

\* A record that is begun stays begun when its status or input is replaced.
LEMMA StatusStands ==
  ASSUME DocumentsOK, NEW e, NEW s, s # "none",
         journal' = [journal EXCEPT ![e].status = s],
         UNCHANGED <<claims, calls>>
  PROVE  GrantsStand
<1>1. \A f \in Effects : journal[f] \in JournalRecord
  BY DEF DocumentsOK
<1> QED
  BY <1>1 DEF GrantsStand, Begun, DocumentsOK, JournalRecord

-----------------------------------------------------------------------------
(* Where the steps go                                                       *)

\* Where the steps before and after the effects leave an occurrence.
LEMMA StartGoes ==
  ASSUME TypeOK, NEW r \in Runtimes,
         \/ \E t \in Turns, i \in Inputs : Submit(r, t, i)
         \/ ReadFenceRevision(r) \/ ReplayReceipt(r) \/ Decline(r)
         \/ Decide(r)
  PROVE  /\ OnlyMoves(r)
         /\ loc'[r].pc \in {"idle", "readFence", "ladder", "claimRead"}
<1>1. OccurrencesOK /\ loc \in [Runtimes -> Occurrence]
  BY DEF TypeOK, OccurrencesOK
<1>2. CASE \E t \in Turns, i \in Inputs : Submit(r, t, i)
  BY <1>1, <1>2 DEF Submit, OnlyMoves, Idle
<1>3. CASE ReadFenceRevision(r)
  BY <1>1, <1>3 DEF ReadFenceRevision, OnlyMoves, Occurrence
<1>4. CASE ReplayReceipt(r) \/ Decline(r)
  BY <1>1, <1>4, ReturnGoes DEF ReplayReceipt, Decline
<1>5. CASE Decide(r)
  <2>1. "claimRead" \in Labels
    BY DEF Labels, ClaimLabels
  <2> QED
    BY <1>1, <1>5, <2>1, GotoGoes DEF Decide
<1> QED
  BY <1>2, <1>3, <1>4, <1>5

LEMMA ClaimGoes ==
  ASSUME TypeOK, NEW r \in Runtimes,
         \/ ClaimRead(r) \/ AttachState(r) \/ AttachRecheck(r)
         \/ Reconcile(r) \/ ClaimPut(r) \/ ClaimVerify(r)
  PROVE  /\ OnlyMoves(r)
         /\ \/ loc'[r].pc \in {"idle", "attachState", "attachRecheck",
                               "reconcile", "claimPut", "claimVerify"}
            \/ NextIntent(r, 1)
<1>1. OccurrencesOK /\ loc \in [Runtimes -> Occurrence]
  BY DEF TypeOK, OccurrencesOK
<1>2. {"attachRecheck", "claimPut"} \subseteq Labels
  BY DEF Labels, ClaimLabels
<1>3. CASE ClaimRead(r)
  <2>1. CASE loc' = [loc EXCEPT ![r].pc = "attachState",
                                ![r].fenceRev = fence.rev]
    BY <1>1, <2>1 DEF OnlyMoves, Occurrence
  <2>2. CASE loc' = [loc EXCEPT ![r].pc = "reconcile",
                                ![r].heldBy = fence.turn]
    BY <1>1, <2>2 DEF OnlyMoves, Occurrence
  <2> QED
    BY <1>1, <1>2, <1>3, <2>1, <2>2, ReturnGoes, GotoGoes DEF ClaimRead
<1>4. CASE ClaimPut(r)
  <2>1. CASE loc' = [loc EXCEPT ![r].pc = "claimVerify",
                                ![r].fenceRev = loc[r].snapFence + 1]
    BY <1>1, <2>1 DEF OnlyMoves, Occurrence
  <2> QED
    BY <1>1, <1>4, <2>1, ReturnGoes DEF ClaimPut
<1>5. CASE AttachState(r) \/ Reconcile(r)
  BY <1>1, <1>2, <1>5, ReturnGoes, GotoGoes DEF AttachState, Reconcile
<1>6. CASE AttachRecheck(r) \/ ClaimVerify(r)
  BY <1>1, <1>6, ReturnGoes, NextIntentGoes DEF AttachRecheck, ClaimVerify
<1> QED
  BY <1>3, <1>4, <1>5, <1>6

LEMMA CommitGoes ==
  ASSUME TypeOK, NEW r \in Runtimes,
         \/ ReleaseCheck(r) \/ ReleaseRemove(r)
         \/ CommitRead(r) \/ CommitFence(r) \/ CommitPut(r)
         \/ CommitReread(r) \/ CommitFail(r) \/ Acknowledge(r)
  PROVE  /\ OnlyMoves(r)
         /\ \/ loc'[r].pc \in {"idle", "releaseRemove"}
            \/ /\ loc[r].pc \in CommitLabels
               /\ loc'[r].pc \in {"commitFence", "commitFail", "commitPut",
                                  "commitReread", "disposition"}
               /\ loc'[r].turn = loc[r].turn
               /\ loc'[r].input = loc[r].input
<1>1. OccurrencesOK
  BY DEF TypeOK
<1>2. {"releaseRemove", "commitFence", "commitFail", "commitPut",
       "commitReread", "disposition"} \subseteq Labels
  BY DEF Labels, ReleaseLabels, CommitLabels
<1>3. CASE Return(r)
  BY <1>1, <1>3, ReturnGoes
<1>4. CASE Goto(r, "releaseRemove")
  BY <1>1, <1>2, <1>4, GotoGoes
<1>5. ASSUME NEW l \in {"commitFence", "commitFail", "commitPut",
                        "commitReread", "disposition"},
             Goto(r, l), loc[r].pc \in CommitLabels
      PROVE  /\ OnlyMoves(r)
             /\ loc'[r].pc = l
             /\ loc'[r].turn = loc[r].turn
             /\ loc'[r].input = loc[r].input
  BY <1>1, <1>2, <1>5, GotoGoes
<1>6. CASE ReleaseCheck(r) \/ ReleaseRemove(r)
  BY <1>3, <1>4, <1>6 DEF ReleaseCheck, ReleaseRemove
<1>7. CASE CommitRead(r) \/ CommitFence(r) \/ CommitPut(r) \/ CommitReread(r)
  BY <1>5, <1>7
  DEF CommitRead, CommitFence, CommitPut, CommitReread, At, CommitLabels
<1>8. CASE CommitFail(r) \/ Acknowledge(r)
  BY <1>3, <1>4, <1>8 DEF CommitFail, Acknowledge
<1> QED
  BY <1>6, <1>7, <1>8

LEMMA FaultGoes ==
  ASSUME TypeOK, NEW r \in Runtimes, Crash(r) \/ StoreFault(r)
  PROVE  \/ Return(r)
         \/ Goto(r, "releaseCheck")
         \/ loc[r].pc \in CommitLabels /\ Goto(r, "commitFail")
         \/ At(r, "mint") /\ Goto(r, "mintFail")
         \/ /\ loc[r].pc \in {"dispatchClaim", "gatePermit", "gateJournal",
                              "gateFence"}
            /\ ExecutorFailed(r, FALSE)
<1>1. CASE Crash(r)
  BY <1>1 DEF Crash
<1>2. CASE StoreFault(r)
  <2>1. loc[r].pc \in Labels
    BY DEF TypeOK, OccurrencesOK, Occurrence
  <2> QED
    BY <1>2, <2>1
    DEF StoreFault, FaultExit, Labels, ClaimLabels, EffectLabels,
        ReleaseLabels, CommitLabels, At
<1> QED
  BY <1>1, <1>2

-----------------------------------------------------------------------------
(* The steps that are quiet                                                 *)

\* An occurrence that starts, claims, releases or commits is away from every
\* effect afterwards.
LEMMA StartAway ==
  ASSUME TypeOK, NEW r \in Runtimes,
         \/ \E t \in Turns, i \in Inputs : Submit(r, t, i)
         \/ ReadFenceRevision(r) \/ ReplayReceipt(r) \/ Decline(r)
         \/ Decide(r)
  PROVE  Quiet(r)
<1>1. GrantsStand
  BY GrantsUntouched
  DEF Submit, ReadFenceRevision, ReplayReceipt, Decline, Decide, docs, world
<1> QED
  BY <1>1, StartGoes, Away, Labelled

LEMMA ClaimAway ==
  ASSUME TypeOK, NEW r \in Runtimes,
         \/ ClaimRead(r) \/ AttachState(r) \/ AttachRecheck(r)
         \/ Reconcile(r) \/ ClaimPut(r) \/ ClaimVerify(r)
  PROVE  Quiet(r)
<1>1. GrantsStand
  BY GrantsUntouched
  DEF ClaimRead, AttachState, AttachRecheck, Reconcile, ClaimPut, ClaimVerify,
      docs, world
<1>2. OnlyMoves(r) /\ loc'[r].pc \notin Exec
  BY ClaimGoes, NextIntentGoes, Labelled DEF TypeOK
<1> QED
  BY <1>1, <1>2, Away

LEMMA CommitAway ==
  ASSUME TypeOK, NEW r \in Runtimes,
         \/ ReleaseCheck(r) \/ ReleaseRemove(r)
         \/ CommitRead(r) \/ CommitFence(r) \/ CommitPut(r)
         \/ CommitReread(r) \/ CommitFail(r) \/ Acknowledge(r)
  PROVE  Quiet(r)
<1>1. GrantsStand
  BY GrantsUntouched
  DEF ReleaseCheck, ReleaseRemove, CommitRead, CommitFence, CommitPut,
      CommitReread, CommitFail, Acknowledge, docs, world
<1> QED
  BY <1>1, CommitGoes, Away, Labelled

\* A refused or failed execution goes on to its completion, a fault to the
\* catch of its await; neither comes back before the call.
LEMMA FailureQuiet ==
  ASSUME TypeOK, NEW r \in Runtimes, Crash(r) \/ StoreFault(r)
  PROVE  Quiet(r)
<1>1. OccurrencesOK
  BY DEF TypeOK
<1>2. GrantsStand
  BY GrantsUntouched DEF Crash, StoreFault, docs, world
<1>3. {"releaseCheck", "mintFail", "commitFail"} \subseteq Labels
  BY DEF Labels, EffectLabels, ReleaseLabels, CommitLabels
<1>4. ASSUME Return(r) PROVE Quiet(r)
  BY <1>1, <1>2, <1>4, ReturnGoes, Away, Labelled
<1>5. ASSUME Goto(r, "releaseCheck") \/ Goto(r, "commitFail")
      PROVE  Quiet(r)
  BY <1>1, <1>2, <1>3, <1>5, GotoGoes, Away, Labelled
<1>6. ASSUME At(r, "mint"), Goto(r, "mintFail") PROVE Quiet(r)
  <2>1. loc[r].pc = "mint" /\ loc[r].pc \in BeforeCall /\ loc[r].pc \in Exec
        /\ "mintFail" \notin PastClaim
    BY <1>6, Labelled DEF At, BeforeCall, PastClaim
  <2> QED
    BY <1>1, <1>2, <1>3, <1>6, <2>1, GotoGoes, Onward DEF OutcomeNamed
<1>7. ASSUME loc[r].pc \in {"dispatchClaim", "gatePermit", "gateJournal",
                            "gateFence"},
             ExecutorFailed(r, FALSE)
      PROVE  Quiet(r)
  <2>1. loc[r].pc \in Exec /\ "complete" \notin BeforeCall
        /\ "complete" \notin PastClaim
    BY <1>7, Labelled DEF BeforeCall, PastClaim
  <2> QED
    BY <1>1, <1>2, <1>7, <2>1, ExecutorFailedGoes, Onward
<1> QED
  BY <1>4, <1>5, <1>6, <1>7, FaultGoes

\* A record found by beginEffect is executed again only if the effect is
\* idempotent, and then from before its dispatch claim.
LEMMA ExistingQuiet ==
  ASSUME TypeOK, NEW r \in Runtimes, loc[r].pc \in {"beginRead", "beginPut"},
         GrantsStand, UseExisting(r, Current(r))
  PROVE  Quiet(r)
<1>1. OccurrencesOK /\ loc[r].ord + 1 \in Nat \ {0}
  BY DEF TypeOK, OccurrencesOK, Occurrence
<1>2. {"releaseCheck", "mint", "call"} \subseteq Labels
  BY DEF Labels, ReleaseLabels, EffectLabels
<1>3. CASE Return(r)
  BY <1>1, <1>3, ReturnGoes, Away, Labelled
<1>4. CASE Goto(r, "releaseCheck")
  BY <1>1, <1>2, <1>4, GotoGoes, Away, Labelled
<1>5. CASE NextIntent(r, loc[r].ord + 1)
  BY <1>1, <1>5, NextIntentGoes, Away, Labelled
<1>6. CASE /\ Intent(Current(r)).idempotent
           /\ \/ Goto(r, "mint")
              \/ Goto(r, "call") /\ ~Intent(Current(r)).external
  <2>1. /\ OnlyMoves(r) /\ OutcomeNamed(r)
        /\ \A e \in Effects : Executing(r, e)' => e = Current(r)
    BY <1>1, <1>2, <1>6, GotoGoes DEF Executing, Current, OutcomeNamed
  <2>2. CreatorQuiet(r)
    BY <1>6, <2>1 DEF CreatorQuiet
  <2>3. ClaimQuiet(r)
    <3>1. CASE Goto(r, "mint")
      <4>1. loc'[r].pc \notin PastClaim
        BY <1>1, <1>2, <3>1, GotoGoes DEF PastClaim
      <4> QED
        BY <4>1 DEF ClaimQuiet
    <3>2. CASE ~Intent(Current(r)).external
      BY <2>1, <3>2 DEF ClaimQuiet
    <3> QED
      BY <1>6, <3>1, <3>2
  <2> QED
    BY <2>1, <2>2, <2>3 DEF Quiet
<1> QED
  BY <1>3, <1>4, <1>5, <1>6 DEF UseExisting

\* Steps of an executing occurrence that create no grant and call nothing.
LEMMA EffectQuiet ==
  ASSUME TypeOK, OutcomeInv, NEW r \in Runtimes,
         \/ BeginRead(r) \/ Mint(r) \/ MintFail(r) \/ HandlerRefused(r)
         \/ GatePermit(r) \/ GateJournal(r) \/ GateFence(r)
         \/ GateRefused(r) \/ Consume(r) \/ Complete(r)
  PROVE  Quiet(r)
<1>1. OccurrencesOK /\ DocumentsOK
  BY DEF TypeOK
<1>2. {"beginPut", "mintFail", "dispatchClaim", "gateJournal", "gateFence",
       "call", "consume", "complete", "releaseCheck"} \subseteq Labels
  BY DEF Labels, EffectLabels, ReleaseLabels
<1>3. ASSUME GrantsStand, NEW l \in {"beginPut", "releaseCheck"}, Goto(r, l)
      PROVE  Quiet(r)
  BY <1>1, <1>2, <1>3, GotoGoes, Away, Labelled
<1>4. ASSUME GrantsStand, Return(r) PROVE Quiet(r)
  BY <1>1, <1>4, ReturnGoes, Away, Labelled
<1>5. ASSUME GrantsStand, NEW zero \in BOOLEAN, ExecutorFailed(r, zero),
             loc[r].pc \in Exec
      PROVE  Quiet(r)
  <2>1. "complete" \notin BeforeCall /\ "complete" \notin PastClaim
    BY DEF BeforeCall, PastClaim
  <2> QED
    BY <1>1, <1>5, <2>1, ExecutorFailedGoes, Onward
<1>6. ASSUME GrantsStand, loc[r].pc \in Exec,
             NEW l \in {"mintFail", "dispatchClaim", "gateJournal",
                        "gateFence", "call", "consume", "complete"},
             Goto(r, l),
             l \in BeforeCall => loc[r].pc \in BeforeCall,
             l \in PastClaim => loc[r].pc \in PastClaim,
             l \in {"consume", "complete"} =>
               loc[r].pc \in {"consume", "complete"}
      PROVE  Quiet(r)
  <2>1. OutcomeNamed(r)
    BY <1>1, <1>2, <1>6, GotoGoes DEF OutcomeNamed, OutcomeInv
  <2> QED
    BY <1>1, <1>2, <1>6, <2>1, GotoGoes, Onward
<1>7. CASE BeginRead(r)
  <2>1. GrantsStand /\ loc[r].pc = "beginRead"
    BY <1>7, GrantsUntouched DEF BeginRead, docs, world, At
  <2> QED
    BY <1>3, <1>7, <2>1, ExistingQuiet DEF BeginRead
<1>8. CASE Mint(r)
  <2>1. GrantsStand /\ loc[r].pc = "mint"
    BY <1>8, GrantsUntouched DEF Mint, world, At
  <2>2. /\ "mint" \in BeforeCall
        /\ "mintFail" \notin PastClaim /\ "dispatchClaim" \notin PastClaim
    BY DEF BeforeCall, PastClaim
  <2> QED
    BY <1>6, <1>8, <2>1, <2>2, Labelled DEF Mint
<1>9. CASE MintFail(r)
  <2>1. GrantsStand
    BY <1>1, <1>9, GrantsUntouched, StatusStands DEF MintFail, world
  <2> QED
    BY <1>3, <1>4, <1>9, <2>1 DEF MintFail
<1>10. CASE HandlerRefused(r) \/ GateRefused(r)
  <2>1. RefusedBeforeAdapter(r) /\ loc[r].pc \in Exec
    BY <1>10, Labelled DEF HandlerRefused, GateRefused, At
  <2>2. GrantsStand
    BY <2>1, GrantsUntouched DEF RefusedBeforeAdapter, docs, world
  <2> QED
    BY <1>5, <2>1, <2>2 DEF RefusedBeforeAdapter
<1>11. CASE GatePermit(r) \/ GateJournal(r) \/ GateFence(r)
  <2>1. GrantsStand
    BY <1>11, GrantsUntouched DEF GatePermit, GateJournal, GateFence, docs,
       world
  <2>2. loc[r].pc \in PastClaim /\ loc[r].pc \in BeforeCall
    BY <1>11 DEF GatePermit, GateJournal, GateFence, At, PastClaim, BeforeCall
  <2>3. \/ Goto(r, "gateJournal") \/ Goto(r, "gateFence") \/ Goto(r, "call")
    BY <1>11 DEF GatePermit, GateJournal, GateFence
  <2> QED
    BY <1>6, <2>1, <2>2, <2>3, Labelled
<1>12. CASE Consume(r)
  <2>1. GrantsStand /\ loc[r].pc = "consume"
    BY <1>12, GrantsUntouched DEF Consume, world, At
  <2>2. "complete" \notin BeforeCall /\ "complete" \notin PastClaim
    BY DEF BeforeCall, PastClaim
  <2>3. Return(r) \/ Goto(r, "complete") \/ Goto(r, "releaseCheck")
    BY <1>12 DEF Consume, Raise
  <2> QED
    BY <1>3, <1>4, <1>6, <2>1, <2>2, <2>3, Labelled
<1>13. CASE Complete(r)
  <2>1. loc[r].pc = "complete" /\ loc[r].ord + 1 \in Nat \ {0}
    BY <1>1, <1>13 DEF Complete, At, OccurrencesOK, Occurrence
  <2>2. GrantsStand
    <3>1. CASE UNCHANGED journal
      BY <1>13, <3>1, GrantsUntouched DEF Complete, world
    <3>2. CASE journal' = [journal EXCEPT ![Current(r)].status
                                            = loc[r].result]
      <4>1. loc[r].result # "none"
        BY <2>1 DEF OutcomeInv, Outcomes
      <4> QED
        BY <1>1, <1>13, <3>2, <4>1, StatusStands DEF Complete, world
    <3> QED
      BY <1>13, <3>1, <3>2 DEF Complete
  <2>3. "consume" \notin BeforeCall /\ "consume" \notin PastClaim
    BY DEF BeforeCall, PastClaim
  <2>4. \/ Return(r) \/ NextIntent(r, loc[r].ord + 1)
        \/ Goto(r, "consume") \/ Goto(r, "releaseCheck")
    BY <1>13 DEF Complete, AfterOutcome, Raise
  <2>5. CASE NextIntent(r, loc[r].ord + 1)
    BY <1>1, <2>1, <2>2, <2>5, NextIntentGoes, Away, Labelled
  <2> QED
    BY <1>3, <1>4, <1>6, <2>1, <2>2, <2>3, <2>4, <2>5, Labelled
<1> QED
  BY <1>7, <1>8, <1>9, <1>10, <1>11, <1>12, <1>13

-----------------------------------------------------------------------------
(* The steps that hand out and spend the right to call                      *)

\* The creator of a journal record is its only executor: before the create
\* nobody executed the effect.
LEMMA BeginPutKeeps ==
  ASSUME TypeOK, DispatchInv, NEW r \in Runtimes, BeginPut(r)
  PROVE  DispatchInv'
<1> DEFINE e0 == Current(r)
<1>1. OccurrencesOK /\ DocumentsOK /\ loc[r].pc = "beginPut"
  BY DEF TypeOK, BeginPut, At
<1>2. e0 \in Effects
  BY <1>1 DEF OccurrencesOK, EffectLabels
<1>3. {"mint", "call", "releaseCheck"} \subseteq Labels
  BY DEF Labels, EffectLabels, ReleaseLabels
<1>4. CASE Begun(e0)
  <2>1. GrantsStand
    BY <1>4, GrantsUntouched DEF BeginPut, world
  <2>2. UseExisting(r, e0) \/ Goto(r, "releaseCheck")
    BY <1>4 DEF BeginPut
  <2>3. CASE Goto(r, "releaseCheck")
    BY <1>1, <1>3, <2>1, <2>3, GotoGoes, Away, Labelled, QuietKept
  <2> QED
    BY <1>1, <2>1, <2>2, <2>3, ExistingQuiet, QuietKept
<1>5. CASE ~Begun(e0)
  <2>1. /\ journal' = [journal EXCEPT ![e0] =
                         [status |-> "started", input |-> loc[r].input]]
        /\ UNCHANGED <<claims, calls>>
        /\ Goto(r, IF Intent(e0).external THEN "mint" ELSE "call")
    BY <1>5 DEF BeginPut, world
  <2>2. /\ OnlyMoves(r)
        /\ loc'[r].pc = IF Intent(e0).external THEN "mint" ELSE "call"
        /\ \A e \in Effects : Executing(r, e)' => e = e0
        /\ OutcomeNamed(r)
    <3>1. (IF Intent(e0).external THEN "mint" ELSE "call") \in Labels
      BY <1>3
    <3> QED
      BY <1>1, <2>1, <3>1, GotoGoes DEF Executing, Current, OutcomeNamed
  <2>3. GrantsStand /\ journal'[e0].status # "none"
    BY <1>1, <1>2, <2>1 DEF GrantsStand, Begun, DocumentsOK
  <2>4. ClaimQuiet(r)
    BY <2>2 DEF ClaimQuiet, PastClaim
  <2>5. CreatorInv'
    <3> SUFFICES ASSUME NEW e \in Effects, ~Intent(e).idempotent
                 PROVE  /\ ~Begun(e)' => calls'[e] = 0
                        /\ calls'[e] <= 1
                        /\ \A q \in Runtimes : Executing(q, e)' =>
                             /\ Begun(e)'
                             /\ loc'[q].pc \in BeforeCall => calls'[e] = 0
                             /\ \A p \in Runtimes :
                                  Executing(p, e)' => p = q
      BY DEF CreatorInv, Intent, Effects
    <3>1. CASE e = e0
      <4>1. calls'[e] = 0 /\ Begun(e)'
        BY <1>5, <2>1, <2>3, <3>1 DEF DispatchInv, CreatorInv, Begun
      <4>2. \A q \in Runtimes : Executing(q, e)' => q = r
        BY <1>5, <2>2, <3>1, OthersExecute DEF DispatchInv, CreatorInv
      <4> QED
        BY <4>1, <4>2
    <3>2. CASE e # e0
      <4>1. \A q \in Runtimes : Executing(q, e)' =>
              Executing(q, e) /\ loc'[q] = loc[q]
        BY <2>2, <3>2, OthersExecute
      <4>2. calls'[e] = calls[e] /\ (Begun(e) => Begun(e)')
        BY <2>1, <2>3 DEF GrantsStand
      <4> QED
        BY <4>1, <4>2 DEF DispatchInv, CreatorInv
    <3> QED
      BY <3>1, <3>2
  <2> QED
    BY <2>2, <2>3, <2>4, <2>5, ClaimKept, OutcomeKept DEF DispatchInv
<1> QED
  BY <1>4, <1>5

\* The creator of a dispatch claim is the only one past it: before the create
\* nobody was, and nothing was called.
LEMMA DispatchClaimKeeps ==
  ASSUME TypeOK, DispatchInv, NEW r \in Runtimes, DispatchClaim(r)
  PROVE  DispatchInv'
<1> DEFINE e0 == Current(r)
<1>1. OccurrencesOK /\ loc[r].pc = "dispatchClaim" /\ loc[r].pc \in Exec
  BY Labelled DEF TypeOK, DispatchClaim, At
<1>2. "gatePermit" \in Labels
  BY DEF Labels, EffectLabels
<1>3. CASE e0 \in claims
  <2>1. GrantsStand /\ ExecutorFailed(r, FALSE)
    BY <1>3, GrantsUntouched DEF DispatchClaim, world
  <2>2. "complete" \notin BeforeCall /\ "complete" \notin PastClaim
    BY DEF BeforeCall, PastClaim
  <2> QED
    BY <1>1, <2>1, <2>2, ExecutorFailedGoes, Onward, QuietKept
<1>4. CASE e0 \notin claims
  <2>1. /\ claims' = claims \cup {e0}
        /\ UNCHANGED <<journal, calls>>
        /\ Goto(r, "gatePermit")
    BY <1>4 DEF DispatchClaim, world
  <2>2. /\ OnlyMoves(r)
        /\ loc'[r].pc = "gatePermit"
        /\ \A e \in Effects : Executing(r, e)' => e = e0 /\ Executing(r, e)
        /\ OutcomeNamed(r)
    BY <1>1, <1>2, <2>1, GotoGoes
    DEF Executing, Current, OutcomeNamed, Exec
  <2>3. GrantsStand
    BY <2>1 DEF GrantsStand, Begun
  <2>4. CreatorQuiet(r)
    BY <1>1, <2>2 DEF CreatorQuiet, BeforeCall
  <2>5. ClaimInv'
    <3> SUFFICES ASSUME NEW e \in Effects, Intent(e).external
                 PROVE  /\ e \notin claims' => calls'[e] = 0
                        /\ calls'[e] <= 1
                        /\ \A q \in Runtimes :
                             Executing(q, e)' /\ loc'[q].pc \in PastClaim =>
                               /\ e \in claims'
                               /\ calls'[e] = 0
                               /\ \A p \in Runtimes :
                                    /\ Executing(p, e)'
                                    /\ loc'[p].pc \in PastClaim
                                    => p = q
      BY DEF ClaimInv, Intent, Effects
    <3>1. CASE e = e0
      <4>1. calls'[e] = 0 /\ e \in claims'
        BY <1>4, <2>1, <3>1 DEF DispatchInv, ClaimInv
      <4>2. \A q \in Runtimes :
              Executing(q, e)' /\ loc'[q].pc \in PastClaim => q = r
        BY <1>4, <2>2, <3>1, OthersExecute DEF DispatchInv, ClaimInv
      <4> QED
        BY <4>1, <4>2
    <3>2. CASE e # e0
      <4>1. \A q \in Runtimes : Executing(q, e)' =>
              Executing(q, e) /\ loc'[q] = loc[q]
        BY <2>2, <3>2, OthersExecute
      <4>2. calls'[e] = calls[e] /\ (e \in claims' <=> e \in claims)
        BY <2>1, <3>2
      <4> QED
        BY <4>1, <4>2 DEF DispatchInv, ClaimInv
    <3> QED
      BY <3>1, <3>2
  <2> QED
    BY <2>2, <2>3, <2>4, <2>5, CreatorKept, OutcomeKept DEF DispatchInv
<1> QED
  BY <1>3, <1>4

\* A call spends the right of its caller, who alone had it.
LEMMA CallKeeps ==
  ASSUME TypeOK, DispatchInv, NEW r \in Runtimes, Call(r)
  PROVE  DispatchInv'
<1> DEFINE e0 == Current(r)
<1>1. /\ loc \in [Runtimes -> Occurrence]
      /\ OccurrencesOK
      /\ loc[r].pc = "call"
      /\ calls \in [Effects -> 0..2]
  BY DEF TypeOK, OccurrencesOK, ObservedOK, Call, At
<1>2. e0 \in Effects /\ Executing(r, e0)
  BY <1>1 DEF OccurrencesOK, EffectLabels, Executing
<1>3. /\ calls'[e0] = IF calls[e0] < 2 THEN calls[e0] + 1 ELSE 2
      /\ \A e \in Effects : e # e0 => calls'[e] = calls[e]
      /\ UNCHANGED <<journal, claims>>
  BY <1>1, <1>2 DEF Call, docs
<1>4. /\ OnlyMoves(r)
      /\ loc'[r].pc \in {"consume", "complete"}
      /\ \A e \in Effects : Executing(r, e)' => e = e0
      /\ OutcomeNamed(r)
  <2>1. CASE ExecutorFailed(r, FALSE)
    BY <1>1, <2>1, ExecutorFailedGoes DEF Executing, Current
  <2>2. CASE loc' = [loc EXCEPT ![r].pc = IF Intent(e0).external
                                            THEN "consume" ELSE "complete",
                                ![r].result = "completed"]
    <3>1. /\ OnlyMoves(r)
          /\ loc'[r].pc = IF Intent(e0).external THEN "consume"
                                                  ELSE "complete"
          /\ loc'[r].result = "completed"
          /\ loc'[r].turn = loc[r].turn
          /\ loc'[r].ord = loc[r].ord
      BY <1>1, <2>2 DEF OnlyMoves, Occurrence
    <3> QED
      BY <3>1 DEF Executing, Current, OutcomeNamed, Outcomes
  <2> QED
    BY <2>1, <2>2 DEF Call
<1>5. loc'[r].pc \notin BeforeCall /\ loc'[r].pc \notin PastClaim
  BY <1>4 DEF BeforeCall, PastClaim
<1>6. loc[r].pc \in BeforeCall /\ loc[r].pc \in PastClaim
  BY <1>1 DEF BeforeCall, PastClaim
<1>7. \A e \in Effects : Begun(e)' <=> Begun(e)
  BY <1>3 DEF Begun
<1>8. CreatorInv'
  <2> SUFFICES ASSUME NEW e \in Effects, ~Intent(e).idempotent
               PROVE  /\ ~Begun(e)' => calls'[e] = 0
                      /\ calls'[e] <= 1
                      /\ \A q \in Runtimes : Executing(q, e)' =>
                           /\ Begun(e)'
                           /\ loc'[q].pc \in BeforeCall => calls'[e] = 0
                           /\ \A p \in Runtimes : Executing(p, e)' => p = q
    BY DEF CreatorInv, Intent, Effects
  <2>1. CASE e = e0
    <3>1. Begun(e) /\ calls[e] = 0
      BY <1>2, <1>6, <2>1 DEF DispatchInv, CreatorInv
    <3>2. \A q \in Runtimes : Executing(q, e)' => q = r
      BY <1>2, <1>4, <2>1, OthersExecute DEF DispatchInv, CreatorInv
    <3>3. calls'[e] = 1
      BY <1>3, <2>1, <3>1
    <3> QED
      BY <1>5, <1>7, <3>1, <3>2, <3>3
  <2>2. CASE e # e0
    <3>1. \A q \in Runtimes : Executing(q, e)' =>
            Executing(q, e) /\ loc'[q] = loc[q]
      BY <1>4, <2>2, OthersExecute
    <3> QED
      BY <1>3, <1>7, <2>2, <3>1 DEF DispatchInv, CreatorInv
  <2> QED
    BY <2>1, <2>2
<1>9. ClaimInv'
  <2> SUFFICES ASSUME NEW e \in Effects, Intent(e).external
               PROVE  /\ e \notin claims' => calls'[e] = 0
                      /\ calls'[e] <= 1
                      /\ \A q \in Runtimes :
                           Executing(q, e)' /\ loc'[q].pc \in PastClaim =>
                             /\ e \in claims'
                             /\ calls'[e] = 0
                             /\ \A p \in Runtimes :
                                  Executing(p, e)' /\ loc'[p].pc \in PastClaim
                                    => p = q
    BY DEF ClaimInv, Intent, Effects
  <2>1. CASE e = e0
    <3>1. e \in claims /\ calls[e] = 0
      BY <1>2, <1>6, <2>1 DEF DispatchInv, ClaimInv
    <3>2. \A q \in Runtimes :
            ~(Executing(q, e)' /\ loc'[q].pc \in PastClaim)
      BY <1>2, <1>5, <1>6, <2>1, <1>4, OthersExecute
      DEF DispatchInv, ClaimInv
    <3>3. calls'[e] = 1
      BY <1>3, <2>1, <3>1
    <3> QED
      BY <1>3, <3>1, <3>2, <3>3
  <2>2. CASE e # e0
    <3>1. \A q \in Runtimes : Executing(q, e)' =>
            Executing(q, e) /\ loc'[q] = loc[q]
      BY <1>4, <2>2, OthersExecute
    <3> QED
      BY <1>3, <2>2, <3>1 DEF DispatchInv, ClaimInv
  <2> QED
    BY <2>1, <2>2
<1> QED
  BY <1>4, <1>8, <1>9, OutcomeKept DEF DispatchInv

-----------------------------------------------------------------------------
(* The theorem                                                              *)

LEMMA InitDispatch == Init => DispatchInv
BY DEF Init, Idle, DispatchInv, CreatorInv, ClaimInv, OutcomeInv, Executing,
       EffectLabels

LEMMA StutterDispatch == DispatchInv /\ UNCHANGED vars => DispatchInv'
BY DEF vars, docs, world, DispatchInv, CreatorInv, ClaimInv, OutcomeInv,
       Executing, Current, Begun, Intent, Effects

LEMMA NextDispatch == TypeOK /\ DispatchInv /\ [Next]_vars => DispatchInv'
<1> SUFFICES ASSUME TypeOK, DispatchInv, Next PROVE DispatchInv'
  BY StutterDispatch
<1>1. PICK r \in Runtimes :
        \/ \E t \in Turns, i \in Inputs : Submit(r, t, i)
        \/ Step(r) \/ Crash(r) \/ StoreFault(r)
  BY DEF Next
<1>2. CASE \/ \E t \in Turns, i \in Inputs : Submit(r, t, i)
           \/ ReadFenceRevision(r) \/ ReplayReceipt(r) \/ Decline(r)
           \/ Decide(r)
  BY <1>2, StartAway, QuietKept
<1>3. CASE \/ ClaimRead(r) \/ AttachState(r) \/ AttachRecheck(r)
           \/ Reconcile(r) \/ ClaimPut(r) \/ ClaimVerify(r)
  BY <1>3, ClaimAway, QuietKept
<1>4. CASE \/ BeginRead(r) \/ Mint(r) \/ MintFail(r) \/ HandlerRefused(r)
           \/ GatePermit(r) \/ GateJournal(r) \/ GateFence(r)
           \/ GateRefused(r) \/ Consume(r) \/ Complete(r)
  BY <1>4, EffectQuiet, QuietKept DEF DispatchInv
<1>5. CASE BeginPut(r)
  BY <1>5, BeginPutKeeps
<1>6. CASE DispatchClaim(r)
  BY <1>6, DispatchClaimKeeps
<1>7. CASE Call(r)
  BY <1>7, CallKeeps
<1>8. CASE \/ ReleaseCheck(r) \/ ReleaseRemove(r)
           \/ CommitRead(r) \/ CommitFence(r) \/ CommitPut(r)
           \/ CommitReread(r) \/ CommitFail(r) \/ Acknowledge(r)
  BY <1>8, CommitAway, QuietKept
<1>9. CASE Crash(r) \/ StoreFault(r)
  BY <1>9, FailureQuiet, QuietKept
<1> QED
  BY <1>1, <1>2, <1>3, <1>4, <1>5, <1>6, <1>7, <1>8, <1>9 DEF Step

\* The rights to call are held by their creators alone, in every behaviour
\* (executeEffectIntents, effectTools.execute).
THEOREM DispatchInvariant == Spec => []DispatchInv
BY InitDispatch, NextDispatch, TypeCorrect, PTL DEF Spec

\* A non-idempotent effect and an external effect reach their adapter at most
\* once, for any number of runtimes, retries, crashes and faults
\* (KernelDurableEffectJournal.beginEffect, claimExternalDispatch).
THEOREM SingleDispatchHolds == Spec => []SingleDispatch
<1>1. DispatchInv => SingleDispatch
  BY DEF DispatchInv, CreatorInv, ClaimInv, SingleDispatch
<1> QED
  BY <1>1, DispatchInvariant, PTL
=============================================================================
