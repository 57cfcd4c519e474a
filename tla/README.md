# Verification of the DomainHarness kernel

DomainHarness runs business turns: a client sends an intent for an instance of
a workflow, the kernel admits the turn, executes its effects and moves the
state of the instance by one compare-and-swap. The system promises that a turn
is admitted once, over effects that happened, and is answered with its original
receipt, although several Host processes share one document store, any of them
may crash at any await, store accesses may fail and clients send again. Around
the kernel, a Host pins an occurrence to the BUILD that serves it, and keeps
durable records of external work, child instances and poisoned messages. This
directory holds TLA+ models of that machinery, TLC configurations that check
them, and TLAPS proofs.

Source references below are to `src/domain-packages/kernel/basic/kernel-mechanism-v1.mjs`
("K") unless a file is named.

## 1. Inventory

| Component | State it keeps | Operations | Modelled in |
|---|---|---|---|
| Central admission (K 5957-6443, 1366-1500, 3105-3400) | instance document, admission fence | submitOccurrence, claim, commit, release | KernelAdmission |
| Effect journal, permits, dispatch claims (K 1089-1364, 2204-2376, 5630-5890) | one document per effect each | begin, complete, mint, consume, claim | KernelAdmission |
| External effect gate (`microkernel/src/internal/external-effect.ts`, K 6602-6749) | none; re-reads permit, journal, fence, claim | dispatch, refusal attestations | KernelAdmission |
| Replay ladder (K 5377-5600) | turn dispositions, ring, archive, history | replay, heal | KernelAdmission, OriginalReceiptRing |
| Original receipt ring (K 3286-3500) | ring and history in the instance document, archive documents | append, archive, evict | OriginalReceiptRing |
| Subscription registry (`microkernel/src/internal/subscription-runtime.ts`) | registrations, queues, one pump each | register, observe, unsubscribe, stopAll | SubscriptionRegistry |
| Authorized query (`microkernel/src/internal/multib-query.ts`) | none | authorize twice, read | SubscriptionRegistry (partly) |
| Activation facade (`microkernel/src/internal/activation.ts`) | closed flag, documents port | send, query, subscribe, close | where it meets the above |
| Document stores (`host-node/src/sqlite-*.ts`) | key -> value and revision | get, put, remove, list | as the documents of each module |
| Per-instance lane (K 2399-2420) | promise chain per instance | run | InstanceLifecycle; assumed by KernelAdmission |
| Genesis, governance pin, baselines (K 3030-3057, 3743-3860, 5253-5266, 5905-5925) | instance, baseline, pin | openInstance | InstanceLifecycle (one policy) |
| HF20 observation window (K 2423-2698, 6465-6496) | bounded window in the instance | append, read from cursor | InstanceLifecycle |
| Decision sources and cache, cancellation latch, predicates | cache, receipts | evaluate | the choices Decide and Decline |
| Occurrence BUILD pins (`host-node/src/deployment.ts` 1131-1595) | pin with reservation, writer slot and submits in flight | send, recoverReservation | OccurrencePin |
| Durable controls (`host-node/src/durable-controls.ts`, `domain-harness/src/host-v8/kernel-gateway.ts` 1644-2151) | external work, child invocation, poison documents | eight gateway verbs | DurableControls |
| Meta feedback, scoped memory (`host-node`) | rounds, memory documents | run, put, get | not modelled |
| Shadow L4, evidence, bundles, contracts, SDK, capabilities, compiler, legacy packages | none of the above | pure or sequential I/O | not modelled |

How they interact. `send` of the facade enters the kernel runtime of one
Business; the lane runs one occurrence per instance and runtime at a time.
Everything durable is a document of the shared store, reached through the
documents port of the activation; each access is an await. Effects leave
through resource ports; an external one passes the gate, which reads the
kernel's documents again. Receipts are observed synchronously and fan out to
subscriptions. Two runtimes never talk to each other: they meet in the store.
Above the kernel, a governed send reserves the occurrence for a BUILD, submits,
and settles the pin from the kernel's receipt or from its durable receipts; a
durable control settles its own document first and then submits the turn that
the document stores, under a message id that is always the same, so that the
replay ladder makes every repetition harmless.

What is hard. Every await is a point where another runtime runs, where the
process may die, and where the store may refuse. There is no transaction over
two documents, so an admission is a protocol of some twenty steps over six
kinds of documents. Documents that are removed and created again start at
revision 0. The hazards are listed line by line in `PROJECT.json`.

What makes each part correct: admission is once-only, ordered, answered with
the original (OnceOnlyAdmission, AnswersAreOriginal); an effect that must not
be repeated is dispatched once (SingleDispatch); an admitted turn rests on
settled effects of its own input (AdmittedEffectsSettled, IntentsInOrder,
SettledOutcomeStands, SettledPermitDead); no fence wedges an instance
(EffectFreeTurnsAdmitted); no receipt is forgotten when the ring is cut
(NeverForgotten); a target that admitted is never served by another BUILD, and a
reservation is removed only when nobody can be admitted under it
(AdmittedIsPinned, MayAdmitIsRegistered); a correlation, an invocation and a
recovery get one outcome and the kernel no other turn (Promised), resolved at
last (Resolved); turns of one lane run in order (LaneOrder, ChainedIsRun) and a
reader of the mutations misses nothing silently (SeenOrMissed); a listener hears everything in order while it is subscribed,
and nothing afterwards (NothingLost, EndedIsSilent, FreshVerdict).

## 2. Modules

| Module | What it is |
|---|---|
| `OnceOnly` | abstract specification: what admission promises, without fences, journals, snapshots, crashes |
| `KernelAdmission` | the protocol of one instance, shared by any number of runtimes |
| `KernelAdmissionInv` | inductive invariants of KernelAdmission |
| `KernelAdmissionProofs` | type correctness, once-only admission and original answers |
| `KernelAdmissionDispatch` | single dispatch |
| `KernelAdmissionSettled` | admission only over settled effects, the order of effects, what a zero-effect proof means, and that the protocol implements OnceOnly |
| `MCKernelAdmission` | constants for TLC: one intent plan per question |
| `OriginalReceiptRing`, `MCReceiptRing` | the store of original receipts behind `receipts` of KernelAdmission |
| `OriginalReceiptRingProofs` | proofs about the ring and its archive |
| `SubscriptionRegistry`, `MCSubscriptions` | registry, pump, and the subscribe, query and close of the facade |
| `SubscriptionRegistryProofs` | proofs about the registrations and their pumps |
| `OccurrencePin`, `MCOccurrencePin` | the BUILD pin of one occurrence, over a kernel that admits a message once |
| `OccurrencePinProofs` | proofs about the pin, its calls and the admissions under it |
| `OneOutcome` | abstract specification: what the durable controls promise |
| `DurableControls`, `MCDurableControls` | external work, child invocations, poison recovery, over a kernel that admits a message once |
| `DurableControlsProofs` | proofs about the durable controls, and that they implement OneOutcome |
| `InstanceLifecycle`, `MCInstanceLifecycle` | opening of instances, the lane, the observation window and its readers |
| `InstanceLifecycleProofs` | proofs about the window, its readers and the lane |

Operators whose comment begins with "Broken form" are plausible mistakes in
the definition that follows them. No specification uses them; they show that
each property can fail.

### KernelAdmission

Documents are variables (`stateRev`, `receipts`, `fence`, `journal`, `permit`,
`claims`, `disp`), the outside world is `calls` and `landed`, a runtime's
occurrence is a record in `loc` whose `pc` names the await it stands at, and
`acks` collects every answer given to a client. An action is what the code does
between two awaits that other runtimes can tell apart:

- `Submit`, `ReadFenceRevision`: the two separate reads at the start.
- `ReplayReceipt`, `Decline`, `Decide`: the ladder, and what the evaluation of
  the turn may come to. Rules, guards, invariants and cancellation are the
  choice between Decide and Decline.
- `ClaimRead`, `AttachState`, `AttachRecheck`, `Reconcile`, `ClaimPut`,
  `ClaimVerify`: claimAdmissionFence, its attachment of a turn to its own
  fence, and the takeover by a recovery turn.
- `BeginRead`, `BeginPut`, `Mint`, `MintFail`, `HandlerRefused`,
  `RefusedBeforeAdapter`, `DispatchClaim`, `GatePermit`, `GateJournal`,
  `GateFence`, `GateRefused`, `Call`, `Consume`, `Complete`: one effect.
- `ReleaseCheck`, `ReleaseRemove`: the failure policy of the fence.
- `CommitRead`, `CommitFence`, `CommitPut`, `CommitReread`, `CommitFail`,
  `Acknowledge`: the commit.
- `Crash` loses the occurrence and keeps the documents; `StoreFault` makes the
  access at hand throw, with the catch of that await.

Reads and writes that are one step, and why that loses nothing:

- completeEffect and consume read a document and CAS it: a started record and
  a live permit move once, and the CAS is on the revision read, so a change in
  between is what the action finds anyway.
- DurablyFailed reads several journal documents: the intents run in order, so
  the last begun record decides, and a failed record never changes.
- The dispatcher's second read of the claim is merged with its creation:
  claims are never removed.

Simplifications of data: an input is a model value; an effect is a pair of turn
and ordinal with two flags; a handler makes at most one port call and does not
swallow a refusal; `landed` says that the resource took the change, whether its
envelope is terminal or, where the effect does not await that, still accepted or
running: the code takes both for success. A fault is
an access without effect: a write that lands and whose acknowledgement is lost
is not modelled. The decision cache, decision receipts, counters and
governance checks do not appear: they write nothing that admission reads.

### OriginalReceiptRing

`receipts` of KernelAdmission is, in the code, a bounded ring in the instance
document and one archive document per evicted entry. The module composes the
next ring before the commit, one await per evicted entry, and lets every
runtime commit at any time: only the CAS on the revision orders them, so what
is proved of the ring does not lean on the fence. `log` is a history variable:
every receipt that was ever committed.

### SubscriptionRegistry

One thread; a step is what runs between two awaits, and a promise of the Host
settles in a step of its own. `at` says which await of a subscription is under
way. `enqueued`, `delivered` and `okSince` are history variables. The Host's
permission may be revoked and granted at any time, any authorization may fail,
and a listener may unsubscribe or stop the facade while it is called.

### OccurrencePin

One target. `pin` is the pin document with its revision; `admitted` says which
BUILD's kernel admitted a message, which is what the admission witness reads
(the instance's ring, then its archive: by OriginalReceiptRing a receipt is in
one of them, so one step stands for the two reads). A call of send goes through
`ReadPinToSend`, `Join` (the create or the CAS), `Evaluate`, one of `Admit`,
`Deny` and `Fail`, `Settle`, and then either `ReadPinToCommit`, `Commit` or
`ReadPinToConclude`, `Recheck`, `Remove` / `Deregister`, each loop with its
bounded rounds. A submit that failed ambiguously, or whose process died, may
still land later (`LandLate`). `Recover`, `Weigh`, `Free` are
recoverReservation. A message stands for message id, intent and input; UNKNOWN
and a thrown submit are one outcome. `Starts` gives the pins a run starts with:
none, or a reservation of an earlier version that keeps no set of submits; on
such a reservation submits are not counted, and no Host can truthfully assert
that all of them have terminated. `bound` of a call is the code's intentBound:
whether the reservation it joined names its intent.

`rev` is the revision the store gives a document, `ver` a history field that
tells every written document from every other. Both stores of the repository
give a document that is created again revision 0, so that one revision can
stand for two documents; the conditions of a write (`Unchanged`) compare `rev`
if `host.restarts`, and `ver` in a store that never reuses a revision. Of the
Host's two assertions, that all attempts have terminated is truthful of the
reservation that recovery reads, as the code demands of it; that the prior
writer has terminated may be false, which the code claims to survive. `Spec`
has every such behaviour. `RelySpec` has those in which no write takes the
revision of another document for the one it read (`Fenced`, which holds of
every step where the store reuses none or the Host cannot remove a pin) and no
live writer whose roles exclude its message is declared terminated
(`Truthful`); other false assertions stay. A behaviour of `Spec` is one of
`RelySpec` up to its first step that breaks one of the two, so what is shown of
`RelySpec` holds of the code until that step; the two findings about the pin
show what such a step does.

### DurableControls

`doc` holds the document of each external correlation, child invocation and
poisoned message; it is created once, never removed, and changes by CAS. A call
is one gateway verb with a principal's roles: it reads the document to check
the role (`Ask`), settles in the load-decide-swap loop (`LoadToSettle`,
`Swap`), submits (`Answered`, `Refused`, `Throws`, `Conflicts`) and marks. A
submission that throws may do so once or for ever: `stuck` holds the messages
the Kernel throws for whenever they come. From the start these are the ones for
an instance that nobody opens (registration does not look for it), later those
whose turn was left with a failed or ambiguous effect, or which meet the fence
such a turn keeps. Whether a throw is passing or final is a choice of the step,
so a turn that a recovery frees again is one that threw a few times. `Refused`
rejects a child invocation for a permanent refusal of this send, also when an
earlier send of it was admitted, as the code does.
`Send` and `Allocate` are the counting and creation of an invocation, `Sweep`
and `SweepNext` recoverDueAndSettled. `turns` is what the kernel admitted, one
input per message; `told` the messages it has answered. `due` stands for the
clock having passed the deadlines. A plan is the set of calls of a behaviour.
`KeysOf` is the documents a verb addresses: the three coordinators name their
keys with prefixes that no other shares. OneOutcome has no documents: a key
gets an outcome, and only its turn is admitted.

### InstanceLifecycle

Several instances of one Business policy, hence one shared baseline document,
and a lane for every host and instance. `Look`, `Create`, `ReadBaseline`,
`PutBaseline`, `Bind` are the opening inside send, `Enqueue` the chaining in
the lane, `Start`, `Decide`, `Commit`, `Fail` the turn, `Forget` the removal of
the tail, `Read` a reader's page. The window rides in the instance document and
moves in `Create` and `Commit`, as in the code. `chained` counts the
calls of a lane, so that each has a place in its order.

## 3. Runs

Passing runs:

| Run | Instance | What it shows |
|---|---|---|
| two_hosts | 2 runtimes, a turn with a non-idempotent external effect and a declinable effect-free turn, 1 crash, 1 fault | types, once-only, settled effects, original answers, the zero-effect mark of non-idempotent effects, refinement of OnceOnly |
| ordered_intents | 1 turn with an external and an idempotent intent, two inputs, 1 crash, lost creates reported as conflicts | order of intents, settled outcomes stand, no live permit under a settled effect |
| reconciled_turn | an idempotent external effect, a recovery turn, 1 crash | single dispatch through the claim document, although two runtimes may execute |
| effect_free_liveness | 2 effect-free turns, 2 crashes, fairness | every effect-free turn is admitted |
| receipt_ring | ring of 2, 4 turns, 2 inputs, 2 archive faults, 1 crash | nothing forgotten, nothing twice, growth by faults only |
| subscriptions | 1 subscribe call, queue of 2, 4 receipts, an advancing instance, 2 authorization changes, fairness | nothing lost, nothing after the end, fresh verdicts, every receipt is answered or the subscription ends |
| pin_kept | 3 sends, 2 BUILDs, 2 messages, 1 recovery, 2 submits in flight, 2 rounds, crashes anywhere, 5 starting situations over both kinds of store, under RelySpec | an admitted target stays pinned, every submit that may be admitted is registered, denials free the target, an admitted pin is immutable |
| durable_controls | 6 plans of 5 calls, instances opened or not, 1 throw that is passing or final, 1 crash, fairness | one outcome per key (refinement of OneOutcome), settlement with role, marks after answers, terminals after turns, resolution |
| instance_lifecycle | 4 turns in 2 lanes of 1 instance, window of 2, 1 fault, 1 crash, fairness | gaps are always reported, lanes keep their order and run to the end |

Runs that show a disagreement between the code and what its documents say (the
findings in `PROJECT.json` quote both):

| Run | What TLC finds |
|---|---|
| pin_restart | over the stores of the repository, whose re-created documents have revision 0, with a Host that asserts nothing, a stale join writes the reservation of one BUILD over that of another |
| pin_false_assertion | even over a store that never reuses a revision: after a false priorWriterTerminated two attempts own the reservation of a message that their roles exclude: each compensates, and the second removes the reservation that another message has made meanwhile, under its live submit |
| genesis_race | two first instances of one policy opened at once: one stays without a governance pin and can never admit a turn |

pin_restart and pin_false_assertion check `Spec`, pin_kept `RelySpec`: the first
violation is a step that is not `Fenced`, the second one that is not
`Truthful`, each with the other condition true. pin_kept has both kinds of
store and lets the Host assert falsely where the two conditions allow it.

In the module of the kernel the same habit of the store weakens the fence: a
release and a claim name a revision, so a stale claim may overwrite the fence
that another runtime holds. The properties of admission do not lean on the
fence for that reason: two_hosts lets it happen, and the state CAS carries the
guarantee alone.

Three bounds are also boundaries of what holds, and raising them shows it.
`MaxFaults = 0` in effect_free_liveness: with one fault TLC finds two runtimes
that delete each other's re-created fence for ever, for a release names a
document revision and every re-created fence has revision 0. `KeyExistsCode =
TRUE` in receipt_ring: over a store whose lost create is reported as
HOST_CAS_CONFLICT, an archive written before a crash is not recognised and the
ring grows without a fault. And `Resolved` speaks of a sweep that holds the
roles of both intents, and excuses a correlation whose own turn, or that of one
before it, throws for ever: recoverDueAndSettled stops at the first submission
that throws, whatever the reason, and every sweep stops there again. An instance
that was never opened is such a reason, and so is an ambiguous effect. That is
how the code resolves correlations and no more; the property shows that nothing
else, no crash, lost race or passing error, leaves one unanswered.

Bounds. Two runtimes are enough for every race between two documents the code
has: an await separates two accesses of one occurrence, and a third runtime
would repeat what the second does. Two or three turns let one be ahead of, or
in the way of, another. One crash and one fault interrupt one protocol run at
each await; a second crash is allowed where liveness depends on repeated
recovery. The ring holds two entries, so that both entries of it can be
evicted and the entry being added is distinct from the evicted one; the code's
64 and 16 differ in size only, and the model keeps their order. Queues of one
or two show the overflow with an event in hand and with events behind it.
Bounds on crashes, faults, receipts, revisions and authorization changes are
constants with names that begin with Max. In pin_kept a third send is what
makes a denied submit meet a joining one and an ambiguous one; two rounds show
a retry and the last one; two submits in flight show the limit. The plans of
durable_controls put every pair of verbs that can race on one document beside
each other, with one sweep that may start again and again. In
instance_lifecycle three turns in a lane let the tail be dropped while one runs
and another waits, a window of two truncates at the third record, and a turn of
another host commits in between. Subscriptions are checked with one subscribe
call: only a publication and the stop of the facade touch several, and both
treat each alike; the safety of any number is proved. Runtimes, turns of the
ring and attempts of one BUILD are interchangeable and declared symmetric in
the safety runs; the liveness runs use no symmetry. Deadlock is not checked in
subscriptions (after stop, and after the bounded number of receipts, the
registry rightly rests), nor in the runs of the pin, the durable controls and
the lifecycle, whose calls end.

Fairness. `Step(r)` of a runtime is weakly fair: an occurrence that was begun
is continued by the event loop, unless the process dies. `Submit` is strongly
fair: a client sends its turn again until it is acknowledged, which is what the
replay ladder is there for; a turn can be submitted again and again but not
continuously, for the lane is busy in between. Crashes and faults are bounded
and never fair. In SubscriptionRegistry the steps of a subscription are weakly
fair: promises of the Host settle. Nothing in the code enforces that (no
timeout), so it is an assumption about the Host. In DurableControls time passes
and a sweep that is called again and again is allowed to run: the code offers
recoverDurableControls and leaves the calling to the Host, so this too is an
assumption. In InstanceLifecycle the turn of a call is weakly fair on a host
that lives.

## 4. Proofs

For every value of the constants (any number of runtimes, turns, inputs, any
finite plan of intents, any number of crashes and faults):

- `TypeCorrect`: `Spec => []TypeOK`.
- `AdmissionInvariant`: `Spec => []AdmissionInv`.
- `OnceOnlyHolds`: `Spec => []OnceOnlyAdmission`.
- `AnswersHold`: `Spec => []AnswersAreOriginal`.
- `DispatchInvariant`: `Spec => []DispatchInv`.
- `SingleDispatchHolds`: `Spec => []SingleDispatch`.
- `SettlementInvariant`: `Spec => []SettlementInv`.
- `AdmittedSettledHolds`: `Spec => []AdmittedEffectsSettled`.
- `SettledPermitHolds`: `Spec => []SettledPermitDead`.
- `IntentsKeepOrder`: `Spec => []IntentsInOrder`.
- `ZeroEffectIsTrue`: `Spec => []ZeroProofNonIdempotent`.
- `OutcomesStand`: `Spec => SettledOutcomeStands`.
- `AdmissionImplementsOnceOnly`: `Spec => ImplementsOnceOnly`, the refinement.

They assume TurnAssumption, IntentAssumption and BoundAssumption of
KernelAdmission, which TLC evaluates in every run of it. Of InstanceLifecycle,
for any hosts, instances, calls, readers, retention and page sizes, from
LifecycleAssumption:

- `TypeCorrect`: `Spec => []TypeOK`.
- `ReaderMissesNothing`: `Spec => []SeenOrMissed`.
- `LaneIsOrdered`: `Spec => []LaneOrder`.

Of OriginalReceiptRing, for any ring bound, runtimes, turns, inputs, faults,
from RingAssumption:

- `TypeCorrect`: `Spec => []TypeOK`.
- `NothingForgotten`: `Spec => []NeverForgotten`.
- `AdmissionIsOnce`: `Spec => []AdmittedOnce`.
- `RingStaysSuffix`: `Spec => []RingIsSuffix`.
- `ArchivesAreAdmitted`: `Spec => []ArchivedWasAdmitted`.
- `GrowthIsByFaults`: `KeyExistsCode` implies `Spec => []GrowsByFaultsOnly`:
  only for stores that answer an existing archive key with KEY_EXISTS, as the
  Host's own store does (the run that checks the property assumes the same).

Of SubscriptionRegistry, for any subscriptions, instances, queue bound and
events, from SubscriptionAssumption:

- `TypeCorrect`: `Spec => []TypeOK`.
- `NothingIsLost`: `Spec => []NothingLost`.
- `PumpKeepsRunning`: `Spec => []PumpRunsWhileQueued`.
- `StopIsQuiet`: `Spec => []StoppedIsQuiet`.
- `EndIsSilent`: `Spec => EndedIsSilent`.
- `VerdictIsFresh`: `Spec => FreshVerdict`.

Of OccurrencePin, for any attempts, recoveries, BUILDs, messages, roles,
starting pins and limits, from PinAssumption and StartsAssumption:

- `TypeCorrect`: `Spec => []TypeOK`, over any store and any Host.
- `RevisionsFence`: `Spec => [](~(host.restarts /\ host.removes) => \A c \in
  Callers : Fenced(c))`: a write can take the revision of another document only
  where the Host removes pins over a store that restarts revisions.
- `AdmittedStays`: `RelySpec => AdmittedPinStays`.
- `AdmissionsArePinned`: `RelySpec => []AdmittedIsPinned`.
- `SubmitsAreRegistered`: `RelySpec => []MayAdmitIsRegistered`.
- `DenialsRelease`: `RelySpec => []DenialsReleaseTarget`.

The last four have no hypothesis on the store or the roles of a run: they hold
of every behaviour of `Spec`, over any store, up to its first step that is not
`Fenced` or not `Truthful`. (That all attempts have terminated is asserted
truthfully in `Spec` itself, as recoverReservation demands.)

Of DurableControls, for any set of plans, calls, correlations, poisoned
messages, payloads, swap rounds, faults and crashes, from ControlsAssumption (a
call of a plan addresses a document of its verb's kind, a terminal is done or
an error):

- `TypeCorrect`: `Spec => []TypeOK`.
- `OneOutcomeEach`: `Spec => Promised`, the refinement of OneOutcome.
- `RoleOfSettlement`: `Spec => SettledWithRole`.
- `MarkFollowsAnswer`: `Spec => []MarkedWasTold`.
- `EndFollowsTurn`: `Spec => []TerminalAfterTurn`.
- `InvocationsAreOwn`: `Spec => []InvocationIsOnes`.

OnceOnlyAdmission is not inductive: nothing in it says why a turn that passed
the ladder has no receipt when it commits. `AdmissionInv` adds three things.
`ReceiptsInv`: receipts and revisions correspond one to one, and an empty
receipt is the empty record. `SnapshotInv`: what an occurrence read at its start
is of the past, and *is the truth as long as the revision has not moved*; past
the ladder the snapshot shows no receipt. So when CommitPut finds the revision
of the snapshot, the turn has no receipt, and the next revision is free.
`AnswerInv`: dispositions and answers already given equal the receipts. Only
CommitPut writes receipts, and only where there is none, so both stay true.
The proof has one lemma for the shape of every other step (it moves the program
counter and leaves `stateRev` and `receipts` alone), and one for CommitPut.

SingleDispatch follows from `DispatchInv`: a non-idempotent effect is executed
by the occurrence that created its journal record and by no other, and an
external effect is called by the occurrence that created its claim document
and by no other; each of these has not called it yet. Its last part says that
what is about to be journaled is an outcome, so that a begun record stays
begun. It is inductive together with TypeOK. The proof calls a step quiet when
it gives nobody a right to call that he did not have; every step but BeginPut,
DispatchClaim and Call is quiet.

AdmittedEffectsSettled and SettledPermitDead follow from `SettlementInv`: every
completed record rests on a landed change and, for an external effect, on a
consumed permit; an occurrence at an intent knows the intents before it
completed for its own input, one at the commit knows all of them, and one that
is about to journal a completion knows that the change landed. The documents it
knows this of may be moved by other runtimes before it uses it; the proof
therefore rests on `FactsStand`, which no step violates: a begun record keeps
its input, a completed one does not change at all, landed changes and consumed
permits stay.

IntentsInOrder needs that an occurrence which has opened the write of an
intent's record has seen all the earlier records completed for its own input;
SettlementInv says it of the intents before `ord`, and completed records stand,
so every record that was ever begun stands on completed ones.
ZeroProofNonIdempotent is not inductive for two reasons that `ProvenInv` names:
an occurrence which may still call finds its record started (so the record
cannot meanwhile have become a proof of absence), and one that is about to
journal the proof has not called. OutcomesStand is an action property: the only
step that writes a record's outcome is Complete, whose record DispatchInv says
is started. AdmissionImplementsOnceOnly maps CommitPut to Admit, Call to
Dispatch, ReplayReceipt and Acknowledge to Answer, and every other step,
crashes and faults included, to a stutter. The abstract guards are what the
invariants give: a turn that commits has no receipt (AdmissionInv), its effects
landed (SettlementInv), a change lands through a call alone (`LandedInv`), a
second call is of an idempotent effect (DispatchInv).

In OriginalReceiptRing, `log` is every receipt in the order of commits. It only
grows (`GoesOn`), an archive document is never rewritten (`Stays`), and the
ring is the youngest part of the log, everything older being archived
(`RingOver`). The invariant says of each occurrence what it may rely on at its
await (`Fits`): the ring it composed is RingOver the log of its snapshot, plus
its own entry; this is a statement about a prefix of the log and about archive
documents that are there, so no step of another runtime makes it false, and
when the CAS finds the revision of the snapshot, the prefix is the whole log.
The bound needs that one commit evicts at most what a fault left over
(`Grown`).

In SubscriptionRegistry everything a step does to a registration is one of four
operators. `Sound` relates a registration, the events it was given and those
its listener was told: as long as it is active, what it was given is what was
told, then the receipt in the pump's hand, then the queue. There is one lemma
for each operator (`Ended`, `TurnPump`, `Push`, a change of fields), stated of
three values and not of the state; a step applies it to one registration, or,
for a publication and the stop of the facade, to all alike. EndIsSilent and
VerdictIsFresh are action properties: the second needs that the flag of the
last permission check can be set only by the check the pump awaits (`FreshOf`).

In InstanceLifecycle a window stays valid because a mutation appends the
sequence after the last one, with the revision before that sequence; `OpenInv`
says that only a call whose instance is open gets to its commit, so that the
window it appends to is not empty. SeenOrMissed is inductive once it says that
what was seen and what was missed make up exactly the sequences up to the
cursor (`ReadInv`): a page is an interval (`PageIsInterval`), the reported gap
is the interval below it, and the oldest record only gets younger (`Grows`).
LaneOrder needs `LaneInv`: the places tell the calls of a lane apart, a lane
without a tail has only settled calls, and a queued call waits for the last of
those before it; since a turn starts after the one it waits for has settled,
and that one started after all before it had (`EarlierSettled`), a turn starts
after all of them.

In OccurrencePin the invariant has three layers. `Typed` says what pin and calls
are on their own: what the document a call holds can be at each of its awaits,
and that an attempt with outcome roleDenied is excluded by its roles. `Current`
says that a document with the `ver` of the pin is the pin; a write that is
`Fenced` and finds its revision finds that `ver`, and this turns the CAS into a
statement about the pin. `Safe` relates the pin to every attempt (`Stands`): an
attempt in the in-flight set is past its join, one that may still be admitted
has the pin behind it (`Guards`), a write that may land late is one of an
ambiguous or crashed attempt, one about to remove the pin it has read knows that
its message was not admitted, and an owner whose roles exclude its message owns
the reservation.
All admissions are of the pin's BUILD and, while it is RESERVED, of its message
(`Admissions`), and of a reservation somebody is alive to settle it or some
call ended without an outcome (`Released`). The step that could break it is the
removal; `NoneMay` is its heart: under a pin that a compensating attempt has
read, no submit may be admitted, either because the attempt is the only one in
flight and has been denied, or because it owns the reservation of a message
that its roles, and so those of every submit in flight, exclude. The second
case needs the owner to own, which a false priorWriterTerminated breaks; only
owners whose roles exclude their message compensate that way, so only of them
must the assertion be `Truthful`.

All six results about DurableControls rest on one invariant, `Inv`. It relates
documents to turns (`DocOK`, `TurnsOK`: a final document stores a turn of its
status, an admitted outcome turn is the one its document stores) and calls to
documents they have read earlier (`CallOK`). The part that is hard to see is
what a call still knows at its swap: the revision it read is not above the
document's, and *if it is the document's, then the status is still the one the
settlement starts from*; and its role was checked for its intent or the
document has left the status that needed the check. Other calls move the
document meanwhile, so the proof shows once that documents move in three ways
only (`Moves`: created, settled, marked, each raising the revision of an
existing one) and that such a move leaves every other call's knowledge true
(`CallStands`). Each step lemma then looks at the acting call alone (`Glue`).
OneOutcomeEach maps a winning swap to Choose, an answered or lost submission to
Admit and all else to stutters. InvocationIsOnes is inductive over `Inv`: a
send comes to hold a new invocation only by creating its absent document
(`FreshStep`), and what another send holds exists.

Every safety property the passing runs check is proved. Model-checked only are
the liveness properties (EffectFreeTurnsAdmitted, EveryReceiptAnswered,
Resolved, ChainedIsRun): liveness under fairness, ENABLED and induction over
data are out of the prover's reach.

## 5. Plan

Done: the core (admission with its journal, permits and gate), its abstract
specification, the ring, the registry.

Also done: the occurrence pin, the durable controls with their abstract
specification, the opening of instances, the lane and the observation window.

Next, in this order:

1. The lineage depth of child invocations: derived from a listing before the
   record is created, over a graph of parents and children.
2. `MetaFeedback` (a ledger of rounds around one kernel turn), `ScopedMemory`
   (authorized documents with expiry).
3. Activation of a BUILD (decision, trust clock, activation record) in front of
   OccurrencePin.
4. Lost acknowledgements of landed writes and stores without `keys()` as
   constants of KernelAdmission.

Of proofs: the progress of the protocols as safety facts the prover can reach:
that no fence of an effect-free turn is left without somebody who may take it.

## 6. Not modelled, and why

Module loading, digests and bundle verification are sequential and either
succeed or refuse. The evaluation of predicates, declarations and Standard
features is pure and happens between two awaits. The legacy packages are not
loaded by the selected path. Compiler, scripts and contracts keep no state at
run time. A change of the kernel module under a held fence (a different
module digest in the fence document) is not modelled: all runtimes run one
kernel.
