--------------------------- MODULE InstanceLifecycle ---------------------------
(***************************************************************************)
(* The life of a workflow instance around its admissions: a send opens it  *)
(* when it does not exist and binds its governance pin, its turns pass     *)
(* through the serialized lane of their host, and every committed mutation *)
(* is observed through a window of the last records, in which a reader     *)
(* follows a cursor (src/domain-packages/kernel/basic/                     *)
(* kernel-mechanism-v1.mjs, and send in src/packages/microkernel/src/      *)
(* internal/activation.ts).                                                *)
(*                                                                         *)
(* The hosts share one document store.  All instances have the same        *)
(* Business policy, hence one governance baseline document.  Fences,       *)
(* effects and receipts are KernelAdmission's: here a turn commits by      *)
(* compare-and-swap on the revision it has read.                           *)
(***************************************************************************)
EXTENDS Integers, Sequences, FiniteSets

CONSTANTS
  Calls,        \* the send calls
  Hosts, HostOf,
  Instances, InstanceOf,
  Readers,      \* readers of the observations
  ReadOf,       \* the instance a reader follows
  Retention,    \* HF20_MUTATION_OBSERVATION_RETENTION_LIMIT (64 in the code)
  PageSizes,    \* read limits
  MaxCrashes, MaxFaults,
  NoCall

ASSUME LifecycleAssumption ==
  /\ HostOf \in [Calls -> Hosts] /\ InstanceOf \in [Calls -> Instances]
  /\ ReadOf \in [Readers -> Instances]
  /\ Retention \in Nat \ {0} /\ PageSizes \subseteq Nat \ {0}
  /\ MaxCrashes \in Nat /\ MaxFaults \in Nat
  /\ NoCall \notin Calls

VARIABLES
  inst,     \* instance -> its state revision and its observation window
  body,     \* the governance baseline document exists
  pinned,   \* instances with a governance pin
  tail,     \* lane of a host and an instance -> last chained call
  chained,  \* lane -> the calls chained so far, which number its calls (a
            \* record for LaneOrder)
  call,
  reader,   \* cursor; sequences a reader has seen, and has been told it missed
  budget

vars == <<inst, body, pinned, tail, chained, call, reader, budget>>

Absent == [open |-> FALSE, rev |-> 0, seq |-> 0, records |-> <<>>]
NewCall == [at |-> "idle", prev |-> NoCall, place |-> 0, rev |-> 0,
            rejected |-> FALSE]
Lanes == Hosts \X Instances
LaneOf(c) == <<HostOf[c], InstanceOf[c]>>

Init ==
  /\ inst = [i \in Instances |-> Absent]
  /\ body = FALSE
  /\ pinned = {}
  /\ tail = [l \in Lanes |-> NoCall]
  /\ chained = [l \in Lanes |-> 0]
  /\ call = [c \in Calls |-> NewCall]
  /\ reader = [r \in Readers |-> [after |-> 0, seen |-> {}, missed |-> {}]]
  /\ budget = [crashes |-> 0, faults |-> 0]

At(c, l) == call[c].at = l
Goto(c, l) == call' = [call EXCEPT ![c].at = l]

\* The promise of the call is settled.
End(c, rejected) ==
  call' = [call EXCEPT ![c].at = "ended", ![c].rev = 0,
                       ![c].rejected = rejected]

-----------------------------------------------------------------------------
(* The observation window                                                   *)

\* Broken form: the oldest records are never dropped.
AppendedWhole(w, rev) ==
  [open |-> TRUE, rev |-> rev, seq |-> w.seq + 1,
   records |-> Append(w.records, [seq |-> w.seq + 1, rev |-> rev])]

\* appendHf20MutationObservation, in the very value the state is written with.
Appended(w, rev) ==
  LET all == Append(w.records, [seq |-> w.seq + 1, rev |-> rev])
  IN  [open |-> TRUE, rev |-> rev, seq |-> w.seq + 1,
       records |-> IF Len(all) > Retention THEN Tail(all) ELSE all]

Earliest(w) == w.records[1].seq

\* Broken form: a gap of one record is not reported.
TruncatedByTwo(w, after) == after < Earliest(w) - 2

Truncated(w, after) == after < Earliest(w) - 1

Later(w, after) == {w.records[n].seq : n \in 1 .. Len(w.records)} \ 0 .. after

\* The first records after the cursor, up to limit of them.
Page(w, after, limit) ==
  {n \in Later(w, after) :
     Cardinality({m \in Later(w, after) : m < n}) < limit}

\* readMutationObservations: the reader follows nextCursor, and takes note of a
\* gap that is reported.
Read(r, limit) ==
  LET w == inst[ReadOf[r]]
      d == reader[r]
      page == Page(w, d.after, limit)
      gap == IF Truncated(w, d.after)
             THEN (d.after + 1) .. (Earliest(w) - 1) ELSE {}
  IN  /\ w.open
      /\ \E last \in page :
           /\ \A n \in page : n <= last
           /\ reader' = [reader EXCEPT ![r] =
                [after |-> last, seen |-> d.seen \cup page,
                 missed |-> d.missed \cup gap]]
      /\ UNCHANGED <<inst, body, pinned, tail, chained, call, budget>>

-----------------------------------------------------------------------------
(* send: getSnapshot, openInstance                                          *)

\* lane.run: the call is chained behind the tail of its lane.
Chain(c) ==
  /\ call' = [call EXCEPT ![c].at = "queued", ![c].prev = tail[LaneOf(c)],
                          ![c].place = chained[LaneOf(c)] + 1]
  /\ tail' = [tail EXCEPT ![LaneOf(c)] = c]
  /\ chained' = [chained EXCEPT ![LaneOf(c)] = @ + 1]

Look(c) ==
  /\ At(c, "idle")
  /\ Goto(c, IF inst[InstanceOf[c]].open THEN "submit" ELSE "create")
  /\ UNCHANGED <<inst, body, pinned, tail, chained, reader, budget>>

\* openInstance, createInstance: the put says mustBeAbsent; send absorbs the
\* HOST_KEY_EXISTS of the loser.
Create(c) ==
  LET i == InstanceOf[c]
  IN  /\ At(c, "create")
      /\ \/ inst[i].open /\ Goto(c, "submit") /\ UNCHANGED inst
         \/ /\ ~inst[i].open
            /\ inst' = [inst EXCEPT ![i] = Appended(Absent, 0)]
            /\ Goto(c, "baseline")
      /\ UNCHANGED <<body, pinned, tail, chained, reader, budget>>

\* bindGovernance, putBody: the read.
ReadBaseline(c) ==
  /\ At(c, "baseline")
  /\ Goto(c, IF body THEN "bind" ELSE "putBaseline")
  /\ UNCHANGED <<inst, body, pinned, tail, chained, reader, budget>>

\* putBody: the put says mustBeAbsent; the HOST_KEY_EXISTS of the loser leaves
\* openInstance before its pin, and send absorbs that too.
PutBaseline(c) ==
  /\ At(c, "putBaseline")
  /\ body' = TRUE
  /\ Goto(c, IF body THEN "submit" ELSE "bind")
  /\ UNCHANGED <<inst, pinned, tail, chained, reader, budget>>

\* bindPin: only the creator of an instance gets here, nobody can precede it.
Bind(c) ==
  /\ At(c, "bind")
  /\ pinned' = pinned \cup {InstanceOf[c]}
  /\ Goto(c, "submit")
  /\ UNCHANGED <<inst, body, tail, chained, reader, budget>>

Enqueue(c) ==
  /\ At(c, "submit")
  /\ Chain(c)
  /\ UNCHANGED <<inst, body, pinned, reader, budget>>

-----------------------------------------------------------------------------
(* The lane, and the turn in it                                             *)

Settled == {c \in Calls : call[c].at \in {"ended", "forgotten"}}

\* Broken form: a call whose predecessor failed is never run.
ReadyUnlessFailed(c) ==
  call[c].prev \in {NoCall} \cup {d \in Settled : ~call[d].rejected}

\* previous.catch(): the predecessor has settled, one way or the other.
Ready(c) == call[c].prev \in {NoCall} \cup Settled

\* The operation starts: cancelled while it was queued, or before its read is
\* over, it ends; or it has read its snapshot.
Start(c) ==
  /\ At(c, "queued") /\ Ready(c)
  /\ \/ End(c, FALSE)
     \/ call' = [call EXCEPT ![c].at = "decide", ![c].prev = NoCall,
                             ![c].rev = inst[InstanceOf[c]].rev]
  /\ UNCHANGED <<inst, body, pinned, tail, chained, reader, budget>>

\* requirePinnedBaseline throws without pin and baseline; the guards and
\* invariants of the Business may deny.
Decide(c) ==
  /\ At(c, "decide")
  /\ IF InstanceOf[c] \in pinned /\ body
     THEN Goto(c, "commit") \/ End(c, FALSE) ELSE End(c, TRUE)
  /\ UNCHANGED <<inst, body, pinned, tail, chained, reader, budget>>

\* commitAcceptedTransitionInLane
Commit(c) ==
  LET i == InstanceOf[c]
  IN  /\ At(c, "commit")
      /\ \/ /\ inst[i].rev = call[c].rev
            /\ inst' = [inst EXCEPT ![i] = Appended(inst[i], inst[i].rev + 1)]
            /\ End(c, FALSE)
         \/ inst[i].rev # call[c].rev /\ End(c, TRUE) /\ UNCHANGED inst
      /\ UNCHANGED <<body, pinned, tail, chained, reader, budget>>

\* A store call of the turn throws.
Fail(c) ==
  /\ call[c].at \in {"decide", "commit"}
  /\ budget.faults < MaxFaults
  /\ budget' = [budget EXCEPT !.faults = @ + 1]
  /\ End(c, TRUE)
  /\ UNCHANGED <<inst, body, pinned, tail, chained, reader>>

\* Broken form: the tail of the lane is dropped by whoever ends.
ForgetAny(c) ==
  /\ At(c, "ended")
  /\ Goto(c, "forgotten")
  /\ tail' = [tail EXCEPT ![LaneOf(c)] = NoCall]
  /\ UNCHANGED <<inst, body, pinned, chained, reader, budget>>

\* The settled tail is dropped, if nobody was chained behind it.
Forget(c) ==
  /\ At(c, "ended")
  /\ Goto(c, "forgotten")
  /\ tail' = [tail EXCEPT ![LaneOf(c)] = IF @ = c THEN NoCall ELSE @]
  /\ UNCHANGED <<inst, body, pinned, chained, reader, budget>>

-----------------------------------------------------------------------------
\* A host dies with its calls and its lanes.
Crash(h) ==
  /\ budget.crashes < MaxCrashes
  /\ budget' = [budget EXCEPT !.crashes = @ + 1]
  /\ call' = [c \in Calls |-> IF HostOf[c] = h /\ call[c].at # "idle"
                              THEN [NewCall EXCEPT !.at = "crashed"]
                              ELSE call[c]]
  /\ tail' = [l \in Lanes |-> IF l[1] = h THEN NoCall ELSE tail[l]]
  /\ chained' = [l \in Lanes |-> IF l[1] = h THEN 0 ELSE chained[l]]
  /\ UNCHANGED <<inst, body, pinned, reader>>

Turn(c) == Start(c) \/ Decide(c) \/ Commit(c) \/ Fail(c)

Step(c) ==
  \/ Look(c) \/ Create(c) \/ ReadBaseline(c) \/ PutBaseline(c) \/ Bind(c)
  \/ Enqueue(c) \/ Turn(c) \/ Forget(c)

Next ==
  \/ \E c \in Calls : Step(c)
  \/ \E r \in Readers, n \in PageSizes : Read(r, n)
  \/ \E h \in Hosts : Crash(h)

Spec == Init /\ [][Next]_vars

\* A host that runs settles the promises its turns wait for.
FairSpec == Spec /\ \A c \in Calls : WF_vars(Turn(c))

-----------------------------------------------------------------------------
(* Properties                                                               *)

Labels == {"idle", "create", "baseline", "putBaseline", "bind", "submit",
           "queued", "decide", "commit", "ended", "forgotten", "crashed"}

\* The structural check every reader and every commit makes of the window: its
\* length is bounded, its sequences are consecutive up to the counter, and a
\* record rides with the revision it was committed at
\* (isHf20MutationObservationWindow; it fails closed otherwise).
ValidWindow(w) ==
  /\ Len(w.records) <= Retention
  /\ Len(w.records) <= w.seq
  /\ \A n \in 1 .. Len(w.records) :
       /\ w.records[n].seq = w.seq - Len(w.records) + n
       /\ w.records[n].rev = w.records[n].seq - 1
  /\ w.open => w.records # <<>> /\ w.rev = w.seq - 1

\* The state is well formed and every stored window is one the code accepts.
TypeOK ==
  /\ inst \in [Instances -> [open : BOOLEAN, rev : Nat, seq : Nat,
                            records : Seq([seq : Nat, rev : Nat])]]
  /\ \A i \in Instances : ValidWindow(inst[i])
  /\ body \in BOOLEAN /\ pinned \subseteq Instances
  /\ tail \in [Lanes -> Calls \cup {NoCall}]
  /\ chained \in [Lanes -> Nat]
  /\ call \in [Calls -> [at : Labels, prev : Calls \cup {NoCall}, place : Nat,
                         rev : Nat, rejected : BOOLEAN]]
  /\ reader \in [Readers -> [after : Nat, seen : SUBSET Nat,
                             missed : SUBSET Nat]]
  /\ budget \in [crashes : 0 .. MaxCrashes, faults : 0 .. MaxFaults]

\* A reader that follows its cursor has, of every mutation up to the cursor,
\* either seen the record or been told of the gap, never both, however the
\* window moved between its pages (projectHf20ObservationPage).
SeenOrMissed ==
  \A r \in Readers :
    LET d == reader[r]
    IN  /\ 1 .. d.after \subseteq d.seen \cup d.missed
        /\ d.seen \cap d.missed = {}
        /\ \A n \in d.missed : n < Earliest(inst[ReadOf[r]])

Started(c) == call[c].at \in {"decide", "commit", "ended", "forgotten"}

\* In one lane a turn starts only when those chained before it have settled, so
\* that turns of one host and instance run one at a time and in order, although
\* the lane forgets its tail whenever it seems idle (PerInstanceSerializedLane).
LaneOrder ==
  \A c, d \in Calls :
    /\ LaneOf(c) = LaneOf(d)
    /\ 0 < call[c].place /\ call[c].place < call[d].place
    /\ Started(d)
    => c \in Settled

\* A chained turn is run, or found cancelled, whatever became of the turns
\* before it, unless its host dies (previous.catch().then(operation)).
ChainedIsRun ==
  \A c \in Calls :
    At(c, "queued") ~> (Started(c) \/ At(c, "crashed"))

\* When nobody is opening an instance any more, an instance that exists has its
\* governance pin, without which it can never admit a turn.
OpenedIsPinned ==
  (\A c \in Calls : call[c].at \notin {"baseline", "putBaseline", "bind"})
  => \A i \in Instances : inst[i].open => i \in pinned
=============================================================================
