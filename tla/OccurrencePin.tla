----------------------------- MODULE OccurrencePin -----------------------------
(***************************************************************************)
(* The BUILD pin of one occurrence: send and recoverReservation of         *)
(* GovernedBuildActivation (src/packages/host-node/src/deployment.ts) over *)
(* the Host's document store, with the Kernel's admission below it as      *)
(* KernelAdmission and OriginalReceiptRing have it: a message of the       *)
(* target is admitted once, and its receipt is never forgotten.            *)
(*                                                                         *)
(* Attempts are calls of send, Recoveries calls of recoverReservation, on  *)
(* activations of one BUILD or another, in one process or several.  A step *)
(* is what runs between two awaits.  A message stands for (messageId,      *)
(* intent, input).                                                         *)
(***************************************************************************)
EXTENDS Integers, FiniteSets

CONSTANTS
  Attempts, Recoveries,
  Builds,
  BuildOf,       \* the activation an attempt or a recovery is a call of
  PinnedOnly,    \* BUILDs activated with selection PINNED_ONLY
  Messages,
  RoleDenied,    \* <<build, message>>: the sealed intent excludes the fixed
                 \* caller role of the facade
  MaxInFlight,   \* MAX_IN_FLIGHT (64 in the code)
  MaxRounds,     \* rounds of each read-and-CAS loop (5 in the code)
  Starts,        \* the situations a run starts from, see Init
  NoAttempt, NoBuild, NoMessage

Callers == Attempts \cup Recoveries

ASSUME PinAssumption ==
  /\ BuildOf \in [Callers -> Builds]
  /\ PinnedOnly \subseteq Builds
  /\ RoleDenied \subseteq Builds \X Messages
  /\ MaxInFlight \in Nat \ {0} /\ MaxRounds \in Nat \ {0}
  /\ Attempts \cap Recoveries = {} /\ NoAttempt \notin Callers
  /\ NoBuild \notin Builds /\ NoMessage \notin Messages

VARIABLES
  pin,       \* the pin document, with its revision
  top,       \* the writes so far: the number of the last one
  admitted,  \* message -> the BUILD whose Kernel admitted it
  late,      \* attempts whose Kernel write may still land after their end
  call,      \* the calls
  host       \* the Host of this run: [asserts, removes, restarts]

vars == <<pin, top, admitted, late, call, host>>

Assertions == {"none", "priorWriterTerminated", "allAttemptsTerminated"}
Outcomes == {"none", "admitted", "denied", "roleDenied", "ambiguous"}

\* V10OccurrenceBuildPin.  `tracked` is FALSE in the pins of versions before
\* inFlight existed, `bound` in those before the reservation named its intent.
\* `ver` tells the documents that were written apart, whatever revision the
\* store gives them.
NoPin == [phase |-> "ABSENT", build |-> NoBuild, msg |-> NoMessage,
          slot |-> NoAttempt, inFlight |-> {}, tracked |-> TRUE,
          bound |-> TRUE, rev |-> -1, ver |-> -1]

NewCall == [at |-> "idle", msg |-> NoMessage, mode |-> "none",
            registered |-> FALSE, bound |-> FALSE, outcome |-> "none",
            assertion |-> "none", doc |-> NoPin, round |-> 0]

PinType ==
  [phase : {"ABSENT", "RESERVED", "ADMITTED"}, build : Builds \cup {NoBuild},
   msg : Messages \cup {NoMessage}, slot : Attempts \cup {NoAttempt},
   inFlight : SUBSET Attempts, tracked : BOOLEAN, bound : BOOLEAN,
   rev : Nat \cup {-1}, ver : Nat \cup {-1}]

\* A pin no call of the run has touched: none, a reservation of a version that
\* kept no submits in flight, or an admitted one.  Of the first two kinds of
\* submits nothing is known once they are on the reservation, so no Host can
\* truthfully assert that all of them have terminated.
StartingPin(p) ==
  \/ p = NoPin
  \/ /\ p \in PinType /\ p.rev \in Nat /\ p.ver = p.rev /\ p.build \in Builds
     /\ p.inFlight = {}
     /\ \/ p.phase = "RESERVED" /\ p.msg \in Messages /\ ~p.tracked
        \/ /\ p.phase = "ADMITTED" /\ p.tracked
           /\ p.msg = NoMessage /\ p.slot = NoAttempt

ASSUME StartsAssumption ==
  \A s \in Starts :
    /\ StartingPin(s.pin)
    /\ s.asserts \subseteq Assertions
    /\ s.removes \in BOOLEAN /\ s.restarts \in BOOLEAN
    /\ s.pin.tracked \/ "allAttemptsTerminated" \notin s.asserts

Init ==
  \E s \in Starts :
    /\ pin = s.pin /\ top = s.pin.ver
    /\ host = [asserts |-> s.asserts, removes |-> s.removes,
               restarts |-> s.restarts]
    /\ admitted = [m \in Messages |-> NoBuild]
    /\ late = {}
    /\ call = [c \in Callers |-> NewCall]

At(c, l) == call[c].at = l
Put(c, r) == call' = [call EXCEPT ![c] = r]
Goto(c, l) == Put(c, [call[c] EXCEPT !.at = l])
Matches(p, c) == p.build = BuildOf[c]
Ended(c) == call[c].at \in {"idle", "done", "gaveUp", "crashed"}

\* The end of a call; of what it knew, the model keeps what properties name.
EndOf(x, l) ==
  [NewCall EXCEPT !.at = l, !.msg = x.msg,
     !.outcome = IF x.outcome = "ambiguous" THEN "ambiguous" ELSE "none"]

End(c, l) == Put(c, EndOf(call[c], l))

-----------------------------------------------------------------------------
(* The store                                                                *)

\* Broken form: the condition is only that the document is there, or is not.
UnchangedExistence(c) ==
  (pin.phase = "ABSENT") <=> (call[c].doc.phase = "ABSENT")

\* put and remove under { kind: 'create' } or { kind: 'cas', revision }.  The
\* revisions of a document that is created again restart at 0, as in both
\* stores of the repository, or its store never gives one twice.
Unchanged(c) ==
  IF host.restarts THEN pin.rev = call[c].doc.rev
                   ELSE pin.ver = call[c].doc.ver

Revised(value, r, v) == [value EXCEPT !.rev = r, !.ver = v]

Write(value) ==
  /\ pin' = Revised(value, pin.rev + 1, top + 1)
  /\ top' = top + 1

\* A conflict starts the next round of the loop, the last one ends it.
AgainOf(x, l) ==
  IF x.round + 1 = MaxRounds THEN EndOf(x, "gaveUp")
  ELSE [x EXCEPT !.at = l, !.round = @ + 1, !.doc = NoPin]

Again(c, l) == Put(c, AgainOf(call[c], l))

EnterOf(x, l) == [x EXCEPT !.at = l, !.round = 0, !.doc = NoPin]

Enter(c, l) == Put(c, EnterOf(call[c], l))

\* The admission witness: the original receipt of the message, read from the
\* instance document and then from the archive.
Witness(m) == admitted[m] # NoBuild

-----------------------------------------------------------------------------
(* send: #beginOccurrenceAttempt                                            *)

Send(a, m) ==
  /\ At(a, "idle")
  /\ Put(a, [NewCall EXCEPT !.at = "begin", !.msg = m])
  /\ UNCHANGED <<pin, top, admitted, late, host>>

RefusesSend(a) ==
  \/ pin.phase = "ABSENT" /\ BuildOf[a] \in PinnedOnly
  \/ pin.phase # "ABSENT" /\ ~Matches(pin, a)
  \/ /\ pin.phase = "RESERVED"
     /\ \/ pin.msg # call[a].msg
        \/ pin.tracked /\ Cardinality(pin.inFlight) >= MaxInFlight

ReadPinToSend(a) ==
  /\ At(a, "begin")
  /\ \/ RefusesSend(a) /\ End(a, "done")
     \/ /\ ~RefusesSend(a) /\ pin.phase = "ADMITTED"
        /\ Put(a, [call[a] EXCEPT !.at = "kernel", !.mode = "admitted"])
     \/ /\ ~RefusesSend(a) /\ pin.phase = "RESERVED"
        /\ pin.slot # NoAttempt /\ ~pin.tracked
        /\ Put(a, [call[a] EXCEPT !.at = "kernel", !.mode = "adopt"])
     \/ /\ ~RefusesSend(a) /\ pin.phase # "ADMITTED"
        /\ pin.slot = NoAttempt \/ pin.tracked
        /\ Put(a, [call[a] EXCEPT !.at = "join", !.doc = pin])
  /\ UNCHANGED <<pin, top, admitted, late, host>>

\* The pin with attempt a in it: created RESERVED, or joined.
Joined(d, a) ==
  IF d.phase = "ABSENT"
  THEN [NoPin EXCEPT !.phase = "RESERVED", !.build = BuildOf[a],
                     !.msg = call[a].msg, !.slot = a, !.inFlight = {a}]
  ELSE [d EXCEPT !.slot = IF @ = NoAttempt THEN a ELSE @,
                 !.inFlight = IF d.tracked THEN @ \cup {a} ELSE @]

Join(a) ==
  LET d == call[a].doc
  IN  /\ At(a, "join")
      /\ \/ /\ Unchanged(a)
            /\ Write(Joined(d, a))
            /\ Put(a, [call[a] EXCEPT
                 !.at = "kernel", !.registered = d.tracked,
                 !.bound = d.bound, !.doc = NoPin,
                 !.mode = IF d.slot = NoAttempt THEN "owner" ELSE "adopt"])
         \/ ~Unchanged(a) /\ Again(a, "begin") /\ UNCHANGED <<pin, top>>
      /\ UNCHANGED <<admitted, late, host>>

-----------------------------------------------------------------------------
(* send: the Kernel's evaluation of the message                             *)

RolesExclude(a) == <<BuildOf[a], call[a].msg>> \in RoleDenied

Answer(a, o) == Put(a, [call[a] EXCEPT !.at = "settle", !.outcome = o])

\* The original of an admitted message is answered, any other is evaluated.
Evaluate(a) ==
  /\ At(a, "kernel") /\ ~RolesExclude(a)
  /\ IF Witness(call[a].msg) THEN Answer(a, "admitted")
     ELSE Goto(a, "evaluating")
  /\ UNCHANGED <<pin, top, admitted, late, host>>

Admits(m, b) ==
  admitted' = [admitted EXCEPT ![m] = IF @ = NoBuild THEN b ELSE @]

\* Admission, or the answer of the admission that came before.
Admit(a) ==
  /\ At(a, "evaluating")
  /\ Admits(call[a].msg, BuildOf[a])
  /\ Answer(a, "admitted")
  /\ UNCHANGED <<pin, top, late, host>>

\* denied by this evaluation, or terminated.
Deny(a) ==
  /\ \/ At(a, "evaluating") /\ Answer(a, "denied")
     \/ At(a, "kernel") /\ RolesExclude(a) /\ Answer(a, "roleDenied")
  /\ UNCHANGED <<pin, top, admitted, late, host>>

\* UNKNOWN, or thrown: the write did not happen, or it did, or it may still.
Fail(a) ==
  /\ At(a, "evaluating")
  /\ \/ UNCHANGED <<admitted, late>>
     \/ Admits(call[a].msg, BuildOf[a]) /\ UNCHANGED late
     \/ late' = late \cup {a} /\ UNCHANGED admitted
  /\ Answer(a, "ambiguous")
  /\ UNCHANGED <<pin, top, host>>

LandLate(a) ==
  /\ a \in late
  /\ late' = late \ {a}
  /\ UNCHANGED admitted \/ Admits(call[a].msg, BuildOf[a])
  /\ UNCHANGED <<pin, top, call, host>>

-----------------------------------------------------------------------------
(* send: #settleOccurrenceAttempt, #concludeAmbiguousAttempt                *)

Settle(a) ==
  /\ At(a, "settle")
  /\ \/ call[a].mode = "admitted" /\ End(a, "done")
     \/ /\ call[a].mode # "admitted"
        /\ Enter(a, IF Witness(call[a].msg) THEN "commit" ELSE "conclude")
  /\ UNCHANGED <<pin, top, admitted, late, host>>

\* #commitAdmitted
ReadPinToCommit(c) ==
  /\ At(c, "commit")
  /\ IF pin.phase = "RESERVED" /\ Matches(pin, c)
     THEN Put(c, [call[c] EXCEPT !.at = "committing", !.doc = pin])
     ELSE End(c, "done")
  /\ UNCHANGED <<pin, top, admitted, late, host>>

\* Broken form: the reservation and its attempts stay in the ADMITTED pin.
AsAdmittedWithReservation(d) == [d EXCEPT !.phase = "ADMITTED"]

AsAdmitted(d) ==
  [NoPin EXCEPT !.phase = "ADMITTED", !.build = d.build]

Commit(c) ==
  /\ At(c, "committing")
  /\ \/ /\ Unchanged(c)
        /\ Write(AsAdmitted(call[c].doc))
        /\ End(c, "done")
     \/ ~Unchanged(c) /\ Again(c, "commit") /\ UNCHANGED <<pin, top>>
  /\ UNCHANGED <<admitted, late, host>>

-----------------------------------------------------------------------------
(* send: #concludeAttempt                                                   *)

\* Broken form: an ambiguous submit leaves the set as any other does.
KeepsNothingInFlight(a) == FALSE

KeepsInFlight(a) == call[a].outcome = "ambiguous"

Others(d, a) ==
  IF ~d.tracked \/ KeepsInFlight(a) THEN d.inFlight ELSE d.inFlight \ {a}

\* Broken form: the historical flag stands for the last submit.
LastByFlag(d, a) == call[a].registered /\ d.slot \in {a, NoAttempt}

LastInFlight(d, a) ==
  /\ call[a].registered /\ d.tracked
  /\ a \in d.inFlight /\ Others(d, a) = {}
  /\ d.slot \in {a, NoAttempt}

\* despiteOthers: no submit of the reserved intent can be admitted.
NobodyCan(a) ==
  call[a].outcome = "roleDenied" /\ call[a].mode = "owner" /\ call[a].bound

Compensates(d, a) ==
  /\ call[a].outcome \in {"denied", "roleDenied"}
  /\ NobodyCan(a) \/ LastInFlight(d, a)

\* Broken form: the writer slot is not released.
DeregisteredWithSlot(d, a) == [d EXCEPT !.inFlight = Others(d, a)]

Deregistered(d, a) ==
  [d EXCEPT !.inFlight = Others(d, a), !.slot = IF @ = a THEN NoAttempt ELSE @]

ReadPinToConclude(a) ==
  LET stays == pin.phase # "RESERVED" \/ ~Matches(pin, a)
      next == IF Compensates(pin, a) THEN "recheck" ELSE "deregister"
  IN  /\ At(a, "conclude")
      /\ IF stays \/ (next = "deregister" /\ Deregistered(pin, a) = pin)
         THEN End(a, "done")
         ELSE Put(a, [call[a] EXCEPT !.at = next, !.doc = pin])
      /\ UNCHANGED <<pin, top, admitted, late, host>>

\* The witness is read again, after the revision the removal names.
Recheck(a) ==
  /\ At(a, "recheck")
  /\ \/ Witness(call[a].msg) /\ Enter(a, "commit")
     \/ ~Witness(call[a].msg) /\ host.removes /\ Goto(a, "remove")
     \/ ~Witness(call[a].msg) /\ ~host.removes /\ Goto(a, "leave")
  /\ UNCHANGED <<pin, top, admitted, late, host>>

Remove(a) ==
  /\ At(a, "remove")
  /\ \/ Unchanged(a) /\ pin' = NoPin /\ End(a, "done")
     \/ ~Unchanged(a) /\ Again(a, "conclude") /\ UNCHANGED pin
  /\ UNCHANGED <<top, admitted, late, host>>

\* #writeDeregistered; without a remove seam a lost race is not retried.
Deregister(a) ==
  /\ call[a].at \in {"deregister", "leave"}
  /\ \/ /\ Unchanged(a)
        /\ Write(Deregistered(call[a].doc, a))
        /\ End(a, "done")
     \/ /\ ~Unchanged(a) /\ UNCHANGED <<pin, top>>
        /\ IF At(a, "leave") THEN End(a, "done") ELSE Again(a, "conclude")
  /\ UNCHANGED <<admitted, late, host>>

-----------------------------------------------------------------------------
(* recoverReservation                                                       *)

\* When the Host asserts that every attempt on the reservation has terminated,
\* this is so of the reservation that is read; that the prior writer has, it
\* may assert falsely, see Truthful.
AllTerminated(b) ==
  \A a \in Attempts : BuildOf[a] = b => Ended(a) /\ a \notin late

WriterTerminated == pin.slot # NoAttempt => Ended(pin.slot)

Recover(r, s) ==
  /\ At(r, "idle") /\ s \in host.asserts
  /\ s = "allAttemptsTerminated" => AllTerminated(BuildOf[r])
  /\ IF pin.phase = "RESERVED" /\ Matches(pin, r)
     THEN Put(r, [NewCall EXCEPT !.at = "weigh", !.assertion = s, !.doc = pin])
     ELSE End(r, "done")
  /\ UNCHANGED <<pin, top, admitted, late, host>>

Frees(r) ==
  LET d == call[r].doc
  IN  \/ /\ call[r].assertion = "allAttemptsTerminated"
         /\ d.slot # NoAttempt \/ ~d.tracked \/ d.inFlight # {}
      \/ call[r].assertion = "priorWriterTerminated" /\ d.slot # NoAttempt

Weigh(r) ==
  /\ At(r, "weigh")
  /\ \/ Witness(call[r].doc.msg) /\ Enter(r, "commit")
     \/ ~Witness(call[r].doc.msg) /\ Frees(r) /\ Goto(r, "free")
     \/ ~Witness(call[r].doc.msg) /\ ~Frees(r) /\ End(r, "done")
  /\ UNCHANGED <<pin, top, admitted, late, host>>

Freed(d, s) ==
  IF s = "allAttemptsTerminated"
  THEN [d EXCEPT !.slot = NoAttempt, !.inFlight = {}, !.tracked = TRUE]
  ELSE [d EXCEPT !.slot = NoAttempt]

Free(r) ==
  /\ At(r, "free")
  /\ \/ Unchanged(r) /\ Write(Freed(call[r].doc, call[r].assertion))
     \/ ~Unchanged(r) /\ UNCHANGED <<pin, top>>
  /\ End(r, "done")
  /\ UNCHANGED <<admitted, late, host>>

-----------------------------------------------------------------------------
\* The process of a call dies; what its Kernel has sent may still land.
Crash(c) ==
  /\ ~Ended(c)
  /\ late' \in {late, late \cup ({c} \cap
                 {a \in Attempts : At(a, "evaluating")})}
  /\ End(c, "crashed")
  /\ UNCHANGED <<pin, top, admitted, host>>

\* The steps that write no pin and take no assertion.
Other ==
  \/ \E a \in Attempts :
       \/ \E m \in Messages : Send(a, m)
       \/ ReadPinToSend(a)
       \/ Evaluate(a) \/ Admit(a) \/ Deny(a) \/ Fail(a) \/ LandLate(a)
       \/ Settle(a) \/ ReadPinToConclude(a) \/ Recheck(a)
  \/ \E r \in Recoveries : Weigh(r)
  \/ \E c \in Callers : ReadPinToCommit(c) \/ Crash(c)

Next ==
  \/ Other
  \/ \E a \in Attempts : Join(a) \/ Remove(a) \/ Deregister(a)
  \/ \E r \in Recoveries : Free(r) \/ \E s \in Assertions : Recover(r, s)
  \/ \E c \in Callers : Commit(c)

Spec == Init /\ [][Next]_vars

-----------------------------------------------------------------------------
(* What the protocol relies on                                              *)

\* The revision a call is about to name is that of the document it has read,
\* not of a later one that has come to the same revision.
Fenced(c) ==
  host.restarts /\ pin.rev = call[c].doc.rev => pin.ver = call[c].doc.ver

\* Of a writer whose intent the roles of the facade exclude, the Host asserts
\* priorWriterTerminated only once it has terminated.
Truthful(s) ==
  s = "priorWriterTerminated" /\ <<pin.build, pin.msg>> \in RoleDenied =>
    WriterTerminated

RelyNext ==
  \/ Other
  \/ \E a \in Attempts :
       \/ Fenced(a) /\ Join(a)
       \/ Fenced(a) /\ Remove(a)
       \/ Fenced(a) /\ Deregister(a)
  \/ \E r \in Recoveries :
       \/ Fenced(r) /\ Free(r)
       \/ \E s \in Assertions : Truthful(s) /\ Recover(r, s)
  \/ \E c \in Callers : Fenced(c) /\ Commit(c)

\* A behaviour of Spec is one of these up to its first step that is not Fenced,
\* or not Truthful: what they keep safe is safe in Spec until that step.
RelySpec == Init /\ [][RelyNext]_vars

-----------------------------------------------------------------------------
(* Properties                                                               *)

\* The type of the state; a pin is RESERVED for a message, and only then has
\* it a slot or submits in flight.
TypeOK ==
  /\ pin \in PinType
  /\ (pin.phase = "RESERVED") <=> (pin.msg # NoMessage)
  /\ pin.phase # "RESERVED" => pin.slot = NoAttempt /\ pin.inFlight = {}
  /\ (pin.phase = "ABSENT") <=> (pin.build = NoBuild)
  /\ top \in Nat \cup {-1}
  /\ admitted \in [Messages -> Builds \cup {NoBuild}]
  /\ late \subseteq Attempts
  /\ \A c \in Callers :
       /\ call[c].outcome \in Outcomes /\ call[c].doc \in PinType
       /\ call[c].round \in 0 .. MaxRounds - 1
       /\ call[c].assertion \in Assertions

\* A target whose Kernel admitted a message stays pinned to the BUILD that
\* admitted it: the next BUILD never serves it (deployment.ts, send and
\* #concludeAttempt).  So all admissions of a target are of one BUILD.
AdmittedIsPinned ==
  \A m \in Messages :
    admitted[m] # NoBuild =>
      pin.phase # "ABSENT" /\ pin.build = admitted[m]

MayAdmit(a) ==
  /\ ~RolesExclude(a)
  /\ a \in late \/ call[a].at \in {"kernel", "evaluating"}

\* A submit that may still be admitted, its call alive or not, is guarded by
\* the pin: its BUILD and message hold the reservation, and a pin that tracks
\* its submits has it in flight; or the occurrence is admitted already.  The
\* protocol calls this set the fence over Kernel submits.
MayAdmitIsRegistered ==
  \A a \in Attempts :
    MayAdmit(a) =>
      /\ Matches(pin, a)
      /\ \/ pin.phase = "ADMITTED"
         \/ pin.msg = call[a].msg /\ (pin.tracked => a \in pin.inFlight)

\* An ADMITTED pin is immutable: no stale settlement, removal, join or
\* recovery writes over it.
AdmittedPinStays == [][pin.phase = "ADMITTED" => pin' = pin]_pin

AllSettled ==
  /\ \A c \in Callers : call[c].at \in {"idle", "done"}
  /\ \A a \in Attempts : call[a].outcome # "ambiguous"

\* When every send has returned, none ambiguously and none because it lost
\* every round, no reservation is left behind: denials have freed the target
\* for the next message, whatever order they settled in.
DenialsReleaseTarget ==
  AllSettled /\ host.removes /\ pin.tracked => pin.phase # "RESERVED"
=============================================================================
