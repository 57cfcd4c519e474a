-------------------------- MODULE OccurrencePinProofs --------------------------
(***************************************************************************)
(* Proofs about the BUILD pin of an occurrence.                            *)
(*                                                                         *)
(* The invariant has three layers, each a predicate on the values of the   *)
(* state, so that a step is a change of one call, of the pin, or of what   *)
(* was admitted, and each kind of change has its lemma.  TypedOf is what   *)
(* pin and calls are on their own, in every behaviour of Spec.  CurrentOf  *)
(* is that of the documents that calls hold, one is the pin or was written *)
(* before it, as long as each write is over the document its call has read *)
(* (Fenced).  SafeOf relates pin, calls and admissions, as long as, too,   *)
(* no writer that its role excludes is asserted dead while alive           *)
(* (Truthful).  The theorems on the last two layers are of RelySpec: of    *)
(* any behaviour of Spec, over any store and under any Host, until its     *)
(* first step that is not Fenced, or not Truthful.                         *)
(* RevisionsFence says in which behaviours every step is Fenced.           *)
(***************************************************************************)
EXTENDS OccurrencePin, TLAPS

-----------------------------------------------------------------------------
(* What a call is                                                           *)

Live(x) == x.at \notin {"idle", "done", "gaveUp", "crashed"}

Excluded(c, x) == <<BuildOf[c], x.msg>> \in RoleDenied

\* The submit of call c, as x, may be admitted by its own Kernel.
May(c, x) == x.at \in {"kernel", "evaluating"} /\ ~Excluded(c, x)

OthersOf(c, x, d) ==
  IF ~d.tracked \/ x.outcome = "ambiguous" THEN d.inFlight
  ELSE d.inFlight \ {c}

Last(c, x, d) ==
  /\ x.registered /\ d.tracked
  /\ c \in d.inFlight /\ OthersOf(c, x, d) = {}
  /\ d.slot \in {c, NoAttempt}

\* Compensates, of the record of a call.
Comp(c, x, d) ==
  /\ x.outcome \in {"denied", "roleDenied"}
  /\ \/ x.outcome = "roleDenied" /\ x.mode = "owner" /\ x.bound
     \/ Last(c, x, d)

Shape(p, h) ==
  /\ p \in PinType
  /\ (p.phase = "RESERVED") <=> (p.msg # NoMessage)
  /\ p.phase # "RESERVED" => p.slot = NoAttempt /\ p.inFlight = {} /\ p.tracked
  /\ (p.phase = "ABSENT") <=> (p.build = NoBuild)
  /\ p.phase = "ABSENT" => p = NoPin
  /\ p.phase # "ABSENT" => p.rev \in Nat /\ p.ver \in Nat
  /\ ~p.tracked => p.inFlight = {} /\ "allAttemptsTerminated" \notin h.asserts
  /\ p.tracked => p.slot = NoAttempt \/ p.slot \in p.inFlight

AttemptAt ==
  {"idle", "begin", "join", "kernel", "evaluating", "settle", "commit",
   "committing", "conclude", "recheck", "remove", "leave", "deregister",
   "done", "gaveUp", "crashed"}

RecoveryAt ==
  {"idle", "weigh", "free", "commit", "committing", "done", "gaveUp",
   "crashed"}

CallType ==
  [at : AttemptAt \cup RecoveryAt, msg : Messages \cup {NoMessage},
   mode : {"none", "owner", "adopt", "admitted"},
   registered : BOOLEAN, bound : BOOLEAN, outcome : Outcomes,
   assertion : Assertions, doc : PinType, round : 0 .. MaxRounds - 1]

Concluding == {"conclude", "recheck", "remove", "leave", "deregister"}

\* The outcomes an attempt concludes with.
Unadmitted == {"denied", "roleDenied", "ambiguous"}

\* The labels at which a call holds the reservation it has read.
Holding ==
  {"committing", "recheck", "remove", "leave", "deregister", "weigh", "free"}

\* What the document a call holds is, at each of its awaits.
Holds(c, x, h) ==
  /\ x.at = "join" => x.doc.phase # "ADMITTED"
  /\ x.at = "join" /\ x.doc.phase = "RESERVED" =>
       /\ Matches(x.doc, c) /\ x.doc.msg = x.msg
       /\ x.doc.slot = NoAttempt \/ x.doc.tracked
  /\ x.at \in Holding => x.doc.phase = "RESERVED" /\ Matches(x.doc, c)
  /\ x.at \in {"recheck", "remove", "leave"} => Comp(c, x, x.doc)
  /\ x.at = "deregister" => ~Comp(c, x, x.doc)
  /\ x.at = "leave" => ~h.removes
  /\ x.at = "remove" => h.removes
  /\ x.at \in {"weigh", "free"} => x.assertion \in h.asserts
  /\ x.at = "free" => x.assertion # "none"

\* How far a call has come.
Come(c, x, w) ==
  /\ c \in Attempts => x.at \in AttemptAt
  /\ c \in Attempts /\ x.at # "idle" => x.msg \in Messages
  /\ c \in Recoveries =>
       x.at \in RecoveryAt /\ x.mode = "none" /\ x.outcome = "none"
  /\ ~Live(x) => x.mode = "none"
  /\ x.at \in {"begin", "join"} => x.mode = "none"
  /\ x.at \in {"begin", "join", "kernel", "evaluating"} => x.outcome = "none"
  /\ x.outcome = "roleDenied" => Excluded(c, x)
  /\ x.at = "evaluating" => ~Excluded(c, x)
  /\ x.at = "settle" =>
       \/ x.outcome \in Unadmitted
       \/ x.outcome = "admitted" /\ w[x.msg] # NoBuild
  /\ x.at \in Concluding => x.outcome \in Unadmitted /\ x.mode # "admitted"

Knows(c, x, h, w) ==
  x \in CallType /\ Shape(x.doc, h) /\ Holds(c, x, h) /\ Come(c, x, w)

TypedOf(p, t, w, l, f, h) ==
  /\ Shape(p, h)
  /\ t \in Nat \cup {-1}
  /\ w \in [Messages -> Builds \cup {NoBuild}]
  /\ l \subseteq Attempts
  /\ f \in [Callers -> CallType]
  /\ \A c \in Callers : Knows(c, f[c], h, w)

Typed == TypedOf(pin, top, admitted, late, call, host)

-----------------------------------------------------------------------------
(* The shapes of the pin                                                    *)

LEMMA NoPinShape ==
  ASSUME NEW h
  PROVE  Shape(NoPin, h)
BY PinAssumption DEF Shape, NoPin, PinType

LEMMA NewCallKnows ==
  ASSUME NEW c \in Callers, NEW h, NEW w
  PROVE  Knows(c, NewCall, h, w) /\ NewCall \in CallType
<1>1. NewCall \in CallType
  BY PinAssumption DEF CallType, NewCall, AttemptAt, RecoveryAt, Outcomes,
     Assertions, PinType, NoPin
<1>2. Shape(NewCall.doc, h)
  BY NoPinShape DEF NewCall
<1>3. Holds(c, NewCall, h)
  BY DEF Holds, NewCall, NoPin, Holding
<1>4. Come(c, NewCall, w)
  BY DEF Come, NewCall, AttemptAt, RecoveryAt, Live, Concluding
<1> QED
  BY <1>1, <1>2, <1>3, <1>4 DEF Knows

\* The end of a call.
LEMMA EndFields ==
  ASSUME NEW x \in CallType, NEW s \in AttemptAt \cup RecoveryAt
  PROVE  /\ EndOf(x, s) \in CallType
         /\ EndOf(x, s).at = s /\ EndOf(x, s).msg = x.msg
         /\ EndOf(x, s).mode = "none" /\ EndOf(x, s).doc = NoPin
         /\ EndOf(x, s).outcome = (IF x.outcome = "ambiguous"
                                     THEN "ambiguous" ELSE "none")
<1>1. NewCall \in CallType
  BY PinAssumption DEF CallType, NewCall, AttemptAt, RecoveryAt, Outcomes,
     Assertions, PinType, NoPin
<1>2. x.msg \in Messages \cup {NoMessage}
  BY DEF CallType
<1> DEFINE o == IF x.outcome = "ambiguous" THEN "ambiguous" ELSE "none"
<1>3. o \in Outcomes
  BY DEF Outcomes
<1>4. EndOf(x, s) = [NewCall EXCEPT !.at = s, !.msg = x.msg, !.outcome = o]
  BY DEF EndOf
<1> HIDE DEF o
<1>5. /\ EndOf(x, s) \in CallType
      /\ EndOf(x, s).at = s /\ EndOf(x, s).msg = x.msg
      /\ EndOf(x, s).outcome = o
  BY <1>1, <1>2, <1>3, <1>4 DEF CallType
<1>6. EndOf(x, s).mode = "none" /\ EndOf(x, s).doc = NoPin
  BY <1>4 DEF NewCall
<1> QED
  BY <1>5, <1>6 DEF o

LEMMA EndKnows ==
  ASSUME NEW c \in Callers, NEW x, NEW h, NEW w, Knows(c, x, h, w),
         NEW s \in {"done", "gaveUp", "crashed"}, x.at # "idle"
  PROVE  Knows(c, EndOf(x, s), h, w)
<1> DEFINE y == EndOf(x, s)
<1>1. x \in CallType /\ s \in AttemptAt \cup RecoveryAt
  BY DEF Knows, AttemptAt
<1>2. /\ y \in CallType /\ y.at = s /\ y.msg = x.msg /\ y.mode = "none"
      /\ y.doc = NoPin
      /\ y.outcome = (IF x.outcome = "ambiguous" THEN "ambiguous" ELSE "none")
  BY <1>1, EndFields
<1> HIDE DEF y
<1>3. Shape(y.doc, h)
  BY <1>2, NoPinShape
<1>4. Holds(c, y, h)
  BY <1>2 DEF Holds, Holding
<1>5. Come(c, y, w)
  BY <1>2 DEF Knows, Come, AttemptAt, RecoveryAt, Live, Concluding
<1> QED
  BY <1>2, <1>3, <1>4, <1>5 DEF Knows, y

\* The next round of a loop, or the end of its last.
LEMMA AgainFields ==
  ASSUME NEW x \in CallType, NEW s \in AttemptAt \cup RecoveryAt,
         x.round + 1 # MaxRounds
  PROVE  /\ AgainOf(x, s) \in CallType
         /\ AgainOf(x, s).at = s /\ AgainOf(x, s).msg = x.msg
         /\ AgainOf(x, s).mode = x.mode
         /\ AgainOf(x, s).registered = x.registered
         /\ AgainOf(x, s).bound = x.bound
         /\ AgainOf(x, s).outcome = x.outcome
         /\ AgainOf(x, s).assertion = x.assertion
         /\ AgainOf(x, s).doc = NoPin
<1>1. NoPin \in PinType
  BY PinAssumption DEF NoPin, PinType
<1>2. x.round + 1 \in 0 .. MaxRounds - 1
  BY PinAssumption DEF CallType
<1>3. AgainOf(x, s) = [x EXCEPT !.at = s, !.round = x.round + 1, !.doc = NoPin]
  BY DEF AgainOf
<1> QED
  BY <1>1, <1>2, <1>3 DEF CallType

LEMMA AgainKnows ==
  ASSUME NEW c \in Callers, NEW x, NEW h, NEW w, Knows(c, x, h, w),
         NEW s \in {"begin", "commit", "conclude"}, x.at # "idle",
         c \in Recoveries => s = "commit",
         s = "begin" => x.mode = "none" /\ x.outcome = "none",
         s = "conclude" => x.outcome \in Unadmitted /\ x.mode # "admitted"
  PROVE  Knows(c, AgainOf(x, s), h, w)
<1> DEFINE y == AgainOf(x, s)
<1>1. x \in CallType /\ s \in AttemptAt \cup RecoveryAt
  BY DEF Knows, AttemptAt
<1>2. CASE x.round + 1 = MaxRounds
  <2>1. y = EndOf(x, "gaveUp")
    BY <1>2 DEF AgainOf
  <2> QED
    BY <2>1, EndKnows
<1>3. CASE x.round + 1 # MaxRounds
  <2>1. /\ y \in CallType /\ y.at = s /\ y.msg = x.msg /\ y.mode = x.mode
        /\ y.doc = NoPin /\ y.outcome = x.outcome
    BY <1>1, <1>3, AgainFields
  <2> HIDE DEF y
  <2>2. Shape(y.doc, h)
    BY <2>1, NoPinShape
  <2>3. Holds(c, y, h)
    BY <2>1 DEF Holds, Holding
  <2>4. Come(c, y, w)
    BY <2>1 DEF Knows, Come, AttemptAt, RecoveryAt, Live, Concluding, Excluded
  <2> QED
    BY <2>1, <2>2, <2>3, <2>4 DEF Knows, y
<1> QED
  BY <1>2, <1>3

\* The start of a loop.
LEMMA EnterFields ==
  ASSUME NEW x \in CallType, NEW s \in AttemptAt \cup RecoveryAt
  PROVE  /\ EnterOf(x, s) \in CallType
         /\ EnterOf(x, s).at = s /\ EnterOf(x, s).msg = x.msg
         /\ EnterOf(x, s).mode = x.mode
         /\ EnterOf(x, s).registered = x.registered
         /\ EnterOf(x, s).bound = x.bound
         /\ EnterOf(x, s).outcome = x.outcome
         /\ EnterOf(x, s).assertion = x.assertion
         /\ EnterOf(x, s).doc = NoPin
<1>1. NoPin \in PinType /\ 0 \in 0 .. MaxRounds - 1
  BY PinAssumption DEF NoPin, PinType
<1> QED
  BY <1>1 DEF CallType, EnterOf

LEMMA EnterKnows ==
  ASSUME NEW c \in Callers, NEW x, NEW h, NEW w, Knows(c, x, h, w),
         NEW s \in {"commit", "conclude"}, x.at # "idle",
         s = "conclude" =>
           c \in Attempts /\ x.outcome \in Unadmitted /\ x.mode # "admitted"
  PROVE  Knows(c, EnterOf(x, s), h, w)
<1> DEFINE y == EnterOf(x, s)
<1>1. x \in CallType /\ s \in AttemptAt \cup RecoveryAt
  BY DEF Knows, AttemptAt
<1>2. /\ y \in CallType /\ y.at = s /\ y.msg = x.msg /\ y.mode = x.mode
      /\ y.doc = NoPin /\ y.outcome = x.outcome
  BY <1>1, EnterFields
<1> HIDE DEF y
<1>3. Shape(y.doc, h)
  BY <1>2, NoPinShape
<1>4. Holds(c, y, h)
  BY <1>2 DEF Holds, Holding
<1>5. Come(c, y, w)
  BY <1>2, PinAssumption
  DEF Knows, Come, AttemptAt, RecoveryAt, Live, Concluding, Excluded
<1> QED
  BY <1>2, <1>3, <1>4, <1>5 DEF Knows, y

\* What a send has read before it joins.
Joinable(d, a, m) ==
  /\ d.phase # "ADMITTED"
  /\ d.phase = "RESERVED" =>
       /\ Matches(d, a) /\ d.msg = m
       /\ d.slot = NoAttempt \/ d.tracked

\* The values the operations write, at any revision.
IsJoined(q, d, a, m) ==
  /\ q.phase = "RESERVED" /\ Matches(q, a) /\ q.msg = m
  /\ q.tracked = d.tracked
  /\ q.slot = (IF d.slot = NoAttempt THEN a ELSE d.slot)
  /\ q.inFlight = (IF d.tracked THEN d.inFlight \cup {a} ELSE d.inFlight)

IsAdmitted(q, d) ==
  q.phase = "ADMITTED" /\ q.build = d.build /\ q.inFlight = {}

IsDeregistered(q, d, a, x) ==
  /\ q.phase = "RESERVED" /\ q.build = d.build /\ q.msg = d.msg
  /\ q.tracked = d.tracked
  /\ q.slot = (IF d.slot = a THEN NoAttempt ELSE d.slot)
  /\ q.inFlight = OthersOf(a, x, d)

IsFreed(q, d, s) ==
  /\ q.phase = "RESERVED" /\ q.build = d.build /\ q.msg = d.msg
  /\ q.tracked = d.tracked /\ q.slot = NoAttempt
  /\ q.inFlight = (IF s = "allAttemptsTerminated" THEN {} ELSE d.inFlight)

LEMMA JoinedShape ==
  ASSUME NEW h, NEW a \in Attempts, call[a].msg \in Messages,
         NEW d, Shape(d, h), NEW r \in Nat, NEW n \in Nat, NEW q,
         q = Revised(Joined(d, a), r, n), Joinable(d, a, call[a].msg)
  PROVE  Shape(q, h) /\ IsJoined(q, d, a, call[a].msg)
<1>1. CASE d.phase = "ABSENT"
  <2>1. d = NoPin
    BY <1>1 DEF Shape
  <2>2. q = [phase |-> "RESERVED", build |-> BuildOf[a], msg |-> call[a].msg,
             slot |-> a, inFlight |-> {a}, tracked |-> TRUE, bound |-> TRUE,
             rev |-> r, ver |-> n]
    BY <2>1 DEF Revised, Joined, NoPin
  <2>3. BuildOf[a] \in Builds /\ {a} \in SUBSET Attempts
    BY PinAssumption DEF Callers
  <2>4. q \in PinType
    <3>1. \A m \in Messages \cup {NoMessage} :
            [phase |-> "RESERVED", build |-> BuildOf[a], msg |-> m,
             slot |-> a, inFlight |-> {a}, tracked |-> TRUE, bound |-> TRUE,
             rev |-> r, ver |-> n] \in PinType
      BY <2>3 DEF PinType
    <3> QED
      BY <2>2, <3>1
  <2>5. /\ q.rev = r /\ q.ver = n
        /\ q.phase = "RESERVED" /\ q.build = BuildOf[a] /\ q.msg = call[a].msg
        /\ q.tracked /\ q.slot = a /\ q.inFlight = {a}
    BY <2>2
  <2>6. q.build # NoBuild /\ q.msg # NoMessage
    BY <2>3, <2>5, PinAssumption
  <2>8. Shape(q, h)
    BY <2>4, <2>5, <2>6 DEF Shape
  <2>7. d.slot = NoAttempt /\ d.tracked /\ d.inFlight = {}
    BY <2>1 DEF NoPin
  <2> QED
    BY <2>5, <2>7, <2>8 DEF Matches, IsJoined
<1>2. CASE d.phase = "RESERVED"
  <2>1. d \in PinType
    BY DEF Shape
  <2>2. q = [d EXCEPT !.slot = IF d.slot = NoAttempt THEN a ELSE d.slot,
                      !.inFlight = IF d.tracked THEN d.inFlight \cup {a}
                                   ELSE d.inFlight,
                      !.rev = r, !.ver = n]
    BY <1>2 DEF Revised, Joined
  <2> DEFINE s == IF d.slot = NoAttempt THEN a ELSE d.slot
             i == IF d.tracked THEN d.inFlight \cup {a} ELSE d.inFlight
  <2>a. s \in Attempts \cup {NoAttempt} /\ i \in SUBSET Attempts
    BY <2>1 DEF PinType
  <2>b. q = [d EXCEPT !.slot = s, !.inFlight = i, !.rev = r, !.ver = n]
    BY <2>2
  <2> HIDE DEF s, i
  <2>3. q \in PinType
    BY <2>1, <2>a, <2>b DEF PinType
  <2> USE DEF s, i
  <2>4. /\ q.rev = r /\ q.ver = n /\ q.phase = "RESERVED" /\ q.build = d.build
        /\ q.msg = d.msg /\ q.tracked = d.tracked
        /\ q.slot = (IF d.slot = NoAttempt THEN a ELSE d.slot)
        /\ q.inFlight = (IF d.tracked THEN d.inFlight \cup {a} ELSE d.inFlight)
    BY <1>2, <2>1, <2>2 DEF PinType
  <2>5. Shape(q, h)
    BY <1>2, <2>3, <2>4, PinAssumption DEF Shape, Joinable
  <2> QED
    BY <1>2, <2>4, <2>5 DEF Matches, Joinable, IsJoined
<1> QED
  BY <1>1, <1>2 DEF Shape, PinType, Joinable

LEMMA AdmittedShape ==
  ASSUME NEW h, NEW c \in Callers, NEW d, Matches(d, c),
         NEW r \in Nat, NEW n \in Nat, NEW q, q = Revised(AsAdmitted(d), r, n)
  PROVE  Shape(q, h) /\ IsAdmitted(q, d)
<1>1. q = [phase |-> "ADMITTED", build |-> d.build, msg |-> NoMessage,
           slot |-> NoAttempt, inFlight |-> {}, tracked |-> TRUE,
           bound |-> TRUE, rev |-> r, ver |-> n]
  BY DEF Revised, AsAdmitted, NoPin
<1>2. d.build \in Builds
  BY PinAssumption DEF Matches
<1>3. q \in PinType
  <2>1. \A b \in Builds :
          [phase |-> "ADMITTED", build |-> b, msg |-> NoMessage,
           slot |-> NoAttempt, inFlight |-> {}, tracked |-> TRUE,
           bound |-> TRUE, rev |-> r, ver |-> n] \in PinType
    BY DEF PinType
  <2> QED
    BY <1>1, <1>2, <2>1
<1>4. /\ q.rev = r /\ q.ver = n /\ q.phase = "ADMITTED" /\ q.build = d.build
      /\ q.msg = NoMessage /\ q.slot = NoAttempt /\ q.inFlight = {}
      /\ q.tracked
  BY <1>1
<1>5. d.build # NoBuild
  BY <1>2, PinAssumption
<1>6. Shape(q, h)
  BY <1>3, <1>4, <1>5 DEF Shape
<1> QED
  BY <1>4, <1>6 DEF IsAdmitted

LEMMA DeregisteredShape ==
  ASSUME NEW h, NEW a \in Attempts, NEW d, Shape(d, h), d.phase = "RESERVED",
         NEW r \in Nat, NEW n \in Nat, NEW q,
         q = Revised(Deregistered(d, a), r, n)
  PROVE  Shape(q, h) /\ IsDeregistered(q, d, a, call[a])
<1>1. d \in PinType
  BY DEF Shape
<1>2. q = [d EXCEPT !.inFlight = OthersOf(a, call[a], d),
                    !.slot = IF d.slot = a THEN NoAttempt ELSE d.slot,
                    !.rev = r, !.ver = n]
  BY DEF Revised, Deregistered, Others, OthersOf, KeepsInFlight
<1>3. OthersOf(a, call[a], d) \in SUBSET Attempts
  BY <1>1 DEF OthersOf, PinType
<1>4. q \in PinType
  BY <1>1, <1>2, <1>3 DEF PinType
<1>5. /\ q.rev = r /\ q.ver = n /\ q.phase = "RESERVED"
      /\ q.build = d.build /\ q.msg = d.msg /\ q.tracked = d.tracked
      /\ q.slot = (IF d.slot = a THEN NoAttempt ELSE d.slot)
      /\ q.inFlight = OthersOf(a, call[a], d)
  BY <1>1, <1>2 DEF PinType
<1>6. /\ ~d.tracked => q.inFlight = d.inFlight
      /\ d.slot \in d.inFlight /\ d.slot # a => d.slot \in q.inFlight
  BY <1>5 DEF OthersOf
<1>7. Shape(q, h)
  BY <1>4, <1>5, <1>6, PinAssumption DEF Shape
<1> QED
  BY <1>5, <1>7 DEF IsDeregistered

LEMMA FreedShape ==
  ASSUME NEW h, NEW d, Shape(d, h), d.phase = "RESERVED",
         NEW s \in h.asserts, s # "none",
         NEW r \in Nat, NEW n \in Nat, NEW q, q = Revised(Freed(d, s), r, n)
  PROVE  Shape(q, h) /\ IsFreed(q, d, s)
<1>1. d \in PinType
  BY DEF Shape
<1>2. CASE s = "allAttemptsTerminated"
  <2>1. d.tracked
    BY <1>2 DEF Shape
  <2>2. q = [d EXCEPT !.slot = NoAttempt, !.inFlight = {}, !.tracked = TRUE,
                      !.rev = r, !.ver = n]
    BY <1>2 DEF Revised, Freed
  <2>3. q \in PinType
    BY <1>1, <2>2 DEF PinType
  <2>4. /\ q.rev = r /\ q.ver = n /\ q.phase = "RESERVED" /\ q.build = d.build
        /\ q.msg = d.msg /\ q.tracked /\ q.slot = NoAttempt /\ q.inFlight = {}
    BY <1>1, <2>2 DEF PinType
  <2>5. Shape(q, h)
    BY <2>1, <2>3, <2>4 DEF Shape
  <2> QED
    BY <1>2, <2>1, <2>4, <2>5 DEF PinType, IsFreed
<1>3. CASE s # "allAttemptsTerminated"
  <2>1. q = [d EXCEPT !.slot = NoAttempt, !.rev = r, !.ver = n]
    BY <1>3 DEF Revised, Freed
  <2>2. q \in PinType
    BY <1>1, <2>1 DEF PinType
  <2>3. /\ q.rev = r /\ q.ver = n /\ q.phase = "RESERVED" /\ q.build = d.build
        /\ q.msg = d.msg /\ q.tracked = d.tracked /\ q.slot = NoAttempt
        /\ q.inFlight = d.inFlight
    BY <1>1, <2>1 DEF PinType
  <2>4. Shape(q, h)
    BY <2>2, <2>3 DEF Shape
  <2> QED
    BY <1>3, <2>3, <2>4 DEF IsFreed
<1> QED
  BY <1>2, <1>3

-----------------------------------------------------------------------------
(* Steps of the first layer                                                 *)

LEMMA TypedCall ==
  ASSUME NEW p, NEW t, NEW w, NEW l, NEW f, NEW h, TypedOf(p, t, w, l, f, h),
         NEW c \in Callers, NEW y, Knows(c, y, h, w)
  PROVE  TypedOf(p, t, w, l, [f EXCEPT ![c] = y], h)
<1>1. y \in CallType
  BY DEF Knows
<1>2. [f EXCEPT ![c] = y] \in [Callers -> CallType]
  BY <1>1 DEF TypedOf
<1>3. \A d \in Callers : Knows(d, [f EXCEPT ![c] = y][d], h, w)
  BY DEF TypedOf
<1> QED
  BY <1>2, <1>3 DEF TypedOf

LEMMA TypedPin ==
  ASSUME NEW p, NEW t, NEW w, NEW l, NEW f, NEW h, TypedOf(p, t, w, l, f, h),
         NEW q, Shape(q, h), NEW u \in Nat \cup {-1}
  PROVE  TypedOf(q, u, w, l, f, h)
BY DEF TypedOf

LEMMA TypedLate ==
  ASSUME NEW p, NEW t, NEW w, NEW l, NEW f, NEW h, TypedOf(p, t, w, l, f, h),
         NEW k \in SUBSET Attempts
  PROVE  TypedOf(p, t, w, k, f, h)
BY DEF TypedOf

\* Admits, of the values it names.
Admitting(w, m, b) == [w EXCEPT ![m] = IF @ = NoBuild THEN b ELSE @]

LEMMA AdmittingType ==
  ASSUME NEW w \in [Messages -> Builds \cup {NoBuild}], NEW m \in Messages,
         NEW b \in Builds
  PROVE  /\ Admitting(w, m, b) \in [Messages -> Builds \cup {NoBuild}]
         /\ Admitting(w, m, b)[m] # NoBuild
         /\ \A n \in Messages : Admitting(w, m, b)[n] =
              IF n = m /\ w[m] = NoBuild THEN b ELSE w[n]
BY PinAssumption DEF Admitting

LEMMA TypedWitness ==
  ASSUME NEW p, NEW t, NEW w, NEW l, NEW f, NEW h, TypedOf(p, t, w, l, f, h),
         NEW m \in Messages, NEW b \in Builds
  PROVE  TypedOf(p, t, Admitting(w, m, b), l, f, h)
<1> DEFINE v == Admitting(w, m, b)
<1>1. w \in [Messages -> Builds \cup {NoBuild}]
  BY DEF TypedOf
<1>2. /\ v \in [Messages -> Builds \cup {NoBuild}]
      /\ \A n \in Messages : v[n] = IF n = m /\ w[m] = NoBuild THEN b ELSE w[n]
  BY <1>1, AdmittingType
<1>3. \A n \in Messages : w[n] # NoBuild => v[n] # NoBuild
  BY <1>2
<1> HIDE DEF v
<1>4. ASSUME NEW c \in Callers
      PROVE  Knows(c, f[c], h, v)
  <2>1. Knows(c, f[c], h, w)
    BY DEF TypedOf
  <2>2. c \in Attempts /\ f[c].at # "idle" => f[c].msg \in Messages
    BY <2>1 DEF Knows, Come
  <2>3. f[c].at = "settle" => c \in Attempts
    BY <2>1, PinAssumption DEF Knows, Come, RecoveryAt, Callers
  <2>4. Come(c, f[c], v)
    BY <1>3, <2>1, <2>2, <2>3 DEF Knows, Come
  <2> QED
    BY <2>1, <2>4 DEF Knows
<1> QED
  BY <1>2, <1>4 DEF TypedOf, v

-----------------------------------------------------------------------------
(* What the steps of a call make of it                                      *)


LEMMA SendKnows ==
  ASSUME NEW a \in Attempts, NEW m \in Messages, NEW h, NEW w
  PROVE  Knows(a, [NewCall EXCEPT !.at = "begin", !.msg = m], h, w)
<1> DEFINE y == [NewCall EXCEPT !.at = "begin", !.msg = m]
<1>1. NewCall \in CallType
  BY NewCallKnows DEF Callers
<1>2. /\ y \in CallType /\ y.at = "begin" /\ y.msg = m /\ y.mode = "none"
      /\ y.outcome = "none" /\ y.doc = NoPin
  BY <1>1 DEF CallType, NewCall, AttemptAt
<1> HIDE DEF y
<1>3. Shape(y.doc, h)
  BY <1>2, NoPinShape
<1>4. Holds(a, y, h)
  BY <1>2 DEF Holds, Holding
<1>5. Come(a, y, w)
  BY <1>2, PinAssumption DEF Come, AttemptAt, Live, Concluding, Unadmitted
<1> QED
  BY <1>2, <1>3, <1>4, <1>5 DEF Knows, y

\* A call that stays where it was but for its label and its outcome, and that
\* holds no document on which its next await relies.
LEMMA MoveKnows ==
  ASSUME NEW a \in Attempts, NEW x, NEW h, NEW w, Knows(a, x, h, w),
         NEW y \in CallType, y.msg = x.msg, y.doc = x.doc,
         x.at \notin {"idle", "done", "gaveUp", "crashed"},
         y.at \in {"kernel", "evaluating", "settle"},
         y.outcome = "roleDenied" => Excluded(a, x),
         y.at # "settle" => y.outcome = "none",
         y.at = "evaluating" => ~Excluded(a, x),
         y.at = "settle" =>
           \/ y.outcome \in Unadmitted
           \/ y.outcome = "admitted" /\ w[x.msg] # NoBuild
  PROVE  Knows(a, y, h, w)
<1>1. Shape(y.doc, h)
  BY DEF Knows
<1>2. Holds(a, y, h)
  BY DEF Holds, Holding
<1>3. Come(a, y, w)
  BY PinAssumption
  DEF Knows, Come, AttemptAt, Live, Concluding, Unadmitted, Excluded
<1> QED
  BY <1>1, <1>2, <1>3 DEF Knows

-----------------------------------------------------------------------------
(* The operations keep the first layer                                      *)

LEMMA KnowsNow ==
  ASSUME Typed, NEW c \in Callers
  PROVE  Knows(c, call[c], host, admitted) /\ call[c] \in CallType
BY DEF Typed, TypedOf, Knows

LEMMA LocalTyped ==
  ASSUME Typed, NEW c \in Callers, NEW y, Knows(c, y, host, admitted),
         call' = [call EXCEPT ![c] = y],
         UNCHANGED <<pin, top, admitted, late, host>>
  PROVE  Typed'
<1>1. TypedOf(pin, top, admitted, late, [call EXCEPT ![c] = y], host)
  BY TypedCall DEF Typed
<1> QED
  BY <1>1 DEF Typed

LEMMA SendTyped ==
  ASSUME Typed, NEW a \in Attempts, NEW m \in Messages, Send(a, m)
  PROVE  Typed'
<1> DEFINE y == [NewCall EXCEPT !.at = "begin", !.msg = m]
<1>1. Knows(a, y, host, admitted)
  BY SendKnows
<1>2. a \in Callers /\ call' = [call EXCEPT ![a] = y]
  BY DEF Callers, Send, Put
<1> HIDE DEF y
<1> QED
  BY <1>1, <1>2, LocalTyped DEF Send

\* The four ways a send goes on from the pin it reads.
LEMMA ReadToSendCases ==
  ASSUME NEW a \in Attempts, ReadPinToSend(a)
  PROVE  /\ At(a, "begin") /\ UNCHANGED <<pin, top, admitted, late, host>>
         /\ \/ End(a, "done")
            \/ /\ pin.phase = "ADMITTED" /\ Matches(pin, a)
               /\ Put(a, [call[a] EXCEPT !.at = "kernel", !.mode = "admitted"])
            \/ /\ pin.phase = "RESERVED" /\ Matches(pin, a)
               /\ pin.msg = call[a].msg /\ ~pin.tracked
               /\ Put(a, [call[a] EXCEPT !.at = "kernel", !.mode = "adopt"])
            \/ /\ pin.phase # "ADMITTED"
               /\ pin.phase # "ABSENT" => Matches(pin, a)
               /\ pin.phase = "RESERVED" => pin.msg = call[a].msg
               /\ pin.slot = NoAttempt \/ pin.tracked
               /\ Put(a, [call[a] EXCEPT !.at = "join", !.doc = pin])
BY DEF ReadPinToSend, RefusesSend

LEMMA ReadToSendTyped ==
  ASSUME Typed, NEW a \in Attempts, ReadPinToSend(a)
  PROVE  Typed'
<1> DEFINE x == call[a]
<1>0. a \in Callers
  BY DEF Callers
<1>1. /\ x.at = "begin" /\ Knows(a, x, host, admitted) /\ x \in CallType
      /\ UNCHANGED <<pin, top, admitted, late, host>>
  BY <1>0, ReadToSendCases, KnowsNow DEF At
<1>2. x.msg \in Messages /\ x.outcome = "none"
  BY <1>1 DEF Knows, Come
<1>3. CASE End(a, "done")
  BY <1>0, <1>1, <1>3, EndKnows, LocalTyped DEF End, Put
<1>4. ASSUME NEW s \in {"admitted", "adopt"},
             Put(a, [x EXCEPT !.at = "kernel", !.mode = s])
      PROVE  Typed'
  <2> DEFINE y == [x EXCEPT !.at = "kernel", !.mode = s]
  <2>1. y \in CallType /\ y.at = "kernel" /\ y.msg = x.msg /\ y.doc = x.doc
        /\ y.outcome = x.outcome
    BY <1>1 DEF CallType, AttemptAt
  <2>2. call' = [call EXCEPT ![a] = y]
    BY <1>4 DEF Put
  <2> HIDE DEF y
  <2>3. Knows(a, y, host, admitted)
    BY <1>1, <1>2, <2>1, MoveKnows
  <2> QED
    BY <1>0, <1>1, <2>2, <2>3, LocalTyped
<1>5. CASE /\ pin.phase # "ADMITTED"
           /\ pin.phase # "ABSENT" => Matches(pin, a)
           /\ pin.phase = "RESERVED" => pin.msg = x.msg
           /\ pin.slot = NoAttempt \/ pin.tracked
           /\ Put(a, [x EXCEPT !.at = "join", !.doc = pin])
  <2> DEFINE y == [x EXCEPT !.at = "join", !.doc = pin]
  <2>1. Shape(pin, host) /\ pin \in PinType
    BY DEF Typed, TypedOf, Shape
  <2>2. y \in CallType /\ y.at = "join" /\ y.msg = x.msg /\ y.doc = pin
        /\ y.outcome = x.outcome /\ y.mode = x.mode
    BY <1>1, <2>1 DEF CallType, AttemptAt
  <2>3. call' = [call EXCEPT ![a] = y]
    BY <1>5 DEF Put
  <2> HIDE DEF y
  <2>4. Holds(a, y, host)
    BY <1>5, <2>2 DEF Holds, Holding
  <2>5. Come(a, y, admitted)
    BY <1>1, <2>2, PinAssumption
    DEF Knows, Come, AttemptAt, Live, Concluding, Excluded
  <2>6. Knows(a, y, host, admitted)
    BY <2>1, <2>2, <2>4, <2>5 DEF Knows
  <2> QED
    BY <1>0, <1>1, <2>3, <2>6, LocalTyped
<1> QED
  BY <1>3, <1>4, <1>5, ReadToSendCases

\* Write, and a revision that the document did not have.
LEMMA NextRevType ==
  ASSUME Typed
  PROVE  pin.rev + 1 \in Nat /\ top + 1 \in Nat
BY DEF Typed, TypedOf, Shape, PinType

LEMMA WriteTyped ==
  ASSUME Typed, NEW c \in Callers, NEW y, Knows(c, y, host, admitted),
         call' = [call EXCEPT ![c] = y],
         UNCHANGED <<admitted, late, host>>,
         NEW v, Write(v), Shape(Revised(v, pin.rev + 1, top + 1), host)
  PROVE  Typed'
<1>1. top' \in Nat \cup {-1}
  BY NextRevType, PinAssumption DEF Write, Typed, TypedOf
<1>2. Shape(pin', host)
  BY DEF Write
<1>3. TypedOf(pin, top, admitted, late, [call EXCEPT ![c] = y], host)
  BY TypedCall DEF Typed
<1>4. TypedOf(pin', top', admitted, late, [call EXCEPT ![c] = y], host)
  BY <1>1, <1>2, <1>3, TypedPin
<1> QED
  BY <1>4 DEF Typed

\* The call that has joined.
JoinedCall(x) ==
  [x EXCEPT !.at = "kernel", !.registered = x.doc.tracked,
            !.bound = x.doc.bound, !.doc = NoPin,
            !.mode = IF x.doc.slot = NoAttempt THEN "owner" ELSE "adopt"]

LEMMA JoinedFields ==
  ASSUME NEW x \in CallType
  PROVE  /\ JoinedCall(x) \in CallType
         /\ JoinedCall(x).at = "kernel" /\ JoinedCall(x).msg = x.msg
         /\ JoinedCall(x).registered = x.doc.tracked
         /\ JoinedCall(x).doc = NoPin
         /\ JoinedCall(x).mode = (IF x.doc.slot = NoAttempt THEN "owner"
                                  ELSE "adopt")
         /\ JoinedCall(x).outcome = x.outcome
         /\ JoinedCall(x).assertion = x.assertion
<1> DEFINE m == IF x.doc.slot = NoAttempt THEN "owner" ELSE "adopt"
<1>1. x.doc.tracked \in BOOLEAN /\ x.doc.bound \in BOOLEAN /\ NoPin \in PinType
  BY PinAssumption DEF CallType, PinType, NoPin
<1>2. m \in {"none", "owner", "adopt", "admitted"}
  OBVIOUS
<1>3. JoinedCall(x) = [x EXCEPT !.at = "kernel", !.registered = x.doc.tracked,
                         !.bound = x.doc.bound, !.doc = NoPin, !.mode = m]
  BY DEF JoinedCall
<1> HIDE DEF m
<1>4. /\ JoinedCall(x) \in CallType
      /\ JoinedCall(x).at = "kernel" /\ JoinedCall(x).msg = x.msg
      /\ JoinedCall(x).registered = x.doc.tracked
      /\ JoinedCall(x).doc = NoPin /\ JoinedCall(x).mode = m
      /\ JoinedCall(x).outcome = x.outcome
      /\ JoinedCall(x).assertion = x.assertion
  BY <1>1, <1>2, <1>3 DEF CallType, AttemptAt
<1> QED
  BY <1>4 DEF m

LEMMA JoinTyped ==
  ASSUME Typed, NEW a \in Attempts, Join(a)
  PROVE  Typed'
<1> DEFINE x == call[a]
<1>0. a \in Callers
  BY DEF Callers
<1>1. x.at = "join" /\ Knows(a, x, host, admitted) /\ x \in CallType
  BY <1>0, KnowsNow DEF Join, At
<1>2. x.msg \in Messages /\ x.outcome = "none" /\ x.mode = "none"
  BY <1>1 DEF Knows, Come
<1>3. Shape(x.doc, host) /\ Joinable(x.doc, a, x.msg)
  BY <1>1 DEF Knows, Holds, Joinable
<1>4. CASE /\ Unchanged(a) /\ Write(Joined(x.doc, a))
           /\ Put(a, JoinedCall(x))
  <2> DEFINE y == JoinedCall(x)
  <2>1. y \in CallType /\ y.at = "kernel" /\ y.msg = x.msg /\ y.doc = NoPin
        /\ y.mode \in {"owner", "adopt"} /\ y.outcome = "none"
    BY <1>1, <1>2, JoinedFields
  <2>2. call' = [call EXCEPT ![a] = y] /\ UNCHANGED <<admitted, late, host>>
    BY <1>4 DEF Put, Join
  <2> HIDE DEF y
  <2>3. Shape(y.doc, host)
    BY <2>1, NoPinShape
  <2>4. Holds(a, y, host)
    BY <2>1 DEF Holds, Holding
  <2>5. Come(a, y, admitted)
    BY <1>2, <2>1, PinAssumption DEF Come, AttemptAt, Live, Concluding
  <2>6. Knows(a, y, host, admitted)
    BY <2>1, <2>3, <2>4, <2>5 DEF Knows
  <2>7. Shape(Revised(Joined(x.doc, a), pin.rev + 1, top + 1), host)
    <3>1. pin.rev + 1 \in Nat /\ top + 1 \in Nat
      BY NextRevType
    <3> QED
      BY <1>2, <1>3, <3>1, JoinedShape
  <2> QED
    BY <1>0, <1>4, <2>2, <2>6, <2>7, WriteTyped
<1>5. CASE ~Unchanged(a) /\ Again(a, "begin") /\ UNCHANGED <<pin, top>>
  <2>1. Knows(a, AgainOf(x, "begin"), host, admitted)
    BY <1>0, <1>1, <1>2, AgainKnows, PinAssumption
  <2> QED
    BY <1>0, <1>5, <2>1, LocalTyped DEF Again, Put, Join
<1> QED
  BY <1>4, <1>5 DEF Join, JoinedCall

LEMMA EvaluateTyped ==
  ASSUME Typed, NEW a \in Attempts, Evaluate(a)
  PROVE  Typed'
<1> DEFINE x == call[a]
<1>0. a \in Callers
  BY DEF Callers
<1>1. /\ x.at = "kernel" /\ Knows(a, x, host, admitted) /\ x \in CallType
      /\ ~Excluded(a, x)
  BY <1>0, KnowsNow DEF Evaluate, At, RolesExclude, Excluded
<1>2. x.outcome = "none"
  BY <1>1 DEF Knows, Come
<1>3. CASE Witness(x.msg) /\ Answer(a, "admitted")
  <2> DEFINE y == [x EXCEPT !.at = "settle", !.outcome = "admitted"]
  <2>1. y \in CallType /\ y.at = "settle" /\ y.msg = x.msg /\ y.doc = x.doc
        /\ y.outcome = "admitted"
    BY <1>1 DEF CallType, AttemptAt, Outcomes
  <2>2. call' = [call EXCEPT ![a] = y]
    BY <1>3 DEF Answer, Put
  <2> HIDE DEF y
  <2>3. Knows(a, y, host, admitted)
    BY <1>1, <1>3, <2>1, MoveKnows DEF Witness
  <2> QED
    BY <1>0, <2>2, <2>3, LocalTyped DEF Evaluate
<1>4. CASE ~Witness(x.msg) /\ Goto(a, "evaluating")
  <2> DEFINE y == [x EXCEPT !.at = "evaluating"]
  <2>1. y \in CallType /\ y.at = "evaluating" /\ y.msg = x.msg
        /\ y.doc = x.doc /\ y.outcome = x.outcome
    BY <1>1 DEF CallType, AttemptAt
  <2>2. call' = [call EXCEPT ![a] = y]
    BY <1>4 DEF Goto, Put
  <2> HIDE DEF y
  <2>3. Knows(a, y, host, admitted)
    BY <1>1, <1>2, <2>1, MoveKnows
  <2> QED
    BY <1>0, <2>2, <2>3, LocalTyped DEF Evaluate
<1> QED
  BY <1>3, <1>4 DEF Evaluate

\* An answer of the kernel, over what is admitted when it is given.
LEMMA AnswerKnows ==
  ASSUME NEW a \in Attempts, NEW x, NEW h, NEW w, Knows(a, x, h, w),
         x.at \in {"kernel", "evaluating"},
         NEW o \in {"admitted", "denied", "roleDenied", "ambiguous"},
         o = "admitted" => w[x.msg] # NoBuild,
         o = "roleDenied" => Excluded(a, x)
  PROVE  Knows(a, [x EXCEPT !.at = "settle", !.outcome = o], h, w)
<1> DEFINE y == [x EXCEPT !.at = "settle", !.outcome = o]
<1>1. x \in CallType
  BY DEF Knows
<1>2. y \in CallType /\ y.at = "settle" /\ y.msg = x.msg /\ y.doc = x.doc
      /\ y.outcome = o
  BY <1>1 DEF CallType, AttemptAt, Outcomes
<1> HIDE DEF y
<1>3. Knows(a, y, h, w)
  BY <1>2, MoveKnows DEF Unadmitted
<1> QED
  BY <1>3 DEF y

\* What is admitted, what may land late, and an answer, in one step.
LEMMA KernelTyped ==
  ASSUME Typed, NEW a \in Attempts, NEW y,
         \/ admitted' = admitted
         \/ \E m \in Messages : admitted' = Admitting(admitted, m, BuildOf[a]),
         Knows(a, y, host, admitted'),
         call' = [call EXCEPT ![a] = y],
         late' \subseteq Attempts,
         UNCHANGED <<pin, top, host>>
  PROVE  Typed'
<1>1. a \in Callers /\ BuildOf[a] \in Builds
  BY PinAssumption DEF Callers
<1>2. TypedOf(pin, top, admitted', late, call, host)
  BY <1>1, TypedWitness DEF Typed
<1>3. TypedOf(pin, top, admitted', late', call, host)
  BY <1>2, TypedLate
<1>4. TypedOf(pin, top, admitted', late', [call EXCEPT ![a] = y], host)
  BY <1>1, <1>3, TypedCall
<1> QED
  BY <1>4 DEF Typed

LEMMA AdmitsIs ==
  ASSUME Typed, NEW a \in Attempts, call[a].msg \in Messages,
         Admits(call[a].msg, BuildOf[a])
  PROVE  /\ admitted' = Admitting(admitted, call[a].msg, BuildOf[a])
         /\ admitted'[call[a].msg] # NoBuild
<1>1. admitted' = Admitting(admitted, call[a].msg, BuildOf[a])
  BY DEF Admits, Admitting
<1>2. BuildOf[a] \in Builds
  BY PinAssumption DEF Callers
<1> QED
  BY <1>1, <1>2, AdmittingType DEF Typed, TypedOf

LEMMA AdmitTyped ==
  ASSUME Typed, NEW a \in Attempts, Admit(a)
  PROVE  Typed'
<1> DEFINE x == call[a]
<1>0. a \in Callers
  BY DEF Callers
<1>1. x.at = "evaluating" /\ Knows(a, x, host, admitted)
  BY <1>0, KnowsNow DEF Admit, At
<1>2. x.msg \in Messages
  BY <1>1 DEF Knows, Come
<1>3. /\ admitted' = Admitting(admitted, x.msg, BuildOf[a])
      /\ admitted'[x.msg] # NoBuild
  BY <1>2, AdmitsIs DEF Admit
<1>4. TypedOf(pin, top, admitted', late, call, host)
  BY <1>2, <1>3, TypedWitness, PinAssumption DEF Typed, Callers
<1>5. Knows(a, x, host, admitted')
  BY <1>0, <1>4 DEF TypedOf
<1>6. Knows(a, [x EXCEPT !.at = "settle", !.outcome = "admitted"], host,
            admitted')
  BY <1>1, <1>3, <1>5, AnswerKnows
<1>7. /\ call' = [call EXCEPT ![a] =
                    [x EXCEPT !.at = "settle", !.outcome = "admitted"]]
      /\ late' \subseteq Attempts /\ UNCHANGED <<pin, top, host>>
  BY DEF Admit, Answer, Put, Typed, TypedOf
<1> QED
  BY <1>2, <1>3, <1>6, <1>7, KernelTyped

LEMMA DenyTyped ==
  ASSUME Typed, NEW a \in Attempts, Deny(a)
  PROVE  Typed'
<1> DEFINE x == call[a]
<1>0. a \in Callers
  BY DEF Callers
<1>1. PICK o \in {"denied", "roleDenied"} :
        /\ x.at \in {"kernel", "evaluating"}
        /\ o = "roleDenied" => Excluded(a, x)
        /\ Answer(a, o)
  BY DEF Deny, At, RolesExclude, Excluded
<1>2. Knows(a, x, host, admitted)
  BY <1>0, KnowsNow
<1>3. Knows(a, [x EXCEPT !.at = "settle", !.outcome = o], host, admitted)
  BY <1>1, <1>2, AnswerKnows
<1> QED
  BY <1>0, <1>1, <1>3, LocalTyped DEF Deny, Answer, Put

LEMMA FailTyped ==
  ASSUME Typed, NEW a \in Attempts, Fail(a)
  PROVE  Typed'
<1> DEFINE x == call[a]
           y == [x EXCEPT !.at = "settle", !.outcome = "ambiguous"]
<1>0. a \in Callers
  BY DEF Callers
<1>1. x.at = "evaluating" /\ Knows(a, x, host, admitted)
  BY <1>0, KnowsNow DEF Fail, At
<1>2. x.msg \in Messages
  BY <1>1 DEF Knows, Come
<1>3. /\ call' = [call EXCEPT ![a] = y]
      /\ late' \subseteq Attempts /\ UNCHANGED <<pin, top, host>>
  BY DEF Fail, Answer, Put, Typed, TypedOf
<1>4. \/ admitted' = admitted
      \/ Admits(x.msg, BuildOf[a])
  BY DEF Fail
<1>5. CASE admitted' = admitted
  <2>1. Knows(a, y, host, admitted')
    BY <1>1, <1>5, AnswerKnows
  <2> HIDE DEF y
  <2> QED
    BY <1>3, <1>5, <2>1, KernelTyped
<1>6. CASE Admits(x.msg, BuildOf[a])
  <2>1. admitted' = Admitting(admitted, x.msg, BuildOf[a])
    BY <1>2, <1>6, AdmitsIs
  <2>2. TypedOf(pin, top, admitted', late, call, host)
    BY <1>2, <2>1, TypedWitness, PinAssumption DEF Typed, Callers
  <2>3. Knows(a, x, host, admitted')
    BY <1>0, <2>2 DEF TypedOf
  <2>4. Knows(a, y, host, admitted')
    BY <1>1, <2>3, AnswerKnows
  <2> HIDE DEF y
  <2> QED
    BY <1>2, <1>3, <2>1, <2>4, KernelTyped
<1> QED
  BY <1>4, <1>5, <1>6

LEMMA LandLateTyped ==
  ASSUME Typed, NEW a \in Attempts, LandLate(a)
  PROVE  Typed'
<1>1. late' \in SUBSET Attempts /\ UNCHANGED <<pin, top, call, host>>
  BY DEF LandLate, Typed, TypedOf
<1>2. BuildOf[a] \in Builds
  BY PinAssumption DEF Callers
<1>3. CASE call[a].msg \in Messages
  <2>1. TypedOf(pin, top, admitted', late, call, host)
    BY <1>2, <1>3, TypedWitness, AdmitsIs DEF LandLate, Typed
  <2>2. TypedOf(pin, top, admitted', late', call, host)
    BY <1>1, <2>1, TypedLate
  <2> QED
    BY <1>1, <2>2 DEF Typed
<1>4. CASE call[a].msg \notin Messages
  <2>1. admitted \in [Messages -> Builds \cup {NoBuild}]
    BY DEF Typed, TypedOf
  <2>2. admitted' = admitted
    BY <1>4, <2>1 DEF LandLate, Admits
  <2>3. TypedOf(pin, top, admitted', late', call, host)
    BY <1>1, <2>2, TypedLate DEF Typed
  <2> QED
    BY <1>1, <2>3 DEF Typed
<1> QED
  BY <1>3, <1>4

LEMMA SettleTyped ==
  ASSUME Typed, NEW a \in Attempts, Settle(a)
  PROVE  Typed'
<1> DEFINE x == call[a]
<1>0. a \in Callers /\ a \notin Recoveries
  BY PinAssumption DEF Callers
<1>1. x.at = "settle" /\ Knows(a, x, host, admitted)
  BY <1>0, KnowsNow DEF Settle, At
<1>2. CASE End(a, "done")
  BY <1>0, <1>1, <1>2, EndKnows, LocalTyped DEF End, Put, Settle
<1>3. CASE x.mode # "admitted" /\ Enter(a, "commit")
  <2>1. Knows(a, EnterOf(x, "commit"), host, admitted)
    BY <1>0, <1>1, EnterKnows
  <2> QED
    BY <1>0, <1>3, <2>1, LocalTyped DEF Enter, Put, Settle
<1>4. CASE x.mode # "admitted" /\ ~Witness(x.msg) /\ Enter(a, "conclude")
  <2>1. x.outcome \in Unadmitted
    BY <1>1, <1>4 DEF Knows, Come, Witness
  <2>2. Knows(a, EnterOf(x, "conclude"), host, admitted)
    BY <1>0, <1>1, <1>4, <2>1, EnterKnows
  <2> QED
    BY <1>0, <1>4, <2>2, LocalTyped DEF Enter, Put, Settle
<1> QED
  BY <1>2, <1>3, <1>4 DEF Settle

\* A call that takes hold of a reservation, or goes on with the one it holds.
HoldOf(x, s, d) == [x EXCEPT !.at = s, !.doc = d]

LEMMA HoldFields ==
  ASSUME NEW x \in CallType, NEW s \in Holding, NEW d \in PinType
  PROVE  /\ HoldOf(x, s, d) \in CallType
         /\ HoldOf(x, s, d).at = s /\ HoldOf(x, s, d).doc = d
         /\ HoldOf(x, s, d).msg = x.msg /\ HoldOf(x, s, d).mode = x.mode
         /\ HoldOf(x, s, d).outcome = x.outcome
         /\ HoldOf(x, s, d).assertion = x.assertion
         /\ HoldOf(x, s, d).registered = x.registered
         /\ HoldOf(x, s, d).bound = x.bound
BY DEF CallType, AttemptAt, RecoveryAt, Holding, HoldOf

LEMMA HoldKnows ==
  ASSUME NEW c \in Callers, NEW x, NEW h, NEW w, Knows(c, x, h, w),
         x.at # "idle", Live(x),
         NEW s \in Holding \ {"weigh"}, NEW d, Shape(d, h),
         d.phase = "RESERVED", Matches(d, c),
         c \in Attempts => s # "free",
         c \in Recoveries => s \in {"free", "committing"},
         s \in {"recheck", "remove", "leave"} => Comp(c, x, d),
         s = "deregister" => ~Comp(c, x, d),
         s = "leave" => ~h.removes, s = "remove" => h.removes,
         s = "free" => x.assertion \in h.asserts /\ x.assertion # "none",
         s \in Concluding => x.outcome \in Unadmitted /\ x.mode # "admitted"
  PROVE  Knows(c, HoldOf(x, s, d), h, w)
<1> DEFINE y == HoldOf(x, s, d)
<1>1. x \in CallType /\ d \in PinType
  BY DEF Knows, Shape
<1>2. /\ y \in CallType /\ y.at = s /\ y.doc = d /\ y.msg = x.msg
      /\ y.mode = x.mode /\ y.outcome = x.outcome
      /\ y.assertion = x.assertion
      /\ y.registered = x.registered /\ y.bound = x.bound
  BY <1>1, HoldFields
<1> HIDE DEF y
<1>3. Comp(c, y, d) <=> Comp(c, x, d)
  BY <1>2 DEF Comp, Last, OthersOf
<1>4. Holds(c, y, h)
  BY <1>2, <1>3 DEF Holds, Holding
<1>5. Come(c, y, w)
  BY <1>2, PinAssumption
  DEF Knows, Come, AttemptAt, RecoveryAt, Live, Concluding, Holding, Excluded,
      Callers
<1> QED
  BY <1>2, <1>4, <1>5 DEF Knows, y

LEMMA ReadToCommitTyped ==
  ASSUME Typed, NEW c \in Callers, ReadPinToCommit(c)
  PROVE  Typed'
<1> DEFINE x == call[c]
<1>1. x.at = "commit" /\ Knows(c, x, host, admitted)
  BY KnowsNow DEF ReadPinToCommit, At
<1>2. CASE End(c, "done")
  BY <1>1, <1>2, EndKnows, LocalTyped DEF End, Put, ReadPinToCommit
<1>3. CASE /\ pin.phase = "RESERVED" /\ Matches(pin, c)
           /\ Put(c, [x EXCEPT !.at = "committing", !.doc = pin])
  <2> DEFINE y == HoldOf(x, "committing", pin)
  <2>1. Live(x) /\ Shape(pin, host) /\ "committing" \in Holding \ {"weigh"}
    BY <1>1 DEF Live, Typed, TypedOf, Holding
  <2>2. Knows(c, y, host, admitted)
    BY <1>1, <1>3, <2>1, HoldKnows DEF Concluding
  <2>3. call' = [call EXCEPT ![c] = y]
    BY <1>3 DEF Put, HoldOf
  <2> HIDE DEF y
  <2> QED
    BY <2>2, <2>3, LocalTyped DEF ReadPinToCommit
<1> QED
  BY <1>2, <1>3 DEF ReadPinToCommit

LEMMA CommitTyped ==
  ASSUME Typed, NEW c \in Callers, Commit(c)
  PROVE  Typed'
<1> DEFINE x == call[c]
<1>1. x.at = "committing" /\ Knows(c, x, host, admitted)
  BY KnowsNow DEF Commit, At
<1>2. CASE /\ Unchanged(c) /\ Write(AsAdmitted(x.doc)) /\ End(c, "done")
  <2>1. Knows(c, EndOf(x, "done"), host, admitted)
    BY <1>1, EndKnows
  <2>2. Matches(x.doc, c)
    BY <1>1 DEF Knows, Holds, Holding
  <2>3. Shape(Revised(AsAdmitted(x.doc), pin.rev + 1, top + 1), host)
    BY <2>2, NextRevType, AdmittedShape
  <2> QED
    BY <1>2, <2>1, <2>3, WriteTyped DEF End, Put, Commit
<1>3. CASE ~Unchanged(c) /\ Again(c, "commit") /\ UNCHANGED <<pin, top>>
  <2>1. Knows(c, AgainOf(x, "commit"), host, admitted)
    BY <1>1, AgainKnows
  <2> QED
    BY <1>3, <2>1, LocalTyped DEF Again, Put, Commit
<1> QED
  BY <1>2, <1>3 DEF Commit

LEMMA ReadToConcludeTyped ==
  ASSUME Typed, NEW a \in Attempts, ReadPinToConclude(a)
  PROVE  Typed'
<1> DEFINE x == call[a]
           s == IF Compensates(pin, a) THEN "recheck" ELSE "deregister"
<1>0. a \in Callers /\ a \notin Recoveries
  BY PinAssumption DEF Callers
<1>1. x.at = "conclude" /\ Knows(a, x, host, admitted)
  BY <1>0, KnowsNow DEF ReadPinToConclude, At
<1>2. CASE End(a, "done")
  BY <1>0, <1>1, <1>2, EndKnows, LocalTyped DEF End, Put, ReadPinToConclude
<1>3. CASE /\ pin.phase = "RESERVED" /\ Matches(pin, a)
           /\ Put(a, [x EXCEPT !.at = s, !.doc = pin])
  <2> DEFINE y == HoldOf(x, s, pin)
  <2>1. Live(x) /\ Shape(pin, host) /\ s \in {"recheck", "deregister"}
    BY <1>1 DEF Live, Typed, TypedOf
  <2>2. Compensates(pin, a) <=> Comp(a, x, pin)
    BY DEF Compensates, Comp, NobodyCan, LastInFlight, Last, Others, OthersOf,
       KeepsInFlight
  <2>3. x.outcome \in Unadmitted /\ x.mode # "admitted"
    BY <1>1 DEF Knows, Come, Concluding
  <2>4. /\ s \in {"recheck", "remove", "leave"} => Comp(a, x, pin)
        /\ s = "deregister" => ~Comp(a, x, pin)
    BY <2>2
  <2> HIDE DEF s
  <2>5. s \in Holding \ {"weigh"} /\ s # "free" /\ s # "leave"
    BY <2>1 DEF Holding
  <2>6. Knows(a, y, host, admitted)
    BY <1>0, <1>1, <1>3, <2>1, <2>3, <2>4, <2>5, HoldKnows
  <2>7. call' = [call EXCEPT ![a] = y]
    BY <1>3 DEF Put, HoldOf
  <2> HIDE DEF y
  <2> QED
    BY <1>0, <2>6, <2>7, LocalTyped DEF ReadPinToConclude
<1> QED
  BY <1>2, <1>3 DEF ReadPinToConclude

LEMMA GotoHolds ==
  ASSUME NEW x \in CallType, NEW s
  PROVE  [x EXCEPT !.at = s] = HoldOf(x, s, x.doc)
BY DEF CallType, HoldOf

LEMMA RecheckTyped ==
  ASSUME Typed, NEW a \in Attempts, Recheck(a)
  PROVE  Typed'
<1> DEFINE x == call[a]
<1>0. a \in Callers /\ a \notin Recoveries
  BY PinAssumption DEF Callers
<1>1. x.at = "recheck" /\ Knows(a, x, host, admitted) /\ x \in CallType
  BY <1>0, KnowsNow DEF Recheck, At
<1>2. CASE Enter(a, "commit")
  <2>1. Knows(a, EnterOf(x, "commit"), host, admitted)
    BY <1>0, <1>1, EnterKnows
  <2> QED
    BY <1>0, <1>2, <2>1, LocalTyped DEF Enter, Put, Recheck
<1>3. ASSUME NEW s \in {"remove", "leave"}, s = "leave" => ~host.removes,
             s = "remove" => host.removes, Goto(a, s)
      PROVE  Typed'
  <2> DEFINE y == HoldOf(x, s, x.doc)
  <2>1. /\ Live(x) /\ Shape(x.doc, host) /\ x.doc.phase = "RESERVED"
        /\ Matches(x.doc, a) /\ Comp(a, x, x.doc)
        /\ x.outcome \in Unadmitted /\ x.mode # "admitted"
    BY <1>1 DEF Live, Knows, Holds, Come, Concluding, Holding
  <2>2. s \in Holding \ {"weigh"} /\ s # "free"
    BY DEF Holding
  <2>3. Knows(a, y, host, admitted)
    BY <1>0, <1>1, <1>3, <2>1, <2>2, HoldKnows
  <2>4. call' = [call EXCEPT ![a] = y]
    BY <1>1, <1>3, GotoHolds DEF Goto, Put
  <2> HIDE DEF y
  <2> QED
    BY <1>0, <2>3, <2>4, LocalTyped DEF Recheck
<1> QED
  BY <1>2, <1>3 DEF Recheck

LEMMA RemoveTyped ==
  ASSUME Typed, NEW a \in Attempts, Remove(a)
  PROVE  Typed'
<1> DEFINE x == call[a]
<1>0. a \in Callers /\ a \notin Recoveries
  BY PinAssumption DEF Callers
<1>1. x.at = "remove" /\ Knows(a, x, host, admitted)
  BY <1>0, KnowsNow DEF Remove, At
<1>2. CASE Unchanged(a) /\ pin' = NoPin /\ End(a, "done")
  <2>1. Knows(a, EndOf(x, "done"), host, admitted)
    BY <1>0, <1>1, EndKnows
  <2>2. TypedOf(NoPin, top, admitted, late, call, host)
    BY TypedPin, NoPinShape DEF Typed, TypedOf
  <2>3. TypedOf(NoPin, top, admitted, late,
                [call EXCEPT ![a] = EndOf(x, "done")], host)
    BY <1>0, <2>1, <2>2, TypedCall
  <2> QED
    BY <1>2, <2>3 DEF End, Put, Remove, Typed
<1>3. CASE ~Unchanged(a) /\ Again(a, "conclude") /\ UNCHANGED pin
  <2>1. x.outcome \in Unadmitted /\ x.mode # "admitted"
    BY <1>1 DEF Knows, Come, Concluding
  <2>2. Knows(a, AgainOf(x, "conclude"), host, admitted)
    BY <1>0, <1>1, <2>1, AgainKnows
  <2> QED
    BY <1>0, <1>3, <2>2, LocalTyped DEF Again, Put, Remove
<1> QED
  BY <1>2, <1>3 DEF Remove

LEMMA DeregisterTyped ==
  ASSUME Typed, NEW a \in Attempts, Deregister(a)
  PROVE  Typed'
<1> DEFINE x == call[a]
<1>0. a \in Callers /\ a \notin Recoveries
  BY PinAssumption DEF Callers
<1>1. x.at \in {"deregister", "leave"} /\ Knows(a, x, host, admitted)
  BY <1>0, KnowsNow DEF Deregister
<1>2. Knows(a, EndOf(x, "done"), host, admitted)
  BY <1>0, <1>1, EndKnows
<1>3. CASE Unchanged(a) /\ Write(Deregistered(x.doc, a)) /\ End(a, "done")
  <2>1. Shape(x.doc, host) /\ x.doc.phase = "RESERVED"
    BY <1>1 DEF Knows, Holds, Holding
  <2>2. Shape(Revised(Deregistered(x.doc, a), pin.rev + 1, top + 1), host)
    BY <2>1, NextRevType, DeregisteredShape
  <2> QED
    BY <1>0, <1>2, <1>3, <2>2, WriteTyped DEF End, Put, Deregister
<1>4. CASE /\ ~Unchanged(a) /\ UNCHANGED <<pin, top>>
           /\ End(a, "done") \/ Again(a, "conclude")
  <2>1. x.outcome \in Unadmitted /\ x.mode # "admitted"
    BY <1>1 DEF Knows, Come, Concluding
  <2>2. Knows(a, AgainOf(x, "conclude"), host, admitted)
    BY <1>0, <1>1, <2>1, AgainKnows
  <2> QED
    BY <1>0, <1>2, <1>4, <2>2, LocalTyped DEF Again, End, Put, Deregister
<1> QED
  BY <1>3, <1>4 DEF Deregister

\* A recovery that has read the reservation it may free.
LEMMA WeighKnows ==
  ASSUME NEW r \in Recoveries, NEW h, NEW w, NEW d, Shape(d, h),
         d.phase = "RESERVED", Matches(d, r),
         NEW s \in Assertions, s \in h.asserts
  PROVE  Knows(r, [NewCall EXCEPT !.at = "weigh", !.assertion = s, !.doc = d],
               h, w)
<1> DEFINE y == [NewCall EXCEPT !.at = "weigh", !.assertion = s, !.doc = d]
<1>1. NewCall \in CallType /\ d \in PinType
  BY NewCallKnows DEF Callers, Shape
<1>2. /\ y \in CallType /\ y.at = "weigh" /\ y.msg = NoMessage
      /\ y.mode = "none" /\ y.outcome = "none" /\ y.doc = d
      /\ y.assertion = s
  BY <1>1 DEF CallType, NewCall, RecoveryAt
<1> HIDE DEF y
<1>3. Holds(r, y, h)
  BY <1>2 DEF Holds, Holding
<1>4. Come(r, y, w)
  BY <1>2, PinAssumption DEF Come, RecoveryAt, Live, Concluding
<1> QED
  BY <1>2, <1>3, <1>4 DEF Knows, y

LEMMA RecoverTyped ==
  ASSUME Typed, NEW r \in Recoveries, NEW s \in Assertions, Recover(r, s)
  PROVE  Typed'
<1> DEFINE x == call[r]
<1>0. r \in Callers
  BY DEF Callers
<1>1. x.at = "idle" /\ Knows(r, x, host, admitted) /\ s \in host.asserts
  BY <1>0, KnowsNow DEF Recover, At
<1>2. CASE End(r, "done")
  <2>1. x \in CallType /\ "done" \in AttemptAt \cup RecoveryAt
    BY <1>1 DEF Knows, AttemptAt
  <2> DEFINE y == EndOf(x, "done")
  <2>2. /\ y \in CallType /\ y.at = "done" /\ y.mode = "none"
        /\ y.doc = NoPin
        /\ y.outcome = (IF x.outcome = "ambiguous" THEN "ambiguous"
                        ELSE "none")
    BY <2>1, EndFields
  <2> HIDE DEF y
  <2>3. Shape(y.doc, host)
    BY <2>2, NoPinShape
  <2>4. Holds(r, y, host)
    BY <2>2 DEF Holds, Holding
  <2>5. Come(r, y, admitted)
    BY <1>1, <2>2, PinAssumption
    DEF Knows, Come, RecoveryAt, Live, Concluding
  <2>6. Knows(r, y, host, admitted)
    BY <2>2, <2>3, <2>4, <2>5 DEF Knows
  <2>7. call' = [call EXCEPT ![r] = y]
    BY <1>2 DEF End, Put, y
  <2> QED
    BY <1>0, <2>6, <2>7, LocalTyped DEF Recover
<1>3. CASE /\ pin.phase = "RESERVED" /\ Matches(pin, r)
           /\ Put(r, [NewCall EXCEPT !.at = "weigh", !.assertion = s,
                                     !.doc = pin])
  <2> DEFINE y == [NewCall EXCEPT !.at = "weigh", !.assertion = s,
                                  !.doc = pin]
  <2>1. Knows(r, y, host, admitted)
    BY <1>1, <1>3, WeighKnows DEF Typed, TypedOf
  <2> HIDE DEF y
  <2> QED
    BY <1>0, <1>3, <2>1, LocalTyped DEF Put, Recover, y
<1> QED
  BY <1>2, <1>3 DEF Recover

LEMMA WeighTyped ==
  ASSUME Typed, NEW r \in Recoveries, Weigh(r)
  PROVE  Typed'
<1> DEFINE x == call[r]
<1>0. r \in Callers /\ r \notin Attempts
  BY PinAssumption DEF Callers
<1>1. x.at = "weigh" /\ Knows(r, x, host, admitted) /\ x \in CallType
  BY <1>0, KnowsNow DEF Weigh, At
<1>2. CASE Enter(r, "commit")
  <2>1. Knows(r, EnterOf(x, "commit"), host, admitted)
    BY <1>0, <1>1, EnterKnows
  <2> QED
    BY <1>0, <1>2, <2>1, LocalTyped DEF Enter, Put, Weigh
<1>3. CASE Frees(r) /\ Goto(r, "free")
  <2> DEFINE y == HoldOf(x, "free", x.doc)
  <2>1. /\ Live(x) /\ Shape(x.doc, host) /\ x.doc.phase = "RESERVED"
        /\ Matches(x.doc, r) /\ x.assertion \in host.asserts
    BY <1>1 DEF Live, Knows, Holds, Holding
  <2>2. x.assertion # "none"
    BY <1>3 DEF Frees
  <2>3. "free" \in Holding \ {"weigh"}
    BY DEF Holding
  <2>4. Knows(r, y, host, admitted)
    BY <1>0, <1>1, <2>1, <2>2, <2>3, HoldKnows DEF Concluding
  <2>5. call' = [call EXCEPT ![r] = y]
    BY <1>1, <1>3, GotoHolds DEF Goto, Put
  <2> HIDE DEF y
  <2> QED
    BY <1>0, <2>4, <2>5, LocalTyped DEF Weigh
<1>4. CASE End(r, "done")
  BY <1>0, <1>1, <1>4, EndKnows, LocalTyped DEF End, Put, Weigh
<1> QED
  BY <1>2, <1>3, <1>4 DEF Weigh

LEMMA FreeTyped ==
  ASSUME Typed, NEW r \in Recoveries, Free(r)
  PROVE  Typed'
<1> DEFINE x == call[r]
<1>0. r \in Callers
  BY DEF Callers
<1>1. x.at = "free" /\ Knows(r, x, host, admitted)
  BY <1>0, KnowsNow DEF Free, At
<1>2. Knows(r, EndOf(x, "done"), host, admitted)
  BY <1>0, <1>1, EndKnows
<1>3. CASE Unchanged(r) /\ Write(Freed(x.doc, x.assertion))
  <2>1. /\ Shape(x.doc, host) /\ x.doc.phase = "RESERVED"
        /\ x.assertion \in host.asserts /\ x.assertion # "none"
    BY <1>1 DEF Knows, Holds, Holding
  <2>2. Shape(Revised(Freed(x.doc, x.assertion), pin.rev + 1, top + 1), host)
    BY <2>1, NextRevType, FreedShape
  <2> QED
    BY <1>0, <1>2, <1>3, <2>2, WriteTyped DEF End, Put, Free
<1>4. CASE UNCHANGED <<pin, top>>
  BY <1>0, <1>2, <1>4, LocalTyped DEF End, Put, Free
<1> QED
  BY <1>3, <1>4 DEF Free

LEMMA CrashTyped ==
  ASSUME Typed, NEW c \in Callers, Crash(c)
  PROVE  Typed'
<1> DEFINE x == call[c]
<1>1. x.at # "idle" /\ Knows(c, x, host, admitted)
  BY KnowsNow DEF Crash, Ended
<1>2. Knows(c, EndOf(x, "crashed"), host, admitted)
  BY <1>1, EndKnows
<1>3. late' \in SUBSET Attempts /\ UNCHANGED <<pin, top, admitted, host>>
  BY DEF Crash, Typed, TypedOf
<1>4. TypedOf(pin, top, admitted, late', call, host)
  BY <1>3, TypedLate DEF Typed
<1>5. TypedOf(pin, top, admitted, late',
              [call EXCEPT ![c] = EndOf(x, "crashed")], host)
  BY <1>2, <1>4, TypedCall
<1> QED
  BY <1>3, <1>5 DEF Crash, End, Put, Typed

LEMMA InitTyped ==
  Init => Typed
<1> SUFFICES ASSUME NEW s \in Starts,
                    /\ pin = s.pin /\ top = s.pin.ver
                    /\ host = [asserts |-> s.asserts, removes |-> s.removes,
                               restarts |-> s.restarts]
                    /\ admitted = [m \in Messages |-> NoBuild]
                    /\ late = {}
                    /\ call = [c \in Callers |-> NewCall]
             PROVE  Typed
  BY DEF Init
<1>1. /\ StartingPin(pin)
      /\ pin.tracked \/ "allAttemptsTerminated" \notin host.asserts
  BY StartsAssumption
<1>2. Shape(pin, host)
  <2>1. CASE pin = NoPin
    BY <2>1, NoPinShape
  <2>2. CASE pin # NoPin
    BY <1>1, <2>2, PinAssumption DEF StartingPin, Shape
  <2> QED
    BY <2>1, <2>2
<1>3. top \in Nat \cup {-1}
  BY <1>2 DEF Shape, PinType
<1>4. call \in [Callers -> CallType]
  BY NewCallKnows
<1>5. \A c \in Callers : Knows(c, call[c], host, admitted)
  BY NewCallKnows
<1> QED
  BY <1>2, <1>3, <1>4, <1>5 DEF Typed, TypedOf

LEMMA NextTyped ==
  Typed /\ [Next]_vars => Typed'
<1> SUFFICES ASSUME Typed, [Next]_vars
             PROVE  Typed'
  OBVIOUS
<1>1. CASE UNCHANGED vars
  BY <1>1 DEF vars, Typed
<1>2. ASSUME NEW a \in Attempts, NEW m \in Messages, Send(a, m)
      PROVE  Typed'
  BY <1>2, SendTyped
<1>3. ASSUME NEW a \in Attempts,
             \/ ReadPinToSend(a) \/ Join(a) \/ Evaluate(a) \/ Admit(a)
             \/ Deny(a) \/ Fail(a) \/ LandLate(a)
      PROVE  Typed'
  BY <1>3, ReadToSendTyped, JoinTyped, EvaluateTyped, AdmitTyped, DenyTyped,
     FailTyped, LandLateTyped
<1>4. ASSUME NEW a \in Attempts,
             \/ Settle(a) \/ ReadPinToConclude(a) \/ Recheck(a) \/ Remove(a)
             \/ Deregister(a)
      PROVE  Typed'
  BY <1>4, SettleTyped, ReadToConcludeTyped, RecheckTyped, RemoveTyped,
     DeregisterTyped
<1>5. ASSUME NEW r \in Recoveries, NEW s \in Assertions, Recover(r, s)
      PROVE  Typed'
  BY <1>5, RecoverTyped
<1>6. ASSUME NEW r \in Recoveries, Weigh(r) \/ Free(r)
      PROVE  Typed'
  BY <1>6, WeighTyped, FreeTyped
<1>7. ASSUME NEW c \in Callers,
             ReadPinToCommit(c) \/ Commit(c) \/ Crash(c)
      PROVE  Typed'
  BY <1>7, ReadToCommitTyped, CommitTyped, CrashTyped
<1> QED
  BY <1>1, <1>2, <1>3, <1>4, <1>5, <1>6, <1>7 DEF Next, Other

\* The state is of its type: what a pin, a call and the admissions are, a
\* slot and submits in flight in a RESERVED pin only.
THEOREM TypeCorrect ==
  Spec => []TypeOK
<1>1. Typed => TypeOK
  <2> SUFFICES ASSUME Typed
               PROVE  TypeOK
    OBVIOUS
  <2>1. /\ pin \in PinType
        /\ (pin.phase = "RESERVED") <=> (pin.msg # NoMessage)
        /\ pin.phase # "RESERVED" => pin.slot = NoAttempt /\ pin.inFlight = {}
        /\ (pin.phase = "ABSENT") <=> (pin.build = NoBuild)
    BY DEF Typed, TypedOf, Shape
  <2>2. /\ top \in Nat \cup {-1}
        /\ admitted \in [Messages -> Builds \cup {NoBuild}]
        /\ late \subseteq Attempts
    BY DEF Typed, TypedOf
  <2>3. ASSUME NEW c \in Callers
        PROVE  /\ call[c].outcome \in Outcomes /\ call[c].doc \in PinType
               /\ call[c].round \in 0 .. MaxRounds - 1
               /\ call[c].assertion \in Assertions
    BY KnowsNow DEF CallType
  <2> QED
    BY <2>1, <2>2, <2>3 DEF TypeOK
<1> QED
  BY InitTyped, NextTyped, <1>1, PTL DEF Spec

-----------------------------------------------------------------------------
(* Where the writes are fenced, the call that writes holds the pin          *)

CurrentOf(p, t, f) ==
  /\ p.phase # "ABSENT" => p.ver = t
  /\ \A c \in Callers :
       f[c].doc.ver <= t /\ (f[c].doc.ver = p.ver => f[c].doc = p)

Current == CurrentOf(pin, top, call)

\* The number of the pin's write, of its phase.
LEMMA VerOf ==
  ASSUME NEW p, NEW h, Shape(p, h)
  PROVE  /\ p.ver \in Nat \cup {-1}
         /\ p.phase = "ABSENT" => p = NoPin /\ p.ver = -1
         /\ p.ver = -1 => p = NoPin
BY DEF Shape, PinType, NoPin

\* A call that was x holds what it held, the pin p, or none.
Draws(y, x, p) == y.doc \in {NoPin, p, x.doc}

LEMMA CurrentCall ==
  ASSUME NEW p, NEW t \in Nat \cup {-1}, NEW h, Shape(p, h),
         NEW f, DOMAIN f = Callers,
         CurrentOf(p, t, f), NEW c \in Callers, NEW y,
         Draws(y, f[c], p)
  PROVE  CurrentOf(p, t, [f EXCEPT ![c] = y])
<1>2. /\ y.doc.ver <= t
      /\ y.doc.ver = p.ver => y.doc = p
  <2>1. CASE y.doc = NoPin
    BY <2>1, VerOf DEF NoPin
  <2>2. CASE y.doc = p
    BY <2>2, VerOf DEF CurrentOf
  <2>3. CASE y.doc = f[c].doc
    BY <2>3 DEF CurrentOf
  <2> QED
    BY <2>1, <2>2, <2>3 DEF Draws
<1> QED
  BY <1>2 DEF CurrentOf

\* A document written is one no call has seen.
LEMMA CurrentWrite ==
  ASSUME NEW p, NEW t, NEW w, NEW l, NEW f, NEW h, TypedOf(p, t, w, l, f, h),
         CurrentOf(p, t, f), NEW q, q.ver = t + 1
  PROVE  /\ CurrentOf(q, t + 1, f)
         /\ \A c \in Callers : f[c].doc # q
<1>1. t \in Nat \cup {-1}
  BY DEF TypedOf
<1>2. ASSUME NEW c \in Callers
      PROVE  f[c].doc.ver \in Nat \cup {-1} /\ f[c].doc.ver <= t
  BY VerOf DEF TypedOf, Knows, CurrentOf
<1>3. ASSUME NEW c \in Callers
      PROVE  f[c].doc.ver <= t + 1 /\ f[c].doc.ver # t + 1
  BY <1>1, <1>2
<1> QED
  BY <1>3 DEF CurrentOf

LEMMA CurrentRemove ==
  ASSUME NEW p, NEW t, NEW w, NEW l, NEW f, NEW h, TypedOf(p, t, w, l, f, h),
         CurrentOf(p, t, f)
  PROVE  CurrentOf(NoPin, t, f)
<1>1. ASSUME NEW c \in Callers, f[c].doc.ver = NoPin.ver
      PROVE  f[c].doc = NoPin
  BY <1>1, VerOf DEF NoPin, TypedOf, Knows
<1> QED
  BY <1>1 DEF CurrentOf, NoPin

\* What a step makes of the documents: each call holds what it held, the pin
\* it read, or none; the pin is written, removed or left.
Reads(c) ==
  \E y : call' = [call EXCEPT ![c] = y] /\ Draws(y, call[c], pin)

\* A write is conditional on the document its call has read, a reservation or
\* none, and a pin is removed where the Host can.
Touches(c) ==
  /\ Reads(c) /\ UNCHANGED host
  /\ \/ UNCHANGED <<pin, top>>
     \/ /\ Unchanged(c) /\ call[c].at \in Holding \cup {"join"}
        /\ \/ pin' = NoPin /\ top' = top /\ call[c].at = "remove"
           \/ \E v : Write(v)

LEMMA PutReads ==
  ASSUME NEW c, NEW y, Put(c, y), y.doc \in {NoPin, pin, call[c].doc}
  PROVE  Reads(c)
BY DEF Put, Reads, Draws

\* However a call goes on, it holds one of these documents.
LEMMA GoesOn ==
  ASSUME NEW c, call[c] \in CallType
  PROVE  /\ \A s : End(c, s) \/ Again(c, s) \/ Enter(c, s) => Reads(c)
         /\ \A s : Goto(c, s) \/ Answer(c, s) => Reads(c)
         /\ \A s, m : Put(c, [call[c] EXCEPT !.at = s, !.mode = m]) => Reads(c)
         /\ \A s : Put(c, [call[c] EXCEPT !.at = s, !.doc = pin]) => Reads(c)
         /\ Put(c, JoinedCall(call[c])) => Reads(c)
<1> DEFINE x == call[c]
<1>1. ASSUME NEW s PROVE End(c, s) => Reads(c)
  <2>1. EndOf(x, s).doc = NoPin
    BY DEF EndOf, NewCall
  <2> QED
    BY <2>1, PutReads DEF End
<1>2. ASSUME NEW s PROVE Again(c, s) => Reads(c)
  <2>1. AgainOf(x, s).doc = NoPin
    BY DEF AgainOf, EndOf, NewCall, CallType
  <2> QED
    BY <2>1, PutReads DEF Again
<1>3. ASSUME NEW s PROVE Enter(c, s) => Reads(c)
  <2>1. EnterOf(x, s).doc = NoPin
    BY DEF EnterOf, CallType
  <2> QED
    BY <2>1, PutReads DEF Enter
<1>4. ASSUME NEW s PROVE Goto(c, s) => Reads(c)
  <2> DEFINE y == [x EXCEPT !.at = s]
  <2>1. y.doc = x.doc
    BY DEF CallType
  <2> HIDE DEF y
  <2>2. Put(c, y) => Reads(c)
    BY <2>1, PutReads
  <2> QED
    BY <2>2 DEF Goto, y
<1>5. ASSUME NEW s PROVE Answer(c, s) => Reads(c)
  <2> DEFINE y == [x EXCEPT !.at = "settle", !.outcome = s]
  <2>1. y.doc = x.doc
    BY DEF CallType
  <2> HIDE DEF y
  <2>2. Put(c, y) => Reads(c)
    BY <2>1, PutReads
  <2> QED
    BY <2>2 DEF Answer, y
<1>6. ASSUME NEW s, NEW m
      PROVE  Put(c, [x EXCEPT !.at = s, !.mode = m]) => Reads(c)
  <2> DEFINE y == [x EXCEPT !.at = s, !.mode = m]
  <2>1. y.doc = x.doc
    BY DEF CallType
  <2> HIDE DEF y
  <2>2. Put(c, y) => Reads(c)
    BY <2>1, PutReads
  <2> QED
    BY <2>2 DEF y
<1>7. ASSUME NEW s
      PROVE  Put(c, [x EXCEPT !.at = s, !.doc = pin]) => Reads(c)
  <2> DEFINE y == [x EXCEPT !.at = s, !.doc = pin]
  <2>1. y.doc = pin
    BY DEF CallType
  <2> HIDE DEF y
  <2>2. Put(c, y) => Reads(c)
    BY <2>1, PutReads
  <2> QED
    BY <2>2 DEF y
<1>8. Put(c, JoinedCall(x)) => Reads(c)
  <2>1. JoinedCall(x).doc = NoPin
    BY JoinedFields
  <2> QED
    BY <2>1, PutReads
<1> QED
  BY <1>1, <1>2, <1>3, <1>4, <1>5, <1>6, <1>7, <1>8

LEMMA AttemptTouches ==
  ASSUME Typed, NEW a \in Attempts,
         \/ \E m \in Messages : Send(a, m)
         \/ ReadPinToSend(a) \/ Evaluate(a) \/ Admit(a) \/ Deny(a)
         \/ Fail(a) \/ Settle(a) \/ ReadPinToConclude(a) \/ Recheck(a)
         \/ Join(a) \/ Remove(a) \/ Deregister(a)
  PROVE  Touches(a)
<1>1. call[a] \in CallType
  BY KnowsNow DEF Callers
<1>2. CASE \E m \in Messages : Send(a, m)
  <2>1. PICK m \in Messages : Send(a, m)
    BY <1>2
  <2> DEFINE y == [NewCall EXCEPT !.at = "begin", !.msg = m]
  <2>2. y.doc = NoPin
    BY DEF NewCall
  <2>3. Put(a, y) /\ UNCHANGED <<pin, top, host>>
    BY <2>1 DEF Send
  <2> HIDE DEF y
  <2> QED
    BY <2>2, <2>3, PutReads DEF Touches
<1>3. CASE ReadPinToSend(a)
  <2>1. Reads(a)
    BY <1>1, <1>3, GoesOn, ReadToSendCases
  <2> QED
    BY <1>3, <2>1 DEF ReadPinToSend, Touches
<1>4. CASE Join(a)
  BY <1>1, <1>4, GoesOn DEF Join, JoinedCall, Touches, At
<1>5. CASE Evaluate(a) \/ Admit(a) \/ Deny(a) \/ Fail(a)
  BY <1>1, <1>5, GoesOn DEF Evaluate, Admit, Deny, Fail, Touches
<1>6. CASE Settle(a)
  BY <1>1, <1>6, GoesOn DEF Settle, Touches
<1>7. CASE ReadPinToConclude(a)
  BY <1>1, <1>7, GoesOn DEF ReadPinToConclude, Touches
<1>8. CASE Recheck(a)
  BY <1>1, <1>8, GoesOn DEF Recheck, Touches
<1>9. CASE Remove(a)
  BY <1>1, <1>9, GoesOn DEF Remove, Touches, At, Holding
<1>10. CASE Deregister(a)
  BY <1>1, <1>10, GoesOn DEF Deregister, Touches, Holding
<1> QED
  BY <1>2, <1>3, <1>4, <1>5, <1>6, <1>7, <1>8, <1>9, <1>10

LEMMA CallTouches ==
  ASSUME Typed, NEW c \in Callers,
         \/ \E s \in Assertions : Recover(c, s)
         \/ Weigh(c) \/ ReadPinToCommit(c) \/ Crash(c)
         \/ Free(c) \/ Commit(c)
  PROVE  Touches(c)
<1>1. call[c] \in CallType
  BY KnowsNow
<1>2. ASSUME NEW s \in Assertions, Recover(c, s)
      PROVE  Touches(c)
  <2> DEFINE y == [NewCall EXCEPT !.at = "weigh", !.assertion = s, !.doc = pin]
  <2>1. y.doc = pin
    BY DEF NewCall
  <2>2. /\ Put(c, y) \/ End(c, "done")
        /\ UNCHANGED <<pin, top, host>>
    BY <1>2 DEF Recover
  <2> HIDE DEF y
  <2> QED
    BY <1>1, <2>1, <2>2, GoesOn, PutReads DEF Touches
<1>3. CASE Weigh(c)
  BY <1>1, <1>3, GoesOn DEF Weigh, Touches
<1>4. CASE Free(c)
  BY <1>1, <1>4, GoesOn DEF Free, Touches, At, Holding
<1>5. CASE ReadPinToCommit(c)
  BY <1>1, <1>5, GoesOn DEF ReadPinToCommit, Touches
<1>6. CASE Commit(c)
  BY <1>1, <1>6, GoesOn DEF Commit, Touches, At, Holding
<1>7. CASE Crash(c)
  BY <1>1, <1>7, GoesOn DEF Crash, Touches
<1> QED
  BY <1>2, <1>3, <1>4, <1>5, <1>6, <1>7

LEMMA RelyIsNext ==
  [RelyNext]_vars => [Next]_vars
BY DEF RelyNext, Next

LEMMA NextTouches ==
  ASSUME Typed, Next
  PROVE  UNCHANGED <<pin, top, call, host>> \/ \E c \in Callers : Touches(c)
BY AttemptTouches, CallTouches DEF Next, Other, Callers, LandLate

\* The other steps write no pin.
LEMMA OtherKeeps ==
  ASSUME Other
  PROVE  UNCHANGED <<pin, top>>
<1>1. ASSUME NEW a \in Attempts, NEW m \in Messages, Send(a, m)
      PROVE  UNCHANGED <<pin, top>>
  BY <1>1 DEF Send
<1>2. ASSUME NEW a \in Attempts,
             ReadPinToSend(a) \/ Evaluate(a) \/ Admit(a) \/ Deny(a) \/ Fail(a)
      PROVE  UNCHANGED <<pin, top>>
  BY <1>2 DEF ReadPinToSend, Evaluate, Admit, Deny, Fail
<1>3. ASSUME NEW a \in Attempts,
             LandLate(a) \/ Settle(a) \/ ReadPinToConclude(a) \/ Recheck(a)
      PROVE  UNCHANGED <<pin, top>>
  BY <1>3 DEF LandLate, Settle, ReadPinToConclude, Recheck
<1>4. ASSUME NEW c \in Callers, Weigh(c) \/ ReadPinToCommit(c) \/ Crash(c)
      PROVE  UNCHANGED <<pin, top>>
  BY <1>4 DEF Weigh, ReadPinToCommit, Crash
<1> QED
  BY <1>1, <1>2, <1>3, <1>4 DEF Other, Callers

\* A step of RelySpec that writes is fenced.
FencedTouch(c) == Touches(c) /\ (Fenced(c) \/ UNCHANGED <<pin, top>>)

LEMMA RelyTouches ==
  ASSUME Typed, RelyNext
  PROVE  \/ UNCHANGED <<pin, top, call, host>>
         \/ \E c \in Callers : FencedTouch(c)
<1>1. CASE Other
  BY <1>1, NextTouches, OtherKeeps DEF Next, FencedTouch
<1>2. ASSUME NEW a \in Attempts, Fenced(a),
             Join(a) \/ Remove(a) \/ Deregister(a)
      PROVE  FencedTouch(a)
  BY <1>2, AttemptTouches DEF FencedTouch
<1>3. ASSUME NEW c \in Callers, Fenced(c), Free(c) \/ Commit(c)
      PROVE  FencedTouch(c)
  BY <1>3, CallTouches DEF FencedTouch
<1>4. ASSUME NEW r \in Recoveries, NEW s \in Assertions, Recover(r, s)
      PROVE  FencedTouch(r)
  BY <1>4, CallTouches DEF FencedTouch, Callers, Recover
<1> QED
  BY <1>1, <1>2, <1>3, <1>4 DEF RelyNext, Callers

\* Whatever is written has the number it is given.
LEMMA RevisedVer ==
  ASSUME NEW v, NEW r, NEW n, NEW h, Shape(Revised(v, r, n), h)
  PROVE  Revised(v, r, n).ver = n
<1>1. "ver" \in DOMAIN Revised(v, r, n)
  <2>1. \A q \in PinType : "ver" \in DOMAIN q
    BY DEF PinType
  <2> QED
    BY <2>1 DEF Shape
<1>2. "ver" \in DOMAIN v
  BY <1>1, Zenon DEF Revised
<1> QED
  BY <1>2, Zenon DEF Revised

-----------------------------------------------------------------------------
(* Where a revision can be taken for another document's                     *)

\* As long as nobody removes the pin, its revisions number its writes.
Even(d) == d.rev = d.ver

LevelOf(p, t, f) ==
  /\ p.rev = t /\ p.ver = t
  /\ \A c \in Callers : Even(f[c].doc)

Level == ~host.removes => LevelOf(pin, top, call)

LEMMA RevisedRev ==
  ASSUME NEW v, NEW r, NEW n, NEW h, Shape(Revised(v, r, n), h)
  PROVE  Revised(v, r, n).rev = r
<1>1. "rev" \in DOMAIN Revised(v, r, n)
  <2>1. \A q \in PinType : "rev" \in DOMAIN q
    BY DEF PinType
  <2> QED
    BY <2>1 DEF Shape
<1>2. "rev" \in DOMAIN v
  BY <1>1, Zenon DEF Revised
<1>3. "rev" \in DOMAIN [v EXCEPT !.rev = r] /\ "rev" # "ver"
  BY <1>2
<1> QED
  BY <1>2, <1>3, Zenon DEF Revised

LEMMA TouchesLevel ==
  ASSUME Typed, Typed', Level, NEW c \in Callers, Touches(c)
  PROVE  Level'
<1> SUFFICES ASSUME ~host.removes
             PROVE  LevelOf(pin', top', call')
  BY DEF Level, Touches
<1>1. PICK y : call' = [call EXCEPT ![c] = y] /\ Draws(y, call[c], pin)
  BY DEF Touches, Reads
<1>2. LevelOf(pin, top, call)
  BY DEF Level
<1>3. Even(NoPin) /\ Even(pin) /\ Even(call[c].doc)
  BY <1>2 DEF LevelOf, Even, NoPin
<1>4. Even(y.doc)
  BY <1>1, <1>3 DEF Draws
<1>5. \A k \in Callers : Even(call'[k].doc)
  <2>1. DOMAIN call = Callers
    BY DEF Typed, TypedOf
  <2> QED
    BY <1>1, <1>2, <1>4, <2>1 DEF LevelOf
<1>6. CASE UNCHANGED <<pin, top>>
  BY <1>2, <1>5, <1>6 DEF LevelOf
<1>7. CASE \E v : Write(v)
  <2>1. PICK v : Write(v)
    BY <1>7
  <2>2. Shape(pin', host')
    BY DEF Typed, TypedOf
  <2>3. pin'.rev = pin.rev + 1 /\ pin'.ver = top + 1 /\ top' = top + 1
    BY <2>1, <2>2, RevisedVer, RevisedRev DEF Write
  <2> QED
    BY <1>2, <1>5, <2>3 DEF LevelOf
<1>8. call[c].at # "remove"
  BY KnowsNow DEF Knows, Holds
<1> QED
  BY <1>6, <1>7, <1>8 DEF Touches

\* The condition of a write is on the very document its call has read wherever
\* the Host cannot remove a pin, or its store never gives a revision twice: a
\* step that is not Fenced takes a pin that was removed and created again.
THEOREM RevisionsFence ==
  Spec => [](~(host.restarts /\ host.removes) => \A c \in Callers : Fenced(c))
<1>1. Init => Level
  <2> SUFFICES ASSUME Init
               PROVE  LevelOf(pin, top, call)
    BY DEF Level
  <2>1. pin.rev = pin.ver /\ top = pin.ver
    BY StartsAssumption DEF Init, StartingPin, NoPin
  <2>2. \A c \in Callers : Even(call[c].doc)
    BY DEF Init, NewCall, NoPin, Even
  <2> QED
    BY <2>1, <2>2 DEF LevelOf
<1>2. Typed /\ Level /\ [Next]_vars => Level'
  <2> SUFFICES ASSUME Typed, Level, [Next]_vars
               PROVE  Level'
    OBVIOUS
  <2>1. CASE UNCHANGED <<pin, top, call, host>>
    BY <2>1 DEF Level
  <2>2. CASE Next
    BY <2>1, <2>2, NextTyped, NextTouches, TouchesLevel
  <2> QED
    BY <2>1, <2>2 DEF vars
<1>3. Level => (~(host.restarts /\ host.removes) =>
                  \A c \in Callers : Fenced(c))
  BY DEF Level, LevelOf, Even, Fenced
<1> QED
  BY InitTyped, NextTyped, <1>1, <1>2, <1>3, PTL DEF Spec

-----------------------------------------------------------------------------
(* A fenced write is over the pin                                           *)

\* The call that writes holds the pin.
LEMMA UnchangedIs ==
  ASSUME Current, NEW c \in Callers, Unchanged(c), Fenced(c)
  PROVE  call[c].doc = pin
BY DEF Current, CurrentOf, Unchanged, Fenced

LEMMA TouchesCurrent ==
  ASSUME Typed, Typed', Current,
         NEW c \in Callers, FencedTouch(c)
  PROVE  Current'
<1>1. PICK y : call' = [call EXCEPT ![c] = y] /\ Draws(y, call[c], pin)
  BY DEF FencedTouch, Touches, Reads
<1>2. /\ DOMAIN call = Callers
      /\ top \in Nat \cup {-1} /\ Shape(pin, host)
      /\ top' \in Nat \cup {-1} /\ Shape(pin', host')
  BY DEF Typed, TypedOf
<1>3. TypedOf(pin, top, admitted, late, call, host) /\ CurrentOf(pin, top, call)
  BY DEF Typed, Current
<1>4. CASE UNCHANGED <<pin, top>>
  <2>1. CurrentOf(pin, top, [call EXCEPT ![c] = y])
    BY <1>1, <1>2, <1>3, CurrentCall
  <2> QED
    BY <1>1, <1>4, <2>1 DEF Current
<1>5. CASE pin' = NoPin /\ top' = top /\ Unchanged(c) /\ Fenced(c)
  <2>1. call[c].doc = pin
    BY <1>5, UnchangedIs
  <2>2. CurrentOf(NoPin, top, call) /\ Shape(NoPin, host)
    BY <1>3, CurrentRemove, NoPinShape
  <2>3. Draws(y, call[c], NoPin)
    BY <1>1, <2>1 DEF Draws
  <2>4. CurrentOf(NoPin, top, [call EXCEPT ![c] = y])
    BY <1>2, <2>2, <2>3, CurrentCall
  <2> QED
    BY <1>1, <1>5, <2>4 DEF Current
<1>6. CASE (\E v : Write(v)) /\ Unchanged(c) /\ Fenced(c)
  <2>1. call[c].doc = pin
    BY <1>6, UnchangedIs
  <2>2. PICK q : q = pin'
    OBVIOUS
  <2>3. Shape(q, host')
    BY <1>2, <2>2
  <2>4. q.ver = top + 1 /\ top' = top + 1
    BY <1>6, <2>2, <2>3, RevisedVer DEF Write
  <2>5. CurrentOf(q, top + 1, call)
    BY <1>3, <2>4, CurrentWrite
  <2>6. Draws(y, call[c], q)
    BY <1>1, <2>1 DEF Draws
  <2>7. top + 1 \in Nat \cup {-1}
    BY <1>2
  <2>8. CurrentOf(q, top + 1, [call EXCEPT ![c] = y])
    BY <1>2, <2>3, <2>5, <2>6, <2>7, CurrentCall
  <2> QED
    BY <1>1, <2>2, <2>4, <2>8 DEF Current
<1> QED
  BY <1>4, <1>5, <1>6 DEF FencedTouch, Touches

LEMMA InitCurrent ==
  Init => Current
<1> SUFFICES ASSUME Init, Typed
             PROVE  Current
  BY InitTyped
<1>1. pin.ver = top /\ call = [c \in Callers |-> NewCall]
  BY DEF Init
<1>2. Shape(pin, host)
  BY DEF Typed, TypedOf
<1> QED
  <2>1. /\ pin.ver \in Nat \cup {-1}
        /\ pin.ver = -1 => pin = NoPin
    BY <1>2, VerOf
  <2>2. \A c \in Callers : call[c].doc = NoPin
    BY <1>1 DEF NewCall
  <2>3. NoPin.ver = -1
    BY DEF NoPin
  <2> QED
    BY <1>1, <2>1, <2>2, <2>3 DEF Current, CurrentOf

LEMMA NextCurrent ==
  ASSUME Typed, Current, [RelyNext]_vars
  PROVE  Current'
<1>1. CASE UNCHANGED <<pin, top, call>>
  BY <1>1 DEF Current
<1>2. CASE RelyNext
  BY <1>1, <1>2, RelyIsNext, NextTyped, RelyTouches, TouchesCurrent
<1> QED
  BY <1>1, <1>2 DEF vars

\* No write, removal, join or recovery replaces an ADMITTED pin, until a
\* revision is taken for another document's: a call that writes holds the pin
\* it replaces, and no call that writes holds an ADMITTED one.
THEOREM AdmittedStays ==
  RelySpec => AdmittedPinStays
<1>1. ASSUME Typed, Current, [RelyNext]_vars
      PROVE  [pin.phase = "ADMITTED" => pin' = pin]_pin
  <2>1. ASSUME NEW c \in Callers, FencedTouch(c), pin.phase = "ADMITTED"
        PROVE  pin' = pin
    <3>1. Knows(c, call[c], host, admitted)
      BY <1>1, KnowsNow
    <3>2. call[c].at \in Holding \cup {"join"} => call[c].doc.phase # "ADMITTED"
      BY <3>1 DEF Knows, Holds
    <3> QED
      BY <1>1, <2>1, <3>2, UnchangedIs DEF FencedTouch, Touches
  <2> QED
    BY <1>1, <2>1, RelyTouches DEF vars
<1>2. Typed /\ Current /\ [RelyNext]_vars => Current'
  BY NextCurrent
<1> QED
  BY InitTyped, RelyIsNext, NextTyped, InitCurrent, <1>1, <1>2, PTL
  DEF RelySpec, AdmittedPinStays

-----------------------------------------------------------------------------
(* The second layer: how pin, calls and admissions relate                   *)

Before == {"idle", "begin", "join"}

MayStill(c, x, l) == May(c, x) \/ c \in l

\* The pin stands for the submit of call c: MayAdmitIsRegistered, of values.
Guards(p, c, x) ==
  /\ Matches(p, c)
  /\ \/ p.phase = "ADMITTED"
     \/ /\ p.phase = "RESERVED" /\ p.msg = x.msg
        /\ p.tracked => c \in p.inFlight

\* The reservation is the one call c has created or taken over.
OwnedBy(p, c, x) ==
  /\ Matches(p, c)
  /\ \/ p.phase = "ADMITTED"
     \/ p.phase = "RESERVED" /\ p.slot = c /\ p.msg = x.msg

\* Where attempt c, as x, stands to pin p, the late writes l and the
\* admissions w.
InFlight(c, x, p) ==
  c \in p.inFlight =>
    /\ x.at \notin Before /\ Matches(p, c) /\ p.msg = x.msg
    /\ Live(x) => x.registered /\ x.mode # "admitted"

Late(c, x, l) ==
  c \in l =>
    /\ x.outcome = "ambiguous" \/ x.at = "crashed"
    /\ x.at \notin Before \cup {"kernel", "evaluating"}
    /\ ~Excluded(c, x)

Removing(x, p, w) == x.at = "remove" /\ x.doc = p => w[x.msg] = NoBuild

Owns(c, x, p) == x.mode = "owner" /\ Excluded(c, x) => OwnedBy(p, c, x)

Stands(c, x, p, l, w) ==
  /\ InFlight(c, x, p)
  /\ MayStill(c, x, l) => Guards(p, c, x)
  /\ Late(c, x, l)
  /\ Removing(x, p, w)
  /\ Owns(c, x, p)

\* A call that has ended without knowing its outcome, or without a say in it.
Lost(x) ==
  \/ x.at \in {"gaveUp", "crashed"}
  \/ x.at # "idle" /\ x.outcome = "ambiguous"

Unsettled(f) == \E c \in Callers : Lost(f[c])

\* What is so of the reservation a recovery has read, while it is the pin.
Weighs(x, p, l, f, h) ==
  x.at \in {"weigh", "free"} /\ x.doc = p /\ x.assertion # "none" =>
    /\ <<p.build, p.msg>> \in RoleDenied /\ p.slot # NoAttempt =>
         f[p.slot].mode # "owner"
    /\ x.assertion = "allAttemptsTerminated" =>
         /\ \A a \in Attempts : Matches(p, a) => ~MayStill(a, f[a], l)
         /\ h.removes => Unsettled(f)

\* All admissions are of the pin's BUILD, and while it is a reservation, of
\* its message.
Admissions(p, w) ==
  \A m \in Messages :
    w[m] # NoBuild =>
      /\ p.phase # "ABSENT" /\ p.build = w[m]
      /\ p.phase = "RESERVED" => m = p.msg

\* Of a reservation, some submit is alive to settle it, or some call is lost.
Released(p, f, h) ==
  p.phase = "RESERVED" /\ p.tracked /\ h.removes =>
    \/ Unsettled(f)
    \/ p.inFlight # {} /\ \A a \in p.inFlight : Live(f[a])

SafeOf(p, w, l, f, h) ==
  /\ \A a \in Attempts : Stands(a, f[a], p, l, w)
  /\ \A r \in Recoveries : Weighs(f[r], p, l, f, h)
  /\ Admissions(p, w)
  /\ Released(p, f, h)

Safe == SafeOf(pin, admitted, late, call, host)

-----------------------------------------------------------------------------
(* One call changes                                                         *)

\* What the other calls, and the reservation, need of the step of one.
Goes(c, x, y, p, h) ==
  /\ y.mode = "owner" => x.mode = "owner"
  /\ May(c, y) => May(c, x) \/ p.phase # "RESERVED" \/ ~p.tracked
  /\ Lost(x) => Lost(y)
  /\ c \in p.inFlight /\ p.phase = "RESERVED" /\ h.removes /\ Live(x) =>
       Live(y) \/ Lost(y)

\* A recovery that weighs a reservation holds one, on an assertion of the Host.
LEMMA WeighsWhat ==
  ASSUME NEW c \in Callers, NEW x, NEW h, NEW w, Knows(c, x, h, w),
         x.at \in {"weigh", "free"}
  PROVE  x.doc.phase = "RESERVED" /\ x.assertion \in h.asserts
BY DEF Knows, Holds, Holding

LEMMA WeighsOn ==
  ASSUME NEW p, NEW t, NEW w, NEW l, NEW f, NEW h, TypedOf(p, t, w, l, f, h),
         NEW c \in Callers, NEW y, Goes(c, f[c], y, p, h),
         NEW r \in Callers, NEW z, Knows(r, z, h, w), Weighs(z, p, l, f, h)
  PROVE  Weighs(z, p, l, [f EXCEPT ![c] = y], h)
<1> DEFINE g == [f EXCEPT ![c] = y]
<1>1. DOMAIN f = Callers /\ Shape(p, h)
  BY DEF TypedOf
<1>2. \A d \in Callers : g[d] = IF d = c THEN y ELSE f[d]
  BY <1>1
<1>3. p.slot # NoAttempt => p.slot \in Callers
  BY <1>1 DEF Shape, PinType, Callers
<1> HIDE DEF g
<1> SUFFICES ASSUME z.at \in {"weigh", "free"}, z.doc = p, z.assertion # "none"
             PROVE  Weighs(z, p, l, g, h)
  BY DEF Weighs, g
<1>4. p.phase = "RESERVED" /\ z.assertion \in h.asserts
  BY WeighsWhat
<1>5. <<p.build, p.msg>> \in RoleDenied /\ p.slot # NoAttempt =>
        g[p.slot].mode # "owner"
  BY <1>2, <1>3 DEF Weighs, Goes
<1>6. ASSUME z.assertion = "allAttemptsTerminated"
      PROVE  /\ \A a \in Attempts : Matches(p, a) => ~MayStill(a, g[a], l)
             /\ h.removes => Unsettled(g)
  <2>1. p.tracked
    BY <1>1, <1>4, <1>6 DEF Shape
  <2>2. /\ \A a \in Attempts : Matches(p, a) => ~MayStill(a, f[a], l)
        /\ h.removes => Unsettled(f)
    BY <1>6 DEF Weighs
  <2>3. \A a \in Attempts : Matches(p, a) => ~MayStill(a, g[a], l)
    BY <1>2, <1>4, <2>1, <2>2 DEF MayStill, Goes, Callers
  <2>4. Unsettled(f) => Unsettled(g)
    BY <1>2 DEF Unsettled, Goes
  <2> QED
    BY <2>2, <2>3, <2>4
<1> QED
  BY <1>5, <1>6 DEF Weighs

LEMMA LocalSafe ==
  ASSUME NEW p, NEW t, NEW w, NEW l, NEW f, NEW h, TypedOf(p, t, w, l, f, h),
         SafeOf(p, w, l, f, h),
         NEW c \in Callers, NEW y, Knows(c, y, h, w), Goes(c, f[c], y, p, h),
         c \in Attempts => Stands(c, y, p, l, w),
         c \in Recoveries => Weighs(y, p, l, f, h)
  PROVE  SafeOf(p, w, l, [f EXCEPT ![c] = y], h)
<1> DEFINE g == [f EXCEPT ![c] = y]
<1>1. /\ DOMAIN f = Callers /\ Shape(p, h)
      /\ \A d \in Callers : Knows(d, f[d], h, w)
  BY DEF TypedOf
<1>2. \A d \in Callers : g[d] = IF d = c THEN y ELSE f[d]
  BY <1>1
<1>3. \A r \in Recoveries : Weighs(f[r], p, l, g, h)
  BY <1>1, WeighsOn DEF SafeOf, Callers
<1>4. c \in Recoveries => Weighs(y, p, l, g, h)
  BY WeighsOn
<1> HIDE DEF g
<1>5. \A a \in Attempts : Stands(a, g[a], p, l, w)
  BY <1>2 DEF SafeOf, Callers
<1>6. \A r \in Recoveries : Weighs(g[r], p, l, g, h)
  BY <1>2, <1>3, <1>4 DEF Callers
<1>7. Released(p, g, h)
  <2> SUFFICES ASSUME p.phase = "RESERVED", p.tracked, h.removes, ~Unsettled(g)
               PROVE  p.inFlight # {} /\ \A a \in p.inFlight : Live(g[a])
    BY DEF Released
  <2>1. ~Unsettled(f) /\ ~Lost(y)
    BY <1>2 DEF Unsettled, Goes
  <2>2. p.inFlight # {} /\ \A a \in p.inFlight : Live(f[a])
    BY <2>1 DEF Released, SafeOf
  <2>3. p.inFlight \subseteq Callers
    BY <1>1 DEF Shape, PinType, Callers
  <2> QED
    BY <1>2, <2>1, <2>2, <2>3 DEF Goes
<1> QED
  BY <1>5, <1>6, <1>7 DEF SafeOf, g

\* An attempt past its join that goes on, or ends.
Slides(c, x, y) ==
  /\ y.msg = x.msg
  /\ y.at \notin Before /\ Live(x)
  /\ Live(y) => y.registered = x.registered /\ y.mode = x.mode
  /\ ~Live(y) => y.mode = "none"
  /\ y.at \in {"kernel", "evaluating"} => x.at \in {"kernel", "evaluating"}
  /\ x.outcome = "ambiguous" => y.outcome = "ambiguous"

LEMMA SlideStands ==
  ASSUME NEW c, NEW x, NEW y, NEW p, NEW l, NEW w, Stands(c, x, p, l, w),
         Slides(c, x, y), Removing(y, p, w)
  PROVE  Stands(c, y, p, l, w)
<1>1. InFlight(c, y, p)
  BY DEF Stands, InFlight, Slides
<1>2. May(c, y) => May(c, x)
  BY DEF May, Slides, Excluded
<1>3. MayStill(c, y, l) => Guards(p, c, y)
  BY <1>2 DEF Stands, MayStill, Guards, Slides
<1>4. Late(c, y, l)
  BY DEF Stands, Late, Slides, Excluded, Live
<1>5. Owns(c, y, p)
  <2>1. (y.mode = "owner" => x.mode = "owner") /\ y.msg = x.msg
    BY DEF Slides
  <2>2. Owns(c, x, p)
    BY DEF Stands
  <2> QED
    BY <2>1, <2>2 DEF Owns, OwnedBy, Excluded
<1> QED
  BY <1>1, <1>3, <1>4, <1>5 DEF Stands

\* An attempt no pin and no Kernel has yet.
LEMMA BeginStands ==
  ASSUME NEW c, NEW x, NEW y, NEW p, NEW l, NEW w, Stands(c, x, p, l, w),
         x.at \in Before, y.at # "remove", y.mode # "owner",
         May(c, y) => Guards(p, c, y)
  PROVE  Stands(c, y, p, l, w) /\ c \notin p.inFlight
BY DEF Stands, InFlight, MayStill, Late, Removing, Owns

-----------------------------------------------------------------------------
(* How a call goes on                                                       *)

LEMMA EndSlides ==
  ASSUME NEW c, NEW x \in CallType, NEW s \in {"done", "gaveUp", "crashed"},
         Live(x)
  PROVE  /\ Slides(c, x, EndOf(x, s)) /\ EndOf(x, s).at = s
         /\ x.outcome = "ambiguous" => Lost(EndOf(x, s))
<1>1. s \in AttemptAt \cup RecoveryAt
  BY DEF AttemptAt
<1> DEFINE y == EndOf(x, s)
<1>2. /\ y.at = s /\ y.msg = x.msg /\ y.mode = "none"
      /\ y.outcome = (IF x.outcome = "ambiguous" THEN "ambiguous" ELSE "none")
  BY <1>1, EndFields
<1> HIDE DEF y
<1>3. Slides(c, x, y) /\ (x.outcome = "ambiguous" => Lost(y))
  BY <1>2 DEF Slides, Live, Before, Lost
<1> QED
  BY <1>2, <1>3 DEF y

LEMMA AgainSlides ==
  ASSUME NEW c, NEW x \in CallType, NEW s \in {"commit", "conclude"}, Live(x)
  PROVE  /\ Slides(c, x, AgainOf(x, s)) /\ AgainOf(x, s).at \in {s, "gaveUp"}
         /\ Live(AgainOf(x, s)) \/ Lost(AgainOf(x, s))
<1>1. CASE x.round + 1 = MaxRounds
  <2>1. AgainOf(x, s) = EndOf(x, "gaveUp")
    BY <1>1 DEF AgainOf
  <2> QED
    BY <2>1, EndSlides DEF Lost
<1>2. CASE x.round + 1 # MaxRounds
  <2>1. s \in AttemptAt \cup RecoveryAt
    BY DEF AttemptAt
  <2> DEFINE y == AgainOf(x, s)
  <2>2. /\ y.at = s /\ y.msg = x.msg /\ y.mode = x.mode
        /\ y.registered = x.registered /\ y.outcome = x.outcome
    BY <1>2, <2>1, AgainFields
  <2> HIDE DEF y
  <2>3. Slides(c, x, y) /\ Live(y)
    BY <2>2 DEF Slides, Live, Before
  <2> QED
    BY <2>2, <2>3 DEF y
<1> QED
  BY <1>1, <1>2

LEMMA EnterSlides ==
  ASSUME NEW c, NEW x \in CallType, NEW s \in {"commit", "conclude"}, Live(x)
  PROVE  /\ Slides(c, x, EnterOf(x, s)) /\ EnterOf(x, s).at = s
         /\ Live(EnterOf(x, s))
<1>1. s \in AttemptAt \cup RecoveryAt
  BY DEF AttemptAt
<1> DEFINE y == EnterOf(x, s)
<1>2. /\ y.at = s /\ y.msg = x.msg /\ y.mode = x.mode
      /\ y.registered = x.registered /\ y.outcome = x.outcome
  BY <1>1, EnterFields
<1> HIDE DEF y
<1>3. Slides(c, x, y) /\ Live(y)
  BY <1>2 DEF Slides, Live, Before
<1> QED
  BY <1>2, <1>3 DEF y

LEMMA HoldSlides ==
  ASSUME NEW c, NEW x \in CallType, NEW s \in Holding, NEW d \in PinType,
         Live(x)
  PROVE  /\ Slides(c, x, HoldOf(x, s, d)) /\ HoldOf(x, s, d).at = s
         /\ Live(HoldOf(x, s, d))
<1> DEFINE y == HoldOf(x, s, d)
<1>1. /\ y.at = s /\ y.msg = x.msg /\ y.mode = x.mode
      /\ y.registered = x.registered /\ y.outcome = x.outcome
  BY HoldFields
<1> HIDE DEF y
<1>2. Slides(c, x, y) /\ Live(y)
  BY <1>1 DEF Slides, Live, Before, Holding
<1> QED
  BY <1>1, <1>2 DEF y

LEMMA KernelSlides ==
  ASSUME NEW c, NEW x \in CallType, x.at \in {"kernel", "evaluating"}, NEW o,
         x.outcome = "ambiguous" => o = "ambiguous"
  PROVE  /\ Slides(c, x, [x EXCEPT !.at = "settle", !.outcome = o])
         /\ Slides(c, x, [x EXCEPT !.at = "evaluating"])
<1> DEFINE y == [x EXCEPT !.at = "settle", !.outcome = o]
           z == [x EXCEPT !.at = "evaluating"]
<1>1. /\ y.at = "settle" /\ y.msg = x.msg /\ y.mode = x.mode
      /\ y.registered = x.registered /\ y.outcome = o
  BY DEF CallType
<1>2. /\ z.at = "evaluating" /\ z.msg = x.msg /\ z.mode = x.mode
      /\ z.registered = x.registered /\ z.outcome = x.outcome
  BY DEF CallType
<1> HIDE DEF y, z
<1>3. Slides(c, x, y)
  BY <1>1 DEF Slides, Live, Before
<1>4. Slides(c, x, z)
  BY <1>2 DEF Slides, Live, Before
<1> QED
  BY <1>3, <1>4 DEF y, z

\* An attempt that goes on or ends, over the same pin and admissions.  Unless
\* it is lost, it does not end while it is in flight.
LEMMA SlideSafe ==
  ASSUME NEW p, NEW t, NEW w, NEW l, NEW f, NEW h, TypedOf(p, t, w, l, f, h),
         SafeOf(p, w, l, f, h),
         NEW a \in Attempts, NEW y, Knows(a, y, h, w), Slides(a, f[a], y),
         Removing(y, p, w),
         a \in p.inFlight /\ p.phase = "RESERVED" /\ h.removes =>
           Live(y) \/ Lost(y)
  PROVE  SafeOf(p, w, l, [f EXCEPT ![a] = y], h)
<1>1. a \in Callers /\ a \notin Recoveries
  BY PinAssumption DEF Callers
<1>2. Stands(a, f[a], p, l, w)
  BY DEF SafeOf
<1>3. Stands(a, y, p, l, w)
  BY <1>2, SlideStands
<1>4. Goes(a, f[a], y, p, h)
  BY DEF Goes, Slides, May, Excluded, Lost, Live, Before
<1> QED
  BY <1>1, <1>3, <1>4, LocalSafe

\* What the first layer says of a step's call.
LEMMA KnowsNext ==
  ASSUME Typed, Typed', NEW c \in Callers, NEW y,
         call' = [call EXCEPT ![c] = y], UNCHANGED <<admitted, host>>
  PROVE  Knows(c, y, host, admitted)
<1>1. call'[c] = y
  BY DEF Typed, TypedOf
<1>2. Knows(c, call'[c], host', admitted')
  BY DEF Typed, TypedOf
<1> QED
  BY <1>1, <1>2

LEMMA SlideNow ==
  ASSUME Typed, Typed', Safe, NEW a \in Attempts, NEW y,
         Slides(a, call[a], y), y.at # "remove",
         a \in pin.inFlight /\ pin.phase = "RESERVED" /\ host.removes =>
           Live(y) \/ Lost(y),
         call' = [call EXCEPT ![a] = y],
         UNCHANGED <<pin, top, admitted, late, host>>
  PROVE  Safe'
<1>1. a \in Callers
  BY DEF Callers
<1>2. Knows(a, y, host, admitted)
  BY <1>1, KnowsNext
<1>3. Removing(y, pin, admitted)
  BY DEF Removing
<1>4. SafeOf(pin, admitted, late, [call EXCEPT ![a] = y], host)
  BY <1>2, <1>3, SlideSafe DEF Typed, Safe
<1> QED
  BY <1>4 DEF Safe

\* A recovery is no submit: only what it weighs is to be shown.
LEMMA RecoveryNow ==
  ASSUME Typed, Typed', Safe, NEW r \in Recoveries, NEW y,
         Lost(call[r]) => Lost(y),
         Weighs(y, pin, late, call, host),
         call' = [call EXCEPT ![r] = y],
         UNCHANGED <<pin, top, admitted, late, host>>
  PROVE  Safe'
<1>1. r \in Callers /\ r \notin Attempts
  BY PinAssumption DEF Callers
<1>2. Knows(r, y, host, admitted)
  BY <1>1, KnowsNext
<1>3. y.mode = "none" /\ y.at \in RecoveryAt
  BY <1>2 DEF Knows, Come
<1>4. r \notin pin.inFlight
  BY <1>1 DEF Typed, TypedOf, Shape, PinType
<1>5. Goes(r, call[r], y, pin, host)
  BY <1>3, <1>4 DEF Goes, May, RecoveryAt
<1>6. SafeOf(pin, admitted, late, [call EXCEPT ![r] = y], host)
  BY <1>1, <1>2, <1>5, LocalSafe DEF Typed, Safe
<1> QED
  BY <1>6 DEF Safe

-----------------------------------------------------------------------------
(* The operations that change one call keep the second layer                *)

LEMMA StandsNow ==
  ASSUME Safe, NEW a \in Attempts
  PROVE  Stands(a, call[a], pin, late, admitted)
BY DEF Safe, SafeOf

\* A send that no Kernel has.
LEMMA BeginNow ==
  ASSUME Typed, Typed', Safe, NEW a \in Attempts, call[a].at \in Before, NEW y,
         y.at # "remove", y.mode # "owner",
         May(a, y) => /\ Guards(pin, a, y)
                      /\ pin.phase # "RESERVED" \/ ~pin.tracked,
         call' = [call EXCEPT ![a] = y],
         UNCHANGED <<pin, top, admitted, late, host>>
  PROVE  Safe'
<1>1. a \in Callers /\ a \notin Recoveries
  BY PinAssumption DEF Callers
<1>2. Knows(a, y, host, admitted)
  BY <1>1, KnowsNext
<1>3. Stands(a, y, pin, late, admitted) /\ a \notin pin.inFlight
  BY StandsNow, BeginStands
<1>4. ~Lost(call[a])
  <2>1. Knows(a, call[a], host, admitted)
    BY <1>1, KnowsNow
  <2> QED
    BY <2>1 DEF Knows, Come, Before, Lost
<1>5. Goes(a, call[a], y, pin, host)
  BY <1>3, <1>4 DEF Goes
<1>6. SafeOf(pin, admitted, late, [call EXCEPT ![a] = y], host)
  BY <1>1, <1>2, <1>3, <1>5, LocalSafe DEF Typed, Safe
<1> QED
  BY <1>6 DEF Safe

LEMMA SendSafe ==
  ASSUME Typed, Typed', Safe, NEW a \in Attempts, NEW m \in Messages,
         Send(a, m)
  PROVE  Safe'
<1> DEFINE y == [NewCall EXCEPT !.at = "begin", !.msg = m]
<1>1. y.at = "begin" /\ y.mode = "none"
  BY DEF NewCall
<1>2. /\ call' = [call EXCEPT ![a] = y] /\ call[a].at = "idle"
      /\ UNCHANGED <<pin, top, admitted, late, host>>
  BY DEF Send, Put, At
<1> HIDE DEF y
<1> QED
  BY <1>1, <1>2, BeginNow DEF Before, May

LEMMA ReadToSendSafe ==
  ASSUME Typed, Typed', Safe, NEW a \in Attempts, ReadPinToSend(a)
  PROVE  Safe'
<1> DEFINE x == call[a]
<1>1. /\ x.at \in Before /\ x.mode = "none" /\ x \in CallType
      /\ UNCHANGED <<pin, top, admitted, late, host>>
  <2>1. x.at = "begin" /\ UNCHANGED <<pin, top, admitted, late, host>>
    BY ReadToSendCases DEF At
  <2>2. Knows(a, x, host, admitted)
    BY KnowsNow DEF Callers
  <2> QED
    BY <2>1, <2>2 DEF Knows, Come, Before
<1>2. CASE End(a, "done")
  <2> DEFINE y == EndOf(x, "done")
  <2>1. y.at = "done" /\ y.mode = "none"
    BY <1>1, EndFields DEF AttemptAt
  <2>2. call' = [call EXCEPT ![a] = y]
    BY <1>2 DEF End, Put
  <2> HIDE DEF y
  <2> QED
    BY <1>1, <2>1, <2>2, BeginNow DEF May
<1>3. ASSUME NEW s \in {"admitted", "adopt"}, Matches(pin, a),
             \/ pin.phase = "ADMITTED"
             \/ pin.phase = "RESERVED" /\ pin.msg = x.msg /\ ~pin.tracked,
             Put(a, [x EXCEPT !.at = "kernel", !.mode = s])
      PROVE  Safe'
  <2> DEFINE y == [x EXCEPT !.at = "kernel", !.mode = s]
  <2>1. y.at = "kernel" /\ y.msg = x.msg /\ y.mode = s
    BY <1>1 DEF CallType
  <2>2. call' = [call EXCEPT ![a] = y]
    BY <1>3 DEF Put
  <2> HIDE DEF y
  <2>3. Guards(pin, a, y)
    BY <1>3, <2>1 DEF Guards
  <2>4. pin.phase # "RESERVED" \/ ~pin.tracked
    BY <1>3
  <2>5. y.at # "remove" /\ y.mode # "owner"
    BY <2>1
  <2> QED
    BY <1>1, <2>2, <2>3, <2>4, <2>5, BeginNow
<1>4. CASE Put(a, [x EXCEPT !.at = "join", !.doc = pin])
  <2> DEFINE y == [x EXCEPT !.at = "join", !.doc = pin]
  <2>1. y.at = "join" /\ y.mode = "none"
    BY <1>1 DEF CallType
  <2>2. call' = [call EXCEPT ![a] = y]
    BY <1>4 DEF Put
  <2> HIDE DEF y
  <2> QED
    BY <1>1, <2>1, <2>2, BeginNow DEF May
<1> QED
  BY <1>2, <1>3, <1>4, ReadToSendCases

LEMMA JoinAgainSafe ==
  ASSUME Typed, Typed', Safe, NEW a \in Attempts, At(a, "join"),
         Again(a, "begin"), UNCHANGED <<pin, top, admitted, late, host>>
  PROVE  Safe'
<1> DEFINE x == call[a]
           y == AgainOf(x, "begin")
<1>1. x.at \in Before /\ x.mode = "none" /\ x \in CallType
  <2>1. Knows(a, x, host, admitted)
    BY KnowsNow DEF Callers
  <2> QED
    BY <2>1 DEF Knows, Come, Before, At
<1>2. y.at \in {"begin", "gaveUp"} /\ y.mode = "none"
  <2>1. "begin" \in AttemptAt \cup RecoveryAt
    BY DEF AttemptAt
  <2>2. "gaveUp" \in AttemptAt \cup RecoveryAt
    BY DEF AttemptAt
  <2>3. CASE x.round + 1 = MaxRounds
    <3>1. y = EndOf(x, "gaveUp")
      BY <2>3 DEF AgainOf
    <3> QED
      BY <1>1, <2>2, <3>1, EndFields
  <2> QED
    BY <1>1, <2>1, <2>3, AgainFields
<1>3. call' = [call EXCEPT ![a] = y]
  BY DEF Again, Put
<1> HIDE DEF y
<1> QED
  BY <1>1, <1>2, <1>3, BeginNow DEF May

\* What is known of an attempt's call when it takes a step past its join.
LEMMA AttemptNow ==
  ASSUME Typed, NEW a \in Attempts, Live(call[a])
  PROVE  /\ a \in Callers /\ a \notin Recoveries
         /\ Knows(a, call[a], host, admitted) /\ call[a] \in CallType
         /\ pin \in PinType
<1>1. a \in Callers /\ a \notin Recoveries
  BY PinAssumption DEF Callers
<1> QED
  BY <1>1, KnowsNow DEF Typed, TypedOf, Shape

\* The steps of which nothing but the call's way on is to be shown.
LEMMA WayOnSafe ==
  ASSUME Typed, Typed', Safe, NEW a \in Attempts, Live(call[a]),
         \/ Again(a, "commit") \/ Again(a, "conclude")
         \/ Enter(a, "commit") \/ Enter(a, "conclude"),
         UNCHANGED <<pin, top, admitted, late, host>>
  PROVE  Safe'
<1> DEFINE x == call[a]
<1>1. x \in CallType
  BY AttemptNow
<1>2. ASSUME NEW s \in {"commit", "conclude"}, Again(a, s)
      PROVE  Safe'
  <2> DEFINE y == AgainOf(x, s)
  <2>1. Slides(a, x, y) /\ y.at \in {s, "gaveUp"} /\ (Live(y) \/ Lost(y))
    BY <1>1, AgainSlides
  <2>2. call' = [call EXCEPT ![a] = y]
    BY <1>2 DEF Again, Put
  <2> HIDE DEF y
  <2> QED
    BY <2>1, <2>2, SlideNow
<1>3. ASSUME NEW s \in {"commit", "conclude"}, Enter(a, s)
      PROVE  Safe'
  <2> DEFINE y == EnterOf(x, s)
  <2>1. Slides(a, x, y) /\ y.at = s /\ Live(y)
    BY <1>1, EnterSlides
  <2>2. call' = [call EXCEPT ![a] = y]
    BY <1>3 DEF Enter, Put
  <2> HIDE DEF y
  <2> QED
    BY <2>1, <2>2, SlideNow
<1> QED
  BY <1>2, <1>3

\* A call that ends, lost or not in flight in a reservation.
LEMMA EndSafe ==
  ASSUME Typed, Typed', Safe, NEW a \in Attempts, Live(call[a]),
         End(a, "done"),
         a \in pin.inFlight /\ pin.phase = "RESERVED" /\ host.removes =>
           call[a].outcome = "ambiguous",
         UNCHANGED <<pin, top, admitted, late, host>>
  PROVE  Safe'
<1> DEFINE x == call[a]
           y == EndOf(x, "done")
<1>1. x \in CallType
  BY AttemptNow
<1>2. /\ Slides(a, x, y) /\ y.at = "done"
      /\ x.outcome = "ambiguous" => Lost(y)
  BY <1>1, EndSlides
<1>3. call' = [call EXCEPT ![a] = y]
  BY DEF End, Put
<1> HIDE DEF y
<1> QED
  BY <1>2, <1>3, SlideNow

\* A call that takes hold of the pin, or goes on with what it holds.
LEMMA HoldSafe ==
  ASSUME Typed, Typed', Safe, NEW a \in Attempts, Live(call[a]),
         NEW s \in Holding, NEW d \in PinType,
         call' = [call EXCEPT ![a] = HoldOf(call[a], s, d)],
         s = "remove" => ~Witness(call[a].msg),
         UNCHANGED <<pin, top, admitted, late, host>>
  PROVE  Safe'
<1> DEFINE x == call[a]
           y == HoldOf(x, s, d)
<1>1. x \in CallType /\ a \in Callers
  BY AttemptNow
<1>2. Slides(a, x, y) /\ y.at = s /\ Live(y)
  BY <1>1, HoldSlides
<1> HIDE DEF y
<1>3. Knows(a, y, host, admitted)
  BY <1>1, KnowsNext DEF y
<1>4. Removing(y, pin, admitted)
  BY <1>2 DEF Removing, Slides, Witness
<1>5. SafeOf(pin, admitted, late, [call EXCEPT ![a] = y], host)
  BY <1>2, <1>3, <1>4, SlideSafe DEF Typed, Safe
<1> QED
  BY <1>5 DEF Safe, y

\* What the Kernel answers, of an attempt whose outcome was not yet known.
LEMMA AnswerSafe ==
  ASSUME Typed, Typed', Safe, NEW a \in Attempts,
         call[a].at \in {"kernel", "evaluating"},
         \/ \E o \in Outcomes : Answer(a, o)
         \/ Goto(a, "evaluating"),
         UNCHANGED <<pin, top, admitted, late, host>>
  PROVE  Safe'
<1> DEFINE x == call[a]
<1>1. x \in CallType /\ x.outcome # "ambiguous"
  <2>1. Live(x)
    BY DEF Live
  <2> QED
    BY <2>1, AttemptNow DEF Knows, Come
<1>2. ASSUME NEW o \in Outcomes, Answer(a, o)
      PROVE  Safe'
  <2> DEFINE y == [x EXCEPT !.at = "settle", !.outcome = o]
  <2>1. Slides(a, x, y)
    BY <1>1, KernelSlides
  <2>2. y.at = "settle"
    BY <1>1 DEF CallType
  <2>3. call' = [call EXCEPT ![a] = y]
    BY <1>2 DEF Answer, Put
  <2> HIDE DEF y
  <2> QED
    BY <2>1, <2>2, <2>3, SlideNow DEF Live
<1>3. CASE Goto(a, "evaluating")
  <2> DEFINE y == [x EXCEPT !.at = "evaluating"]
  <2>1. Slides(a, x, y)
    BY <1>1, KernelSlides
  <2>2. y.at = "evaluating"
    BY <1>1 DEF CallType
  <2>3. call' = [call EXCEPT ![a] = y]
    BY <1>3 DEF Goto, Put
  <2> HIDE DEF y
  <2> QED
    BY <2>1, <2>2, <2>3, SlideNow DEF Live
<1> QED
  BY <1>2, <1>3

LEMMA EvaluateSafe ==
  ASSUME Typed, Typed', Safe, NEW a \in Attempts, Evaluate(a)
  PROVE  Safe'
BY AnswerSafe DEF Evaluate, At, Outcomes

LEMMA DenySafe ==
  ASSUME Typed, Typed', Safe, NEW a \in Attempts, Deny(a)
  PROVE  Safe'
BY AnswerSafe DEF Deny, At, Outcomes

LEMMA SettleSafe ==
  ASSUME Typed, Typed', Safe, NEW a \in Attempts, Settle(a)
  PROVE  Safe'
<1> DEFINE x == call[a]
<1>1. /\ x.at = "settle" /\ Live(x)
      /\ UNCHANGED <<pin, top, admitted, late, host>>
  BY DEF Settle, At, Live
<1>2. CASE x.mode = "admitted" /\ End(a, "done")
  <2>1. a \notin pin.inFlight
    BY <1>1, <1>2, StandsNow DEF Stands, InFlight
  <2> QED
    BY <1>1, <1>2, <2>1, EndSafe
<1>3. CASE Enter(a, "commit") \/ Enter(a, "conclude")
  BY <1>1, <1>3, WayOnSafe
<1> QED
  BY <1>2, <1>3 DEF Settle

LEMMA ReadToConcludeSafe ==
  ASSUME Typed, Typed', Safe, NEW a \in Attempts, ReadPinToConclude(a)
  PROVE  Safe'
<1> DEFINE x == call[a]
           s == IF Compensates(pin, a) THEN "recheck" ELSE "deregister"
<1>1. /\ x.at = "conclude" /\ Live(x)
      /\ UNCHANGED <<pin, top, admitted, late, host>>
  BY DEF ReadPinToConclude, At, Live
<1>2. /\ pin \in PinType
      /\ ~pin.tracked => pin.inFlight = {}
  BY DEF Typed, TypedOf, Shape
<1>3. CASE /\ pin.phase # "RESERVED" \/ ~Matches(pin, a)
                \/ Deregistered(pin, a) = pin
           /\ End(a, "done")
  <2>1. ASSUME a \in pin.inFlight, pin.phase = "RESERVED"
        PROVE  x.outcome = "ambiguous"
    <3>1. Matches(pin, a)
      BY <2>1, StandsNow DEF Stands, InFlight
    <3>2. Deregistered(pin, a) = pin
      BY <1>3, <2>1, <3>1
    <3>3. Others(pin, a) = pin.inFlight
      BY <1>2, <3>2 DEF Deregistered, PinType
    <3> QED
      BY <1>2, <2>1, <3>3 DEF Others, KeepsInFlight
  <2> QED
    BY <1>1, <1>3, <2>1, EndSafe
<1>4. CASE Put(a, [x EXCEPT !.at = s, !.doc = pin])
  <2>1. s \in Holding /\ s # "remove"
    BY DEF Holding
  <2> HIDE DEF s
  <2>2. call' = [call EXCEPT ![a] = HoldOf(x, s, pin)]
    BY <1>4 DEF Put, HoldOf
  <2> QED
    BY <1>1, <1>2, <2>1, <2>2, HoldSafe
<1> QED
  BY <1>3, <1>4 DEF ReadPinToConclude

LEMMA RecheckSafe ==
  ASSUME Typed, Typed', Safe, NEW a \in Attempts, Recheck(a)
  PROVE  Safe'
<1> DEFINE x == call[a]
<1>1. /\ x.at = "recheck" /\ Live(x)
      /\ UNCHANGED <<pin, top, admitted, late, host>>
  BY DEF Recheck, At, Live
<1>2. x \in CallType /\ x.doc \in PinType
  <2>1. x \in CallType
    BY <1>1, AttemptNow
  <2> QED
    BY <2>1 DEF CallType
<1>3. CASE Enter(a, "commit")
  BY <1>1, <1>3, WayOnSafe
<1>4. ASSUME NEW s \in {"remove", "leave"}, ~Witness(x.msg), Goto(a, s)
      PROVE  Safe'
  <2>1. call' = [call EXCEPT ![a] = HoldOf(x, s, x.doc)]
    BY <1>2, <1>4, GotoHolds DEF Goto, Put
  <2>2. s \in Holding
    BY DEF Holding
  <2> QED
    BY <1>1, <1>2, <1>4, <2>1, <2>2, HoldSafe
<1> QED
  BY <1>3, <1>4 DEF Recheck

LEMMA ReadToCommitSafe ==
  ASSUME Typed, Typed', Safe, NEW c \in Callers, ReadPinToCommit(c)
  PROVE  Safe'
<1> DEFINE x == call[c]
<1>1. /\ x.at = "commit" /\ Live(x) /\ x \in CallType /\ pin \in PinType
      /\ UNCHANGED <<pin, top, admitted, late, host>>
  BY KnowsNow DEF ReadPinToCommit, At, Live, Typed, TypedOf, Shape
<1>2. CASE c \in Attempts
  <2>1. CASE (pin.phase # "RESERVED" \/ ~Matches(pin, c)) /\ End(c, "done")
    <3>1. ~(c \in pin.inFlight /\ pin.phase = "RESERVED")
      BY <1>2, <2>1, StandsNow DEF Stands, InFlight
    <3> QED
      BY <1>1, <1>2, <2>1, <3>1, EndSafe
  <2>2. CASE Put(c, [x EXCEPT !.at = "committing", !.doc = pin])
    <3>1. call' = [call EXCEPT ![c] = HoldOf(x, "committing", pin)]
      BY <2>2 DEF Put, HoldOf
    <3>2. "committing" \in Holding
      BY DEF Holding
    <3> QED
      BY <1>1, <1>2, <3>1, <3>2, HoldSafe
  <2> QED
    BY <2>1, <2>2 DEF ReadPinToCommit
<1>3. CASE c \in Recoveries
  <2>1. x.outcome = "none"
    BY <1>3, KnowsNow DEF Knows, Come
  <2>2. ~Lost(x)
    BY <1>1, <2>1 DEF Lost
  <2>3. CASE End(c, "done")
    <3> DEFINE y == EndOf(x, "done")
    <3>1. y.at = "done"
      BY <1>1, EndFields DEF AttemptAt
    <3>2. call' = [call EXCEPT ![c] = y]
      BY <2>3 DEF End, Put
    <3> HIDE DEF y
    <3>3. Weighs(y, pin, late, call, host)
      BY <3>1 DEF Weighs
    <3> QED
      BY <1>1, <1>3, <2>2, <3>2, <3>3, RecoveryNow
  <2>4. CASE Put(c, [x EXCEPT !.at = "committing", !.doc = pin])
    <3> DEFINE y == [x EXCEPT !.at = "committing", !.doc = pin]
    <3>1. y.at = "committing"
      BY <1>1 DEF CallType
    <3>2. call' = [call EXCEPT ![c] = y]
      BY <2>4 DEF Put
    <3> HIDE DEF y
    <3>3. Weighs(y, pin, late, call, host)
      BY <3>1 DEF Weighs
    <3> QED
      BY <1>1, <1>3, <2>2, <3>2, <3>3, RecoveryNow
  <2> QED
    BY <2>3, <2>4 DEF ReadPinToCommit
<1> QED
  BY <1>2, <1>3 DEF Callers

\* A recovery that ends, or goes on to a loop of its own.
LEMMA RecoveryOnSafe ==
  ASSUME Typed, Typed', Safe, NEW r \in Recoveries,
         call[r].at \notin {"gaveUp", "crashed"},
         \/ End(r, "done") \/ End(r, "crashed")
         \/ Again(r, "commit") \/ Enter(r, "commit"),
         UNCHANGED <<pin, top, admitted, late, host>>
  PROVE  Safe'
<1> DEFINE x == call[r]
<1>1. x \in CallType /\ ~Lost(x)
  <2>1. x \in CallType /\ Knows(r, x, host, admitted)
    BY KnowsNow DEF Callers
  <2> QED
    BY <2>1 DEF Knows, Come, Lost
<1>2. \A s \in {"done", "gaveUp", "crashed", "commit"} :
        s \in AttemptAt \cup RecoveryAt
  BY DEF AttemptAt
<1>3. PICK y : /\ call' = [call EXCEPT ![r] = y]
               /\ y.at \notin {"weigh", "free"}
  <2>1. ASSUME NEW s \in {"done", "crashed"}, End(r, s)
        PROVE  \E y : /\ call' = [call EXCEPT ![r] = y]
                      /\ y.at \notin {"weigh", "free"}
    <3>1. EndOf(x, s).at = s
      BY <1>1, <1>2, EndFields
    <3> QED
      BY <2>1, <3>1 DEF End, Put
  <2>2. CASE Again(r, "commit")
    <3>1. CASE x.round + 1 = MaxRounds
      <4>1. AgainOf(x, "commit") = EndOf(x, "gaveUp")
        BY <3>1 DEF AgainOf
      <4>2. EndOf(x, "gaveUp").at = "gaveUp"
        BY <1>1, <1>2, EndFields
      <4> QED
        BY <2>2, <4>1, <4>2 DEF Again, Put
    <3>2. CASE x.round + 1 # MaxRounds
      <4>1. AgainOf(x, "commit").at = "commit"
        BY <1>1, <1>2, <3>2, AgainFields
      <4> QED
        BY <2>2, <4>1 DEF Again, Put
    <3> QED
      BY <3>1, <3>2
  <2>3. CASE Enter(r, "commit")
    <3>1. EnterOf(x, "commit").at = "commit"
      BY <1>1, <1>2, EnterFields
    <3> QED
      BY <2>3, <3>1 DEF Enter, Put
  <2> QED
    BY <2>1, <2>2, <2>3
<1>4. Weighs(y, pin, late, call, host)
  BY <1>3 DEF Weighs
<1> QED
  BY <1>1, <1>3, <1>4, RecoveryNow

\* A call that has ended owns nothing and may be admitted by no Kernel of its
\* own.
LEMMA EndedIs ==
  ASSUME Typed, NEW a \in Attempts, Ended(a)
  PROVE  ~Live(call[a]) /\ call[a].mode # "owner" /\ ~May(a, call[a])
<1>1. ~Live(call[a]) /\ ~May(a, call[a])
  BY DEF Ended, Live, May
<1>2. Knows(a, call[a], host, admitted)
  BY KnowsNow DEF Callers
<1> QED
  BY <1>1, <1>2 DEF Knows, Come

LEMMA RecoverSafe ==
  ASSUME Typed, Typed', Safe, NEW r \in Recoveries, NEW s \in Assertions,
         Recover(r, s), Truthful(s)
  PROVE  Safe'
<1>1. /\ call[r].at = "idle" /\ s \in host.asserts
      /\ s = "allAttemptsTerminated" => AllTerminated(BuildOf[r])
      /\ UNCHANGED <<pin, top, admitted, late, host>>
  BY DEF Recover, At
<1>2. CASE End(r, "done")
  BY <1>1, <1>2, RecoveryOnSafe
<1>3. CASE /\ pin.phase = "RESERVED" /\ Matches(pin, r)
           /\ Put(r, [NewCall EXCEPT !.at = "weigh", !.assertion = s,
                                     !.doc = pin])
  <2> DEFINE y == [NewCall EXCEPT !.at = "weigh", !.assertion = s, !.doc = pin]
  <2>1. y.assertion = s
    BY DEF NewCall
  <2>2. call' = [call EXCEPT ![r] = y]
    BY <1>3 DEF Put
  <2> HIDE DEF y
  <2>3. Shape(pin, host)
    BY DEF Typed, TypedOf
  <2>4. /\ pin.inFlight \subseteq Attempts
        /\ pin.slot # NoAttempt => pin.slot \in Attempts
    BY <2>3 DEF Shape, PinType
  <2>5. ASSUME s = "allAttemptsTerminated"
        PROVE  \A a \in Attempts : Matches(pin, a) => Ended(a) /\ a \notin late
    BY <1>1, <1>3, <2>5 DEF AllTerminated, Matches
  <2>6. ASSUME s = "allAttemptsTerminated", NEW a \in pin.inFlight
        PROVE  Ended(a)
    BY <2>4, <2>5, <2>6, StandsNow DEF Stands, InFlight
  <2>7. ASSUME <<pin.build, pin.msg>> \in RoleDenied, pin.slot # NoAttempt,
               s # "none"
        PROVE  call[pin.slot].mode # "owner"
    <3>1. CASE s = "allAttemptsTerminated"
      <4>1. pin.slot \in pin.inFlight
        BY <1>1, <2>3, <2>7, <3>1 DEF Shape
      <4> QED
        BY <2>4, <2>6, <3>1, <4>1, EndedIs
    <3>2. CASE s # "allAttemptsTerminated"
      <4>1. WriterTerminated
        BY <2>7, <3>2 DEF Assertions, Truthful
      <4> QED
        BY <2>4, <2>7, <4>1, EndedIs DEF WriterTerminated
    <3> QED
      BY <3>1, <3>2
  <2>8. ASSUME s = "allAttemptsTerminated"
        PROVE  /\ \A a \in Attempts :
                    Matches(pin, a) => ~MayStill(a, call[a], late)
               /\ host.removes => Unsettled(call)
    <3>1. \A a \in Attempts : Matches(pin, a) => ~MayStill(a, call[a], late)
      BY <2>5, <2>8, EndedIs DEF MayStill
    <3>2. pin.tracked
      BY <1>1, <2>3, <2>8 DEF Shape
    <3>3. ASSUME NEW a \in pin.inFlight
          PROVE  ~Live(call[a])
      BY <2>4, <2>6, <2>8, <3>3, EndedIs
    <3>4. Released(pin, call, host)
      BY DEF Safe, SafeOf
    <3> QED
      BY <1>3, <3>1, <3>2, <3>3, <3>4 DEF Released
  <2>9. Weighs(y, pin, late, call, host)
    BY <2>1, <2>7, <2>8 DEF Weighs
  <2>10. ~Lost(call[r])
    BY <1>1 DEF Lost
  <2> QED
    BY <1>1, <2>2, <2>9, <2>10, RecoveryNow
<1> QED
  BY <1>2, <1>3 DEF Recover

LEMMA WeighSafe ==
  ASSUME Typed, Typed', Safe, NEW r \in Recoveries, Weigh(r)
  PROVE  Safe'
<1> DEFINE x == call[r]
<1>1. x.at = "weigh" /\ UNCHANGED <<pin, top, admitted, late, host>>
  BY DEF Weigh, At
<1>2. CASE Enter(r, "commit") \/ End(r, "done")
  BY <1>1, <1>2, RecoveryOnSafe
<1>3. CASE Goto(r, "free")
  <2>1. x \in CallType /\ x.doc \in PinType
    <3>1. x \in CallType
      BY KnowsNow DEF Callers
    <3> QED
      BY <3>1 DEF CallType
  <2> DEFINE y == HoldOf(x, "free", x.doc)
  <2>2. call' = [call EXCEPT ![r] = y]
    BY <1>3, <2>1, GotoHolds DEF Goto, Put
  <2>3. "free" \in Holding
    BY DEF Holding
  <2>4. /\ y.at = "free" /\ y.doc = x.doc /\ y.assertion = x.assertion
        /\ y.outcome = x.outcome
    BY <2>1, <2>3, HoldFields
  <2> HIDE DEF y
  <2>5. Weighs(x, pin, late, call, host)
    BY DEF Safe, SafeOf
  <2>6. Weighs(y, pin, late, call, host)
    BY <1>1, <2>4, <2>5 DEF Weighs
  <2>7. Lost(x) => Lost(y)
    BY <1>1, <2>4 DEF Lost
  <2> QED
    BY <1>1, <2>2, <2>6, <2>7, RecoveryNow
<1> QED
  BY <1>2, <1>3 DEF Weigh

-----------------------------------------------------------------------------
(* The pin changes                                                          *)

\* How another attempt d, as x, looks at q, that replaces p.
Regards(d, x, p, q, l) ==
  /\ d \in q.inFlight => d \in p.inFlight /\ Matches(q, d) /\ q.msg = x.msg
  /\ MayStill(d, x, l) => Guards(q, d, x)
  /\ Owns(d, x, q)

NoneHolds(f, q) == \A c \in Callers : f[c].at \in Holding => f[c].doc # q

LEMMA PinSafe ==
  ASSUME NEW p, NEW t, NEW w, NEW l, NEW f, NEW h, TypedOf(p, t, w, l, f, h),
         SafeOf(p, w, l, f, h),
         NEW c \in Callers, NEW y, y.at \notin Holding, NEW q,
         NEW g, g = [f EXCEPT ![c] = y],
         \A d \in Attempts : d # c => Regards(d, f[d], p, q, l),
         NoneHolds(f, q),
         c \in Attempts => Stands(c, y, q, l, w),
         Admissions(q, w), Released(q, g, h)
  PROVE  SafeOf(q, w, l, g, h)
<1>1. DOMAIN f = Callers
  BY DEF TypedOf
<1>2. \A d \in Callers : g[d] = IF d = c THEN y ELSE f[d]
  BY <1>1
<1>3. ASSUME NEW d \in Attempts
      PROVE  Stands(d, g[d], q, l, w)
  <2>1. CASE d = c
    BY <1>2, <2>1
  <2>2. CASE d # c
    <3>1. g[d] = f[d] /\ d \in Callers
      BY <1>2, <2>2 DEF Callers
    <3>2. Stands(d, f[d], p, l, w) /\ Regards(d, f[d], p, q, l)
      BY <2>2 DEF SafeOf
    <3>3. Removing(f[d], q, w)
      BY <3>1 DEF NoneHolds, Removing, Holding
    <3>4. InFlight(d, f[d], q)
      BY <3>2 DEF Stands, Regards, InFlight
    <3> QED
      BY <3>1, <3>2, <3>3, <3>4 DEF Stands, Regards
  <2> QED
    BY <2>1, <2>2
<1>4. ASSUME NEW r \in Recoveries
      PROVE  Weighs(g[r], q, l, g, h)
  <2>1. g[r].at \in {"weigh", "free"} => g[r].doc # q
    BY <1>2 DEF NoneHolds, Holding, Callers
  <2> QED
    BY <2>1 DEF Weighs
<1> QED
  BY <1>3, <1>4 DEF SafeOf

\* The reservation goes on.
Carries(p, q) ==
  /\ p.phase = "RESERVED" /\ q.phase = "RESERVED" /\ q.build = p.build
  /\ q.msg = p.msg /\ q.tracked = p.tracked

LEMMA CarriesRegards ==
  ASSUME NEW p, NEW q, Carries(p, q), NEW l, NEW w, NEW d, NEW x,
         Stands(d, x, p, l, w),
         d \in q.inFlight <=> d \in p.inFlight,
         x.mode = "owner" /\ Excluded(d, x) /\ p.slot = d => q.slot = d
  PROVE  Regards(d, x, p, q, l)
<1>1. d \in q.inFlight => d \in p.inFlight /\ Matches(q, d) /\ q.msg = x.msg
  BY DEF Stands, InFlight, Matches, Carries
<1>2. MayStill(d, x, l) => Guards(q, d, x)
  BY DEF Stands, Guards, Matches, Carries
<1>3. Owns(d, x, q)
  BY DEF Stands, Owns, OwnedBy, Matches, Carries
<1> QED
  BY <1>1, <1>2, <1>3 DEF Regards

LEMMA AdmissionsOn ==
  ASSUME NEW p, NEW q, NEW w, Admissions(p, w), p.phase = "RESERVED",
         q.phase # "ABSENT", q.build = p.build,
         q.phase = "RESERVED" => q.msg = p.msg
  PROVE  Admissions(q, w)
BY DEF Admissions

LEMMA AdmittedRegards ==
  ASSUME NEW p, NEW q, q.phase = "ADMITTED", q.build = p.build,
         q.inFlight = {}, NEW l, NEW w, NEW d, NEW x, Stands(d, x, p, l, w)
  PROVE  Regards(d, x, p, q, l)
BY DEF Regards, Stands, Guards, Owns, OwnedBy, Matches

\* The call that writes and ends.
LEMMA EndedStands ==
  ASSUME NEW p, NEW q, NEW l, NEW w, NEW c, NEW x, NEW y,
         Stands(c, x, p, l, w), Slides(c, x, y), y.at = "done",
         c \in q.inFlight => c \in p.inFlight /\ Matches(q, c) /\ q.msg = x.msg,
         c \in l => Guards(q, c, x)
  PROVE  Stands(c, y, q, l, w)
<1>1. /\ ~Live(y) /\ ~May(c, y) /\ y.mode = "none" /\ y.msg = x.msg
      /\ x.outcome = "ambiguous" => y.outcome = "ambiguous"
      /\ x.at # "crashed"
  BY DEF Slides, Live, May
<1>2. InFlight(c, y, q)
  BY <1>1 DEF InFlight, Before
<1>3. MayStill(c, y, l) => Guards(q, c, y)
  BY <1>1 DEF MayStill, Guards
<1>4. Late(c, y, l)
  BY <1>1 DEF Stands, Late, Before, Excluded
<1>5. Removing(y, q, w) /\ Owns(c, y, q)
  BY <1>1 DEF Removing, Owns
<1> QED
  BY <1>2, <1>3, <1>4, <1>5 DEF Stands

\* A write: what is to be shown of the pin written.
LEMMA WriteNow ==
  ASSUME Typed, Typed', Current, Safe,
         NEW c \in Callers, NEW y, y.at \notin Holding,
         call' = [call EXCEPT ![c] = y], UNCHANGED <<admitted, late, host>>,
         NEW v, Write(v), NEW q, q = pin',
         \A d \in Attempts : d # c => Regards(d, call[d], pin, q, late),
         c \in Attempts => Stands(c, y, q, late, admitted),
         Admissions(q, admitted), Released(q, call', host)
  PROVE  Safe'
<1>1. q.ver = top + 1
  <2>1. Shape(q, host')
    BY DEF Typed, TypedOf
  <2> QED
    BY <2>1, RevisedVer DEF Write
<1>2. NoneHolds(call, q)
  BY <1>1, CurrentWrite DEF NoneHolds, Typed, Current
<1>3. PICK g : g = call'
  OBVIOUS
<1>4. g = [call EXCEPT ![c] = y] /\ Released(q, g, host)
  BY <1>3
<1>5. SafeOf(q, admitted, late, g, host)
  BY <1>2, <1>4, PinSafe DEF Typed, Safe
<1> QED
  BY <1>3, <1>5 DEF Safe

\* The pin a call writes, of the document it has read.
LEMMA WrittenIs ==
  ASSUME Typed, Current, NEW c \in Callers, Unchanged(c), Fenced(c),
         NEW v, Write(v)
  PROVE  /\ call[c].doc = pin /\ Shape(pin, host)
         /\ pin' = Revised(v, pin.rev + 1, top + 1)
BY UnchangedIs DEF Typed, TypedOf, Write

LEMMA JoinWritesSafe ==
  ASSUME Typed, Typed', Current, Safe, NEW a \in Attempts,
         At(a, "join"), Unchanged(a), Fenced(a), Write(Joined(call[a].doc, a)),
         Put(a, JoinedCall(call[a])), UNCHANGED <<admitted, late, host>>
  PROVE  Safe'
<1> DEFINE x == call[a]
           y == JoinedCall(x)
<1>0. a \in Callers
  BY DEF Callers
<1>1. /\ x.at = "join" /\ Knows(a, x, host, admitted) /\ x \in CallType
      /\ Stands(a, x, pin, late, admitted)
  BY <1>0, KnowsNow, StandsNow DEF At
<1>2. x.msg \in Messages /\ x.outcome = "none" /\ x.mode = "none"
  BY <1>1 DEF Knows, Come
<1>3. /\ x.doc = pin /\ Shape(pin, host)
      /\ pin' = Revised(Joined(pin, a), pin.rev + 1, top + 1)
  BY <1>0, WrittenIs, UnchangedIs
<1>4. Joinable(pin, a, x.msg)
  BY <1>1, <1>3 DEF Knows, Holds, Joinable
<1> DEFINE q == Revised(Joined(pin, a), pin.rev + 1, top + 1)
<1>5. q = pin' /\ pin.rev + 1 \in Nat /\ top + 1 \in Nat
  BY <1>3, NextRevType DEF Write
<1>6. /\ q.phase = "RESERVED" /\ Matches(q, a) /\ q.msg = x.msg
      /\ q.tracked = pin.tracked
      /\ q.slot = (IF pin.slot = NoAttempt THEN a ELSE pin.slot)
      /\ q.inFlight = (IF pin.tracked THEN pin.inFlight \cup {a}
                       ELSE pin.inFlight)
  <2>1. IsJoined(q, pin, a, x.msg)
    BY <1>2, <1>3, <1>4, <1>5, JoinedShape
  <2> QED
    BY <2>1 DEF IsJoined
<1> HIDE DEF q
<1>7. /\ y.at = "kernel" /\ y.msg = x.msg /\ y.registered = pin.tracked
      /\ y.mode = (IF pin.slot = NoAttempt THEN "owner" ELSE "adopt")
      /\ y.outcome = "none"
  BY <1>1, <1>2, <1>3, JoinedFields
<1>8. call' = [call EXCEPT ![a] = y]
  BY DEF Put
<1> HIDE DEF y
<1>9. pin.phase \in {"ABSENT", "RESERVED"} /\ (pin.tracked \/ pin.inFlight = {})
  BY <1>3, <1>4 DEF Joinable, Shape, PinType
<1>10. Stands(a, y, q, late, admitted)
  <2>1. InFlight(a, y, q)
    BY <1>6, <1>7, <1>9 DEF InFlight, Before
  <2>2. Guards(q, a, y)
    BY <1>6, <1>7 DEF Guards
  <2>3. Late(a, y, late)
    BY <1>1 DEF Stands, Late, Before
  <2>4. Removing(y, q, admitted) /\ Owns(a, y, q)
    BY <1>6, <1>7 DEF Removing, Owns, OwnedBy
  <2> QED
    BY <2>1, <2>2, <2>3, <2>4 DEF Stands
<1>11. CASE pin.phase = "ABSENT"
  <2>1. pin.inFlight = {} /\ pin.tracked
    BY <1>3, <1>11 DEF Shape
  <2>2. ASSUME NEW d \in Attempts, d # a
        PROVE  Regards(d, call[d], pin, q, late)
    <3>1. Stands(d, call[d], pin, late, admitted)
      BY StandsNow
    <3>2. ~MayStill(d, call[d], late)
      BY <1>11, <3>1 DEF Stands, Guards
    <3>3. Owns(d, call[d], q)
      BY <1>11, <3>1 DEF Stands, Owns, OwnedBy
    <3>4. d \notin q.inFlight
      BY <1>6, <2>1, <2>2
    <3> QED
      BY <3>2, <3>3, <3>4 DEF Regards
  <2>3. Admissions(q, admitted)
    BY <1>11 DEF Safe, SafeOf, Admissions
  <2>4. Released(q, call', host)
    <3>1. q.inFlight = {a}
      BY <1>6, <2>1
    <3>2. Live(call'[a])
      BY <1>0, <1>7, <1>8 DEF Live, Typed, TypedOf
    <3> QED
      BY <3>1, <3>2 DEF Released
  <2>5. y.at \notin Holding
    BY <1>7 DEF Holding
  <2> QED
    BY <1>0, <1>5, <1>8, <1>10, <2>2, <2>3, <2>4, <2>5, WriteNow
<1>12. CASE pin.phase = "RESERVED"
  <2>1. Matches(pin, a) /\ pin.msg = x.msg
    BY <1>4, <1>12 DEF Joinable
  <2>2. Carries(pin, q)
    BY <1>6, <1>12, <2>1 DEF Carries, Matches
  <2>3. ASSUME NEW d \in Attempts, d # a
        PROVE  Regards(d, call[d], pin, q, late)
    <3>1. d \in q.inFlight <=> d \in pin.inFlight
      BY <1>6, <2>3
    <3>2. pin.slot = d => q.slot = d
      BY <1>6, PinAssumption DEF Callers
    <3> QED
      BY <2>2, <3>1, <3>2, StandsNow, CarriesRegards
  <2>4. Admissions(q, admitted)
    BY <1>6, <1>12, <2>2, AdmissionsOn DEF Safe, SafeOf, Carries
  <2>5. \A d \in Callers : call'[d] = IF d = a THEN y ELSE call[d]
    BY <1>8 DEF Typed, TypedOf
  <2>6. Released(q, call', host)
    <3> SUFFICES ASSUME q.tracked, host.removes, ~Unsettled(call')
                 PROVE  q.inFlight # {} /\ \A d \in q.inFlight : Live(call'[d])
      BY DEF Released
    <3>1. ~Unsettled(call)
      <4>1. ~Lost(x)
        BY <1>1, <1>2 DEF Lost
      <4> QED
        BY <2>5, <4>1 DEF Unsettled
    <3>2. \A d \in pin.inFlight : Live(call[d])
      BY <1>6, <1>12, <3>1 DEF Safe, SafeOf, Released
    <3>3. Live(y) /\ pin.inFlight \subseteq Callers
      BY <1>3, <1>7 DEF Live, Shape, PinType, Callers
    <3>4. q.inFlight = pin.inFlight \cup {a}
      BY <1>6
    <3> QED
      BY <1>0, <2>5, <3>2, <3>3, <3>4
  <2>7. y.at \notin Holding
    BY <1>7 DEF Holding
  <2> QED
    BY <1>0, <1>5, <1>8, <1>10, <2>3, <2>4, <2>6, <2>7, WriteNow
<1> QED
  BY <1>9, <1>11, <1>12

LEMMA JoinSafe ==
  ASSUME Typed, Typed', Current, Safe, NEW a \in Attempts, Fenced(a), Join(a)
  PROVE  Safe'
BY JoinWritesSafe, JoinAgainSafe DEF Join, JoinedCall

\* A call that has read a reservation writes, and ends.
LEMMA DoneFields ==
  ASSUME NEW c, NEW x \in CallType, Live(x)
  PROVE  /\ Slides(c, x, EndOf(x, "done")) /\ EndOf(x, "done").at = "done"
         /\ EndOf(x, "done").at \notin Holding
         /\ EndOf(x, "done").msg = x.msg
         /\ x.outcome = "ambiguous" => Lost(EndOf(x, "done"))
BY EndSlides DEF Slides, Holding

\* Who was lost is lost after the step.
LEMMA LostStays ==
  ASSUME Typed, NEW c \in Callers, NEW y, call' = [call EXCEPT ![c] = y],
         Lost(call[c]) => Lost(y), Unsettled(call)
  PROVE  Unsettled(call')
<1>1. \A d \in Callers : call'[d] = IF d = c THEN y ELSE call[d]
  BY DEF Typed, TypedOf
<1> QED
  BY <1>1 DEF Unsettled

LEMMA CommitWritesSafe ==
  ASSUME Typed, Typed', Current, Safe, NEW c \in Callers,
         At(c, "committing"), Unchanged(c), Fenced(c),
         Write(AsAdmitted(call[c].doc)),
         End(c, "done"), UNCHANGED <<admitted, late, host>>
  PROVE  Safe'
<1> DEFINE x == call[c]
           y == EndOf(x, "done")
           q == Revised(AsAdmitted(pin), pin.rev + 1, top + 1)
<1>1. /\ x.at = "committing" /\ Live(x)
      /\ Knows(c, x, host, admitted) /\ x \in CallType
  BY KnowsNow DEF At, Live
<1>2. x.doc = pin /\ Shape(pin, host)
  BY UnchangedIs DEF Typed, TypedOf
<1>3. pin.phase = "RESERVED" /\ Matches(pin, c)
  BY <1>1, <1>2 DEF Knows, Holds, Holding
<1>4. q = pin' /\ pin.rev + 1 \in Nat /\ top + 1 \in Nat
  BY <1>2, NextRevType DEF Write
<1>5. IsAdmitted(q, pin)
  BY <1>3, <1>4, AdmittedShape
<1>6. /\ Slides(c, x, y) /\ y.at = "done" /\ y.at \notin Holding
  BY <1>1, DoneFields
<1>7. call' = [call EXCEPT ![c] = y]
  BY DEF End, Put
<1> HIDE DEF q, y
<1>8. q.phase = "ADMITTED" /\ q.build = pin.build /\ q.inFlight = {}
  BY <1>5 DEF IsAdmitted
<1>9. \A d \in Attempts : d # c => Regards(d, call[d], pin, q, late)
  BY <1>8, StandsNow, AdmittedRegards
<1>10. c \in Attempts => Stands(c, y, q, late, admitted)
  <2>1. Guards(q, c, x)
    BY <1>3, <1>8 DEF Guards, Matches
  <2> QED
    BY <1>6, <1>8, <2>1, StandsNow, EndedStands
<1>11. Admissions(q, admitted)
  BY <1>3, <1>8, AdmissionsOn DEF Safe, SafeOf
<1>12. Released(q, call', host)
  BY <1>8 DEF Released
<1> QED
  BY <1>2, <1>4, <1>6, <1>7, <1>9, <1>10, <1>11, <1>12, WriteNow

LEMMA CommitSafe ==
  ASSUME Typed, Typed', Current, Safe, NEW c \in Callers, Fenced(c), Commit(c)
  PROVE  Safe'
<1>1. call[c].at = "committing" /\ Live(call[c])
  BY DEF Commit, At, Live
<1>2. CASE Unchanged(c) /\ Write(AsAdmitted(call[c].doc)) /\ End(c, "done")
  BY <1>2, CommitWritesSafe DEF Commit
<1>3. CASE Again(c, "commit") /\ UNCHANGED <<pin, top>>
  BY <1>1, <1>3, WayOnSafe, RecoveryOnSafe DEF Commit, Callers
<1> QED
  BY <1>2, <1>3 DEF Commit

LEMMA OthersOfIs ==
  ASSUME NEW c, NEW x, NEW d
  PROVE  /\ OthersOf(c, x, d) \subseteq d.inFlight
         /\ \A e : e # c => (e \in OthersOf(c, x, d) <=> e \in d.inFlight)
         /\ x.outcome = "ambiguous" \/ ~d.tracked =>
              OthersOf(c, x, d) = d.inFlight
BY DEF OthersOf

LEMMA DeregisterWritesSafe ==
  ASSUME Typed, Typed', Current, Safe, NEW a \in Attempts,
         call[a].at \in {"deregister", "leave"}, Unchanged(a), Fenced(a),
         Write(Deregistered(call[a].doc, a)),
         End(a, "done"), UNCHANGED <<admitted, late, host>>
  PROVE  Safe'
<1> DEFINE x == call[a]
           y == EndOf(x, "done")
           q == Revised(Deregistered(pin, a), pin.rev + 1, top + 1)
<1>1. /\ Live(x) /\ a \in Callers /\ Knows(a, x, host, admitted)
      /\ x \in CallType /\ Stands(a, x, pin, late, admitted)
  BY AttemptNow, StandsNow DEF Live
<1>2. x.doc = pin /\ Shape(pin, host)
  BY <1>1, UnchangedIs DEF Typed, TypedOf
<1>3. pin.phase = "RESERVED" /\ Matches(pin, a)
  BY <1>1, <1>2 DEF Knows, Holds, Holding
<1>4. q = pin' /\ pin.rev + 1 \in Nat /\ top + 1 \in Nat
  BY <1>2, NextRevType DEF Write
<1>5. IsDeregistered(q, pin, a, x)
  BY <1>2, <1>3, <1>4, DeregisteredShape
<1>6. /\ Slides(a, x, y) /\ y.at = "done" /\ y.at \notin Holding
      /\ x.outcome = "ambiguous" => Lost(y)
  BY <1>1, DoneFields
<1>7. call' = [call EXCEPT ![a] = y]
  BY DEF End, Put
<1> HIDE DEF q, y
<1>8. /\ Carries(pin, q) /\ q.phase = "RESERVED"
      /\ q.slot = (IF pin.slot = a THEN NoAttempt ELSE pin.slot)
      /\ q.inFlight = OthersOf(a, x, pin)
  BY <1>3, <1>5 DEF IsDeregistered, Carries
<1>9. ASSUME NEW d \in Attempts, d # a
      PROVE  Regards(d, call[d], pin, q, late)
  <2>1. d \in q.inFlight <=> d \in pin.inFlight
    BY <1>8, <1>9, OthersOfIs
  <2>2. pin.slot = d => q.slot = d
    BY <1>8, <1>9
  <2> QED
    BY <1>8, <2>1, <2>2, StandsNow, CarriesRegards
<1>10. Stands(a, y, q, late, admitted)
  <2>1. a \in q.inFlight =>
          a \in pin.inFlight /\ Matches(q, a) /\ q.msg = x.msg
    BY <1>1, <1>3, <1>8, OthersOfIs DEF Stands, InFlight, Carries, Matches
  <2>2. ASSUME a \in late
        PROVE  Guards(q, a, x)
    <3>1. Guards(pin, a, x) /\ (x.outcome = "ambiguous" \/ x.at = "crashed")
      BY <1>1, <2>2 DEF Stands, Late, MayStill
    <3>2. q.inFlight = pin.inFlight
      BY <1>1, <1>8, <3>1, OthersOfIs DEF Live
    <3> QED
      BY <1>8, <3>1, <3>2 DEF Guards, Carries, Matches
  <2> QED
    BY <1>1, <1>6, <2>1, <2>2, EndedStands
<1>11. Admissions(q, admitted)
  BY <1>8, AdmissionsOn DEF Safe, SafeOf, Carries
<1>12. Released(q, call', host)
  <2> SUFFICES ASSUME q.tracked, host.removes, ~Unsettled(call')
               PROVE  q.inFlight # {} /\ \A d \in q.inFlight : Live(call'[d])
    BY DEF Released
  <2>1. \A d \in Callers : call'[d] = IF d = a THEN y ELSE call[d]
    BY <1>7 DEF Typed, TypedOf
  <2>2. x.outcome # "ambiguous"
    BY <1>1, <1>6, <2>1 DEF Unsettled
  <2>3. ~Lost(x)
    BY <1>1, <2>2 DEF Lost, Live
  <2>4. ~Unsettled(call)
    BY <2>1, <2>3 DEF Unsettled
  <2>5. pin.tracked /\ pin.phase = "RESERVED"
    BY <1>8 DEF Carries
  <2>6. pin.inFlight # {} /\ \A d \in pin.inFlight : Live(call[d])
    BY <2>4, <2>5 DEF Safe, SafeOf, Released
  <2>7. q.inFlight = pin.inFlight \ {a}
    BY <1>8, <2>2, <2>5 DEF OthersOf
  <2>8. pin.inFlight \subseteq Callers
    BY <1>2 DEF Shape, PinType, Callers
  <2>9. \A d \in q.inFlight : Live(call'[d])
    BY <2>1, <2>6, <2>7, <2>8
  <2>10. q.inFlight # {}
    <3> SUFFICES ASSUME q.inFlight = {}
                 PROVE  FALSE
      OBVIOUS
    <3>1. pin.inFlight = {a}
      BY <2>6, <2>7
    <3>2. x.at = "deregister"
      BY <1>1 DEF Knows, Holds
    <3>3. x.outcome \in {"denied", "roleDenied"}
      BY <1>1, <2>2, <3>2 DEF Knows, Come, Concluding, Unadmitted
    <3>4. x.registered
      BY <1>1, <3>1 DEF Stands, InFlight
    <3>5. pin.slot \in {a, NoAttempt}
      BY <1>2, <2>5, <3>1 DEF Shape
    <3>6. Last(a, x, pin)
      BY <1>8, <2>5, <3>1, <3>4, <3>5 DEF Last
    <3> QED
      BY <1>1, <1>2, <3>2, <3>3, <3>6 DEF Knows, Holds, Comp
  <2> QED
    BY <2>9, <2>10
<1> QED
  BY <1>1, <1>2, <1>4, <1>6, <1>7, <1>9, <1>10, <1>11, <1>12, WriteNow

LEMMA DeregisterSafe ==
  ASSUME Typed, Typed', Current, Safe, NEW a \in Attempts, Fenced(a),
         Deregister(a)
  PROVE  Safe'
<1>1. call[a].at \in {"deregister", "leave"} /\ Live(call[a])
  BY DEF Deregister, Live
<1>2. CASE /\ Unchanged(a) /\ Write(Deregistered(call[a].doc, a))
           /\ End(a, "done")
  BY <1>1, <1>2, DeregisterWritesSafe DEF Deregister
<1>3. CASE Again(a, "conclude") /\ UNCHANGED <<pin, top>>
  BY <1>1, <1>3, WayOnSafe DEF Deregister
<1>4. CASE At(a, "leave") /\ End(a, "done") /\ UNCHANGED <<pin, top>>
  <2>1. ~host.removes
    BY <1>1, <1>4, AttemptNow DEF Knows, Holds, At
  <2> QED
    BY <1>1, <1>4, <2>1, EndSafe DEF Deregister
<1> QED
  BY <1>2, <1>3, <1>4 DEF Deregister

LEMMA FreeWritesSafe ==
  ASSUME Typed, Typed', Current, Safe, NEW r \in Recoveries,
         At(r, "free"), Unchanged(r), Fenced(r),
         Write(Freed(call[r].doc, call[r].assertion)),
         End(r, "done"), UNCHANGED <<admitted, late, host>>
  PROVE  Safe'
<1> DEFINE x == call[r]
           y == EndOf(x, "done")
           s == x.assertion
           q == Revised(Freed(pin, s), pin.rev + 1, top + 1)
<1>1. /\ x.at = "free" /\ r \in Callers /\ r \notin Attempts /\ Live(x)
      /\ Knows(r, x, host, admitted) /\ x \in CallType
  BY KnowsNow, PinAssumption DEF At, Callers, Live
<1>2. x.doc = pin /\ Shape(pin, host)
  BY <1>1, UnchangedIs DEF Typed, TypedOf
<1>3. pin.phase = "RESERVED" /\ s \in host.asserts /\ s # "none"
  BY <1>1, <1>2 DEF Knows, Holds, Holding
<1>4. q = pin' /\ pin.rev + 1 \in Nat /\ top + 1 \in Nat
  BY <1>2, NextRevType DEF Write
<1>5. IsFreed(q, pin, s)
  BY <1>2, <1>3, <1>4, FreedShape
<1>6. y.at = "done" /\ y.at \notin Holding
  BY <1>1, DoneFields
<1>7. call' = [call EXCEPT ![r] = y]
  BY DEF End, Put
<1> HIDE DEF q, y
<1>8. /\ Carries(pin, q) /\ q.phase = "RESERVED" /\ q.slot = NoAttempt
      /\ s # "allAttemptsTerminated" => q.inFlight = pin.inFlight
      /\ s = "allAttemptsTerminated" => q.inFlight = {}
  BY <1>3, <1>5 DEF IsFreed, Carries
<1>9. Weighs(x, pin, late, call, host)
  BY DEF Safe, SafeOf
<1>10. /\ <<pin.build, pin.msg>> \in RoleDenied /\ pin.slot # NoAttempt =>
            call[pin.slot].mode # "owner"
       /\ s = "allAttemptsTerminated" =>
            /\ \A a \in Attempts :
                 Matches(pin, a) => ~MayStill(a, call[a], late)
            /\ host.removes => Unsettled(call)
  BY <1>1, <1>2, <1>3, <1>9 DEF Weighs
<1>11. ASSUME NEW d \in Attempts
       PROVE  Regards(d, call[d], pin, q, late)
  <2>1. d # NoAttempt
    BY PinAssumption DEF Callers
  <2>2. ~(call[d].mode = "owner" /\ Excluded(d, call[d]))
    BY <1>3, <1>10, <2>1, StandsNow DEF Stands, Owns, OwnedBy, Matches, Excluded
  <2>3. CASE s # "allAttemptsTerminated"
    BY <1>8, <2>2, <2>3, StandsNow, CarriesRegards
  <2>4. CASE s = "allAttemptsTerminated"
    <3>1. ~MayStill(d, call[d], late)
      BY <1>10, <2>4, StandsNow DEF Stands, Guards
    <3>2. Owns(d, call[d], q)
      BY <2>2 DEF Owns
    <3>3. d \notin q.inFlight
      BY <1>8, <2>4
    <3> QED
      BY <3>1, <3>2, <3>3 DEF Regards
  <2> QED
    BY <2>3, <2>4
<1>12. Admissions(q, admitted)
  BY <1>8, AdmissionsOn DEF Safe, SafeOf, Carries
<1>13. Released(q, call', host)
  <2>1. ~Lost(x)
    BY <1>1 DEF Knows, Come, Lost
  <2>2. Unsettled(call) => Unsettled(call')
    BY <1>1, <1>7, <2>1, LostStays
  <2>3. \A d \in Callers : call'[d] = IF d = r THEN y ELSE call[d]
    BY <1>7 DEF Typed, TypedOf
  <2>4. pin.inFlight \subseteq Attempts
    BY <1>2 DEF Shape, PinType
  <2>5. \A d \in pin.inFlight : call'[d] = call[d]
    BY <1>1, <2>3, <2>4 DEF Callers
  <2>6. Released(pin, call, host)
    BY DEF Safe, SafeOf
  <2>7. CASE s = "allAttemptsTerminated"
    BY <1>10, <2>2, <2>7 DEF Released
  <2>8. CASE s # "allAttemptsTerminated"
    BY <1>8, <2>2, <2>5, <2>6, <2>8 DEF Released, Carries
  <2> QED
    BY <2>7, <2>8
<1> QED
  BY <1>1, <1>4, <1>6, <1>7, <1>11, <1>12, <1>13, WriteNow

LEMMA FreeSafe ==
  ASSUME Typed, Typed', Current, Safe, NEW r \in Recoveries, Fenced(r),
         Free(r)
  PROVE  Safe'
<1>1. CASE Unchanged(r) /\ Write(Freed(call[r].doc, call[r].assertion))
  BY <1>1, FreeWritesSafe DEF Free
<1>2. CASE UNCHANGED <<pin, top>>
  BY <1>2, RecoveryOnSafe DEF Free, At
<1> QED
  BY <1>1, <1>2 DEF Free

\* The heart of the protocol: while an attempt that has found that it may
\* remove the pin holds the pin, no submit may still be admitted, and no other
\* attempt owns the reservation.  It is the last one in flight, or the owner
\* of a reservation whose intent excludes the caller role, which excludes it
\* of every submit of that intent.
LEMMA NoneMay ==
  ASSUME Typed, Safe, NEW a \in Attempts,
         call[a].at = "remove", call[a].doc = pin
  PROVE  /\ pin.phase = "RESERVED" /\ pin.msg = call[a].msg
         /\ \A d \in Attempts :
              /\ ~MayStill(d, call[d], late)
              /\ d # a /\ Excluded(d, call[d]) => call[d].mode # "owner"
<1> DEFINE x == call[a]
<1>1. Live(x)
  BY DEF Live
<1>2. /\ Knows(a, x, host, admitted) /\ Stands(a, x, pin, late, admitted)
      /\ Shape(pin, host)
  BY <1>1, AttemptNow, StandsNow DEF Typed, TypedOf
<1>3. pin.phase = "RESERVED" /\ Matches(pin, a) /\ Comp(a, x, pin)
  BY <1>2 DEF Knows, Holds, Holding
<1>4. ~May(a, x) /\ a \notin late
  <2>1. x.outcome # "ambiguous"
    BY <1>3 DEF Comp
  <2> QED
    BY <1>2, <2>1 DEF May, Stands, Late
<1>5. CASE Last(a, x, pin)
  <2>1. pin.tracked /\ pin.inFlight = {a} /\ pin.slot \in {a, NoAttempt}
    BY <1>3, <1>5 DEF Last, OthersOf, Comp
  <2>2. pin.msg = x.msg
    BY <1>2, <2>1 DEF Stands, InFlight
  <2>3. ASSUME NEW d \in Attempts
        PROVE  ~MayStill(d, call[d], late)
    BY <1>3, <1>4, <2>1, StandsNow DEF Stands, Guards, MayStill
  <2>4. ASSUME NEW d \in Attempts, d # a, Excluded(d, call[d])
        PROVE  call[d].mode # "owner"
    <3>1. d # NoAttempt
      BY PinAssumption DEF Callers
    <3> QED
      BY <1>3, <2>1, <2>4, <3>1, StandsNow DEF Stands, Owns, OwnedBy
  <2> QED
    BY <1>3, <2>2, <2>3, <2>4
<1>6. CASE x.outcome = "roleDenied" /\ x.mode = "owner"
  <2>1. Excluded(a, x)
    BY <1>2, <1>6 DEF Knows, Come
  <2>3. pin.slot = a /\ pin.msg = x.msg
    BY <1>2, <1>3, <1>6, <2>1 DEF Stands, Owns, OwnedBy
  <2>4. ASSUME NEW d \in Attempts
        PROVE  ~MayStill(d, call[d], late)
    <3>1. SUFFICES ASSUME MayStill(d, call[d], late)
                   PROVE  FALSE
      OBVIOUS
    <3>2. Guards(pin, d, call[d]) /\ ~Excluded(d, call[d])
      BY <3>1, StandsNow DEF Stands, Late, MayStill, May
    <3>3. BuildOf[d] = BuildOf[a] /\ call[d].msg = x.msg
      BY <1>3, <2>3, <3>2 DEF Guards, Matches
    <3> QED
      BY <2>1, <3>2, <3>3 DEF Excluded
  <2>5. ASSUME NEW d \in Attempts, d # a, Excluded(d, call[d])
        PROVE  call[d].mode # "owner"
    BY <1>3, <2>3, <2>5, StandsNow DEF Stands, Owns, OwnedBy
  <2> QED
    BY <1>3, <2>3, <2>4, <2>5
<1> QED
  BY <1>3, <1>5, <1>6 DEF Comp

LEMMA RemoveWritesSafe ==
  ASSUME Typed, Typed', Current, Safe,
         NEW a \in Attempts, At(a, "remove"), Unchanged(a), Fenced(a),
         pin' = NoPin,
         End(a, "done"), UNCHANGED <<top, admitted, late, host>>
  PROVE  Safe'
<1> DEFINE x == call[a]
           y == EndOf(x, "done")
<1>1. /\ x.at = "remove" /\ Live(x) /\ a \in Callers /\ x \in CallType
      /\ Stands(a, x, pin, late, admitted)
  BY AttemptNow, StandsNow DEF Live, At
<1>2. x.doc = pin
  BY <1>1, UnchangedIs
<1>3. /\ pin.phase = "RESERVED" /\ pin.msg = x.msg
      /\ \A d \in Attempts :
           /\ ~MayStill(d, call[d], late)
           /\ d # a /\ Excluded(d, call[d]) => call[d].mode # "owner"
  BY <1>1, <1>2, NoneMay
<1>4. /\ Slides(a, x, y) /\ y.at = "done" /\ y.at \notin Holding
  BY <1>1, DoneFields
<1>5. call' = [call EXCEPT ![a] = y]
  BY DEF End, Put
<1> HIDE DEF y
<1>6. NoPin.phase = "ABSENT" /\ NoPin.inFlight = {}
  BY DEF NoPin
<1>7. \A d \in Attempts : d # a => Regards(d, call[d], pin, NoPin, late)
  BY <1>3, <1>6 DEF Regards, Owns
<1>8. Stands(a, y, NoPin, late, admitted)
  <2>1. a \notin late
    BY <1>3 DEF MayStill
  <2> QED
    BY <1>1, <1>4, <1>6, <2>1, EndedStands
<1>9. Admissions(NoPin, admitted)
  <2>1. admitted[x.msg] = NoBuild
    BY <1>1, <1>2 DEF Stands, Removing
  <2> QED
    BY <1>3, <2>1 DEF Safe, SafeOf, Admissions
<1>10. NoneHolds(call, NoPin)
  BY <1>6, KnowsNow DEF NoneHolds, Knows, Holds
<1>11. PICK g : g = call'
  OBVIOUS
<1>12. g = [call EXCEPT ![a] = y] /\ Released(NoPin, g, host)
  BY <1>5, <1>6, <1>11 DEF Released
<1>13. SafeOf(NoPin, admitted, late, g, host)
  BY <1>1, <1>4, <1>7, <1>8, <1>9, <1>10, <1>12, PinSafe DEF Typed, Safe
<1> QED
  BY <1>11, <1>13 DEF Safe

LEMMA RemoveSafe ==
  ASSUME Typed, Typed', Current, Safe,
         NEW a \in Attempts, Fenced(a), Remove(a)
  PROVE  Safe'
<1>1. call[a].at = "remove" /\ Live(call[a])
  BY DEF Remove, At, Live
<1>2. CASE Unchanged(a) /\ pin' = NoPin /\ End(a, "done")
  BY <1>2, RemoveWritesSafe DEF Remove
<1>3. CASE Again(a, "conclude") /\ UNCHANGED pin
  BY <1>1, <1>3, WayOnSafe DEF Remove
<1> QED
  BY <1>2, <1>3 DEF Remove

-----------------------------------------------------------------------------
(* What is admitted, and what may land late                                 *)

\* A submit that may be admitted is, over the pin that stands for it.
LEMMA WitnessSafe ==
  ASSUME Typed, Safe,
         NEW a \in Attempts, MayStill(a, call[a], late),
         call[a].msg \in Messages
  PROVE  SafeOf(pin, Admitting(admitted, call[a].msg, BuildOf[a]), late, call,
                host)
<1> DEFINE w == Admitting(admitted, call[a].msg, BuildOf[a])
<1>1. Guards(pin, a, call[a])
  BY StandsNow DEF Stands
<1>2. \A m \in Messages :
        w[m] = IF m = call[a].msg /\ admitted[call[a].msg] = NoBuild
               THEN BuildOf[a] ELSE admitted[m]
  <2>1. /\ admitted \in [Messages -> Builds \cup {NoBuild}]
        /\ BuildOf[a] \in Builds
    BY PinAssumption DEF Typed, TypedOf, Callers
  <2> QED
    BY <2>1, AdmittingType
<1> HIDE DEF w
<1>3. ASSUME NEW d \in Attempts
      PROVE  Stands(d, call[d], pin, late, w)
  <2>1. ~(call[d].at = "remove" /\ call[d].doc = pin)
    BY NoneMay
  <2> QED
    BY <2>1, StandsNow DEF Stands, Removing
<1>4. Admissions(pin, w)
  BY <1>1, <1>2 DEF Safe, SafeOf, Admissions, Guards, Matches
<1>5. SafeOf(pin, w, late, call, host)
  BY <1>3, <1>4 DEF Safe, SafeOf
<1> QED
  BY <1>5 DEF w

LEMMA LateDrops ==
  ASSUME NEW p, NEW w, NEW l, NEW f, NEW h, SafeOf(p, w, l, f, h),
         NEW k, k \subseteq l
  PROVE  SafeOf(p, w, k, f, h)
<1>1. \A a, x : MayStill(a, x, k) => MayStill(a, x, l)
  BY DEF MayStill
<1>2. \A a \in Attempts : Stands(a, f[a], p, k, w)
  BY <1>1 DEF SafeOf, Stands, Late
<1>3. \A r \in Recoveries : Weighs(f[r], p, k, f, h)
  BY <1>1 DEF SafeOf, Weighs
<1> QED
  BY <1>2, <1>3 DEF SafeOf

\* The write of an evaluation that has lost its caller may land later.
LEMMA LateSafe ==
  ASSUME NEW p, NEW t, NEW w, NEW l, NEW f, NEW h, TypedOf(p, t, w, l, f, h),
         SafeOf(p, w, l, f, h),
         NEW a \in Attempts, f[a].at = "evaluating", NEW y,
         Knows(a, y, h, w), Slides(a, f[a], y), Lost(y),
         y.at \in {"settle", "crashed"},
         NEW g, g = [f EXCEPT ![a] = y], NEW k, k = l \cup {a}
  PROVE  SafeOf(p, w, k, g, h)
<1>0. a \in Callers /\ a \notin Recoveries
  BY PinAssumption DEF Callers
<1>1. SafeOf(p, w, l, g, h)
  <2>1. Removing(y, p, w)
    BY DEF Removing
  <2> QED
    BY <2>1, SlideSafe
<1>2. \A d \in Callers : g[d] = IF d = a THEN y ELSE f[d]
  BY DEF TypedOf
<1>3. ~Excluded(a, f[a]) /\ Stands(a, f[a], p, l, w)
  BY <1>0 DEF TypedOf, Knows, Come, SafeOf
<1>4. May(a, f[a]) /\ Guards(p, a, f[a])
  BY <1>3 DEF May, Stands, MayStill
<1>5. ASSUME NEW d \in Attempts
      PROVE  Stands(d, g[d], p, k, w)
  <2>1. Stands(d, g[d], p, l, w)
    BY <1>1 DEF SafeOf
  <2>2. CASE d = a
    <3>1. g[d] = y
      BY <1>0, <1>2, <2>2
    <3>2. Guards(p, a, y)
      BY <1>4 DEF Guards, Slides
    <3>3. Late(a, y, k)
      BY <1>3 DEF Late, Lost, Before, Slides, Excluded
    <3> QED
      BY <2>1, <2>2, <3>1, <3>2, <3>3 DEF Stands
  <2>3. CASE d # a
    BY <2>1, <2>3 DEF Stands, MayStill, Late
  <2> QED
    BY <2>2, <2>3
<1>6. ASSUME NEW r \in Recoveries
      PROVE  Weighs(g[r], p, k, g, h)
  <2>1. Weighs(g[r], p, l, g, h) /\ g[r] = f[r] /\ Weighs(f[r], p, l, f, h)
    BY <1>0, <1>1, <1>2 DEF SafeOf, Callers
  <2>2. ~(/\ f[r].at \in {"weigh", "free"} /\ f[r].doc = p
          /\ f[r].assertion = "allAttemptsTerminated")
    BY <1>4, <2>1 DEF Weighs, Guards, MayStill
  <2> QED
    BY <2>1, <2>2 DEF Weighs
<1> QED
  BY <1>1, <1>5, <1>6 DEF SafeOf

\* An attempt whose submit the Kernel evaluates.
LEMMA EvaluatingNow ==
  ASSUME Typed, NEW a \in Attempts, At(a, "evaluating")
  PROVE  /\ call[a].at = "evaluating" /\ Live(call[a]) /\ call[a] \in CallType
         /\ call[a].msg \in Messages /\ call[a].outcome = "none"
         /\ MayStill(a, call[a], late)
<1>1. call[a].at = "evaluating" /\ Live(call[a])
  BY DEF At, Live
<1>2. Knows(a, call[a], host, admitted) /\ call[a] \in CallType
  BY <1>1, AttemptNow
<1> QED
  BY <1>1, <1>2 DEF Knows, Come, MayStill, May

\* The answer to an evaluation that may have been admitted.
LEMMA AnsweredSafe ==
  ASSUME Typed, Typed', Safe,
         NEW a \in Attempts, At(a, "evaluating"),
         NEW o \in {"admitted", "ambiguous"}, Answer(a, o),
         admitted' = admitted \/ Admits(call[a].msg, BuildOf[a]),
         UNCHANGED <<pin, top, late, host>>
  PROVE  Safe'
<1> DEFINE x == call[a]
           y == [x EXCEPT !.at = "settle", !.outcome = o]
<1>1. /\ x.at = "evaluating" /\ Live(x) /\ x \in CallType
      /\ x.msg \in Messages /\ x.outcome = "none"
      /\ MayStill(a, x, late) /\ a \in Callers
  BY EvaluatingNow DEF Callers
<1>2. Slides(a, x, y) /\ y.at = "settle"
  <2>1. Slides(a, x, y)
    BY <1>1, KernelSlides
  <2>2. y.at = "settle"
    BY <1>1 DEF CallType
  <2> QED
    BY <2>1, <2>2
<1>3. call' = [call EXCEPT ![a] = y]
  BY DEF Answer, Put
<1> HIDE DEF y
<1>4. PICK w : w = admitted'
  OBVIOUS
<1>5. /\ TypedOf(pin, top, w, late, call, host)
      /\ SafeOf(pin, w, late, call, host)
  <2>1. CASE admitted' = admitted
    BY <1>4, <2>1 DEF Typed, Safe
  <2>2. CASE Admits(x.msg, BuildOf[a])
    <3>1. w = Admitting(admitted, x.msg, BuildOf[a])
      BY <1>1, <1>4, <2>2, AdmitsIs
    <3>2. BuildOf[a] \in Builds
      BY <1>1, PinAssumption
    <3> QED
      BY <1>1, <3>1, <3>2, TypedWitness, WitnessSafe DEF Typed
  <2> QED
    BY <2>1, <2>2
<1>6. Knows(a, y, host, w)
  <2>1. call'[a] = y
    BY <1>1, <1>3 DEF Typed, TypedOf
  <2>2. Knows(a, call'[a], host', admitted')
    BY <1>1 DEF Typed, TypedOf
  <2> QED
    BY <1>4, <2>1, <2>2
<1>7. Removing(y, pin, w) /\ Live(y)
  BY <1>2 DEF Removing, Live
<1>8. SafeOf(pin, w, late, [call EXCEPT ![a] = y], host)
  BY <1>2, <1>5, <1>6, <1>7, SlideSafe
<1> QED
  BY <1>3, <1>4, <1>8 DEF Safe

\* The caller of an evaluation is gone, or knows nothing, and the write of the
\* Kernel is on its way.
LEMMA OnItsWaySafe ==
  ASSUME Typed, Typed', Safe, NEW a \in Attempts, At(a, "evaluating"),
         NEW y, Slides(a, call[a], y), Lost(y), y.at \in {"settle", "crashed"},
         call' = [call EXCEPT ![a] = y], late' = late \cup {a},
         UNCHANGED <<pin, top, admitted, host>>
  PROVE  Safe'
<1>1. a \in Callers
  BY DEF Callers
<1>2. Knows(a, y, host, admitted)
  BY <1>1, KnowsNext
<1>3. PICK g, k : g = [call EXCEPT ![a] = y] /\ k = late \cup {a}
  OBVIOUS
<1>4. SafeOf(pin, admitted, k, g, host)
  BY <1>2, <1>3, LateSafe DEF Typed, Safe, At
<1> QED
  BY <1>3, <1>4 DEF Safe

LEMMA AdmitSafe ==
  ASSUME Typed, Typed', Safe, NEW a \in Attempts, Admit(a)
  PROVE  Safe'
BY AnsweredSafe DEF Admit

LEMMA FailSafe ==
  ASSUME Typed, Typed', Safe, NEW a \in Attempts, Fail(a)
  PROVE  Safe'
<1> DEFINE x == call[a]
           y == [x EXCEPT !.at = "settle", !.outcome = "ambiguous"]
<1>1. /\ At(a, "evaluating") /\ Answer(a, "ambiguous")
      /\ UNCHANGED <<pin, top, host>>
  BY DEF Fail
<1>2. CASE /\ admitted' = admitted \/ Admits(x.msg, BuildOf[a])
           /\ UNCHANGED late
  BY <1>1, <1>2, AnsweredSafe
<1>3. CASE late' = late \cup {a} /\ UNCHANGED admitted
  <2>1. x \in CallType /\ x.at = "evaluating"
    BY <1>1, EvaluatingNow
  <2>2. Slides(a, x, y)
    BY <2>1, KernelSlides
  <2>3. y.at = "settle" /\ y.outcome = "ambiguous"
    BY <2>1 DEF CallType
  <2>4. call' = [call EXCEPT ![a] = y]
    BY <1>1 DEF Answer, Put
  <2> HIDE DEF y
  <2>5. Lost(y)
    BY <2>3 DEF Lost
  <2> QED
    BY <1>1, <1>3, <2>2, <2>3, <2>4, <2>5, OnItsWaySafe
<1> QED
  BY <1>2, <1>3 DEF Fail

LEMMA LandLateSafe ==
  ASSUME Typed, Typed', Safe, NEW a \in Attempts, LandLate(a)
  PROVE  Safe'
<1>1. /\ a \in late /\ late' = late \ {a}
      /\ UNCHANGED <<pin, top, call, host>>
      /\ admitted' = admitted \/ Admits(call[a].msg, BuildOf[a])
  BY DEF LandLate
<1>2. MayStill(a, call[a], late)
  BY <1>1 DEF MayStill
<1>3. call[a].msg \in Messages
  <2>1. call[a].at # "idle"
    BY <1>1, StandsNow DEF Stands, Late, Before
  <2>2. Knows(a, call[a], host, admitted)
    BY KnowsNow DEF Callers
  <2> QED
    BY <2>1, <2>2 DEF Knows, Come
<1>4. PICK w : w = admitted'
  OBVIOUS
<1>5. SafeOf(pin, w, late, call, host)
  <2>1. CASE admitted' = admitted
    BY <1>4, <2>1 DEF Safe
  <2>2. CASE Admits(call[a].msg, BuildOf[a])
    <3>1. w = Admitting(admitted, call[a].msg, BuildOf[a])
      BY <1>3, <1>4, <2>2, AdmitsIs
    <3> QED
      BY <1>2, <1>3, <3>1, WitnessSafe
  <2> QED
    BY <1>1, <2>1, <2>2
<1>6. late \ {a} \subseteq late
  OBVIOUS
<1>7. SafeOf(pin, w, late \ {a}, call, host)
  BY <1>5, <1>6, LateDrops
<1> QED
  BY <1>1, <1>4, <1>7 DEF Safe

LEMMA CrashSafe ==
  ASSUME Typed, Typed', Safe, NEW c \in Callers, Crash(c)
  PROVE  Safe'
<1> DEFINE x == call[c]
           y == EndOf(x, "crashed")
<1>1. Live(x) /\ End(c, "crashed") /\ UNCHANGED <<pin, top, admitted, host>>
  BY DEF Crash, Ended, Live
<1>2. CASE c \in Recoveries
  <2>1. late' = late
    BY <1>2, PinAssumption DEF Crash
  <2>2. x.at \notin {"gaveUp", "crashed"}
    BY <1>1 DEF Live
  <2> QED
    BY <1>1, <1>2, <2>1, <2>2, RecoveryOnSafe
<1>3. CASE c \in Attempts
  <2>1. x \in CallType
    BY <1>1, <1>3, AttemptNow
  <2>2. Slides(c, x, y) /\ y.at = "crashed"
    BY <1>1, <2>1, EndSlides
  <2>3. call' = [call EXCEPT ![c] = y]
    BY <1>1 DEF End, Put
  <2> HIDE DEF y
  <2>4. Lost(y)
    BY <2>2 DEF Lost
  <2>5. CASE late' = late
    BY <1>1, <1>3, <2>2, <2>3, <2>4, <2>5, SlideNow
  <2>6. CASE At(c, "evaluating") /\ late' = late \cup {c}
    BY <1>1, <1>3, <2>2, <2>3, <2>4, <2>6, OnItsWaySafe
  <2>7. late' = late \/ (At(c, "evaluating") /\ late' = late \cup {c})
    <3>1. CASE At(c, "evaluating")
      <4>1. {c} \cap {a \in Attempts : At(a, "evaluating")} = {c}
        BY <1>3, <3>1
      <4> QED
        BY <3>1, <4>1 DEF Crash
    <3>2. CASE ~At(c, "evaluating")
      <4>1. {c} \cap {a \in Attempts : At(a, "evaluating")} = {}
        BY <3>2
      <4> QED
        BY <4>1 DEF Crash
    <3> QED
      BY <3>1, <3>2
  <2> QED
    BY <2>5, <2>6, <2>7
<1> QED
  BY <1>2, <1>3 DEF Callers

-----------------------------------------------------------------------------
(* The invariant of the second layer, and what follows from it              *)

LEMMA InitSafe ==
  Init => Safe
<1> SUFFICES ASSUME NEW s \in Starts,
                    /\ pin = s.pin /\ top = s.pin.ver
                    /\ host = [asserts |-> s.asserts, removes |-> s.removes,
                               restarts |-> s.restarts]
                    /\ admitted = [m \in Messages |-> NoBuild]
                    /\ late = {}
                    /\ call = [c \in Callers |-> NewCall]
             PROVE  Safe
  BY DEF Init
<1>1. pin.inFlight = {} /\ (pin.phase = "RESERVED" => ~pin.tracked)
  BY StartsAssumption DEF StartingPin, NoPin
<1>2. \A c \in Callers : call[c].at = "idle" /\ call[c].mode = "none"
  BY DEF NewCall
<1>3. \A a \in Attempts : Stands(a, call[a], pin, late, admitted)
  BY <1>1, <1>2
  DEF Stands, InFlight, MayStill, May, Late, Removing, Owns, Callers
<1>4. \A r \in Recoveries : Weighs(call[r], pin, late, call, host)
  BY <1>2 DEF Weighs, Callers
<1>5. Admissions(pin, admitted) /\ Released(pin, call, host)
  BY <1>1 DEF Admissions, Released
<1> QED
  BY <1>3, <1>4, <1>5 DEF Safe, SafeOf

LEMMA NextSafe ==
  ASSUME Typed, Current, Safe, [RelyNext]_vars
  PROVE  Safe'
<1>1. Typed'
  BY RelyIsNext, NextTyped
<1>2. CASE UNCHANGED vars
  BY <1>2 DEF vars, Safe
<1>3. ASSUME NEW a \in Attempts, NEW m \in Messages, Send(a, m)
      PROVE  Safe'
  BY <1>1, <1>3, SendSafe
<1>4. ASSUME NEW a \in Attempts,
             \/ ReadPinToSend(a) \/ Evaluate(a) \/ Deny(a)
             \/ Fenced(a) /\ Join(a)
      PROVE  Safe'
  BY <1>1, <1>4, ReadToSendSafe, JoinSafe, EvaluateSafe, DenySafe
<1>5. ASSUME NEW a \in Attempts, Admit(a) \/ Fail(a) \/ LandLate(a)
      PROVE  Safe'
  BY <1>1, <1>5, AdmitSafe, FailSafe, LandLateSafe
<1>6. ASSUME NEW a \in Attempts,
             \/ Settle(a) \/ ReadPinToConclude(a) \/ Recheck(a)
             \/ Fenced(a) /\ (Remove(a) \/ Deregister(a))
      PROVE  Safe'
  BY <1>1, <1>6, SettleSafe, ReadToConcludeSafe, RecheckSafe, RemoveSafe,
     DeregisterSafe
<1>7. ASSUME NEW r \in Recoveries, NEW s \in Assertions,
             Truthful(s), Recover(r, s)
      PROVE  Safe'
  BY <1>1, <1>7, RecoverSafe
<1>8. ASSUME NEW r \in Recoveries, Weigh(r) \/ (Fenced(r) /\ Free(r))
      PROVE  Safe'
  BY <1>1, <1>8, WeighSafe, FreeSafe
<1>9. ASSUME NEW c \in Callers,
             ReadPinToCommit(c) \/ (Fenced(c) /\ Commit(c)) \/ Crash(c)
      PROVE  Safe'
  BY <1>1, <1>9, ReadToCommitSafe, CommitSafe, CrashSafe
<1> QED
  BY <1>2, <1>3, <1>4, <1>5, <1>6, <1>7, <1>8, <1>9 DEF RelyNext, Other

\* A message is admitted only by the BUILD the target is pinned to, and the
\* pin stays, over either store, until a revision is taken for another
\* document's or a live writer is asserted dead: what the next BUILD's send
\* relies on when it finds no pin.
THEOREM AdmissionsArePinned ==
  RelySpec => []AdmittedIsPinned
<1>1. Typed /\ Current /\ [RelyNext]_vars => Current'
  BY NextCurrent
<1>2. Typed /\ Current /\ Safe /\ [RelyNext]_vars => Safe'
  BY NextSafe
<1>3. Safe => AdmittedIsPinned
  BY DEF Safe, SafeOf, Admissions, AdmittedIsPinned
<1> QED
  BY InitTyped, RelyIsNext, NextTyped, InitCurrent, InitSafe, <1>1, <1>2, <1>3,
     PTL DEF RelySpec

\* A submit that its Kernel may still admit, its process alive or not, has the
\* pin behind it: no denial of another attempt, no recovery and no commit
\* takes the reservation from under it, until a revision is taken for another
\* document's or a live writer is asserted dead.
THEOREM SubmitsAreRegistered ==
  RelySpec => []MayAdmitIsRegistered
<1>1. Typed /\ Current /\ [RelyNext]_vars => Current'
  BY NextCurrent
<1>2. Typed /\ Current /\ Safe /\ [RelyNext]_vars => Safe'
  BY NextSafe
<1>3. Safe => MayAdmitIsRegistered
  <2> SUFFICES ASSUME Safe, NEW a \in Attempts, MayAdmit(a)
               PROVE  /\ Matches(pin, a)
                      /\ \/ pin.phase = "ADMITTED"
                         \/ /\ pin.msg = call[a].msg
                            /\ pin.tracked => a \in pin.inFlight
    BY DEF MayAdmitIsRegistered
  <2>1. MayStill(a, call[a], late)
    BY DEF MayAdmit, MayStill, May, RolesExclude, Excluded
  <2>2. Guards(pin, a, call[a])
    BY <2>1 DEF Safe, SafeOf, Stands
  <2> QED
    BY <2>2 DEF Guards
<1> QED
  BY InitTyped, RelyIsNext, NextTyped, InitCurrent, InitSafe, <1>1, <1>2, <1>3,
     PTL DEF RelySpec

\* When every send has returned, none ambiguously and none after losing every
\* round, denials have removed the reservation, in whatever order they settled,
\* until a revision is taken for another document's or a live writer is
\* asserted dead.
THEOREM DenialsRelease ==
  RelySpec => []DenialsReleaseTarget
<1>1. Typed /\ Current /\ [RelyNext]_vars => Current'
  BY NextCurrent
<1>2. Typed /\ Current /\ Safe /\ [RelyNext]_vars => Safe'
  BY NextSafe
<1>3. Typed /\ Safe => DenialsReleaseTarget
  <2> SUFFICES ASSUME Typed, Safe, AllSettled, host.removes, pin.tracked,
                      pin.phase = "RESERVED"
               PROVE  FALSE
    BY DEF DenialsReleaseTarget
  <2>1. ~Unsettled(call)
    <3>1. \A r \in Recoveries : call[r].outcome = "none"
      <4> TAKE r \in Recoveries
      <4>1. Knows(r, call[r], host, admitted)
        BY KnowsNow DEF Callers
      <4> QED
        BY <4>1 DEF Knows, Come
    <3> QED
      BY <3>1 DEF AllSettled, Unsettled, Lost, Callers
  <2>2. pin.inFlight # {} /\ \A a \in pin.inFlight : Live(call[a])
    BY <2>1 DEF Safe, SafeOf, Released
  <2>3. pin.inFlight \subseteq Callers
    BY DEF Typed, TypedOf, Shape, PinType, Callers
  <2> QED
    BY <2>2, <2>3 DEF AllSettled, Live
<1> QED
  BY InitTyped, RelyIsNext, NextTyped, InitCurrent, InitSafe, <1>1, <1>2, <1>3,
     PTL DEF RelySpec
=============================================================================
