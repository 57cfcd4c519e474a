---------------------- MODULE SubscriptionRegistryProofs ----------------------
(***************************************************************************)
(* Proofs about the live subscriptions.                                    *)
(*                                                                         *)
(* Everything a step does to a registration is one of four operators on    *)
(* it: Ended, TurnPump, Push and the change of a few fields.  What makes a *)
(* registration sound, together with what it was given and what its        *)
(* listener was told, is therefore a predicate on three values (Sound),    *)
(* and most of the proof is a lemma for each operator; a step then changes *)
(* one registration, or all of them alike.                                 *)
(***************************************************************************)
EXTENDS SubscriptionRegistry, SequenceTheorems, TLAPS

-----------------------------------------------------------------------------
(* One registration                                                         *)

Well(x) ==
  /\ x \in Registration
  /\ x.active => x.registered
  /\ x.registered => x.at \in PumpAt \cup {"off"}
  /\ x.at # "new" => x.target \in Instances

\* The receipts of the events a listener was called with.
Told(d) == [k \in 1..Len(d) |-> [id |-> d[k].id, rev |-> d[k].rev]]

\* The receipt the pump has in hand.
Hand(x) == IF x.at = "off" THEN <<>> ELSE <<x.event>>

\* A registration x that was given g and told d.
Sound(x, g, d) ==
  /\ ~x.registered => ~x.revoked /\ g = <<>> /\ d = <<>>
  /\ x.revoked => ~x.active
  /\ ~x.active => x.queue = <<>>
  /\ x.queue # <<>> => x.at \in PumpAt
  /\ Len(x.queue) <= QueueBound
  /\ x.active => g = Told(d) \o Hand(x) \o x.queue

\* The pump has nothing in hand, and its loop is about to turn.
Ready(x, g, d) ==
  /\ x.registered
  /\ x.revoked => ~x.active
  /\ ~x.active => x.queue = <<>>
  /\ Len(x.queue) <= QueueBound
  /\ x.active => g = Told(d) \o x.queue

LEMMA ToldType ==
  ASSUME NEW d \in Seq(Event)
  PROVE  Told(d) \in Seq(Receipt) /\ Len(Told(d)) = Len(d)
<1>1. /\ Len(d) \in Nat
      /\ \A k \in 1..Len(d) : d[k] \in Event
  OBVIOUS
<1>2. \A k \in 1..Len(d) : [id |-> d[k].id, rev |-> d[k].rev] \in Receipt
  BY <1>1 DEF Event, Receipt
<1> QED
  BY <1>1, <1>2 DEF Told

LEMMA ToldAppend ==
  ASSUME NEW d \in Seq(Event), NEW v \in Event
  PROVE  Told(Append(d, v)) = Append(Told(d), [id |-> v.id, rev |-> v.rev])
<1> DEFINE e == [id |-> v.id, rev |-> v.rev]
           left == Told(Append(d, v))
           right == Append(Told(d), e)
<1>1. /\ Len(d) \in Nat /\ Append(d, v) \in Seq(Event)
      /\ Len(Append(d, v)) = Len(d) + 1
      /\ \A k \in 1..Len(d) : Append(d, v)[k] = d[k]
      /\ Append(d, v)[Len(d) + 1] = v
  OBVIOUS
<1>2. /\ Told(d) \in Seq(Receipt) /\ Len(Told(d)) = Len(d)
      /\ left \in Seq(Receipt) /\ Len(left) = Len(d) + 1
      /\ e \in Receipt
  BY <1>1, ToldType DEF Event, Receipt
<1>3. /\ right \in Seq(Receipt) /\ Len(right) = Len(d) + 1
      /\ \A k \in 1..Len(d) : right[k] = Told(d)[k]
      /\ right[Len(d) + 1] = e
  BY <1>1, <1>2
<1>4. ASSUME NEW k \in 1..(Len(d) + 1) PROVE left[k] = right[k]
  <2>1. left[k] = [id |-> Append(d, v)[k].id, rev |-> Append(d, v)[k].rev]
    BY <1>1 DEF Told
  <2>2. CASE k = Len(d) + 1
    BY <1>1, <1>3, <2>1, <2>2
  <2>3. CASE k # Len(d) + 1
    <3>1. k \in 1..Len(d)
      BY <1>1, <2>3
    <3> QED
      BY <1>1, <1>3, <2>1, <3>1 DEF Told
  <2> QED
    BY <2>2, <2>3
<1> HIDE DEF left, right
<1>5. /\ left = [k \in 1..(Len(d) + 1) |-> left[k]]
      /\ right = [k \in 1..(Len(d) + 1) |-> right[k]]
  BY <1>1, <1>2, <1>3
<1> QED
  BY <1>4, <1>5 DEF left, right

\* Sequences of receipts put together in another way.
LEMMA TakeHead ==
  ASSUME NEW a \in Seq(Receipt), NEW q \in Seq(Receipt), q # <<>>
  PROVE  /\ a \o <<Head(q)>> \o Tail(q) = a \o q
         /\ Head(q) \in Receipt /\ Tail(q) \in Seq(Receipt)
         /\ Len(Tail(q)) = Len(q) - 1
<1>1. /\ Head(q) \in Receipt /\ Tail(q) \in Seq(Receipt)
      /\ Len(Tail(q)) = Len(q) - 1
      /\ \A i \in 1..Len(Tail(q)) : Tail(q)[i] = q[i + 1]
  BY HeadTailProperties
<1>2. <<Head(q)>> \in Seq(Receipt)
  BY <1>1
<1> DEFINE w == <<Head(q)>> \o Tail(q)
<1>3. w = q
  <2>1. /\ w \in Seq(Receipt) /\ Len(w) = 1 + Len(Tail(q))
        /\ \A i \in 1..(1 + Len(Tail(q))) :
             w[i] = IF i <= 1 THEN <<Head(q)>>[i] ELSE Tail(q)[i - 1]
    BY <1>1, <1>2, ConcatProperties
  <2>2. Len(q) \in Nat \ {0} /\ Head(q) = q[1]
    OBVIOUS
  <2>3. \A i \in 1..Len(w) : w[i] = q[i]
    <3> SUFFICES ASSUME NEW i \in 1..Len(w) PROVE w[i] = q[i]
      OBVIOUS
    <3>1. CASE i = 1
      BY <1>1, <2>1, <2>2, <3>1
    <3>2. CASE i # 1
      BY <1>1, <2>1, <2>2, <3>2
    <3> QED
      BY <3>1, <3>2
  <2>4. Len(w) = Len(q)
    BY <1>1, <2>1, <2>2
  <2> HIDE DEF w
  <2> QED
    BY <2>1, <2>3, <2>4, SeqEqual
<1> QED
  BY <1>1, <1>2, <1>3, ConcatAssociative

LEMMA HandOver ==
  ASSUME NEW a \in Seq(Receipt), NEW b \in Receipt, NEW q
  PROVE  a \o <<b>> \o q = Append(a, b) \o q
BY AppendIsConcat

LEMMA QueueUp ==
  ASSUME NEW a \in Seq(Receipt), NEW b \in Receipt, NEW q \in Seq(Receipt)
  PROVE  Append(a \o q, b) = a \o Append(q, b)
<1>1. /\ <<b>> \in Seq(Receipt) /\ a \o q \in Seq(Receipt)
  BY ConcatProperties
<1>2. /\ Append(a \o q, b) = (a \o q) \o <<b>>
      /\ Append(q, b) = q \o <<b>>
  BY <1>1, AppendIsConcat
<1> QED
  BY <1>1, <1>2, ConcatAssociative

LEMMA QueueBounds == QueueBound \in Nat \ {0}
BY SubscriptionAssumption

\* Ending a registration leaves it well and sound: it owes nothing any more.
LEMMA EndedSound ==
  ASSUME NEW x, NEW g, NEW d, NEW b \in BOOLEAN, Well(x),
         b => x.registered
  PROVE  /\ Well(Ended(x, b))
         /\ Sound(x, g, d) => Sound(Ended(x, b), g, d)
         /\ Ready(x, g, d) => Ready(Ended(x, b), g, d)
         /\ ~Ended(x, b).active /\ Ended(x, b).queue = <<>>
         /\ Ended(x, b).at = x.at /\ Ended(x, b).target = x.target
         /\ Ended(x, b).verdict = x.verdict
<1> DEFINE y == Ended(x, b)
<1>1. /\ x \in Registration
      /\ y \in Registration
      /\ y.at = x.at /\ y.target = x.target /\ y.registered = x.registered
      /\ y.verdict = x.verdict
      /\ ~y.active /\ y.queue = <<>> /\ y.event = x.event
      /\ y.revoked = (x.revoked \/ b)
  <2>1. x \in Registration
    BY DEF Well
  <2>2. y = [x EXCEPT !.active = FALSE, !.queue = <<>>,
                      !.revoked = x.revoked \/ b]
    BY DEF Ended
  <2>3. x.revoked \/ b \in BOOLEAN
    OBVIOUS
  <2>4. <<>> \in Seq(Receipt)
    OBVIOUS
  <2> HIDE DEF y
  <2> QED
    BY <2>1, <2>2, <2>3, <2>4 DEF Registration
<1>2. Len(<<>>) = 0
  OBVIOUS
<1> HIDE DEF y
<1>3. Well(y)
  BY <1>1 DEF Well
<1>4. Sound(x, g, d) => Sound(y, g, d)
  BY <1>1, <1>2, QueueBounds DEF Sound
<1>5. Ready(x, g, d) => Ready(y, g, d)
  BY <1>1, <1>2, QueueBounds DEF Ready
<1> QED
  BY <1>1, <1>3, <1>4, <1>5 DEF y

\* The head of the loop takes the next receipt in hand, or rests.
LEMMA TurnSound ==
  ASSUME NEW x, NEW g, NEW d \in Seq(Event), Well(x), Ready(x, g, d)
  PROVE  /\ Well(TurnPump(x)) /\ Sound(TurnPump(x), g, d)
         /\ TurnPump(x).active = x.active
         /\ TurnPump(x).at \in {"authorize1", "off"}
         /\ ~x.active => TurnPump(x).queue = <<>>
<1> DEFINE y == TurnPump(x)
<1>1. /\ x \in Registration /\ x.queue \in Seq(Receipt)
      /\ x.at # "new" => x.target \in Instances
  BY DEF Well, Registration
<1>2. CASE x.active /\ x.queue # <<>>
  <2>1. Head(x.queue) \in Receipt /\ Tail(x.queue) \in Seq(Receipt)
        /\ Len(Tail(x.queue)) = Len(x.queue) - 1
    BY <1>1, <1>2, TakeHead
  <2>2. y = [x EXCEPT !.at = "authorize1", !.event = Head(x.queue),
                      !.queue = Tail(x.queue)]
    BY <1>2 DEF TurnPump
  <2> HIDE DEF y
  <2>3. /\ y \in Registration
        /\ y.at = "authorize1" /\ y.event = Head(x.queue)
        /\ y.queue = Tail(x.queue) /\ y.target = x.target
        /\ y.active = x.active /\ y.registered = x.registered
        /\ y.revoked = x.revoked
    BY <1>1, <2>1, <2>2 DEF Registration, PumpAt, QueryAt
  <2>4. Told(d) \in Seq(Receipt)
    BY ToldType
  <2>5. g = Told(d) \o <<Head(x.queue)>> \o Tail(x.queue)
    BY <1>1, <1>2, <2>4, TakeHead DEF Ready
  <2>6. Len(Tail(x.queue)) <= QueueBound
    BY <1>1, <2>1, QueueBounds DEF Ready
  <2>7. Well(y)
    BY <2>3, <1>1 DEF Well, PumpAt, QueryAt, Ready
  <2>8. Sound(y, g, d)
    BY <1>2, <2>3, <2>5, <2>6 DEF Sound, Ready, Hand, PumpAt, QueryAt
  <2> QED
    BY <1>2, <2>3, <2>7, <2>8 DEF y
<1>3. CASE ~(x.active /\ x.queue # <<>>)
  <2>1. y = [x EXCEPT !.at = "off"]
    BY <1>3 DEF TurnPump
  <2> HIDE DEF y
  <2>2. /\ y \in Registration
        /\ y.at = "off" /\ y.target = x.target
        /\ y.queue = x.queue
        /\ y.active = x.active /\ y.registered = x.registered
        /\ y.revoked = x.revoked
    BY <1>1, <2>1 DEF Registration
  <2>3. Told(d) \in Seq(Receipt)
    BY ToldType
  <2>4. x.queue = <<>>
    BY <1>3 DEF Ready
  <2>5. x.active => g = Told(d) \o <<>> \o <<>>
    BY <2>3, <2>4, ConcatEmptySeq DEF Ready
  <2>6. x.target \in Instances
    BY DEF Ready, Well, PumpAt, QueryAt
  <2>7. Well(y)
    BY <2>2, <2>6 DEF Well, Ready
  <2>8. Sound(y, g, d)
    BY <2>2, <2>4, <2>5 DEF Sound, Ready, Hand
  <2> QED
    BY <2>2, <2>4, <2>7, <2>8 DEF y
<1> QED
  BY <1>2, <1>3

\* A receipt given to an active registration is queued behind all others, or
\* ends it; a resting pump takes it in hand.
LEMMA PushSound ==
  ASSUME NEW x, NEW g \in Seq(Receipt), NEW d \in Seq(Event),
         NEW e \in Receipt, Well(x), Sound(x, g, d), x.active
  PROVE  /\ Well(Push(x, e)) /\ Sound(Push(x, e), Append(g, e), d)
         /\ Push(x, e).target = x.target
         /\ \/ Push(x, e).at = x.at /\ Push(x, e).verdict = x.verdict
            \/ Push(x, e).at = "authorize1"
            \/ Push(x, e).at = "off"
<1>1. /\ x \in Registration /\ x.queue \in Seq(Receipt)
      /\ Told(d) \in Seq(Receipt) /\ Len(x.queue) \in Nat
      /\ x.registered
  BY ToldType DEF Well, Registration
<1>2. CASE Len(x.queue) >= QueueBound
  <2>1. Push(x, e) = Ended(x, FALSE)
    BY <1>2 DEF Push
  <2>2. /\ Well(Ended(x, FALSE)) /\ Sound(Ended(x, FALSE), g, d)
        /\ ~Ended(x, FALSE).active /\ Ended(x, FALSE).registered
        /\ Ended(x, FALSE).at = x.at /\ Ended(x, FALSE).verdict = x.verdict
        /\ Ended(x, FALSE).target = x.target
    <3>1. Ended(x, FALSE).registered = x.registered
      BY <1>1 DEF Ended, Registration
    <3> QED
      BY <1>1, <3>1, EndedSound
  <2>3. Sound(Ended(x, FALSE), Append(g, e), d)
    BY <2>2 DEF Sound
  <2> QED
    BY <2>1, <2>2, <2>3
<1>3. CASE ~(Len(x.queue) >= QueueBound)
  <2> DEFINE y == [x EXCEPT !.queue = Append(x.queue, e)]
  <2>1. Push(x, e) = IF x.at = "off" THEN TurnPump(y) ELSE y
    BY <1>3 DEF Push
  <2>2. /\ Append(x.queue, e) \in Seq(Receipt)
        /\ Len(Append(x.queue, e)) = Len(x.queue) + 1
    BY <1>1
  <2>3. /\ y \in Registration
        /\ y.queue = Append(x.queue, e) /\ y.target = x.target
        /\ y.at = x.at /\ y.event = x.event /\ y.verdict = x.verdict
        /\ y.active = x.active /\ y.registered = x.registered
        /\ y.revoked = x.revoked
    BY <1>1, <2>2 DEF Registration
  <2>4. Len(y.queue) <= QueueBound
    BY <1>1, <1>3, <2>2, <2>3, QueueBounds
  <2> HIDE DEF y
  <2>5. Well(y)
    BY <2>3 DEF Well
  <2>6. CASE x.at = "off"
    <3>1. x.queue = <<>>
      BY <2>6 DEF Sound, PumpAt, QueryAt
    <3>2. /\ g = Told(d) \o <<>> \o <<>>
          /\ Append(<<>>, e) = <<e>> /\ Append(g, e) = Told(d) \o <<e>>
      <4>1. g = Told(d) \o <<>> \o <<>>
        BY <2>6, <3>1 DEF Sound, Hand
      <4>2. Told(d) \o <<>> \o <<>> = Told(d)
        BY <1>1, ConcatEmptySeq
      <4>3. Append(g, e) = g \o <<e>>
        BY AppendIsConcat
      <4> QED
        BY <4>1, <4>2, <4>3
    <3>3. Ready(y, Append(g, e), d)
      BY <1>1, <2>3, <2>4, <3>1, <3>2 DEF Ready, Sound
    <3>4. TurnPump(y).target = y.target
      BY <2>3 DEF TurnPump, Registration
    <3> QED
      BY <2>1, <2>3, <2>5, <2>6, <3>3, <3>4, TurnSound
  <2>7. CASE x.at # "off"
    <3>1. Hand(x) = <<x.event>> /\ Hand(y) = <<x.event>>
      BY <2>3, <2>7 DEF Hand
    <3>2. x.event \in Receipt /\ Told(d) \o <<x.event>> \in Seq(Receipt)
      BY <1>1, ConcatProperties DEF Registration
    <3>3. Append(g, e) = Told(d) \o <<x.event>> \o Append(x.queue, e)
      <4>1. g = Told(d) \o <<x.event>> \o x.queue
        BY <3>1 DEF Sound
      <4> QED
        BY <1>1, <3>2, <4>1, QueueUp
    <3>4. x.at \in PumpAt
      BY <1>1, <2>7 DEF Well
    <3>5. Sound(y, Append(g, e), d)
      BY <1>1, <2>3, <2>4, <3>1, <3>3, <3>4 DEF Sound
    <3> QED
      BY <2>1, <2>3, <2>5, <2>7, <3>5
  <2> QED
    BY <2>6, <2>7
<1> QED
  BY <1>2, <1>3

\* A delivered event was the receipt in hand.
LEMMA DeliverReady ==
  ASSUME NEW x, NEW g, NEW d \in Seq(Event), Well(x), Sound(x, g, d),
         x.at = "verdict", x.active
  PROVE  /\ EventOf(x) \in Event
         /\ Append(d, EventOf(x)) \in Seq(Event)
         /\ Ready(x, g, Append(d, EventOf(x)))
<1>1. /\ x \in Registration /\ x.queue \in Seq(Receipt) /\ x.registered
      /\ x.event \in Receipt /\ x.snap \in Int
      /\ Told(d) \in Seq(Receipt)
  BY ToldType DEF Well, Registration
<1>2. /\ EventOf(x) \in Event
      /\ [id |-> EventOf(x).id, rev |-> EventOf(x).rev] = x.event
  BY <1>1 DEF EventOf, Event, Receipt, NoRev
<1>3. Append(d, EventOf(x)) \in Seq(Event)
  BY <1>2
<1>4. Told(Append(d, EventOf(x))) = Append(Told(d), x.event)
  BY <1>2, ToldAppend
<1>5. g = Told(d) \o <<x.event>> \o x.queue
  BY DEF Sound, Hand
<1>6. g = Append(Told(d), x.event) \o x.queue
  BY <1>1, <1>5, HandOver
<1> QED
  BY <1>1, <1>2, <1>3, <1>4, <1>6 DEF Ready, Sound

\* A step of a query or of the pump that leaves queue and hand alone.
LEMMA MoveSound ==
  ASSUME NEW x, NEW y, NEW g, NEW d, Well(x), Sound(x, g, d),
         y \in Registration,
         y.active = x.active, y.registered = x.registered,
         y.revoked = x.revoked, y.queue = x.queue, y.event = x.event,
         y.target \in Instances,
         x.registered => x.at \in PumpAt /\ y.at \in PumpAt
  PROVE  /\ Well(y) /\ Sound(y, g, d)
<1>1. "off" \notin PumpAt
  BY DEF PumpAt, QueryAt
<1>2. x.queue # <<>> => x.registered
  BY DEF Sound, Well
<1> QED
  BY <1>1, <1>2 DEF Well, Sound, Hand

-----------------------------------------------------------------------------
(* The invariant                                                            *)

\* While the pump awaits its own verdict, a target that is permitted now was
\* so at some instant since the query; a verdict that is TRUE says the same.
FreshOf(s) ==
  /\ At(s, "authorize") => (permitted[sub[s].target] => okSince[s])
  /\ At(s, "verdict") /\ sub[s].verdict => okSince[s]

Inv ==
  /\ TypeOK
  /\ \A s \in Subs : Sound(sub[s], enqueued[s], delivered[s])
  /\ StoppedIsQuiet
  /\ \A s \in Subs : FreshOf(s)

LEMMA TypedIs ==
  TypeOK <=> /\ sub \in [Subs -> Registration]
             /\ \A s \in Subs : Well(sub[s])
             /\ stopped \in BOOLEAN
             /\ rev \in [Instances -> Nat]
             /\ permitted \in [Instances -> BOOLEAN]
             /\ seen \in Nat /\ flips \in Nat
             /\ enqueued \in [Subs -> Seq(Receipt)]
             /\ delivered \in [Subs -> Seq(Event)]
             /\ okSince \in [Subs -> BOOLEAN]
BY DEF TypeOK, Well, At

LEMMA TypedNext ==
  TypeOK' <=> /\ sub' \in [Subs -> Registration]
              /\ \A s \in Subs : Well(sub'[s])
              /\ stopped' \in BOOLEAN
              /\ rev' \in [Instances -> Nat]
              /\ permitted' \in [Instances -> BOOLEAN]
              /\ seen' \in Nat /\ flips' \in Nat
              /\ enqueued' \in [Subs -> Seq(Receipt)]
              /\ delivered' \in [Subs -> Seq(Event)]
              /\ okSince' \in [Subs -> BOOLEAN]
BY DEF TypeOK, Well, At

\* A step that concerns one subscription keeps the invariant if it keeps what
\* the invariant says of that one.
LEMMA OneKept ==
  ASSUME Inv, NEW s \in Subs, NEW y, NEW d \in Seq(Event), NEW k \in BOOLEAN,
         sub' = [sub EXCEPT ![s] = y],
         delivered' = [delivered EXCEPT ![s] = d],
         okSince' = [okSince EXCEPT ![s] = k],
         UNCHANGED <<stopped, rev, permitted, seen, flips, enqueued>>,
         Well(y), Sound(y, enqueued[s], d),
         stopped => ~y.active /\ y.queue = <<>>,
         y.at = "authorize" => (permitted[y.target] => k),
         y.at = "verdict" /\ y.verdict => k
  PROVE  Inv'
<1>1. /\ sub \in [Subs -> Registration] /\ y \in Registration
      /\ delivered \in [Subs -> Seq(Event)] /\ okSince \in [Subs -> BOOLEAN]
  BY TypedIs DEF Inv, Well
<1>2. /\ sub'[s] = y /\ delivered'[s] = d /\ okSince'[s] = k
      /\ \A q \in Subs : q # s => /\ sub'[q] = sub[q]
                                  /\ delivered'[q] = delivered[q]
                                  /\ okSince'[q] = okSince[q]
      /\ sub' \in [Subs -> Registration]
      /\ delivered' \in [Subs -> Seq(Event)]
      /\ okSince' \in [Subs -> BOOLEAN]
  BY <1>1
<1>3. TypeOK'
  <2>1. \A q \in Subs : Well(sub'[q])
    BY <1>2, TypedIs DEF Inv
  <2> QED
    BY <1>2, <2>1, TypedIs, TypedNext DEF Inv
<1>4. \A q \in Subs : Sound(sub'[q], enqueued'[q], delivered'[q])
  BY <1>2 DEF Inv
<1>5. StoppedIsQuiet'
  BY <1>2 DEF Inv, StoppedIsQuiet
<1>6. \A q \in Subs : FreshOf(q)'
  BY <1>2 DEF Inv, FreshOf, At
<1> QED
  BY <1>3, <1>4, <1>5, <1>6 DEF Inv

\* What the invariant says of one subscription.
LEMMA OneIs ==
  ASSUME Inv, NEW s \in Subs
  PROVE  /\ sub \in [Subs -> Registration] /\ sub[s] \in Registration
         /\ Well(sub[s]) /\ Sound(sub[s], enqueued[s], delivered[s])
         /\ enqueued[s] \in Seq(Receipt) /\ delivered[s] \in Seq(Event)
         /\ okSince[s] \in BOOLEAN
         /\ permitted \in [Instances -> BOOLEAN] /\ stopped \in BOOLEAN
         /\ stopped => ~sub[s].active /\ sub[s].queue = <<>>
         /\ delivered = [delivered EXCEPT ![s] = delivered[s]]
         /\ okSince = [okSince EXCEPT ![s] = okSince[s]]
         /\ sub[s].at = "authorize"
              => (permitted[sub[s].target] => okSince[s])
         /\ sub[s].at = "verdict" /\ sub[s].verdict => okSince[s]
BY TypedIs DEF Inv, StoppedIsQuiet, FreshOf, At

\* The same, for steps that tell the listener nothing.
LEMMA QuietKept ==
  ASSUME Inv, NEW s \in Subs, NEW y, NEW k \in BOOLEAN,
         sub' = [sub EXCEPT ![s] = y],
         okSince' = [okSince EXCEPT ![s] = k],
         UNCHANGED <<stopped, rev, permitted, seen, flips, enqueued,
                     delivered>>,
         Well(y), Sound(y, enqueued[s], delivered[s]),
         stopped => ~y.active /\ y.queue = <<>>,
         y.at = "authorize" => (permitted[y.target] => k),
         y.at = "verdict" /\ y.verdict => k
  PROVE  Inv'
BY OneIs, OneKept

-----------------------------------------------------------------------------
(* The steps                                                                *)

LEMMA SubscribeKept ==
  ASSUME Inv, NEW s \in Subs, NEW i \in Instances, Subscribe(s, i)
  PROVE  Inv'
<1> DEFINE y == [sub[s] EXCEPT !.at = "authorize1", !.target = i]
<1>1. /\ sub[s].at = "new" /\ Set(s, y)
      /\ UNCHANGED <<stopped, rev, permitted, seen, flips, enqueued,
                     delivered, okSince>>
  BY DEF Subscribe, At
<1>2. /\ y \in Registration /\ y.at = "authorize1" /\ y.target = i
      /\ y.active = sub[s].active /\ y.registered = sub[s].registered
      /\ y.revoked = sub[s].revoked /\ y.queue = sub[s].queue
      /\ y.event = sub[s].event
  BY OneIs DEF Registration, PumpAt, QueryAt
<1>3. ~sub[s].registered
  BY <1>1, OneIs DEF Well, PumpAt, QueryAt
<1> HIDE DEF y
<1>4. Well(y) /\ Sound(y, enqueued[s], delivered[s])
  BY <1>2, <1>3, OneIs, MoveSound
<1> QED
  BY <1>1, <1>2, <1>4, OneIs, QuietKept DEF Set

LEMMA RegisterKept ==
  ASSUME Inv, NEW s \in Subs, Register(s)
  PROVE  Inv'
<1>1. /\ sub[s].at = "resolved"
      /\ UNCHANGED <<stopped, rev, permitted, seen, flips, enqueued,
                     delivered, okSince>>
      /\ ~sub[s].registered /\ ~sub[s].active /\ ~sub[s].revoked
      /\ sub[s].queue = <<>>
      /\ enqueued[s] = <<>> /\ delivered[s] = <<>>
      /\ sub[s].target \in Instances
  BY OneIs DEF Register, At, Well, Sound, PumpAt, QueryAt
<1>2. CASE stopped
  <2> DEFINE y == [sub[s] EXCEPT !.at = "refused"]
  <2>1. Set(s, y)
    BY <1>2 DEF Register
  <2>2. /\ y \in Registration /\ y.at = "refused"
        /\ y.target = sub[s].target
        /\ y.active = sub[s].active /\ y.registered = sub[s].registered
        /\ y.revoked = sub[s].revoked /\ y.queue = sub[s].queue
        /\ y.event = sub[s].event
    BY OneIs DEF Registration
  <2> HIDE DEF y
  <2>3. Well(y) /\ Sound(y, enqueued[s], delivered[s])
    BY <1>1, <2>2, OneIs, MoveSound
  <2> QED
    BY <1>1, <2>1, <2>2, <2>3, OneIs, QuietKept DEF Set
<1>3. CASE ~stopped
  <2> DEFINE y == [sub[s] EXCEPT !.at = "off", !.active = TRUE,
                                 !.registered = TRUE]
  <2>1. Set(s, y)
    BY <1>3 DEF Register
  <2>2. /\ y \in Registration /\ y.at = "off"
        /\ y.target = sub[s].target
        /\ y.active = TRUE /\ y.registered = TRUE
        /\ y.revoked = sub[s].revoked /\ y.queue = sub[s].queue
    BY OneIs DEF Registration
  <2> HIDE DEF y
  <2>3. Told(<<>>) \o <<>> \o <<>> = <<>>
    <3>1. Told(<<>>) = <<>>
      <4>1. <<>> \in Seq(Event) /\ Len(<<>>) = 0
        OBVIOUS
      <4>2. Told(<<>>) \in Seq(Receipt) /\ Len(Told(<<>>)) = 0
        BY <4>1, ToldType
      <4> QED
        BY <4>2
    <3> QED
      BY <3>1
  <2>4. Well(y) /\ Sound(y, enqueued[s], delivered[s])
    <3>1. Len(<<>>) = 0 /\ 0 <= QueueBound
      BY QueueBounds
    <3> QED
      BY <1>1, <2>2, <2>3, <3>1 DEF Well, Sound, Hand
  <2> QED
    BY <1>1, <1>3, <2>1, <2>2, <2>4, OneIs, QuietKept DEF Set
<1> QED
  BY <1>2, <1>3

LEMMA UnsubscribeKept ==
  ASSUME Inv, NEW s \in Subs, Unsubscribe(s)
  PROVE  Inv'
<1> DEFINE y == Ended(sub[s], TRUE)
<1>1. /\ sub[s].active /\ Set(s, y)
      /\ UNCHANGED <<stopped, rev, permitted, seen, flips, enqueued,
                     delivered, okSince>>
  BY DEF Unsubscribe
<1>2. sub[s].registered
  BY <1>1, OneIs DEF Well
<1>3. /\ Well(y) /\ Sound(y, enqueued[s], delivered[s])
      /\ ~y.active /\ y.queue = <<>>
      /\ y.at = sub[s].at /\ y.target = sub[s].target
      /\ y.verdict = sub[s].verdict
  BY <1>2, OneIs, EndedSound
<1> HIDE DEF y
<1> QED
  BY <1>1, <1>3, OneIs, QuietKept DEF Set

\* The query is answered: for the pump a verdict is due, subscribe goes on.
LEMMA AnsweredKept ==
  ASSUME Inv, NEW s \in Subs, NEW r \in Int, sub[s].at \in QueryAt,
         Answered(s, r),
         UNCHANGED <<stopped, rev, permitted, seen, flips, enqueued,
                     delivered>>
  PROVE  Inv'
<1> DEFINE x == sub[s]
           y == IF sub[s].registered
                  THEN [sub[s] EXCEPT !.at = "authorize", !.snap = r]
                  ELSE [sub[s] EXCEPT
                          !.at = IF r = NoRev THEN "refused" ELSE "resolved"]
           k == permitted[sub[s].target]
<1>1. Set(s, y) /\ okSince' = [okSince EXCEPT ![s] = k]
  BY DEF Answered
<1>2. sub[s].target \in Instances /\ k \in BOOLEAN
  BY OneIs DEF Well, QueryAt
<1>3. /\ y \in Registration
      /\ sub[s].registered => y.at = "authorize"
      /\ ~sub[s].registered => y.at \in {"refused", "resolved"}
      /\ y.target = sub[s].target
      /\ y.active = sub[s].active /\ y.registered = sub[s].registered
      /\ y.revoked = sub[s].revoked /\ y.queue = sub[s].queue
      /\ y.event = sub[s].event
  BY OneIs DEF Registration, PumpAt
<1> HIDE DEF y
<1>4. Well(y) /\ Sound(y, enqueued[s], delivered[s])
  BY <1>2, <1>3, OneIs, MoveSound DEF PumpAt
<1>5. stopped => ~y.active /\ y.queue = <<>>
  BY <1>3, OneIs
<1>6. y.at # "verdict"
  BY <1>3
<1> QED
  BY <1>1, <1>2, <1>3, <1>4, <1>5, <1>6, QuietKept DEF Set

LEMMA QueryKept ==
  ASSUME Inv, NEW s \in Subs, QueryAuthorize(s) \/ QueryRead(s)
  PROVE  Inv'
<1>1. /\ sub[s].at \in QueryAt
      /\ UNCHANGED <<stopped, rev, permitted, seen, flips, enqueued,
                     delivered>>
  BY DEF QueryAuthorize, QueryRead, At, QueryAt
<1>2. NoRev \in Int /\ (sub[s].target \in Instances
                          => rev[sub[s].target] \in Int)
  BY TypedIs DEF NoRev, Inv
<1>3. sub[s].target \in Instances
  BY <1>1, OneIs DEF Well, QueryAt
<1>4. CASE \E r \in Int : Answered(s, r)
  BY <1>1, <1>4, AnsweredKept
<1>5. CASE /\ Set(s, [sub[s] EXCEPT
                        !.at = IF @ = "authorize1" THEN "authorize2"
                                                   ELSE "read"])
           /\ UNCHANGED okSince
  <2> DEFINE l == IF sub[s].at = "authorize1" THEN "authorize2" ELSE "read"
             y == [sub[s] EXCEPT !.at = l]
  <2>1. Set(s, y)
    BY <1>5
  <2>2. /\ y \in Registration /\ y.at \in {"authorize2", "read"}
        /\ y.target = sub[s].target
        /\ y.active = sub[s].active /\ y.registered = sub[s].registered
        /\ y.revoked = sub[s].revoked /\ y.queue = sub[s].queue
        /\ y.event = sub[s].event
    BY OneIs DEF Registration, PumpAt, QueryAt
  <2> HIDE DEF y
  <2>3. Well(y) /\ Sound(y, enqueued[s], delivered[s])
    BY <1>1, <1>3, <2>2, OneIs, MoveSound DEF PumpAt, QueryAt
  <2> QED
    BY <1>1, <1>5, <2>1, <2>2, <2>3, OneIs, QuietKept DEF Set
<1> QED
  BY <1>2, <1>3, <1>4, <1>5 DEF QueryAuthorize, QueryRead

LEMMA AuthorizeKept ==
  ASSUME Inv, NEW s \in Subs, Authorize(s)
  PROVE  Inv'
<1>1. PICK ok \in {permitted[sub[s].target], FALSE} :
        Set(s, [sub[s] EXCEPT !.at = "verdict", !.verdict = ok])
  BY DEF Authorize
<1>2. /\ sub[s].at = "authorize"
      /\ UNCHANGED <<stopped, rev, permitted, seen, flips, enqueued,
                     delivered, okSince>>
  BY DEF Authorize, At
<1>3. sub[s].target \in Instances /\ ok \in BOOLEAN
  BY <1>2, OneIs DEF Well
<1> DEFINE y == [sub[s] EXCEPT !.at = "verdict", !.verdict = ok]
<1>4. /\ y \in Registration /\ y.at = "verdict" /\ y.verdict = ok
      /\ y.target = sub[s].target
      /\ y.active = sub[s].active /\ y.registered = sub[s].registered
      /\ y.revoked = sub[s].revoked /\ y.queue = sub[s].queue
      /\ y.event = sub[s].event
  BY <1>3, OneIs DEF Registration, PumpAt
<1>5. Set(s, y)
  BY <1>1
<1> HIDE DEF y
<1>6. Well(y) /\ Sound(y, enqueued[s], delivered[s])
  BY <1>2, <1>3, <1>4, OneIs, MoveSound DEF PumpAt
<1>7. ok => okSince[s]
  BY <1>2, OneIs
<1> QED
  BY <1>2, <1>4, <1>5, <1>6, <1>7, OneIs, QuietKept DEF Set

LEMMA PumpEndsKept ==
  ASSUME Inv, NEW s \in Subs, PumpEnds(s)
  PROVE  Inv'
<1> DEFINE x == IF sub[s].verdict THEN sub[s] ELSE Ended(sub[s], FALSE)
           y == [x EXCEPT !.at = "off"]
<1>1. /\ sub[s].at = "verdict"
      /\ ~sub[s].verdict \/ ~sub[s].active \/ sub[s].revoked \/ stopped
      /\ Set(s, y)
      /\ UNCHANGED <<stopped, rev, permitted, seen, flips, enqueued,
                     delivered, okSince>>
  BY DEF PumpEnds, At
<1>2. /\ Well(x) /\ Sound(x, enqueued[s], delivered[s])
      /\ ~x.active /\ x.queue = <<>> /\ x.at = "verdict"
  <2>1. CASE sub[s].verdict
    BY <1>1, <2>1, OneIs DEF Sound
  <2>2. CASE ~sub[s].verdict
    BY <1>1, <2>2, OneIs, EndedSound
  <2> QED
    BY <2>1, <2>2
<1> HIDE DEF x
<1>3. /\ y \in Registration /\ y.at = "off" /\ ~y.active /\ y.queue = <<>>
      /\ y.registered = x.registered /\ y.revoked = x.revoked
      /\ y.target = x.target
  BY <1>2 DEF Well, Registration
<1> HIDE DEF y
<1>4. Well(y) /\ Sound(y, enqueued[s], delivered[s])
  BY <1>2, <1>3 DEF Well, Sound
<1> QED
  BY <1>1, <1>3, <1>4, OneIs, QuietKept DEF Set

\* The listener is told the receipt in hand; nothing is told of one that
\* ended or was stopped, or of a target not permitted since.
LEMMA DeliverKept ==
  ASSUME Inv, NEW s \in Subs, Deliver(s), UNCHANGED stopped
  PROVE  Inv'
<1> DEFINE d == Append(delivered[s], EventOf(sub[s]))
<1>1. /\ sub[s].at = "verdict" /\ sub[s].active /\ ~stopped
      /\ delivered' = [delivered EXCEPT ![s] = d]
      /\ UNCHANGED <<rev, permitted, seen, flips, enqueued, okSince>>
      /\ \/ Set(s, TurnPump(sub[s]))
         \/ Set(s, TurnPump(Ended(sub[s], TRUE)))
  <2>1. delivered' = [delivered EXCEPT ![s] = d]
    BY OneIs, TypedIs DEF Deliver, Inv
  <2> QED
    BY <2>1 DEF Deliver, At
<1>2. d \in Seq(Event) /\ Ready(sub[s], enqueued[s], d)
  BY <1>1, OneIs, DeliverReady
<1>3. PICK x : /\ Set(s, TurnPump(x))
               /\ Well(x) /\ Ready(x, enqueued[s], d)
  <2>1. /\ Well(sub[s]) /\ sub[s].registered
    BY <1>1, OneIs DEF Well
  <2>2. /\ Well(Ended(sub[s], TRUE))
        /\ Ready(Ended(sub[s], TRUE), enqueued[s], d)
    BY <1>2, <2>1, EndedSound
  <2> QED
    BY <1>1, <1>2, <2>1, <2>2
<1> HIDE DEF d
<1>4. /\ Well(TurnPump(x)) /\ Sound(TurnPump(x), enqueued[s], d)
      /\ TurnPump(x).at \in {"authorize1", "off"}
  BY <1>2, <1>3, TurnSound
<1> QED
  BY <1>1, <1>2, <1>3, <1>4, OneIs, OneKept DEF Set

\* The facade's stop ends every registration; the listener that stops it has
\* been told its event, and its pump then rests.
LEMMA StopKept ==
  ASSUME Inv, NEW f, sub' = f, f \in [Subs -> Registration],
         delivered' \in [Subs -> Seq(Event)], stopped' = TRUE,
         UNCHANGED <<rev, permitted, seen, flips, enqueued, okSince>>,
         \A q \in Subs : /\ Well(f[q])
                         /\ Sound(f[q], enqueued[q], delivered'[q])
                         /\ ~f[q].active /\ f[q].queue = <<>>
                         /\ \/ f[q].at = "off"
                            \/ /\ f[q].at = sub[q].at
                               /\ f[q].target = sub[q].target
                               /\ f[q].verdict = sub[q].verdict
  PROVE  Inv'
<1>1. TypeOK'
  BY TypedIs, TypedNext DEF Inv
<1>2. StoppedIsQuiet'
  BY DEF StoppedIsQuiet
<1>3. \A q \in Subs : FreshOf(q)'
  BY DEF Inv, FreshOf, At
<1> QED
  BY <1>1, <1>2, <1>3 DEF Inv

LEMMA EndedEach ==
  ASSUME Inv
  PROVE  /\ AllEnded \in [Subs -> Registration]
         /\ \A q \in Subs :
              /\ AllEnded[q] = Ended(sub[q], FALSE)
              /\ Well(Ended(sub[q], FALSE))
              /\ Sound(Ended(sub[q], FALSE), enqueued[q], delivered[q])
              /\ ~Ended(sub[q], FALSE).active
              /\ Ended(sub[q], FALSE).queue = <<>>
              /\ Ended(sub[q], FALSE).at = sub[q].at
              /\ Ended(sub[q], FALSE).target = sub[q].target
              /\ Ended(sub[q], FALSE).verdict = sub[q].verdict
<1>1. ASSUME NEW q \in Subs
      PROVE  /\ Well(Ended(sub[q], FALSE))
             /\ Sound(Ended(sub[q], FALSE), enqueued[q], delivered[q])
             /\ ~Ended(sub[q], FALSE).active
             /\ Ended(sub[q], FALSE).queue = <<>>
             /\ Ended(sub[q], FALSE).at = sub[q].at
             /\ Ended(sub[q], FALSE).target = sub[q].target
             /\ Ended(sub[q], FALSE).verdict = sub[q].verdict
  <2>1. Well(sub[q]) /\ Sound(sub[q], enqueued[q], delivered[q])
    BY OneIs
  <2> QED
    BY <2>1, EndedSound
<1>2. \A q \in Subs : Ended(sub[q], FALSE) \in Registration
  BY <1>1 DEF Well
<1> QED
  BY <1>1, <1>2 DEF AllEnded

LEMMA CloseKept ==
  ASSUME Inv, Stop
  PROVE  Inv'
<1>1. delivered \in [Subs -> Seq(Event)]
  BY TypedIs DEF Inv
<1> DEFINE f == AllEnded
<1>2. /\ sub' = f /\ stopped' = TRUE
      /\ UNCHANGED <<rev, permitted, seen, flips, enqueued, okSince,
                     delivered>>
  BY DEF Stop
<1>3. /\ f \in [Subs -> Registration]
      /\ \A q \in Subs : /\ Well(f[q])
                         /\ Sound(f[q], enqueued[q], delivered[q])
                         /\ ~f[q].active /\ f[q].queue = <<>>
                         /\ f[q].at = sub[q].at
                         /\ f[q].target = sub[q].target
                         /\ f[q].verdict = sub[q].verdict
  BY EndedEach
<1> HIDE DEF f
<1> QED
  BY <1>1, <1>2, <1>3, StopKept

LEMMA DeliverStopKept ==
  ASSUME Inv, NEW s \in Subs, Deliver(s), ~UNCHANGED stopped
  PROVE  Inv'
<1> DEFINE d == Append(delivered[s], EventOf(sub[s]))
           x == Ended(sub[s], FALSE)
           f == [AllEnded EXCEPT ![s] = TurnPump(@)]
<1>1. /\ sub[s].at = "verdict" /\ sub[s].active
      /\ delivered' = [delivered EXCEPT ![s] = d]
      /\ UNCHANGED <<rev, permitted, seen, flips, enqueued, okSince>>
      /\ sub' = f /\ stopped' = TRUE
  <2>1. delivered' = [delivered EXCEPT ![s] = d]
    BY OneIs, TypedIs DEF Deliver, Inv
  <2> QED
    BY <2>1 DEF Deliver, At
<1>2. d \in Seq(Event) /\ Ready(sub[s], enqueued[s], d)
  BY <1>1, OneIs, DeliverReady
<1>3. /\ Well(x) /\ Ready(x, enqueued[s], d) /\ ~x.active
      /\ x.queue = <<>>
  BY <1>2, OneIs, EndedSound
<1>4. /\ Well(TurnPump(x)) /\ Sound(TurnPump(x), enqueued[s], d)
      /\ ~TurnPump(x).active /\ TurnPump(x).queue = <<>>
      /\ TurnPump(x).at = "off"
  <2> HIDE DEF d, x
  <2>1. /\ Well(TurnPump(x)) /\ Sound(TurnPump(x), enqueued[s], d)
        /\ TurnPump(x).active = x.active
        /\ TurnPump(x).queue = <<>>
    BY <1>2, <1>3, TurnSound
  <2>2. TurnPump(x).at = "off"
    BY <1>3 DEF TurnPump, Well, Registration
  <2> QED
    BY <1>3, <2>1, <2>2
<1>5. /\ AllEnded \in [Subs -> Registration] /\ AllEnded[s] = x
      /\ delivered \in [Subs -> Seq(Event)]
  BY EndedEach, TypedIs DEF Inv
<1>6. /\ f[s] = TurnPump(x)
      /\ \A q \in Subs : q # s => f[q] = AllEnded[q]
      /\ f \in [Subs -> Registration]
  <2>1. TurnPump(x) \in Registration
    BY <1>4 DEF Well
  <2> HIDE DEF x
  <2> QED
    BY <1>5, <2>1
<1>7. /\ delivered'[s] = d /\ delivered' \in [Subs -> Seq(Event)]
      /\ \A q \in Subs : q # s => delivered'[q] = delivered[q]
  <2> HIDE DEF d
  <2> QED
    BY <1>1, <1>2, <1>5
<1> HIDE DEF d, x, f
<1>8. \A q \in Subs :
        /\ Well(f[q]) /\ Sound(f[q], enqueued[q], delivered'[q])
        /\ ~f[q].active /\ f[q].queue = <<>>
        /\ \/ f[q].at = "off"
           \/ /\ f[q].at = sub[q].at /\ f[q].target = sub[q].target
              /\ f[q].verdict = sub[q].verdict
  <2> SUFFICES ASSUME NEW q \in Subs
               PROVE  /\ Well(f[q]) /\ Sound(f[q], enqueued[q], delivered'[q])
                      /\ ~f[q].active /\ f[q].queue = <<>>
                      /\ \/ f[q].at = "off"
                         \/ /\ f[q].at = sub[q].at
                            /\ f[q].target = sub[q].target
                            /\ f[q].verdict = sub[q].verdict
    OBVIOUS
  <2>1. CASE q = s
    BY <1>4, <1>6, <1>7, <2>1
  <2>2. CASE q # s
    <3>1. f[q] = Ended(sub[q], FALSE) /\ delivered'[q] = delivered[q]
      BY <1>6, <1>7, <2>2, EndedEach
    <3> QED
      BY <3>1, EndedEach
  <2> QED
    BY <2>1, <2>2
<1> QED
  BY <1>1, <1>6, <1>7, <1>8, StopKept

\* A receipt is given to the active registrations of its instance; the others
\* keep what they have.
LEMMA ObserveKept ==
  ASSUME Inv, NEW i \in Instances, NEW r \in Int, Observe(i, r)
  PROVE  Inv'
<1> DEFINE e == [id |-> seen + 1, rev |-> r]
           Given(q) == sub[q].active /\ sub[q].target = i
<1>1. /\ seen' = seen + 1 /\ ~stopped
      /\ sub' = [q \in Subs |-> IF Given(q) THEN Push(sub[q], e) ELSE sub[q]]
      /\ enqueued' = [q \in Subs |-> IF Given(q)
                                       THEN Append(enqueued[q], e)
                                       ELSE enqueued[q]]
      /\ UNCHANGED <<stopped, rev, permitted, flips, delivered, okSince>>
  BY DEF Observe
<1>2. seen + 1 \in Nat /\ e \in Receipt
  BY TypedIs DEF Inv, Receipt
<1> HIDE DEF e
<1>3. ASSUME NEW q \in Subs
      PROVE  /\ Well(sub'[q]) /\ enqueued'[q] \in Seq(Receipt)
             /\ Sound(sub'[q], enqueued'[q], delivered'[q])
             /\ FreshOf(q)'
  <2>1. /\ Well(sub[q]) /\ Sound(sub[q], enqueued[q], delivered[q])
        /\ enqueued[q] \in Seq(Receipt) /\ delivered[q] \in Seq(Event)
        /\ FreshOf(q)
    BY OneIs DEF Inv
  <2>2. CASE Given(q)
    <3>1. /\ sub'[q] = Push(sub[q], e)
          /\ enqueued'[q] = Append(enqueued[q], e)
          /\ delivered'[q] = delivered[q] /\ okSince'[q] = okSince[q]
          /\ permitted' = permitted
      BY <1>1, <2>2
    <3>2. /\ Well(Push(sub[q], e))
          /\ Sound(Push(sub[q], e), Append(enqueued[q], e), delivered[q])
          /\ Push(sub[q], e).target = sub[q].target
          /\ \/ /\ Push(sub[q], e).at = sub[q].at
                /\ Push(sub[q], e).verdict = sub[q].verdict
             \/ Push(sub[q], e).at = "authorize1"
             \/ Push(sub[q], e).at = "off"
      BY <1>2, <2>1, <2>2, PushSound
    <3>3. Append(enqueued[q], e) \in Seq(Receipt)
      BY <1>2, <2>1
    <3>4. FreshOf(q)'
      BY <2>1, <3>1, <3>2 DEF FreshOf, At
    <3> QED
      BY <3>1, <3>2, <3>3, <3>4
  <2>3. CASE ~Given(q)
    <3>1. /\ sub'[q] = sub[q] /\ enqueued'[q] = enqueued[q]
          /\ delivered'[q] = delivered[q] /\ okSince'[q] = okSince[q]
          /\ permitted' = permitted
      BY <1>1, <2>3
    <3> QED
      BY <2>1, <3>1 DEF FreshOf, At
  <2> QED
    BY <2>2, <2>3
<1>4. /\ sub' \in [Subs -> Registration]
      /\ enqueued' \in [Subs -> Seq(Receipt)]
  <2>1. \A q \in Subs : sub'[q] \in Registration
    BY <1>3 DEF Well
  <2> HIDE DEF Given
  <2> QED
    BY <1>1, <1>3, <2>1
<1>5. TypeOK'
  BY <1>1, <1>2, <1>3, <1>4, TypedIs, TypedNext DEF Inv
<1>6. StoppedIsQuiet'
  BY <1>1 DEF StoppedIsQuiet
<1> QED
  BY <1>3, <1>5, <1>6 DEF Inv

LEMMA CommitKept ==
  ASSUME Inv, NEW i \in Instances, Commit(i)
  PROVE  Inv'
<1>1. /\ rev' = [rev EXCEPT ![i] = rev[i] + 1]
      /\ UNCHANGED <<sub, stopped, permitted, seen, flips, enqueued,
                     delivered, okSince>>
  BY DEF Commit
<1>2. rev' \in [Instances -> Nat]
  BY <1>1, TypedIs DEF Inv
<1> QED
  BY <1>1, <1>2, TypedIs, TypedNext DEF Inv, StoppedIsQuiet, FreshOf, At

\* When a permission is granted, every target it is for was permitted.
LEMMA FlipKept ==
  ASSUME Inv, NEW i \in Instances, Flip(i)
  PROVE  Inv'
<1>1. /\ flips' = flips + 1
      /\ permitted' = [permitted EXCEPT ![i] = ~permitted[i]]
      /\ okSince' = [s \in Subs |-> okSince[s]
                       \/ (sub[s].target = i /\ permitted'[i])]
      /\ UNCHANGED <<sub, stopped, rev, seen, enqueued, delivered>>
  BY DEF Flip
<1>2. permitted' \in [Instances -> BOOLEAN]
  BY <1>1, TypedIs DEF Inv
<1>3. okSince' \in [Subs -> BOOLEAN] /\ flips' \in Nat
  BY <1>1, <1>2, TypedIs DEF Inv
<1>4. ASSUME NEW s \in Subs PROVE FreshOf(s)'
  <2>1. /\ okSince'[s] = (okSince[s] \/ (sub[s].target = i /\ permitted'[i]))
        /\ sub'[s] = sub[s] /\ FreshOf(s)
    BY <1>1 DEF Inv
  <2>2. okSince[s] => okSince'[s]
    BY <2>1
  <2>3. CASE sub[s].target = i
    BY <2>1, <2>2, <2>3 DEF FreshOf, At
  <2>4. CASE sub[s].target # i
    <3>1. permitted'[sub[s].target] = permitted[sub[s].target]
      BY <1>1, <2>4, TypedIs, OneIs DEF Inv, Well, Registration
    <3> QED
      BY <2>1, <2>2, <3>1 DEF FreshOf, At
  <2> QED
    BY <2>3, <2>4
<1> QED
  BY <1>1, <1>2, <1>3, <1>4, TypedIs, TypedNext DEF Inv, StoppedIsQuiet

LEMMA InitInv == Init => Inv
<1> SUFFICES ASSUME Init PROVE Inv
  OBVIOUS
<1>1. New \in Registration
  BY DEF New, Registration, NoEvent, Receipt, NoRev
<1>2. \A s \in Subs : sub[s] = New /\ enqueued[s] = <<>>
                      /\ delivered[s] = <<>>
  BY DEF Init
<1>3. Well(New) /\ Sound(New, <<>>, <<>>)
  BY <1>1, QueueBounds DEF Well, Sound, New
<1>4. TypeOK
  <2>1. <<>> \in Seq(Receipt) /\ <<>> \in Seq(Event)
    OBVIOUS
  <2>2. /\ sub \in [Subs -> Registration]
        /\ enqueued \in [Subs -> Seq(Receipt)]
        /\ delivered \in [Subs -> Seq(Event)]
        /\ okSince \in [Subs -> BOOLEAN]
    BY <1>1, <2>1 DEF Init
  <2>3. /\ rev \in [Instances -> Nat] /\ seen \in Nat /\ flips \in Nat
        /\ permitted \in [Instances -> BOOLEAN] /\ stopped \in BOOLEAN
    BY DEF Init
  <2>4. \A s \in Subs : Well(sub[s])
    BY <1>2, <1>3
  <2> QED
    BY <2>2, <2>3, <2>4, TypedIs
<1>5. StoppedIsQuiet
  BY DEF StoppedIsQuiet, Init
<1>6. \A s \in Subs : FreshOf(s)
  <2>1. New.at = "new"
    BY DEF New
  <2> QED
    BY <1>2, <2>1 DEF FreshOf, At
<1> QED
  BY <1>2, <1>3, <1>4, <1>5, <1>6 DEF Inv

LEMMA NextInv == Inv /\ [Next]_vars => Inv'
<1> SUFFICES ASSUME Inv, [Next]_vars PROVE Inv'
  OBVIOUS
<1>1. CASE UNCHANGED vars
  BY <1>1, TypedIs, TypedNext DEF vars, Inv, StoppedIsQuiet, FreshOf, At
<1>2. CASE Next
  <2>1. ASSUME NEW s \in Subs, Step(s) PROVE Inv'
    BY <2>1, QueryKept, RegisterKept, AuthorizeKept, PumpEndsKept,
       DeliverKept, DeliverStopKept DEF Step
  <2>2. ASSUME NEW s \in Subs,
               Unsubscribe(s) \/ \E i \in Instances : Subscribe(s, i)
        PROVE  Inv'
    BY <2>2, UnsubscribeKept, SubscribeKept
  <2>3. ASSUME NEW i \in Instances, NEW r \in NoRev..rev[i], Observe(i, r)
        PROVE  Inv'
    <3>1. r \in Int
      BY TypedIs DEF Inv, NoRev
    <3> QED
      BY <2>3, <3>1, ObserveKept
  <2> QED
    BY <1>2, <2>1, <2>2, <2>3, CloseKept, CommitKept, FlipKept DEF Next
<1> QED
  BY <1>1, <1>2

LEMMA InvAlways == Spec => []Inv
BY InitInv, NextInv, PTL DEF Spec

-----------------------------------------------------------------------------
(* The theorems                                                             *)

\* Every registration of V10SubscriptionRegistry is well formed, an active one
\* is registered, and a subscribe that has begun has its target.
THEOREM TypeCorrect == Spec => []TypeOK
<1>1. Inv => TypeOK
  BY DEF Inv
<1> QED
  BY <1>1, InvAlways, PTL

\* observe and #pump together lose no receipt, repeat none and keep their
\* order, for every bound of the queue and however many subscriptions there
\* are: what an active listener was told, the event in hand and the queue are
\* the receipts it was given.
THEOREM NothingIsLost == Spec => []NothingLost
<1>1. Inv => NothingLost
  <2> SUFFICES ASSUME Inv, NEW s \in Subs, sub[s].active
               PROVE  enqueued[s] = Told(delivered[s]) \o Hand(sub[s])
                                      \o sub[s].queue
    BY DEF NothingLost, Told, Hand, At
  <2> QED
    BY DEF Inv, Sound
<1> QED
  BY <1>1, InvAlways, PTL

\* No wake-up is lost between observe and the last turn of #pump's loop: a
\* queue that holds receipts has its pump under way, and is within its bound.
THEOREM PumpKeepsRunning == Spec => []PumpRunsWhileQueued
<1>1. Inv => PumpRunsWhileQueued
  BY DEF Inv, PumpRunsWhileQueued, Sound
<1> QED
  BY <1>1, InvAlways, PTL

\* Once stopAll has run no registration is active and nothing is queued, those
\* of a subscribe that still awaited its query included (activation.ts asserts
\* itself open again).
THEOREM StopIsQuiet == Spec => []StoppedIsQuiet
<1>1. Inv => StoppedIsQuiet
  BY DEF Inv
<1> QED
  BY <1>1, InvAlways, PTL

\* Only Deliver tells a listener anything, and only its own.
LEMMA WhoIsTold ==
  ASSUME Inv, [Next]_vars, NEW s \in Subs, delivered'[s] # delivered[s]
  PROVE  Deliver(s)
<1>1. delivered' # delivered
  OBVIOUS
<1>2. PICK q \in Subs : Deliver(q)
  BY <1>1 DEF Next, Step, vars, QueryAuthorize, QueryRead, Register,
     Authorize, PumpEnds, Unsubscribe, Subscribe, Stop, Observe, Commit, Flip
<1>3. q = s
  BY <1>2, TypedIs DEF Deliver, Inv
<1> QED
  BY <1>2, <1>3

\* #pump looks at its registration again after the last await: no listener is
\* called once its subscription has ended or the facade has stopped.
THEOREM EndIsSilent == Spec => EndedIsSilent
<1>1. Inv /\ [Next]_vars
        => [\A s \in Subs : delivered'[s] # delivered[s]
              => sub[s].active /\ ~stopped]_vars
  BY WhoIsTold DEF Deliver
<1> QED
  BY <1>1, InvAlways, PTL DEF Spec, EndedIsSilent

\* #pump asks the Host once more after its query: a listener is only called
\* for a target that was permitted at some instant since that query was
\* answered, however often the permission changes in between.
THEOREM VerdictIsFresh == Spec => FreshVerdict
<1>1. Inv /\ [Next]_vars
        => [\A s \in Subs : delivered'[s] # delivered[s]
              => okSince[s]]_vars
  BY WhoIsTold DEF Deliver, Inv, FreshOf
<1> QED
  BY <1>1, InvAlways, PTL DEF Spec, FreshVerdict
=============================================================================
