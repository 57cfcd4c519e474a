------------------------- MODULE SubscriptionRegistry -------------------------
(***************************************************************************)
(* The live subscriptions of one activation: V10SubscriptionRegistry of    *)
(* src/packages/microkernel/src/internal/subscription-runtime.ts, the      *)
(* subscribe and close of the facade that owns it (activation.ts), and the *)
(* authorized query both await (multib-query.ts).                          *)
(*                                                                         *)
(* One JavaScript thread runs everything.  A step of this module is what   *)
(* runs between two awaits; a promise of the Host's settles in a step of   *)
(* its own, so that any other step may come between its answer and the     *)
(* code that uses it.  A subscription has one await under way at most, and *)
(* `at` names it:                                                          *)
(*   new, resolved, refused    before registration: the facade's subscribe *)
(*   authorize1, authorize2, read    the authorized query, of the facade's *)
(*                             subscribe or of the pump                    *)
(*   off, authorize, verdict   the pump                                    *)
(*                                                                         *)
(* A receipt is its place in the order of observation and the revision of  *)
(* the instance projection it carries, if any: receipts of refusals carry  *)
(* none, and replayed receipts carry an old one.                           *)
(***************************************************************************)
EXTENDS Integers, Sequences

CONSTANTS
  Subs,        \* calls of subscribe
  Instances,   \* the targets
  QueueBound,  \* V10_SUBSCRIPTION_QUEUE_BOUND (128 in the code)
  MaxEvents,   \* bound on observed receipts
  MaxRev,      \* bound on the revisions of an instance
  MaxFlips,    \* bound on changes of the Host's authorization
  NoInstance

ASSUME SubscriptionAssumption ==
  /\ QueueBound \in Nat \ {0}
  /\ MaxEvents \in Nat /\ MaxRev \in Nat /\ MaxFlips \in Nat
  /\ NoInstance \notin Instances

VARIABLES
  sub,        \* the registration of each subscribe call
  stopped,    \* stopAll has run and the facade is closed, in one step
  rev,        \* stateRevision of each instance
  permitted,  \* what the Host would answer for each instance now
  seen, flips,
  enqueued,   \* the receipts each subscription was given, in order
  delivered,  \* the events its listener was called with, in order
  okSince     \* the target was permitted at some instant since the query of
              \* the event in hand was answered

vars == <<sub, stopped, rev, permitted, seen, flips,
          enqueued, delivered, okSince>>

NoRev == -1
NoEvent == [id |-> 0, rev |-> NoRev]
QueryAt == {"authorize1", "authorize2", "read"}
PumpAt == QueryAt \cup {"authorize", "verdict"}
New == [at |-> "new", target |-> NoInstance, active |-> FALSE,
        registered |-> FALSE, revoked |-> FALSE, queue |-> <<>>,
        event |-> NoEvent, snap |-> NoRev, verdict |-> FALSE]

At(s, l) == sub[s].at = l
Set(s, r) == sub' = [sub EXCEPT ![s] = r]

Init ==
  /\ sub = [s \in Subs |-> New]
  /\ stopped = FALSE
  /\ rev = [i \in Instances |-> 0]
  /\ permitted = [i \in Instances |-> TRUE]
  /\ seen = 0
  /\ flips = 0
  /\ enqueued = [s \in Subs |-> <<>>]
  /\ delivered = [s \in Subs |-> <<>>]
  /\ okSince = [s \in Subs |-> FALSE]

-----------------------------------------------------------------------------
(* Registrations                                                            *)

\* #endRegistration: the registration leaves the registry with its queue; a
\* pump that awaits goes on awaiting.
Ended(r, byHandle) ==
  [r EXCEPT !.active = FALSE, !.queue = <<>>, !.revoked = @ \/ byHandle]

\* Broken form: the event is read and not taken.
TurnPumpPeeks(r) ==
  IF r.active /\ r.queue # <<>>
    THEN [r EXCEPT !.at = "authorize1", !.event = Head(r.queue),
                   !.queue = IF Len(r.queue) > 1 THEN Tail(r.queue) ELSE @]
    ELSE [r EXCEPT !.at = "off"]

\* Broken form: the pump stops after each event.
TurnPumpOnce(r) ==
  IF r.active /\ r.queue # <<>> /\ r.at = "off"
    THEN [r EXCEPT !.at = "authorize1", !.event = Head(r.queue),
                   !.queue = Tail(r.queue)]
    ELSE [r EXCEPT !.at = "off"]

\* The head of the pump's loop: the next event is taken and its query begins,
\* or the pump ends.  Whoever stops the registry empties the queue.
TurnPump(r) ==
  IF r.active /\ r.queue # <<>>
    THEN [r EXCEPT !.at = "authorize1", !.event = Head(r.queue),
                   !.queue = Tail(r.queue)]
    ELSE [r EXCEPT !.at = "off"]

\* Broken form: nobody starts the pump of a subscription that was idle.
PushUnpumped(r, e) == [r EXCEPT !.queue = Append(@, e)]

\* observe, for one registration of the receipt's instance: a full queue ends
\* it; otherwise the receipt is queued and a pump that is off starts at once.
Push(r, e) ==
  IF Len(r.queue) >= QueueBound
    THEN Ended(r, FALSE)
    ELSE LET pushed == [r EXCEPT !.queue = Append(@, e)]
         IN IF r.at = "off" THEN TurnPump(pushed) ELSE pushed

-----------------------------------------------------------------------------
(* The facade                                                               *)

\* subscribe, up to the first await of its query.
Subscribe(s, i) ==
  /\ At(s, "new")
  /\ ~stopped
  /\ Set(s, [sub[s] EXCEPT !.at = "authorize1", !.target = i])
  /\ UNCHANGED <<stopped, rev, permitted, seen, flips,
                 enqueued, delivered, okSince>>

\* Broken form: the facade is not asserted open again after the query.
RegisterAlways(s) ==
  /\ At(s, "resolved")
  /\ Set(s, [sub[s] EXCEPT !.at = "off", !.active = TRUE, !.registered = TRUE])
  /\ UNCHANGED <<stopped, rev, permitted, seen, flips,
                 enqueued, delivered, okSince>>

\* subscribe, after its query: a facade that was closed meanwhile refuses.
Register(s) ==
  /\ At(s, "resolved")
  /\ Set(s, IF stopped
              THEN [sub[s] EXCEPT !.at = "refused"]
              ELSE [sub[s] EXCEPT !.at = "off", !.active = TRUE,
                                  !.registered = TRUE])
  /\ UNCHANGED <<stopped, rev, permitted, seen, flips,
                 enqueued, delivered, okSince>>

\* The handle's unsubscribe: once, while the registration is active.
Unsubscribe(s) ==
  /\ sub[s].active
  /\ Set(s, Ended(sub[s], TRUE))
  /\ UNCHANGED <<stopped, rev, permitted, seen, flips,
                 enqueued, delivered, okSince>>

AllEnded == [s \in Subs |-> Ended(sub[s], FALSE)]

\* close: stopAll, then closed.
Stop ==
  /\ ~stopped
  /\ stopped' = TRUE
  /\ sub' = AllEnded
  /\ UNCHANGED <<rev, permitted, seen, flips, enqueued, delivered, okSince>>

-----------------------------------------------------------------------------
(* The authorized query, of subscribe and of the pump                       *)

\* Broken form: the pump carries the verdict of its query forward.
AnsweredForAll(s, r) ==
  /\ Set(s, [sub[s] EXCEPT
               !.at = IF sub[s].registered THEN "verdict" ELSE "resolved",
               !.snap = r, !.verdict = TRUE])
  /\ okSince' = [okSince EXCEPT ![s] = permitted[sub[s].target]]

\* Broken form: a refused query ends the pump as it ends subscribe.
AnsweredRefuses(s, r) ==
  /\ Set(s, [sub[s] EXCEPT
               !.at = IF r = NoRev THEN "refused"
                      ELSE IF sub[s].registered THEN "authorize"
                      ELSE "resolved",
               !.snap = r])
  /\ okSince' = [okSince EXCEPT ![s] = permitted[sub[s].target]]

\* The query has its answer: the instance at revision r, or NoRev for a
\* refusal, which the pump takes for an event without a snapshot.
Answered(s, r) ==
  /\ Set(s, IF sub[s].registered
              THEN [sub[s] EXCEPT !.at = "authorize", !.snap = r]
              ELSE [sub[s] EXCEPT
                      !.at = IF r = NoRev THEN "refused" ELSE "resolved"])
  /\ okSince' = [okSince EXCEPT ![s] = permitted[sub[s].target]]

\* resolveOne asks the Host twice; a fault of the Host refuses.
QueryAuthorize(s) ==
  /\ At(s, "authorize1") \/ At(s, "authorize2")
  /\ \/ /\ permitted[sub[s].target]
        /\ Set(s, [sub[s] EXCEPT
                     !.at = IF @ = "authorize1" THEN "authorize2" ELSE "read"])
        /\ UNCHANGED okSince
     \/ Answered(s, NoRev)
  /\ UNCHANGED <<stopped, rev, permitted, seen, flips, enqueued, delivered>>

\* The one physical read, which a closed facade refuses.
QueryRead(s) ==
  /\ At(s, "read")
  /\ \/ ~stopped /\ Answered(s, rev[sub[s].target])
     \/ Answered(s, NoRev)
  /\ UNCHANGED <<stopped, rev, permitted, seen, flips, enqueued, delivered>>

-----------------------------------------------------------------------------
(* observe and the pump                                                     *)

\* observe: a receipt of instance i that carries revision r is given to every
\* active registration of i.
Observe(i, r) ==
  LET e == [id |-> seen + 1, rev |-> r]
      Given(s) == sub[s].active /\ sub[s].target = i
  IN /\ seen < MaxEvents
     /\ ~stopped
     /\ seen' = seen + 1
     /\ sub' = [s \in Subs |-> IF Given(s) THEN Push(sub[s], e) ELSE sub[s]]
     /\ enqueued' = [s \in Subs |->
                       IF Given(s) THEN Append(enqueued[s], e) ELSE enqueued[s]]
     /\ UNCHANGED <<stopped, rev, permitted, flips, delivered, okSince>>

\* The Host's answer to the pump's own authorize; a fault is a refusal.
Authorize(s) ==
  /\ At(s, "authorize")
  /\ \E ok \in {permitted[sub[s].target], FALSE} :
       Set(s, [sub[s] EXCEPT !.at = "verdict", !.verdict = ok])
  /\ UNCHANGED <<stopped, rev, permitted, seen, flips,
                 enqueued, delivered, okSince>>

\* The event carries a snapshot only when the query found the very revision
\* of the receipt.
EventOf(r) == [id |-> r.event.id, rev |-> r.event.rev,
               snap |-> IF r.snap = r.event.rev THEN r.snap ELSE NoRev]

\* Broken form: liveness is not checked again after the awaits.
DeliverDead(s) ==
  /\ At(s, "verdict")
  /\ sub[s].verdict
  /\ delivered' = [delivered EXCEPT ![s] = Append(@, EventOf(sub[s]))]
  /\ Set(s, TurnPump(sub[s]))
  /\ UNCHANGED <<stopped, rev, permitted, seen, flips, enqueued, okSince>>

\* After the verdict: a refusal ends the subscription, and a subscription
\* that ended while the pump awaited gets nothing.
PumpEnds(s) ==
  /\ At(s, "verdict")
  /\ ~sub[s].verdict \/ ~sub[s].active \/ sub[s].revoked \/ stopped
  /\ Set(s, [(IF sub[s].verdict THEN sub[s] ELSE Ended(sub[s], FALSE))
               EXCEPT !.at = "off"])
  /\ UNCHANGED <<stopped, rev, permitted, seen, flips,
                 enqueued, delivered, okSince>>

\* The listener is called and may unsubscribe or stop the facade; then the
\* loop goes on.
Deliver(s) ==
  /\ At(s, "verdict")
  /\ sub[s].verdict /\ sub[s].active /\ ~sub[s].revoked /\ ~stopped
  /\ delivered' = [delivered EXCEPT ![s] = Append(@, EventOf(sub[s]))]
  /\ \/ /\ Set(s, TurnPump(sub[s]))
        /\ UNCHANGED stopped
     \/ /\ Set(s, TurnPump(Ended(sub[s], TRUE)))
        /\ UNCHANGED stopped
     \/ /\ sub' = [AllEnded EXCEPT ![s] = TurnPump(@)]
        /\ stopped' = TRUE
  /\ UNCHANGED <<rev, permitted, seen, flips, enqueued, okSince>>

-----------------------------------------------------------------------------
(* The kernel and the Host around them                                      *)

\* A turn is admitted, here or in another process.
Commit(i) ==
  /\ rev[i] < MaxRev
  /\ rev' = [rev EXCEPT ![i] = @ + 1]
  /\ UNCHANGED <<sub, stopped, permitted, seen, flips,
                 enqueued, delivered, okSince>>

\* The Host revokes the permission for an instance, or grants it again.
Flip(i) ==
  /\ flips < MaxFlips
  /\ flips' = flips + 1
  /\ permitted' = [permitted EXCEPT ![i] = ~@]
  /\ okSince' = [s \in Subs |->
                   okSince[s] \/ (sub[s].target = i /\ permitted'[i])]
  /\ UNCHANGED <<sub, stopped, rev, seen, enqueued, delivered>>

Step(s) ==
  \/ QueryAuthorize(s) \/ QueryRead(s) \/ Register(s)
  \/ Authorize(s) \/ PumpEnds(s) \/ Deliver(s)

Next ==
  \/ \E s \in Subs : Step(s) \/ Unsubscribe(s)
                     \/ \E i \in Instances : Subscribe(s, i)
  \/ Stop
  \/ \E i \in Instances :
       \/ \E r \in NoRev..rev[i] : Observe(i, r)
       \/ Commit(i)
       \/ Flip(i)

Spec == Init /\ [][Next]_vars

\* The promises of the Host settle, and what awaits them runs.
FairSpec == Spec /\ \A s \in Subs : WF_vars(Step(s))

-----------------------------------------------------------------------------
Receipt == [id : Nat, rev : Int]
Event == [id : Nat, rev : Int, snap : Int]

Registration ==
  [at : {"new", "resolved", "refused", "off"} \cup PumpAt,
   target : Instances \cup {NoInstance}, active : BOOLEAN,
   registered : BOOLEAN, revoked : BOOLEAN, queue : Seq(Receipt),
   event : Receipt, snap : Int, verdict : BOOLEAN]

\* Registrations are well formed, only a registered one is active, and every
\* call of subscribe that has begun has its target (Registration, register).
TypeOK ==
  /\ sub \in [Subs -> Registration]
  /\ \A s \in Subs :
       /\ sub[s].active => sub[s].registered
       /\ sub[s].registered => sub[s].at \in PumpAt \cup {"off"}
       /\ ~At(s, "new") => sub[s].target \in Instances
  /\ stopped \in BOOLEAN
  /\ rev \in [Instances -> Nat]
  /\ permitted \in [Instances -> BOOLEAN]
  /\ seen \in Nat /\ flips \in Nat
  /\ enqueued \in [Subs -> Seq(Receipt)]
  /\ delivered \in [Subs -> Seq(Event)]
  /\ okSince \in [Subs -> BOOLEAN]

\* A live subscription has lost nothing and repeated nothing: what its
\* listener was called with, the event the pump has in hand and the queue are,
\* in this order, the receipts it was given (observe against #pump).
NothingLost ==
  \A s \in Subs : sub[s].active =>
    LET done == [k \in 1..Len(delivered[s]) |->
                   [id |-> delivered[s][k].id, rev |-> delivered[s][k].rev]]
        hand == IF At(s, "off") THEN <<>> ELSE <<sub[s].event>>
    IN enqueued[s] = done \o hand \o sub[s].queue

\* No wake-up is lost: while receipts are queued a pump is on its way, and the
\* queue never exceeds its bound (#schedulePump, the finally of #pump).
PumpRunsWhileQueued ==
  \A s \in Subs : /\ sub[s].queue # <<>> => sub[s].at \in PumpAt
                  /\ Len(sub[s].queue) <= QueueBound

\* After stop nobody is subscribed and nothing is queued, whatever subscribe
\* calls and pumps were under way (stopAll, the second assertOpen of subscribe).
StoppedIsQuiet ==
  stopped => \A s \in Subs : ~sub[s].active /\ sub[s].queue = <<>>

\* A listener is never called once its subscription has ended or the facade
\* has stopped, even when they end while the pump awaits a verdict that then
\* is TRUE ("re-check liveness AFTER every await").
EndedIsSilent ==
  [][\A s \in Subs : delivered'[s] # delivered[s]
       => sub[s].active /\ ~stopped]_vars

\* A permission revoked while the pump awaited its query is noticed: whoever
\* is called was permitted at some instant after the query was answered ("The
\* final explicit authorization MUST run after every optional read").
FreshVerdict ==
  [][\A s \in Subs : delivered'[s] # delivered[s] => okSince[s]]_vars

\* Every receipt a subscription is given reaches its listener, or the
\* subscription ends (the pump under promises that settle).
EveryReceiptAnswered ==
  \A s \in Subs : \A n \in 1..MaxEvents :
    (\E k \in 1..Len(enqueued[s]) : enqueued[s][k].id = n)
      ~> (\/ ~sub[s].active
          \/ \E k \in 1..Len(delivered[s]) : delivered[s][k].id = n)
=============================================================================
