---------------------------- MODULE DurableControls ----------------------------
(***************************************************************************)
(* Durable controls: the external work, poison recovery and child          *)
(* invocation coordinators of src/packages/host-node/src/                  *)
(* durable-controls.ts, and the gateway verbs that call them               *)
(* (src/packages/domain-harness/src/host-v8/kernel-gateway.ts), over one   *)
(* document store and a Kernel that admits a message once.                 *)
(*                                                                         *)
(* A call is one gateway verb, with its principal; a step is what it does  *)
(* between two awaits.  Every coordinator keeps one document per key, which *)
(* is never removed and changes by compare-and-swap only; the winner of    *)
(* the swap submits the turn the document stores.                          *)
(***************************************************************************)
EXTENDS Integers, FiniteSets

CONSTANTS
  Calls,
  Plans,       \* the calls of a run: [Calls -> verb, key, arg and roles]
  Works,       \* external correlations, in the order of their keys
  Poisons,     \* poisoned messages
  MaxOrdinal,  \* bound on the invocations of one parent and child
  Inputs,      \* payloads, corrective inputs
  MaxRounds,   \* MAX_CAS_ATTEMPTS (8 in the code)
  MaxFaults,   \* bound on submissions that throw once, or for the first time
  MaxCrashes,  \* bound on calls that die
  NoKey, NoInput, NoOutcome

Ordinals == 1 .. MaxOrdinal
Invocation(o) == <<"child", o>>
Children == {Invocation(o) : o \in Ordinals}
WorkKeys == {<<"work", w>> : w \in Works}
PoisonKeys == {<<"poison", q>> : q \in Poisons}
Keys == WorkKeys \cup PoisonKeys \cup Children

Verbs == {"register", "callback", "deadline", "sweep", "authorize", "deliver",
          "send", "terminal"}
\* The turns a document may store, named by what makes their message id.
Tags == {"callback", "timer", "recovery", "child", "done", "error"}

\* The documents a verb works on.
KeysOf(verb) ==
  IF verb \in {"register", "callback", "deadline", "sweep"} THEN WorkKeys
  ELSE IF verb \in {"authorize", "deliver"} THEN PoisonKeys ELSE Children

ASSUME ControlsAssumption ==
  /\ Works \subseteq Nat
  /\ MaxOrdinal \in Nat /\ MaxRounds \in Nat \ {0}
  /\ MaxFaults \in Nat /\ MaxCrashes \in Nat
  /\ NoKey \notin Keys /\ NoInput \notin Inputs
  /\ NoOutcome \notin Tags \X (Inputs \cup {NoInput})
  /\ \A p \in Plans :
       /\ p \in [Calls -> [verb : Verbs, key : Keys \cup {NoKey},
                           arg : Inputs \cup {NoInput}, tag : Tags,
                           roles : SUBSET Tags]]
       /\ \A c \in Calls :
            /\ p[c].key \in KeysOf(p[c].verb) \cup {NoKey}
            /\ p[c].key = NoKey => p[c].verb \in {"send", "sweep"}
            /\ p[c].verb = "terminal" => p[c].tag \in {"done", "error"}

VARIABLES
  plan,     \* what each call is
  doc,      \* the documents
  turns,    \* the turns the Kernel admitted: message and input
  told,     \* the messages the Kernel has answered: admitted or denied
  due,      \* the deadline of the correlations has passed
  stuck,    \* the messages that the Kernel throws for whenever they come
  call,
  budget    \* faults and crashes so far

vars == <<plan, doc, turns, told, due, stuck, call, budget>>

NoDoc == [status |-> "absent", rev |-> 0, tag |-> "callback",
          input |-> NoInput, marked |-> FALSE]
NewCall == [at |-> "idle", key |-> NoKey, late |-> FALSE, rev |-> 0,
            input |-> NoInput, tag |-> "callback", outcome |-> "none",
            todo |-> {}, round |-> 0]

\* The instances that nobody opens while the controls run: that of a
\* correlation, which registerExternalWork does not look for, or the child.
Unopened ==
  {W \cup C : W \in SUBSET {k \in WorkKeys : \E c \in Calls : plan[c].key = k},
             C \in IF \E c \in Calls : plan[c].verb = "terminal"
                   THEN {{}, Children} ELSE {{}}}

Init ==
  /\ plan \in Plans
  /\ \E U \in Unopened : stuck = U \X {"callback", "timer", "child"}
  /\ doc = [k \in Keys |-> NoDoc]
  /\ turns = {}
  /\ told = {}
  /\ due = FALSE
  /\ call = [c \in Calls |-> NewCall]
  /\ budget = [faults |-> 0, crashes |-> 0]

Verb(c) == plan[c].verb
At(c, l) == call[c].at = l
Put(c, r) == call' = [call EXCEPT ![c] = r]
Doc(c) == doc[call[c].key]

\* A call ends; the Host calls recoverDurableControls again and again.
End(c, l) ==
  Put(c, [NewCall EXCEPT !.at = IF Verb(c) = "sweep" THEN "idle" ELSE l,
                         !.key = IF Verb(c) = "sweep" THEN NoKey
                                                      ELSE call[c].key])

\* After one correlation a sweep goes to the next, any other call ends.
Leave(c) ==
  IF Verb(c) = "sweep"
  THEN Put(c, [call[c] EXCEPT !.at = "sweep", !.round = 0, !.rev = 0])
  ELSE End(c, "done")

Settle(c, r) == Put(c, [r EXCEPT !.at = "settle", !.round = 0])

-----------------------------------------------------------------------------
(* What the gateway checks and reads before it settles                      *)

MayUse(c, tag) == tag \in plan[c].roles

\* The intent a call settles: a callback that is received late settles the
\* timeout.
Settling(c, late) ==
  IF Verb(c) = "callback" THEN IF late THEN "timer" ELSE "callback"
  ELSE IF Verb(c) = "deadline" THEN "timer"
  ELSE IF Verb(c) = "deliver" THEN "recovery" ELSE plan[c].tag

\* Broken form: a callback needs the role of the callback intent, late or not.
IntentOfVerb(c) == Settling(c, FALSE)

\* The intent whose role the verb asks for.
IntentOf(c) == Settling(c, due)

\* Broken form: an unknown document is not refused.
RefusesKnown(c, from) ==
  doc[plan[c].key].status \in from /\ ~MayUse(c, IntentOf(c))

\* The document is unknown, or it could be settled as it was read and the
\* principal has no role of the intent: the verb throws.
Refuses(c, from) ==
  \/ doc[plan[c].key].status = "absent"
  \/ doc[plan[c].key].status \in from /\ ~MayUse(c, IntentOf(c))

\* registerExternalWork, authorizePoisonRecovery: the document is created, or
\* found; found with other material the call throws, and so it does when the
\* message to authorize has no failed effect.
Create(c) ==
  LET k == plan[c].key
  IN  /\ At(c, "idle") /\ Verb(c) \in {"register", "authorize"}
      /\ \/ doc[k].status # "absent" /\ UNCHANGED doc
         \/ Verb(c) = "authorize" /\ UNCHANGED doc
         \/ /\ doc[k].status = "absent"
            /\ doc' = [doc EXCEPT ![k] =
                 [NoDoc EXCEPT !.input = plan[c].arg,
                    !.status = IF Verb(c) = "register" THEN "waiting"
                                                       ELSE "authorized"]]
      /\ End(c, "done")
      /\ UNCHANGED <<plan, turns, told, due, stuck, budget>>

\* acceptExternalCallback, fireDeadline, deliverPoisonRecovery and
\* deliverChildTerminal read the document to check the role, and then settle.
\* A callback keeps its receivedAt; firedAt is taken now.
Ask(c, verb, from) ==
  /\ At(c, "idle") /\ Verb(c) = verb
  /\ IF Refuses(c, from) THEN End(c, "done")
     ELSE Settle(c, [NewCall EXCEPT !.key = plan[c].key, !.late = due,
                       !.tag = Settling(c, due),
                       !.input = IF Settling(c, due) = "timer" THEN NoInput
                                 ELSE plan[c].arg])
  /\ UNCHANGED <<plan, doc, turns, told, due, stuck, budget>>

Accept(c) == Ask(c, "callback", {"waiting"})
Fire(c) == Ask(c, "deadline", {"waiting"})
Deliver(c) == Ask(c, "deliver", {"authorized", "delivered"})
Terminal(c) == Ask(c, "terminal", {"accepted"})

-----------------------------------------------------------------------------
(* sendChildMessage and open                                                *)

Allocated == {k \in Children : doc[k].status # "absent"}

Submit(c, r) == Put(c, [r EXCEPT !.at = "submit"])

\* An addressed invocation is sent again only while it is pending.
Readdress(c, k) ==
  IF doc[k].status = "pending"
  THEN Submit(c, [NewCall EXCEPT !.key = k, !.tag = "child",
                                 !.input = plan[c].arg])
  ELSE End(c, "done")

\* Without an ordinal the next one is the length of the list plus one.
Send(c) ==
  LET k == plan[c].key
      next == Cardinality(Allocated) + 1
  IN  /\ At(c, "idle") /\ Verb(c) = "send" /\ MayUse(c, "child")
      /\ \/ /\ k # NoKey /\ doc[k].status # "absent"
            /\ Readdress(c, k)
         \/ /\ k # NoKey /\ doc[k].status = "absent"
            /\ Put(c, [NewCall EXCEPT !.at = "allocate", !.key = k])
         \/ /\ k = NoKey /\ next \in Ordinals
            /\ Put(c, [NewCall EXCEPT !.at = "allocate",
                                      !.key = Invocation(next)])
      /\ UNCHANGED <<plan, doc, turns, told, due, stuck, budget>>

\* Broken form: the put does not say mustBeAbsent.
FreeAlways(k) == TRUE

Free(k) == doc[k].status = "absent"

\* put with mustBeAbsent: a taken ordinal is re-addressed when it was asked
\* for, and passed over when it was counted.
Allocate(c) ==
  LET k == call[c].key
  IN  /\ At(c, "allocate")
      /\ \/ /\ Free(k)
            /\ doc' = [doc EXCEPT ![k] = [NoDoc EXCEPT !.status = "pending"]]
            /\ Submit(c, [NewCall EXCEPT !.key = k, !.tag = "child",
                                         !.input = plan[c].arg])
         \/ /\ ~Free(k) /\ UNCHANGED doc
            /\ \/ plan[c].key # NoKey /\ Readdress(c, k)
               \/ /\ plan[c].key = NoKey
                  /\ IF k[2] = MaxOrdinal THEN End(c, "done")
                     ELSE Put(c, [call[c] EXCEPT !.key = Invocation(k[2] + 1)])
      /\ UNCHANGED <<plan, turns, told, due, stuck, budget>>

-----------------------------------------------------------------------------
(* The settlement: load, decide, compare and swap                           *)

\* Broken form: the end of a child settles an invocation that is pending.
FromPending(c) ==
  IF Verb(c) \in {"callback", "deadline", "sweep"} THEN "waiting"
  ELSE IF Verb(c) = "deliver" THEN "authorized" ELSE "pending"

\* The status from which this call's settlement starts.
From(c) ==
  IF Verb(c) \in {"callback", "deadline", "sweep"} THEN "waiting"
  ELSE IF Verb(c) = "deliver" THEN "authorized"
  ELSE IF Verb(c) = "send" THEN "pending" ELSE "accepted"

\* Early fires throw; everything else settles its key from that status.
Settles(c) ==
  /\ Doc(c).status = From(c)
  /\ Verb(c) = "deadline" => call[c].late

\* What a call does when it is too late to settle: a delivered recovery is
\* submitted again, a second terminal is told so, a sweep goes on.
TooLate(c) ==
  IF Verb(c) = "deliver"
  THEN Submit(c, [call[c] EXCEPT !.input = Doc(c).input])
  ELSE IF Verb(c) = "terminal" /\ Doc(c).status \in {"done", "error"}
  THEN End(c, "already")
  ELSE Leave(c)

LoadToSettle(c) ==
  /\ At(c, "settle")
  /\ IF Settles(c)
     THEN Put(c, [call[c] EXCEPT !.at = "swap", !.rev = Doc(c).rev])
     ELSE TooLate(c)
  /\ UNCHANGED <<plan, doc, turns, told, due, stuck, budget>>

StatusOf(c) ==
  IF call[c].tag = "callback" THEN "callback_received"
  ELSE IF call[c].tag = "timer" THEN "timed_out"
  ELSE IF call[c].tag = "recovery" THEN "delivered"
  ELSE IF call[c].tag = "child" THEN call[c].outcome ELSE call[c].tag

\* The document after the settlement: its status, and the turn it stores.  The
\* input of a recovery was stored with its authorization.
Settled(c, d) ==
  [d EXCEPT !.status = StatusOf(c), !.rev = @ + 1, !.tag = call[c].tag,
            !.input = IF call[c].tag = "recovery" THEN @ ELSE call[c].input]

\* Broken form: the put does not name the revision that was read.
UnchangedAlways(c) == TRUE

Unchanged(c) == Doc(c).rev = call[c].rev

Swap(c) ==
  /\ At(c, "swap")
  /\ \/ /\ Unchanged(c)
        /\ doc' = [doc EXCEPT ![call[c].key] = Settled(c, @)]
        /\ IF Verb(c) = "send" THEN End(c, "done")
           ELSE Submit(c, [call[c] EXCEPT !.input = Settled(c, Doc(c)).input])
     \/ /\ ~Unchanged(c) /\ UNCHANGED doc
        /\ IF call[c].round + 1 = MaxRounds THEN End(c, "done")
           ELSE Put(c, [call[c] EXCEPT !.at = "settle", !.round = @ + 1])
  /\ UNCHANGED <<plan, turns, told, due, stuck, budget>>

-----------------------------------------------------------------------------
(* submitControlTurn                                                        *)

Message(c) == <<call[c].key, call[c].tag>>
Turn(c) == [msg |-> Message(c), input |-> call[c].input]
SameMessage(c) == {t \in turns : t.msg = Message(c)}

\* The Kernel evaluates the turn of a principal with the role.
Evaluates(c) == MayUse(c, call[c].tag) /\ Message(c) \notin stuck

\* The Kernel admits the turn, or answers with the original of its message.
Admits(c) ==
  /\ Evaluates(c) /\ SameMessage(c) \subseteq {Turn(c)}
  /\ turns' = turns \cup {Turn(c)}
Denies(c) ==
  /\ Evaluates(c) /\ SameMessage(c) = {}
  /\ UNCHANGED turns

\* The receipt of a child turn settles the send, any other is marked.
Concluded(c, outcome) ==
  Put(c, [call[c] EXCEPT !.at = IF Verb(c) = "send" THEN "settle" ELSE "mark",
                         !.outcome = outcome])

Answered(c) ==
  /\ At(c, "submit")
  /\ \/ Admits(c) /\ Concluded(c, "accepted")
     \/ Denies(c) /\ Concluded(c, "rejected")
  /\ told' = told \cup {Message(c)}
  /\ UNCHANGED <<plan, doc, due, stuck, budget>>

\* A permanent refusal of the submission rejects a child invocation: of the
\* input or the role of this send, or because the child was never opened.  An
\* earlier send of the invocation may have been admitted.
Refused(c) ==
  /\ At(c, "submit") /\ Verb(c) = "send"
  /\ Concluded(c, "rejected")
  /\ UNCHANGED <<plan, doc, turns, told, due, stuck, budget>>

\* What a submission leaves that gives no answer: its turn was admitted or not,
\* or it throws from now on, because an effect of it has failed or is ambiguous,
\* or because such a turn keeps the admission fence of its instance.
Unanswered(c) ==
  \/ Admits(c) /\ UNCHANGED stuck
  \/ UNCHANGED <<turns, stuck>>
  \/ /\ Evaluates(c) /\ SameMessage(c) = {}
     /\ stuck' = stuck \cup {Message(c)} /\ UNCHANGED turns

\* The submission throws: because it always does, or this once.
Fails(c) ==
  /\ At(c, "submit")
  /\ \/ Message(c) \in stuck /\ UNCHANGED <<turns, stuck, budget>>
     \/ /\ Message(c) \notin stuck /\ budget.faults < MaxFaults
        /\ Unanswered(c)
        /\ budget' = [budget EXCEPT !.faults = @ + 1]
  /\ UNCHANGED <<plan, doc, told, due>>

\* Broken form: a submission that throws is marked all the same.
ThrowsMarked(c) == Fails(c) /\ Concluded(c, "accepted")

\* A sweep ends there, the correlations behind are not reached.
Throws(c) == Fails(c) /\ End(c, "done")

\* submitAs throws: the principal has no role of the intent, or the message was
\* admitted with another input.
Conflicts(c) ==
  /\ At(c, "submit")
  /\ MayUse(c, call[c].tag) => ~(SameMessage(c) \subseteq {Turn(c)})
  /\ End(c, "done")
  /\ UNCHANGED <<plan, doc, turns, told, due, stuck, budget>>

\* markSubmitted: a settled document changes only by being marked, so a lost
\* swap finds the mark.
Mark(c) ==
  /\ At(c, "mark")
  /\ IF Doc(c).marked THEN UNCHANGED doc
     ELSE doc' = [doc EXCEPT ![call[c].key].marked = TRUE,
                             ![call[c].key].rev = @ + 1]
  /\ Leave(c)
  /\ UNCHANGED <<plan, turns, told, due, stuck, budget>>

-----------------------------------------------------------------------------
(* recoverDueAndSettled                                                     *)

Sweep(c) ==
  /\ At(c, "idle") /\ Verb(c) = "sweep"
  /\ Put(c, [NewCall EXCEPT !.at = "sweep", !.late = due,
       !.todo = {w \in Works : doc[<<"work", w>>].status # "absent"}])
  /\ UNCHANGED <<plan, doc, turns, told, due, stuck, budget>>

\* Broken form: only timeouts are submitted again.
LostTimeout(d) == d.status = "timed_out" /\ ~d.marked

\* A settled document whose turn may not have reached the Kernel.
Lost(d) == d.status \in {"callback_received", "timed_out"} /\ ~d.marked

\* The next correlation: a due one is timed out, a settled one whose turn may
\* have been lost is submitted again.
SweepNext(c) ==
  /\ At(c, "sweep")
  /\ \/ call[c].todo = {} /\ End(c, "done")
     \/ \E w \in call[c].todo :
          LET k == <<"work", w>>
              d == doc[k]
              r == [call[c] EXCEPT !.todo = @ \ {w}, !.key = k]
          IN  /\ \A v \in call[c].todo : w <= v
              /\ \/ /\ d.status = "waiting" /\ call[c].late
                    /\ Settle(c, [r EXCEPT !.tag = "timer", !.input = NoInput])
                 \/ /\ Lost(d)
                    /\ Submit(c, [r EXCEPT !.tag = d.tag, !.input = d.input])
                 \/ /\ ~Lost(d) /\ ~(d.status = "waiting" /\ call[c].late)
                    /\ Put(c, r)
  /\ UNCHANGED <<plan, doc, turns, told, due, stuck, budget>>

-----------------------------------------------------------------------------
Tick ==
  /\ ~due
  /\ due' = TRUE
  /\ UNCHANGED <<plan, doc, turns, told, stuck, call, budget>>

Active(c) == call[c].at \notin {"idle", "done", "already", "crashed"}

Crash(c) ==
  /\ Active(c)
  /\ budget.crashes < MaxCrashes
  /\ budget' = [budget EXCEPT !.crashes = @ + 1]
  /\ IF At(c, "submit") THEN Unanswered(c) ELSE UNCHANGED <<turns, stuck>>
  /\ End(c, "crashed")
  /\ UNCHANGED <<plan, doc, told, due>>

Step(c) ==
  \/ Create(c) \/ Accept(c) \/ Fire(c) \/ Deliver(c) \/ Terminal(c)
  \/ Send(c) \/ Allocate(c)
  \/ LoadToSettle(c) \/ Swap(c)
  \/ Answered(c) \/ Refused(c) \/ Throws(c) \/ Conflicts(c)
  \/ Mark(c)
  \/ Sweep(c) \/ SweepNext(c)

Next == Tick \/ \E c \in Calls : Step(c) \/ Crash(c)

Spec == Init /\ [][Next]_vars

\* Time passes, and whoever calls recoverDurableControls calls it again and
\* again and lets it run.
Fairness ==
  /\ WF_vars(Tick)
  /\ \A c \in Calls : WF_vars(Verb(c) = "sweep" /\ Step(c))

FairSpec == Spec /\ Fairness

-----------------------------------------------------------------------------
(* Properties                                                               *)

Statuses == {"absent", "waiting", "callback_received", "timed_out",
             "authorized", "delivered", "pending", "accepted", "rejected",
             "done", "error"}
Labels == {"idle", "settle", "swap", "submit", "mark", "allocate", "sweep",
           "done", "already", "crashed"}

StatusesOf(k) ==
  IF k \in WorkKeys THEN {"absent", "waiting", "callback_received", "timed_out"}
  ELSE IF k \in PoisonKeys THEN {"absent", "authorized", "delivered"}
  ELSE {"absent", "pending", "accepted", "rejected", "done", "error"}

\* The state is well formed, a settled document is of the kind of its key, and
\* a call that holds a turn holds it for a document that exists
\* (durable-controls.ts decodeExternalWork, decodeChildInvocation,
\* decodePoisonRecovery).
TypeOK ==
  /\ plan \in Plans
  /\ doc \in [Keys -> [status : Statuses, rev : Nat, tag : Tags,
                       input : Inputs \cup {NoInput}, marked : BOOLEAN]]
  /\ turns \subseteq [msg : Keys \X Tags, input : Inputs \cup {NoInput}]
  /\ told \subseteq Keys \X Tags
  /\ due \in BOOLEAN
  /\ stuck \subseteq Keys \X Tags
  /\ call \in [Calls -> [at : Labels, key : Keys \cup {NoKey}, late : BOOLEAN,
                         rev : Nat, input : Inputs \cup {NoInput}, tag : Tags,
                         outcome : {"none", "accepted", "rejected"},
                         todo : SUBSET Works, round : 0 .. MaxRounds - 1]]
  /\ budget \in [faults : 0 .. MaxFaults, crashes : 0 .. MaxCrashes]
  /\ \A k \in Keys : doc[k].status \in StatusesOf(k)
  /\ \A c \in Calls : call[c].at \in {"settle", "swap", "submit", "mark"} =>
       doc[call[c].key].status # "absent"

Final == {"callback_received", "timed_out", "delivered", "done", "error"}

\* The outcome of a key is the turn its settled document stores.
OutcomeOf(k) ==
  IF doc[k].status \in Final THEN <<doc[k].tag, doc[k].input>> ELSE NoOutcome
OutcomeTurns == {t \in turns : t.msg[2] # "child"}

Promise ==
  INSTANCE OneOutcome WITH
    Outcomes <- Tags \X (Inputs \cup {NoInput}),
    outcome <- [k \in Keys |-> OutcomeOf(k)],
    admitted <- {<<t.msg[1], <<t.msg[2], t.input>>>> : t \in OutcomeTurns}

\* Whatever callbacks, deadlines, sweeps, redeliveries, retries and crashes
\* race, a correlation, an invocation or a recovery gets one outcome, and the
\* Kernel never admits a turn of it but the stored one (durable-controls.ts:
\* the winner of the swap receives the turn source, everyone else ends).
Promised == Promise!Spec

\* A settlement that a principal asks for is of an intent whose role it holds,
\* however long ago the document was read for the check
\* (acceptExternalCallback: the role checked can never diverge from the intent
\* the settled turn submits).  A sweep settles under its control role; the
\* terminal of an invocation that was not yet accepted is settled unchecked.
SettledWithRole ==
  [][\A c \in Calls :
       Verb(c) \in {"callback", "deadline", "deliver"} /\ At(c, "swap")
         /\ doc'[call[c].key].status # Doc(c).status /\ call'[c] # call[c]
       => MayUse(c, doc'[call[c].key].tag)]_vars

\* The sweep passes over a document only when the Kernel has answered for its
\* turn: the mark follows the answer, and no other turn's answer sets it
\* (markSubmitted, recoverDueAndSettled).
MarkedWasTold ==
  \A k \in Keys : doc[k].marked => <<k, doc[k].tag>> \in told

\* A parent hears of the end of a child only when the turn that asked for the
\* child was admitted (settleTerminal settles accepted invocations only).
TerminalAfterTurn ==
  \A t \in turns : t.msg[2] \in {"done", "error"} =>
    \E u \in turns : u.msg = <<t.msg[1], "child">>

\* Two sends that ask for a new invocation never share one, though both count
\* the documents before either creates its own (open: create-if-absent).
InvocationIsOnes ==
  \A c1, c2 \in Calls :
    /\ c1 # c2 /\ {Verb(c1), Verb(c2)} = {"send"}
    /\ plan[c1].key = NoKey /\ plan[c2].key = NoKey
    /\ {call[c1].at, call[c2].at} \subseteq {"submit", "settle", "swap"}
    => call[c1].key # call[c2].key

SweptByAll == \E c \in Calls : Verb(c) = "sweep" /\ plan[c].roles = Tags

\* The correlation is settled, the Kernel has not answered for its turn, and
\* whoever submits the turn gets an error.
ThrowsForEver(k) ==
  /\ doc[k].status \in {"callback_received", "timed_out"} /\ ~doc[k].marked
  /\ <<k, doc[k].tag>> \in stuck

\* Once the deadline of a registered correlation has passed, a sweeper that
\* holds every role gets the Kernel to answer for one of its two turns, over
\* crashes and passing errors: unless its own turn throws for ever, or that of
\* a correlation before it, for a sweep never gets past the first such turn
\* (recoverDueAndSettled).
Resolved ==
  \A w \in Works :
    LET k == <<"work", w>>
    IN  (doc[k].status # "absent" /\ SweptByAll)
          ~> \/ {<<k, "callback">>, <<k, "timer">>} \cap told # {}
             \/ \E v \in Works : v <= w /\ ThrowsForEver(<<"work", v>>)
=============================================================================
