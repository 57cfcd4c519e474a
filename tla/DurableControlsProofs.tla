------------------------- MODULE DurableControlsProofs -------------------------
(***************************************************************************)
(* Proofs about DurableControls, for any calls, plans, correlations,       *)
(* poisoned messages, payloads and bounds: every key gets one outcome (the *)
(* refinement of OneOutcome), a settlement is of an intent whose role its  *)
(* principal holds, a mark follows the answer of the Kernel, and the end   *)
(* of a child follows the turn that asked for it.                          *)
(***************************************************************************)
EXTENDS DurableControls, TLAPS

DocRecord == [status : Statuses, rev : Nat, tag : Tags,
              input : Inputs \cup {NoInput}, marked : BOOLEAN]
CallRecord == [at : Labels, key : Keys \cup {NoKey}, late : BOOLEAN,
               rev : Nat, input : Inputs \cup {NoInput}, tag : Tags,
               outcome : {"none", "accepted", "rejected"},
               todo : SUBSET Works, round : 0 .. MaxRounds - 1]

Types ==
  /\ plan \in Plans
  /\ doc \in [Keys -> DocRecord]
  /\ turns \subseteq [msg : Keys \X Tags, input : Inputs \cup {NoInput}]
  /\ told \subseteq Keys \X Tags
  /\ due \in BOOLEAN
  /\ call \in [Calls -> CallRecord]
  /\ budget \in [faults : 0 .. MaxFaults, crashes : 0 .. MaxCrashes]

\* The turns that can bring a document to a final status.
TagsOfStatus(s) ==
  IF s = "callback_received" THEN {"callback"}
  ELSE IF s = "timed_out" THEN {"timer"}
  ELSE IF s = "delivered" THEN {"recovery"}
  ELSE {s}

\* The turns a verb can settle.
TagsOfVerb(v) ==
  IF v = "callback" THEN {"callback", "timer"}
  ELSE IF v \in {"deadline", "sweep"} THEN {"timer"}
  ELSE IF v = "deliver" THEN {"recovery"}
  ELSE IF v = "send" THEN {"child"}
  ELSE {"done", "error"}

ChildTurn(k) == \E u \in turns : u.msg = <<k, "child">>

\* A document is of the kind of its key; once final it stores the turn of its
\* status, it is marked only after the answer, and an invocation is accepted
\* only after its turn.
DocOK(k) ==
  /\ doc[k].status \in StatusesOf(k)
  /\ doc[k].status \in Final => doc[k].tag \in TagsOfStatus(doc[k].status)
  /\ doc[k].marked => doc[k].status \in Final /\ <<k, doc[k].tag>> \in told
  /\ doc[k].status \in {"accepted", "done", "error"} => ChildTurn(k)

\* An outcome turn is of a document that is settled with its tag.
TurnsOK ==
  \A t \in turns :
    t.msg[2] # "child" =>
      doc[t.msg[1]].status \in Final /\ doc[t.msg[1]].tag = t.msg[2]

Settling1 == {"settle", "swap"}
Holding == {"settle", "swap", "submit", "mark"}

\* What a call knows of the document it holds.
HoldsDoc(r, verb) ==
  /\ r.at \in Holding \cup {"allocate"} => r.key \in KeysOf(verb)
  /\ r.at \in Holding => doc[r.key].status # "absent"
SettleVerbs == {"callback", "deadline", "sweep", "deliver", "send", "terminal"}
\* What a settlement is about, and that its swap is guarded by the revision.
SettlesOK(c, r) ==
  r.at \in Settling1 =>
    /\ Verb(c) \in SettleVerbs
    /\ r.tag \in TagsOfVerb(Verb(c))
    /\ Verb(c) = "send" =>
         /\ r.outcome # "none"
         /\ r.outcome = "accepted" => ChildTurn(r.key)
    /\ Verb(c) \in {"callback", "deadline", "deliver"} =>
         \/ MayUse(c, r.tag)
         \/ doc[r.key].status \notin {"waiting", "authorized"}
    /\ r.at = "swap" =>
         /\ r.rev <= doc[r.key].rev
         /\ r.rev = doc[r.key].rev => doc[r.key].status = From(c)
\* What is submitted and marked is the turn that the settled document stores.
SubmitsOK(c, r) ==
  /\ r.at = "allocate" => Verb(c) = "send"
  /\ r.at = "sweep" => Verb(c) = "sweep"
  /\ r.at = "submit" /\ Verb(c) = "send" => r.tag = "child"
  /\ r.at = "mark" => Verb(c) # "send" /\ <<r.key, r.tag>> \in told
  /\ r.at \in {"submit", "mark"} /\ Verb(c) # "send" =>
       /\ doc[r.key].status \in Final
       /\ doc[r.key].tag = r.tag /\ doc[r.key].input = r.input

CallOK(c) ==
  /\ HoldsDoc(call[c], Verb(c))
  /\ SettlesOK(c, call[c])
  /\ SubmitsOK(c, call[c])

Inv ==
  /\ Types
  /\ \A k \in Keys : DocOK(k)
  /\ TurnsOK
  /\ \A c \in Calls : CallOK(c)

\* How a document may move: created, settled once, marked.
Moves(d, e) ==
  \/ e = d
  \/ d.status = "absent"
  \/ /\ d.status \notin Final
     /\ e.rev = d.rev + 1
     /\ e.status \notin {"absent", "waiting", "authorized"}
  \/ /\ d.status \in Final
     /\ e.rev = d.rev + 1
     /\ e.status = d.status /\ e.tag = d.tag /\ e.input = d.input

AllMove ==
  /\ \A k \in Keys : Moves(doc[k], doc'[k])
  /\ turns \subseteq turns' /\ told \subseteq told'
  /\ plan' = plan

-----------------------------------------------------------------------------
(* Data                                                                     *)

LEMMA PlanFacts ==
  ASSUME Types, NEW c \in Calls
  PROVE  /\ Verb(c) \in Verbs /\ plan[c].key \in KeysOf(Verb(c)) \cup {NoKey}
         /\ plan[c].key = NoKey => Verb(c) \in {"send", "sweep"}
         /\ plan[c].arg \in Inputs \cup {NoInput}
         /\ plan[c].tag \in Tags /\ plan[c].roles \subseteq Tags
         /\ Verb(c) = "terminal" => plan[c].tag \in {"done", "error"}
BY ControlsAssumption DEF Types, Verb

LEMMA KeyKinds ==
  /\ \A v \in Verbs : KeysOf(v) \subseteq Keys
  /\ NoKey \notin Keys
  /\ \A k \in WorkKeys : StatusesOf(k) =
       {"absent", "waiting", "callback_received", "timed_out"}
  /\ \A k \in PoisonKeys : StatusesOf(k) = {"absent", "authorized", "delivered"}
  /\ \A k \in Children : StatusesOf(k) =
       {"absent", "pending", "accepted", "rejected", "done", "error"}
<1>1. \A k \in Children : k \notin WorkKeys /\ k \notin PoisonKeys
  BY DEF Children, Invocation, WorkKeys, PoisonKeys
<1>2. \A k \in PoisonKeys : k \notin WorkKeys
  BY DEF PoisonKeys, WorkKeys
<1> QED  BY <1>1, <1>2, ControlsAssumption DEF KeysOf, Keys, StatusesOf

\* A call whose own entry stands and whose document only moves keeps what it
\* knows.
LEMMA CallStands ==
  ASSUME Inv, Types', AllMove, NEW c \in Calls, call'[c] = call[c]
  PROVE  CallOK(c)'
<1> DEFINE r == call[c]
           d == doc[r.key]
           e == doc'[r.key]
<1>1. /\ HoldsDoc(r, Verb(c)) /\ SettlesOK(c, r) /\ SubmitsOK(c, r)
      /\ Verb(c) \in Verbs /\ plan' = plan
  BY PlanFacts DEF Inv, CallOK, AllMove
<1>2. r.at \in Holding => r.key \in Keys /\ d.status # "absent"
  BY <1>1, KeyKinds DEF HoldsDoc
<1>3. r.key \in Keys =>
        /\ Moves(d, e) /\ d.rev \in Nat /\ e.rev \in Nat
        /\ r.rev \in Nat
  BY DEF AllMove, Inv, Types, DocRecord, CallRecord
<1>4. /\ Verb(c)' = Verb(c) /\ From(c)' = From(c)
      /\ \A t : MayUse(c, t)' <=> MayUse(c, t)
  BY <1>1 DEF Verb, From, MayUse
<1>5. \A k : ChildTurn(k) => ChildTurn(k)'
  BY DEF ChildTurn, AllMove
<1> HIDE DEF d, e, r
<1>6. r.at \in Holding => e.status # "absent"
  BY <1>2, <1>3 DEF Moves, Final
<1>7. HoldsDoc(r, Verb(c))'
  BY <1>1, <1>4, <1>6 DEF HoldsDoc, r, e
<1>8. SettlesOK(c, r)'
  <2> SUFFICES ASSUME r.at \in Settling1
               PROVE  /\ Verb(c) \in SettleVerbs
                      /\ r.tag \in TagsOfVerb(Verb(c))
                      /\ Verb(c) = "send" =>
                           /\ r.outcome # "none"
                           /\ r.outcome = "accepted" => ChildTurn(r.key)'
                      /\ Verb(c) \in {"callback", "deadline", "deliver"} =>
                           \/ MayUse(c, r.tag)
                           \/ e.status \notin {"waiting", "authorized"}
                      /\ r.at = "swap" =>
                           /\ r.rev <= e.rev
                           /\ r.rev = e.rev => e.status = From(c)
    BY <1>4 DEF SettlesOK, r, e
  <2>1. r.at \in Holding
    BY DEF Settling1, Holding
  <2>2. /\ Verb(c) \in SettleVerbs
        /\ r.tag \in TagsOfVerb(Verb(c))
        /\ Verb(c) = "send" =>
             /\ r.outcome # "none"
             /\ r.outcome = "accepted" => ChildTurn(r.key)
        /\ Verb(c) \in {"callback", "deadline", "deliver"} =>
             \/ MayUse(c, r.tag)
             \/ d.status \notin {"waiting", "authorized"}
        /\ r.at = "swap" =>
             /\ r.rev <= d.rev
             /\ r.rev = d.rev => d.status = From(c)
    BY <1>1 DEF SettlesOK, d
  <2>3. /\ Moves(d, e) /\ d.rev \in Nat /\ e.rev \in Nat /\ r.rev \in Nat
        /\ d.status # "absent"
    BY <1>2, <1>3, <2>1
  <2>4. e.status \in {"waiting", "authorized"} =>
          d.status \in {"waiting", "authorized"}
    BY <2>3 DEF Moves
  <2>5. r.at = "swap" => /\ r.rev <= e.rev
                         /\ r.rev = e.rev => e.status = From(c)
    <3>1. CASE e = d
      BY <3>1, <2>2
    <3>2. CASE e.rev = d.rev + 1
      BY <3>2, <2>2, <2>3
    <3> QED  BY <3>1, <3>2, <2>3 DEF Moves
  <2>6. r' = r
    BY DEF r
  <2>7. ChildTurn(r.key) => ChildTurn(r.key)'
    BY <1>5, <2>6
  <2> QED  BY <2>2, <2>4, <2>5, <2>7
<1>9. SubmitsOK(c, r)'
  <2> SUFFICES /\ r.at = "allocate" => Verb(c) = "send"
               /\ r.at = "sweep" => Verb(c) = "sweep"
               /\ r.at = "submit" /\ Verb(c) = "send" => r.tag = "child"
               /\ r.at = "mark" =>
                    Verb(c) # "send" /\ <<r.key, r.tag>> \in told'
               /\ r.at \in {"submit", "mark"} /\ Verb(c) # "send" =>
                    /\ e.status \in Final /\ e.tag = r.tag /\ e.input = r.input
    BY <1>4 DEF SubmitsOK, r, e
  <2>1. /\ r.at = "allocate" => Verb(c) = "send"
        /\ r.at = "sweep" => Verb(c) = "sweep"
        /\ r.at = "submit" /\ Verb(c) = "send" => r.tag = "child"
        /\ r.at = "mark" => Verb(c) # "send" /\ <<r.key, r.tag>> \in told
        /\ r.at \in {"submit", "mark"} /\ Verb(c) # "send" =>
             /\ d.status \in Final /\ d.tag = r.tag /\ d.input = r.input
    BY <1>1 DEF SubmitsOK, d
  <2>2. told \subseteq told'
    BY DEF AllMove
  <2>3. r.at \in {"submit", "mark"} => Moves(d, e) /\ d.status # "absent"
    BY <1>2, <1>3 DEF Holding
  <2>4. r.at \in {"submit", "mark"} /\ Verb(c) # "send" =>
          /\ e.status \in Final /\ e.tag = r.tag /\ e.input = r.input
    BY <2>1, <2>3 DEF Moves
  <2> QED  BY <2>1, <2>2, <2>4
<1> QED  BY <1>7, <1>8, <1>9 DEF CallOK, r

\* A call at rest knows nothing.
AtRest == {"idle", "done", "already", "crashed"}

LEMMA RestIsOK ==
  ASSUME NEW c \in Calls,
         \/ call'[c].at \in AtRest
         \/ call'[c].at = "sweep" /\ Verb(c)' = "sweep"
  PROVE  CallOK(c)'
BY DEF AtRest, CallOK, HoldsDoc, SettlesOK, SubmitsOK, Holding, Settling1

-----------------------------------------------------------------------------
(* The ways of changing a call                                              *)

LEMMA PutCall ==
  ASSUME Types, NEW c \in Calls, NEW r \in CallRecord, Put(c, r)
  PROVE  /\ call' \in [Calls -> CallRecord] /\ call'[c] = r
         /\ \A b \in Calls \ {c} : call'[b] = call[b]
BY DEF Types, Put

LEMMA NewCallFacts ==
  NewCall \in CallRecord /\ NewCall.outcome = "none"
<1>1. 0 \in 0 .. MaxRounds - 1
  BY ControlsAssumption
<1> QED  BY <1>1 DEF NewCall, CallRecord, Labels, Tags

LEMMA EndCall ==
  ASSUME Types, NEW c \in Calls, NEW l \in {"done", "already", "crashed"},
         End(c, l)
  PROVE  /\ call' \in [Calls -> CallRecord] /\ call'[c].at \in AtRest
         /\ \A b \in Calls \ {c} : call'[b] = call[b]
<1> DEFINE a == IF Verb(c) = "sweep" THEN "idle" ELSE l
           k == IF Verb(c) = "sweep" THEN NoKey ELSE call[c].key
           r == [NewCall EXCEPT !.at = a, !.key = k]
<1>1. a \in AtRest /\ a \in Labels /\ k \in Keys \cup {NoKey}
  BY DEF AtRest, Labels, Types, CallRecord
<1> HIDE DEF a, k
<1>4. r \in CallRecord /\ r.at = a
  <2> DEFINE x == NewCall
  <2>1. x \in CallRecord /\ r = [x EXCEPT !.at = a, !.key = k]
    BY NewCallFacts
  <2> HIDE DEF x, r
  <2> QED  BY <1>1, <2>1 DEF CallRecord
<1>5. Put(c, r)
  BY DEF End, a, k
<1> HIDE DEF r
<1> QED  BY <1>1, <1>4, <1>5, PutCall

LEMMA SettleCall ==
  ASSUME Types, NEW c \in Calls, NEW r \in CallRecord, Settle(c, r)
  PROVE  /\ call' \in [Calls -> CallRecord]
         /\ \A b \in Calls \ {c} : call'[b] = call[b]
         /\ call'[c].at = "settle" /\ call'[c].key = r.key
         /\ call'[c].tag = r.tag /\ call'[c].outcome = r.outcome
         /\ call'[c].input = r.input
<1> DEFINE s == [r EXCEPT !.at = "settle", !.round = 0]
<1>1. "settle" \in Labels /\ 0 \in 0 .. MaxRounds - 1
  BY ControlsAssumption DEF Labels
<1>2. /\ s \in CallRecord /\ s.at = "settle" /\ s.key = r.key
      /\ s.tag = r.tag /\ s.outcome = r.outcome /\ s.input = r.input
  BY <1>1 DEF CallRecord
<1>3. Put(c, s)
  BY DEF Settle
<1> HIDE DEF s
<1> QED  BY <1>2, <1>3, PutCall

LEMMA SubmitCall ==
  ASSUME Types, NEW c \in Calls, NEW r \in CallRecord, Submit(c, r)
  PROVE  /\ call' \in [Calls -> CallRecord]
         /\ \A b \in Calls \ {c} : call'[b] = call[b]
         /\ call'[c].at = "submit" /\ call'[c].key = r.key
         /\ call'[c].tag = r.tag /\ call'[c].input = r.input
<1> DEFINE s == [r EXCEPT !.at = "submit"]
<1>1. "submit" \in Labels
  BY DEF Labels
<1>2. /\ s \in CallRecord /\ s.at = "submit" /\ s.key = r.key
      /\ s.tag = r.tag /\ s.input = r.input
  BY <1>1 DEF CallRecord
<1>3. Put(c, s)
  BY DEF Submit
<1> HIDE DEF s
<1> QED  BY <1>2, <1>3, PutCall

LEMMA LeaveCall ==
  ASSUME Types, NEW c \in Calls, Leave(c), plan' = plan
  PROVE  /\ call' \in [Calls -> CallRecord]
         /\ \/ call'[c].at \in AtRest
            \/ call'[c].at = "sweep" /\ Verb(c)' = "sweep"
         /\ \A b \in Calls \ {c} : call'[b] = call[b]
<1>1. CASE Verb(c) # "sweep"
  BY <1>1, EndCall DEF Leave
<1>2. CASE Verb(c) = "sweep"
  <2> DEFINE s == [call[c] EXCEPT !.at = "sweep", !.round = 0, !.rev = 0]
  <2>1. "sweep" \in Labels /\ 0 \in 0 .. MaxRounds - 1 /\ 0 \in Nat
    BY ControlsAssumption DEF Labels
  <2>4. call[c] \in CallRecord
    BY DEF Types
  <2>2. s \in CallRecord /\ s.at = "sweep"
    BY <2>1, <2>4 DEF CallRecord
  <2>3. Put(c, s)
    BY <1>2 DEF Leave
  <2> HIDE DEF s
  <2>5. Verb(c)' = "sweep"
    BY <1>2 DEF Verb
  <2> QED  BY <2>2, <2>3, <2>5, PutCall
<1> QED  BY <1>1, <1>2

LEMMA ConcludeCall ==
  ASSUME Types, NEW c \in Calls, NEW o \in {"accepted", "rejected"},
         Concluded(c, o)
  PROVE  /\ call' \in [Calls -> CallRecord]
         /\ \A b \in Calls \ {c} : call'[b] = call[b]
         /\ call'[c].at = IF Verb(c) = "send" THEN "settle" ELSE "mark"
         /\ call'[c].key = call[c].key /\ call'[c].tag = call[c].tag
         /\ call'[c].input = call[c].input /\ call'[c].outcome = o
<1> DEFINE a == IF Verb(c) = "send" THEN "settle" ELSE "mark"
           s == [call[c] EXCEPT !.at = a, !.outcome = o]
<1>1. a \in Labels
  BY DEF Labels
<1> HIDE DEF a
<1>2. /\ s \in CallRecord /\ s.at = a /\ s.key = call[c].key
      /\ s.tag = call[c].tag /\ s.input = call[c].input /\ s.outcome = o
  BY <1>1 DEF CallRecord, Types
<1>3. Put(c, s)
  BY DEF Concluded, a
<1> HIDE DEF s
<1> QED  BY <1>2, <1>3, PutCall DEF a

-----------------------------------------------------------------------------
(* What a step leaves of the invariant                                      *)

LEMMA TurnsStand ==
  ASSUME Inv, Types', AllMove, turns' = turns
  PROVE  TurnsOK'
<1> SUFFICES ASSUME NEW t \in turns, t.msg[2] # "child"
             PROVE  /\ doc'[t.msg[1]].status \in Final
                    /\ doc'[t.msg[1]].tag = t.msg[2]
  BY DEF TurnsOK
<1> DEFINE k == t.msg[1]
<1>1. /\ k \in Keys /\ doc[k].status \in Final /\ doc[k].tag = t.msg[2]
  BY DEF Inv, TurnsOK, Types
<1>2. Moves(doc[k], doc'[k])
  BY <1>1 DEF AllMove
<1> HIDE DEF k
<1>3. doc'[k].status \in Final /\ doc'[k].tag = t.msg[2]
  BY <1>1, <1>2 DEF Moves, Final
<1> QED  BY <1>3 DEF k

LEMMA Glue ==
  ASSUME Inv, Types', AllMove, NEW c \in Calls,
         \A b \in Calls \ {c} : call'[b] = call[b], CallOK(c)',
         \A k \in Keys : DocOK(k)', TurnsOK'
  PROVE  Inv'
<1>1. ASSUME NEW b \in Calls PROVE CallOK(b)'
  <2>1. CASE b = c
    BY <2>1
  <2>2. CASE b # c
    BY <2>2, CallStands
  <2> QED  BY <2>1, <2>2
<1> QED  BY <1>1 DEF Inv

\* The documents stay, and so do the turns, but for new ones.
LEMMA DocsStand ==
  ASSUME Inv, doc' = doc, turns \subseteq turns', told \subseteq told',
         NEW k \in Keys
  PROVE  DocOK(k)'
<1>1. ChildTurn(k) => ChildTurn(k)'
  BY DEF ChildTurn
<1> QED  BY <1>1 DEF Inv, DocOK

LEMMA Still ==
  ASSUME Inv, NEW c \in Calls,
         UNCHANGED <<plan, doc, turns, told, due>>,
         budget' \in [faults : 0 .. MaxFaults, crashes : 0 .. MaxCrashes],
         call' \in [Calls -> CallRecord],
         \A b \in Calls \ {c} : call'[b] = call[b], CallOK(c)'
  PROVE  Inv'
<1>1. Types'
  BY DEF Inv, Types
<1>2. AllMove
  BY DEF AllMove, Moves
<1>3. \A k \in Keys : DocOK(k)'
  BY DocsStand
<1>4. TurnsOK'
  BY <1>1, <1>2, TurnsStand
<1> QED  BY <1>1, <1>2, <1>3, <1>4, Glue

\* A step that ends its call and changes no document or turn.
LEMMA StillEnds ==
  ASSUME Inv, NEW c \in Calls,
         UNCHANGED <<plan, doc, turns, told, due>>,
         budget' \in [faults : 0 .. MaxFaults, crashes : 0 .. MaxCrashes],
         NEW l \in {"done", "already", "crashed"}, End(c, l)
  PROVE  Inv'
BY EndCall, RestIsOK, Still DEF Inv

-----------------------------------------------------------------------------
(* The actions that change neither documents nor turns                      *)

LEMMA AskStep ==
  ASSUME Inv, NEW c \in Calls, NEW v, NEW from, Ask(c, v, from),
         \/ v \in {"callback", "deadline"} /\ from = {"waiting"}
         \/ v = "deliver" /\ from = {"authorized", "delivered"}
         \/ v = "terminal" /\ from = {"accepted"}
  PROVE  Inv'
<1> DEFINE k == plan[c].key
           t == Settling(c, due)
           i == IF t = "timer" THEN NoInput ELSE plan[c].arg
           r == [NewCall EXCEPT !.key = k, !.late = due, !.tag = t, !.input = i]
<1>1. /\ Types /\ Verb(c) = v /\ UNCHANGED <<plan, doc, turns, told, due>>
      /\ budget' \in [faults : 0 .. MaxFaults, crashes : 0 .. MaxCrashes]
  BY DEF Ask, Inv, Types
<1>2. /\ k \in KeysOf(v) /\ k \in Keys
  BY <1>1, PlanFacts, KeyKinds
<1>3. CASE Refuses(c, from)
  BY <1>1, <1>3, StillEnds DEF Ask
<1>4. CASE ~Refuses(c, from)
  <2>1. /\ t \in TagsOfVerb(v) /\ t \in Tags
        /\ i \in Inputs \cup {NoInput} /\ due \in BOOLEAN
    BY <1>1, PlanFacts DEF Settling, TagsOfVerb, Tags, Types
  <2>2. /\ doc[k].status # "absent"
        /\ doc[k].status \in from => MayUse(c, t)
    BY <1>4 DEF Refuses, IntentOf
  <2>3. Settle(c, r)
    BY <1>4 DEF Ask
  <2> HIDE DEF k, t, i
  <2>4. r \in CallRecord /\ r.key = k /\ r.tag = t
    <3> DEFINE x == NewCall
    <3>1. /\ x \in CallRecord
          /\ r = [x EXCEPT !.key = k, !.late = due, !.tag = t, !.input = i]
      BY NewCallFacts
    <3> HIDE DEF x, r
    <3> QED  BY <1>2, <2>1, <3>1 DEF CallRecord
  <2> HIDE DEF r
  <2>5. /\ call' \in [Calls -> CallRecord]
        /\ \A b \in Calls \ {c} : call'[b] = call[b]
        /\ call'[c].at = "settle" /\ call'[c].key = k /\ call'[c].tag = t
    BY <1>1, <2>3, <2>4, SettleCall
  <2>6. v \in {"callback", "deadline", "deliver"} =>
          MayUse(c, t) \/ doc[k].status \notin {"waiting", "authorized"}
    <3>1. doc[k].status \in StatusesOf(k)
      BY <1>2 DEF Inv, DocOK
    <3>2. CASE v \in {"callback", "deadline"}
      <4>1. k \in WorkKeys
        BY <1>2, <3>2 DEF KeysOf
      <4>2. doc[k].status \in
              {"absent", "waiting", "callback_received", "timed_out"}
        BY <3>1, <4>1, KeyKinds
      <4> QED  BY <4>2, <2>2, <3>2
    <3>3. CASE v = "deliver"
      <4>1. k \in PoisonKeys
        BY <1>2, <3>3 DEF KeysOf
      <4>2. doc[k].status \in {"absent", "authorized", "delivered"}
        BY <3>1, <4>1, KeyKinds
      <4> QED  BY <4>2, <2>2, <3>3
    <3> QED  BY <3>2, <3>3
  <2>7. Verb(c)' = v /\ doc' = doc /\ (MayUse(c, t) <=> MayUse(c, t)')
    <3>1. MayUse(c, t)' <=> MayUse(c, t)
      BY <1>1, <2>5 DEF MayUse, t, Settling, Verb
    <3> QED  BY <1>1, <3>1 DEF Verb
  <2>8. CallOK(c)'
    <3>1. HoldsDoc(call[c], Verb(c))'
      BY <1>2, <2>2, <2>5, <2>7 DEF HoldsDoc
    <3>2. SettlesOK(c, call[c])'
      BY <1>1, <2>1, <2>5, <2>6, <2>7
         DEF SettlesOK, MayUse, TagsOfVerb, Verb, SettleVerbs
    <3>3. SubmitsOK(c, call[c])'
      BY <2>5 DEF SubmitsOK
    <3> QED  BY <3>1, <3>2, <3>3 DEF CallOK
  <2> QED  BY <1>1, <2>5, <2>8, Still
<1> QED  BY <1>3, <1>4

\* A send submits the turn of its invocation, whose document exists.
LEMMA SubmitChild ==
  ASSUME Types, NEW c \in Calls, Verb(c) = "send", plan' = plan,
         NEW k \in Children, doc'[k].status # "absent",
         Submit(c, [NewCall EXCEPT !.key = k, !.tag = "child",
                                   !.input = plan[c].arg])
  PROVE  /\ call' \in [Calls -> CallRecord] /\ CallOK(c)'
         /\ \A b \in Calls \ {c} : call'[b] = call[b]
         /\ call'[c].key = k
<1> DEFINE i == plan[c].arg
           r == [NewCall EXCEPT !.key = k, !.tag = "child", !.input = i]
<1>1. /\ i \in Inputs \cup {NoInput} /\ k \in Keys /\ "child" \in Tags
      /\ KeysOf("send") = Children
  BY PlanFacts DEF Keys, Tags, KeysOf
<1>2. Submit(c, r)
  OBVIOUS
<1> HIDE DEF i
<1>3. r \in CallRecord /\ r.key = k /\ r.tag = "child"
  <2> DEFINE x == NewCall
  <2>1. /\ x \in CallRecord
        /\ r = [x EXCEPT !.key = k, !.tag = "child", !.input = i]
    BY NewCallFacts
  <2> HIDE DEF x, r
  <2> QED  BY <1>1, <2>1 DEF CallRecord
<1> HIDE DEF r
<1>4. /\ call' \in [Calls -> CallRecord]
      /\ \A b \in Calls \ {c} : call'[b] = call[b]
      /\ call'[c].at = "submit" /\ call'[c].key = k /\ call'[c].tag = "child"
  BY <1>2, <1>3, SubmitCall
<1>5. Verb(c)' = "send"
  BY DEF Verb
<1>6. HoldsDoc(call[c], Verb(c))'
  BY <1>1, <1>4, <1>5 DEF HoldsDoc
<1>7. SettlesOK(c, call[c])'
  BY <1>4 DEF SettlesOK, Settling1
<1>8. SubmitsOK(c, call[c])'
  BY <1>4, <1>5 DEF SubmitsOK, Verb
<1> QED  BY <1>4, <1>6, <1>7, <1>8 DEF CallOK

LEMMA ReaddressStep ==
  ASSUME Inv, NEW c \in Calls, Verb(c) = "send", NEW k \in Children,
         UNCHANGED <<plan, doc, turns, told, due, budget>>, Readdress(c, k)
  PROVE  Inv'
<1>1. /\ Types
      /\ budget' \in [faults : 0 .. MaxFaults, crashes : 0 .. MaxCrashes]
  BY DEF Inv, Types
<1>2. CASE doc[k].status = "pending"
  <2>1. doc'[k].status # "absent"
    BY <1>2
  <2> QED  BY <1>1, <1>2, <2>1, SubmitChild, Still DEF Readdress
<1>3. CASE doc[k].status # "pending"
  BY <1>1, <1>3, StillEnds DEF Readdress
<1> QED  BY <1>2, <1>3

\* A call goes to the creation of an invocation.
LEMMA AllocateCall ==
  ASSUME Inv, NEW c \in Calls, Verb(c) = "send", NEW k \in Children,
         NEW x \in CallRecord,
         UNCHANGED <<plan, doc, turns, told, due, budget>>,
         Put(c, [x EXCEPT !.at = "allocate", !.key = k])
  PROVE  Inv'
<1> DEFINE r == [x EXCEPT !.at = "allocate", !.key = k]
<1>1. /\ Types /\ k \in Keys /\ KeysOf("send") = Children
      /\ "allocate" \in Labels
      /\ budget' \in [faults : 0 .. MaxFaults, crashes : 0 .. MaxCrashes]
  BY DEF Inv, Types, Keys, KeysOf, Labels
<1>2. r \in CallRecord /\ r.at = "allocate" /\ r.key = k
  BY <1>1 DEF CallRecord
<1>3. Put(c, r)
  OBVIOUS
<1> HIDE DEF r
<1>4. /\ call' \in [Calls -> CallRecord] /\ call'[c] = r
      /\ \A b \in Calls \ {c} : call'[b] = call[b]
  BY <1>1, <1>2, <1>3, PutCall
<1>5. Verb(c)' = "send"
  BY DEF Verb
<1>6. HoldsDoc(call[c], Verb(c))'
  BY <1>1, <1>2, <1>4, <1>5 DEF HoldsDoc, Holding
<1>7. SettlesOK(c, call[c])' /\ SubmitsOK(c, call[c])'
  BY <1>2, <1>4, <1>5 DEF SettlesOK, SubmitsOK, Settling1
<1> QED  BY <1>1, <1>4, <1>6, <1>7, Still DEF CallOK

LEMMA SendStep ==
  ASSUME Inv, NEW c \in Calls, Send(c)
  PROVE  Inv'
<1> DEFINE next == Cardinality(Allocated) + 1
<1>1. /\ Verb(c) = "send" /\ UNCHANGED <<plan, doc, turns, told, due, budget>>
      /\ Types /\ (plan[c].key # NoKey => plan[c].key \in Children)
  <2>1. Verb(c) = "send" /\ Types
    BY DEF Send, Inv
  <2>2. plan[c].key \in KeysOf("send") \cup {NoKey}
    BY <2>1, PlanFacts
  <2> QED  BY <2>1, <2>2 DEF Send, KeysOf
<1>2. \/ plan[c].key # NoKey /\ Readdress(c, plan[c].key)
      \/ /\ plan[c].key # NoKey
         /\ Put(c, [NewCall EXCEPT !.at = "allocate", !.key = plan[c].key])
      \/ /\ next \in Ordinals
         /\ Put(c, [NewCall EXCEPT !.at = "allocate", !.key = Invocation(next)])
  BY DEF Send
<1> HIDE DEF next
<1>3. next \in Ordinals => Invocation(next) \in Children
  BY DEF Children
<1> DEFINE k == plan[c].key
           x == NewCall
<1>4. CASE k # NoKey /\ Readdress(c, k)
  <2>1. k \in Children
    BY <1>1, <1>4
  <2> HIDE DEF k
  <2> QED  BY <1>1, <1>4, <2>1, ReaddressStep
<1>5. CASE k # NoKey /\ Put(c, [x EXCEPT !.at = "allocate", !.key = k])
  <2>1. k \in Children /\ x \in CallRecord
    BY <1>1, <1>5, NewCallFacts
  <2> HIDE DEF k, x
  <2> QED  BY <1>1, <1>5, <2>1, AllocateCall
<1>6. CASE /\ next \in Ordinals
           /\ Put(c, [NewCall EXCEPT !.at = "allocate",
                                     !.key = Invocation(next)])
  BY <1>1, <1>3, <1>6, NewCallFacts, AllocateCall
<1> QED  BY <1>2, <1>4, <1>5, <1>6

\* A document is created, by whoever finds it absent.
LEMMA Creates ==
  ASSUME Inv, NEW c \in Calls, NEW k \in Keys, doc[k].status = "absent",
         NEW d \in DocRecord, doc' = [doc EXCEPT ![k] = d],
         d.status \in StatusesOf(k) \ (Final \cup {"accepted"}), ~d.marked,
         UNCHANGED <<plan, turns, told, due, budget>>,
         call' \in [Calls -> CallRecord],
         \A b \in Calls \ {c} : call'[b] = call[b], CallOK(c)'
  PROVE  Inv'
<1>1. doc' \in [Keys -> DocRecord]
  BY DEF Inv, Types
<1>2. Types'
  BY <1>1 DEF Inv, Types
<1>3. doc'[k] = d /\ \A j \in Keys \ {k} : doc'[j] = doc[j]
  BY DEF Inv, Types
<1>4. AllMove
  BY <1>3 DEF AllMove, Moves
<1>5. ASSUME NEW j \in Keys PROVE DocOK(j)'
  <2>1. CASE j = k
    BY <1>3, <2>1 DEF DocOK, StatusesOf, Final
  <2>2. CASE j # k
    <3>1. ChildTurn(j)' <=> ChildTurn(j)
      BY DEF ChildTurn
    <3> QED  BY <1>3, <2>2, <3>1 DEF Inv, DocOK
  <2> QED  BY <2>1, <2>2
<1>6. TurnsOK'
  BY <1>2, <1>4, TurnsStand
<1> QED  BY <1>2, <1>4, <1>5, <1>6, Glue

LEMMA NoDocFacts == NoDoc \in DocRecord /\ NoDoc.marked = FALSE
BY DEF NoDoc, DocRecord, Statuses, Tags

LEMMA CreateStep ==
  ASSUME Inv, NEW c \in Calls, Create(c)
  PROVE  Inv'
<1> DEFINE k == plan[c].key
           st == IF Verb(c) = "register" THEN "waiting" ELSE "authorized"
           i == plan[c].arg
           d == [NoDoc EXCEPT !.input = i, !.status = st]
<1>1. /\ Types /\ Verb(c) \in {"register", "authorize"} /\ End(c, "done")
      /\ UNCHANGED <<plan, turns, told, due, budget>>
      /\ budget' \in [faults : 0 .. MaxFaults, crashes : 0 .. MaxCrashes]
  BY DEF Create, Inv, Types
<1>2. CASE UNCHANGED doc
  BY <1>1, <1>2, StillEnds
<1>3. CASE doc[k].status = "absent" /\ doc' = [doc EXCEPT ![k] = d]
  <2>1. /\ k \in KeysOf(Verb(c)) /\ k \in Keys
        /\ i \in Inputs \cup {NoInput}
    BY <1>1, PlanFacts, KeyKinds
  <2>2. st \in StatusesOf(k) \ (Final \cup {"accepted"}) /\ st \in Statuses
    <3>1. CASE Verb(c) = "register"
      <4>1. k \in WorkKeys
        BY <2>1, <3>1 DEF KeysOf
      <4> QED  BY <3>1, <4>1, KeyKinds DEF Final, Statuses
    <3>2. CASE Verb(c) = "authorize"
      <4>1. k \in PoisonKeys
        BY <2>1, <3>2 DEF KeysOf
      <4> QED  BY <3>2, <4>1, KeyKinds DEF Final, Statuses
    <3> QED  BY <1>1, <3>1, <3>2
  <2> HIDE DEF k, st, i
  <2>3. d \in DocRecord /\ d.status = st /\ ~d.marked
    <3> DEFINE x == NoDoc
    <3>1. /\ x \in DocRecord /\ x.marked = FALSE
          /\ d = [x EXCEPT !.input = i, !.status = st]
      BY NoDocFacts
    <3> HIDE DEF x, d
    <3> QED  BY <2>1, <2>2, <3>1 DEF DocRecord
  <2> HIDE DEF d
  <2>4. /\ call' \in [Calls -> CallRecord] /\ CallOK(c)'
        /\ \A b \in Calls \ {c} : call'[b] = call[b]
    BY <1>1, EndCall, RestIsOK
  <2> QED  BY <1>1, <1>3, <2>1, <2>2, <2>3, <2>4, Creates
<1>4. \/ UNCHANGED doc
      \/ doc[k].status = "absent" /\ doc' = [doc EXCEPT ![k] = d]
  BY DEF Create
<1> QED  BY <1>2, <1>3, <1>4

LEMMA AllocateStep ==
  ASSUME Inv, NEW c \in Calls, Allocate(c)
  PROVE  Inv'
<1> DEFINE k == call[c].key
           d == [NoDoc EXCEPT !.status = "pending"]
<1>1. /\ Types /\ UNCHANGED <<plan, turns, told, due, budget>>
      /\ call[c] \in CallRecord /\ call[c].at = "allocate"
      /\ budget' \in [faults : 0 .. MaxFaults, crashes : 0 .. MaxCrashes]
  BY DEF Allocate, At, Inv, Types
<1>2. Verb(c) = "send" /\ k \in Children /\ k \in Keys
  BY <1>1, PlanFacts DEF Inv, CallOK, HoldsDoc, SubmitsOK, KeysOf, Keys
<1>3. CASE /\ Free(k) /\ doc' = [doc EXCEPT ![k] = d]
           /\ Submit(c, [NewCall EXCEPT !.key = k, !.tag = "child",
                                        !.input = plan[c].arg])
  <2>1. d \in DocRecord /\ d.status = "pending" /\ ~d.marked
    <3> DEFINE x == NoDoc
    <3>1. /\ x \in DocRecord /\ x.marked = FALSE /\ "pending" \in Statuses
          /\ d = [x EXCEPT !.status = "pending"]
      BY NoDocFacts DEF Statuses
    <3> HIDE DEF x, d
    <3> QED  BY <3>1 DEF DocRecord
  <2>2. "pending" \in StatusesOf(k) \ (Final \cup {"accepted"})
    BY <1>2, KeyKinds DEF Final
  <2> HIDE DEF k, d
  <2>3. doc'[k].status # "absent"
    BY <1>1, <1>2, <1>3, <2>1 DEF Types
  <2>4. /\ call' \in [Calls -> CallRecord] /\ CallOK(c)'
        /\ \A b \in Calls \ {c} : call'[b] = call[b]
    BY <1>1, <1>2, <1>3, <2>3, SubmitChild
  <2> QED  BY <1>1, <1>2, <1>3, <2>1, <2>2, <2>4, Creates DEF Free
<1>4. CASE ~Free(k) /\ UNCHANGED doc /\ Readdress(c, k)
  BY <1>1, <1>2, <1>4, ReaddressStep
<1>5. CASE ~Free(k) /\ UNCHANGED doc /\ End(c, "done")
  BY <1>1, <1>5, StillEnds
<1>6. CASE /\ ~Free(k) /\ UNCHANGED doc /\ k[2] # MaxOrdinal
           /\ Put(c, [call[c] EXCEPT !.key = Invocation(k[2] + 1)])
  <2>1. PICK o \in Ordinals : k = Invocation(o)
    BY <1>2 DEF Children
  <2>2. k[2] = o
    BY <2>1 DEF Invocation
  <2>3. o + 1 \in Ordinals
    BY <1>6, <2>2, ControlsAssumption DEF Ordinals
  <2>4. Invocation(k[2] + 1) \in Children
    BY <2>2, <2>3 DEF Children
  <2> DEFINE j == Invocation(k[2] + 1)
             x == call[c]
  <2>5. [x EXCEPT !.key = j] = [x EXCEPT !.at = "allocate", !.key = j]
    <3>1. x \in CallRecord /\ x.at = "allocate"
      BY <1>1
    <3> HIDE DEF x, j
    <3> QED  BY <3>1 DEF CallRecord
  <2>6. Put(c, [x EXCEPT !.at = "allocate", !.key = j])
    BY <1>6, <2>5
  <2> HIDE DEF j, k
  <2> QED  BY <1>1, <1>2, <1>6, <2>4, <2>6, AllocateCall DEF j
<1>7. \/ /\ Free(k) /\ doc' = [doc EXCEPT ![k] = d]
         /\ Submit(c, [NewCall EXCEPT !.key = k, !.tag = "child",
                                      !.input = plan[c].arg])
      \/ ~Free(k) /\ UNCHANGED doc /\ Readdress(c, k)
      \/ ~Free(k) /\ UNCHANGED doc /\ End(c, "done")
      \/ /\ ~Free(k) /\ UNCHANGED doc /\ k[2] # MaxOrdinal
         /\ Put(c, [call[c] EXCEPT !.key = Invocation(k[2] + 1)])
  BY DEF Allocate
<1> QED  BY <1>3, <1>4, <1>5, <1>6, <1>7

-----------------------------------------------------------------------------
(* The settlement                                                           *)

LEMMA TooLateStep ==
  ASSUME Inv, NEW c \in Calls, call[c].at = "settle",
         UNCHANGED <<plan, doc, turns, told, due, budget>>,
         ~Settles(c), TooLate(c)
  PROVE  Inv'
<1> DEFINE k == call[c].key
           x == call[c]
           d == doc[k]
<1>1. /\ Types /\ x \in CallRecord
      /\ budget' \in [faults : 0 .. MaxFaults, crashes : 0 .. MaxCrashes]
  BY DEF Inv, Types
<1>2. /\ k \in KeysOf(Verb(c)) /\ d.status # "absent"
      /\ x.tag \in TagsOfVerb(Verb(c)) /\ k \in Keys
      /\ d \in DocRecord
  BY PlanFacts, KeyKinds
     DEF Inv, CallOK, HoldsDoc, SettlesOK, Settling1, Holding, Types
<1>3. CASE Verb(c) = "deliver"
  <2>1. k \in PoisonKeys /\ d.status # "authorized"
    BY <1>2, <1>3 DEF KeysOf, Settles, From, Doc
  <2>2. d.status \in StatusesOf(k) /\
        (d.status \in Final => d.tag \in TagsOfStatus(d.status))
    BY <1>2 DEF Inv, DocOK
  <2>3. d.status = "delivered" /\ d.tag = "recovery"
    BY <1>2, <2>1, <2>2, KeyKinds DEF Final, TagsOfStatus
  <2>4. x.tag = "recovery"
    BY <1>2, <1>3 DEF TagsOfVerb
  <2> DEFINE i == d.input
             r == [x EXCEPT !.input = i]
  <2>5. Submit(c, r)
    BY <1>3 DEF TooLate, Doc
  <2>6. i \in Inputs \cup {NoInput}
    BY <1>2 DEF DocRecord
  <2> HIDE DEF i, d
  <2>7. r \in CallRecord /\ r.key = k /\ r.tag = x.tag /\ r.input = i
    <3> HIDE DEF x
    <3> QED  BY <1>1, <2>6 DEF CallRecord, x
  <2> HIDE DEF r
  <2>8. /\ call' \in [Calls -> CallRecord]
        /\ \A b \in Calls \ {c} : call'[b] = call[b]
        /\ call'[c].at = "submit" /\ call'[c].key = k
        /\ call'[c].tag = "recovery" /\ call'[c].input = i
    BY <1>1, <2>4, <2>5, <2>7, SubmitCall
  <2>9. Verb(c)' = "deliver" /\ doc'[k] = d
    BY <1>3 DEF Verb, d
  <2> HIDE DEF k, x
  <2>10. HoldsDoc(call[c], Verb(c))'
    BY <1>2, <1>3, <2>8, <2>9 DEF HoldsDoc
  <2>11. SettlesOK(c, call[c])'
    BY <2>8 DEF SettlesOK, Settling1
  <2>12. SubmitsOK(c, call[c])'
    BY <2>3, <2>8, <2>9 DEF SubmitsOK, Final, i
  <2> QED  BY <1>1, <2>8, <2>10, <2>11, <2>12, Still DEF CallOK
<1>4. CASE Verb(c) # "deliver"
  <2>1. CASE End(c, "already")
    BY <1>1, <2>1, StillEnds
  <2>2. CASE Leave(c)
    BY <1>1, <2>2, LeaveCall, RestIsOK, Still
  <2> QED  BY <1>4, <2>1, <2>2 DEF TooLate
<1> QED  BY <1>3, <1>4

LEMMA LoadStep ==
  ASSUME Inv, NEW c \in Calls, LoadToSettle(c)
  PROVE  Inv'
<1> DEFINE x == call[c]
           k == x.key
           n == doc[k].rev
           r == [x EXCEPT !.at = "swap", !.rev = n]
<1>1. /\ Types /\ x \in CallRecord /\ x.at = "settle"
      /\ UNCHANGED <<plan, doc, turns, told, due, budget>>
      /\ budget' \in [faults : 0 .. MaxFaults, crashes : 0 .. MaxCrashes]
      /\ HoldsDoc(x, Verb(c)) /\ SettlesOK(c, x)
  BY DEF Inv, Types, LoadToSettle, At, CallOK
<1>2. CASE ~Settles(c)
  BY <1>1, <1>2, TooLateStep DEF LoadToSettle
<1>3. CASE Settles(c)
  <2>1. Put(c, r)
    BY <1>3 DEF LoadToSettle, Doc
  <2>2. /\ k \in Keys /\ n \in Nat /\ doc[k].status = From(c)
        /\ "swap" \in Labels
    BY <1>1, <1>3, PlanFacts, KeyKinds
       DEF HoldsDoc, Holding, Types, DocRecord, Settles, Doc, Labels
  <2> HIDE DEF n
  <2>3. /\ r \in CallRecord /\ r.at = "swap" /\ r.rev = n /\ r.key = x.key
        /\ r.tag = x.tag /\ r.outcome = x.outcome /\ r.input = x.input
    <3> HIDE DEF x
    <3> QED  BY <1>1, <2>2 DEF CallRecord
  <2> HIDE DEF r
  <2>4. /\ call' \in [Calls -> CallRecord] /\ call'[c] = r
        /\ \A b \in Calls \ {c} : call'[b] = call[b]
    BY <1>1, <2>1, <2>3, PutCall
  <2>5. /\ Verb(c)' = Verb(c) /\ From(c)' = From(c)
        /\ \A t : MayUse(c, t)' <=> MayUse(c, t)
        /\ \A j : ChildTurn(j)' <=> ChildTurn(j)
    BY <1>1 DEF Verb, From, MayUse, ChildTurn
  <2> HIDE DEF k
  <2>6. HoldsDoc(r, Verb(c)) /\ SettlesOK(c, r)
    BY <1>1, <2>2, <2>3
       DEF HoldsDoc, SettlesOK, Settling1, Holding, k, n
  <2>7. HoldsDoc(call[c], Verb(c))'
    BY <1>1, <2>4, <2>5, <2>6 DEF HoldsDoc
  <2>8. SettlesOK(c, call[c])'
    <3>1. /\ call'[c] = r /\ doc' = doc
      BY <1>1, <2>4
    <3> QED  BY <3>1, <2>5, <2>6 DEF SettlesOK
  <2>9. SubmitsOK(c, call[c])'
    BY <2>3, <2>4 DEF SubmitsOK
  <2> QED  BY <1>1, <2>4, <2>7, <2>8, <2>9, Still DEF CallOK
<1> QED  BY <1>2, <1>3

\* What a settlement makes of a document.
LEMMA SettledFacts ==
  ASSUME Inv, NEW c \in Calls, call[c].at = "swap", Unchanged(c),
         NEW k, k = call[c].key, NEW e, e = Settled(c, doc[k])
  PROVE  /\ k \in Keys /\ doc[k].status \notin Final /\ ~doc[k].marked
         /\ doc[k].status # "absent"
         /\ e \in DocRecord /\ e.rev = doc[k].rev + 1
         /\ e.marked = doc[k].marked
         /\ e.status \in StatusesOf(k) \ {"absent", "waiting", "authorized"}
         /\ e.tag = call[c].tag
         /\ e.status \in Final => e.tag \in TagsOfStatus(e.status)
         /\ e.status \in {"accepted", "done", "error"} => ChildTurn(k)
         /\ Verb(c) # "send" => e.status \in Final
         /\ Verb(c) = "send" => e.status \notin Final
         /\ e.input = Settled(c, Doc(c)).input
<1> DEFINE x == call[c]
           d == doc[k]
           st == StatusOf(c)
           i == IF call[c].tag = "recovery" THEN d.input ELSE call[c].input
<1>1. /\ Types /\ x \in CallRecord
      /\ HoldsDoc(x, Verb(c)) /\ SettlesOK(c, x) /\ Verb(c) \in Verbs
  BY PlanFacts DEF Inv, Types, CallOK
<1>2. /\ k \in KeysOf(Verb(c)) /\ k \in Keys /\ d.status # "absent"
  BY <1>1, KeyKinds DEF HoldsDoc, Holding
<1>3. /\ x.tag \in TagsOfVerb(Verb(c)) /\ d.status = From(c)
      /\ Verb(c) = "send" => /\ x.outcome # "none"
                             /\ x.outcome = "accepted" => ChildTurn(k)
  BY <1>1 DEF SettlesOK, Settling1, Unchanged, Doc
<1>4. d \in DocRecord /\ DocOK(k)
  BY <1>1, <1>2 DEF Types, Inv
<1>5. Verb(c) \in SettleVerbs /\ x.outcome \in {"none", "accepted", "rejected"}
  BY <1>1 DEF SettlesOK, Settling1, CallRecord
<1>6. i \in Inputs \cup {NoInput} /\ x.tag \in Tags
  BY <1>1, <1>4 DEF DocRecord, CallRecord
<1>7. d.status \notin Final
  BY <1>3 DEF From, Final
<1>8. ~d.marked /\ (d.status = "accepted" => ChildTurn(k))
  BY <1>4, <1>7 DEF DocOK
<1>9. /\ st \in StatusesOf(k) \ {"absent", "waiting", "authorized"}
      /\ st \in Statuses
      /\ st \in Final => x.tag \in TagsOfStatus(st)
      /\ st \in {"accepted", "done", "error"} => ChildTurn(k)
      /\ Verb(c) # "send" => st \in Final
      /\ Verb(c) = "send" => st \notin Final
  <2> USE DEF TagsOfVerb, StatusOf, Statuses, Final, TagsOfStatus
  <2>1. CASE Verb(c) \in {"callback", "deadline", "sweep"}
    <3>1. k \in WorkKeys
      BY <1>2, <2>1 DEF KeysOf
    <3>2. x.tag \in {"callback", "timer"}
      BY <1>3, <2>1
    <3> QED  BY <2>1, <3>1, <3>2, KeyKinds
  <2>2. CASE Verb(c) = "deliver"
    <3>1. k \in PoisonKeys
      BY <1>2, <2>2 DEF KeysOf
    <3>2. x.tag = "recovery"
      BY <1>3, <2>2
    <3> QED  BY <2>2, <3>1, <3>2, KeyKinds
  <2>3. CASE Verb(c) = "send"
    <3>1. k \in Children
      BY <1>2, <2>3 DEF KeysOf
    <3>2. x.tag = "child" /\ st \in {"accepted", "rejected"}
      BY <1>3, <1>5, <2>3
    <3>3. st = "accepted" => ChildTurn(k)
      BY <1>3, <2>3, <3>2
    <3> HIDE DEF st
    <3> QED  BY <2>3, <3>1, <3>2, <3>3, KeyKinds
  <2>4. CASE Verb(c) = "terminal"
    <3>1. k \in Children
      BY <1>2, <2>4 DEF KeysOf
    <3>2. x.tag \in {"done", "error"} /\ ChildTurn(k)
      BY <1>3, <1>8, <2>4 DEF From
    <3> QED  BY <2>4, <3>1, <3>2, KeyKinds
  <2> QED  BY <1>5, <2>1, <2>2, <2>3, <2>4 DEF SettleVerbs
<1> HIDE DEF st, i
<1>10. e = [d EXCEPT !.status = st, !.rev = d.rev + 1, !.tag = x.tag,
                     !.input = i]
  BY DEF Settled, st, i
<1>11. /\ e \in DocRecord /\ e.rev = d.rev + 1 /\ e.marked = d.marked
       /\ e.status = st /\ e.tag = x.tag /\ e.input = i
  <2> DEFINE n == d.rev + 1
             t == x.tag
  <2>1. /\ n \in Nat /\ t \in Tags /\ d \in DocRecord /\ st \in Statuses
        /\ i \in Inputs \cup {NoInput}
    BY <1>4, <1>6, <1>9 DEF DocRecord
  <2>2. e = [d EXCEPT !.status = st, !.rev = n, !.tag = t, !.input = i]
    BY <1>10
  <2> HIDE DEF n, t, d
  <2>3. /\ e \in DocRecord /\ e.rev = n /\ e.marked = d.marked
        /\ e.status = st /\ e.tag = t /\ e.input = i
    BY <2>1, <2>2 DEF DocRecord
  <2> QED  BY <2>3 DEF n, t, d
<1>12. e.input = Settled(c, Doc(c)).input
  BY DEF Doc
<1> QED  BY <1>2, <1>7, <1>8, <1>9, <1>11, <1>12

LEMMA SwapStep ==
  ASSUME Inv, NEW c \in Calls, Swap(c)
  PROVE  Inv'
<1> DEFINE k == call[c].key
           d == doc[k]
           e == Settled(c, d)
           x == call[c]
<1>1. /\ Types /\ x \in CallRecord /\ x.at = "swap"
      /\ UNCHANGED <<plan, turns, told, due, budget>>
      /\ budget' \in [faults : 0 .. MaxFaults, crashes : 0 .. MaxCrashes]
      /\ HoldsDoc(x, Verb(c)) /\ SettlesOK(c, x)
  BY DEF Inv, Types, Swap, At, CallOK
<1>2. CASE /\ Unchanged(c) /\ doc' = [doc EXCEPT ![k] = e]
           /\ IF Verb(c) = "send" THEN End(c, "done")
              ELSE Submit(c, [x EXCEPT !.input = Settled(c, Doc(c)).input])
  <2>1. /\ k \in Keys /\ d.status \notin Final /\ ~d.marked
        /\ d.status # "absent"
        /\ e \in DocRecord /\ e.rev = d.rev + 1 /\ e.marked = d.marked
        /\ e.status \in StatusesOf(k) \ {"absent", "waiting", "authorized"}
        /\ e.tag = x.tag
        /\ e.status \in Final => e.tag \in TagsOfStatus(e.status)
        /\ e.status \in {"accepted", "done", "error"} => ChildTurn(k)
        /\ Verb(c) # "send" => e.status \in Final
        /\ e.input = Settled(c, Doc(c)).input
    BY <1>1, <1>2, SettledFacts
  <2> HIDE DEF e
  <2>2. doc' \in [Keys -> DocRecord]
    BY <1>1, <1>2, <2>1 DEF Types
  <2>3. doc'[k] = e /\ \A j \in Keys \ {k} : doc'[j] = doc[j]
    BY <1>1, <1>2, <2>1 DEF Types
  <2>4. /\ call' \in [Calls -> CallRecord] /\ CallOK(c)'
        /\ \A b \in Calls \ {c} : call'[b] = call[b]
    <3>1. CASE Verb(c) = "send"
      BY <1>1, <1>2, <3>1, EndCall, RestIsOK
    <3>2. CASE Verb(c) # "send"
      <4> DEFINE i == e.input
                 r == [x EXCEPT !.input = i]
      <4>1. Submit(c, r)
        BY <1>2, <2>1, <3>2
      <4>2. i \in Inputs \cup {NoInput}
        BY <2>1 DEF DocRecord
      <4> HIDE DEF i
      <4>3. r \in CallRecord /\ r.key = k /\ r.tag = x.tag /\ r.input = i
        <5>1. k = x.key
          OBVIOUS
        <5> HIDE DEF x, k
        <5> QED  BY <1>1, <4>2, <5>1 DEF CallRecord
      <4> HIDE DEF r
      <4>4. /\ call' \in [Calls -> CallRecord]
            /\ \A b \in Calls \ {c} : call'[b] = call[b]
            /\ call'[c].at = "submit" /\ call'[c].key = k
            /\ call'[c].tag = x.tag /\ call'[c].input = i
        BY <1>1, <4>1, <4>3, SubmitCall
      <4>5. Verb(c)' = Verb(c) /\ k \in KeysOf(Verb(c))
        BY <1>1 DEF Verb, HoldsDoc, Holding
      <4> HIDE DEF k, x
      <4>6. HoldsDoc(call[c], Verb(c))'
        BY <2>1, <2>3, <4>4, <4>5 DEF HoldsDoc
      <4>7. SettlesOK(c, call[c])'
        BY <4>4 DEF SettlesOK, Settling1
      <4>8. SubmitsOK(c, call[c])'
        BY <2>1, <2>3, <3>2, <4>4, <4>5 DEF SubmitsOK, i
      <4> QED  BY <4>4, <4>6, <4>7, <4>8 DEF CallOK
    <3> QED  BY <3>1, <3>2
  <2>5. Types'
    BY <1>1, <2>2, <2>4 DEF Types
  <2>6. AllMove
    <3> SUFFICES ASSUME NEW j \in Keys PROVE Moves(doc[j], doc'[j])
      BY <1>1 DEF AllMove
    <3>1. CASE j = k
      BY <2>1, <2>3, <3>1 DEF Moves
    <3>2. CASE j # k
      BY <2>3, <3>2 DEF Moves
    <3> QED  BY <3>1, <3>2
  <2>7. ASSUME NEW j \in Keys PROVE DocOK(j)'
    <3>1. ChildTurn(j)' <=> ChildTurn(j)
      BY <1>1 DEF ChildTurn
    <3>2. CASE j = k
      BY <2>1, <2>3, <3>1, <3>2 DEF DocOK
    <3>3. CASE j # k
      BY <1>1, <2>3, <3>1, <3>3 DEF Inv, DocOK
    <3> QED  BY <3>2, <3>3
  <2>8. TurnsOK'
    BY <1>1, <2>5, <2>6, TurnsStand
  <2> QED  BY <2>4, <2>5, <2>6, <2>7, <2>8, Glue
<1>3. CASE ~Unchanged(c) /\ UNCHANGED doc /\ End(c, "done")
  BY <1>1, <1>3, StillEnds
<1>4. CASE /\ ~Unchanged(c) /\ UNCHANGED doc
           /\ call[c].round + 1 # MaxRounds
           /\ Put(c, [x EXCEPT !.at = "settle", !.round = x.round + 1])
  <2> DEFINE n == x.round + 1
             r == [x EXCEPT !.at = "settle", !.round = n]
  <2>1. n \in 0 .. MaxRounds - 1 /\ "settle" \in Labels
    <3>1. x.round \in 0 .. MaxRounds - 1
      BY <1>1 DEF CallRecord
    <3>2. n # MaxRounds
      BY <1>4
    <3> HIDE DEF x
    <3> QED  BY <3>1, <3>2, ControlsAssumption DEF Labels
  <2>2. Put(c, r)
    BY <1>4
  <2> HIDE DEF n
  <2>3. /\ r \in CallRecord /\ r.at = "settle" /\ r.key = x.key
        /\ r.tag = x.tag /\ r.outcome = x.outcome /\ r.input = x.input
    <3> HIDE DEF x
    <3> QED  BY <1>1, <2>1 DEF CallRecord
  <2> HIDE DEF r
  <2>4. /\ call' \in [Calls -> CallRecord] /\ call'[c] = r
        /\ \A b \in Calls \ {c} : call'[b] = call[b]
    BY <1>1, <2>2, <2>3, PutCall
  <2>5. /\ Verb(c)' = Verb(c)
        /\ \A t : MayUse(c, t)' <=> MayUse(c, t)
        /\ \A j : ChildTurn(j)' <=> ChildTurn(j)
    BY <1>1 DEF Verb, MayUse, ChildTurn
  <2>6. HoldsDoc(r, Verb(c)) /\ SettlesOK(c, r)
    BY <1>1, <2>3 DEF HoldsDoc, SettlesOK, Settling1, Holding
  <2>7. HoldsDoc(call[c], Verb(c))'
    BY <1>4, <2>4, <2>5, <2>6 DEF HoldsDoc
  <2>8. SettlesOK(c, call[c])'
    BY <1>4, <2>3, <2>4, <2>5, <2>6 DEF SettlesOK
  <2>9. SubmitsOK(c, call[c])'
    BY <2>3, <2>4 DEF SubmitsOK
  <2> QED  BY <1>1, <1>4, <2>4, <2>7, <2>8, <2>9, Still DEF CallOK
<1>5. \/ /\ Unchanged(c) /\ doc' = [doc EXCEPT ![k] = e]
         /\ IF Verb(c) = "send" THEN End(c, "done")
            ELSE Submit(c, [x EXCEPT !.input = Settled(c, Doc(c)).input])
      \/ ~Unchanged(c) /\ UNCHANGED doc /\ End(c, "done")
      \/ /\ ~Unchanged(c) /\ UNCHANGED doc
         /\ call[c].round + 1 # MaxRounds
         /\ Put(c, [x EXCEPT !.at = "settle", !.round = x.round + 1])
  BY DEF Swap
<1> QED  BY <1>2, <1>3, <1>4, <1>5
-----------------------------------------------------------------------------
(* The submission                                                           *)

\* What a call that submits holds.
LEMMA SubmitFacts ==
  ASSUME Inv, NEW c \in Calls, call[c].at = "submit"
  PROVE  /\ Types /\ call[c] \in CallRecord
         /\ call[c].key \in KeysOf(Verb(c)) /\ call[c].key \in Keys
         /\ doc[call[c].key].status # "absent"
         /\ call[c].tag \in Tags /\ call[c].input \in Inputs \cup {NoInput}
         /\ Verb(c) = "send" => call[c].tag = "child"
         /\ Verb(c) # "send" =>
              /\ doc[call[c].key].status \in Final
              /\ doc[call[c].key].tag = call[c].tag
              /\ doc[call[c].key].input = call[c].input
<1>1. Types /\ HoldsDoc(call[c], Verb(c)) /\ SubmitsOK(c, call[c])
      /\ Verb(c) \in Verbs
  BY PlanFacts DEF Inv, CallOK
<1>2. call[c] \in CallRecord
  BY <1>1 DEF Types
<1>3. /\ call[c].key \in KeysOf(Verb(c)) /\ call[c].key \in Keys
      /\ doc[call[c].key].status # "absent"
  BY <1>1, KeyKinds DEF HoldsDoc, Holding
<1>4. call[c].tag \in Tags /\ call[c].input \in Inputs \cup {NoInput}
  BY <1>2 DEF CallRecord
<1> QED  BY <1>1, <1>2, <1>3, <1>4 DEF SubmitsOK

\* The Kernel may admit the turn of a call that submits.
LEMMA TurnAdded ==
  ASSUME Inv, NEW c \in Calls, call[c].at = "submit",
         Admits(c) \/ UNCHANGED turns,
         UNCHANGED <<plan, doc, due>>, told \subseteq told',
         told' \subseteq Keys \X Tags,
         budget' \in [faults : 0 .. MaxFaults, crashes : 0 .. MaxCrashes],
         call' \in [Calls -> CallRecord],
         \A b \in Calls \ {c} : call'[b] = call[b], CallOK(c)'
  PROVE  Inv'
<1> DEFINE x == call[c]
           k == x.key
           g == x.tag
           i == x.input
           u == [msg |-> <<k, g>>, input |-> i]
<1>1. /\ Types /\ k \in Keys /\ g \in Tags /\ i \in Inputs \cup {NoInput}
      /\ g # "child" => doc[k].status \in Final /\ doc[k].tag = g
  BY SubmitFacts
<1>2. u = Turn(c)
  BY DEF Turn, Message
<1> HIDE DEF k, g, i
<1>3. /\ u \in [msg : Keys \X Tags, input : Inputs \cup {NoInput}]
      /\ u.msg[1] = k /\ u.msg[2] = g
  BY <1>1
<1> HIDE DEF u
<1>4. turns' = turns \/ turns' = turns \cup {u}
  BY <1>2 DEF Admits
<1>5. Types'
  BY <1>1, <1>3, <1>4 DEF Types
<1>6. turns \subseteq turns' /\ AllMove
  BY <1>4 DEF AllMove, Moves
<1>7. ASSUME NEW j \in Keys PROVE DocOK(j)'
  BY <1>6, DocsStand
<1>8. TurnsOK'
  <2> SUFFICES ASSUME NEW t \in turns', t.msg[2] # "child"
               PROVE  /\ doc[t.msg[1]].status \in Final
                      /\ doc[t.msg[1]].tag = t.msg[2]
    BY DEF TurnsOK
  <2>1. CASE t \in turns
    BY <2>1 DEF Inv, TurnsOK
  <2>2. CASE t = u
    BY <1>1, <1>3, <2>2
  <2> QED  BY <1>4, <2>1, <2>2
<1> QED  BY <1>5, <1>6, <1>7, <1>8, Glue

\* The answer of the Kernel is what a call goes on with.
LEMMA ConcludedOK ==
  ASSUME Inv, NEW c \in Calls, call[c].at = "submit",
         NEW o \in {"accepted", "rejected"}, Concluded(c, o),
         UNCHANGED <<plan, doc>>,
         Verb(c) # "send" => Message(c) \in told',
         Verb(c) = "send" /\ o = "accepted" =>
           \E t \in turns' : t.msg = Message(c)
  PROVE  CallOK(c)'
<1> DEFINE x == call[c]
           k == x.key
           y == call'[c]
<1>1. /\ Types /\ k \in KeysOf(Verb(c)) /\ doc[k].status # "absent"
      /\ Verb(c) = "send" => x.tag = "child"
      /\ Verb(c) # "send" =>
           doc[k].status \in Final /\ doc[k].tag = x.tag
           /\ doc[k].input = x.input
  BY SubmitFacts
<1>2. /\ y.at = IF Verb(c) = "send" THEN "settle" ELSE "mark"
      /\ y.key = k /\ y.tag = x.tag /\ y.input = x.input /\ y.outcome = o
  BY <1>1, ConcludeCall
<1>3. Verb(c)' = Verb(c) /\ doc' = doc
  BY DEF Verb
<1>4. Message(c) = <<k, x.tag>>
  BY DEF Message
<1> HIDE DEF k, x
<1>5. Verb(c) = "send" /\ o = "accepted" =>
        \E t \in turns' : t.msg = <<k, "child">>
  BY <1>1, <1>4
<1>6. HoldsDoc(call[c], Verb(c))'
  BY <1>1, <1>2, <1>3 DEF HoldsDoc
<1>7. SettlesOK(c, call[c])'
  <2>1. CASE Verb(c) = "send"
    <3>1. Verb(c)' = "send" /\ y.at = "settle" /\ y.tag = "child"
      BY <1>1, <1>2, <1>3, <2>1
    <3>2. o = "accepted" => \E t \in turns' : t.msg = <<y.key, "child">>
      BY <1>2, <1>5, <2>1
    <3> QED  BY <1>2, <3>1, <3>2
             DEF SettlesOK, SettleVerbs, TagsOfVerb, ChildTurn
  <2>2. CASE Verb(c) # "send"
    BY <1>2, <2>2 DEF SettlesOK, Settling1
  <2> QED  BY <2>1, <2>2
<1>8. SubmitsOK(c, call[c])'
  BY <1>1, <1>2, <1>3, <1>4 DEF SubmitsOK
<1> QED  BY <1>6, <1>7, <1>8 DEF CallOK

LEMMA AnsweredStep ==
  ASSUME Inv, NEW c \in Calls, Answered(c)
  PROVE  Inv'
<1>1. /\ Types /\ call[c].at = "submit" /\ Message(c) \in Keys \X Tags
      /\ told' = told \cup {Message(c)} /\ UNCHANGED <<plan, doc, due, budget>>
      /\ budget' \in [faults : 0 .. MaxFaults, crashes : 0 .. MaxCrashes]
      /\ told' \subseteq Keys \X Tags
  <2>1. call[c].at = "submit"
    BY DEF Answered, At
  <2>2. Types /\ call[c].key \in Keys /\ call[c].tag \in Tags
    BY <2>1, SubmitFacts
  <2> QED  BY <2>1, <2>2 DEF Answered, Message, Types
<1>2. CASE Admits(c) /\ Concluded(c, "accepted")
  <2>1. Turn(c) \in turns' /\ Turn(c).msg = Message(c)
    BY <1>2 DEF Admits, Turn
  <2>2. CallOK(c)'
    BY <1>1, <1>2, <2>1, ConcludedOK
  <2> QED  BY <1>1, <1>2, <2>2, ConcludeCall, TurnAdded
<1>3. CASE Denies(c) /\ Concluded(c, "rejected")
  <2>1. CallOK(c)' /\ UNCHANGED turns
    BY <1>1, <1>3, ConcludedOK DEF Denies
  <2> QED  BY <1>1, <1>3, <2>1, ConcludeCall, TurnAdded
<1> QED  BY <1>2, <1>3 DEF Answered

LEMMA RefusedStep ==
  ASSUME Inv, NEW c \in Calls, Refused(c)
  PROVE  Inv'
<1>1. /\ Types /\ call[c].at = "submit" /\ Concluded(c, "rejected")
      /\ Verb(c) = "send" /\ UNCHANGED <<plan, doc, turns, told, due, budget>>
      /\ budget' \in [faults : 0 .. MaxFaults, crashes : 0 .. MaxCrashes]
  BY DEF Refused, At, Inv, Types
<1>2. CallOK(c)'
  BY <1>1, ConcludedOK
<1> QED  BY <1>1, <1>2, ConcludeCall, Still

\* Whatever is left behind, the turn of the call is admitted or none is.
LEMMA UnansweredTurns ==
  ASSUME NEW c \in Calls, Unanswered(c) \/ Fails(c)
  PROVE  Admits(c) \/ UNCHANGED turns
BY DEF Unanswered, Fails

LEMMA ThrowsStep ==
  ASSUME Inv, NEW c \in Calls, Throws(c)
  PROVE  Inv'
<1>1. /\ Types /\ call[c].at = "submit" /\ End(c, "done")
      /\ Admits(c) \/ UNCHANGED turns
      /\ UNCHANGED <<plan, doc, told, due>>
  BY UnansweredTurns DEF Throws, Fails, At, Inv
<1>2. budget' \in [faults : 0 .. MaxFaults, crashes : 0 .. MaxCrashes]
  <2>1. budget \in [faults : 0 .. MaxFaults, crashes : 0 .. MaxCrashes]
    BY <1>1 DEF Types
  <2> DEFINE n == budget.faults + 1
  <2>2. \/ budget' = budget
        \/ budget.faults < MaxFaults /\ budget' = [budget EXCEPT !.faults = n]
    BY DEF Throws, Fails
  <2>3. budget.faults < MaxFaults => n \in 0 .. MaxFaults
    BY <2>1, ControlsAssumption
  <2> HIDE DEF n
  <2> QED  BY <2>1, <2>2, <2>3
<1>3. /\ call' \in [Calls -> CallRecord] /\ CallOK(c)'
      /\ \A b \in Calls \ {c} : call'[b] = call[b]
  BY <1>1, EndCall, RestIsOK
<1>4. told' \subseteq Keys \X Tags
  BY <1>1 DEF Types
<1> QED  BY <1>1, <1>2, <1>3, <1>4, TurnAdded

LEMMA ConflictsStep ==
  ASSUME Inv, NEW c \in Calls, Conflicts(c)
  PROVE  Inv'
<1>1. /\ UNCHANGED <<plan, doc, turns, told, due, budget>> /\ End(c, "done")
      /\ budget' \in [faults : 0 .. MaxFaults, crashes : 0 .. MaxCrashes]
  BY DEF Conflicts, Inv, Types
<1> QED  BY <1>1, StillEnds

LEMMA MarkStep ==
  ASSUME Inv, NEW c \in Calls, Mark(c)
  PROVE  Inv'
<1> DEFINE x == call[c]
           k == x.key
           d == doc[k]
           n == d.rev + 1
           e == [d EXCEPT !.marked = TRUE, !.rev = n]
<1>1. /\ Types /\ x.at = "mark" /\ Leave(c) /\ plan' = plan
      /\ UNCHANGED <<plan, turns, told, due, budget>>
      /\ budget' \in [faults : 0 .. MaxFaults, crashes : 0 .. MaxCrashes]
      /\ HoldsDoc(x, Verb(c)) /\ SubmitsOK(c, x) /\ Verb(c) \in Verbs
  BY PlanFacts DEF Mark, At, Inv, Types, CallOK
<1>2. /\ k \in Keys /\ d.status \in Final /\ d.tag = x.tag
      /\ <<k, x.tag>> \in told
  BY <1>1, KeyKinds DEF HoldsDoc, Holding, SubmitsOK
<1>3. /\ call' \in [Calls -> CallRecord] /\ CallOK(c)'
      /\ \A b \in Calls \ {c} : call'[b] = call[b]
  BY <1>1, LeaveCall, RestIsOK
<1>4. CASE UNCHANGED doc
  BY <1>1, <1>3, <1>4, Still
<1>5. CASE doc' = [doc EXCEPT ![k] = e]
  <2>1. d \in DocRecord /\ n \in Nat
    BY <1>1, <1>2 DEF Types, DocRecord
  <2>2. /\ e \in DocRecord /\ e.rev = n /\ e.status = d.status
        /\ e.tag = d.tag /\ e.input = d.input
    <3> HIDE DEF d, n
    <3> QED  BY <2>1 DEF DocRecord
  <2> HIDE DEF e
  <2>3. /\ doc' \in [Keys -> DocRecord] /\ doc'[k] = e
        /\ \A j \in Keys \ {k} : doc'[j] = doc[j]
    BY <1>1, <1>2, <1>5, <2>2 DEF Types
  <2>4. Types'
    BY <1>1, <1>3, <2>3 DEF Types
  <2>5. AllMove
    <3> SUFFICES ASSUME NEW j \in Keys PROVE Moves(doc[j], doc'[j])
      BY <1>1 DEF AllMove
    <3>1. CASE j = k
      BY <1>2, <2>2, <2>3, <3>1 DEF Moves
    <3>2. CASE j # k
      BY <2>3, <3>2 DEF Moves
    <3> QED  BY <3>1, <3>2
  <2>6. ASSUME NEW j \in Keys PROVE DocOK(j)'
    <3>1. (ChildTurn(j)' <=> ChildTurn(j)) /\ told' = told
      BY <1>1 DEF ChildTurn
    <3>2. CASE j = k
      <4>1. DocOK(k)
        BY <1>2 DEF Inv
      <4>2. doc'[j] = e /\ e.status = doc[k].status /\ e.tag = doc[k].tag
        BY <2>2, <2>3, <3>2
      <4> HIDE DEF k, d, x
      <4>3. <<k, doc[k].tag>> \in told /\ doc[k].status \in Final
        BY <1>2 DEF d
      <4> QED  BY <3>1, <3>2, <4>1, <4>2, <4>3 DEF DocOK
    <3>3. CASE j # k
      BY <1>1, <2>3, <3>1, <3>3 DEF Inv, DocOK
    <3> QED  BY <3>2, <3>3
  <2>7. TurnsOK'
    BY <1>1, <2>4, <2>5, TurnsStand
  <2> QED  BY <1>3, <2>4, <2>5, <2>6, <2>7, Glue
<1>6. UNCHANGED doc \/ doc' = [doc EXCEPT ![k] = e]
  BY DEF Mark, Doc
<1> QED  BY <1>4, <1>5, <1>6
-----------------------------------------------------------------------------
(* The sweep                                                                *)

LEMMA SweepStep ==
  ASSUME Inv, NEW c \in Calls, Sweep(c)
  PROVE  Inv'
<1> DEFINE s == {w \in Works : doc[<<"work", w>>].status # "absent"}
           x == NewCall
           r == [x EXCEPT !.at = "sweep", !.late = due, !.todo = s]
<1>1. /\ Types /\ Verb(c) = "sweep"
      /\ UNCHANGED <<plan, doc, turns, told, due, budget>>
      /\ budget' \in [faults : 0 .. MaxFaults, crashes : 0 .. MaxCrashes]
      /\ Verb(c)' = "sweep" /\ due \in BOOLEAN
  BY DEF Sweep, Inv, Types, Verb
<1>2. s \in SUBSET Works /\ "sweep" \in Labels /\ x \in CallRecord
  BY NewCallFacts DEF Labels
<1>3. Put(c, r)
  BY DEF Sweep
<1> HIDE DEF s, x
<1>4. r \in CallRecord /\ r.at = "sweep"
  BY <1>1, <1>2 DEF CallRecord
<1> HIDE DEF r
<1>5. /\ call' \in [Calls -> CallRecord] /\ call'[c].at = "sweep"
      /\ \A b \in Calls \ {c} : call'[b] = call[b]
  BY <1>1, <1>3, <1>4, PutCall
<1> QED  BY <1>1, <1>5, RestIsOK, Still

LEMMA SweepNextStep ==
  ASSUME Inv, NEW c \in Calls, SweepNext(c)
  PROVE  Inv'
<1> DEFINE x == call[c]
<1>1. /\ Types /\ x.at = "sweep" /\ x \in CallRecord /\ Verb(c) = "sweep"
      /\ UNCHANGED <<plan, doc, turns, told, due, budget>>
      /\ budget' \in [faults : 0 .. MaxFaults, crashes : 0 .. MaxCrashes]
      /\ Verb(c)' = "sweep"
  BY DEF SweepNext, At, Inv, Types, CallOK, SubmitsOK, Verb
<1>2. CASE End(c, "done")
  BY <1>1, <1>2, StillEnds
<1>3. ASSUME NEW w \in x.todo,
             LET k == <<"work", w>>
                 d == doc[k]
                 r == [x EXCEPT !.todo = x.todo \ {w}, !.key = k]
             IN  \/ /\ d.status = "waiting"
                    /\ Settle(c, [r EXCEPT !.tag = "timer", !.input = NoInput])
                 \/ /\ Lost(d)
                    /\ Submit(c, [r EXCEPT !.tag = d.tag, !.input = d.input])
                 \/ Put(c, r)
      PROVE  Inv'
  <2> DEFINE k == <<"work", w>>
             d == doc[k]
             g == d.tag
             i == d.input
             s == x.todo \ {w}
             r == [x EXCEPT !.todo = s, !.key = k]
  <2>1. /\ k \in WorkKeys /\ k \in Keys /\ s \in SUBSET Works
        /\ KeysOf("sweep") = WorkKeys
    BY <1>1 DEF CallRecord, WorkKeys, Keys, KeysOf
  <2>2. d \in DocRecord /\ DocOK(k)
    BY <1>1, <2>1 DEF Types, Inv
  <2>3. g \in Tags /\ i \in Inputs \cup {NoInput} /\ "timer" \in Tags
    BY <2>2 DEF DocRecord, Tags
  <2>4. \/ /\ d.status = "waiting"
           /\ Settle(c, [r EXCEPT !.tag = "timer", !.input = NoInput])
        \/ Lost(d) /\ Submit(c, [r EXCEPT !.tag = g, !.input = i])
        \/ Put(c, r)
    BY <1>3
  <2> HIDE DEF k, g, i, s
  <2>5. r \in CallRecord /\ r.at = "sweep" /\ r.key = k
    <3> HIDE DEF x
    <3> QED  BY <1>1, <2>1 DEF CallRecord
  <2> HIDE DEF r, x
  <2>6. CASE /\ d.status = "waiting"
             /\ Settle(c, [r EXCEPT !.tag = "timer", !.input = NoInput])
    <3> DEFINE q == [r EXCEPT !.tag = "timer", !.input = NoInput]
    <3>1. q \in CallRecord /\ q.key = k /\ q.tag = "timer"
      BY <2>3, <2>5 DEF CallRecord
    <3>2. Settle(c, q)
      BY <2>6
    <3> HIDE DEF q
    <3>3. /\ call' \in [Calls -> CallRecord]
          /\ \A b \in Calls \ {c} : call'[b] = call[b]
          /\ call'[c].at = "settle" /\ call'[c].key = k
          /\ call'[c].tag = "timer"
      BY <1>1, <3>1, <3>2, SettleCall
    <3>4. HoldsDoc(call[c], Verb(c))'
      BY <1>1, <2>1, <2>6, <3>3 DEF HoldsDoc
    <3>5. SettlesOK(c, call[c])'
      BY <1>1, <3>3 DEF SettlesOK, SettleVerbs, TagsOfVerb
    <3>6. SubmitsOK(c, call[c])'
      BY <3>3 DEF SubmitsOK
    <3> QED  BY <1>1, <3>3, <3>4, <3>5, <3>6, Still DEF CallOK
  <2>7. CASE Lost(d) /\ Submit(c, [r EXCEPT !.tag = g, !.input = i])
    <3> DEFINE q == [r EXCEPT !.tag = g, !.input = i]
    <3>1. q \in CallRecord /\ q.key = k /\ q.tag = g /\ q.input = i
      BY <2>3, <2>5 DEF CallRecord
    <3>2. Submit(c, q)
      BY <2>7
    <3> HIDE DEF q
    <3>3. /\ call' \in [Calls -> CallRecord]
          /\ \A b \in Calls \ {c} : call'[b] = call[b]
          /\ call'[c].at = "submit" /\ call'[c].key = k
          /\ call'[c].tag = g /\ call'[c].input = i
      BY <1>1, <3>1, <3>2, SubmitCall
    <3>4. d.status \in Final /\ d.status # "absent" /\ doc' = doc
      BY <1>1, <2>7 DEF Lost, Final
    <3>5. HoldsDoc(call[c], Verb(c))'
      BY <1>1, <2>1, <3>3, <3>4 DEF HoldsDoc
    <3>6. SettlesOK(c, call[c])'
      BY <3>3 DEF SettlesOK, Settling1
    <3>7. SubmitsOK(c, call[c])'
      BY <1>1, <3>3, <3>4 DEF SubmitsOK, g, i
    <3> QED  BY <1>1, <3>3, <3>5, <3>6, <3>7, Still DEF CallOK
  <2>8. CASE Put(c, r)
    <3>1. /\ call' \in [Calls -> CallRecord] /\ call'[c].at = "sweep"
          /\ \A b \in Calls \ {c} : call'[b] = call[b]
      BY <1>1, <2>5, <2>8, PutCall
    <3> QED  BY <1>1, <3>1, RestIsOK, Still
  <2> QED  BY <2>4, <2>6, <2>7, <2>8
<1> QED  BY <1>2, <1>3 DEF SweepNext

-----------------------------------------------------------------------------
(* The invariant                                                            *)

LEMMA CallsStand ==
  ASSUME Inv, UNCHANGED <<plan, doc, turns, told, call, budget>>,
         due' \in BOOLEAN
  PROVE  Inv'
<1>1. Types'
  BY DEF Inv, Types
<1>2. AllMove
  BY DEF AllMove, Moves
<1>3. \A k \in Keys : DocOK(k)'
  BY DocsStand
<1>4. TurnsOK'
  BY <1>1, <1>2, TurnsStand
<1>5. \A c \in Calls : CallOK(c)'
  BY <1>1, <1>2, CallStands
<1> QED  BY <1>1, <1>3, <1>4, <1>5 DEF Inv

LEMMA CrashStep ==
  ASSUME Inv, NEW c \in Calls, Crash(c)
  PROVE  Inv'
<1>1. budget \in [faults : 0 .. MaxFaults, crashes : 0 .. MaxCrashes]
  BY DEF Inv, Types
<1> DEFINE n == budget.crashes + 1
<1>2. n \in 0 .. MaxCrashes
  BY <1>1, ControlsAssumption DEF Crash
<1>3. budget' = [budget EXCEPT !.crashes = n]
  BY DEF Crash
<1> HIDE DEF n
<1>4. budget' \in [faults : 0 .. MaxFaults, crashes : 0 .. MaxCrashes]
  BY <1>1, <1>2, <1>3
<1>5. CASE ~At(c, "submit")
  BY <1>4, <1>5, StillEnds DEF Crash
<1>6. CASE At(c, "submit")
  <2>1. /\ Types /\ call[c].at = "submit" /\ End(c, "crashed")
        /\ Admits(c) \/ UNCHANGED turns
        /\ UNCHANGED <<plan, doc, told, due>>
    BY <1>6, UnansweredTurns DEF Crash, At, Inv
  <2>2. /\ call' \in [Calls -> CallRecord] /\ CallOK(c)'
        /\ \A b \in Calls \ {c} : call'[b] = call[b]
    BY <2>1, EndCall, RestIsOK
  <2>3. told' \subseteq Keys \X Tags
    BY <2>1 DEF Types
  <2> QED  BY <1>4, <2>1, <2>2, <2>3, TurnAdded
<1> QED  BY <1>5, <1>6

LEMMA InvInit == Init => Inv
<1> SUFFICES ASSUME Init PROVE Inv
  OBVIOUS
<1>1. Types
  <2>1. doc \in [Keys -> DocRecord] /\ call \in [Calls -> CallRecord]
    BY NoDocFacts, NewCallFacts DEF Init
  <2>2. 0 \in 0 .. MaxFaults /\ 0 \in 0 .. MaxCrashes
    BY ControlsAssumption
  <2> QED  BY <2>1, <2>2 DEF Init, Types
<1>2. ASSUME NEW k \in Keys PROVE DocOK(k)
  <2>1. doc[k].status = "absent" /\ ~doc[k].marked
    BY <1>2 DEF Init, NoDoc
  <2> QED  BY <2>1 DEF DocOK, Final, StatusesOf
<1>3. ASSUME NEW c \in Calls PROVE CallOK(c)
  <2>1. call[c].at = "idle"
    BY DEF Init, NewCall
  <2> QED  BY <2>1
           DEF CallOK, HoldsDoc, SettlesOK, SubmitsOK, Holding, Settling1
<1> QED  BY <1>1, <1>2, <1>3 DEF Inv, TurnsOK, Init

LEMMA InvNext == Inv /\ [Next]_vars => Inv'
<1> SUFFICES ASSUME Inv, [Next]_vars PROVE Inv'
  OBVIOUS
<1>1. CASE UNCHANGED vars
  BY <1>1, CallsStand DEF vars, Inv, Types
<1>2. CASE Tick
  BY <1>2, CallsStand DEF Tick
<1>3. ASSUME NEW c \in Calls, Step(c) PROVE Inv'
  <2>1. CASE Accept(c)
    BY <2>1, AskStep DEF Accept
  <2>2. CASE Fire(c)
    BY <2>2, AskStep DEF Fire
  <2>3. CASE Deliver(c)
    BY <2>3, AskStep DEF Deliver
  <2>4. CASE Terminal(c)
    BY <2>4, AskStep DEF Terminal
  <2> QED  BY <1>3, <2>1, <2>2, <2>3, <2>4, CreateStep, SendStep, AllocateStep,
              LoadStep, SwapStep, AnsweredStep, RefusedStep, ThrowsStep,
              ConflictsStep, MarkStep, SweepStep, SweepNextStep DEF Step
<1>4. ASSUME NEW c \in Calls, Crash(c) PROVE Inv'
  BY <1>4, CrashStep
<1> QED  BY <1>1, <1>2, <1>3, <1>4 DEF Next

LEMMA InvAlways == Spec => []Inv
BY InvInit, InvNext, PTL DEF Spec
-----------------------------------------------------------------------------
(* What the invariant shows                                                 *)

StuckType == stuck \subseteq Keys \X Tags

\* The state stays well formed: TypeOK, the records that decodeExternalWork,
\* decodeChildInvocation and decodePoisonRecovery accept.
THEOREM TypeCorrect == Spec => []TypeOK
<1>1. Inv /\ StuckType => TypeOK
  <2> SUFFICES ASSUME Inv, StuckType PROVE TypeOK
    OBVIOUS
  <2>1. Types /\ \A k \in Keys : doc[k].status \in StatusesOf(k)
    BY DEF Inv, DocOK
  <2>2. ASSUME NEW c \in Calls,
               call[c].at \in {"settle", "swap", "submit", "mark"}
        PROVE  doc[call[c].key].status # "absent"
    BY <2>2 DEF Inv, CallOK, HoldsDoc, Holding
  <2> QED  BY <2>1, <2>2 DEF TypeOK, Types, DocRecord, CallRecord, StuckType
<1>2. Init => StuckType
  <2> SUFFICES ASSUME Init PROVE StuckType
    OBVIOUS
  <2>1. PICK U \in Unopened : stuck = U \X {"callback", "timer", "child"}
    BY DEF Init
  <2>2. U \subseteq Keys
    BY DEF Unopened, Keys
  <2> QED  BY <2>1, <2>2 DEF StuckType, Tags
<1>3. Inv /\ StuckType /\ [Next]_vars => StuckType'
  <2> SUFFICES ASSUME Inv, StuckType, [Next]_vars PROVE StuckType'
    OBVIOUS
  <2>1. CASE Tick \/ UNCHANGED vars
    BY <2>1 DEF Tick, vars, StuckType
  <2>2. ASSUME NEW c \in Calls, Step(c) \/ Crash(c) PROVE StuckType'
    <3>1. \/ stuck' = stuck
          \/ call[c].at = "submit" /\ stuck' = stuck \cup {Message(c)}
      <4>1. CASE Throws(c) \/ Crash(c)
        BY <4>1 DEF Throws, Fails, Crash, Unanswered, At
      <4>2. CASE \/ Accept(c) \/ Fire(c) \/ Deliver(c) \/ Terminal(c)
                 \/ Create(c) \/ Send(c) \/ Allocate(c)
        BY <4>2 DEF Accept, Fire, Deliver, Terminal, Ask, Create, Send, Allocate
      <4>3. CASE LoadToSettle(c) \/ Swap(c) \/ Answered(c) \/ Refused(c)
        BY <4>3 DEF LoadToSettle, Swap, Answered, Refused
      <4>4. CASE Conflicts(c) \/ Mark(c) \/ Sweep(c) \/ SweepNext(c)
        BY <4>4 DEF Conflicts, Mark, Sweep, SweepNext
      <4> QED  BY <2>2, <4>1, <4>2, <4>3, <4>4 DEF Step
    <3>2. call[c].at = "submit" => Message(c) \in Keys \X Tags
      BY SubmitFacts DEF Message
    <3> QED  BY <3>1, <3>2 DEF StuckType
  <2> QED  BY <2>1, <2>2 DEF Next
<1> QED  BY <1>1, <1>2, <1>3, InvAlways, PTL DEF Spec

\* A document is marked only after the answer of the Kernel for its own turn
\* (markSubmitted).
THEOREM MarkFollowsAnswer == Spec => []MarkedWasTold
<1>1. Inv => MarkedWasTold
  BY DEF Inv, DocOK, MarkedWasTold
<1> QED  BY <1>1, InvAlways, PTL

\* The end of a child is told only to a parent whose turn was admitted
\* (settleTerminal).
THEOREM EndFollowsTurn == Spec => []TerminalAfterTurn
<1>1. Inv => TerminalAfterTurn
  <2> SUFFICES ASSUME Inv, NEW t \in turns, t.msg[2] \in {"done", "error"}
               PROVE  ChildTurn(t.msg[1])
    BY DEF TerminalAfterTurn, ChildTurn
  <2> DEFINE k == t.msg[1]
  <2>1. /\ k \in Keys /\ doc[k].status \in Final
        /\ doc[k].tag \in {"done", "error"}
    BY DEF Inv, TurnsOK, Types
  <2>2. DocOK(k)
    BY <2>1 DEF Inv
  <2> HIDE DEF k
  <2>3. doc[k].status \in {"done", "error"}
    BY <2>1, <2>2 DEF DocOK, Final, TagsOfStatus
  <2>4. ChildTurn(k)
    BY <2>2, <2>3 DEF DocOK
  <2> QED  BY <2>4 DEF k
<1> QED  BY <1>1, InvAlways, PTL

-----------------------------------------------------------------------------
(* A step is the step of one call                                           *)

LEMMA StepPuts ==
  ASSUME NEW c \in Calls, Step(c) \/ Crash(c)
  PROVE  \E r : Put(c, r)
<1>1. ASSUME NEW l, End(c, l) PROVE \E r : Put(c, r)
  BY <1>1 DEF End
<1>2. Leave(c) => \E r : Put(c, r)
  BY <1>1 DEF Leave
<1>3. ASSUME NEW r, Settle(c, r) \/ Submit(c, r) PROVE \E q : Put(c, q)
  BY <1>3 DEF Settle, Submit
<1>4. ASSUME NEW o, Concluded(c, o) PROVE \E r : Put(c, r)
  BY <1>4 DEF Concluded
<1>5. ASSUME NEW k, Readdress(c, k) PROVE \E r : Put(c, r)
  BY <1>1, <1>3, <1>5 DEF Readdress
<1>6. TooLate(c) => \E r : Put(c, r)
  BY <1>1, <1>2, <1>3 DEF TooLate
<1>7. ASSUME NEW v, NEW from, Ask(c, v, from) PROVE \E r : Put(c, r)
  BY <1>1, <1>3, <1>7 DEF Ask
<1>8. Create(c) \/ Throws(c) \/ Conflicts(c) \/ Crash(c) => \E r : Put(c, r)
  BY <1>1 DEF Create, Throws, Conflicts, Crash
<1>9. Accept(c) \/ Fire(c) \/ Deliver(c) \/ Terminal(c) => \E r : Put(c, r)
  BY <1>7 DEF Accept, Fire, Deliver, Terminal
<1>10. Send(c) => \E r : Put(c, r)
  BY <1>5 DEF Send
<1>11. Allocate(c) => \E r : Put(c, r)
  BY <1>1, <1>3, <1>5 DEF Allocate
<1>12. LoadToSettle(c) => \E r : Put(c, r)
  BY <1>6 DEF LoadToSettle
<1>13. Swap(c) => \E r : Put(c, r)
  BY <1>1, <1>3 DEF Swap
<1>14. Answered(c) \/ Refused(c) => \E r : Put(c, r)
  BY <1>4 DEF Answered, Refused
<1>15. Mark(c) \/ Sweep(c) => \E r : Put(c, r)
  BY <1>2 DEF Mark, Sweep
<1>16. SweepNext(c) => \E r : Put(c, r)
  BY <1>1, <1>3 DEF SweepNext
<1> QED  BY <1>8, <1>9, <1>10, <1>11, <1>12, <1>13, <1>14, <1>15, <1>16 DEF Step

LEMMA OthersWait ==
  ASSUME Types, NEW b \in Calls, Step(b) \/ Crash(b)
  PROVE  \A c \in Calls \ {b} : call'[c] = call[c]
BY StepPuts DEF Put, Types

LEMMA SwapsOrCrashes ==
  ASSUME NEW c \in Calls, call[c].at = "swap", Step(c) \/ Crash(c)
  PROVE  Swap(c) \/ Crash(c)
BY DEF Step, At, Create, Accept, Fire, Deliver, Terminal, Ask, Send, Allocate,
       LoadToSettle, Answered, Refused, Throws, Fails, Conflicts, Mark, Sweep,
       SweepNext

\* A principal settles only an intent whose role it holds: the role is that of
\* the turn that is stored, however late the swap comes
\* (acceptExternalCallback, fireDeadline, deliverPoisonRecovery).
THEOREM RoleOfSettlement == Spec => SettledWithRole
<1>1. Inv /\ [Next]_vars =>
        [\A c \in Calls :
           Verb(c) \in {"callback", "deadline", "deliver"} /\ At(c, "swap")
             /\ doc'[call[c].key].status # Doc(c).status /\ call'[c] # call[c]
           => MayUse(c, doc'[call[c].key].tag)]_vars
  <2> SUFFICES ASSUME Inv, [Next]_vars, NEW c \in Calls,
                      Verb(c) \in {"callback", "deadline", "deliver"},
                      At(c, "swap"), call'[c] # call[c],
                      doc'[call[c].key].status # Doc(c).status
               PROVE  MayUse(c, doc'[call[c].key].tag)
    OBVIOUS
  <2> DEFINE k == call[c].key
             e == Settled(c, doc[k])
  <2>1. Types /\ call[c].at = "swap"
    BY DEF Inv, At
  <2>2. PICK b \in Calls : Step(b) \/ Crash(b)
    BY DEF Next, Tick, vars
  <2>3. Swap(c) \/ Crash(c)
    BY <2>1, <2>2, OthersWait, SwapsOrCrashes
  <2>4. Unchanged(c) /\ doc' = [doc EXCEPT ![k] = e]
    BY <2>3 DEF Swap, Crash, Doc
  <2>5. k \in Keys /\ e.tag = call[c].tag
    BY <2>1, <2>4, SettledFacts
  <2>6. doc'[k].tag = call[c].tag
    BY <2>1, <2>4, <2>5 DEF Types
  <2>7. SettlesOK(c, call[c])
    BY DEF Inv, CallOK
  <2>8. doc[k].status \in {"waiting", "authorized"}
    BY <2>1, <2>4, <2>7 DEF SettlesOK, Settling1, Unchanged, Doc, From
  <2>9. MayUse(c, call[c].tag)
    BY <2>1, <2>7, <2>8 DEF SettlesOK, Settling1
  <2> QED  BY <2>6, <2>9
<1> QED  BY <1>1, InvAlways, PTL DEF Spec, SettledWithRole
-----------------------------------------------------------------------------
(* Invocations                                                              *)

Fresh(c) == Verb(c) = "send" /\ plan[c].key = NoKey
Held == {"submit", "settle", "swap"}

\* A send comes to hold a new invocation by creating its document.
LEMMA FreshStep ==
  ASSUME Inv, NEW c \in Calls, Fresh(c), Step(c) \/ Crash(c),
         call'[c].at \in Held
  PROVE  \/ call[c].at \in Held /\ call'[c].key = call[c].key
         \/ call'[c].key \in Keys /\ doc[call'[c].key].status = "absent"
<1>1. /\ Types /\ call[c] \in CallRecord
      /\ Verb(c) = "send" /\ plan[c].key = NoKey
  BY DEF Inv, Types, Fresh
<1>2. ASSUME NEW l \in {"done", "already", "crashed"}, End(c, l) PROVE FALSE
  BY <1>1, <1>2, EndCall DEF Held, AtRest
<1>3. CASE Create(c) \/ Throws(c) \/ Conflicts(c) \/ Crash(c)
  BY <1>2, <1>3 DEF Create, Throws, Conflicts, Crash
<1>4. CASE Mark(c)
  BY <1>1, <1>2, <1>4 DEF Mark, Leave
<1>5. CASE Accept(c) \/ Fire(c) \/ Deliver(c) \/ Terminal(c)
  BY <1>1, <1>5 DEF Accept, Fire, Deliver, Terminal, Ask
<1>6. CASE Sweep(c)
  BY <1>1, <1>6 DEF Sweep
<1>7. CASE SweepNext(c)
  BY <1>1, <1>7 DEF SweepNext, At, Inv, CallOK, SubmitsOK
<1>8. CASE Send(c)
  <2>1. PICK k : Put(c, [NewCall EXCEPT !.at = "allocate", !.key = k])
    BY <1>1, <1>8 DEF Send
  <2> DEFINE x == NewCall
             r == [x EXCEPT !.at = "allocate", !.key = k]
  <2>2. call'[c] = r
    BY <1>1, <2>1 DEF Put, Types
  <2>3. x \in CallRecord
    BY NewCallFacts
  <2> HIDE DEF x
  <2>4. r.at = "allocate"
    BY <2>3 DEF CallRecord
  <2> QED  BY <2>2, <2>4 DEF Held
<1>9. CASE Allocate(c)
  <2> DEFINE k == call[c].key
             i == plan[c].arg
             x == NewCall
             y == call[c]
  <2>1. /\ y.at = "allocate" /\ k \in Keys /\ x \in CallRecord
        /\ i \in Inputs \cup {NoInput}
    BY <1>1, <1>9, NewCallFacts, PlanFacts, KeyKinds
       DEF Allocate, At, Inv, CallOK, HoldsDoc
  <2>2. CASE Free(k) /\ Submit(c, [x EXCEPT !.key = k, !.tag = "child",
                                           !.input = i])
    <3> DEFINE r == [x EXCEPT !.key = k, !.tag = "child", !.input = i]
    <3>1. Submit(c, r)
      BY <2>2
    <3> HIDE DEF k, i, x
    <3>2. r \in CallRecord /\ r.key = k
      BY <2>1 DEF CallRecord, Tags
    <3> HIDE DEF r
    <3>3. call'[c].key = k
      BY <1>1, <3>1, <3>2, SubmitCall
    <3> QED  BY <2>1, <2>2, <3>3 DEF Free
  <2>3. CASE \E j : Put(c, [y EXCEPT !.key = j])
    <3>1. PICK j : Put(c, [y EXCEPT !.key = j])
      BY <2>3
    <3>2. call'[c] = [y EXCEPT !.key = j]
      BY <1>1, <3>1 DEF Put, Types
    <3> HIDE DEF y
    <3>3. call'[c].at = y.at
      BY <1>1, <3>2 DEF CallRecord, y
    <3> QED  BY <2>1, <3>3 DEF Held
  <2> QED  BY <1>1, <1>2, <1>9, <2>2, <2>3 DEF Allocate
<1>10. CASE LoadToSettle(c)
  <2> DEFINE y == call[c]
             n == Doc(c).rev
  <2>1. y.at = "settle"
    BY <1>10 DEF LoadToSettle, At
  <2>2. Put(c, [y EXCEPT !.at = "swap", !.rev = n])
    BY <1>1, <1>2, <1>10 DEF LoadToSettle, TooLate, Leave
  <2>3. call'[c] = [y EXCEPT !.at = "swap", !.rev = n]
    BY <1>1, <2>2 DEF Put, Types
  <2>4. y \in CallRecord
    BY <1>1
  <2> HIDE DEF n, y
  <2>5. call'[c].key = y.key
    BY <2>3, <2>4 DEF CallRecord
  <2> QED  BY <2>1, <2>5 DEF Held, y
<1>11. CASE Swap(c)
  <2> DEFINE y == call[c]
             n == y.round + 1
  <2>1. y.at = "swap" /\ y \in CallRecord
    BY <1>1, <1>11 DEF Swap, At
  <2>2. Put(c, [y EXCEPT !.at = "settle", !.round = n])
    BY <1>1, <1>2, <1>11 DEF Swap
  <2>3. call'[c] = [y EXCEPT !.at = "settle", !.round = n]
    BY <1>1, <2>2 DEF Put, Types
  <2> HIDE DEF n, y
  <2>5. call'[c].key = y.key
    BY <2>1, <2>3 DEF CallRecord
  <2> QED  BY <2>1, <2>5 DEF Held, y
<1>12. CASE Answered(c) \/ Refused(c)
  <2>1. call[c].at = "submit"
    BY <1>12 DEF Answered, Refused, At
  <2>2. Concluded(c, "accepted") \/ Concluded(c, "rejected")
    BY <1>12 DEF Answered, Refused
  <2> QED  BY <1>1, <2>1, <2>2, ConcludeCall DEF Held
<1> QED  BY <1>3, <1>4, <1>5, <1>6, <1>7, <1>8, <1>9, <1>10, <1>11, <1>12
         DEF Step

\* Two sends that ask for a new invocation never hold the same one (open:
\* the put that creates it must find it absent).
THEOREM InvocationsAreOwn == Spec => []InvocationIsOnes
<1>1. Init => InvocationIsOnes
  BY DEF Init, NewCall, InvocationIsOnes
<1>2. Inv /\ InvocationIsOnes /\ [Next]_vars => InvocationIsOnes'
  <2> SUFFICES ASSUME Inv, InvocationIsOnes, [Next]_vars,
                      NEW c1 \in Calls, NEW c2 \in Calls, c1 # c2,
                      Fresh(c1)', Fresh(c2)',
                      call'[c1].at \in Held, call'[c2].at \in Held,
                      call'[c1].key = call'[c2].key
               PROVE  FALSE
    BY DEF InvocationIsOnes, Fresh, Held
  <2>1. Types
    BY DEF Inv
  <2>2. ASSUME NEW b \in Calls, Step(b) \/ Crash(b) PROVE plan' = plan
    BY <2>2 DEF Step, Crash, Create, Accept, Fire, Deliver, Terminal, Ask, Send,
                Allocate, LoadToSettle, Swap, Answered, Refused, Throws, Fails,
                Conflicts, Mark, Sweep, SweepNext
  <2>3. plan' = plan
    BY <2>2 DEF Next, Tick, vars
  <2>4. Fresh(c1) /\ Fresh(c2)
    BY <2>3 DEF Fresh, Verb
  <2>5. ASSUME NEW b \in Calls, Fresh(b), call[b].at \in Held
        PROVE  doc[call[b].key].status # "absent"
    BY <2>5 DEF Inv, CallOK, HoldsDoc, Holding, Held
  <2>6. ~(/\ call[c1].at \in Held /\ call[c2].at \in Held
          /\ call[c1].key = call[c2].key)
    BY <2>4 DEF InvocationIsOnes, Fresh, Held
  <2>7. ASSUME NEW b \in Calls, NEW d \in Calls, b # d, Fresh(b), Fresh(d),
               call'[b].at \in Held, call'[d].at \in Held,
               call'[b].key = call'[d].key, Step(b) \/ Crash(b)
        PROVE  call[b].at \in Held /\ call[d].at \in Held
               /\ call[b].key = call[d].key
    <3>1. call'[d] = call[d]
      BY <2>1, <2>7, OthersWait
    <3>2. doc[call[d].key].status # "absent"
      BY <2>5, <2>7, <3>1
    <3>3. call[b].at \in Held /\ call'[b].key = call[b].key
      BY <2>7, <3>1, <3>2, FreshStep
    <3> QED  BY <2>7, <3>1, <3>3
  <2>8. ASSUME NEW b \in Calls, Step(b) \/ Crash(b) PROVE FALSE
    <3>1. CASE b = c1
      BY <2>4, <2>6, <2>7, <2>8, <3>1
    <3>2. CASE b = c2
      BY <2>4, <2>6, <2>7, <2>8, <3>2
    <3>3. CASE b # c1 /\ b # c2
      BY <2>1, <2>6, <2>8, <3>3, OthersWait
    <3> QED  BY <3>1, <3>2, <3>3
  <2>9. call' = call
    BY <2>8 DEF Next, Tick, vars
  <2> QED  BY <2>6, <2>9
<1> QED  BY <1>1, <1>2, InvAlways, PTL DEF Spec
-----------------------------------------------------------------------------
(* One outcome                                                              *)

Chosen == [k \in Keys |-> OutcomeOf(k)]
Admitted == {<<t.msg[1], <<t.msg[2], t.input>>>> : t \in OutcomeTurns}
Stutter == Chosen' = Chosen /\ Admitted' = Admitted

\* A step that leaves the turns and the outcomes alone is a stutter.
LEMMA Stutters ==
  ASSUME turns' = turns, \A k \in Keys : OutcomeOf(k)' = OutcomeOf(k)
  PROVE  Stutter
BY DEF Stutter, Chosen, Admitted, OutcomeTurns

LEMMA SameDocs ==
  ASSUME turns' = turns, doc' = doc
  PROVE  Stutter
<1>1. \A k \in Keys : OutcomeOf(k)' = OutcomeOf(k)
  BY DEF OutcomeOf
<1> QED  BY <1>1, Stutters

\* A document that is created, or marked, has the outcome it had.
LEMMA OutcomeStands ==
  ASSUME Types, turns' = turns, NEW k, NEW e, doc' = [doc EXCEPT ![k] = e],
         \/ doc[k].status \notin Final /\ e.status \notin Final
         \/ /\ doc[k].status \in Final /\ e.status = doc[k].status
            /\ e.tag = doc[k].tag /\ e.input = doc[k].input
  PROVE  Stutter
<1>1. \A j \in Keys : doc'[j] = IF j = k THEN e ELSE doc[j]
  BY DEF Types
<1>2. ASSUME NEW j \in Keys PROVE OutcomeOf(j)' = OutcomeOf(j)
  <2>1. CASE j = k
    BY <1>1, <2>1 DEF OutcomeOf
  <2>2. CASE j # k
    BY <1>1, <2>2 DEF OutcomeOf
  <2> QED  BY <2>1, <2>2
<1> QED  BY <1>2, Stutters

\* A settlement chooses the outcome of a key that had none, or it accepts or
\* rejects an invocation.
LEMMA SwapChooses ==
  ASSUME Inv, NEW c \in Calls, Swap(c)
  PROVE  Promise!Next \/ Stutter
<1>1. call[c].at = "swap" /\ turns' = turns /\ Types
  BY DEF Swap, At, Inv
<1> PICK k : k = call[c].key
  OBVIOUS
<1> PICK e : e = Settled(c, doc[k])
  OBVIOUS
<1>2. CASE UNCHANGED doc
  BY <1>1, <1>2, SameDocs
<1>3. CASE Unchanged(c) /\ doc' = [doc EXCEPT ![k] = e]
  <2>1. k \in Keys /\ doc[k].status \notin Final /\ e \in DocRecord
    BY <1>1, <1>3, SettledFacts
  <2>2. CASE e.status \notin Final
    BY <1>1, <1>3, <2>1, <2>2, OutcomeStands
  <2>3. CASE e.status \in Final
    <3> DEFINE o == <<e.tag, e.input>>
    <3>1. doc'[k] = e /\ \A j \in Keys \ {k} : doc'[j] = doc[j]
      BY <1>1, <1>3, <2>1 DEF Types
    <3>2. o \in Tags \X (Inputs \cup {NoInput})
      BY <2>1 DEF DocRecord
    <3>3. OutcomeOf(k) = NoOutcome /\ OutcomeOf(k)' = o
      BY <2>1, <2>3, <3>1 DEF OutcomeOf
    <3>4. \A j \in Keys \ {k} : OutcomeOf(j)' = OutcomeOf(j)
      BY <3>1 DEF OutcomeOf
    <3> HIDE DEF o
    <3>5. Chosen[k] = NoOutcome /\ Chosen' = [Chosen EXCEPT ![k] = o]
      BY <2>1, <3>3, <3>4 DEF Chosen
    <3>6. Chosen'[k] = o
      BY <2>1, <3>3 DEF Chosen
    <3>7. Admitted' = Admitted
      BY <1>1 DEF Admitted, OutcomeTurns
    <3>8. Promise!Choose(k)
      BY <2>1, <3>2, <3>5, <3>6, <3>7 DEF Promise!Choose, Chosen, Admitted
    <3> QED  BY <2>1, <3>8 DEF Promise!Next
  <2> QED  BY <2>2, <2>3
<1> QED  BY <1>2, <1>3 DEF Swap

\* The Kernel admits the turn of the outcome of its key, or that of a child.
LEMMA SubmitAdmits ==
  ASSUME Inv, NEW c \in Calls, call[c].at = "submit", doc' = doc,
         Admits(c) \/ UNCHANGED turns
  PROVE  Promise!Next \/ Stutter
<1> PICK k : k = call[c].key
  OBVIOUS
<1> PICK g : g = call[c].tag
  OBVIOUS
<1> PICK i : i = call[c].input
  OBVIOUS
<1>1. CASE UNCHANGED turns
  BY <1>1, SameDocs
<1>2. CASE Admits(c)
  <2> DEFINE u == [msg |-> <<k, g>>, input |-> i]
             o == <<g, i>>
  <2>1. turns' = turns \cup {u}
    BY <1>2 DEF Admits, Turn, Message
  <2>2. \A j \in Keys : OutcomeOf(j)' = OutcomeOf(j)
    BY DEF OutcomeOf
  <2>3. Chosen' = Chosen
    BY <2>2 DEF Chosen
  <2>4. CASE g = "child"
    <3>1. OutcomeTurns' = OutcomeTurns
      <4>1. u.msg[2] = "child"
        BY <2>4
      <4> HIDE DEF u
      <4> QED  BY <2>1, <4>1 DEF OutcomeTurns
    <3> QED  BY <2>3, <3>1 DEF Stutter, Admitted
  <2>5. CASE g # "child"
    <3>1. /\ k \in Keys /\ o \in Tags \X (Inputs \cup {NoInput})
          /\ doc[k].status \in Final /\ doc[k].tag = g /\ doc[k].input = i
      BY <2>5, SubmitFacts
    <3>2. OutcomeOf(k) = o /\ o # NoOutcome
      BY <3>1, ControlsAssumption DEF OutcomeOf
    <3>3. u.msg[1] = k /\ u.msg[2] = g /\ u.input = i
      OBVIOUS
    <3> HIDE DEF u
    <3>4. OutcomeTurns' = OutcomeTurns \cup {u}
      BY <2>1, <2>5, <3>3 DEF OutcomeTurns
    <3>5. Admitted' = Admitted \cup {<<k, o>>}
      BY <3>3, <3>4 DEF Admitted
    <3> HIDE DEF o
    <3>6. Chosen[k] = o
      BY <3>1, <3>2 DEF Chosen
    <3>7. Promise!Admit(k)
      BY <2>3, <3>2, <3>5, <3>6 DEF Promise!Admit, Chosen, Admitted
    <3> QED  BY <3>1, <3>7 DEF Promise!Next
  <2> QED  BY <2>4, <2>5
<1> QED  BY <1>1, <1>2

\* Documents that nobody settles and nobody marks have no outcome to lose.
LEMMA CreateStutters ==
  ASSUME Inv, NEW c \in Calls, Create(c) \/ Allocate(c)
  PROVE  Stutter
<1>1. Types /\ turns' = turns
  BY DEF Inv, Create, Allocate
<1>2. CASE UNCHANGED doc
  BY <1>1, <1>2, SameDocs
<1>3. ASSUME NEW k, NEW e, doc' = [doc EXCEPT ![k] = e],
             doc[k].status = "absent", e.status \notin Final
      PROVE  Stutter
  BY <1>1, <1>3, OutcomeStands DEF Final
<1>4. CASE Create(c)
  <2> DEFINE i == plan[c].arg
             s == IF Verb(c) = "register" THEN "waiting" ELSE "authorized"
             x == NoDoc
             e == [x EXCEPT !.input = i, !.status = s]
             k == plan[c].key
  <2>1. \/ UNCHANGED doc
        \/ doc' = [doc EXCEPT ![k] = e] /\ doc[k].status = "absent"
    BY <1>4 DEF Create
  <2>2. s \notin Final /\ x \in DocRecord
    BY NoDocFacts DEF Final
  <2> HIDE DEF i, s, x, k
  <2>3. e.status = s
    BY <2>2 DEF DocRecord
  <2> HIDE DEF e
  <2> QED  BY <1>2, <1>3, <2>1, <2>2, <2>3
<1>5. CASE Allocate(c)
  <2> DEFINE x == NoDoc
             e == [x EXCEPT !.status = "pending"]
             k == call[c].key
  <2>1. \/ UNCHANGED doc
        \/ doc' = [doc EXCEPT ![k] = e] /\ doc[k].status = "absent"
    BY <1>5 DEF Allocate, Free
  <2>2. "pending" \notin Final /\ x \in DocRecord
    BY NoDocFacts DEF Final
  <2> HIDE DEF x, k
  <2>3. e.status = "pending"
    BY <2>2 DEF DocRecord
  <2> HIDE DEF e
  <2> QED  BY <1>2, <1>3, <2>1, <2>2, <2>3
<1> QED  BY <1>4, <1>5

LEMMA MarkStutters ==
  ASSUME Inv, NEW c \in Calls, Mark(c)
  PROVE  Stutter
<1> DEFINE k == call[c].key
           d == doc[k]
           n == d.rev + 1
           e == [d EXCEPT !.marked = TRUE, !.rev = n]
<1>1. /\ Types /\ turns' = turns /\ Verb(c) \in Verbs
      /\ HoldsDoc(call[c], Verb(c)) /\ SubmitsOK(c, call[c])
      /\ call[c].at = "mark"
  BY PlanFacts DEF Inv, CallOK, Mark, At
<1>2. k \in Keys /\ d.status \in Final
  BY <1>1, KeyKinds DEF HoldsDoc, Holding, SubmitsOK
<1>3. d \in DocRecord
  BY <1>1, <1>2 DEF Types
<1>4. UNCHANGED doc \/ doc' = [doc EXCEPT ![k] = e]
  BY DEF Mark, Doc
<1>5. e.status = d.status /\ e.tag = d.tag /\ e.input = d.input
  <2> HIDE DEF d, n
  <2> QED  BY <1>3 DEF DocRecord
<1> HIDE DEF e, k
<1> QED  BY <1>1, <1>2, <1>4, <1>5, SameDocs, OutcomeStands

\* Every correlation, invocation and recovery gets one outcome, and the Kernel
\* admits no other turn of it (settleCorrelation, settleTerminal,
\* consumeIssuedRecovery and submitControlTurn implement OneOutcome).
THEOREM OneOutcomeEach == Spec => Promised
<1>1. Init => Promise!Init
  BY DEF Init, Promise!Init, NoDoc, OutcomeOf, OutcomeTurns, Final
<1>2. Inv /\ [Next]_vars => [Promise!Next]_(Promise!vars)
  <2> SUFFICES ASSUME Inv, [Next]_vars PROVE Promise!Next \/ Stutter
    BY DEF Promise!vars, Stutter, Chosen, Admitted
  <2>1. CASE Tick \/ UNCHANGED vars
    BY <2>1, SameDocs DEF Tick, vars
  <2>2. ASSUME NEW c \in Calls, Step(c) \/ Crash(c)
        PROVE  Promise!Next \/ Stutter
    <3>1. CASE Accept(c) \/ Fire(c) \/ Deliver(c) \/ Terminal(c)
      BY <3>1, SameDocs DEF Accept, Fire, Deliver, Terminal, Ask
    <3>2. CASE \/ Send(c) \/ LoadToSettle(c) \/ Refused(c) \/ Conflicts(c)
               \/ Sweep(c) \/ SweepNext(c)
      BY <3>2, SameDocs DEF Send, LoadToSettle, Refused, Conflicts, Sweep,
                            SweepNext
    <3>3. CASE Create(c) \/ Allocate(c)
      BY <3>3, CreateStutters
    <3>4. CASE Mark(c)
      BY <3>4, MarkStutters
    <3>5. CASE Swap(c)
      BY <3>5, SwapChooses
    <3>6. CASE Answered(c) \/ Throws(c)
      <4>1. /\ call[c].at = "submit" /\ doc' = doc
            /\ Admits(c) \/ UNCHANGED turns
        BY <3>6, UnansweredTurns DEF Answered, Throws, Fails, Denies, At
      <4> QED  BY <4>1, SubmitAdmits
    <3>7. CASE Crash(c)
      <4>1. CASE call[c].at = "submit"
        <5>1. doc' = doc /\ (Admits(c) \/ UNCHANGED turns)
          BY <3>7, <4>1, UnansweredTurns DEF Crash, At
        <5> QED  BY <4>1, <5>1, SubmitAdmits
      <4>2. CASE call[c].at # "submit"
        BY <3>7, <4>2, SameDocs DEF Crash, At
      <4> QED  BY <4>1, <4>2
    <3> QED  BY <2>2, <3>1, <3>2, <3>3, <3>4, <3>5, <3>6, <3>7 DEF Step
  <2> QED  BY <2>1, <2>2 DEF Next
<1> QED  BY <1>1, <1>2, InvAlways, PTL DEF Spec, Promised, Promise!Spec
=============================================================================
