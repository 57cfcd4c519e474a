--------------------------- MODULE MCDurableControls ---------------------------
(***************************************************************************)
(* Values for the constants of DurableControls: each plan is a set of      *)
(* calls that race on one kind of control.                                 *)
(***************************************************************************)
EXTENDS DurableControls, TLC

CONSTANTS x, y

w1 == <<"work", 1>>
w2 == <<"work", 2>>
q1 == <<"poison", 1>>
i1 == Invocation(1)

Call(verb, key, arg) ==
  [verb |-> verb, key |-> key, arg |-> arg, tag |-> "done", roles |-> Tags]
With(p, tag) == [p EXCEPT !.tag = tag]
Only(p, roles) == [p EXCEPT !.roles = roles]

Register(k) == Call("register", k, NoInput)
SweepAll == Call("sweep", NoKey, NoInput)

\* Two callbacks and the deadline of a correlation race with the sweep; the
\* second callback may not use the timeout intent.
WorkPlan ==
  (1 :> Register(w1)) @@ (2 :> Call("callback", w1, x))
  @@ (3 :> Only(Call("callback", w1, y), {"callback"}))
  @@ (4 :> Call("deadline", w1, NoInput)) @@ (5 :> SweepAll)

\* A principal who may do nothing: the plan is smaller by a call.
Nobody == Only(Call("send", NoKey, NoInput), {})

\* Two correlations and the sweep; one is answered.
SweepPlan ==
  (1 :> Register(w1)) @@ (2 :> Register(w2)) @@ (3 :> Call("callback", w2, x))
  @@ (4 :> SweepAll) @@ (5 :> Nobody)

\* Two sweeps, one without the role of the timeout intent.
TwoSweepsPlan ==
  (1 :> Register(w1)) @@ (2 :> Call("deadline", w1, NoInput))
  @@ (3 :> Only(SweepAll, {"callback"})) @@ (4 :> SweepAll) @@ (5 :> Nobody)

PoisonPlan ==
  (1 :> Call("authorize", q1, x)) @@ (2 :> Call("authorize", q1, y))
  @@ (3 :> Call("deliver", q1, NoInput)) @@ (4 :> Call("deliver", q1, NoInput))
  @@ (5 :> Only(Call("deliver", q1, NoInput), {"callback"}))

\* Two new invocations, another message for the first, and its end.
ChildPlan ==
  (1 :> Call("send", NoKey, x)) @@ (2 :> Call("send", NoKey, x))
  @@ (3 :> Call("send", i1, y)) @@ (4 :> Call("terminal", i1, x))
  @@ (5 :> Nobody)

\* A send is retried, and its end is reported three times: as done, as an
\* error, and by one who may not.
TerminalPlan ==
  (1 :> Call("send", i1, x)) @@ (2 :> Call("send", i1, x))
  @@ (3 :> Call("terminal", i1, x))
  @@ (4 :> With(Call("terminal", i1, NoInput), "error"))
  @@ (5 :> Only(Call("terminal", i1, y), {"child"}))

MCPlans ==
  {WorkPlan, SweepPlan, TwoSweepsPlan, PoisonPlan, ChildPlan, TerminalPlan}
=============================================================================
