--------------------------- MODULE HandlersAtomic ---------------------------
(***************************************************************************)
(* The comparison of CallThreads with Call: what a thread still has to do  *)
(* is carried out at once, and seen like that a handler which the other    *)
(* thread does not interrupt is one step of Call.                          *)
(***************************************************************************)
EXTENDS CallThreads

\* A state of what the threads share, with the operations still to perform.
Point(now, ops) == [now |-> now, ops |-> ops]

\* One operation further.
Ahead(at) ==
  LET op == Head(at.ops)
      rest == Tail(at.ops)
  IN  IF op.do = "run" THEN Point(at.now, Body(at.now.state, op.leg, op.name) \o rest)
                       ELSE Point(Effect(at.now, op), rest)

\* A point with nothing left to do stays where it is.  (Sets of one point make TLC
\* evaluate each point once.)
On(points) == {IF at.ops = <<>> THEN at ELSE Ahead(at) : at \in points}

\* The longest handler, onReject() of a bridged client leg, takes nine operations.
Thrice(points) == On(On(On(points)))
AtTheEnd(now, ops) == Thrice(Thrice(Thrice({Point(now, ops)})))

\* What is shared once a thread that nobody interrupts has come to its end.
Completed == (CHOOSE at \in AtTheEnd(Now, todo["server"] \o todo["client"]) : TRUE).now

thenServer == Completed.state["server"]
thenClient == Completed.state["client"]
thenServerReq == Completed.req["server"]
thenClientReq == Completed.req["client"]
thenServerKnown == Completed.known["server"]
thenClientKnown == Completed.known["client"]
thenToCaller == Completed.wire["server"]
thenToCallee == Completed.wire["client"]

Serial == INSTANCE Call WITH
  server <- thenServer, serverReq <- thenServerReq, serverKnown <- thenServerKnown,
  client <- thenClient, clientReq <- thenClientReq, clientKnown <- thenClientKnown,
  toCaller <- thenToCaller, toCallee <- thenToCallee

\* Call is the same program: a handler that the other thread does not interrupt
\* has the effect of one step of Call, taken when its message is.
Alone == \E leg \in Legs : todo[leg] = <<>>
UninterruptedHandlersAreAtomic ==
  [][Alone /\ Alone' => Serial!Next \/ UNCHANGED Serial!vars]_tvars

=============================================================================
