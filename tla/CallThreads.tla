----------------------------- MODULE CallThreads ----------------------------
(***************************************************************************)
(* The call of Call, without the assumption that a handler runs to         *)
(* completion: the container serves the sessions of the two parties on a   *)
(* thread each, and no lock guards the handlers, which call one another    *)
(* through RouteService.  A thread takes one message, then performs the    *)
(* reads, assignments and sends of the handler's methods one by one.       *)
(*                                                                         *)
(* What a thread still has to do is a sequence of operations; a method     *)
(* call is an operation too, and is replaced by its body when the thread   *)
(* comes to it and reads the state that the body depends on.  Assignments  *)
(* are seen by the other thread in program order.                          *)
(***************************************************************************)
EXTENDS Call

VARIABLE todo     \* what the thread of each leg's session still has to do

tvars == <<vars, todo>>

Methods == {"onACK", "onBye(request)", "onCancel(request)", "onRinging", "onReject",
            "onOk", "onOk(waiting)", "onBye", "onCancel"}

Become(leg, state) == [do |-> "become", leg |-> leg, state |-> state]
Cite(leg, req) == [do |-> "cite", leg |-> leg, req |-> req]
Reply(leg, code) == [do |-> "reply", leg |-> leg, code |-> code]
Ask(leg, method) == [do |-> "ask", leg |-> leg, method |-> method]
Forget(leg) == [do |-> "forget", leg |-> leg]
Run(leg, name) == [do |-> "run", leg |-> leg, name |-> name]

Operation ==
  [do : {"become"}, leg : Legs, state : MessageState] \cup
  [do : {"cite"}, leg : Legs, req : Method] \cup
  [do : {"reply"}, leg : Legs, code : {180, 200, 400, 486}] \cup
  [do : {"ask"}, leg : Legs, method : Method] \cup
  [do : {"forget"}, leg : Legs] \cup
  [do : {"run"}, leg : Legs, name : Methods]

ThreadsInit == Init /\ todo = [leg \in Legs |-> <<>>]

-----------------------------------------------------------------------------
(* What the threads share, and what an operation does to it. *)

Now == [state |-> [server |-> server, client |-> client],
        req   |-> [server |-> serverReq, client |-> clientReq],
        known |-> [server |-> serverKnown, client |-> clientKnown],
        wire  |-> [server |-> toCaller, client |-> toCallee]]

\* A response cites the request that the handler holds when it is sent.
Effect(now, op) ==
  CASE op.do = "become" -> [now EXCEPT !.state[op.leg] = op.state]
    [] op.do = "cite"   -> [now EXCEPT !.req[op.leg] = op.req]
    [] op.do = "forget" -> [now EXCEPT !.known[op.leg] = FALSE]
    [] op.do = "ask"    -> [now EXCEPT !.wire[op.leg] = Sent(op.leg, @, <<Req(op.method)>>)]
    [] op.do = "reply"  ->
         [now EXCEPT !.wire[op.leg] = Sent(op.leg, @, <<Resp(op.code, now.req[op.leg])>>)]

-----------------------------------------------------------------------------
(* The methods, as what they do next given the states they read first. *)

Other(leg) == IF leg = "server" THEN "client" ELSE "server"

\* RouteService.observeBridgingForX
OnOther(leg, name) == IF bridged THEN <<Run(Other(leg), name)>> ELSE <<>>

FinishImmediately(leg) == <<Forget(leg), Become(leg, "FINISH")>>

OnAck(state) ==
  CASE state["server"] = "OK" -> <<Become("server", "CALLING")>>
    [] state["server"] \in {"BUSY", "BYE", "CANCELING"} -> FinishImmediately("server")
    [] OTHER -> <<>>

\* Mutant: the hang-up is not passed on to the other party.
OnByeRequestKept(state, leg) ==
  IF state[leg] = "CALLING"
  THEN <<Cite(leg, "BYE"), Become(leg, "BYE"), Reply(leg, 200)>>
  ELSE <<Reply(leg, 400)>>

OnByeRequest(state, leg) ==
  IF state[leg] = "CALLING"
  THEN <<Cite(leg, "BYE"), Become(leg, "BYE"), Reply(leg, 200)>> \o OnOther(leg, "onBye")
  ELSE <<Reply(leg, 400)>>

OnBye(state, leg) ==
  IF state[leg] = "CALLING"
  THEN <<Become(leg, "BYE"), Cite(leg, "OWN"), Ask(leg, "BYE")>>
  ELSE <<>>

\* Mutant: setRequest() comes last, so the 200 answers the INVITE.
OnCancelRequestCitedLate ==
  <<Become("server", "CANCELING"), Reply("server", 200), Cite("server", "CANCEL")>>
    \o OnOther("server", "onCancel")

OnCancelRequest ==
  <<Cite("server", "CANCEL"), Become("server", "CANCELING"), Reply("server", 200)>>
    \o OnOther("server", "onCancel")

\* Mutant: an unanswered callee is sent a BYE.
OnCancelWithBye == <<Become("client", "CANCELING"), Ask("client", "BYE")>>

OnCancel == <<Become("client", "CANCELING"), Ask("client", "CANCEL")>>

OnRinging(state, leg) ==
  CASE state[leg] # "TRYING" -> <<>>
    [] state[leg] = "TRYING" /\ leg = "server" ->
         <<Become("server", "RINGING"), Reply("server", 180)>>
    [] state[leg] = "TRYING" /\ leg = "client" ->
         OnOther("client", "onRinging") \o <<Become("client", "RINGING")>>

\* Mutant: the callee's rejection is not passed on to the caller.
OnRejectUnheard(leg) ==
  IF leg = "server"
  THEN <<Become("server", "BUSY"), Reply("server", 486)>> \o FinishImmediately("server")
  ELSE <<Become("client", "BUSY")>> \o FinishImmediately("client")

OnReject(leg) ==
  IF leg = "server"
  THEN <<Become("server", "BUSY"), Reply("server", 486)>> \o FinishImmediately("server")
  ELSE <<Become("client", "BUSY")>> \o OnOther("client", "onReject")
         \o FinishImmediately("client")

\* onOk() looks for BYE and CANCELING first, and reads the state again later.
OnOk(state, leg) ==
  CASE state[leg] = "BYE" \/ state[leg] = "CANCELING" ->
         (IF leg = "client" /\ state[leg] = "BYE" THEN OnOther(leg, "onBye") ELSE <<>>)
           \o <<Ask(leg, "ACK")>> \o FinishImmediately(leg)
    [] OTHER -> <<Run(leg, "onOk(waiting)")>>

\* Mutant: the state is not looked at again.
OnOkWaitingUnchecked(state, leg) ==
  IF leg = "server"
  THEN <<Become("server", "OK"), Reply("server", 200)>>
  ELSE OnOther("client", "onOk") \o <<Become("client", "CALLING"), Ask("client", "ACK")>>

OnOkWaiting(state, leg) ==
  CASE state[leg] \in Waiting /\ leg = "server" ->
         <<Become("server", "OK"), Reply("server", 200)>>
    [] state[leg] \in Waiting /\ leg = "client" ->
         OnOther("client", "onOk") \o <<Become("client", "CALLING"), Ask("client", "ACK")>>
    [] state[leg] \notin Waiting /\ leg = "server" -> <<Become("server", "FAIL")>>
    [] state[leg] \notin Waiting /\ leg = "client" ->
         <<Become("client", "FAIL")>> \o FinishImmediately("client")

Body(state, leg, name) ==
  CASE name = "onACK" -> OnAck(state)
    [] name = "onBye(request)" -> OnByeRequest(state, leg)
    [] name = "onBye" -> OnBye(state, leg)
    [] name = "onCancel(request)" -> OnCancelRequest
    [] name = "onCancel" -> OnCancel
    [] name = "onRinging" -> OnRinging(state, leg)
    [] name = "onReject" -> OnReject(leg)
    [] name = "onOk" -> OnOk(state, leg)
    [] name = "onOk(waiting)" -> OnOkWaiting(state, leg)

-----------------------------------------------------------------------------
(* The steps of a thread. *)

Continue(thread) ==
  /\ todo[thread] # <<>>
  /\ \E op \in {Head(todo[thread])}, rest \in {Tail(todo[thread])} :
     \/ /\ op.do = "run"
        /\ todo' = [todo EXCEPT ![thread] = Body(Now.state, op.leg, op.name) \o rest]
        /\ UNCHANGED <<serverVars, clientVars>>
     \/ /\ op.do # "run"
        /\ todo' = [todo EXCEPT ![thread] = rest]
        /\ \E now \in {Effect(Now, op)} :
             /\ server' = now.state["server"] /\ client' = now.state["client"]
             /\ serverReq' = now.req["server"] /\ clientReq' = now.req["client"]
             /\ serverKnown' = now.known["server"] /\ clientKnown' = now.known["client"]
             /\ toCaller' = now.wire["server"] /\ toCallee' = now.wire["client"]
  /\ UNCHANGED <<bridged, up, fromCaller, fromCallee, agents>>

\* The method that processRequest and processResponse call for a message.
MethodFor(m) ==
  CASE m = Req("ACK") -> {"onACK"}
    [] m = Req("CANCEL") -> {"onCancel(request)"}
    [] m = Req("BYE") -> {"onBye(request)"}
    [] IsRinging(m.code) -> {"onRinging"}
    [] IsOk(m.code) -> {"onOk"}
    [] IsReject(m.code) -> {"onReject"}
    [] OTHER -> {}

\* findHandler(): the handler is the thread's from here on, listed or not.
Take(thread, known, m) ==
  todo' = [todo EXCEPT ![thread] =
             IF known /\ MethodFor(m) # {}
             THEN <<Run(thread, CHOOSE name \in MethodFor(m) : TRUE)>>
             ELSE <<>>]

\* The handler of the INVITE shares nothing with the other thread before the
\* INVITE to the callee leaves, which is the last thing it does.
ServerThreadTakes ==
  /\ todo["server"] = <<>> /\ fromCaller # <<>>
  /\ \E m \in {Head(fromCaller)} :
     \/ /\ InviteMalformed(m) \/ InviteForbidden(m) \/ InviteStranded(m)
           \/ InviteBusy(m) \/ InviteRouted(m)
        /\ UNCHANGED todo
     \/ /\ ~(m = Req("INVITE") /\ ~serverKnown)
        /\ NextFromCaller
        /\ Take("server", serverKnown, m)
        /\ UNCHANGED <<serverVars, clientVars, bridged>>

ClientThreadTakes ==
  /\ todo["client"] = <<>> /\ fromCallee # <<>>
  /\ NextFromCallee
  /\ Take("client", clientKnown, Head(fromCallee))
  /\ UNCHANGED <<serverVars, clientVars, bridged>>

ServerThread == ServerThreadTakes \/ Continue("server")
ClientThread == ClientThreadTakes \/ Continue("client")
Environment == (CallerActs \/ CalleeActs \/ SessionCloses) /\ UNCHANGED todo

ThreadsNext == ServerThread \/ ClientThread \/ Environment

ThreadsSpec == ThreadsInit /\ [][ThreadsNext]_tvars

\* The container gives every message to a thread and lets both threads run.
ThreadsFairness ==
  /\ WF_tvars(ServerThread) /\ WF_tvars(ClientThread)
  /\ WF_tvars(Environment /\ toCaller' # toCaller)
  /\ WF_tvars(Environment /\ toCallee' # toCallee)
  /\ WF_tvars(Environment /\ callee = "alerting" /\ callee' # "alerting")

FairThreadsSpec == ThreadsSpec /\ ThreadsFairness

-----------------------------------------------------------------------------
ThreadsTypeOK == TypeOK /\ todo \in [Legs -> Seq(Operation)]

AtRest == \A leg \in Legs : todo[leg] = <<>>

\* Whatever the threads do to one another, the INVITE is answered or rejected,
\* not both and not twice.  (A 400 may follow: the source assigns
\* messageState = BYE before setRequest(), so onBye(request) on the other thread
\* can still refuse a BYE with a response to the INVITE.)
Outcomes == {i \in FinalResponses : toCaller[i].code # 400}
OneOutcome ==
  /\ \A i, j \in Outcomes : i = j
  /\ Outcomes # {} => caller \in {"calling", "proceeding", "cancelling"}

\* A race does damage only to a call whose caller has itself cancelled or hung
\* up: as long as the caller stays, the two legs and messageHandlerList agree
\* whenever both threads are at rest, although ACK, BYE and the callee's
\* messages are served at the same time.
CallerStays == caller \in {"calling", "proceeding", "talking"}
StayingCallerIsSafe ==
  AtRest /\ CallerStays =>
    /\ CallerWaitsOnLiveLeg /\ RegistryMatchesState
    /\ client = "CALLING" => Answered /\ server \in {"OK", "CALLING"}

=============================================================================
