--------------------------- MODULE ThreadsProofs ---------------------------
(***************************************************************************)
(* Proofs about CallThreads, for every set of answer codes, every bound    *)
(* and whichever sessions may close: what stays true of a call when its    *)
(* two threads interrupt one another between any two operations.           *)
(*                                                                         *)
(* The invariant is a proof outline: for every point at which a thread may *)
(* be, what is left for it to do and what it may count on there.  What a   *)
(* thread counts on is stable under the steps of everybody else.           *)
(***************************************************************************)
EXTENDS CallThreads, CallProofs, SequenceTheorems

-----------------------------------------------------------------------------
(* What the assertions of the outline say. *)

\* The server handler holds another request than the INVITE, and never takes
\* the INVITE back: from then on nothing it sends answers the INVITE.
Superseded == serverReq # "INVITE"

IsOutcome(m) == m.method = "INVITE" /\ m.code >= 200 /\ m.code # 400
NoOutcome(wire) == \A m \in InFlight(wire) : ~IsOutcome(m)
AtMostOneOutcome(wire) ==
  \A i, j \in 1..Len(wire) : IsOutcome(wire[i]) /\ IsOutcome(wire[j]) => i = j

\* The outcome of the INVITE is on its way to the caller, or has arrived.
Told == ~NoOutcome(toCaller) \/ caller \in {"talking", "hungup", "ended"}

Open == Told => Superseded                      \* an outcome can still be sent
Real == Answered \/ Superseded                  \* a 200 would be an answer
Quiet == Open \/ (Answered /\ client \notin Waiting)   \* the callee's leg decides no more

\* The caller has neither cancelled nor hung up, and the call is not over.
Stays == caller \in {"idle", "calling", "proceeding", "talking"}

ServerListed == serverKnown <=> server \notin {"NONE", "FINISH"}

\* The two legs and messageHandlerList agree, as they do between two messages.
Agree ==
  Stays =>
    /\ ServerListed
    /\ clientKnown => client \notin {"NONE", "FINISH"}
    /\ server \in Waiting => ~Superseded
    /\ client \in Waiting \/ (server \in Waiting /\ bridged) => server = client /\ clientKnown
    /\ client = "CALLING" => server \in {"OK", "CALLING"} /\ Answered

\* Both legs wait for the callee, from state s on.
BothAt(states) ==
  Stays => /\ server \in states /\ client = server /\ serverKnown /\ clientKnown /\ ~Superseded

HalfRinging ==
  Stays => /\ server = "RINGING" /\ client = "TRYING"
           /\ serverKnown /\ clientKnown /\ ~Superseded

HalfUp ==
  Stays => /\ server \in {"OK", "CALLING"} /\ client \in Waiting
           /\ serverKnown /\ clientKnown /\ Answered

\* The client leg comes to its end, the server leg does not wait for it.
Ending == Stays => ServerListed /\ server \notin Waiting

ServerAt(state) == Stays => server = state

\* The ACK of a caller that stays finds the server leg in OK.
Acked == server = "OK" /\ caller = "talking" /\ ~Superseded

-----------------------------------------------------------------------------
(* The outline of the client session's thread. *)

At(thread, plan) == todo[thread] = plan

FinishClient == <<Forget("client"), Become("client", "FINISH")>>
FinishServer == <<Forget("server"), Become("server", "FINISH")>>
Accept == <<Become("client", "CALLING"), Ask("client", "ACK")>>

\* onRinging() of the client leg, calling that of the server leg.
Ringing ==
  \/ At("client", <<Run("client", "onRinging")>>) /\ Quiet /\ Agree
  \/ /\ \/ At("client", <<Run("server", "onRinging")>> \o <<Become("client", "RINGING")>>)
        \/ At("client", <<Become("server", "RINGING"), Reply("server", 180)>>
                          \o <<Become("client", "RINGING")>>)
     /\ Open /\ BothAt({"TRYING"})
  \/ /\ \/ At("client", <<Reply("server", 180)>> \o <<Become("client", "RINGING")>>)
        \/ At("client", <<Become("client", "RINGING")>>)
     /\ Open /\ HalfRinging

\* onOk() on an unanswered client leg: the caller is answered first.
Accepting ==
  \/ /\ \/ At("client", <<Run("client", "onOk")>>)
        \/ At("client", <<Run("client", "onOk(waiting)")>>)
     /\ Real /\ Quiet /\ Agree
  \/ /\ \/ At("client", <<Run("server", "onOk")>> \o Accept)
        \/ At("client", <<Run("server", "onOk(waiting)")>> \o Accept)
        \/ At("client", <<Become("server", "OK"), Reply("server", 200)>> \o Accept)
     /\ Real /\ Open /\ BothAt(Waiting)
  \/ At("client", <<Reply("server", 200)>> \o Accept) /\ Real /\ Open /\ HalfUp
  \/ At("client", Accept) /\ (Open \/ Answered) /\ HalfUp
  \/ At("client", <<Ask("client", "ACK")>>) /\ Quiet /\ Agree
  \/ /\ \/ At("client", <<Ask("server", "ACK")>> \o FinishServer \o Accept)
        \/ At("client", FinishServer \o Accept)
        \/ At("client", <<Become("server", "FINISH")>> \o Accept)
        \/ At("client", <<Become("server", "FAIL")>> \o Accept)
     /\ Open /\ ~Stays

\* onOk() on a client leg that is closing or was answered before.
Confirming ==
  /\ \/ At("client", <<Become("client", "FAIL")>> \o FinishClient)
     \/ At("client", FinishClient)
     \/ At("client", <<Become("client", "FINISH")>>) /\ ~clientKnown
     \/ At("client", <<Ask("client", "ACK")>> \o FinishClient)
     \/ At("client", <<Run("server", "onBye")>> \o <<Ask("client", "ACK")>> \o FinishClient)
     \/ /\ At("client", <<Become("server", "BYE"), Cite("server", "OWN"), Ask("server", "BYE")>>
                          \o (<<Ask("client", "ACK")>> \o FinishClient))
        /\ ServerAt("CALLING")
     \/ /\ At("client", <<Cite("server", "OWN"), Ask("server", "BYE")>>
                          \o (<<Ask("client", "ACK")>> \o FinishClient))
        /\ ServerAt("BYE")
     \/ /\ At("client", <<Ask("server", "BYE")>> \o (<<Ask("client", "ACK")>> \o FinishClient))
        /\ ServerAt("BYE") /\ Superseded
  /\ Ending

\* onReject() of the client leg, calling that of the server leg.
Rejecting ==
  \/ /\ \/ At("client", <<Run("client", "onReject")>>)
        \/ At("client", <<Become("client", "BUSY")>> \o <<Run("server", "onReject")>>
                          \o FinishClient)
        \/ At("client", <<Run("server", "onReject")>> \o FinishClient)
        \/ At("client", <<Become("server", "BUSY"), Reply("server", 486)>>
                          \o FinishServer \o FinishClient)
        \/ /\ At("client", <<Reply("server", 486)>> \o FinishServer \o FinishClient)
           /\ ServerAt("BUSY")
     /\ Open
  \/ At("client", FinishServer \o FinishClient) /\ ServerAt("BUSY")
  \/ /\ At("client", <<Become("server", "FINISH")>> \o FinishClient)
     /\ ServerAt("BUSY") /\ ~serverKnown

\* onBye(request) of the client leg, calling onBye() of the server leg.
HangingUp ==
  /\ \/ /\ \/ At("client", <<Run("client", "onBye(request)")>>)
           \/ At("client", <<Reply("client", 400)>>)
        /\ Agree
     \/ At("client", <<Cite("client", "BYE"), Become("client", "BYE"), Reply("client", 200)>>
                       \o <<Run("server", "onBye")>>) /\ Ending
     \/ At("client", <<Become("client", "BYE"), Reply("client", 200)>>
                       \o <<Run("server", "onBye")>>) /\ Ending
     \/ /\ \/ At("client", <<Reply("client", 200)>> \o <<Run("server", "onBye")>>)
           \/ At("client", <<Run("server", "onBye")>>)
           \/ /\ At("client", <<Become("server", "BYE"), Cite("server", "OWN"),
                                Ask("server", "BYE")>>)
              /\ ServerAt("CALLING")
           \/ At("client", <<Cite("server", "OWN"), Ask("server", "BYE")>>) /\ ServerAt("BYE")
           \/ At("client", <<Ask("server", "BYE")>>) /\ ServerAt("BYE") /\ Superseded
        /\ Ending /\ (Stays => client = "BYE")
  /\ Quiet

ClientOutline ==
  \/ At("client", <<>>) /\ (clientKnown => Quiet) /\ Agree
  \/ bridged /\ (Ringing \/ Accepting \/ Confirming \/ Rejecting \/ HangingUp)

-----------------------------------------------------------------------------
(* The outline of the server session's thread. *)

Acking ==
  \/ /\ \/ At("server", <<Run("server", "onACK")>>)
        \/ At("server", <<Become("server", "CALLING")>>)
     /\ Stays => Acked /\ fromCaller = <<>>
  \/ /\ At("server", FinishServer) \/ At("server", <<Become("server", "FINISH")>>)
     /\ ~Stays

\* onBye(request) of the server leg, calling onBye() of the client leg.
CallerHangingUp ==
  /\ \/ /\ \/ At("server", <<Run("server", "onBye(request)")>>)
           \/ At("server", <<Reply("server", 400)>>)
           \/ \E passedOn \in {<<>>, <<Run("client", "onBye")>>} :
                At("server", <<Cite("server", "BYE"), Become("server", "BYE"),
                               Reply("server", 200)>> \o passedOn)
     \/ /\ \/ \E passedOn \in {<<>>, <<Run("client", "onBye")>>} :
                \/ At("server", <<Become("server", "BYE"), Reply("server", 200)>> \o passedOn)
                \/ At("server", <<Reply("server", 200)>> \o passedOn)
           \/ At("server", <<Run("client", "onBye")>>)
           \/ At("server", <<Become("client", "BYE"), Cite("client", "OWN"),
                             Ask("client", "BYE")>>)
           \/ At("server", <<Cite("client", "OWN"), Ask("client", "BYE")>>)
           \/ At("server", <<Ask("client", "BYE")>>)
        /\ Superseded
  /\ Answered /\ caller \in {"hungup", "ended"}

\* onCancel(request) of the server leg, calling onCancel() of the client leg.
Cancelling ==
  \/ At("server", <<Run("server", "onCancel(request)")>>)
  \/ \E passedOn \in {<<>>, <<Run("client", "onCancel")>>} :
       \/ At("server", <<Cite("server", "CANCEL"), Become("server", "CANCELING"),
                         Reply("server", 200)>> \o passedOn)
       \/ /\ \/ At("server", <<Become("server", "CANCELING"), Reply("server", 200)>> \o passedOn)
             \/ At("server", <<Reply("server", 200)>> \o passedOn)
          /\ Superseded
  \/ /\ \/ At("server", <<Run("client", "onCancel")>>)
        \/ At("server", <<Become("client", "CANCELING"), Ask("client", "CANCEL")>>)
        \/ At("server", <<Ask("client", "CANCEL")>>)
     /\ Superseded

\* A response of the caller to a BYE of the gateway.
CallerResponding ==
  /\ \/ At("server", <<Run("server", "onOk")>>)
     \/ At("server", <<Run("server", "onOk(waiting)")>>)
     \/ At("server", <<Become("server", "OK"), Reply("server", 200)>>)
     \/ At("server", <<Reply("server", 200)>>)
     \/ At("server", <<Become("server", "FAIL")>>)
     \/ At("server", <<Ask("server", "ACK")>> \o FinishServer)
     \/ At("server", <<Run("server", "onReject")>>)
     \/ At("server", <<Become("server", "BUSY"), Reply("server", 486)>> \o FinishServer)
     \/ At("server", <<Reply("server", 486)>> \o FinishServer)
  /\ Superseded

ServerOutline ==
  \/ At("server", <<>>)
  \/ Acking
  \/ ~Stays /\ (CallerHangingUp \/ Cancelling \/ CallerResponding)

-----------------------------------------------------------------------------
(* What is true at every point. *)

\* Before the first INVITE nothing has happened, and there is only one.
Unbegun ==
  server = "NONE" =>
    /\ serverReq = "INVITE" /\ ~serverKnown /\ ~clientKnown /\ client = "NONE" /\ ~bridged
    /\ todo["server"] = <<>> /\ todo["client"] = <<>>
    /\ toCaller = <<>> /\ caller \in {"idle", "calling"}
OneInvite == InviteIsFirst /\ Unbegun /\ (clientKnown => bridged)

\* The messages in flight have their reasons.
CallerMessages ==
  /\ Req("BYE") \in InFlight(toCaller) => Superseded
  /\ \A m \in InFlight(fromCaller) :
       /\ m.code # 0 => Superseded /\ ~IsRinging(m.code)
       /\ m = Req("BYE") => Answered /\ caller \in {"hungup", "ended"}
  /\ caller = "hungup" => Answered
  /\ \A m \in InFlight(toCaller) : m.method = "INVITE" /\ m.code = 400 => caller \in {"hungup", "ended"}

CalleeMessages ==
  /\ Req("CANCEL") \in InFlight(toCallee) \/ Req("BYE") \in InFlight(toCallee) => Superseded
  /\ \A m \in InFlight(fromCallee) :
       /\ m.code = 0 => m = Req("BYE")
       /\ m.code # 0 /\ m.method # "INVITE" => Superseded
       /\ InviteOk(m) => Answered
       /\ IsReject(m.code) => Superseded \/ callee = "declined"

Outcome ==
  /\ AtMostOneOutcome(toCaller)
  /\ ~NoOutcome(toCaller) => caller \in {"calling", "proceeding", "cancelling"}

\* As long as the caller stays, the server thread has nothing but an ACK to
\* take, and it finds the leg in OK.
OnlyAcks ==
  Stays =>
    /\ fromCaller # <<>> =>
         /\ Len(fromCaller) = 1
         /\ \/ fromCaller[1] = Req("INVITE") /\ server = "NONE"
            \/ fromCaller[1] = Req("ACK") /\ todo["server"] = <<>> /\ Acked
    /\ HasInviteOk(toCaller) => server = "OK" /\ ~Superseded
    /\ server \in {"CALLING", "BYE"} \/ Superseded \/ Req("BYE") \in InFlight(toCaller)
         => caller = "talking"

Everywhere ==
  /\ ThreadsTypeOK /\ OneInvite /\ CallerMessages /\ CalleeMessages /\ Outcome
  /\ NoPhantomAnswer /\ ByeOnlyAfterAnswer
THInv == Everywhere /\ OnlyAcks /\ ClientOutline /\ ServerOutline

-----------------------------------------------------------------------------
(* What one operation changes. *)

Steady == UNCHANGED <<bridged, up, fromCaller, fromCallee, caller, callee>>

SetsState(leg, state) ==
  /\ server' = IF leg = "server" THEN state ELSE server
  /\ client' = IF leg = "client" THEN state ELSE client
  /\ UNCHANGED <<serverReq, clientReq, serverKnown, clientKnown, toCaller, toCallee>>
  /\ Steady

SetsRequest(leg, req) ==
  /\ serverReq' = IF leg = "server" THEN req ELSE serverReq
  /\ clientReq' = IF leg = "client" THEN req ELSE clientReq
  /\ UNCHANGED <<server, client, serverKnown, clientKnown, toCaller, toCallee>>
  /\ Steady

Forgets(leg) ==
  /\ leg = "server" => serverKnown' = FALSE /\ clientKnown' = clientKnown
  /\ leg = "client" => clientKnown' = FALSE /\ serverKnown' = serverKnown
  /\ UNCHANGED <<server, client, serverReq, clientReq, toCaller, toCallee>>
  /\ Steady

Sends(leg, m) ==
  /\ toCaller' = IF leg = "server" THEN Sent("server", toCaller, <<m>>) ELSE toCaller
  /\ toCallee' = IF leg = "client" THEN Sent("client", toCallee, <<m>>) ELSE toCallee
  /\ UNCHANGED <<server, client, serverReq, clientReq, serverKnown, clientKnown>>
  /\ Steady

Requested(leg) == IF leg = "server" THEN serverReq ELSE clientReq

\* A response cites the request that the handler holds.
SentCodes == {180, 200, 400, 486}
Responds(leg, code) == \E m \in {Resp(code, Requested(leg))} : Sends(leg, m)

\* The thread goes on with the plan rest, its session's messages untouched.
GoesOn(thread, rest) ==
  /\ todo' = [todo EXCEPT ![thread] = rest]
  /\ todo'[thread] = rest /\ todo'[Other(thread)] = todo[Other(thread)]
  /\ todo' \in [Legs -> Seq(Operation)]

LEMMA Resumes ==
  ASSUME ThreadsTypeOK, NEW thread \in Legs, Continue(thread), Head(todo[thread]).do # "run"
  PROVE  GoesOn(thread, Tail(todo[thread]))
<1>1. /\ todo' = [todo EXCEPT ![thread] = Tail(todo[thread])]
      /\ todo[thread] # <<>> /\ todo[thread] \in Seq(Operation)
      /\ todo \in [Legs -> Seq(Operation)]
  BY DEF Continue, ThreadsTypeOK
<1>2. Tail(todo[thread]) \in Seq(Operation)
  BY <1>1
<1>3. Other(thread) \in Legs /\ Other(thread) # thread
  BY DEF Other, Legs
<1> QED
  BY <1>1, <1>2, <1>3 DEF GoesOn

LEMMA Performs ==
  ASSUME ThreadsTypeOK, NEW thread \in Legs, Continue(thread),
         NEW op, Head(todo[thread]) = op, op.do # "run"
  PROVE  /\ GoesOn(thread, Tail(todo[thread]))
         /\ \E now \in {Effect(Now, op)} :
              /\ server' = now.state["server"] /\ client' = now.state["client"]
              /\ serverReq' = now.req["server"] /\ clientReq' = now.req["client"]
              /\ serverKnown' = now.known["server"] /\ clientKnown' = now.known["client"]
              /\ toCaller' = now.wire["server"] /\ toCallee' = now.wire["client"]
         /\ Steady
BY Resumes DEF Continue, Steady, agents

LEMMA Becomes ==
  ASSUME ThreadsTypeOK, NEW thread \in Legs, Continue(thread),
         NEW leg \in Legs, NEW state, Head(todo[thread]) = Become(leg, state)
  PROVE  SetsState(leg, state) /\ GoesOn(thread, Tail(todo[thread]))
<1> DEFINE op == Become(leg, state)
<1>1. op.do = "become" /\ op.leg = leg /\ op.state = state
  BY DEF Become
<1>2. Effect(Now, op) = [Now EXCEPT !.state[leg] = state]
  BY <1>1 DEF Effect
<1> HIDE DEF op
<1> QED
  BY <1>1, <1>2, Performs DEF SetsState, Now, Legs, op

LEMMA Cites ==
  ASSUME ThreadsTypeOK, NEW thread \in Legs, Continue(thread),
         NEW leg \in Legs, NEW req, Head(todo[thread]) = Cite(leg, req)
  PROVE  SetsRequest(leg, req) /\ GoesOn(thread, Tail(todo[thread]))
<1> DEFINE op == Cite(leg, req)
<1>1. op.do = "cite" /\ op.leg = leg /\ op.req = req
  BY DEF Cite
<1>2. Effect(Now, op) = [Now EXCEPT !.req[leg] = req]
  BY <1>1 DEF Effect
<1> HIDE DEF op
<1> QED
  BY <1>1, <1>2, Performs DEF SetsRequest, Now, Legs, op

LEMMA Removes ==
  ASSUME ThreadsTypeOK, NEW thread \in Legs, Continue(thread),
         NEW leg \in Legs, Head(todo[thread]) = Forget(leg)
  PROVE  Forgets(leg) /\ GoesOn(thread, Tail(todo[thread]))
<1> DEFINE op == Forget(leg)
<1>1. op.do = "forget" /\ op.leg = leg
  BY DEF Forget
<1>2. Effect(Now, op) = [Now EXCEPT !.known[leg] = FALSE]
  BY <1>1 DEF Effect
<1>3. /\ Effect(Now, op).known = [Now.known EXCEPT ![leg] = FALSE]
      /\ Effect(Now, op).state = Now.state /\ Effect(Now, op).req = Now.req
      /\ Effect(Now, op).wire = Now.wire
  BY <1>2 DEF Now
<1>4. leg = "server" \/ leg = "client"
  BY DEF Legs
<1> HIDE DEF op
<1>5. /\ GoesOn(thread, Tail(todo[thread])) /\ Steady
      /\ \E now \in {Effect(Now, op)} :
           /\ server' = now.state["server"] /\ client' = now.state["client"]
           /\ serverReq' = now.req["server"] /\ clientReq' = now.req["client"]
           /\ serverKnown' = now.known["server"] /\ clientKnown' = now.known["client"]
           /\ toCaller' = now.wire["server"] /\ toCallee' = now.wire["client"]
  BY <1>1, Performs DEF op
<1>6. /\ server' = Now.state["server"] /\ client' = Now.state["client"]
      /\ serverReq' = Now.req["server"] /\ clientReq' = Now.req["client"]
      /\ toCaller' = Now.wire["server"] /\ toCallee' = Now.wire["client"]
      /\ serverKnown' = [Now.known EXCEPT ![leg] = FALSE]["server"]
      /\ clientKnown' = [Now.known EXCEPT ![leg] = FALSE]["client"]
  BY <1>3, <1>5
<1>7. Now.known["server"] = serverKnown /\ Now.known["client"] = clientKnown
  BY DEF Now
<1>8. ASSUME leg = "server"
      PROVE  serverKnown' = FALSE /\ clientKnown' = clientKnown
  <2>1. /\ [Now.known EXCEPT ![leg] = FALSE]["server"] = FALSE
        /\ [Now.known EXCEPT ![leg] = FALSE]["client"] = Now.known["client"]
    BY <1>8 DEF Now
  <2> QED
    BY <1>6, <1>7, <2>1, Zenon
<1>9. ASSUME leg = "client"
      PROVE  clientKnown' = FALSE /\ serverKnown' = serverKnown
  <2>1. /\ [Now.known EXCEPT ![leg] = FALSE]["client"] = FALSE
        /\ [Now.known EXCEPT ![leg] = FALSE]["server"] = Now.known["server"]
    BY <1>9 DEF Now
  <2> QED
    BY <1>6, <1>7, <2>1, Zenon
<1> QED
  BY <1>5, <1>6, <1>8, <1>9 DEF Forgets, Now

LEMMA Asks ==
  ASSUME ThreadsTypeOK, NEW thread \in Legs, Continue(thread),
         NEW leg \in Legs, NEW method, Head(todo[thread]) = Ask(leg, method)
  PROVE  Sends(leg, Req(method)) /\ GoesOn(thread, Tail(todo[thread]))
<1> DEFINE op == Ask(leg, method)
           m == Req(method)
<1>1. op.do = "ask" /\ op.leg = leg /\ op.method = method
  BY DEF Ask
<1>2. Effect(Now, op) = [Now EXCEPT !.wire[leg] = Sent(leg, @, <<m>>)]
  BY <1>1 DEF Effect
<1> HIDE DEF op, m
<1>3. Sends(leg, m) /\ GoesOn(thread, Tail(todo[thread]))
  BY <1>1, <1>2, Performs DEF Sends, Now, Legs, op
<1> QED
  BY <1>3 DEF m

LEMMA Replies ==
  ASSUME ThreadsTypeOK, NEW thread \in Legs, Continue(thread),
         NEW leg \in Legs, NEW code, Head(todo[thread]) = Reply(leg, code)
  PROVE  Responds(leg, code) /\ GoesOn(thread, Tail(todo[thread]))
<1> DEFINE op == Reply(leg, code)
           m == Resp(code, Requested(leg))
<1>1. op.do = "reply" /\ op.leg = leg /\ op.code = code
  BY DEF Reply
<1>2. Effect(Now, op) = [Now EXCEPT !.wire[leg] = Sent(leg, @, <<m>>)]
  <2>1. Now.req[leg] = Requested(leg)
    BY DEF Now, Requested, Legs
  <2> QED
    BY <1>1, <2>1 DEF Effect
<1> HIDE DEF op, m
<1>3. Sends(leg, m) /\ GoesOn(thread, Tail(todo[thread]))
  BY <1>1, <1>2, Performs DEF Sends, Now, Legs, op
<1> QED
  BY <1>3 DEF m, Responds

Untouched ==
  /\ UNCHANGED <<server, client, serverReq, clientReq, serverKnown, clientKnown, toCaller, toCallee>>
  /\ Steady

\* The states a method reads.
States == [server |-> server, client |-> client]

LEMMA BodyType ==
  ASSUME NEW states, NEW leg \in Legs, NEW name \in Methods
  PROVE  Body(states, leg, name) \in Seq(Operation)
<1> DEFINE S == Seq(Operation)
<1>1. /\ \A l \in Legs, s \in MessageState : Become(l, s) \in Operation
      /\ \A l \in Legs, r \in Method : Cite(l, r) \in Operation /\ Ask(l, r) \in Operation
      /\ \A l \in Legs, c \in {180, 200, 400, 486} : Reply(l, c) \in Operation
      /\ \A l \in Legs : Forget(l) \in Operation
      /\ \A l \in Legs, n \in Methods : Run(l, n) \in Operation
  BY DEF Operation, Become, Cite, Ask, Reply, Forget, Run
<1>2. /\ "server" \in Legs /\ "client" \in Legs /\ Other(leg) \in Legs
      /\ {"TRYING", "RINGING", "BUSY", "OK", "CALLING", "CANCELING", "BYE", "FINISH", "FAIL"}
            \subseteq MessageState
      /\ {"INVITE", "ACK", "CANCEL", "BYE", "OWN"} \subseteq Method
  BY DEF Legs, Other, MessageState, Method
<1>3. /\ <<>> \in S
      /\ \A a \in Operation : <<a>> \in S
      /\ \A a, b \in Operation : <<a, b>> \in S
      /\ \A a, b, c \in Operation : <<a, b, c>> \in S
      /\ \A s, t \in S : s \o t \in S
  OBVIOUS
<1> HIDE DEF S
<1>4. \A n \in Methods, l \in Legs : OnOther(l, n) \in S
  BY <1>1, <1>2, <1>3 DEF OnOther, Other
<1>5. \A l \in Legs : FinishImmediately(l) \in S
  BY <1>1, <1>2, <1>3 DEF FinishImmediately
<1>6. OnAck(states) \in S
  BY <1>1, <1>2, <1>3, <1>5 DEF OnAck
<1>7. OnByeRequest(states, leg) \in S
  BY <1>1, <1>2, <1>3, <1>4 DEF OnByeRequest, Methods
<1>8. OnBye(states, leg) \in S
  BY <1>1, <1>2, <1>3, <1>4 DEF OnBye
<1>9. OnCancelRequest \in S
  BY <1>1, <1>2, <1>3, <1>4 DEF OnCancelRequest, Methods
<1>10. OnCancel \in S
  BY <1>1, <1>2, <1>3 DEF OnCancel
<1>11. OnRinging(states, leg) \in S
  <2>1. OnOther("client", "onRinging") \in S
    BY <1>2, <1>4 DEF Methods
  <2> QED
    BY <1>1, <1>2, <1>3, <2>1 DEF OnRinging, Legs
<1>12. OnReject(leg) \in S
  <2>1. OnOther("client", "onReject") \in S
    BY <1>2, <1>4 DEF Methods
  <2> QED
    BY <1>1, <1>2, <1>3, <1>5, <2>1 DEF OnReject
<1>13. OnOk(states, leg) \in S
  <2>1. OnOther(leg, "onBye") \in S /\ "onOk(waiting)" \in Methods
    BY <1>2, <1>4 DEF Methods
  <2> QED
    BY <1>1, <1>2, <1>3, <1>5, <2>1 DEF OnOk
<1>14. OnOkWaiting(states, leg) \in S
  <2>1. OnOther("client", "onOk") \in S
    BY <1>2, <1>4 DEF Methods
  <2> QED
    BY <1>1, <1>2, <1>3, <1>5, <2>1 DEF OnOkWaiting, Legs
<1> QED
  BY <1>6, <1>7, <1>8, <1>9, <1>10, <1>11, <1>12, <1>13, <1>14 DEF Body, Methods, S

\* A method call is replaced by the method's body.
LEMMA Calls ==
  ASSUME ThreadsTypeOK, NEW thread \in Legs, Continue(thread),
         NEW leg \in Legs, NEW name \in Methods, Head(todo[thread]) = Run(leg, name)
  PROVE  Untouched /\ GoesOn(thread, Body(States, leg, name) \o Tail(todo[thread]))
<1> DEFINE op == Run(leg, name)
<1>1. op.do = "run" /\ op.leg = leg /\ op.name = name
  BY DEF Run
<1>2. Now.state = States
  BY DEF Now, States
<1>3. /\ todo' = [todo EXCEPT ![thread] = Body(States, leg, name) \o Tail(todo[thread])]
      /\ Untouched /\ todo[thread] # <<>>
  BY <1>1, <1>2 DEF Continue, Untouched, Steady, agents, serverVars, clientVars
<1>4. todo \in [Legs -> Seq(Operation)] /\ Tail(todo[thread]) \in Seq(Operation)
  BY <1>3 DEF ThreadsTypeOK
<1>5. Body(States, leg, name) \o Tail(todo[thread]) \in Seq(Operation)
  BY <1>4, BodyType
<1>6. Other(thread) \in Legs /\ Other(thread) # thread
  BY DEF Other, Legs
<1> QED
  BY <1>3, <1>4, <1>5, <1>6 DEF GoesOn

-----------------------------------------------------------------------------
(* Outcomes on the wire to the caller. *)

LEMMA NoOutcomeAnywhere ==
  ASSUME NEW wire \in Seq(Message)
  PROVE  NoOutcome(wire) <=> \A i \in 1..Len(wire) : ~IsOutcome(wire[i])
BY DEF NoOutcome, InFlight

LEMMA InviteOkIsOutcome ==
  ASSUME NEW wire, HasInviteOk(wire)
  PROVE  ~NoOutcome(wire)
BY DEF HasInviteOk, InviteOk, IsOk, NoOutcome, IsOutcome

\* Sending an outcome on a wire without one makes it the only one.
LEMMA SentOutcomes ==
  ASSUME NEW wire \in Seq(Message), NEW m \in Message, NEW leg
  PROVE  /\ Sent(leg, wire, <<m>>) \in Seq(Message)
         /\ InFlight(Sent(leg, wire, <<m>>)) \subseteq InFlight(wire) \cup {m}
         /\ AtMostOneOutcome(wire) /\ (~IsOutcome(m) \/ NoOutcome(wire))
              => AtMostOneOutcome(Sent(leg, wire, <<m>>))
         /\ NoOutcome(wire) /\ ~IsOutcome(m) => NoOutcome(Sent(leg, wire, <<m>>))
<1>1. /\ wire \o <<m>> \in Seq(Message) /\ Len(wire \o <<m>>) = Len(wire) + 1
      /\ \A i \in 1..Len(wire) : (wire \o <<m>>)[i] = wire[i]
      /\ (wire \o <<m>>)[Len(wire) + 1] = m /\ Len(wire) \in Nat
  OBVIOUS
<1> DEFINE longer == wire \o <<m>>
<1>2. \A i \in 1..Len(longer) :
        \/ i \in 1..Len(wire) /\ longer[i] = wire[i]
        \/ i = Len(wire) + 1 /\ longer[i] = m
  BY <1>1
<1>3. longer \in Seq(Message)
  BY <1>1
<1> HIDE DEF longer
<1>4. InFlight(longer) \subseteq InFlight(wire) \cup {m}
  BY <1>2 DEF InFlight
<1>5. ASSUME AtMostOneOutcome(wire), ~IsOutcome(m) PROVE AtMostOneOutcome(longer)
  BY <1>2, <1>5 DEF AtMostOneOutcome
<1>6. ASSUME NoOutcome(wire) PROVE AtMostOneOutcome(longer)
  BY <1>2, <1>6, NoOutcomeAnywhere DEF AtMostOneOutcome
<1>7. NoOutcome(wire) /\ ~IsOutcome(m) => NoOutcome(longer)
  BY <1>4 DEF NoOutcome
<1> QED
  BY <1>3, <1>4, <1>5, <1>6, <1>7 DEF Sent, longer

\* The outcome that is taken was the only one.
LEMMA TakenOutcome ==
  ASSUME NEW wire \in Seq(Message), wire # <<>>, AtMostOneOutcome(wire)
  PROVE  /\ AtMostOneOutcome(Tail(wire))
         /\ IsOutcome(Head(wire)) => NoOutcome(Tail(wire)) /\ ~NoOutcome(wire)
         /\ ~NoOutcome(Tail(wire)) => ~NoOutcome(wire)
<1>1. /\ Tail(wire) \in Seq(Message) /\ Head(wire) = wire[1] /\ 1 \in 1..Len(wire)
      /\ \A i \in 1..Len(Tail(wire)) : i + 1 \in 1..Len(wire) /\ Tail(wire)[i] = wire[i + 1]
  OBVIOUS
<1>2. \A i, j \in 1..Len(Tail(wire)) : i + 1 = j + 1 => i = j
  BY <1>1
<1>3. AtMostOneOutcome(Tail(wire))
  BY <1>1, <1>2 DEF AtMostOneOutcome
<1>4. ASSUME IsOutcome(Head(wire)) PROVE NoOutcome(Tail(wire)) /\ ~NoOutcome(wire)
  <2>1. \A i \in 1..Len(Tail(wire)) : i + 1 # 1
    BY <1>1
  <2>2. \A i \in 1..Len(Tail(wire)) : ~IsOutcome(Tail(wire)[i])
    BY <1>1, <1>4, <2>1 DEF AtMostOneOutcome
  <2> QED
    BY <1>1, <1>4, <2>2, NoOutcomeAnywhere
<1> QED
  BY <1>3, <1>4, TailHolds DEF NoOutcome

-----------------------------------------------------------------------------
(* What one operation leaves true everywhere. *)

\* The other thread's operations do not give the server thread work.
ServerStaysIdle == todo["server"] = <<>> => todo'["server"] = <<>>

LEMMA StateKeeps ==
  ASSUME Everywhere, OnlyAcks, NEW leg \in Legs, NEW state \in MessageState,
         SetsState(leg, state), server # "NONE",
         todo' \in [Legs -> Seq(Operation)], ServerStaysIdle,
         leg = "server" /\ Stays =>
           /\ server # "OK" \/ Open \/ (fromCaller = <<>> /\ caller = "talking")
           /\ state \in {"CALLING", "BYE"} => caller = "talking"
  PROVE  Everywhere' /\ OnlyAcks'
<1>1. ThreadsTypeOK'
  BY DEF Everywhere, ThreadsTypeOK, TypeOK, SetsState, Steady, HandlerState
<1>2. OneInvite'
  BY DEF Everywhere, OneInvite, InviteIsFirst, InviteLeads, Unbegun, SetsState, Steady, MessageState
<1>3. CallerMessages' /\ CalleeMessages' /\ Outcome' /\ NoPhantomAnswer' /\ ByeOnlyAfterAnswer'
  BY DEF Everywhere, CallerMessages, CalleeMessages, Outcome, NoPhantomAnswer, ByeOnlyAfterAnswer,
         Answered, HasInviteOk, Superseded, SetsState, Steady
<1>4. OnlyAcks'
  <2> SUFFICES ASSUME Stays'
               PROVE  OnlyAcks'
    BY DEF OnlyAcks
  <2>1. Stays /\ caller' = caller /\ fromCaller' = fromCaller /\ toCaller' = toCaller
        /\ Superseded' = Superseded
    BY DEF Stays, SetsState, Steady, Superseded
  <2>2. HasInviteOk(toCaller) => server = "OK" /\ ~Superseded /\ Told /\ caller # "talking"
    BY <2>1, InviteOkIsOutcome DEF OnlyAcks, Told, Everywhere, Outcome
  <2>3. Acked => Told
    BY DEF Acked, Told
  <2>4. CASE leg = "client"
    BY <2>1, <2>4 DEF OnlyAcks, SetsState, ServerStaysIdle, Acked, HasInviteOk
  <2>5. CASE leg = "server"
    <3>1. ~HasInviteOk(toCaller)
      BY <2>1, <2>2, <2>5 DEF Open
    <3>2. fromCaller = <<>>
      BY <2>1, <2>3, <2>5 DEF OnlyAcks, Open, Acked
    <3> QED
      BY <2>1, <2>5, <3>1, <3>2 DEF OnlyAcks, SetsState, HasInviteOk
  <2> QED
    BY <2>4, <2>5 DEF Legs
<1> QED
  BY <1>1, <1>2, <1>3, <1>4 DEF Everywhere

LEMMA RequestKeeps ==
  ASSUME Everywhere, OnlyAcks, NEW leg \in Legs, NEW req \in Method,
         SetsRequest(leg, req), server # "NONE",
         todo' \in [Legs -> Seq(Operation)], ServerStaysIdle,
         leg = "server" => req # "INVITE" /\ (Stays => server = "BYE")
  PROVE  Everywhere' /\ OnlyAcks' /\ (Superseded => Superseded')
<1>1. ThreadsTypeOK'
  BY DEF Everywhere, ThreadsTypeOK, TypeOK, SetsRequest, Steady
<1>2. OneInvite'
  BY DEF Everywhere, OneInvite, InviteIsFirst, InviteLeads, Unbegun, SetsRequest, Steady
<1>3. Superseded => Superseded'
  BY DEF Superseded, SetsRequest
<1>4. CallerMessages' /\ CalleeMessages' /\ Outcome' /\ NoPhantomAnswer' /\ ByeOnlyAfterAnswer'
  BY <1>3 DEF Everywhere, CallerMessages, CalleeMessages, Outcome, NoPhantomAnswer,
         ByeOnlyAfterAnswer, Answered, HasInviteOk, SetsRequest, Steady
<1>5. OnlyAcks'
  <2> SUFFICES ASSUME Stays'
               PROVE  OnlyAcks'
    BY DEF OnlyAcks
  <2>1. Stays /\ UNCHANGED <<caller, fromCaller, toCaller, server>>
    BY DEF Stays, SetsRequest, Steady
  <2>2. CASE leg = "client"
    BY <2>1, <2>2 DEF OnlyAcks, SetsRequest, ServerStaysIdle, Acked, HasInviteOk, Superseded
  <2>3. CASE leg = "server"
    <3>1. server = "BYE" /\ caller = "talking"
      BY <2>1, <2>3 DEF OnlyAcks
    <3>2. ~HasInviteOk(toCaller) /\ fromCaller = <<>>
      BY <2>1, <3>1 DEF OnlyAcks, Acked
    <3> QED
      BY <2>1, <3>1, <3>2 DEF OnlyAcks, HasInviteOk
  <2> QED
    BY <2>2, <2>3 DEF Legs
<1> QED
  BY <1>1, <1>2, <1>3, <1>4, <1>5 DEF Everywhere

LEMMA ForgetKeeps ==
  ASSUME Everywhere, OnlyAcks, NEW leg \in Legs, Forgets(leg), server # "NONE",
         todo' \in [Legs -> Seq(Operation)], ServerStaysIdle
  PROVE  Everywhere' /\ OnlyAcks'
<1>0. /\ serverKnown' = FALSE \/ serverKnown' = serverKnown
      /\ clientKnown' = FALSE \/ clientKnown' = clientKnown
  BY DEF Forgets, Legs
<1>1. ThreadsTypeOK'
  BY <1>0 DEF Everywhere, ThreadsTypeOK, TypeOK, Forgets, Steady
<1>2. OneInvite'
  BY <1>0 DEF Everywhere, OneInvite, InviteIsFirst, InviteLeads, Unbegun, Forgets, Steady
<1>3. CallerMessages' /\ CalleeMessages' /\ Outcome' /\ NoPhantomAnswer' /\ ByeOnlyAfterAnswer'
  BY DEF Everywhere, CallerMessages, CalleeMessages, Outcome, NoPhantomAnswer, ByeOnlyAfterAnswer,
         Answered, HasInviteOk, Superseded, Forgets, Steady
<1>4. OnlyAcks'
  BY DEF OnlyAcks, Stays, Forgets, Steady, ServerStaysIdle, Acked, HasInviteOk, Superseded
<1> QED
  BY <1>1, <1>2, <1>3, <1>4 DEF Everywhere

LEMMA CallKeeps ==
  ASSUME Everywhere, OnlyAcks, Untouched, server # "NONE",
         todo' \in [Legs -> Seq(Operation)], ServerStaysIdle
  PROVE  Everywhere' /\ OnlyAcks'
<1>1. ThreadsTypeOK'
  BY DEF Everywhere, ThreadsTypeOK, TypeOK, Untouched, Steady
<1>2. OneInvite'
  BY DEF Everywhere, OneInvite, InviteIsFirst, InviteLeads, Unbegun, Untouched, Steady
<1>3. CallerMessages' /\ CalleeMessages' /\ Outcome' /\ NoPhantomAnswer' /\ ByeOnlyAfterAnswer'
  BY DEF Everywhere, CallerMessages, CalleeMessages, Outcome, NoPhantomAnswer, ByeOnlyAfterAnswer,
         Answered, HasInviteOk, Superseded, Untouched, Steady
<1>4. OnlyAcks'
  BY DEF OnlyAcks, Stays, Untouched, Steady, ServerStaysIdle, Acked, HasInviteOk, Superseded
<1> QED
  BY <1>1, <1>2, <1>3, <1>4 DEF Everywhere

LEMMA AskKeeps ==
  ASSUME Everywhere, OnlyAcks, NEW leg \in Legs, NEW method \in Method \ {"INVITE"},
         Sends(leg, Req(method)), server # "NONE",
         todo' \in [Legs -> Seq(Operation)], ServerStaysIdle,
         leg = "server" /\ method = "BYE" => Superseded,
         leg = "client" /\ method \in {"BYE", "CANCEL"} => Superseded,
         leg = "client" /\ method = "BYE" => Answered
  PROVE  Everywhere' /\ OnlyAcks'
<1> DEFINE m == Req(method)
<1>1. /\ m \in Message /\ ~InviteOk(m) /\ m.code = 0 /\ ~IsOutcome(m)
      /\ m = Req("BYE") <=> method = "BYE"
      /\ m = Req("CANCEL") <=> method = "CANCEL"
  <2>1. method \in Method /\ "BYE" \in Method /\ "CANCEL" \in Method
    BY DEF Method
  <2>2. m.code = 0 /\ ~IsOutcome(m)
    BY DEF Req, IsOutcome
  <2> QED
    BY <2>1, <2>2, RequestIsMessage, RequestsDiffer
<1>2. Sends(leg, m)
  OBVIOUS
<1>3. toCaller \in Seq(Message) /\ toCallee \in Seq(Message)
  BY DEF Everywhere, ThreadsTypeOK, TypeOK
<1> HIDE DEF m
<1>15. m \in Message /\ ~IsOutcome(m)
  BY <1>1
<1>4. /\ toCaller' \in Seq(Message)
      /\ InFlight(toCaller') \subseteq InFlight(toCaller) \cup (IF leg = "server" THEN {m} ELSE {})
      /\ AtMostOneOutcome(toCaller) => AtMostOneOutcome(toCaller')
      /\ NoOutcome(toCaller) => NoOutcome(toCaller')
  BY <1>15, <1>2, <1>3, SentOutcomes DEF Sends
<1>5. /\ toCallee' \in Seq(Message)
      /\ InFlight(toCallee') \subseteq InFlight(toCallee) \cup (IF leg = "client" THEN {m} ELSE {})
  BY <1>15, <1>2, <1>3, SentOutcomes DEF Sends
<1>6. UNCHANGED <<server, client, serverReq, clientReq, serverKnown, clientKnown>> /\ Steady
  BY <1>2 DEF Sends
<1>7. HasInviteOk(toCaller') => HasInviteOk(toCaller)
  BY <1>1, <1>4 DEF HasInviteOk
<1>8. ThreadsTypeOK'
  BY <1>4, <1>5, <1>6 DEF Everywhere, ThreadsTypeOK, TypeOK, Steady
<1>9. OneInvite'
  BY <1>6 DEF Everywhere, OneInvite, InviteIsFirst, InviteLeads, Unbegun, Steady
<1>10. CallerMessages'
  BY <1>1, <1>4, <1>6 DEF Everywhere, CallerMessages, Superseded, Answered, Steady
<1>11. CalleeMessages'
  BY <1>1, <1>5, <1>6 DEF Everywhere, CalleeMessages, Superseded, Answered, Steady
<1>12. Outcome'
  BY <1>4, <1>6 DEF Everywhere, Outcome, Steady
<1>13. NoPhantomAnswer' /\ ByeOnlyAfterAnswer'
  BY <1>1, <1>5, <1>6, <1>7 DEF Everywhere, NoPhantomAnswer, ByeOnlyAfterAnswer, Answered, Steady
<1>14. OnlyAcks'
  <2>1. Req("BYE") \in InFlight(toCaller') => Req("BYE") \in InFlight(toCaller) \/ Superseded
    BY <1>1, <1>4
  <2> QED
    BY <1>6, <1>7, <2>1 DEF OnlyAcks, Stays, Steady, ServerStaysIdle, Acked, Superseded
<1> QED
  BY <1>8, <1>9, <1>10, <1>11, <1>12, <1>13, <1>14 DEF Everywhere

LEMMA ReplyKeeps ==
  ASSUME Everywhere, OnlyAcks, NEW leg \in Legs, NEW code \in SentCodes,
         Responds(leg, code), server # "NONE",
         todo' \in [Legs -> Seq(Operation)], ServerStaysIdle,
         leg = "server" /\ code \in {200, 486} => Open,
         leg = "server" /\ code = 200 =>
           Real /\ (Stays => server \in {"OK", "CALLING"} \/ Superseded),
         leg = "server" /\ code = 400 => caller \in {"hungup", "ended"}
  PROVE  Everywhere' /\ OnlyAcks'
<1>0. PICK m \in {Resp(code, Requested(leg))} : Sends(leg, m)
  BY DEF Responds
<1>1. Requested(leg) \in Method /\ code \in Status
  BY DEF Everywhere, ThreadsTypeOK, TypeOK, Requested, Status, SentCodes
<1>2. /\ m \in Message /\ m # Req("BYE") /\ m # Req("CANCEL")
      /\ InviteOk(m) => Requested(leg) = "INVITE" /\ code = 200
      /\ IsOutcome(m) => Requested(leg) = "INVITE" /\ code \in {200, 486}
      /\ m.method = "INVITE" /\ m.code = 400 => code = 400
  <2>1. "BYE" \in Method /\ "CANCEL" \in Method
    BY DEF Method
  <2>2. m.method = Requested(leg) /\ m.code = code
    BY <1>0 DEF Resp
  <2>3. InviteOk(m) => code = 200
    BY NotOk, <2>2 DEF InviteOk, SentCodes
  <2> QED
    BY <1>0, <1>1, <2>1, <2>2, <2>3, ResponseIsMessage, ResponseIsNoRequest DEF IsOutcome, SentCodes
<1>4. toCaller \in Seq(Message) /\ toCallee \in Seq(Message)
  BY DEF Everywhere, ThreadsTypeOK, TypeOK
\* The one way to tell the caller an outcome.
<1>5. ASSUME leg = "server", IsOutcome(m)
      PROVE  ~Superseded /\ ~Told /\ NoOutcome(toCaller)
             /\ caller \in {"calling", "proceeding", "cancelling"}
  <2>1. ~Superseded /\ ~Told /\ NoOutcome(toCaller)
    BY <1>2, <1>5 DEF Superseded, Requested, Open, Told
  <2>2. caller \in CallerState /\ caller # "idle"
    BY DEF Everywhere, ThreadsTypeOK, TypeOK, OneInvite, InviteIsFirst, InviteLeads
  <2> QED
    BY <2>1, <2>2 DEF Told, CallerState
<1>6. /\ toCaller' \in Seq(Message)
      /\ InFlight(toCaller') \subseteq InFlight(toCaller) \cup (IF leg = "server" THEN {m} ELSE {})
      /\ AtMostOneOutcome(toCaller) => AtMostOneOutcome(toCaller')
      /\ NoOutcome(toCaller) => NoOutcome(toCaller') \/ (leg = "server" /\ IsOutcome(m))
  BY <1>2, <1>0, <1>4, <1>5, SentOutcomes DEF Sends
<1>7. toCallee' \in Seq(Message) /\ InFlight(toCallee') \subseteq InFlight(toCallee) \cup {m}
  BY <1>0, <1>2, <1>4, SentOutcomes DEF Sends
<1>8. UNCHANGED <<server, client, serverReq, clientReq, serverKnown, clientKnown>> /\ Steady
  BY <1>0 DEF Sends
<1>9. HasInviteOk(toCaller') =>
        \/ HasInviteOk(toCaller)
        \/ Answered /\ ~Superseded /\ (Stays => server = "OK")
  <2>1. ASSUME leg = "server", InviteOk(m)
        PROVE  Answered /\ ~Superseded /\ (Stays => server = "OK")
    <3>1. Open /\ Real /\ ~Superseded /\ (Stays => server \in {"OK", "CALLING"})
      BY <1>2, <2>1 DEF Superseded, Requested
    <3>2. caller # "talking"
      BY <3>1 DEF Open, Told
    <3> QED
      BY <3>1, <3>2 DEF Real, OnlyAcks
  <2> QED
    BY <1>6, <2>1 DEF HasInviteOk
<1>10. ThreadsTypeOK'
  BY <1>6, <1>7, <1>8 DEF Everywhere, ThreadsTypeOK, TypeOK, Steady
<1>11. OneInvite'
  BY <1>8 DEF Everywhere, OneInvite, InviteIsFirst, InviteLeads, Unbegun, Steady
<1>12. CallerMessages'
  BY <1>2, <1>6, <1>8 DEF Everywhere, CallerMessages, Superseded, Answered, Steady
<1>13. CalleeMessages'
  BY <1>2, <1>7, <1>8 DEF Everywhere, CalleeMessages, Superseded, Answered, Steady
<1>14. Outcome'
  BY <1>5, <1>6, <1>8 DEF Everywhere, Outcome, Steady
<1>15. NoPhantomAnswer' /\ ByeOnlyAfterAnswer'
  BY <1>2, <1>7, <1>8, <1>9 DEF Everywhere, NoPhantomAnswer, ByeOnlyAfterAnswer, Answered, Steady
<1>16. OnlyAcks'
  <2>1. Req("BYE") \in InFlight(toCaller') => Req("BYE") \in InFlight(toCaller)
    BY <1>2, <1>6
  <2> QED
    BY <1>8, <1>9, <2>1 DEF OnlyAcks, Stays, Steady, ServerStaysIdle, Acked, Superseded
<1> QED
  BY <1>10, <1>11, <1>12, <1>13, <1>14, <1>15, <1>16 DEF Everywhere

\* Whether an outcome can still be sent, after a send.
LEMMA SendKeepsOpen ==
  ASSUME Everywhere, NEW leg \in Legs, NEW m \in Message, Sends(leg, m),
         leg = "server" => ~IsOutcome(m)
  PROVE  Open => Open'
<1>1. NoOutcome(toCaller) => NoOutcome(toCaller')
  <2>1. toCaller \in Seq(Message)
    BY DEF Everywhere, ThreadsTypeOK, TypeOK
  <2> QED
    BY <2>1, SentOutcomes DEF Sends
<1> QED
  BY <1>1 DEF Open, Told, Superseded, Sends, Steady

-----------------------------------------------------------------------------
(* What a thread counts on is stable under the steps of everybody else. *)

LEMMA ServerOutlineStays ==
  ASSUME ServerOutline, todo'["server"] = todo["server"],
         Superseded => Superseded', Answered => Answered',
         caller \in {"hungup", "ended"} => caller' \in {"hungup", "ended"},
         Stays' => Stays /\ (Acked /\ fromCaller = <<>> => Acked' /\ fromCaller' = <<>>)
  PROVE  ServerOutline'
<1>1. At("server", <<>>) => At("server", <<>>)'
  BY DEF At
<1>2. Acking => Acking'
  BY DEF Acking, At
<1>3. CallerHangingUp => CallerHangingUp'
  BY DEF CallerHangingUp, At
<1>4. Cancelling => Cancelling'
  BY DEF Cancelling, At
<1>5. CallerResponding => CallerResponding'
  BY DEF CallerResponding, At
<1> QED
  BY <1>1, <1>2, <1>3, <1>4, <1>5 DEF ServerOutline

\* The server leg goes nowhere but from OK to CALLING while the caller stays.
ServerLegMoves ==
  Stays' => /\ Stays /\ UNCHANGED <<client, clientKnown, serverKnown, serverReq>>
            /\ server' = server \/ (server = "OK" /\ server' = "CALLING")

LEMMA ClientOutlineStays ==
  ASSUME ClientOutline, todo'["client"] = todo["client"], bridged' = bridged,
         Superseded => Superseded', Answered => Answered', Open => Open',
         client' = client \/ Superseded',
         clientKnown' => clientKnown, serverKnown' => serverKnown, ServerLegMoves
  PROVE  ClientOutline'
<1>1. Quiet => Quiet'
  BY DEF Quiet, Open, Superseded
<1>2. Real => Real'
  BY DEF Real
<1>3. Stays' => Stays
  BY DEF ServerLegMoves
<1>4. Agree => Agree'
  <2> SUFFICES ASSUME Agree, Stays'
               PROVE  Agree'
    BY DEF Agree
  <2>1. /\ Stays /\ UNCHANGED <<client, clientKnown, serverKnown, serverReq, bridged>>
        /\ server' = server \/ (server = "OK" /\ server' = "CALLING")
    BY DEF ServerLegMoves
  <2> QED
    BY <2>1 DEF Agree, ServerListed, Superseded, Waiting
<1>5. \A states \in SUBSET Waiting : BothAt(states) => BothAt(states)'
  BY DEF BothAt, ServerLegMoves, Waiting, Superseded
<1>6. HalfRinging => HalfRinging'
  BY DEF HalfRinging, ServerLegMoves, Superseded
<1>7. HalfUp => HalfUp'
  BY DEF HalfUp, ServerLegMoves
<1>8. Ending => Ending'
  BY DEF Ending, ServerLegMoves, ServerListed, Waiting
<1>9. \A state \in {"CALLING", "BYE", "BUSY"} : ServerAt(state) => ServerAt(state)'
  BY DEF ServerAt, ServerLegMoves
<1>10. (Stays => client = "BYE") => (Stays => client = "BYE")'
  BY DEF ServerLegMoves
<1>11. At("client", <<>>) /\ (clientKnown => Quiet) /\ Agree
         => (At("client", <<>>) /\ (clientKnown => Quiet) /\ Agree)'
  BY <1>1, <1>4 DEF At
<1>12. Ringing => Ringing'
  BY <1>1, <1>4, <1>5, <1>6 DEF Ringing, At, Waiting
<1>13. Accepting => Accepting'
  BY <1>1, <1>2, <1>3, <1>4, <1>5, <1>7 DEF Accepting, At
<1>14. Confirming => Confirming'
  BY <1>8, <1>9 DEF Confirming, At
<1>15. Rejecting => Rejecting'
  <2>1. ServerAt("BUSY") => ServerAt("BUSY")'
    <3>1. \E state \in {"CALLING", "BYE", "BUSY"} : state = "BUSY"
      OBVIOUS
    <3> QED
      BY <1>9, <3>1
  <2>2. (Open => Open') /\ (~serverKnown => ~serverKnown')
    OBVIOUS
  <2> QED
    BY <2>1, <2>2, ZenonT(30) DEF Rejecting, At
<1>16. HangingUp => HangingUp'
  BY <1>1, <1>4, <1>8, <1>9, <1>10 DEF HangingUp, At
<1> QED
  BY <1>11, <1>12, <1>13, <1>14, <1>15, <1>16 DEF ClientOutline

-----------------------------------------------------------------------------
(* One operation of the client session's thread, and what it leaves to show: *)
(* the outline of what the thread does next.                                 *)

ClientGoesOn(rest) ==
  todo'["client"] = rest /\ bridged' = bridged /\ Everywhere' /\ OnlyAcks' /\ ServerOutline'

LEMMA ThreadBegun ==
  ASSUME THInv, NEW thread \in Legs, Continue(thread)
  PROVE  server # "NONE" /\ ThreadsTypeOK /\ Everywhere /\ OnlyAcks /\ todo[thread] # <<>>
BY DEF THInv, Everywhere, OneInvite, Unbegun, Continue, Legs

LEMMA ClientThreadGoesOn ==
  ASSUME NEW rest, GoesOn("client", rest)
  PROVE  /\ todo'["client"] = rest /\ todo'["server"] = todo["server"]
         /\ todo' \in [Legs -> Seq(Operation)] /\ ServerStaysIdle
BY DEF GoesOn, Other, ServerStaysIdle

LEMMA ServerThreadGoesOn ==
  ASSUME NEW rest, GoesOn("server", rest), todo["server"] # <<>>
  PROVE  /\ todo'["server"] = rest /\ todo'["client"] = todo["client"]
         /\ todo' \in [Legs -> Seq(Operation)] /\ ServerStaysIdle
BY DEF GoesOn, Other, ServerStaysIdle

LEMMA ClientSetsState ==
  ASSUME THInv, Continue("client"), NEW leg \in Legs, NEW state \in MessageState, NEW rest,
         Head(todo["client"]) = Become(leg, state), Tail(todo["client"]) = rest,
         leg = "server" /\ Stays =>
           /\ server # "OK" \/ Open
           /\ state \in {"CALLING", "BYE"} => caller = "talking"
  PROVE  SetsState(leg, state) /\ ClientGoesOn(rest)
<1>0. "client" \in Legs
  BY DEF Legs
<1>1. server # "NONE" /\ ThreadsTypeOK /\ Everywhere /\ OnlyAcks
  BY <1>0, ThreadBegun
<1>2. SetsState(leg, state) /\ GoesOn("client", rest)
  BY <1>0, <1>1, Becomes
<1>3. /\ todo'["client"] = rest /\ todo'["server"] = todo["server"]
      /\ todo' \in [Legs -> Seq(Operation)] /\ ServerStaysIdle
  BY <1>2, ClientThreadGoesOn
<1>4. Everywhere' /\ OnlyAcks'
  BY <1>1, <1>2, <1>3, StateKeeps
<1>5. ASSUME Stays, Acked PROVE Acked'
  BY <1>2, <1>5 DEF Acked, Open, Told, SetsState, Steady, Superseded, Legs
<1>6. ServerOutline'
  BY <1>2, <1>3, <1>5, ServerOutlineStays
     DEF THInv, SetsState, Steady, Superseded, Answered, Stays
<1> QED
  BY <1>2, <1>3, <1>4, <1>6 DEF ClientGoesOn, SetsState, Steady

LEMMA ClientSetsRequest ==
  ASSUME THInv, Continue("client"), NEW leg \in Legs, NEW req \in Method, NEW rest,
         Head(todo["client"]) = Cite(leg, req), Tail(todo["client"]) = rest,
         leg = "server" => req # "INVITE" /\ (Stays => server = "BYE")
  PROVE  SetsRequest(leg, req) /\ ClientGoesOn(rest)
<1>0. "client" \in Legs
  BY DEF Legs
<1>1. server # "NONE" /\ ThreadsTypeOK /\ Everywhere /\ OnlyAcks
  BY <1>0, ThreadBegun
<1>2. SetsRequest(leg, req) /\ GoesOn("client", rest)
  BY <1>0, <1>1, Cites
<1>3. /\ todo'["client"] = rest /\ todo'["server"] = todo["server"]
      /\ todo' \in [Legs -> Seq(Operation)] /\ ServerStaysIdle
  BY <1>2, ClientThreadGoesOn
<1>4. Everywhere' /\ OnlyAcks' /\ (Superseded => Superseded')
  BY <1>1, <1>2, <1>3, RequestKeeps
<1>5. ASSUME Stays, Acked PROVE Acked'
  BY <1>2, <1>5 DEF Acked, SetsRequest, Steady, Superseded, Legs
<1>6. ServerOutline'
  BY <1>2, <1>3, <1>4, <1>5, ServerOutlineStays
     DEF THInv, SetsRequest, Steady, Answered, Stays
<1> QED
  BY <1>2, <1>3, <1>4, <1>6 DEF ClientGoesOn, SetsRequest, Steady

LEMMA ClientForgets ==
  ASSUME THInv, Continue("client"), NEW leg \in Legs, NEW rest,
         Head(todo["client"]) = Forget(leg), Tail(todo["client"]) = rest
  PROVE  Forgets(leg) /\ ClientGoesOn(rest)
<1>0. "client" \in Legs
  BY DEF Legs
<1>1. server # "NONE" /\ ThreadsTypeOK /\ Everywhere /\ OnlyAcks
  BY <1>0, ThreadBegun
<1>2. Forgets(leg) /\ GoesOn("client", rest)
  BY <1>0, <1>1, Removes
<1>3. /\ todo'["client"] = rest /\ todo'["server"] = todo["server"]
      /\ todo' \in [Legs -> Seq(Operation)] /\ ServerStaysIdle
  BY <1>2, ClientThreadGoesOn
<1>4. Everywhere' /\ OnlyAcks'
  BY <1>1, <1>2, <1>3, ForgetKeeps
<1>5. ServerOutline'
  BY <1>2, <1>3, ServerOutlineStays
     DEF THInv, Forgets, Steady, Superseded, Answered, Stays, Acked
<1> QED
  BY <1>2, <1>3, <1>4, <1>5 DEF ClientGoesOn, Forgets, Steady

LEMMA ClientThreadAsks ==
  ASSUME THInv, Continue("client"), NEW leg \in Legs, NEW method \in Method \ {"INVITE"}, NEW rest,
         Head(todo["client"]) = Ask(leg, method), Tail(todo["client"]) = rest,
         leg = "server" /\ method = "BYE" => Superseded,
         leg = "client" /\ method \in {"BYE", "CANCEL"} => Superseded,
         leg = "client" /\ method = "BYE" => Answered
  PROVE  Sends(leg, Req(method)) /\ ClientGoesOn(rest) /\ (Open => Open')
<1>0. "client" \in Legs
  BY DEF Legs
<1>1. server # "NONE" /\ ThreadsTypeOK /\ Everywhere /\ OnlyAcks
  BY <1>0, ThreadBegun
<1>2. Sends(leg, Req(method)) /\ GoesOn("client", rest)
  BY <1>0, <1>1, Asks
<1>3. /\ todo'["client"] = rest /\ todo'["server"] = todo["server"]
      /\ todo' \in [Legs -> Seq(Operation)] /\ ServerStaysIdle
  BY <1>2, ClientThreadGoesOn
<1>4. Everywhere' /\ OnlyAcks'
  BY <1>1, <1>2, <1>3, AskKeeps
<1>5. ServerOutline'
  BY <1>2, <1>3, ServerOutlineStays
     DEF THInv, Sends, Steady, Superseded, Answered, Stays, Acked
<1>6. Req(method) \in Message /\ ~IsOutcome(Req(method))
  BY RequestIsMessage DEF IsOutcome, Req
<1>7. Open => Open'
  BY <1>1, <1>2, <1>6, SendKeepsOpen
<1> QED
  BY <1>2, <1>3, <1>4, <1>5, <1>7 DEF ClientGoesOn, Sends, Steady

LEMMA ClientThreadReplies ==
  ASSUME THInv, Continue("client"), NEW leg \in Legs, NEW code \in SentCodes, NEW rest,
         Head(todo["client"]) = Reply(leg, code), Tail(todo["client"]) = rest,
         leg = "server" /\ code \in {200, 486} => Open,
         leg = "server" /\ code = 200 =>
           Real /\ (Stays => server \in {"OK", "CALLING"} \/ Superseded),
         leg = "server" /\ code = 400 => caller \in {"hungup", "ended"}
  PROVE  /\ Responds(leg, code) /\ ClientGoesOn(rest)
         /\ leg = "client" \/ code = 180 \/ Superseded => (Open => Open')
<1>0. "client" \in Legs
  BY DEF Legs
<1>1. server # "NONE" /\ ThreadsTypeOK /\ Everywhere /\ OnlyAcks
  BY <1>0, ThreadBegun
<1>2. Responds(leg, code) /\ GoesOn("client", rest)
  BY <1>0, <1>1, Replies
<1>3. /\ todo'["client"] = rest /\ todo'["server"] = todo["server"]
      /\ todo' \in [Legs -> Seq(Operation)] /\ ServerStaysIdle
  BY <1>2, ClientThreadGoesOn
<1>4. Everywhere' /\ OnlyAcks'
  BY <1>1, <1>2, <1>3, ReplyKeeps
<1>5. ServerOutline'
  BY <1>2, <1>3, ServerOutlineStays
     DEF THInv, Responds, Sends, Steady, Superseded, Answered, Stays, Acked
<1>6. ASSUME leg = "client" \/ code = 180 \/ Superseded
      PROVE  Open => Open'
  <2>0. PICK m \in {Resp(code, Requested(leg))} : Sends(leg, m)
    BY <1>2 DEF Responds
  <2>1. m \in Message
    <3>1. Requested(leg) \in Method /\ code \in Status
      BY <1>1 DEF ThreadsTypeOK, TypeOK, Requested, Status, SentCodes
    <3> QED
      BY <2>0, <3>1, ResponseIsMessage
  <2>2. leg = "server" => ~IsOutcome(m)
    BY <1>6, <2>0 DEF IsOutcome, Resp, Requested, Superseded
  <2> QED
    BY <1>1, <2>0, <2>1, <2>2, SendKeepsOpen
<1> QED
  BY <1>2, <1>3, <1>4, <1>5, <1>6 DEF ClientGoesOn, Responds, Sends, Steady

\* The three responses, each with what it takes to send it.
LEMMA ClientThreadRings ==
  ASSUME THInv, Continue("client"), NEW rest, NEW code \in SentCodes, code = 180,
         Head(todo["client"]) = Reply("server", code), Tail(todo["client"]) = rest
  PROVE  Responds("server", code) /\ ClientGoesOn(rest) /\ (Open => Open')
<1>1. "server" \in Legs /\ code \notin {200, 486} /\ code # 200 /\ code # 400
  BY DEF Legs
<1> QED
  BY <1>1, ClientThreadReplies

LEMMA ClientThreadAnswers ==
  ASSUME THInv, Continue("client"), NEW rest, NEW code \in SentCodes, code = 200,
         Head(todo["client"]) = Reply("server", code), Tail(todo["client"]) = rest,
         Open, Real, Stays => server \in {"OK", "CALLING"}
  PROVE  Responds("server", code) /\ ClientGoesOn(rest) /\ (Superseded => Open')
<1>1. "server" \in Legs /\ code # 400
  BY DEF Legs
<1> QED
  BY <1>1, ClientThreadReplies

LEMMA ClientThreadDeclines ==
  ASSUME THInv, Continue("client"), NEW rest, NEW code \in SentCodes, code = 486,
         Head(todo["client"]) = Reply("server", code), Tail(todo["client"]) = rest, Open
  PROVE  Responds("server", code) /\ ClientGoesOn(rest)
<1>1. "server" \in Legs /\ code # 200 /\ code # 400
  BY DEF Legs
<1> QED
  BY <1>1, ClientThreadReplies

LEMMA ClientThreadRepliesToCallee ==
  ASSUME THInv, Continue("client"), NEW code \in SentCodes, NEW rest,
         Head(todo["client"]) = Reply("client", code), Tail(todo["client"]) = rest
  PROVE  Responds("client", code) /\ ClientGoesOn(rest) /\ (Open => Open')
<1>1. "client" \in Legs /\ "client" # "server"
  BY DEF Legs
<1> QED
  BY <1>1, ClientThreadReplies, Zenon

LEMMA ClientCalls ==
  ASSUME THInv, Continue("client"), NEW leg \in Legs, NEW name \in Methods, NEW rest,
         Head(todo["client"]) = Run(leg, name), Tail(todo["client"]) = rest
  PROVE  Untouched /\ ClientGoesOn(Body(States, leg, name) \o rest)
<1>0. "client" \in Legs
  BY DEF Legs
<1>1. server # "NONE" /\ ThreadsTypeOK /\ Everywhere /\ OnlyAcks
  BY <1>0, ThreadBegun
<1> DEFINE next == Body(States, leg, name) \o rest
<1>2. Untouched /\ GoesOn("client", next)
  BY <1>0, <1>1, Calls
<1> HIDE DEF next
<1>3. /\ todo'["client"] = next /\ todo'["server"] = todo["server"]
      /\ todo' \in [Legs -> Seq(Operation)] /\ ServerStaysIdle
  BY <1>2, ClientThreadGoesOn
<1>4. Everywhere' /\ OnlyAcks'
  BY <1>1, <1>2, <1>3, CallKeeps
<1>5. ServerOutline'
  BY <1>2, <1>3, ServerOutlineStays
     DEF THInv, Untouched, Steady, Superseded, Answered, Stays, Acked
<1> QED
  BY <1>2, <1>3, <1>4, <1>5 DEF ClientGoesOn, Untouched, Steady, next

-----------------------------------------------------------------------------
(* Plans, and the bodies of the methods as plans. *)

LEMMA Operations ==
  /\ \A leg \in Legs, state \in MessageState : Become(leg, state) \in Operation
  /\ \A leg \in Legs, method \in Method : Cite(leg, method) \in Operation /\ Ask(leg, method) \in Operation
  /\ \A leg \in Legs, code \in {180, 200, 400, 486} : Reply(leg, code) \in Operation
  /\ \A leg \in Legs : Forget(leg) \in Operation
  /\ \A leg \in Legs, name \in Methods : Run(leg, name) \in Operation
BY DEF Operation, Become, Cite, Ask, Reply, Forget, Run

LEMMA PlanOfOne ==
  ASSUME NEW op
  PROVE  Head(<<op>>) = op /\ Tail(<<op>>) = <<>> /\ <<op>> # <<>>
OBVIOUS

LEMMA PlanOfMore ==
  ASSUME NEW op \in Operation, NEW rest \in Seq(Operation)
  PROVE  Head(<<op>> \o rest) = op /\ Tail(<<op>> \o rest) = rest
<1>1. /\ <<op>> \o rest \in Seq(Operation) /\ Len(<<op>> \o rest) = 1 + Len(rest)
      /\ (<<op>> \o rest)[1] = op /\ Len(rest) \in Nat
      /\ \A i \in 1..Len(rest) : (<<op>> \o rest)[i + 1] = rest[i]
  OBVIOUS
<1> DEFINE plan == <<op>> \o rest
<1> HIDE DEF plan
<1>2. /\ plan \in Seq(Operation) /\ Len(plan) = 1 + Len(rest) /\ plan[1] = op
      /\ Len(rest) \in Nat /\ \A i \in 1..Len(rest) : plan[i + 1] = rest[i]
  BY <1>1 DEF plan
<1>3. plan # <<>> /\ Head(plan) = op /\ Tail(plan) \in Seq(Operation) /\ Len(Tail(plan)) = Len(rest)
  BY <1>2
<1>4. \A i \in 1..Len(rest) : Tail(plan)[i] = rest[i]
  BY <1>2
<1>5. Tail(plan) = rest
  BY <1>3, <1>4, SeqEqual
<1> QED
  BY <1>3, <1>5 DEF plan

LEMMA EmptyParts ==
  ASSUME NEW plan \in Seq(Operation)
  PROVE  plan \o <<>> = plan /\ <<>> \o plan = plan
BY ConcatEmptySeq

LEMMA PlanOfParts ==
  ASSUME NEW first \in Seq(Operation), first # <<>>, NEW rest \in Seq(Operation)
  PROVE  Head(first \o rest) = Head(first) /\ Tail(first \o rest) = Tail(first) \o rest
<1> DEFINE plan == first \o rest
<1>1. /\ plan \in Seq(Operation) /\ plan # <<>> /\ Len(plan) = Len(first) + Len(rest)
      /\ Head(plan) = Head(first) /\ Len(first) \in Nat /\ Len(rest) \in Nat /\ Len(first) > 0
      /\ \A i \in 1..Len(first) : plan[i] = first[i]
      /\ \A i \in 1..Len(rest) : plan[i + Len(first)] = rest[i]
  OBVIOUS
<1> HIDE DEF plan
<1>2. /\ Tail(plan) \in Seq(Operation) /\ Len(Tail(plan)) = Len(first) + Len(rest) - 1
      /\ \A i \in 1..Len(Tail(plan)) : Tail(plan)[i] = plan[i + 1]
  BY <1>1
<1>3. /\ Tail(first) \in Seq(Operation) /\ Len(Tail(first)) = Len(first) - 1
      /\ \A i \in 1..(Len(first) - 1) : Tail(first)[i] = first[i + 1]
  OBVIOUS
<1>4. /\ Tail(first) \o rest \in Seq(Operation)
      /\ Len(Tail(first) \o rest) = Len(first) - 1 + Len(rest)
      /\ \A i \in 1..(Len(first) - 1) : (Tail(first) \o rest)[i] = Tail(first)[i]
      /\ \A i \in 1..Len(rest) : (Tail(first) \o rest)[i + Len(first) - 1] = rest[i]
  BY <1>1, <1>3
<1>5. \A i \in 1..Len(Tail(plan)) : Tail(plan)[i] = (Tail(first) \o rest)[i]
  <2> TAKE i \in 1..Len(Tail(plan))
  <2>1. CASE i <= Len(first) - 1
    BY <1>1, <1>2, <1>3, <1>4, <2>1
  <2>2. CASE i > Len(first) - 1
    <3>1. i - (Len(first) - 1) \in 1..Len(rest)
      BY <1>1, <1>2, <2>2
    <3>2. PICK k \in 1..Len(rest) : k = i - (Len(first) - 1)
      BY <3>1
    <3>3. i = k + Len(first) - 1 /\ i + 1 = k + Len(first)
      BY <1>1, <1>2, <3>2
    <3>4. Tail(plan)[i] = rest[k]
      BY <1>1, <1>2, <3>3
    <3>5. (Tail(first) \o rest)[i] = rest[k]
      BY <1>4, <3>3
    <3> QED
      BY <3>4, <3>5
  <2> QED
    BY <1>1, <1>2, <2>1, <2>2
<1>6. Tail(plan) = Tail(first) \o rest
  BY <1>1, <1>2, <1>4, <1>5, SeqEqual
<1> QED
  BY <1>1, <1>6 DEF plan

\* The bodies, given what the method reads.
LEMMA BodyOnRinging ==
  /\ server = "TRYING" =>
       Body(States, "server", "onRinging") = <<Become("server", "RINGING"), Reply("server", 180)>>
  /\ client = "TRYING" /\ bridged =>
       Body(States, "client", "onRinging")
         = <<Run("server", "onRinging")>> \o <<Become("client", "RINGING")>>
  /\ server # "TRYING" => Body(States, "server", "onRinging") = <<>>
  /\ client # "TRYING" => Body(States, "client", "onRinging") = <<>>
<1>1. /\ Body(States, "server", "onRinging") = OnRinging(States, "server")
      /\ Body(States, "client", "onRinging") = OnRinging(States, "client")
      /\ States["server"] = server /\ States["client"] = client
  BY DEF Body, States
<1>2. bridged => OnOther("client", "onRinging") = <<Run("server", "onRinging")>>
  BY DEF OnOther, Other
<1> QED
  BY <1>1, <1>2 DEF OnRinging

LEMMA BodyOnOk ==
  ASSUME NEW leg \in Legs
  PROVE  LET body == Body(States, leg, "onOk")
             state == States[leg]
         IN  /\ state \in {"BYE", "CANCELING"} =>
                  \/ body = <<Ask(leg, "ACK")>> \o FinishImmediately(leg)
                  \/ /\ leg = "client" /\ bridged
                     /\ body = <<Run("server", "onBye")>> \o <<Ask("client", "ACK")>> \o FinishClient
             /\ state \notin {"BYE", "CANCELING"} => body = <<Run(leg, "onOk(waiting)")>>
<1> DEFINE body == Body(States, leg, "onOk")
           ack == <<Ask(leg, "ACK")>>
<1>1. body = OnOk(States, leg)
  BY DEF Body
<1>2. OnOther("client", "onBye") = IF bridged THEN <<Run("server", "onBye")>> ELSE <<>>
  BY DEF OnOther, Other
<1>3. <<>> \o ack = ack
  <2>1. "ACK" \in Method
    BY DEF Method
  <2> QED
    BY <2>1, Operations, EmptyParts
<1>4. FinishImmediately("client") = FinishClient
  BY DEF FinishImmediately, FinishClient
<1>5. CASE States[leg] \notin {"BYE", "CANCELING"}
  BY <1>1, <1>5 DEF OnOk
<1>6. CASE States[leg] \in {"BYE", "CANCELING"}
  <2>1. body = (IF leg = "client" /\ States[leg] = "BYE" THEN OnOther(leg, "onBye") ELSE <<>>)
                 \o ack \o FinishImmediately(leg)
    BY <1>1, <1>6 DEF OnOk
  <2> HIDE DEF ack, body
  <2>2. CASE leg = "client" /\ States[leg] = "BYE" /\ bridged
    <3>1. body = <<Run("server", "onBye")>> \o ack \o FinishClient
      BY <1>2, <1>4, <2>1, <2>2
    <3> QED
      BY <1>6, <2>2, <3>1 DEF ack, body
  <2>3. CASE ~(leg = "client" /\ States[leg] = "BYE" /\ bridged)
    <3>1. body = <<>> \o ack \o FinishImmediately(leg)
      BY <1>2, <2>1, <2>3
    <3> QED
      BY <1>3, <1>6, <3>1 DEF ack, body
  <2> QED
    BY <2>2, <2>3
<1> QED
  BY <1>5, <1>6

LEMMA BodyOnOkWaiting ==
  /\ server \in Waiting =>
       Body(States, "server", "onOk(waiting)") = <<Become("server", "OK"), Reply("server", 200)>>
  /\ server \notin Waiting =>
       Body(States, "server", "onOk(waiting)") = <<Become("server", "FAIL")>>
  /\ client \in Waiting /\ bridged =>
       Body(States, "client", "onOk(waiting)") = <<Run("server", "onOk")>> \o Accept
  /\ client \notin Waiting =>
       Body(States, "client", "onOk(waiting)") = <<Become("client", "FAIL")>> \o FinishClient
<1>1. /\ Body(States, "server", "onOk(waiting)") = OnOkWaiting(States, "server")
      /\ Body(States, "client", "onOk(waiting)") = OnOkWaiting(States, "client")
      /\ States["server"] = server /\ States["client"] = client
  BY DEF Body, States
<1>2. bridged => OnOther("client", "onOk") = <<Run("server", "onOk")>>
  BY DEF OnOther, Other
<1> QED
  BY <1>1, <1>2 DEF OnOkWaiting, FinishImmediately, FinishClient, Accept

LEMMA BodyOnReject ==
  /\ Body(States, "server", "onReject")
       = <<Become("server", "BUSY"), Reply("server", 486)>> \o FinishServer
  /\ bridged => Body(States, "client", "onReject")
       = <<Become("client", "BUSY")>> \o <<Run("server", "onReject")>> \o FinishClient
<1>1. /\ Body(States, "server", "onReject") = OnReject("server")
      /\ Body(States, "client", "onReject") = OnReject("client")
  BY DEF Body
<1>2. bridged => OnOther("client", "onReject") = <<Run("server", "onReject")>>
  BY DEF OnOther, Other
<1> QED
  BY <1>1, <1>2 DEF OnReject, FinishImmediately, FinishClient, FinishServer

LEMMA BodyOnBye ==
  ASSUME NEW leg \in Legs
  PROVE  Body(States, leg, "onBye") =
           IF States[leg] = "CALLING"
           THEN <<Become(leg, "BYE"), Cite(leg, "OWN"), Ask(leg, "BYE")>>
           ELSE <<>>
BY DEF Body, OnBye

LEMMA BodyOnByeRequest ==
  ASSUME NEW leg \in Legs
  PROVE  LET accepted == <<Cite(leg, "BYE"), Become(leg, "BYE"), Reply(leg, 200)>>
         IN  \/ /\ States[leg] = "CALLING"
                /\ \E passedOn \in {<<>>, <<Run(Other(leg), "onBye")>>} :
                     /\ Body(States, leg, "onBye(request)") = accepted \o passedOn
                     /\ bridged => passedOn = <<Run(Other(leg), "onBye")>>
             \/ /\ States[leg] # "CALLING"
                /\ Body(States, leg, "onBye(request)") = <<Reply(leg, 400)>>
<1>1. Body(States, leg, "onBye(request)") = OnByeRequest(States, leg)
  BY DEF Body
<1> QED
  BY <1>1 DEF OnByeRequest, OnOther

LEMMA BodyOnCancel ==
  /\ Body(States, "client", "onCancel") = <<Become("client", "CANCELING"), Ask("client", "CANCEL")>>
  /\ \E passedOn \in {<<>>, <<Run("client", "onCancel")>>} :
       Body(States, "server", "onCancel(request)")
         = <<Cite("server", "CANCEL"), Become("server", "CANCELING"), Reply("server", 200)>> \o passedOn
BY DEF Body, OnCancel, OnCancelRequest, OnOther, Other

LEMMA BodyOnAck ==
  /\ server = "OK" => Body(States, "server", "onACK") = <<Become("server", "CALLING")>>
  /\ server # "OK" => Body(States, "server", "onACK") \in {FinishServer, <<>>}
BY DEF Body, States, OnAck, FinishImmediately, FinishServer

-----------------------------------------------------------------------------
(* The steps of the client session's thread, one lemma per method. *)

LEMMA Names ==
  /\ "server" \in Legs /\ "client" \in Legs
  /\ "TRYING" \in MessageState /\ "RINGING" \in MessageState /\ "BUSY" \in MessageState
  /\ "OK" \in MessageState /\ "CALLING" \in MessageState /\ "CANCELING" \in MessageState
  /\ "BYE" \in MessageState /\ "FINISH" \in MessageState /\ "FAIL" \in MessageState
  /\ "ACK" \in Method \ {"INVITE"} /\ "CANCEL" \in Method \ {"INVITE"}
  /\ "BYE" \in Method \ {"INVITE"} /\ "OWN" \in Method \ {"INVITE"}
  /\ {180, 200, 400, 486} \subseteq SentCodes
  /\ "onACK" \in Methods /\ "onBye(request)" \in Methods /\ "onCancel(request)" \in Methods
  /\ "onRinging" \in Methods /\ "onReject" \in Methods /\ "onOk" \in Methods
  /\ "onOk(waiting)" \in Methods /\ "onBye" \in Methods /\ "onCancel" \in Methods
BY DEF Legs, MessageState, Method, SentCodes, Methods

LEMMA ClientCallsLast ==
  ASSUME THInv, Continue("client"), NEW leg \in Legs, NEW name \in Methods,
         todo["client"] = <<Run(leg, name)>>
  PROVE  Untouched /\ ClientGoesOn(Body(States, leg, name))
<1>1. Head(todo["client"]) = Run(leg, name) /\ Tail(todo["client"]) = <<>>
  BY PlanOfOne
<1>2. Body(States, leg, name) \o <<>> = Body(States, leg, name)
  BY BodyType, EmptyParts
<1> QED
  BY <1>1, <1>2, ClientCalls

\* What the thread reads before a call is what it counts on after it.
LEMMA UntouchedKeeps ==
  ASSUME Untouched
  PROVE  /\ UNCHANGED <<server, client, serverKnown, clientKnown, bridged, caller>>
         /\ Stays' = Stays /\ Answered' = Answered /\ Superseded' = Superseded
         /\ Open' = Open /\ Real' = Real /\ Quiet' = Quiet /\ Agree' = Agree /\ Ending' = Ending
         /\ \A states : BothAt(states)' = BothAt(states)
         /\ HalfRinging' = HalfRinging /\ HalfUp' = HalfUp
BY DEF Untouched, Steady, Stays, Answered, Superseded, Open, Told, Real, Quiet, Agree, ServerListed,
       Ending, BothAt, HalfRinging, HalfUp

LEMMA SetsStateKeeps ==
  ASSUME NEW leg \in Legs, NEW state, SetsState(leg, state)
  PROVE  /\ Stays' = Stays /\ Answered' = Answered /\ Superseded' = Superseded
         /\ Open' = Open /\ Real' = Real
BY DEF SetsState, Steady, Stays, Answered, Superseded, Open, Told, Real

LEMMA ServerStateSet ==
  ASSUME NEW state, SetsState("server", state)
  PROVE  /\ server' = state /\ UNCHANGED <<client, serverKnown, clientKnown>>
         /\ Stays' = Stays /\ Answered' = Answered /\ Superseded' = Superseded
         /\ Open' = Open /\ Real' = Real
BY Names, SetsStateKeeps DEF SetsState

LEMMA ClientStateSet ==
  ASSUME NEW state, SetsState("client", state)
  PROVE  /\ client' = state /\ UNCHANGED <<server, serverKnown, clientKnown>>
         /\ Stays' = Stays /\ Answered' = Answered /\ Superseded' = Superseded
         /\ Open' = Open /\ Real' = Real
BY Names, SetsStateKeeps DEF SetsState

LEMMA SetsRequestKeeps ==
  ASSUME NEW leg \in Legs, NEW req, SetsRequest(leg, req), leg = "server" => req # "INVITE"
  PROVE  /\ Stays' = Stays /\ Answered' = Answered
         /\ Superseded => Superseded'
         /\ Open => Open'
         /\ Quiet => Quiet'
BY DEF SetsRequest, Steady, Stays, Answered, Superseded, Open, Told, Quiet

LEMMA ForgetsKeeps ==
  ASSUME NEW leg \in Legs, Forgets(leg)
  PROVE  /\ Stays' = Stays /\ Answered' = Answered /\ Superseded' = Superseded
         /\ Open' = Open /\ Quiet' = Quiet
BY DEF Forgets, Steady, Stays, Answered, Superseded, Open, Told, Quiet

LEMMA SendsKeeps ==
  ASSUME NEW leg \in Legs, NEW m, Sends(leg, m)
  PROVE  /\ UNCHANGED <<server, client, serverKnown, clientKnown, bridged>>
         /\ Stays' = Stays /\ Answered' = Answered /\ Superseded' = Superseded
         /\ Real' = Real /\ Agree' = Agree /\ Ending' = Ending
         /\ HalfRinging' = HalfRinging /\ HalfUp' = HalfUp
         /\ (Open => Open') => (Quiet => Quiet')
BY DEF Sends, Steady, Stays, Answered, Superseded, Real, Agree, ServerListed, Ending, HalfRinging,
       HalfUp, Quiet

LEMMA RingingGoesOn ==
  ASSUME THInv, Continue("client"), bridged, Ringing
  PROVE  THInv'
<1>1. CASE At("client", <<Run("client", "onRinging")>>) /\ Quiet /\ Agree
  <2>1. Untouched /\ ClientGoesOn(Body(States, "client", "onRinging"))
    BY <1>1, Names, ClientCallsLast DEF At
  <2>2. CASE client = "TRYING"
    <3>1. At("client", <<Run("server", "onRinging")>> \o <<Become("client", "RINGING")>>)'
      BY <2>1, <2>2, BodyOnRinging DEF ClientGoesOn, At
    <3>2. Open /\ BothAt({"TRYING"})
      BY <1>1, <2>2 DEF Quiet, Agree, BothAt, Waiting, ServerListed
    <3>3. (Open /\ BothAt({"TRYING"}))'
      BY <2>1, <3>2 DEF Untouched, Steady, BothAt, Open, Told, Stays, Superseded
    <3> QED
      BY <2>1, <3>1, <3>3 DEF ClientGoesOn, THInv, ClientOutline, Ringing
  <2>3. CASE client # "TRYING"
    <3>1. At("client", <<>>)'
      BY <2>1, <2>3, BodyOnRinging DEF ClientGoesOn, At
    <3> QED
      BY <1>1, <2>1, <3>1, UntouchedKeeps DEF ClientGoesOn, THInv, ClientOutline
  <2> QED
    BY <2>2, <2>3
<1>2. CASE /\ At("client", <<Run("server", "onRinging")>> \o <<Become("client", "RINGING")>>)
           /\ Open /\ BothAt({"TRYING"})
  <2> DEFINE rest == <<Become("client", "RINGING")>>
  <2>1. rest \in Seq(Operation) /\ Run("server", "onRinging") \in Operation
    BY Names, Operations
  <2>2. Head(todo["client"]) = Run("server", "onRinging") /\ Tail(todo["client"]) = rest
    BY <1>2, <2>1, PlanOfMore DEF At
  <2>3. Untouched /\ ClientGoesOn(Body(States, "server", "onRinging") \o rest)
    BY <2>2, Names, ClientCalls
  <2>4. CASE server = "TRYING"
    <3>1. At("client", <<Become("server", "RINGING"), Reply("server", 180)>> \o rest)'
      BY <2>3, <2>4, BodyOnRinging DEF ClientGoesOn, At
    <3> QED
      BY <1>2, <2>3, <3>1, UntouchedKeeps DEF ClientGoesOn, THInv, ClientOutline, Ringing
  <2>5. CASE server # "TRYING"
    <3>1. At("client", rest)'
      BY <2>1, <2>3, <2>5, BodyOnRinging, EmptyParts DEF ClientGoesOn, At
    <3>2. HalfRinging
      BY <1>2, <2>5 DEF BothAt, HalfRinging
    <3> QED
      BY <1>2, <2>3, <3>1, <3>2, UntouchedKeeps DEF ClientGoesOn, THInv, ClientOutline, Ringing
  <2> QED
    BY <2>4, <2>5
<1>3. CASE /\ At("client", <<Become("server", "RINGING"), Reply("server", 180)>>
                             \o <<Become("client", "RINGING")>>)
           /\ Open /\ BothAt({"TRYING"})
  <2> DEFINE rest == <<Reply("server", 180)>> \o <<Become("client", "RINGING")>>
  <2>1. Head(todo["client"]) = Become("server", "RINGING") /\ Tail(todo["client"]) = rest
    BY <1>3 DEF At
  <2>2. SetsState("server", "RINGING") /\ ClientGoesOn(rest)
    BY <1>3, <2>1, Names, ClientSetsState
  <2>3. Open' /\ HalfRinging'
    BY <1>3, <2>2, ServerStateSet DEF BothAt, HalfRinging
  <2> QED
    BY <2>2, <2>3 DEF ClientGoesOn, THInv, ClientOutline, Ringing, At
<1>4. CASE /\ At("client", <<Reply("server", 180)>> \o <<Become("client", "RINGING")>>)
           /\ Open /\ HalfRinging
  <2> DEFINE rest == <<Become("client", "RINGING")>>
  <2>1. PICK code \in SentCodes : code = 180
    BY Names
  <2>2. todo["client"] = <<Reply("server", code)>> \o rest
    BY <1>4, <2>1 DEF At
  <2>3. rest \in Seq(Operation) /\ Reply("server", code) \in Operation
    BY Names, Operations DEF SentCodes
  <2>4. Head(todo["client"]) = Reply("server", code) /\ Tail(todo["client"]) = rest
    BY <2>2, <2>3, PlanOfMore
  <2>5. Responds("server", code) /\ ClientGoesOn(rest) /\ Open'
    BY <1>4, <2>1, <2>4, ClientThreadRings
  <2>6. HalfRinging'
    BY <1>4, <2>5, Names, SendsKeeps DEF Responds
  <2> QED
    BY <2>5, <2>6 DEF ClientGoesOn, THInv, ClientOutline, Ringing, At
<1>5. CASE At("client", <<Become("client", "RINGING")>>) /\ Open /\ HalfRinging
  <2>1. Head(todo["client"]) = Become("client", "RINGING") /\ Tail(todo["client"]) = <<>>
    BY <1>5, PlanOfOne DEF At
  <2>2. SetsState("client", "RINGING") /\ ClientGoesOn(<<>>)
    BY <2>1, Names, ClientSetsState
  <2>3. Quiet'
    BY <1>5, <2>2, ClientStateSet DEF Quiet
  <2>4. Agree'
    BY <1>5, <2>2, ClientStateSet DEF Agree, ServerListed, HalfRinging, Waiting
  <2> QED
    BY <2>2, <2>3, <2>4 DEF ClientGoesOn, THInv, ClientOutline, At
<1> QED
  BY <1>1, <1>2, <1>3, <1>4, <1>5 DEF Ringing

LEMMA Parts ==
  /\ Accept \in Seq(Operation) /\ FinishClient \in Seq(Operation) /\ FinishServer \in Seq(Operation)
  /\ Head(Accept) = Become("client", "CALLING") /\ Tail(Accept) = <<Ask("client", "ACK")>>
  /\ Head(FinishClient) = Forget("client") /\ Tail(FinishClient) = <<Become("client", "FINISH")>>
  /\ Head(FinishServer) = Forget("server") /\ Tail(FinishServer) = <<Become("server", "FINISH")>>
  /\ FinishServer # <<>>
<1>1. /\ Become("client", "CALLING") \in Operation /\ Ask("client", "ACK") \in Operation
      /\ Forget("client") \in Operation /\ Become("client", "FINISH") \in Operation
      /\ Forget("server") \in Operation /\ Become("server", "FINISH") \in Operation
  BY Names, Operations
<1> QED
  BY <1>1 DEF Accept, FinishClient, FinishServer

LEMMA AcceptingGoesOn ==
  ASSUME THInv, Continue("client"), bridged, Accepting
  PROVE  THInv'
<1>1. CASE At("client", <<Run("client", "onOk")>>) /\ Real /\ Quiet /\ Agree
  <2>1. Untouched /\ ClientGoesOn(Body(States, "client", "onOk")) /\ States["client"] = client
    BY <1>1, Names, ClientCallsLast DEF At, States
  <2>2. CASE client \in {"BYE", "CANCELING"}
    <3>1. Ending
      BY <1>1, <2>2 DEF Ending, Agree, Waiting
    <3>2. \/ At("client", <<Ask("client", "ACK")>> \o FinishClient)'
          \/ At("client", <<Run("server", "onBye")>> \o <<Ask("client", "ACK")>> \o FinishClient)'
      BY <2>1, <2>2, Names, BodyOnOk DEF ClientGoesOn, At, FinishImmediately, FinishClient
    <3> QED
      BY <2>1, <3>1, <3>2, UntouchedKeeps DEF ClientGoesOn, THInv, ClientOutline, Confirming
  <2>3. CASE client \notin {"BYE", "CANCELING"}
    <3>1. At("client", <<Run("client", "onOk(waiting)")>>)'
      BY <2>1, <2>3, Names, BodyOnOk DEF ClientGoesOn, At
    <3> QED
      BY <1>1, <2>1, <3>1, UntouchedKeeps DEF ClientGoesOn, THInv, ClientOutline, Accepting
  <2> QED
    BY <2>2, <2>3
<1>2. CASE At("client", <<Run("client", "onOk(waiting)")>>) /\ Real /\ Quiet /\ Agree
  <2>1. Untouched /\ ClientGoesOn(Body(States, "client", "onOk(waiting)"))
    BY <1>2, Names, ClientCallsLast DEF At
  <2>2. CASE client \in Waiting
    <3>1. At("client", <<Run("server", "onOk")>> \o Accept)'
      BY <2>1, <2>2, BodyOnOkWaiting DEF ClientGoesOn, At
    <3>2. Real /\ Open /\ BothAt(Waiting)
      BY <1>2, <2>2 DEF Quiet, Agree, BothAt, ServerListed, Waiting
    <3> QED
      BY <2>1, <3>1, <3>2, UntouchedKeeps DEF ClientGoesOn, THInv, ClientOutline, Accepting
  <2>3. CASE client \notin Waiting
    <3>1. At("client", <<Become("client", "FAIL")>> \o FinishClient)'
      BY <2>1, <2>3, BodyOnOkWaiting DEF ClientGoesOn, At
    <3>2. Ending
      BY <1>2, <2>3 DEF Ending, Agree
    <3> QED
      BY <2>1, <3>1, <3>2, UntouchedKeeps DEF ClientGoesOn, THInv, ClientOutline, Confirming
  <2> QED
    BY <2>2, <2>3
<1>3. CASE At("client", <<Run("server", "onOk")>> \o Accept) /\ Real /\ Open /\ BothAt(Waiting)
  <2>1. Head(todo["client"]) = Run("server", "onOk") /\ Tail(todo["client"]) = Accept
    BY <1>3, Names, Operations, Parts, PlanOfMore DEF At
  <2>2. Untouched /\ ClientGoesOn(Body(States, "server", "onOk") \o Accept)
        /\ States["server"] = server
    BY <2>1, Names, ClientCalls DEF States
  <2>3. CASE server \in {"BYE", "CANCELING"}
    <3>1. At("client", <<Ask("server", "ACK")>> \o FinishServer \o Accept)'
      BY <2>2, <2>3, Names, BodyOnOk DEF ClientGoesOn, At, FinishImmediately, FinishServer
    <3>2. ~Stays
      BY <1>3, <2>3 DEF BothAt, Waiting
    <3> QED
      BY <1>3, <2>2, <3>1, <3>2, UntouchedKeeps DEF ClientGoesOn, THInv, ClientOutline, Accepting
  <2>4. CASE server \notin {"BYE", "CANCELING"}
    <3>1. At("client", <<Run("server", "onOk(waiting)")>> \o Accept)'
      BY <2>2, <2>4, Names, BodyOnOk DEF ClientGoesOn, At
    <3> QED
      BY <1>3, <2>2, <3>1, UntouchedKeeps DEF ClientGoesOn, THInv, ClientOutline, Accepting
  <2> QED
    BY <2>3, <2>4
<1>4. CASE At("client", <<Run("server", "onOk(waiting)")>> \o Accept)
           /\ Real /\ Open /\ BothAt(Waiting)
  <2>1. Head(todo["client"]) = Run("server", "onOk(waiting)") /\ Tail(todo["client"]) = Accept
    BY <1>4, Names, Operations, Parts, PlanOfMore DEF At
  <2>2. Untouched /\ ClientGoesOn(Body(States, "server", "onOk(waiting)") \o Accept)
    BY <2>1, Names, ClientCalls
  <2>3. CASE server \in Waiting
    <3>1. At("client", <<Become("server", "OK"), Reply("server", 200)>> \o Accept)'
      BY <2>2, <2>3, BodyOnOkWaiting DEF ClientGoesOn, At
    <3> QED
      BY <1>4, <2>2, <3>1, UntouchedKeeps DEF ClientGoesOn, THInv, ClientOutline, Accepting
  <2>4. CASE server \notin Waiting
    <3>1. At("client", <<Become("server", "FAIL")>> \o Accept)'
      BY <2>2, <2>4, BodyOnOkWaiting DEF ClientGoesOn, At
    <3>2. ~Stays
      BY <1>4, <2>4 DEF BothAt
    <3> QED
      BY <1>4, <2>2, <3>1, <3>2, UntouchedKeeps DEF ClientGoesOn, THInv, ClientOutline, Accepting
  <2> QED
    BY <2>3, <2>4
<1>5. CASE At("client", <<Become("server", "OK"), Reply("server", 200)>> \o Accept)
           /\ Real /\ Open /\ BothAt(Waiting)
  <2>1. Head(todo["client"]) = Become("server", "OK")
        /\ Tail(todo["client"]) = <<Reply("server", 200)>> \o Accept
    BY <1>5 DEF At, Accept
  <2>2. SetsState("server", "OK") /\ ClientGoesOn(<<Reply("server", 200)>> \o Accept)
    BY <1>5, <2>1, Names, ClientSetsState
  <2>3. Real' /\ Open' /\ HalfUp'
    <3>1. Real' /\ Open'
      BY <1>5, <2>2, ServerStateSet
    <3>2. HalfUp'
      BY <1>5, <2>2, ServerStateSet DEF BothAt, HalfUp, Real
    <3> QED
      BY <3>1, <3>2
  <2>4. Accepting'
    BY <2>2, <2>3 DEF ClientGoesOn, Accepting, At
  <2> QED
    BY <2>2, <2>4 DEF ClientGoesOn, THInv, ClientOutline
<1>6. CASE At("client", <<Reply("server", 200)>> \o Accept) /\ Real /\ Open /\ HalfUp
  <2>1. PICK code \in SentCodes : code = 200
    BY Names
  <2>2. todo["client"] = <<Reply("server", code)>> \o Accept
    BY <1>6, <2>1 DEF At
  <2>3. Reply("server", code) \in Operation
    BY Names, Operations DEF SentCodes
  <2>4. Head(todo["client"]) = Reply("server", code) /\ Tail(todo["client"]) = Accept
    BY <2>2, <2>3, Parts, PlanOfMore
  <2>5. Stays => server \in {"OK", "CALLING"}
    BY <1>6 DEF HalfUp
  <2>6. Responds("server", code) /\ ClientGoesOn(Accept) /\ (Superseded => Open')
    BY <1>6, <2>1, <2>4, <2>5, ClientThreadAnswers
  <2>7. HalfUp' /\ (Open' \/ Answered')
    BY <1>6, <2>6, Names, SendsKeeps DEF Responds, Real
  <2> QED
    BY <2>6, <2>7 DEF ClientGoesOn, THInv, ClientOutline, Accepting, At
<1>7. CASE At("client", Accept) /\ (Open \/ Answered) /\ HalfUp
  <2>1. Head(todo["client"]) = Become("client", "CALLING")
        /\ Tail(todo["client"]) = <<Ask("client", "ACK")>>
    BY <1>7, Parts DEF At
  <2>2. SetsState("client", "CALLING") /\ ClientGoesOn(<<Ask("client", "ACK")>>)
    BY <2>1, Names, ClientSetsState
  <2>3. Quiet'
    BY <1>7, <2>2, ClientStateSet DEF Quiet, Waiting
  <2>4. Agree'
    <3>1. /\ Stays' = Stays /\ Answered' = Answered
          /\ client' = "CALLING" /\ UNCHANGED <<server, serverKnown, clientKnown>>
      BY <2>2, ClientStateSet
    <3>2. Stays' => server' \in {"OK", "CALLING"} /\ serverKnown' /\ clientKnown' /\ Answered'
      BY <1>7, <3>1 DEF HalfUp
    <3> QED
      BY <3>1, <3>2 DEF Agree, ServerListed, Waiting
  <2> QED
    BY <2>2, <2>3, <2>4 DEF ClientGoesOn, THInv, ClientOutline, Accepting, At
<1>8. CASE At("client", <<Ask("client", "ACK")>>) /\ Quiet /\ Agree
  <2>1. Head(todo["client"]) = Ask("client", "ACK") /\ Tail(todo["client"]) = <<>>
    BY <1>8, PlanOfOne DEF At
  <2>2. Sends("client", Req("ACK")) /\ ClientGoesOn(<<>>) /\ (Open => Open')
    BY <2>1, Names, ClientThreadAsks
  <2>3. Quiet' /\ Agree'
    BY <1>8, <2>2, Names, SendsKeeps
  <2> QED
    BY <2>2, <2>3 DEF ClientGoesOn, THInv, ClientOutline, At
<1>9. CASE At("client", <<Ask("server", "ACK")>> \o FinishServer \o Accept) /\ Open /\ ~Stays
  <2>1. Head(todo["client"]) = Ask("server", "ACK")
        /\ Tail(todo["client"]) = FinishServer \o Accept
    BY <1>9 DEF At, FinishServer, Accept
  <2>2. Sends("server", Req("ACK")) /\ ClientGoesOn(FinishServer \o Accept) /\ (Open => Open')
    BY <2>1, Names, ClientThreadAsks
  <2>3. Open' /\ ~Stays'
    BY <1>9, <2>2, Names, SendsKeeps
  <2> QED
    BY <2>2, <2>3 DEF ClientGoesOn, THInv, ClientOutline, Accepting, At
<1>10. CASE At("client", FinishServer \o Accept) /\ Open /\ ~Stays
  <2>1. Head(todo["client"]) = Forget("server")
        /\ Tail(todo["client"]) = <<Become("server", "FINISH")>> \o Accept
    BY <1>10, Parts, PlanOfParts DEF At
  <2>2. Forgets("server") /\ ClientGoesOn(<<Become("server", "FINISH")>> \o Accept)
    BY <2>1, Names, ClientForgets
  <2>3. Open' /\ ~Stays'
    BY <1>10, <2>2, Names, ForgetsKeeps
  <2> QED
    BY <2>2, <2>3 DEF ClientGoesOn, THInv, ClientOutline, Accepting, At
<1>11. ASSUME NEW state \in {"FINISH", "FAIL"},
              At("client", <<Become("server", state)>> \o Accept), Open, ~Stays
       PROVE  THInv'
  <2>1. state \in MessageState \ {"CALLING", "BYE"}
    BY Names
  <2>2. Head(todo["client"]) = Become("server", state) /\ Tail(todo["client"]) = Accept
    BY <1>11, <2>1, Names, Operations, Parts, PlanOfMore DEF At
  <2>3. SetsState("server", state) /\ ClientGoesOn(Accept)
    BY <1>11, <2>1, <2>2, Names, ClientSetsState
  <2>4. Open' /\ HalfUp'
    BY <1>11, <2>3, Names, SetsStateKeeps DEF HalfUp
  <2> QED
    BY <2>3, <2>4 DEF ClientGoesOn, THInv, ClientOutline, Accepting, At
<1> QED
  BY <1>1, <1>2, <1>3, <1>4, <1>5, <1>6, <1>7, <1>8, <1>9, <1>10, <1>11 DEF Accepting

\* Three facts about the server leg that the steps of the client leg keep.
LEMMA EndingKept ==
  ASSUME Ending, UNCHANGED <<server, serverKnown>>, Stays' = Stays
  PROVE  Ending'
BY DEF Ending, ServerListed

LEMMA ServerHungUp ==
  ASSUME THInv, ServerAt("CALLING"), Ending, SetsState("server", "BYE")
  PROVE  ServerAt("BYE")' /\ Ending'
<1>1. Stays' = Stays
  BY SetsStateKeeps, Names
<1> QED
  BY <1>1 DEF ServerAt, Ending, ServerListed, SetsState, Waiting

LEMMA ServerHangsUpOnTalking ==
  ASSUME THInv, ServerAt("CALLING")
  PROVE  Stays => (server # "OK" \/ Open) /\ caller = "talking"
BY DEF THInv, OnlyAcks, ServerAt

LEMMA ConfirmingGoesOn ==
  ASSUME THInv, Continue("client"), bridged, Confirming
  PROVE  THInv'
<1> DEFINE ackAndFinish == <<Ask("client", "ACK")>> \o FinishClient
<1>0. ackAndFinish \in Seq(Operation) /\ Ending
  BY Names, Operations, Parts DEF Confirming
<1>1. CASE At("client", <<Become("client", "FAIL")>> \o FinishClient)
  <2>1. Head(todo["client"]) = Become("client", "FAIL") /\ Tail(todo["client"]) = FinishClient
    BY <1>1, Names, Operations, Parts, PlanOfMore DEF At
  <2>2. SetsState("client", "FAIL") /\ ClientGoesOn(FinishClient)
    BY <2>1, Names, ClientSetsState
  <2>3. Ending'
    BY <1>0, <2>2, Names, SetsStateKeeps, EndingKept DEF SetsState
  <2> QED
    BY <2>2, <2>3 DEF ClientGoesOn, THInv, ClientOutline, Confirming, At
<1>2. CASE At("client", FinishClient)
  <2>1. Head(todo["client"]) = Forget("client")
        /\ Tail(todo["client"]) = <<Become("client", "FINISH")>>
    BY <1>2, Parts DEF At
  <2>2. Forgets("client") /\ ClientGoesOn(<<Become("client", "FINISH")>>)
    BY <2>1, Names, ClientForgets
  <2>3. ~clientKnown' /\ serverKnown' = serverKnown /\ server' = server
    BY <2>2 DEF Forgets
  <2>4. Ending'
    BY <1>0, <2>2, <2>3, Names, ForgetsKeeps, EndingKept
  <2> QED
    BY <2>2, <2>3, <2>4 DEF ClientGoesOn, THInv, ClientOutline, Confirming, At
<1>3. CASE At("client", <<Become("client", "FINISH")>>) /\ ~clientKnown
  <2>1. Head(todo["client"]) = Become("client", "FINISH") /\ Tail(todo["client"]) = <<>>
    BY <1>3, PlanOfOne DEF At
  <2>2. SetsState("client", "FINISH") /\ ClientGoesOn(<<>>)
    BY <2>1, Names, ClientSetsState
  <2>3. Agree'
    <3>1. /\ Stays' = Stays /\ Answered' = Answered /\ client' = "FINISH"
          /\ UNCHANGED <<server, serverKnown, clientKnown>>
      BY <2>2, ClientStateSet
    <3>2. Stays' => ServerListed' /\ server' \notin Waiting /\ ~clientKnown'
      BY <1>0, <1>3, <3>1 DEF ServerListed, Ending
    <3> QED
      BY <3>1, <3>2 DEF Agree, Waiting
  <2>4. ~clientKnown'
    BY <1>3, <2>2 DEF SetsState
  <2> QED
    BY <2>2, <2>3, <2>4 DEF ClientGoesOn, THInv, ClientOutline, At
<1>4. CASE At("client", <<Ask("client", "ACK")>> \o FinishClient)
  <2>1. Head(todo["client"]) = Ask("client", "ACK") /\ Tail(todo["client"]) = FinishClient
    BY <1>4, Names, Operations, Parts, PlanOfMore DEF At
  <2>2. Sends("client", Req("ACK")) /\ ClientGoesOn(FinishClient)
    BY <2>1, Names, ClientThreadAsks
  <2>3. Ending'
    BY <1>0, <2>2, Names, SendsKeeps
  <2> QED
    BY <2>2, <2>3 DEF ClientGoesOn, THInv, ClientOutline, Confirming, At
<1>5. CASE At("client", <<Run("server", "onBye")>> \o <<Ask("client", "ACK")>> \o FinishClient)
  <2>1. Head(todo["client"]) = Run("server", "onBye") /\ Tail(todo["client"]) = ackAndFinish
    BY <1>5 DEF At, FinishClient
  <2>2. /\ Untouched /\ ClientGoesOn(Body(States, "server", "onBye") \o ackAndFinish)
        /\ States["server"] = server
    BY <2>1, Names, ClientCalls DEF States
  <2>3. Ending' /\ server' = server /\ Stays' = Stays
    BY <1>0, <2>2, UntouchedKeeps
  <2>4. CASE server = "CALLING"
    <3>1. At("client", <<Become("server", "BYE"), Cite("server", "OWN"), Ask("server", "BYE")>>
                         \o ackAndFinish)'
      BY <2>2, <2>4, Names, BodyOnBye DEF ClientGoesOn, At
    <3>2. ServerAt("CALLING")'
      BY <2>3, <2>4 DEF ServerAt
    <3> QED
      BY <2>2, <2>3, <3>1, <3>2 DEF ClientGoesOn, THInv, ClientOutline, Confirming
  <2>5. CASE server # "CALLING"
    <3>1. At("client", ackAndFinish)'
      BY <1>0, <2>2, <2>5, Names, BodyOnBye, EmptyParts DEF ClientGoesOn, At
    <3> QED
      BY <2>2, <2>3, <3>1 DEF ClientGoesOn, THInv, ClientOutline, Confirming
  <2> QED
    BY <2>4, <2>5
<1>6. CASE /\ At("client", <<Become("server", "BYE"), Cite("server", "OWN"), Ask("server", "BYE")>>
                             \o ackAndFinish)
           /\ ServerAt("CALLING")
  <2> DEFINE rest == <<Cite("server", "OWN"), Ask("server", "BYE")>> \o ackAndFinish
  <2>1. Head(todo["client"]) = Become("server", "BYE") /\ Tail(todo["client"]) = rest
    BY <1>6 DEF At, FinishClient
  <2>2. SetsState("server", "BYE") /\ ClientGoesOn(rest)
    BY <1>6, <2>1, Names, ServerHangsUpOnTalking, ClientSetsState
  <2>3. ServerAt("BYE")' /\ Ending'
    BY <1>0, <1>6, <2>2, ServerHungUp
  <2> QED
    BY <2>2, <2>3 DEF ClientGoesOn, THInv, ClientOutline, Confirming, At
<1>7. CASE /\ At("client", <<Cite("server", "OWN"), Ask("server", "BYE")>> \o ackAndFinish)
           /\ ServerAt("BYE")
  <2> DEFINE rest == <<Ask("server", "BYE")>> \o ackAndFinish
  <2>1. Head(todo["client"]) = Cite("server", "OWN") /\ Tail(todo["client"]) = rest
    BY <1>7 DEF At, FinishClient
  <2>2. SetsRequest("server", "OWN") /\ ClientGoesOn(rest)
    BY <1>7, <2>1, Names, ClientSetsRequest DEF ServerAt
  <2>3. ServerAt("BYE")' /\ Ending' /\ Superseded'
    BY <1>0, <1>7, <2>2, Names, SetsRequestKeeps, EndingKept DEF SetsRequest, Superseded, ServerAt
  <2> QED
    BY <2>2, <2>3 DEF ClientGoesOn, THInv, ClientOutline, Confirming, At
<1>8. CASE At("client", <<Ask("server", "BYE")>> \o ackAndFinish) /\ Superseded
  <2>1. Head(todo["client"]) = Ask("server", "BYE") /\ Tail(todo["client"]) = ackAndFinish
    BY <1>0, <1>8, Names, Operations, PlanOfMore DEF At
  <2>2. Sends("server", Req("BYE")) /\ ClientGoesOn(ackAndFinish)
    BY <1>8, <2>1, Names, ClientThreadAsks
  <2>3. Ending'
    BY <1>0, <2>2, Names, SendsKeeps
  <2> QED
    BY <2>2, <2>3 DEF ClientGoesOn, THInv, ClientOutline, Confirming, At
<1> QED
  BY <1>1, <1>2, <1>3, <1>4, <1>5, <1>6, <1>7, <1>8 DEF Confirming

LEMMA RejectingGoesOn ==
  ASSUME THInv, Continue("client"), bridged, Rejecting
  PROVE  THInv'
<1>1. CASE At("client", <<Run("client", "onReject")>>) /\ Open
  <2>1. Untouched /\ ClientGoesOn(Body(States, "client", "onReject"))
    BY <1>1, Names, ClientCallsLast DEF At
  <2>2. At("client", <<Become("client", "BUSY")>> \o <<Run("server", "onReject")>>
                       \o FinishClient)'
    BY <2>1, BodyOnReject DEF ClientGoesOn, At
  <2> QED
    BY <1>1, <2>1, <2>2, UntouchedKeeps DEF ClientGoesOn, THInv, ClientOutline, Rejecting
<1>2. CASE /\ At("client", <<Become("client", "BUSY")>> \o <<Run("server", "onReject")>>
                             \o FinishClient)
           /\ Open
  <2>1. Head(todo["client"]) = Become("client", "BUSY")
        /\ Tail(todo["client"]) = <<Run("server", "onReject")>> \o FinishClient
    BY <1>2 DEF At, FinishClient
  <2>2. SetsState("client", "BUSY") /\ ClientGoesOn(<<Run("server", "onReject")>> \o FinishClient)
    BY <2>1, Names, ClientSetsState
  <2>3. Open'
    BY <1>2, <2>2, Names, SetsStateKeeps
  <2> QED
    BY <2>2, <2>3 DEF ClientGoesOn, THInv, ClientOutline, Rejecting, At
<1>3. CASE At("client", <<Run("server", "onReject")>> \o FinishClient) /\ Open
  <2>1. Head(todo["client"]) = Run("server", "onReject") /\ Tail(todo["client"]) = FinishClient
    BY <1>3, Names, Operations, Parts, PlanOfMore DEF At
  <2>2. Untouched /\ ClientGoesOn(Body(States, "server", "onReject") \o FinishClient)
    BY <2>1, Names, ClientCalls
  <2>3. At("client", <<Become("server", "BUSY"), Reply("server", 486)>>
                       \o FinishServer \o FinishClient)'
    BY <2>2, BodyOnReject DEF ClientGoesOn, At
  <2> QED
    BY <1>3, <2>2, <2>3, UntouchedKeeps DEF ClientGoesOn, THInv, ClientOutline, Rejecting
<1>4. CASE /\ At("client", <<Become("server", "BUSY"), Reply("server", 486)>>
                             \o FinishServer \o FinishClient)
           /\ Open
  <2> DEFINE rest == <<Reply("server", 486)>> \o FinishServer \o FinishClient
  <2>1. Head(todo["client"]) = Become("server", "BUSY") /\ Tail(todo["client"]) = rest
    BY <1>4 DEF At, FinishServer, FinishClient
  <2> HIDE DEF rest
  <2>2. SetsState("server", "BUSY") /\ ClientGoesOn(rest)
    BY <1>4, <2>1, Names, ClientSetsState
  <2>3. Open' /\ ServerAt("BUSY")'
    BY <1>4, <2>2, ServerStateSet DEF ServerAt
  <2>4. Rejecting'
    BY <2>2, <2>3 DEF ClientGoesOn, Rejecting, At, rest
  <2> QED
    BY <2>2, <2>4 DEF ClientGoesOn, THInv, ClientOutline
<1>5. CASE /\ At("client", <<Reply("server", 486)>> \o FinishServer \o FinishClient)
           /\ ServerAt("BUSY") /\ Open
  <2> DEFINE rest == FinishServer \o FinishClient
  <2>1. PICK code \in SentCodes : code = 486
    BY Names
  <2>2. todo["client"] = <<Reply("server", code)>> \o FinishServer \o FinishClient
    BY <1>5, <2>1 DEF At
  <2>3. Head(todo["client"]) = Reply("server", code) /\ Tail(todo["client"]) = rest
    BY <2>2 DEF FinishServer, FinishClient
  <2>4. Responds("server", code) /\ ClientGoesOn(rest)
    BY <1>5, <2>1, <2>3, ClientThreadDeclines, ZenonT(40)
  <2>5. ServerAt("BUSY")'
    BY <1>5, <2>4, Names, SendsKeeps DEF Responds, ServerAt
  <2> QED
    BY <2>4, <2>5 DEF ClientGoesOn, THInv, ClientOutline, Rejecting, At
<1>6. CASE At("client", FinishServer \o FinishClient) /\ ServerAt("BUSY")
  <2>1. Head(todo["client"]) = Forget("server")
        /\ Tail(todo["client"]) = <<Become("server", "FINISH")>> \o FinishClient
    BY <1>6, Parts, PlanOfParts DEF At
  <2>2. Forgets("server") /\ ClientGoesOn(<<Become("server", "FINISH")>> \o FinishClient)
    BY <2>1, Names, ClientForgets
  <2>3. ServerAt("BUSY")' /\ ~serverKnown'
    BY <1>6, <2>2, Names, ForgetsKeeps DEF Forgets, ServerAt
  <2> QED
    BY <2>2, <2>3 DEF ClientGoesOn, THInv, ClientOutline, Rejecting, At
<1>7. CASE /\ At("client", <<Become("server", "FINISH")>> \o FinishClient)
           /\ ServerAt("BUSY") /\ ~serverKnown
  <2>1. Head(todo["client"]) = Become("server", "FINISH") /\ Tail(todo["client"]) = FinishClient
    BY <1>7, Names, Operations, Parts, PlanOfMore DEF At
  <2>2. SetsState("server", "FINISH") /\ ClientGoesOn(FinishClient)
    BY <1>7, <2>1, Names, ClientSetsState DEF ServerAt
  <2>3. Ending'
    BY <1>7, <2>2 DEF Ending, ServerListed, SetsState, Waiting
  <2> QED
    BY <2>2, <2>3 DEF ClientGoesOn, THInv, ClientOutline, Confirming, At
<1> QED
  BY <1>1, <1>2, <1>3, <1>4, <1>5, <1>6, <1>7 DEF Rejecting

LEMMA HangingUpGoesOn ==
  ASSUME THInv, Continue("client"), bridged, HangingUp
  PROVE  THInv'
<1>0. Quiet
  BY DEF HangingUp
<1> DEFINE passedOn == <<Run("server", "onBye")>>
<1>1. CASE At("client", <<Run("client", "onBye(request)")>>) /\ Agree
  <2>1. /\ Untouched /\ ClientGoesOn(Body(States, "client", "onBye(request)"))
        /\ States["client"] = client /\ Other("client") = "server"
    BY <1>1, Names, ClientCallsLast DEF At, States, Other
  <2>2. CASE client = "CALLING"
    <3>1. At("client", <<Cite("client", "BYE"), Become("client", "BYE"), Reply("client", 200)>>
                         \o passedOn)'
      BY <2>1, <2>2, Names, BodyOnByeRequest DEF ClientGoesOn, At
    <3>2. Ending
      BY <1>1, <2>2 DEF Agree, Ending, Waiting
    <3> QED
      BY <1>0, <2>1, <3>1, <3>2, UntouchedKeeps DEF ClientGoesOn, THInv, ClientOutline, HangingUp
  <2>3. CASE client # "CALLING"
    <3>1. At("client", <<Reply("client", 400)>>)'
      BY <2>1, <2>3, Names, BodyOnByeRequest DEF ClientGoesOn, At
    <3> QED
      BY <1>0, <1>1, <2>1, <3>1, UntouchedKeeps DEF ClientGoesOn, THInv, ClientOutline, HangingUp
  <2> QED
    BY <2>2, <2>3
<1>2. CASE At("client", <<Reply("client", 400)>>) /\ Agree
  <2>1. PICK code \in SentCodes : code = 400
    BY Names
  <2>2. Head(todo["client"]) = Reply("client", code) /\ Tail(todo["client"]) = <<>>
    BY <1>2, <2>1, PlanOfOne DEF At
  <2>3. Responds("client", code) /\ ClientGoesOn(<<>>) /\ (Open => Open')
    BY <2>2, ClientThreadRepliesToCallee
  <2>4. Quiet' /\ Agree'
    BY <1>0, <1>2, <2>3, Names, SendsKeeps DEF Responds
  <2> QED
    BY <2>3, <2>4 DEF ClientGoesOn, THInv, ClientOutline, At
<1>3. CASE /\ At("client", <<Cite("client", "BYE"), Become("client", "BYE"), Reply("client", 200)>>
                             \o passedOn)
           /\ Ending
  <2> DEFINE rest == <<Become("client", "BYE"), Reply("client", 200)>> \o passedOn
  <2>1. Head(todo["client"]) = Cite("client", "BYE") /\ Tail(todo["client"]) = rest
    BY <1>3 DEF At
  <2>2. SetsRequest("client", "BYE") /\ ClientGoesOn(rest)
    BY <2>1, Names, ClientSetsRequest
  <2>3. Quiet' /\ Stays' = Stays
    BY <1>0, <2>2 DEF SetsRequest, Steady, Stays, Quiet, Open, Told, Superseded, Answered
  <2>4. Ending'
    BY <1>3, <2>2, <2>3, EndingKept DEF SetsRequest
  <2> QED
    BY <2>2, <2>3, <2>4 DEF ClientGoesOn, THInv, ClientOutline, HangingUp, At
<1>4. CASE /\ At("client", <<Become("client", "BYE"), Reply("client", 200)>> \o passedOn)
           /\ Ending
  <2> DEFINE rest == <<Reply("client", 200)>> \o passedOn
  <2>1. Head(todo["client"]) = Become("client", "BYE") /\ Tail(todo["client"]) = rest
    BY <1>4 DEF At
  <2>2. SetsState("client", "BYE") /\ ClientGoesOn(rest)
    BY <2>1, Names, ClientSetsState
  <2>3. Quiet' /\ Ending' /\ client' = "BYE"
    BY <1>0, <1>4, <2>2, Names, SetsStateKeeps, EndingKept DEF SetsState, Quiet, Waiting
  <2> QED
    BY <2>2, <2>3 DEF ClientGoesOn, THInv, ClientOutline, HangingUp, At
<1>5. CASE At("client", <<Reply("client", 200)>> \o passedOn)
           /\ Ending /\ (Stays => client = "BYE")
  <2>1. PICK code \in SentCodes : code = 200
    BY Names
  <2>2. todo["client"] = <<Reply("client", code)>> \o passedOn
    BY <1>5, <2>1 DEF At
  <2>3. passedOn \in Seq(Operation) /\ Reply("client", code) \in Operation
    BY Names, Operations DEF SentCodes
  <2>4. Head(todo["client"]) = Reply("client", code) /\ Tail(todo["client"]) = passedOn
    BY <2>2, <2>3, PlanOfMore
  <2>5. Responds("client", code) /\ ClientGoesOn(passedOn) /\ (Open => Open')
    BY <2>4, ClientThreadRepliesToCallee
  <2>6. PICK m : Sends("client", m)
    BY <2>5 DEF Responds
  <2>7. /\ client' = client /\ Stays' = Stays /\ Ending' = Ending
        /\ (Open => Open') => (Quiet => Quiet')
    BY ONLY <2>6, Names, SendsKeeps
  <2>8. Quiet' /\ Ending' /\ (Stays => client = "BYE")'
    BY <1>0, <1>5, <2>5, <2>7
  <2> QED
    BY <2>5, <2>8 DEF ClientGoesOn, THInv, ClientOutline, HangingUp, At
<1>6. CASE At("client", passedOn) /\ Ending /\ (Stays => client = "BYE")
  <2>1. /\ Untouched /\ ClientGoesOn(Body(States, "server", "onBye"))
        /\ States["server"] = server
    BY <1>6, Names, ClientCallsLast DEF At, States
  <2>2. CASE server = "CALLING"
    <3>1. At("client", <<Become("server", "BYE"), Cite("server", "OWN"), Ask("server", "BYE")>>)'
      BY <2>1, <2>2, Names, BodyOnBye DEF ClientGoesOn, At
    <3>2. ServerAt("CALLING")' /\ (Stays => client = "BYE")'
      BY <1>6, <2>1, <2>2, UntouchedKeeps DEF ServerAt
    <3> QED
      BY <1>0, <1>6, <2>1, <3>1, <3>2, UntouchedKeeps
         DEF ClientGoesOn, THInv, ClientOutline, HangingUp
  <2>3. CASE server # "CALLING"
    <3>1. At("client", <<>>)'
      BY <2>1, <2>3, Names, BodyOnBye DEF ClientGoesOn, At
    <3>2. Agree
      BY <1>6 DEF Agree, Ending, Waiting
    <3> QED
      BY <1>0, <2>1, <3>1, <3>2, UntouchedKeeps DEF ClientGoesOn, THInv, ClientOutline
  <2> QED
    BY <2>2, <2>3
<1>7. CASE /\ At("client", <<Become("server", "BYE"), Cite("server", "OWN"), Ask("server", "BYE")>>)
           /\ ServerAt("CALLING") /\ Ending /\ (Stays => client = "BYE")
  <2> DEFINE rest == <<Cite("server", "OWN"), Ask("server", "BYE")>>
  <2>1. Head(todo["client"]) = Become("server", "BYE") /\ Tail(todo["client"]) = rest
    BY <1>7 DEF At
  <2>2. SetsState("server", "BYE") /\ ClientGoesOn(rest)
    BY <1>7, <2>1, Names, ServerHangsUpOnTalking, ClientSetsState
  <2>3. ServerAt("BYE")' /\ Ending'
    BY <1>7, <2>2, ServerHungUp
  <2>4. Quiet' /\ (Stays => client = "BYE")'
    BY <1>0, <1>7, <2>2, Names, SetsStateKeeps DEF SetsState, Quiet
  <2> QED
    BY <2>2, <2>3, <2>4 DEF ClientGoesOn, THInv, ClientOutline, HangingUp, At
<1>8. CASE /\ At("client", <<Cite("server", "OWN"), Ask("server", "BYE")>>)
           /\ ServerAt("BYE") /\ Ending /\ (Stays => client = "BYE")
  <2> DEFINE rest == <<Ask("server", "BYE")>>
  <2>1. Head(todo["client"]) = Cite("server", "OWN") /\ Tail(todo["client"]) = rest
    BY <1>8 DEF At
  <2>2. SetsRequest("server", "OWN") /\ ClientGoesOn(rest)
    BY <1>8, <2>1, Names, ClientSetsRequest DEF ServerAt
  <2>3. Quiet' /\ Stays' = Stays
    BY <1>0, <2>2 DEF SetsRequest, Steady, Stays, Quiet, Open, Told, Superseded, Answered
  <2>4. Ending'
    BY <1>8, <2>2, <2>3, EndingKept DEF SetsRequest
  <2>5. ServerAt("BYE")' /\ Superseded' /\ (Stays => client = "BYE")'
    BY <1>8, <2>2, <2>3 DEF SetsRequest, Superseded, ServerAt
  <2> QED
    BY <2>2, <2>3, <2>4, <2>5 DEF ClientGoesOn, THInv, ClientOutline, HangingUp, At
<1>9. CASE At("client", <<Ask("server", "BYE")>>)
           /\ Superseded /\ Ending /\ (Stays => client = "BYE")
  <2>1. Head(todo["client"]) = Ask("server", "BYE") /\ Tail(todo["client"]) = <<>>
    BY <1>9, PlanOfOne DEF At
  <2>2. Sends("server", Req("BYE")) /\ ClientGoesOn(<<>>) /\ (Open => Open')
    BY <1>9, <2>1, Names, ClientThreadAsks
  <2>3. Agree
    BY <1>9 DEF Agree, Ending, Waiting
  <2>4. Agree' /\ Quiet'
    BY <1>0, <2>2, <2>3, Names, SendsKeeps
  <2> QED
    BY <2>2, <2>4 DEF ClientGoesOn, THInv, ClientOutline, At
<1> QED
  BY <1>1, <1>2, <1>3, <1>4, <1>5, <1>6, <1>7, <1>8, <1>9 DEF HangingUp

LEMMA ClientContinues ==
  ASSUME THInv, Continue("client")
  PROVE  THInv'
<1>1. todo["client"] # <<>>
  BY DEF Continue
<1>2. bridged /\ (Ringing \/ Accepting \/ Confirming \/ Rejecting \/ HangingUp)
  BY <1>1 DEF THInv, ClientOutline, At
<1> QED
  BY <1>2, RingingGoesOn, AcceptingGoesOn, ConfirmingGoesOn, RejectingGoesOn, HangingUpGoesOn

-----------------------------------------------------------------------------
(* One operation of the server session's thread, and what it leaves to show. *)

ServerGoesOn(rest) ==
  /\ todo'["server"] = rest /\ Everywhere' /\ OnlyAcks' /\ ClientOutline'
  /\ Stays' = Stays /\ caller' = caller
  /\ Answered => Answered'
  /\ Superseded => Superseded'

\* While the caller stays, all that this thread assigns is the CALLING of an ACK.
LEMMA ServerSetsState ==
  ASSUME THInv, Continue("server"), NEW leg \in Legs, NEW state \in MessageState, NEW rest,
         Head(todo["server"]) = Become(leg, state), Tail(todo["server"]) = rest,
         Stays => leg = "server" /\ state = "CALLING" /\ Acked /\ fromCaller = <<>>,
         leg = "client" => Superseded
  PROVE  ServerGoesOn(rest)
<1>0. "server" \in Legs
  BY DEF Legs
<1>1. server # "NONE" /\ ThreadsTypeOK /\ Everywhere /\ OnlyAcks /\ todo["server"] # <<>>
  BY <1>0, ThreadBegun
<1>2. SetsState(leg, state) /\ GoesOn("server", rest)
  BY <1>0, <1>1, Becomes
<1>3. /\ todo'["server"] = rest /\ todo'["client"] = todo["client"]
      /\ todo' \in [Legs -> Seq(Operation)] /\ ServerStaysIdle
  BY <1>1, <1>2, ServerThreadGoesOn
<1>4. Everywhere' /\ OnlyAcks'
  BY <1>1, <1>2, <1>3, StateKeeps DEF Acked
<1>5. /\ Stays' = Stays /\ Answered' = Answered /\ Superseded' = Superseded /\ Open' = Open
      /\ caller' = caller /\ bridged' = bridged
  BY <1>2 DEF SetsState, Steady, Stays, Answered, Superseded, Open, Told
<1>6. ServerLegMoves /\ (client' = client \/ Superseded')
  BY <1>2, <1>5 DEF ServerLegMoves, SetsState, Acked, Legs
<1>7. ClientOutline'
  BY <1>2, <1>3, <1>5, <1>6, ClientOutlineStays DEF THInv, SetsState
<1> QED
  BY <1>3, <1>4, <1>5, <1>7 DEF ServerGoesOn

LEMMA ServerSetsRequest ==
  ASSUME THInv, Continue("server"), ~Stays, NEW leg \in Legs, NEW req \in Method, NEW rest,
         Head(todo["server"]) = Cite(leg, req), Tail(todo["server"]) = rest,
         leg = "server" => req # "INVITE"
  PROVE  ServerGoesOn(rest) /\ (leg = "server" => Superseded')
<1>0. "server" \in Legs
  BY DEF Legs
<1>1. server # "NONE" /\ ThreadsTypeOK /\ Everywhere /\ OnlyAcks /\ todo["server"] # <<>>
  BY <1>0, ThreadBegun
<1>2. SetsRequest(leg, req) /\ GoesOn("server", rest)
  BY <1>0, <1>1, Cites
<1>3. /\ todo'["server"] = rest /\ todo'["client"] = todo["client"]
      /\ todo' \in [Legs -> Seq(Operation)] /\ ServerStaysIdle
  BY <1>1, <1>2, ServerThreadGoesOn
<1>4. Everywhere' /\ OnlyAcks' /\ (Superseded => Superseded')
  BY <1>1, <1>2, <1>3, RequestKeeps
<1>5. /\ Stays' = Stays /\ Answered' = Answered /\ (Open => Open')
      /\ caller' = caller /\ bridged' = bridged
  BY <1>2, <1>4 DEF SetsRequest, Steady, Stays, Answered, Open, Told
<1>6. ClientOutline'
  BY <1>2, <1>3, <1>4, <1>5, ClientOutlineStays DEF THInv, SetsRequest, ServerLegMoves
<1> QED
  BY <1>2, <1>3, <1>4, <1>5, <1>6 DEF ServerGoesOn, SetsRequest, Superseded

LEMMA ServerForgets ==
  ASSUME THInv, Continue("server"), ~Stays, NEW leg \in Legs, NEW rest,
         Head(todo["server"]) = Forget(leg), Tail(todo["server"]) = rest
  PROVE  ServerGoesOn(rest)
<1>0. "server" \in Legs
  BY DEF Legs
<1>1. server # "NONE" /\ ThreadsTypeOK /\ Everywhere /\ OnlyAcks /\ todo["server"] # <<>>
  BY <1>0, ThreadBegun
<1>2. Forgets(leg) /\ GoesOn("server", rest)
  BY <1>0, <1>1, Removes
<1>3. /\ todo'["server"] = rest /\ todo'["client"] = todo["client"]
      /\ todo' \in [Legs -> Seq(Operation)] /\ ServerStaysIdle
  BY <1>1, <1>2, ServerThreadGoesOn
<1>4. Everywhere' /\ OnlyAcks'
  BY <1>1, <1>2, <1>3, ForgetKeeps
<1>5. /\ Stays' = Stays /\ Answered' = Answered /\ Superseded' = Superseded /\ Open' = Open
      /\ caller' = caller /\ bridged' = bridged /\ client' = client
      /\ (clientKnown' => clientKnown) /\ (serverKnown' => serverKnown)
  BY <1>2 DEF Forgets, Steady, Stays, Answered, Superseded, Open, Told, Legs
<1>6. ClientOutline'
  BY <1>3, <1>5, ClientOutlineStays DEF THInv, ServerLegMoves
<1> QED
  BY <1>3, <1>4, <1>5, <1>6 DEF ServerGoesOn

\* A send changes nothing but the wire.
LEMMA ServerSent ==
  ASSUME THInv, NEW leg \in Legs, NEW m, Sends(leg, m), Open => Open',
         todo'["client"] = todo["client"]
  PROVE  /\ ClientOutline' /\ Stays' = Stays /\ caller' = caller
         /\ Answered' = Answered /\ Superseded' = Superseded
<1>1. /\ Stays' = Stays /\ Answered' = Answered /\ Superseded' = Superseded
      /\ UNCHANGED <<caller, bridged, server, client, serverReq, serverKnown, clientKnown>>
  BY DEF Sends, Steady, Stays, Answered, Superseded
<1>2. ClientOutline'
  BY <1>1, ClientOutlineStays DEF THInv, ServerLegMoves
<1> QED
  BY <1>1, <1>2

LEMMA ServerAsks ==
  ASSUME THInv, Continue("server"), NEW leg \in Legs, NEW method \in Method \ {"INVITE"}, NEW rest,
         Head(todo["server"]) = Ask(leg, method), Tail(todo["server"]) = rest,
         leg = "server" /\ method = "BYE" => Superseded,
         leg = "client" /\ method \in {"BYE", "CANCEL"} => Superseded,
         leg = "client" /\ method = "BYE" => Answered
  PROVE  ServerGoesOn(rest)
<1>0. "server" \in Legs
  BY DEF Legs
<1>1. server # "NONE" /\ ThreadsTypeOK /\ Everywhere /\ OnlyAcks /\ todo["server"] # <<>>
  BY <1>0, ThreadBegun
<1>2. Sends(leg, Req(method)) /\ GoesOn("server", rest)
  BY <1>0, <1>1, Asks
<1>3. /\ todo'["server"] = rest /\ todo'["client"] = todo["client"]
      /\ todo' \in [Legs -> Seq(Operation)] /\ ServerStaysIdle
  BY <1>1, <1>2, ServerThreadGoesOn
<1>4. Everywhere' /\ OnlyAcks'
  BY <1>1, <1>2, <1>3, AskKeeps
<1>5. Req(method) \in Message /\ ~IsOutcome(Req(method))
  BY RequestIsMessage DEF IsOutcome, Req
<1>6. Open => Open'
  BY <1>1, <1>2, <1>5, SendKeepsOpen
<1> QED
  BY <1>2, <1>3, <1>4, <1>6, ServerSent DEF ServerGoesOn

LEMMA ServerReplies ==
  ASSUME THInv, Continue("server"), ~Stays, NEW code \in SentCodes, NEW rest,
         Head(todo["server"]) = Reply("server", code), Tail(todo["server"]) = rest,
         code # 400 => Superseded,
         code = 400 => caller \in {"hungup", "ended"}
  PROVE  ServerGoesOn(rest)
<1> DEFINE leg == "server"
<1>0. leg \in Legs
  BY DEF Legs
<1> HIDE DEF leg
<1>1. server # "NONE" /\ ThreadsTypeOK /\ Everywhere /\ OnlyAcks /\ todo["server"] # <<>>
  BY <1>0, ThreadBegun DEF leg
<1>2. Responds(leg, code) /\ GoesOn("server", rest)
  BY <1>0, <1>1, Replies DEF leg
<1>3. /\ todo'["server"] = rest /\ todo'["client"] = todo["client"]
      /\ todo' \in [Legs -> Seq(Operation)] /\ ServerStaysIdle
  BY <1>1, <1>2, ServerThreadGoesOn
<1>4. Superseded => Open /\ Real
  BY DEF Open, Real
<1>5. Everywhere' /\ OnlyAcks'
  <2>1. code \in {200, 486} => Open
    BY <1>4
  <2>2. code = 200 => Real /\ (Stays => server \in {"OK", "CALLING"} \/ Superseded)
    BY <1>4
  <2> QED
    BY <1>0, <1>1, <1>2, <1>3, <2>1, <2>2, ReplyKeeps
<1>6. PICK m \in {Resp(code, Requested(leg))} : Sends(leg, m)
  BY <1>2 DEF Responds
<1>7. m \in Message /\ ~IsOutcome(m)
  <2>1. Requested(leg) \in Method /\ code \in Status
    BY <1>1 DEF ThreadsTypeOK, TypeOK, Requested, Status, SentCodes
  <2>2. m \in Message
    BY <1>6, <2>1, ResponseIsMessage
  <2>3. m.method = serverReq /\ m.code = code
    BY <1>6 DEF Resp, Requested, leg
  <2> QED
    BY <2>2, <2>3 DEF IsOutcome, Superseded
<1>8. Open => Open'
  BY <1>0, <1>1, <1>6, <1>7, SendKeepsOpen
<1> QED
  BY <1>0, <1>3, <1>5, <1>6, <1>8, ServerSent DEF ServerGoesOn

LEMMA ServerCalls ==
  ASSUME THInv, Continue("server"), NEW leg \in Legs, NEW name \in Methods, NEW rest,
         Head(todo["server"]) = Run(leg, name), Tail(todo["server"]) = rest
  PROVE  Untouched /\ ServerGoesOn(Body(States, leg, name) \o rest)
<1>0. "server" \in Legs
  BY DEF Legs
<1>1. server # "NONE" /\ ThreadsTypeOK /\ Everywhere /\ OnlyAcks /\ todo["server"] # <<>>
  BY <1>0, ThreadBegun
<1> DEFINE next == Body(States, leg, name) \o rest
<1>2. Untouched /\ GoesOn("server", next)
  BY <1>0, <1>1, Calls
<1> HIDE DEF next
<1>3. /\ todo'["server"] = next /\ todo'["client"] = todo["client"]
      /\ todo' \in [Legs -> Seq(Operation)] /\ ServerStaysIdle
  BY <1>1, <1>2, ServerThreadGoesOn
<1>4. Everywhere' /\ OnlyAcks'
  BY <1>1, <1>2, <1>3, CallKeeps
<1>5. /\ UNCHANGED <<server, client, serverKnown, clientKnown, serverReq, bridged, caller>>
      /\ Stays' = Stays /\ Answered' = Answered /\ Superseded' = Superseded /\ Open' = Open
  BY <1>2, UntouchedKeeps DEF Untouched
<1>6. ClientOutline'
  BY <1>3, <1>5, ClientOutlineStays DEF THInv, ServerLegMoves
<1> QED
  BY <1>2, <1>3, <1>4, <1>5, <1>6 DEF ServerGoesOn, next

LEMMA ServerCallsLast ==
  ASSUME THInv, Continue("server"), NEW leg \in Legs, NEW name \in Methods,
         todo["server"] = <<Run(leg, name)>>
  PROVE  Untouched /\ ServerGoesOn(Body(States, leg, name))
<1>1. Head(todo["server"]) = Run(leg, name) /\ Tail(todo["server"]) = <<>>
  BY PlanOfOne
<1>2. Body(States, leg, name) \o <<>> = Body(States, leg, name)
  BY BodyType, EmptyParts
<1> QED
  BY <1>1, <1>2, ServerCalls

-----------------------------------------------------------------------------
(* The steps of the server session's thread, one lemma per method. *)

LEMMA AckingGoesOn ==
  ASSUME THInv, Continue("server"), Acking
  PROVE  THInv'
<1>1. CASE At("server", <<Run("server", "onACK")>>) /\ (Stays => Acked /\ fromCaller = <<>>)
  <2>1. Untouched /\ ServerGoesOn(Body(States, "server", "onACK"))
    BY <1>1, Names, ServerCallsLast DEF At
  <2>2. CASE server = "OK"
    <3>1. At("server", <<Become("server", "CALLING")>>)'
      BY <2>1, <2>2, BodyOnAck DEF ServerGoesOn, At
    <3>2. (Stays => Acked /\ fromCaller = <<>>)'
      BY <1>1, <2>1, UntouchedKeeps DEF Untouched, Steady, Acked
    <3> QED
      BY <2>1, <3>1, <3>2 DEF ServerGoesOn, THInv, ServerOutline, Acking
  <2>3. CASE server # "OK"
    <3>1. At("server", FinishServer)' \/ At("server", <<>>)'
      BY <2>1, <2>3, BodyOnAck DEF ServerGoesOn, At
    <3>2. ~Stays'
      BY <1>1, <2>1, <2>3, UntouchedKeeps DEF Acked
    <3> QED
      BY <2>1, <3>1, <3>2 DEF ServerGoesOn, THInv, ServerOutline, Acking
  <2> QED
    BY <2>2, <2>3
<1>2. CASE At("server", <<Become("server", "CALLING")>>) /\ (Stays => Acked /\ fromCaller = <<>>)
  <2>1. Head(todo["server"]) = Become("server", "CALLING") /\ Tail(todo["server"]) = <<>>
    BY <1>2, PlanOfOne DEF At
  <2>2. ServerGoesOn(<<>>)
    BY <1>2, <2>1, Names, ServerSetsState
  <2> QED
    BY <2>2 DEF ServerGoesOn, THInv, ServerOutline, At
<1>3. CASE At("server", FinishServer) /\ ~Stays
  <2>1. ServerGoesOn(<<Become("server", "FINISH")>>)
    BY <1>3, Names, Parts, ServerForgets DEF At
  <2> QED
    BY <1>3, <2>1 DEF ServerGoesOn, THInv, ServerOutline, Acking, At
<1>4. CASE At("server", <<Become("server", "FINISH")>>) /\ ~Stays
  <2>1. Head(todo["server"]) = Become("server", "FINISH") /\ Tail(todo["server"]) = <<>>
    BY <1>4, PlanOfOne DEF At
  <2>2. ServerGoesOn(<<>>)
    BY <1>4, <2>1, Names, ServerSetsState
  <2> QED
    BY <2>2 DEF ServerGoesOn, THInv, ServerOutline, At
<1> QED
  BY <1>1, <1>2, <1>3, <1>4 DEF Acking

\* What a method of the server leg passes on to the client leg, if it does.
PassedOn(name) == {<<>>, <<Run("client", name)>>}

LEMMA PassedOnIsPlan ==
  ASSUME NEW name \in Methods, NEW passedOn \in PassedOn(name)
  PROVE  passedOn \in Seq(Operation)
<1>1. PICK op \in Operation : op = Run("client", name)
  BY Names, Operations
<1>2. passedOn = <<>> \/ passedOn = <<op>>
  BY <1>1 DEF PassedOn
<1>3. <<>> \in Seq(Operation) /\ <<op>> \in Seq(Operation)
  OBVIOUS
<1> QED
  BY <1>2, <1>3, Zenon

LEMMA CallerHangingUpGoesOn ==
  ASSUME THInv, Continue("server"), ~Stays, CallerHangingUp
  PROVE  THInv'
<1> DEFINE Ended == Answered /\ caller \in {"hungup", "ended"}
<1>0. Ended /\ \A rest : ServerGoesOn(rest) => Ended' /\ ~Stays' /\ (Superseded => Superseded')
  BY DEF CallerHangingUp, ServerGoesOn
<1>1. CASE At("server", <<Run("server", "onBye(request)")>>)
  <2>1. /\ ServerGoesOn(Body(States, "server", "onBye(request)"))
        /\ Other("server") = "client"
    BY <1>1, Names, ServerCallsLast DEF At, Other
  <2>2. \/ At("server", <<Reply("server", 400)>>)'
        \/ \E passedOn \in PassedOn("onBye") :
             At("server", <<Cite("server", "BYE"), Become("server", "BYE"),
                            Reply("server", 200)>> \o passedOn)'
    BY <2>1, Names, BodyOnByeRequest DEF ServerGoesOn, At, PassedOn
  <2>3. CallerHangingUp' /\ ~Stays'
    BY <1>0, <2>1, <2>2 DEF CallerHangingUp, PassedOn
  <2> QED
    BY <2>1, <2>3 DEF ServerGoesOn, THInv, ServerOutline
<1>2. CASE At("server", <<Reply("server", 400)>>)
  <2>1. PICK code \in SentCodes : code = 400
    BY Names
  <2>2. Head(todo["server"]) = Reply("server", code) /\ Tail(todo["server"]) = <<>>
    BY <1>2, <2>1, PlanOfOne DEF At
  <2>3. ServerGoesOn(<<>>)
    BY <1>0, <2>1, <2>2, ServerReplies
  <2> QED
    BY <2>3 DEF ServerGoesOn, THInv, ServerOutline, At
<1>3. ASSUME NEW passedOn \in PassedOn("onBye"),
             At("server", <<Cite("server", "BYE"), Become("server", "BYE"),
                            Reply("server", 200)>> \o passedOn)
      PROVE  THInv'
  <2> DEFINE first == <<Cite("server", "BYE"), Become("server", "BYE"), Reply("server", 200)>>
             rest == <<Become("server", "BYE"), Reply("server", 200)>> \o passedOn
  <2>1. first \in Seq(Operation) /\ first # <<>> /\ passedOn \in Seq(Operation)
    BY Names, Operations, PassedOnIsPlan
  <2>2. Head(todo["server"]) = Cite("server", "BYE") /\ Tail(todo["server"]) = rest
    BY <1>3, <2>1, PlanOfParts DEF At
  <2>3. ServerGoesOn(rest) /\ Superseded'
    BY <2>2, Names, ServerSetsRequest
  <2>4. CallerHangingUp'
    BY <1>0, <2>3 DEF CallerHangingUp, ServerGoesOn, At, PassedOn
  <2> QED
    BY <1>0, <2>3, <2>4 DEF ServerGoesOn, THInv, ServerOutline
<1>4. ASSUME NEW passedOn \in PassedOn("onBye"), Superseded,
             At("server", <<Become("server", "BYE"), Reply("server", 200)>> \o passedOn)
      PROVE  THInv'
  <2> DEFINE first == <<Become("server", "BYE"), Reply("server", 200)>>
             rest == <<Reply("server", 200)>> \o passedOn
  <2>1. first \in Seq(Operation) /\ first # <<>> /\ passedOn \in Seq(Operation)
    BY Names, Operations, PassedOnIsPlan
  <2>2. Head(todo["server"]) = Become("server", "BYE") /\ Tail(todo["server"]) = rest
    BY <1>4, <2>1, PlanOfParts DEF At
  <2>3. ServerGoesOn(rest)
    BY <1>4, <2>2, Names, ServerSetsState
  <2>4. CallerHangingUp'
    BY <1>0, <1>4, <2>3 DEF CallerHangingUp, ServerGoesOn, At, PassedOn
  <2> QED
    BY <1>0, <2>3, <2>4 DEF ServerGoesOn, THInv, ServerOutline
<1>5. ASSUME NEW passedOn \in PassedOn("onBye"), Superseded,
             At("server", <<Reply("server", 200)>> \o passedOn)
      PROVE  THInv'
  <2>1. PICK code \in SentCodes : code = 200
    BY Names
  <2>2. todo["server"] = <<Reply("server", code)>> \o passedOn
    BY <1>5, <2>1 DEF At
  <2>3. passedOn \in Seq(Operation) /\ Reply("server", code) \in Operation
    BY Names, Operations, PassedOnIsPlan DEF SentCodes
  <2>4. Head(todo["server"]) = Reply("server", code) /\ Tail(todo["server"]) = passedOn
    BY <2>2, <2>3, PlanOfMore
  <2>5. ServerGoesOn(passedOn)
    BY <1>5, <2>1, <2>4, ServerReplies
  <2>6. At("server", <<>>)' \/ CallerHangingUp'
    BY <1>0, <1>5, <2>5 DEF CallerHangingUp, ServerGoesOn, At, PassedOn
  <2> QED
    BY <1>0, <2>5, <2>6 DEF ServerGoesOn, THInv, ServerOutline
<1>6. CASE At("server", <<Run("client", "onBye")>>) /\ Superseded
  <2>1. ServerGoesOn(Body(States, "client", "onBye"))
    BY <1>6, Names, ServerCallsLast DEF At
  <2>2. \/ At("server", <<>>)'
        \/ At("server", <<Become("client", "BYE"), Cite("client", "OWN"), Ask("client", "BYE")>>)'
    BY <2>1, Names, BodyOnBye DEF ServerGoesOn, At
  <2>3. At("server", <<>>)' \/ CallerHangingUp'
    BY <1>0, <1>6, <2>1, <2>2 DEF CallerHangingUp
  <2> QED
    BY <1>0, <2>1, <2>3 DEF ServerGoesOn, THInv, ServerOutline
<1>7. CASE /\ At("server", <<Become("client", "BYE"), Cite("client", "OWN"), Ask("client", "BYE")>>)
           /\ Superseded
  <2> DEFINE rest == <<Cite("client", "OWN"), Ask("client", "BYE")>>
  <2>1. Head(todo["server"]) = Become("client", "BYE") /\ Tail(todo["server"]) = rest
    BY <1>7 DEF At
  <2>2. ServerGoesOn(rest)
    BY <1>7, <2>1, Names, ServerSetsState
  <2>3. CallerHangingUp'
    BY <1>0, <1>7, <2>2 DEF CallerHangingUp, ServerGoesOn, At
  <2> QED
    BY <1>0, <2>2, <2>3 DEF ServerGoesOn, THInv, ServerOutline
<1>8. CASE At("server", <<Cite("client", "OWN"), Ask("client", "BYE")>>) /\ Superseded
  <2> DEFINE rest == <<Ask("client", "BYE")>>
  <2>1. Head(todo["server"]) = Cite("client", "OWN") /\ Tail(todo["server"]) = rest
    BY <1>8 DEF At
  <2>2. ServerGoesOn(rest)
    BY <2>1, Names, ServerSetsRequest
  <2>3. CallerHangingUp'
    BY <1>0, <1>8, <2>2 DEF CallerHangingUp, ServerGoesOn, At
  <2> QED
    BY <1>0, <2>2, <2>3 DEF ServerGoesOn, THInv, ServerOutline
<1>9. CASE At("server", <<Ask("client", "BYE")>>) /\ Superseded
  <2>1. Head(todo["server"]) = Ask("client", "BYE") /\ Tail(todo["server"]) = <<>>
    BY <1>9, PlanOfOne DEF At
  <2>2. ServerGoesOn(<<>>)
    BY <1>0, <1>9, <2>1, Names, ServerAsks
  <2> QED
    BY <2>2 DEF ServerGoesOn, THInv, ServerOutline, At
<1> QED
  BY <1>1, <1>2, <1>3, <1>4, <1>5, <1>6, <1>7, <1>8, <1>9 DEF CallerHangingUp, PassedOn

LEMMA CancellingGoesOn ==
  ASSUME THInv, Continue("server"), ~Stays, Cancelling
  PROVE  THInv'
<1>0. \A rest : ServerGoesOn(rest) => ~Stays' /\ (Superseded => Superseded')
  BY DEF ServerGoesOn
<1>1. CASE At("server", <<Run("server", "onCancel(request)")>>)
  <2>1. ServerGoesOn(Body(States, "server", "onCancel(request)"))
    BY <1>1, Names, ServerCallsLast DEF At
  <2>2. Cancelling'
    BY <2>1, BodyOnCancel DEF ServerGoesOn, At, Cancelling
  <2> QED
    BY <1>0, <2>1, <2>2 DEF ServerGoesOn, THInv, ServerOutline
<1>2. ASSUME NEW passedOn \in PassedOn("onCancel"),
             At("server", <<Cite("server", "CANCEL"), Become("server", "CANCELING"),
                            Reply("server", 200)>> \o passedOn)
      PROVE  THInv'
  <2> DEFINE first == <<Cite("server", "CANCEL"), Become("server", "CANCELING"),
                        Reply("server", 200)>>
             rest == <<Become("server", "CANCELING"), Reply("server", 200)>> \o passedOn
  <2>1. first \in Seq(Operation) /\ first # <<>> /\ passedOn \in Seq(Operation)
    BY Names, Operations, PassedOnIsPlan
  <2>2. Head(todo["server"]) = Cite("server", "CANCEL") /\ Tail(todo["server"]) = rest
    BY <1>2, <2>1, PlanOfParts DEF At
  <2>3. ServerGoesOn(rest) /\ Superseded'
    BY <2>2, Names, ServerSetsRequest, ZenonT(40)
  <2>4. Cancelling'
    BY <2>3 DEF Cancelling, ServerGoesOn, At, PassedOn
  <2> QED
    BY <1>0, <2>3, <2>4 DEF ServerGoesOn, THInv, ServerOutline
<1>3. ASSUME NEW passedOn \in PassedOn("onCancel"), Superseded,
             At("server", <<Become("server", "CANCELING"), Reply("server", 200)>> \o passedOn)
      PROVE  THInv'
  <2> DEFINE first == <<Become("server", "CANCELING"), Reply("server", 200)>>
             rest == <<Reply("server", 200)>> \o passedOn
  <2>1. first \in Seq(Operation) /\ first # <<>> /\ passedOn \in Seq(Operation)
    BY Names, Operations, PassedOnIsPlan
  <2>2. Head(todo["server"]) = Become("server", "CANCELING") /\ Tail(todo["server"]) = rest
    BY <1>3, <2>1, PlanOfParts DEF At
  <2>3. ServerGoesOn(rest)
    BY <1>3, <2>2, Names, ServerSetsState
  <2>4. Cancelling'
    BY <1>0, <1>3, <2>3 DEF Cancelling, ServerGoesOn, At, PassedOn
  <2> QED
    BY <1>0, <2>3, <2>4 DEF ServerGoesOn, THInv, ServerOutline
<1>4. ASSUME NEW passedOn \in PassedOn("onCancel"), Superseded,
             At("server", <<Reply("server", 200)>> \o passedOn)
      PROVE  THInv'
  <2>1. PICK code \in SentCodes : code = 200
    BY Names
  <2>2. todo["server"] = <<Reply("server", code)>> \o passedOn
    BY <1>4, <2>1 DEF At
  <2>3. passedOn \in Seq(Operation) /\ Reply("server", code) \in Operation
    BY Names, Operations, PassedOnIsPlan DEF SentCodes
  <2>4. Head(todo["server"]) = Reply("server", code) /\ Tail(todo["server"]) = passedOn
    BY <2>2, <2>3, PlanOfMore
  <2>5. ServerGoesOn(passedOn)
    BY <1>4, <2>1, <2>4, ServerReplies
  <2>6. At("server", <<>>)' \/ Cancelling'
    BY <1>0, <1>4, <2>5 DEF Cancelling, ServerGoesOn, At, PassedOn
  <2> QED
    BY <1>0, <2>5, <2>6 DEF ServerGoesOn, THInv, ServerOutline
<1>5. CASE At("server", <<Run("client", "onCancel")>>) /\ Superseded
  <2>1. ServerGoesOn(Body(States, "client", "onCancel"))
    BY <1>5, Names, ServerCallsLast DEF At
  <2>2. At("server", <<Become("client", "CANCELING"), Ask("client", "CANCEL")>>)'
    BY <2>1, BodyOnCancel DEF ServerGoesOn, At
  <2>3. Cancelling'
    BY <1>0, <1>5, <2>1, <2>2 DEF Cancelling
  <2> QED
    BY <1>0, <2>1, <2>3 DEF ServerGoesOn, THInv, ServerOutline
<1>6. CASE At("server", <<Become("client", "CANCELING"), Ask("client", "CANCEL")>>) /\ Superseded
  <2> DEFINE rest == <<Ask("client", "CANCEL")>>
  <2>1. Head(todo["server"]) = Become("client", "CANCELING") /\ Tail(todo["server"]) = rest
    BY <1>6 DEF At
  <2>2. ServerGoesOn(rest)
    BY <1>6, <2>1, Names, ServerSetsState
  <2>3. Cancelling'
    BY <1>0, <1>6, <2>2 DEF Cancelling, ServerGoesOn, At
  <2> QED
    BY <1>0, <2>2, <2>3 DEF ServerGoesOn, THInv, ServerOutline
<1>7. CASE At("server", <<Ask("client", "CANCEL")>>) /\ Superseded
  <2>1. Head(todo["server"]) = Ask("client", "CANCEL") /\ Tail(todo["server"]) = <<>>
    BY <1>7, PlanOfOne DEF At
  <2>2. ServerGoesOn(<<>>)
    BY <1>7, <2>1, Names, ServerAsks
  <2> QED
    BY <2>2 DEF ServerGoesOn, THInv, ServerOutline, At
<1> QED
  BY <1>1, <1>2, <1>3, <1>4, <1>5, <1>6, <1>7 DEF Cancelling, PassedOn

LEMMA CallerRespondingGoesOn ==
  ASSUME THInv, Continue("server"), ~Stays, CallerResponding
  PROVE  THInv'
<1>0. Superseded /\ \A rest : ServerGoesOn(rest) => ~Stays' /\ Superseded'
  BY DEF ServerGoesOn, CallerResponding
<1>1. CASE At("server", <<Run("server", "onOk")>>)
  <2>1. ServerGoesOn(Body(States, "server", "onOk"))
    BY <1>1, Names, ServerCallsLast DEF At
  <2>2. \/ At("server", <<Ask("server", "ACK")>> \o FinishServer)'
        \/ At("server", <<Run("server", "onOk(waiting)")>>)'
    BY <2>1, Names, BodyOnOk DEF ServerGoesOn, At, FinishImmediately, FinishServer
  <2> QED
    BY <1>0, <2>1, <2>2 DEF ServerGoesOn, THInv, ServerOutline, CallerResponding
<1>2. CASE At("server", <<Run("server", "onOk(waiting)")>>)
  <2>1. ServerGoesOn(Body(States, "server", "onOk(waiting)"))
    BY <1>2, Names, ServerCallsLast DEF At
  <2>2. \/ At("server", <<Become("server", "OK"), Reply("server", 200)>>)'
        \/ At("server", <<Become("server", "FAIL")>>)'
    BY <2>1, BodyOnOkWaiting DEF ServerGoesOn, At
  <2> QED
    BY <1>0, <2>1, <2>2 DEF ServerGoesOn, THInv, ServerOutline, CallerResponding
<1>3. CASE At("server", <<Become("server", "OK"), Reply("server", 200)>>)
  <2> DEFINE rest == <<Reply("server", 200)>>
  <2>1. Head(todo["server"]) = Become("server", "OK") /\ Tail(todo["server"]) = rest
    BY <1>3 DEF At
  <2>2. ServerGoesOn(rest)
    BY <2>1, Names, ServerSetsState
  <2> QED
    BY <1>0, <2>2 DEF ServerGoesOn, THInv, ServerOutline, CallerResponding, At
<1>4. CASE At("server", <<Reply("server", 200)>>)
  <2>1. PICK code \in SentCodes : code = 200
    BY Names
  <2>2. Head(todo["server"]) = Reply("server", code) /\ Tail(todo["server"]) = <<>>
    BY <1>4, <2>1, PlanOfOne DEF At
  <2>3. Superseded /\ code # 400
    BY <1>0, <2>1
  <2>4. ServerGoesOn(<<>>)
    BY <2>2, <2>3, ServerReplies
  <2> QED
    BY <2>4 DEF ServerGoesOn, THInv, ServerOutline, At
<1>5. CASE At("server", <<Become("server", "FAIL")>>)
  <2>1. Head(todo["server"]) = Become("server", "FAIL") /\ Tail(todo["server"]) = <<>>
    BY <1>5, PlanOfOne DEF At
  <2>2. ServerGoesOn(<<>>)
    BY <2>1, Names, ServerSetsState
  <2> QED
    BY <2>2 DEF ServerGoesOn, THInv, ServerOutline, At
<1>6. CASE At("server", <<Ask("server", "ACK")>> \o FinishServer)
  <2>1. Head(todo["server"]) = Ask("server", "ACK") /\ Tail(todo["server"]) = FinishServer
    BY <1>6, Names, Operations, Parts, PlanOfMore DEF At
  <2>2. ServerGoesOn(FinishServer)
    BY <2>1, Names, ServerAsks
  <2> QED
    BY <1>0, <2>2 DEF ServerGoesOn, THInv, ServerOutline, Acking, At
<1>7. CASE At("server", <<Run("server", "onReject")>>)
  <2>1. ServerGoesOn(Body(States, "server", "onReject"))
    BY <1>7, Names, ServerCallsLast DEF At
  <2>2. At("server", <<Become("server", "BUSY"), Reply("server", 486)>> \o FinishServer)'
    BY <2>1, BodyOnReject DEF ServerGoesOn, At
  <2> QED
    BY <1>0, <2>1, <2>2 DEF ServerGoesOn, THInv, ServerOutline, CallerResponding
<1>8. CASE At("server", <<Become("server", "BUSY"), Reply("server", 486)>> \o FinishServer)
  <2> DEFINE rest == <<Reply("server", 486)>> \o FinishServer
  <2>1. Head(todo["server"]) = Become("server", "BUSY") /\ Tail(todo["server"]) = rest
    BY <1>8 DEF At, FinishServer
  <2> HIDE DEF rest
  <2>2. ServerGoesOn(rest)
    BY <2>1, Names, ServerSetsState
  <2>3. CallerResponding'
    BY <1>0, <2>2 DEF ServerGoesOn, CallerResponding, At, rest
  <2> QED
    BY <1>0, <2>2, <2>3 DEF ServerGoesOn, THInv, ServerOutline
<1>9. CASE At("server", <<Reply("server", 486)>> \o FinishServer)
  <2>1. PICK code \in SentCodes : code = 486
    BY Names
  <2>2. todo["server"] = <<Reply("server", code)>> \o FinishServer
    BY <1>9, <2>1 DEF At
  <2>3. Reply("server", code) \in Operation
    BY Names, Operations DEF SentCodes
  <2>4. Head(todo["server"]) = Reply("server", code) /\ Tail(todo["server"]) = FinishServer
    BY <2>2, <2>3, Parts, PlanOfMore
  <2>5. ServerGoesOn(FinishServer)
    BY <1>0, <2>1, <2>4, ServerReplies
  <2> QED
    BY <1>0, <2>5 DEF ServerGoesOn, THInv, ServerOutline, Acking, At
<1> QED
  BY <1>1, <1>2, <1>3, <1>4, <1>5, <1>6, <1>7, <1>8, <1>9 DEF CallerResponding

LEMMA ServerContinues ==
  ASSUME THInv, Continue("server")
  PROVE  THInv'
<1>1. ~At("server", <<>>)
  BY DEF Continue, At
<1> QED
  BY <1>1, AckingGoesOn, CallerHangingUpGoesOn, CancellingGoesOn, CallerRespondingGoesOn
     DEF THInv, ServerOutline

-----------------------------------------------------------------------------
(* A thread takes its next message. *)

\* The method that answers a message, and what the message is then.
LEMMA MethodsFor ==
  ASSUME NEW m \in Message, NEW name \in MethodFor(m)
  PROVE  /\ name \in Methods
         /\ \/ name = "onACK" /\ m = Req("ACK")
            \/ name = "onCancel(request)" /\ m = Req("CANCEL")
            \/ name = "onBye(request)" /\ m = Req("BYE")
            \/ name = "onRinging" /\ IsRinging(m.code)
            \/ name = "onOk" /\ IsOk(m.code)
            \/ name = "onReject" /\ IsReject(m.code)
BY DEF MethodFor, Methods

LEMMA Takes ==
  ASSUME NEW thread \in Legs, NEW known \in BOOLEAN, NEW m \in Message, Take(thread, known, m),
         todo \in [Legs -> Seq(Operation)]
  PROVE  /\ todo' \in [Legs -> Seq(Operation)] /\ todo'[Other(thread)] = todo[Other(thread)]
         /\ \/ todo'[thread] = <<>>
            \/ known /\ \E name \in MethodFor(m) : todo'[thread] = <<Run(thread, name)>>
<1>1. Other(thread) \in Legs /\ Other(thread) # thread
  BY DEF Other, Legs
<1>2. CASE known /\ MethodFor(m) # {}
  <2>1. PICK name \in MethodFor(m) : todo' = [todo EXCEPT ![thread] = <<Run(thread, name)>>]
    BY <1>2 DEF Take
  <2>2. Run(thread, name) \in Operation
    BY MethodsFor, Operations
  <2>3. <<Run(thread, name)>> \in Seq(Operation)
    BY <2>2
  <2> QED
    BY <1>1, <1>2, <2>1, <2>3
<1>3. CASE ~(known /\ MethodFor(m) # {})
  <2>1. todo' = [todo EXCEPT ![thread] = <<>>]
    BY <1>3, Zenon DEF Take
  <2> QED
    BY <1>1, <2>1
<1> QED
  BY <1>2, <1>3

\* Every other point of the outline has something left to do.
LEMMA ClientIdle ==
  ASSUME ClientOutline, todo["client"] = <<>>
  PROVE  (clientKnown => Quiet) /\ Agree
<1>1. ~Ringing
  BY DEF Ringing, At
<1>2. ~Accepting
  BY DEF Accepting, At, Accept, FinishServer
<1>3. ~Confirming
  BY DEF Confirming, At, FinishClient
<1>4. ~Rejecting
  BY DEF Rejecting, At, FinishServer, FinishClient
<1>5. ~HangingUp
  BY DEF HangingUp, At
<1> QED
  BY <1>1, <1>2, <1>3, <1>4, <1>5 DEF ClientOutline

LEMMA ClientTakesStep ==
  ASSUME THInv, ClientThreadTakes
  PROVE  THInv'
<1> DEFINE m == Head(fromCallee)
<1>1. /\ todo["client"] = <<>> /\ fromCallee # <<>> /\ fromCallee' = Tail(fromCallee)
      /\ UNCHANGED <<up, fromCaller, caller, callee, bridged>>
      /\ UNCHANGED <<server, serverReq, serverKnown, toCaller>>
      /\ UNCHANGED <<client, clientReq, clientKnown, toCallee>>
      /\ Take("client", clientKnown, m)
  BY DEF ClientThreadTakes, NextFromCallee, serverVars, clientVars, agents
<1>2. ThreadsTypeOK /\ fromCallee \in Seq(Message) /\ clientKnown \in BOOLEAN /\ Everywhere
  BY DEF THInv, Everywhere, ThreadsTypeOK, TypeOK
<1>3. /\ m \in Message /\ m \in InFlight(fromCallee)
      /\ fromCallee' \in Seq(Message) /\ InFlight(fromCallee') \subseteq InFlight(fromCallee)
  BY <1>1, <1>2, TailHolds
<1> HIDE DEF m
<1>4. /\ todo' \in [Legs -> Seq(Operation)] /\ todo'["server"] = todo["server"]
      /\ \/ todo'["client"] = <<>>
         \/ clientKnown /\ \E name \in MethodFor(m) : todo'["client"] = <<Run("client", name)>>
  <2>1. Other("client") = "server" /\ todo \in [Legs -> Seq(Operation)]
    BY <1>2 DEF Other, ThreadsTypeOK
  <2> QED
    BY ONLY <1>1, <1>2, <1>3, <2>1, Names, Takes
<1>5. /\ UNCHANGED <<Stays, Answered, Superseded, Open, Real, Quiet, Agree, Told>>
  BY <1>1 DEF Stays, Answered, Superseded, Open, Real, Quiet, Agree, Told, ServerListed
<1>6. ThreadsTypeOK'
  BY <1>1, <1>2, <1>3, <1>4 DEF ThreadsTypeOK, TypeOK
<1>7. OneInvite'
  BY <1>1, <1>2, <1>4 DEF Everywhere, OneInvite, InviteIsFirst, InviteLeads, Unbegun
<1>8. CallerMessages' /\ Outcome' /\ NoPhantomAnswer' /\ ByeOnlyAfterAnswer'
  BY <1>1, <1>2, <1>5 DEF Everywhere, CallerMessages, Outcome, NoPhantomAnswer, ByeOnlyAfterAnswer
<1>9. CalleeMessages'
  BY <1>1, <1>2, <1>3, <1>5 DEF Everywhere, CalleeMessages
<1>10. OnlyAcks'
  BY <1>1, <1>4, <1>5 DEF THInv, OnlyAcks, Acked
<1>11. ServerOutline'
  BY <1>1, <1>4, <1>5, ServerOutlineStays DEF THInv, Acked
<1>12. (clientKnown => Quiet) /\ Agree
  BY <1>1, ClientIdle DEF THInv
<1>13. ASSUME todo'["client"] = <<>> PROVE ClientOutline'
  BY <1>1, <1>5, <1>12, <1>13 DEF ClientOutline, At
\* The callee's message, its reason, and what the thread may count on.
<1>14. ASSUME clientKnown, NEW name \in MethodFor(m), todo'["client"] = <<Run("client", name)>>
       PROVE  ClientOutline'
  <2>1. bridged' /\ Quiet' /\ Agree'
    BY <1>1, <1>2, <1>5, <1>12, <1>14 DEF Everywhere, OneInvite
  <2>2. /\ m.code = 0 => m = Req("BYE")
        /\ m.code # 0 /\ m.method # "INVITE" => Superseded
        /\ InviteOk(m) => Answered
        /\ IsReject(m.code) => Superseded \/ callee = "declined"
    BY <1>2, <1>3 DEF Everywhere, CalleeMessages
  <2>3. CASE name = "onRinging"
    BY <1>14, <2>1, <2>3 DEF ClientOutline, Ringing, At
  <2>4. CASE name = "onOk" /\ IsOk(m.code)
    <3>1. Real
      BY <2>2, <2>4 DEF Real, InviteOk, IsOk
    <3> QED
      BY <1>5, <1>14, <2>1, <2>4, <3>1 DEF ClientOutline, Accepting, At
  <2>5. CASE name = "onReject" /\ IsReject(m.code)
    <3>1. Open
      BY <1>5, <2>1, <2>2, <2>5 DEF Quiet, Open, Answered
    <3> QED
      BY <1>5, <1>14, <2>1, <2>5, <3>1 DEF ClientOutline, Rejecting, At
  <2>6. CASE name = "onBye(request)"
    BY <1>14, <2>1, <2>6 DEF ClientOutline, HangingUp, At
  <2>7. m # Req("ACK") /\ m # Req("CANCEL")
    <3>1. Req("ACK").code = 0 /\ Req("CANCEL").code = 0
          /\ Req("ACK") # Req("BYE") /\ Req("CANCEL") # Req("BYE")
      BY DEF Req
    <3> QED
      BY <2>2, <3>1
  <2> QED
    BY <1>3, <2>3, <2>4, <2>5, <2>6, <2>7, MethodsFor
<1> QED
  BY <1>4, <1>6, <1>7, <1>8, <1>9, <1>10, <1>11, <1>13, <1>14 DEF THInv, Everywhere

\* A message for the handler that there is.
LEMMA ServerTakesStep ==
  ASSUME THInv, todo["server"] = <<>>, fromCaller # <<>>, NEW m, m = Head(fromCaller),
         ~(m = Req("INVITE") /\ ~serverKnown), NextFromCaller, Take("server", serverKnown, m),
         UNCHANGED <<serverVars, clientVars, bridged>>
  PROVE  THInv'
<1>1. /\ fromCaller' = Tail(fromCaller)
      /\ UNCHANGED <<up, fromCallee, caller, callee, bridged>>
      /\ UNCHANGED <<server, serverReq, serverKnown, toCaller>>
      /\ UNCHANGED <<client, clientReq, clientKnown, toCallee>>
  BY DEF NextFromCaller, serverVars, clientVars, agents
<1>2. ThreadsTypeOK /\ fromCaller \in Seq(Message) /\ serverKnown \in BOOLEAN /\ Everywhere
      /\ serverReq \in Method
  BY DEF THInv, Everywhere, ThreadsTypeOK, TypeOK
<1>3. /\ m \in Message /\ m \in InFlight(fromCaller) /\ m = fromCaller[1]
      /\ fromCaller' \in Seq(Message) /\ InFlight(fromCaller') \subseteq InFlight(fromCaller)
  BY <1>1, <1>2, TailHolds
<1>4. /\ todo' \in [Legs -> Seq(Operation)] /\ todo'["client"] = todo["client"]
      /\ \/ todo'["server"] = <<>>
         \/ serverKnown /\ \E name \in MethodFor(m) : todo'["server"] = <<Run("server", name)>>
  BY <1>2, <1>3, Names, Takes DEF ThreadsTypeOK, Other
<1>5. UNCHANGED <<Stays, Answered, Superseded, Open>>
  BY <1>1 DEF Stays, Answered, Superseded, Open, Told
<1>6. ThreadsTypeOK'
  BY <1>1, <1>2, <1>3, <1>4 DEF ThreadsTypeOK, TypeOK
<1>7. InviteIsFirst'
  <2>1. \A i \in 1..Len(fromCaller') : fromCaller'[i] # Req("INVITE")
    BY <1>1, <1>2, TailHasNoInvite DEF Everywhere, OneInvite, InviteIsFirst, InviteLeads
  <2>2. caller # "idle"
    BY <1>2 DEF Everywhere, OneInvite, InviteIsFirst, InviteLeads
  <2> QED
    BY <1>1, <2>1, <2>2 DEF InviteIsFirst, InviteLeads
<1>8. OneInvite'
  BY <1>1, <1>2, <1>4, <1>7 DEF Everywhere, OneInvite, Unbegun
<1>9. CalleeMessages' /\ Outcome' /\ NoPhantomAnswer' /\ ByeOnlyAfterAnswer'
  BY <1>1, <1>2, <1>5 DEF Everywhere, CalleeMessages, Outcome, NoPhantomAnswer, ByeOnlyAfterAnswer
<1>10. CallerMessages'
  BY <1>1, <1>2, <1>3, <1>5 DEF Everywhere, CallerMessages
\* A caller that stays has sent nothing but the ACK.
<1>11. Stays => m = Req("ACK") /\ Acked /\ fromCaller' = <<>>
  <2> SUFFICES ASSUME Stays
               PROVE  m = Req("ACK") /\ Acked /\ fromCaller' = <<>>
    OBVIOUS
  <2>1. Len(fromCaller) = 1
    BY DEF THInv, OnlyAcks
  <2>2. ~(m = Req("INVITE") /\ server = "NONE")
    BY <1>2 DEF Everywhere, OneInvite, Unbegun
  <2>3. m = Req("ACK") /\ Acked
    BY <1>3, <2>2 DEF THInv, OnlyAcks
  <2> QED
    BY <1>1, <1>2, <2>1, <2>3
<1>12. OnlyAcks'
  BY <1>1, <1>5, <1>11 DEF THInv, OnlyAcks
<1>13. ClientOutline'
  <2>1. ServerLegMoves
    BY <1>1, <1>5 DEF ServerLegMoves
  <2> QED
    BY <1>1, <1>4, <1>5, <2>1, ClientOutlineStays DEF THInv
<1>14. ASSUME todo'["server"] = <<>> PROVE ServerOutline'
  BY <1>14 DEF ServerOutline, At
<1>15. ASSUME NEW name \in MethodFor(m), todo'["server"] = <<Run("server", name)>>
       PROVE  ServerOutline'
  <2>1. Stays' => Acked' /\ fromCaller' = <<>>
    BY <1>1, <1>5, <1>11 DEF Acked
  <2>2. CASE name = "onACK"
    BY <1>15, <2>1, <2>2 DEF ServerOutline, Acking, At
  <2>3. ASSUME name # "onACK" PROVE ~Stays'
    <3>1. m = Req("ACK") => name = "onACK"
      <4>1. Req("ACK").code = 0 /\ Req("ACK") # Req("BYE") /\ Req("ACK") # Req("CANCEL")
        BY DEF Req
      <4>2. ~IsRinging(0) /\ ~IsOk(0) /\ ~IsReject(0)
        BY DEF IsRinging, IsOk, IsReject
      <4> QED
        BY <1>3, <4>1, <4>2, MethodsFor
    <3> QED
      BY <1>5, <1>11, <2>3, <3>1
  <2>4. /\ m.code # 0 => Superseded' /\ ~IsRinging(m.code)
        /\ m = Req("BYE") => Answered' /\ caller' \in {"hungup", "ended"}
    BY <1>1, <1>2, <1>3, <1>5 DEF Everywhere, CallerMessages
  <2>5. CASE name = "onCancel(request)"
    BY <1>15, <2>3, <2>5 DEF ServerOutline, Cancelling, At
  <2>6. CASE name = "onBye(request)" /\ m = Req("BYE")
    BY <1>15, <2>3, <2>4, <2>6 DEF ServerOutline, CallerHangingUp, At
  <2>7. CASE name \in {"onOk", "onReject"} /\ (IsOk(m.code) \/ IsReject(m.code))
    <3>1. ~IsOk(0) /\ ~IsReject(0)
      BY DEF IsOk, IsReject
    <3>2. m.code # 0
      BY <2>7, <3>1
    <3> QED
      BY <1>15, <2>3, <2>4, <2>7, <3>2 DEF ServerOutline, CallerResponding, At
  <2>8. ~IsRinging(m.code)
    BY <2>4 DEF IsRinging
  <2> QED
    BY <1>3, <2>2, <2>5, <2>6, <2>7, <2>8, MethodsFor
<1> QED
  BY <1>4, <1>6, <1>8, <1>9, <1>10, <1>12, <1>13, <1>14, <1>15 DEF THInv, Everywhere

\* What the INVITE is answered with at once: 100 when it is routed, 403 or
\* 100 and 486 when it is not, or nothing.
FirstAnswers == {<<>>, <<Resp(403, "INVITE")>>, <<Resp(100, "INVITE"), Resp(486, "INVITE")>>}

LEMMA FirstAnswersHold ==
  ASSUME NEW wire \in {<<>>, <<Resp(100, "INVITE")>>} \cup FirstAnswers
  PROVE  /\ wire \in Seq(Message) /\ AtMostOneOutcome(wire) /\ ~HasInviteOk(wire)
         /\ Req("BYE") \notin InFlight(wire)
         /\ \A m \in InFlight(wire) : m.code # 400
         /\ wire \in {<<>>, <<Resp(100, "INVITE")>>} => NoOutcome(wire)
<1>0. "INVITE" \in Method /\ "BYE" \in Method /\ 100 \in Status /\ 403 \in Status /\ 486 \in Status
  BY StatusCodes DEF Method
<1> DEFINE trying == Resp(100, "INVITE")
           forbidden == Resp(403, "INVITE")
           busy == Resp(486, "INVITE")
<1>1. /\ {trying, forbidden, busy} \subseteq Message
      /\ \A m \in {trying, forbidden, busy} : ~InviteOk(m) /\ m # Req("BYE") /\ m.code # 400
      /\ ~IsOutcome(trying)
  <2>1. {trying, forbidden, busy} \subseteq Message
    BY <1>0, ResponseIsMessage
  <2>2. \A m \in {trying, forbidden, busy} : m # Req("BYE")
    BY <1>0, ResponseIsNoRequest
  <2>3. trying.code = 100 /\ forbidden.code = 403 /\ busy.code = 486
    BY DEF Resp
  <2> QED
    BY <2>1, <2>2, <2>3, NotOk DEF InviteOk, IsOutcome
<1> HIDE DEF trying, forbidden, busy
<1>2. wire = <<>> \/ wire = <<trying>> \/ wire = <<forbidden>> \/ wire = <<trying, busy>>
  BY DEF FirstAnswers, trying, forbidden, busy
<1>3. wire \in Seq(Message) /\ InFlight(wire) \subseteq {trying, forbidden, busy}
  <2>1. trying \in Message /\ forbidden \in Message /\ busy \in Message
    BY <1>1
  <2>2. /\ InFlight(<<trying>>) = {trying} /\ InFlight(<<forbidden>>) = {forbidden}
        /\ InFlight(<<trying, busy>>) = {trying, busy} /\ InFlight(<<>>) = {}
    BY <2>1, LiteralHolds
  <2>3. /\ <<>> \in Seq(Message) /\ <<trying>> \in Seq(Message)
        /\ <<forbidden>> \in Seq(Message) /\ <<trying, busy>> \in Seq(Message)
    BY <2>1, LiteralHolds
  <2>4. InFlight(wire) \subseteq {trying, forbidden, busy}
    BY <1>2, <2>2
  <2> QED
    BY <1>2, <2>3, <2>4, Zenon
<1>4. AtMostOneOutcome(wire)
  <2>1. \A i \in 1..Len(wire) : i = 1 \/ (i = 2 /\ wire[1] = trying)
    <3>1. CASE wire = <<>>
      BY <3>1
    <3>2. CASE wire = <<trying>>
      BY <3>2
    <3>3. CASE wire = <<forbidden>>
      BY <3>3
    <3>4. CASE wire = <<trying, busy>>
      BY <3>4
    <3> QED
      BY <1>2, <3>1, <3>2, <3>3, <3>4
  <2> QED
    BY <1>1, <2>1 DEF AtMostOneOutcome
<1>5. wire = <<>> \/ wire = <<trying>> => NoOutcome(wire)
  BY <1>1, LiteralHolds DEF NoOutcome
<1> QED
  BY <1>1, <1>3, <1>4, <1>5 DEF HasInviteOk, trying

\* The INVITE, in whichever way it is served.
LEMMA InviteServed ==
  ASSUME NEW m, InviteMalformed(m) \/ InviteForbidden(m) \/ InviteStranded(m)
                \/ InviteBusy(m) \/ InviteRouted(m)
  PROVE  /\ NewInvite(m)
         /\ \/ \E wire \in FirstAnswers : ServerBecomes("FINISH", "INVITE", FALSE, wire)
            \/ ServerBecomes("TRYING", "INVITE", TRUE, <<Resp(100, "INVITE")>>)
         /\ \/ OnlyServerLeg
            \/ /\ ServerBecomes("TRYING", "INVITE", TRUE, <<Resp(100, "INVITE")>>)
               /\ ClientBecomes("TRYING", "OWN", TRUE, <<Req("INVITE")>>)
               /\ bridged' = TRUE
<1>1. CASE InviteMalformed(m) \/ InviteForbidden(m) \/ InviteBusy(m)
  <2>1. /\ <<>> \in FirstAnswers /\ <<Resp(403, "INVITE")>> \in FirstAnswers
        /\ <<Resp(100, "INVITE"), Resp(486, "INVITE")>> \in FirstAnswers
    BY DEF FirstAnswers
  <2>2. NewInvite(m) /\ OnlyServerLeg
    BY <1>1 DEF InviteMalformed, InviteForbidden, InviteBusy
  <2>3. \E wire \in FirstAnswers : ServerBecomes("FINISH", "INVITE", FALSE, wire)
    BY <1>1, <2>1 DEF InviteMalformed, InviteForbidden, InviteBusy
  <2> QED
    BY <2>2, <2>3
<1>2. CASE InviteStranded(m)
  BY <1>2 DEF InviteStranded
<1>3. CASE InviteRouted(m)
  BY <1>3 DEF InviteRouted
<1> QED
  BY <1>1, <1>2, <1>3

LEMMA InviteStep ==
  ASSUME THInv, todo["server"] = <<>>, fromCaller # <<>>, NEW m, m = Head(fromCaller),
         InviteMalformed(m) \/ InviteForbidden(m) \/ InviteStranded(m)
           \/ InviteBusy(m) \/ InviteRouted(m),
         UNCHANGED todo
  PROVE  THInv'
<1>1. /\ NewInvite(m)
      /\ \/ \E wire \in FirstAnswers : ServerBecomes("FINISH", "INVITE", FALSE, wire)
         \/ ServerBecomes("TRYING", "INVITE", TRUE, <<Resp(100, "INVITE")>>)
      /\ \/ OnlyServerLeg
         \/ /\ ServerBecomes("TRYING", "INVITE", TRUE, <<Resp(100, "INVITE")>>)
            /\ ClientBecomes("TRYING", "OWN", TRUE, <<Req("INVITE")>>)
            /\ bridged' = TRUE
  BY InviteServed
<1>2. /\ fromCaller' = Tail(fromCaller) /\ m = Req("INVITE") /\ ~serverKnown
      /\ UNCHANGED <<up, fromCallee, caller, callee>>
  BY <1>1 DEF NewInvite, NextFromCaller, agents
<1>3. Everywhere /\ ThreadsTypeOK /\ fromCaller \in Seq(Message) /\ toCallee \in Seq(Message)
  BY DEF THInv, Everywhere, ThreadsTypeOK, TypeOK
<1>4. /\ m \in Message /\ m = fromCaller[1] /\ 1 \in 1..Len(fromCaller)
      /\ fromCaller' \in Seq(Message) /\ InFlight(fromCaller') \subseteq InFlight(fromCaller)
  BY <1>2, <1>3, TailHolds
<1>5. /\ server = "NONE" /\ serverReq = "INVITE" /\ ~clientKnown /\ client = "NONE" /\ ~bridged
      /\ toCaller = <<>> /\ caller = "calling" /\ todo["client"] = <<>>
  BY <1>2, <1>3, <1>4 DEF Everywhere, OneInvite, InviteIsFirst, InviteLeads, Unbegun
<1>6. /\ serverReq' = "INVITE" /\ ~Superseded' /\ Stays /\ Stays' /\ Answered' = Answered
      /\ \/ server' = "FINISH" /\ ~serverKnown'
         \/ server' = "TRYING" /\ serverKnown' /\ toCaller' \in {<<>>, <<Resp(100, "INVITE")>>}
      /\ toCaller' \in {<<>>, <<Resp(100, "INVITE")>>} \cup FirstAnswers
  <2>1. \A wire \in Seq(Message) :
          Sent("server", toCaller, wire) = wire \/ Sent("server", toCaller, wire) = <<>>
    BY <1>5 DEF Sent
  <2>2. \A wire \in {<<>>, <<Resp(100, "INVITE")>>} \cup FirstAnswers : wire \in Seq(Message)
    BY FirstAnswersHold
  <2>3. serverReq' = "INVITE" /\ Stays /\ Stays' /\ Answered' = Answered
    BY <1>1, <1>2, <1>5 DEF ServerBecomes, Stays, Answered
  <2>4. ~Superseded'
    BY <2>3 DEF Superseded
  <2>5. ASSUME NEW wire \in FirstAnswers, ServerBecomes("FINISH", "INVITE", FALSE, wire)
        PROVE  /\ server' = "FINISH" /\ ~serverKnown'
               /\ toCaller' \in {<<>>, <<Resp(100, "INVITE")>>} \cup FirstAnswers
    BY <2>1, <2>2, <2>5 DEF ServerBecomes
  <2>6. ASSUME ServerBecomes("TRYING", "INVITE", TRUE, <<Resp(100, "INVITE")>>)
        PROVE  server' = "TRYING" /\ serverKnown' /\ toCaller' \in {<<>>, <<Resp(100, "INVITE")>>}
    BY <2>1, <2>2, <2>6 DEF ServerBecomes
  <2> QED
    BY <1>1, <2>3, <2>4, <2>5, <2>6
<1>7. /\ toCaller' \in Seq(Message) /\ AtMostOneOutcome(toCaller') /\ ~HasInviteOk(toCaller')
      /\ Req("BYE") \notin InFlight(toCaller')
      /\ \A n \in InFlight(toCaller') : n.code # 400
      /\ toCaller' \in {<<>>, <<Resp(100, "INVITE")>>} => NoOutcome(toCaller')
  BY <1>6, FirstAnswersHold
<1>8. \/ UNCHANGED <<client, clientReq, clientKnown, toCallee, bridged>>
      \/ /\ client' = "TRYING" /\ clientReq' = "OWN" /\ clientKnown' /\ bridged'
         /\ server' = "TRYING" /\ toCallee' = Sent("client", toCallee, <<Req("INVITE")>>)
  BY <1>1 DEF OnlyServerLeg, clientVars, ServerBecomes, ClientBecomes
<1>9. /\ toCallee' \in Seq(Message)
      /\ Req("CANCEL") \notin InFlight(toCallee') \/ Req("CANCEL") \in InFlight(toCallee)
      /\ Req("BYE") \notin InFlight(toCallee') \/ Req("BYE") \in InFlight(toCallee)
  <2>1. "INVITE" \in Method /\ "BYE" \in Method /\ "CANCEL" \in Method
    BY DEF Method
  <2>2. Req("INVITE") \in Message /\ Req("CANCEL") # Req("INVITE") /\ Req("BYE") # Req("INVITE")
    BY <2>1, RequestIsMessage, RequestsDiffer
  <2>3. /\ <<Req("INVITE")>> \in Seq(Message) /\ InFlight(<<Req("INVITE")>>) = {Req("INVITE")}
    BY <2>2, LiteralHolds
  <2>4. /\ Sent("client", toCallee, <<Req("INVITE")>>) \in Seq(Message)
        /\ InFlight(Sent("client", toCallee, <<Req("INVITE")>>))
             \subseteq InFlight(toCallee) \cup {Req("INVITE")}
    BY <1>3, <2>3, SentHolds
  <2>5. CASE toCallee' = toCallee
    BY <1>3, <2>5
  <2>6. CASE toCallee' = Sent("client", toCallee, <<Req("INVITE")>>)
    BY <2>2, <2>4, <2>6
  <2> QED
    BY <1>8, <2>5, <2>6
<1>10. ThreadsTypeOK'
  <2>1. /\ server' \in HandlerState /\ serverReq' \in Method /\ serverKnown' \in BOOLEAN
    BY <1>1 DEF ServerBecomes, HandlerState, MessageState, Method
  <2>2. /\ client' \in HandlerState /\ clientReq' \in Method /\ clientKnown' \in BOOLEAN
        /\ bridged' \in BOOLEAN
    <3>1. /\ client \in HandlerState /\ clientReq \in Method /\ clientKnown \in BOOLEAN
          /\ bridged \in BOOLEAN
      BY <1>3 DEF ThreadsTypeOK, TypeOK
    <3>2. "TRYING" \in HandlerState /\ "OWN" \in Method
      BY DEF HandlerState, MessageState, Method
    <3>3. CASE OnlyServerLeg
      BY <3>1, <3>3 DEF OnlyServerLeg, clientVars
    <3>4. CASE ClientBecomes("TRYING", "OWN", TRUE, <<Req("INVITE")>>) /\ bridged' = TRUE
      BY <3>2, <3>4 DEF ClientBecomes
    <3> QED
      BY <1>1, <3>3, <3>4
  <2> QED
    BY <1>2, <1>3, <1>4, <1>7, <1>9, <2>1, <2>2 DEF ThreadsTypeOK, TypeOK
<1>11. OneInvite'
  <2>1. \A i \in 1..Len(fromCaller') : fromCaller'[i] # Req("INVITE")
    BY <1>2, <1>3, TailHasNoInvite DEF Everywhere, OneInvite, InviteIsFirst, InviteLeads
  <2> QED
    BY <1>2, <1>5, <1>6, <1>8, <2>1 DEF OneInvite, InviteIsFirst, InviteLeads, Unbegun
<1>12. CallerMessages'
  BY <1>2, <1>3, <1>4, <1>5, <1>7 DEF Everywhere, CallerMessages, Superseded
<1>13. CalleeMessages'
  BY <1>2, <1>3, <1>5, <1>6, <1>9 DEF Everywhere, CalleeMessages, Superseded
<1>14. Outcome' /\ NoPhantomAnswer' /\ ByeOnlyAfterAnswer'
  BY <1>2, <1>3, <1>5, <1>6, <1>7, <1>9
     DEF Everywhere, Outcome, NoPhantomAnswer, ByeOnlyAfterAnswer
<1>15. OnlyAcks'
  <2>1. Len(fromCaller) = 1
    BY <1>6 DEF THInv, OnlyAcks
  <2>2. fromCaller' = <<>>
    BY <1>2, <1>3, <2>1
  <2> QED
    BY <1>6, <1>7, <2>2 DEF OnlyAcks
<1>16. ClientOutline'
  <2>1. clientKnown' => Quiet'
    BY <1>2, <1>5, <1>6, <1>7, <1>8 DEF Quiet, Open, Told
  <2>2. Agree'
    BY <1>5, <1>6, <1>8 DEF Agree, ServerListed, Waiting
  <2> QED
    BY <1>5, <2>1, <2>2 DEF ClientOutline, At
<1>17. ServerOutline'
  BY DEF ServerOutline, At
<1> QED
  BY <1>10, <1>11, <1>12, <1>13, <1>14, <1>15, <1>16, <1>17 DEF THInv, Everywhere

LEMMA ServerTakes ==
  ASSUME THInv, ServerThreadTakes
  PROVE  THInv'
<1>1. todo["server"] = <<>> /\ fromCaller # <<>>
  BY DEF ServerThreadTakes
<1>2. PICK m \in {Head(fromCaller)} :
        \/ /\ InviteMalformed(m) \/ InviteForbidden(m) \/ InviteStranded(m)
              \/ InviteBusy(m) \/ InviteRouted(m)
           /\ UNCHANGED todo
        \/ /\ ~(m = Req("INVITE") /\ ~serverKnown)
           /\ NextFromCaller
           /\ Take("server", serverKnown, m)
           /\ UNCHANGED <<serverVars, clientVars, bridged>>
  BY DEF ServerThreadTakes
<1> QED
  BY <1>1, <1>2, InviteStep, ServerTakesStep

-----------------------------------------------------------------------------
(* The caller's agent, whichever way the threads are interrupted. *)

\* What the caller says in turning to a state, and what it has heard before.
CallerSays(state, messages) ==
  /\ state \in CallerState \ {"idle"} /\ messages \in Seq(Message)
  /\ caller' = state /\ fromCaller' = Sent("server", fromCaller, messages)
  /\ \A m \in InFlight(messages) :
       /\ m # Req("INVITE")
       /\ m.code # 0 => Superseded /\ ~IsRinging(m.code)
       /\ m = Req("BYE") => Answered /\ state = "hungup"
  /\ caller \in {"hungup", "ended"} => state \in {"hungup", "ended"}
  /\ state \in {"calling", "proceeding", "talking"} =>
       \/ /\ messages = <<>> /\ caller \in {"calling", "proceeding", "talking"}
          /\ state = "talking" <=> caller = "talking"
       \/ /\ messages = <<Req("ACK")>> /\ state = "talking"
          /\ caller \in {"calling", "proceeding"} /\ HasInviteOk(toCaller)
  /\ state \in {"talking", "hungup", "ended"} => Told
  /\ state \in {"talking", "hungup"} => Answered

\* What is left of the messages to the caller.
CallerHears(state) ==
  /\ toCaller' \in Seq(Message) /\ InFlight(toCaller') \subseteq InFlight(toCaller)
  /\ AtMostOneOutcome(toCaller')
  /\ ~NoOutcome(toCaller') =>
       ~NoOutcome(toCaller) /\ state \in {"calling", "proceeding", "cancelling"}

LEMMA AnswersHeard ==
  ASSUME THInv
  PROVE  /\ caller \in {"talking", "hungup"} \/ HasInviteOk(toCaller) => Answered
         /\ caller \in {"talking", "hungup", "ended"} \/ HasInviteOk(toCaller) => Told
         /\ "server" \in up => \A state : CallerDoes(state, <<>>) => fromCaller' = fromCaller
<1>1. fromCaller \in Seq(Message)
  BY DEF THInv, Everywhere, ThreadsTypeOK, TypeOK
<1>2. \A state : CallerDoes(state, <<>>) => fromCaller' = fromCaller
  BY <1>1 DEF CallerDoes, Sent
<1> QED
  BY <1>2, InviteOkIsOutcome DEF THInv, Everywhere, NoPhantomAnswer, CallerMessages, Told

LEMMA CallerSilent ==
  ASSUME THInv, caller # "idle", NEW state \in CallerState \ {"idle"}, CallerDoes(state, <<>>),
         \/ state = caller
         \/ caller = "calling" /\ state = "proceeding"
         \/ caller = "hungup" /\ state = "ended"
  PROVE  CallerSays(state, <<>>)
BY LiteralHolds, AnswersHeard DEF CallerSays, CallerDoes

LEMMA CallerRequests ==
  ASSUME THInv, NEW state \in CallerState \ {"idle"}, NEW method \in {"CANCEL", "BYE", "ACK"},
         CallerDoes(state, <<Req(method)>>),
         \/ method = "CANCEL" /\ caller = "proceeding" /\ state = "cancelling"
         \/ method = "BYE" /\ caller = "talking" /\ state = "hungup"
         \/ /\ method = "ACK" /\ state = "talking" /\ caller \in {"calling", "proceeding"}
            /\ HasInviteOk(toCaller)
         \/ /\ method = "ACK" /\ state = "ended" /\ caller \in {"calling", "proceeding", "cancelling"}
            /\ ~NoOutcome(toCaller)
  PROVE  CallerSays(state, <<Req(method)>>)
<1> DEFINE m == Req(method)
           messages == <<m>>
<1>1. method \in Method \ {"INVITE"} /\ "BYE" \in Method
  BY DEF Method
<1>2. m \in Message /\ m.code = 0 /\ m # Req("INVITE")
  BY <1>1, RequestIsMessage DEF Req
<1>3. m = Req("BYE") <=> method = "BYE"
  BY <1>1, RequestsDiffer
<1>4. caller' = state /\ fromCaller' = Sent("server", fromCaller, messages)
  BY DEF CallerDoes
<1>5. method = "ACK" => messages = <<Req("ACK")>>
  OBVIOUS
<1> HIDE DEF m
<1>6. messages \in Seq(Message) /\ InFlight(messages) = {m}
  BY <1>2, LiteralHolds
<1> HIDE DEF messages
<1>7. CallerSays(state, messages)
  BY <1>2, <1>3, <1>4, <1>5, <1>6, AnswersHeard DEF CallerSays, Told
<1> QED
  BY <1>7 DEF messages, m

LEMMA CallerHangsUpLate ==
  ASSUME THInv, caller = "cancelling", HasInviteOk(toCaller),
         CallerDoes("hungup", <<Req("ACK"), Req("BYE")>>)
  PROVE  CallerSays("hungup", <<Req("ACK"), Req("BYE")>>)
<1> DEFINE messages == <<Req("ACK"), Req("BYE")>>
<1>1. "ACK" \in Method \ {"INVITE"} /\ "BYE" \in Method \ {"INVITE"}
  BY DEF Method
<1>2. messages \in Seq(Message) /\ \A m \in InFlight(messages) : m.code = 0 /\ m # Req("INVITE")
  BY <1>1, RequestLists
<1>3. caller' = "hungup" /\ fromCaller' = Sent("server", fromCaller, messages)
  BY DEF CallerDoes
<1> HIDE DEF messages
<1>4. CallerSays("hungup", messages)
  BY <1>2, <1>3, AnswersHeard DEF CallerSays, CallerState
<1> QED
  BY <1>4 DEF messages

LEMMA CallerConfirmsBye ==
  ASSUME THInv, Superseded, NEW state \in CallerState \ {"idle"}, NEW code \in {200, 481},
         CallerDoes(state, <<Resp(code, "BYE")>>),
         \/ state = "ended" /\ caller \in {"talking", "hungup", "ended"}
         \/ state = "cancelling" /\ caller = "cancelling"
  PROVE  CallerSays(state, <<Resp(code, "BYE")>>)
<1> DEFINE m == Resp(code, "BYE")
           messages == <<m>>
<1>1. "BYE" \in Method /\ "INVITE" \in Method /\ code \in Status
  BY DEF Method, Status
<1>2. m \in Message /\ m # Req("INVITE") /\ m # Req("BYE")
  BY <1>1, ResponseIsMessage, ResponseIsNoRequest
<1>3. ~IsRinging(m.code)
  BY DEF IsRinging, Resp
<1>4. caller' = state /\ fromCaller' = Sent("server", fromCaller, messages)
  BY DEF CallerDoes
<1> HIDE DEF m
<1>5. messages \in Seq(Message) /\ InFlight(messages) = {m}
  BY <1>2, LiteralHolds
<1> HIDE DEF messages
<1>6. state = "ended" => Told
  BY AnswersHeard
<1>7. CallerSays(state, messages)
  BY <1>2, <1>3, <1>4, <1>5, <1>6 DEF CallerSays
<1> QED
  BY <1>7 DEF messages, m

\* A message that the caller takes, and what it tells.
LEMMA CallerListens ==
  ASSUME THInv, CallerTakes, NEW m, m = Head(toCaller)
  PROVE  /\ m \in Message /\ caller \in CallerState \ {"idle"}
         /\ toCaller' \in Seq(Message) /\ InFlight(toCaller') \subseteq InFlight(toCaller)
         /\ AtMostOneOutcome(toCaller')
         /\ ~NoOutcome(toCaller') =>
              ~NoOutcome(toCaller) /\ ~IsOutcome(m) /\ caller \in {"calling", "proceeding", "cancelling"}
         /\ IsOutcome(m) => ~NoOutcome(toCaller)
         /\ InviteOk(m) => HasInviteOk(toCaller)
         /\ m = Req("BYE") => Superseded /\ caller \notin {"calling", "proceeding"}
         /\ m.method = "INVITE" /\ m.code = 400 => caller \in {"hungup", "ended"}
<1>1. /\ toCaller # <<>> /\ toCaller' = Tail(toCaller) /\ toCaller \in Seq(Message)
      /\ Everywhere /\ caller \in CallerState
  BY DEF CallerTakes, THInv, Everywhere, ThreadsTypeOK, TypeOK
<1>2. /\ m \in Message /\ m \in InFlight(toCaller)
      /\ toCaller' \in Seq(Message) /\ InFlight(toCaller') \subseteq InFlight(toCaller)
  BY <1>1, TailHolds
<1>3. /\ AtMostOneOutcome(toCaller') /\ (IsOutcome(m) => NoOutcome(toCaller') /\ ~NoOutcome(toCaller))
      /\ ~NoOutcome(toCaller') => ~NoOutcome(toCaller)
  BY <1>1, TakenOutcome DEF Everywhere, Outcome
<1>4. caller # "idle"
  BY <1>1 DEF Everywhere, OneInvite, InviteIsFirst, InviteLeads, Unbegun
<1>5. m = Req("BYE") => Superseded /\ caller \notin {"calling", "proceeding"}
  BY <1>1, <1>2 DEF THInv, OnlyAcks, Stays, Everywhere, CallerMessages
<1> QED
  BY <1>1, <1>2, <1>3, <1>4, <1>5 DEF Everywhere, CallerMessages, Outcome, HasInviteOk

\* What the caller does with a response to its INVITE, and that each of them
\* but a provisional one is an outcome.
LEMMA InviteResponses ==
  ASSUME NEW code \in 0..699, CallerTakesInviteResponse(code)
  PROVE  \/ code < 200 /\ caller = "calling" /\ CallerDoes("proceeding", <<>>)
         \/ /\ IsOk(code) /\ caller \in {"calling", "proceeding"}
            /\ CallerDoes("talking", <<Req("ACK")>>)
         \/ /\ IsOk(code) /\ caller = "cancelling"
            /\ CallerDoes("hungup", <<Req("ACK"), Req("BYE")>>)
         \/ /\ code >= 300 /\ caller \in {"calling", "proceeding", "cancelling"}
            /\ CallerDoes("ended", <<Req("ACK")>>)
         \/ CallerDoes(caller, <<>>)
<1>1. IsOk(code) => ~(code < 200) /\ ~(code >= 300)
  BY DEF IsOk
<1>2. code < 200 => ~(code >= 300)
  OBVIOUS
<1>3. CASE code < 200 /\ caller = "calling"
  BY <1>1, <1>2, <1>3 DEF CallerTakesInviteResponse
<1>4. CASE IsOk(code) /\ caller \in {"calling", "proceeding"}
  BY <1>1, <1>4 DEF CallerTakesInviteResponse
<1>5. CASE IsOk(code) /\ caller = "cancelling"
  BY <1>1, <1>5 DEF CallerTakesInviteResponse
<1>6. CASE code >= 300 /\ caller \in {"calling", "proceeding", "cancelling"}
  BY <1>1, <1>2, <1>6 DEF CallerTakesInviteResponse
<1> QED
  BY <1>3, <1>4, <1>5, <1>6 DEF CallerTakesInviteResponse

LEMMA CallerTakesSaying ==
  ASSUME THInv, CallerTakes, "server" \in up
  PROVE  \E state, messages : CallerSays(state, messages) /\ CallerHears(state)
<1> DEFINE m == Head(toCaller)
<1>0. /\ m \in Message /\ caller \in CallerState \ {"idle"}
      /\ toCaller' \in Seq(Message) /\ InFlight(toCaller') \subseteq InFlight(toCaller)
      /\ AtMostOneOutcome(toCaller')
      /\ ~NoOutcome(toCaller') =>
           ~NoOutcome(toCaller) /\ ~IsOutcome(m) /\ caller \in {"calling", "proceeding", "cancelling"}
      /\ IsOutcome(m) => ~NoOutcome(toCaller)
      /\ InviteOk(m) => HasInviteOk(toCaller)
      /\ m = Req("BYE") => Superseded /\ caller \notin {"calling", "proceeding"}
      /\ m.method = "INVITE" /\ m.code = 400 => caller \in {"hungup", "ended"}
  BY CallerListens
<1>1. /\ m = Req("BYE") => CallerTakesBye
      /\ m # Req("BYE") /\ m.code # 0 /\ m.method = "INVITE" => CallerTakesInviteResponse(m.code)
      /\ m # Req("BYE") /\ ~(m.code # 0 /\ m.method = "INVITE") =>
           (caller = "hungup" /\ CallerDoes("ended", <<>>)) \/ CallerDoes(caller, <<>>)
  <2>1. Req("BYE").code = 0
    BY DEF Req
  <2> QED
    BY <2>1 DEF CallerTakes
<1>2. m.code \in 0..699 /\ {"proceeding", "talking", "hungup", "ended"} \subseteq CallerState \ {"idle"}
  BY <1>0 DEF Message, CallerState
<1> HIDE DEF m
\* Whoever keeps its state has nothing new to hear of.
<1>3. ASSUME CallerDoes(caller, <<>>) PROVE CallerSays(caller, <<>>) /\ CallerHears(caller)
  BY <1>0, <1>3, CallerSilent DEF CallerHears
<1>4. ASSUME caller = "hungup", CallerDoes("ended", <<>>)
      PROVE  CallerSays("ended", <<>>) /\ CallerHears("ended")
  BY <1>0, <1>2, <1>4, CallerSilent DEF CallerHears
<1>5. CASE m = Req("BYE")
  <2>1. CASE caller = "talking"
    <3>1. PICK code \in {200, 481} : code = 200
      OBVIOUS
    <3>2. CallerDoes("ended", <<Resp(code, "BYE")>>)
      BY <1>1, <1>5, <2>1, <3>1 DEF CallerTakesBye
    <3>3. CallerSays("ended", <<Resp(code, "BYE")>>) /\ CallerHears("ended")
      BY <1>0, <1>2, <1>5, <2>1, <3>2, CallerConfirmsBye DEF CallerHears
    <3> QED
      BY <3>3
  <2>2. CASE caller # "talking"
    <3>1. PICK code \in {200, 481} :
            CallerDoes(IF caller = "hungup" THEN "ended" ELSE caller, <<Resp(code, "BYE")>>)
      BY <1>1, <1>5, <2>2 DEF CallerTakesBye
    <3>2. PICK state \in CallerState \ {"idle"} :
            /\ CallerDoes(state, <<Resp(code, "BYE")>>)
            /\ \/ state = "ended" /\ caller \in {"talking", "hungup", "ended"}
               \/ state = "cancelling" /\ caller = "cancelling"
      BY <1>0, <1>2, <1>5, <2>2, <3>1 DEF CallerState
    <3>3. CallerSays(state, <<Resp(code, "BYE")>>) /\ CallerHears(state)
      BY <1>0, <1>5, <3>2, CallerConfirmsBye DEF CallerHears
    <3> QED
      BY <3>3
  <2> QED
    BY <2>1, <2>2
<1>6. CASE m # Req("BYE") /\ m.code # 0 /\ m.method = "INVITE"
  <2>0. PICK code \in 0..699 : code = m.code
    BY <1>2
  <2>1. \/ code < 200 /\ caller = "calling" /\ CallerDoes("proceeding", <<>>)
        \/ /\ IsOk(code) /\ caller \in {"calling", "proceeding"}
           /\ CallerDoes("talking", <<Req("ACK")>>)
        \/ /\ IsOk(code) /\ caller = "cancelling"
           /\ CallerDoes("hungup", <<Req("ACK"), Req("BYE")>>)
        \/ /\ code >= 300 /\ caller \in {"calling", "proceeding", "cancelling"}
           /\ CallerDoes("ended", <<Req("ACK")>>)
        \/ CallerDoes(caller, <<>>)
    <3>1. CallerTakesInviteResponse(code)
      BY <1>1, <1>6, <2>0
    <3> QED
      BY <3>1, InviteResponses
  <2>2. CASE caller = "calling" /\ CallerDoes("proceeding", <<>>)
    <3>1. CallerSays("proceeding", <<>>)
      BY <1>2, <2>2, CallerSilent
    <3>2. CallerHears("proceeding")
      BY <1>0 DEF CallerHears
    <3> QED
      BY <3>1, <3>2
  <2>3. CASE /\ IsOk(code) /\ caller \in {"calling", "proceeding"}
             /\ CallerDoes("talking", <<Req("ACK")>>)
    <3>1. InviteOk(m) /\ IsOutcome(m)
      BY <1>6, <2>0, <2>3 DEF InviteOk, IsOutcome, IsOk
    <3>2. CallerSays("talking", <<Req("ACK")>>)
      BY <1>0, <1>2, <2>3, <3>1, CallerRequests
    <3>3. CallerHears("talking")
      BY <1>0, <3>1 DEF CallerHears
    <3> QED
      BY <3>2, <3>3
  <2>4. CASE /\ IsOk(code) /\ caller = "cancelling"
             /\ CallerDoes("hungup", <<Req("ACK"), Req("BYE")>>)
    <3>1. InviteOk(m) /\ IsOutcome(m)
      BY <1>6, <2>0, <2>4 DEF InviteOk, IsOutcome, IsOk
    <3>2. CallerSays("hungup", <<Req("ACK"), Req("BYE")>>)
      BY <1>0, <2>4, <3>1, CallerHangsUpLate
    <3>3. CallerHears("hungup")
      BY <1>0, <3>1 DEF CallerHears
    <3> QED
      BY <3>2, <3>3
  <2>5. CASE /\ code >= 300 /\ caller \in {"calling", "proceeding", "cancelling"}
             /\ CallerDoes("ended", <<Req("ACK")>>)
    <3>1. code # 400
      BY <1>0, <1>6, <2>0, <2>5
    <3>2. IsOutcome(m)
      BY <1>6, <2>0, <2>5, <3>1 DEF IsOutcome
    <3>3. CallerSays("ended", <<Req("ACK")>>)
      BY <1>0, <1>2, <2>5, <3>2, CallerRequests
    <3>4. CallerHears("ended")
      BY <1>0, <3>2 DEF CallerHears
    <3> QED
      BY <3>3, <3>4
  <2> QED
    BY <1>3, <2>1, <2>2, <2>3, <2>4, <2>5
<1>7. CASE m # Req("BYE") /\ ~(m.code # 0 /\ m.method = "INVITE")
  BY <1>1, <1>3, <1>4, <1>7
<1> QED
  BY <1>5, <1>6, <1>7

LEMMA CallerActsSaying ==
  ASSUME THInv, CallerActs, ~CallerDials
  PROVE  \E state, messages : CallerSays(state, messages) /\ CallerHears(state)
<1>0. /\ toCaller \in Seq(Message) /\ AtMostOneOutcome(toCaller)
      /\ ~NoOutcome(toCaller) => caller \in {"calling", "proceeding", "cancelling"}
      /\ {"cancelling", "hungup"} \subseteq CallerState \ {"idle"}
  BY DEF THInv, Everywhere, ThreadsTypeOK, TypeOK, Outcome, CallerState
<1>1. CASE CallerCancels /\ UNCHANGED toCaller
  <2>1. CallerSays("cancelling", <<Req("CANCEL")>>)
    BY <1>0, <1>1, CallerRequests DEF CallerCancels
  <2>2. CallerHears("cancelling")
    BY <1>0, <1>1 DEF CallerHears
  <2> QED
    BY <2>1, <2>2
<1>2. CASE CallerHangsUp /\ UNCHANGED toCaller
  <2>1. CallerSays("hungup", <<Req("BYE")>>)
    BY <1>0, <1>2, CallerRequests DEF CallerHangsUp
  <2>2. CallerHears("hungup")
    BY <1>0, <1>2 DEF CallerHears, CallerHangsUp
  <2> QED
    BY <2>1, <2>2
<1> QED
  BY <1>1, <1>2, CallerTakesSaying DEF CallerActs

LEMMA CallerStepSaying ==
  ASSUME THInv, CallerActs, ~CallerDials, UNCHANGED todo,
         NEW state, NEW messages, CallerSays(state, messages), CallerHears(state)
  PROVE  THInv'
<1>1. /\ UNCHANGED <<server, serverReq, serverKnown, client, clientReq, clientKnown, toCallee>>
      /\ UNCHANGED <<bridged, up, fromCallee, callee>>
  BY DEF CallerActs, clientVars
<1>2. /\ Everywhere /\ OnlyAcks /\ ClientOutline /\ ServerOutline
      /\ fromCaller \in Seq(Message) /\ todo \in [Legs -> Seq(Operation)]
  BY DEF THInv, Everywhere, ThreadsTypeOK, TypeOK
<1>3. server # "NONE"
  BY <1>2 DEF Everywhere, OneInvite, Unbegun, CallerActs, CallerTakes, CallerCancels, CallerHangsUp
<1>4. /\ caller' = state /\ state \in CallerState \ {"idle"} /\ messages \in Seq(Message)
      /\ fromCaller' = Sent("server", fromCaller, messages)
      /\ fromCaller' \in Seq(Message)
      /\ InFlight(fromCaller') \subseteq InFlight(fromCaller) \cup InFlight(messages)
  BY <1>2, SentHolds DEF CallerSays
<1>5. /\ toCaller' \in Seq(Message) /\ InFlight(toCaller') \subseteq InFlight(toCaller)
      /\ HasInviteOk(toCaller') => HasInviteOk(toCaller)
      /\ Superseded' = Superseded /\ Answered' = Answered
  BY <1>1 DEF CallerHears, HasInviteOk, Superseded, Answered
<1>6. Told' => Told
  BY <1>4 DEF Told, CallerSays, CallerHears
\* A caller that stays says nothing, or confirms the answer it was waiting for.
<1>7. ASSUME Stays'
      PROVE  /\ Stays
             /\ \/ /\ fromCaller' = fromCaller /\ caller \in {"calling", "proceeding", "talking"}
                   /\ caller' = "talking" <=> caller = "talking"
                \/ /\ fromCaller' \in {<<>>, <<Req("ACK")>>} /\ caller' = "talking"
                   /\ caller \in {"calling", "proceeding"} /\ HasInviteOk(toCaller)
                   /\ server = "OK" /\ ~Superseded /\ todo["server"] = <<>>
  <2>1. state \in {"calling", "proceeding", "talking"}
    BY <1>4, <1>7 DEF Stays
  <2>2. CASE /\ messages = <<>> /\ caller \in {"calling", "proceeding", "talking"}
             /\ state = "talking" <=> caller = "talking"
    BY <1>2, <1>4, <2>2 DEF Sent, Stays
  <2>3. CASE /\ messages = <<Req("ACK")>> /\ state = "talking"
             /\ caller \in {"calling", "proceeding"} /\ HasInviteOk(toCaller)
    <3>1. Stays /\ server = "OK" /\ ~Superseded /\ ~Acked
      BY <1>2, <2>3 DEF Stays, OnlyAcks, Acked
    <3>2. fromCaller = <<>>
      BY <1>2, <1>3, <3>1 DEF OnlyAcks
    <3>3. todo["server"] = <<>>
      BY <1>2, <3>1 DEF ServerOutline, Acking, At
    <3>4. fromCaller' \in {<<>>, <<Req("ACK")>>}
      BY <1>4, <2>3, <3>2 DEF Sent
    <3> QED
      BY <1>4, <2>3, <3>1, <3>3, <3>4
  <2> QED
    BY <2>1, <2>2, <2>3 DEF CallerSays
<1>8. ThreadsTypeOK'
  BY <1>1, <1>2, <1>4, <1>5 DEF Everywhere, ThreadsTypeOK, TypeOK
<1>9. OneInvite'
  <2>1. Req("INVITE") \notin InFlight(messages)
    BY DEF CallerSays
  <2>2. \A i \in 1..Len(fromCaller') :
          fromCaller'[i] = Req("INVITE") => i \in 1..Len(fromCaller) /\ fromCaller[i] = Req("INVITE")
    BY <1>2, <1>4, <2>1, SentAddsNoInvite
  <2> QED
    BY <1>1, <1>2, <1>3, <1>4, <2>2 DEF Everywhere, OneInvite, InviteIsFirst, InviteLeads, Unbegun
<1>10. CallerMessages'
  BY <1>1, <1>2, <1>4, <1>5, SMTT(20) DEF Everywhere, CallerMessages, CallerSays
<1>11. CalleeMessages' /\ Outcome' /\ NoPhantomAnswer' /\ ByeOnlyAfterAnswer'
  <2>1. CalleeMessages' /\ ByeOnlyAfterAnswer'
    BY <1>1, <1>2, <1>5 DEF Everywhere, CalleeMessages, ByeOnlyAfterAnswer
  <2>2. Outcome'
    BY <1>4 DEF Outcome, CallerHears
  <2>3. NoPhantomAnswer'
    BY <1>2, <1>4, <1>5 DEF Everywhere, NoPhantomAnswer, CallerSays
  <2> QED
    BY <2>1, <2>2, <2>3
<1>12. OnlyAcks'
  <2> SUFFICES ASSUME Stays'
               PROVE  OnlyAcks'
    BY DEF OnlyAcks
  <2>1. Stays
    BY <1>7
  <2>2. CASE /\ fromCaller' = fromCaller /\ caller \in {"calling", "proceeding", "talking"}
             /\ caller' = "talking" <=> caller = "talking"
    BY <1>1, <1>2, <1>3, <1>5, <2>1, <2>2 DEF OnlyAcks, Acked
  <2>3. CASE /\ fromCaller' \in {<<>>, <<Req("ACK")>>} /\ caller' = "talking"
             /\ server = "OK" /\ ~Superseded /\ todo["server"] = <<>>
    BY <1>1, <1>5, <2>3 DEF OnlyAcks, Acked
  <2> QED
    BY <1>7, <2>2, <2>3
<1>13. ServerOutline'
  <2>1. Superseded => Superseded'
    BY <1>5
  <2>2. Answered => Answered'
    BY <1>5
  <2>3. caller \in {"hungup", "ended"} => caller' \in {"hungup", "ended"}
    BY <1>4 DEF CallerSays
  <2>4. Stays' => Stays /\ (Acked /\ fromCaller = <<>> => Acked' /\ fromCaller' = <<>>)
    BY <1>1, <1>5, <1>7 DEF Acked
  <2> QED
    BY <1>2, <2>1, <2>2, <2>3, <2>4, ServerOutlineStays
<1>14. ClientOutline'
  <2>1. ServerLegMoves
    BY <1>1, <1>7 DEF ServerLegMoves
  <2>2. (Superseded => Superseded') /\ (Answered => Answered') /\ (Open => Open')
    BY <1>5, <1>6 DEF Open
  <2> QED
    BY <1>1, <1>2, <2>1, <2>2, ClientOutlineStays
<1> QED
  BY <1>8, <1>9, <1>10, <1>11, <1>12, <1>13, <1>14 DEF THInv, Everywhere

LEMMA CallerDialsStep ==
  ASSUME THInv, CallerActs, CallerDials, UNCHANGED todo
  PROVE  THInv'
<1>1. /\ UNCHANGED <<server, serverReq, serverKnown, client, clientReq, clientKnown, toCallee>>
      /\ UNCHANGED <<bridged, up, fromCallee, callee>> /\ "server" \in up
  BY DEF CallerActs, clientVars
<1>2. /\ Everywhere /\ OnlyAcks /\ ClientOutline /\ ServerOutline
      /\ caller = "idle" /\ caller' = "calling"
      /\ fromCaller' = Sent("server", fromCaller, <<Req("INVITE")>>)
  BY DEF THInv, CallerDials, CallerDoes
<1>3. server = "NONE" /\ fromCaller = <<>> /\ toCaller = <<>> /\ todo["server"] = <<>>
  BY <1>2 DEF Everywhere, OneInvite, InviteIsFirst, InviteLeads, Unbegun
<1>4. toCaller' = <<>>
  BY <1>3 DEF CallerActs, CallerTakes
<1>5. fromCaller' = <<Req("INVITE")>>
  BY <1>1, <1>2, <1>3 DEF Sent
<1>6. /\ <<Req("INVITE")>> \in Seq(Message) /\ InFlight(fromCaller') = {Req("INVITE")}
      /\ InFlight(toCaller') = {} /\ Req("INVITE").code = 0 /\ Req("INVITE") # Req("BYE")
  <2>1. "INVITE" \in Method /\ "BYE" \in Method
    BY DEF Method
  <2>2. Req("INVITE") \in Message /\ Req("INVITE").code = 0 /\ Req("INVITE") # Req("BYE")
    BY <2>1, RequestIsMessage, RequestsDiffer DEF Req
  <2> QED
    BY <1>4, <1>5, <2>2, LiteralHolds
<1>7. /\ Superseded' = Superseded /\ Answered' = Answered
      /\ ~HasInviteOk(toCaller') /\ NoOutcome(toCaller')
  BY <1>1, <1>6 DEF Superseded, Answered, HasInviteOk, NoOutcome
<1>8. ThreadsTypeOK'
  BY <1>1, <1>2, <1>3, <1>4, <1>5, <1>6 DEF Everywhere, ThreadsTypeOK, TypeOK, CallerState
<1>9. OneInvite'
  BY <1>1, <1>2, <1>3, <1>4, <1>5 DEF Everywhere, OneInvite, InviteIsFirst, InviteLeads, Unbegun
<1>10. CallerMessages'
  BY <1>2, <1>6 DEF CallerMessages
<1>11. CalleeMessages' /\ Outcome' /\ NoPhantomAnswer' /\ ByeOnlyAfterAnswer'
  <2>1. CalleeMessages' /\ ByeOnlyAfterAnswer'
    BY <1>1, <1>2, <1>7 DEF Everywhere, CalleeMessages, ByeOnlyAfterAnswer
  <2>2. Outcome' /\ NoPhantomAnswer'
    BY <1>2, <1>4, <1>7 DEF Outcome, NoPhantomAnswer, AtMostOneOutcome
  <2> QED
    BY <2>1, <2>2
<1>12. OnlyAcks'
  BY <1>1, <1>2, <1>3, <1>5, <1>6, <1>7 DEF OnlyAcks, Stays
<1>13. ServerOutline'
  BY <1>3 DEF ServerOutline, At
<1>14. ClientOutline'
  <2>1. ServerLegMoves
    BY <1>1, <1>2 DEF ServerLegMoves, Stays
  <2>2. (Superseded => Superseded') /\ (Answered => Answered') /\ (Open => Open')
    BY <1>2, <1>7 DEF Open, Told
  <2> QED
    BY <1>1, <1>2, <2>1, <2>2, ClientOutlineStays
<1> QED
  BY <1>8, <1>9, <1>10, <1>11, <1>12, <1>13, <1>14 DEF THInv, Everywhere

LEMMA CallerStep ==
  ASSUME THInv, CallerActs, UNCHANGED todo
  PROVE  THInv'
<1>1. CASE CallerDials
  BY <1>1, CallerDialsStep
<1>2. CASE ~CallerDials
  <2>1. PICK state, messages : CallerSays(state, messages) /\ CallerHears(state)
    BY <1>2, CallerActsSaying
  <2> QED
    BY <1>2, <2>1, CallerStepSaying
<1> QED
  BY <1>1, <1>2

-----------------------------------------------------------------------------
(* The callee's agent, whichever way the threads are interrupted. *)

Spoken == {"answered", "talking", "hungup", "ended"}

\* An agent that has answered or declined does not take it back.
Advances(state) ==
  /\ state \in CalleeState
  /\ callee \in Spoken => state \in Spoken
  /\ callee = "declined" => state = "declined"

\* What the callee says in turning to a state.
CalleeTells(state, messages) ==
  /\ Advances(state) /\ messages \in Seq(Message)
  /\ callee' = state /\ fromCallee' = Sent("client", fromCallee, messages)
  /\ \A m \in InFlight(messages) :
       /\ m.code = 0 => m = Req("BYE")
       /\ m.code # 0 /\ m.method # "INVITE" => Superseded
       /\ InviteOk(m) => state \in Spoken
       /\ IsReject(m.code) => Superseded \/ state = "declined"

LEMMA CalleeResponds ==
  ASSUME NEW state, Advances(state), NEW a \in {"INVITE", "CANCEL", "BYE"}, NEW code \in Status,
         CalleeDoes(state, <<Resp(code, a)>>),
         a # "INVITE" => Superseded,
         a = "INVITE" /\ IsOk(code) => state \in Spoken,
         IsReject(code) => Superseded \/ state = "declined"
  PROVE  CalleeTells(state, <<Resp(code, a)>>)
<1> DEFINE m == Resp(code, a)
           messages == <<m>>
<1>1. a \in Method
  BY DEF Method
<1>2. m \in Message /\ m.code = code /\ m.method = a /\ code # 0
  <2>1. m \in Message
    BY <1>1, ResponseIsMessage
  <2>2. m.code = code /\ m.method = a
    BY DEF Resp
  <2>3. code # 0
    BY DEF Status
  <2> QED
    BY <2>1, <2>2, <2>3
<1>3. InviteOk(m) => a = "INVITE" /\ IsOk(code)
  BY <1>1, ResponseIsMessage
<1>4. callee' = state /\ fromCallee' = Sent("client", fromCallee, messages)
  BY DEF CalleeDoes
<1> HIDE DEF m
<1>5. messages \in Seq(Message) /\ InFlight(messages) = {m}
  BY <1>2, LiteralHolds
<1> HIDE DEF messages
<1>6. CalleeTells(state, messages)
  BY <1>2, <1>3, <1>4, <1>5 DEF CalleeTells
<1> QED
  BY <1>6 DEF messages, m

LEMMA CalleeKeepsQuiet ==
  ASSUME NEW state, Advances(state), CalleeDoes(state, <<>>)
  PROVE  CalleeTells(state, <<>>)
BY LiteralHolds DEF CalleeDoes, CalleeTells

LEMMA CalleeEndsCall ==
  ASSUME Everywhere, CalleeHangsUp
  PROVE  CalleeTells("hungup", <<Req("BYE")>>)
<1> DEFINE m == Req("BYE")
           messages == <<m>>
<1>1. m \in Message /\ ~InviteOk(m) /\ m.code = 0 /\ m = Req("BYE")
  BY RequestIsMessage DEF Method, Req
<1>2. ~IsReject(m.code)
  BY <1>1 DEF IsReject
<1>3. callee' = "hungup" /\ fromCallee' = Sent("client", fromCallee, messages)
  BY DEF CalleeHangsUp, CalleeDoes
<1>4. Advances("hungup")
  BY DEF Advances, Spoken, CalleeState, CalleeHangsUp
<1> HIDE DEF m
<1>5. messages \in Seq(Message) /\ InFlight(messages) = {m}
  BY <1>1, LiteralHolds
<1> HIDE DEF messages
<1>6. CalleeTells("hungup", messages)
  BY <1>1, <1>2, <1>3, <1>4, <1>5 DEF CalleeTells
<1> QED
  BY <1>6 DEF messages, m

\* 200 for the CANCEL, then 487 for the INVITE.
LEMMA CalleeGivesUp ==
  ASSUME Everywhere, Superseded, callee = "alerting",
         CalleeDoes("declined", <<Resp(200, "CANCEL"), Resp(487, "INVITE")>>)
  PROVE  CalleeTells("declined", <<Resp(200, "CANCEL"), Resp(487, "INVITE")>>)
<1> DEFINE m == Resp(200, "CANCEL")
           n == Resp(487, "INVITE")
           messages == <<m, n>>
<1>1. 200 \in Status /\ 487 \in Status /\ "CANCEL" \in Method /\ "INVITE" \in Method /\ ~IsOk(487)
  BY DEF Status, Method, IsOk
<1>2. /\ m \in Message /\ n \in Message /\ ~InviteOk(m) /\ ~InviteOk(n)
      /\ m.code # 0 /\ n.code # 0
  BY <1>1, ResponseIsMessage DEF Resp
<1>3. callee' = "declined" /\ fromCallee' = Sent("client", fromCallee, messages)
  BY DEF CalleeDoes
<1>4. Advances("declined")
  BY DEF Advances, Spoken, CalleeState
<1> HIDE DEF m, n
<1>5. messages \in Seq(Message) /\ InFlight(messages) = {m, n}
  BY <1>2, LiteralHolds
<1> HIDE DEF messages
<1>6. CalleeTells("declined", messages)
  BY <1>2, <1>3, <1>4, <1>5 DEF CalleeTells
<1> QED
  BY <1>6 DEF messages, m, n

LEMMA CalleeOffers ==
  ASSUME Everywhere,
         \/ CalleeProgresses \/ CalleeAnswers \/ CalleeDeclines
         \/ CalleeRepeatsAnswer \/ CalleeHangsUp
  PROVE  \E state, messages : CalleeTells(state, messages)
<1>1. /\ callee = "alerting" => Advances("alerting") /\ Advances("answered") /\ Advances("declined")
      /\ callee = "answered" => Advances("answered")
  BY DEF Advances, Spoken, CalleeState
<1>2. CASE CalleeProgresses
  <2>1. PICK code \in Codes \cap 100..199 : CalleeDoes("alerting", <<Resp(code, "INVITE")>>)
    BY <1>2 DEF CalleeProgresses
  <2>2. code \in Status /\ ~IsOk(code) /\ ~IsReject(code)
    BY DEF Status, IsOk, IsReject
  <2>3. Advances("alerting")
    BY <1>1, <1>2 DEF CalleeProgresses
  <2> QED
    BY <2>1, <2>2, <2>3, CalleeResponds
<1>3. CASE CalleeAnswers
  <2>1. PICK code \in Codes \cap 200..299 : CalleeDoes("answered", <<Resp(code, "INVITE")>>)
    BY <1>3 DEF CalleeAnswers
  <2>2. code \in Status /\ ~IsReject(code)
    BY DEF Status, IsReject
  <2>3. Advances("answered") /\ "answered" \in Spoken
    BY <1>1, <1>3 DEF CalleeAnswers, Spoken
  <2> QED
    BY <2>1, <2>2, <2>3, CalleeResponds
<1>4. CASE CalleeDeclines
  <2>1. PICK code \in Codes \cap 300..699 : CalleeDoes("declined", <<Resp(code, "INVITE")>>)
    BY <1>4 DEF CalleeDeclines
  <2>2. code \in Status /\ ~IsOk(code)
    BY DeclineCodes
  <2>3. Advances("declined")
    BY <1>1, <1>4 DEF CalleeDeclines
  <2> QED
    BY <2>1, <2>2, <2>3, CalleeResponds
<1>5. CASE CalleeRepeatsAnswer
  <2>1. PICK code \in Status : code = 200
    BY StatusCodes
  <2>2. CalleeDoes("answered", <<Resp(code, "INVITE")>>) /\ ~IsReject(code)
    BY <1>5, <2>1 DEF CalleeRepeatsAnswer, IsReject
  <2>3. Advances("answered") /\ "answered" \in Spoken
    BY <1>1, <1>5 DEF CalleeRepeatsAnswer, Spoken
  <2> QED
    BY <2>2, <2>3, CalleeResponds
<1> QED
  BY <1>2, <1>3, <1>4, <1>5, CalleeEndsCall

LEMMA CalleeHears ==
  ASSUME Everywhere, CalleeTakes
  PROVE  \E state, messages : CalleeTells(state, messages)
<1> DEFINE m == Head(toCallee)
<1>1. /\ toCallee # <<>> /\ toCallee \in Seq(Message) /\ m \in InFlight(toCallee)
      /\ callee \in CalleeState
  BY TailHolds DEF CalleeTakes, Everywhere, ThreadsTypeOK, TypeOK
<1>2. m = Req("CANCEL") \/ m = Req("BYE") => Superseded
  BY <1>1 DEF Everywhere, CalleeMessages
<1>3. /\ Req("CANCEL").code = 0 /\ Req("BYE").code = 0
      /\ Req("CANCEL") # Req("INVITE") /\ Req("CANCEL") # Req("ACK")
      /\ Req("BYE") # Req("INVITE") /\ Req("BYE") # Req("ACK") /\ Req("BYE") # Req("CANCEL")
  BY DEF Req
<1>4. /\ m = Req("CANCEL") => CalleeTakesCancel
      /\ m = Req("BYE") => CalleeTakesBye
      /\ m # Req("CANCEL") /\ m # Req("BYE") =>
           \/ callee = "idle" /\ CalleeDoes("alerting", <<>>)
           \/ callee = "answered" /\ CalleeDoes("talking", <<>>)
           \/ callee = "hungup" /\ CalleeDoes("ended", <<>>)
           \/ CalleeDoes(callee, <<>>)
  BY <1>3 DEF CalleeTakes
<1>5. \A code \in {200, 481} : code \in Status
  BY DEF Status
<1>6. /\ callee = "idle" => Advances("alerting")
      /\ callee = "answered" => Advances("talking")
      /\ callee \in {"answered", "talking", "hungup"} => Advances("ended")
      /\ Advances(callee)
  BY <1>1 DEF Advances, Spoken, CalleeState
<1> HIDE DEF m
<1>7. ASSUME NEW state, Advances(state), NEW a \in {"CANCEL", "BYE"}, NEW code \in {200, 481},
             Superseded, CalleeDoes(state, <<Resp(code, a)>>)
      PROVE  CalleeTells(state, <<Resp(code, a)>>)
  <2>1. a \in {"INVITE", "CANCEL", "BYE"} /\ a # "INVITE" /\ code \in Status
    BY <1>5
  <2> QED
    BY <1>7, <2>1, CalleeResponds
<1>8. CASE m = Req("CANCEL")
  <2>1. CASE callee = "alerting"
    BY <1>2, <1>4, <1>8, <2>1, CalleeGivesUp DEF CalleeTakesCancel
  <2>2. CASE callee # "alerting"
    <3>1. PICK code \in {200, 481} : CalleeDoes(callee, <<Resp(code, "CANCEL")>>)
      BY <1>4, <1>8, <2>2 DEF CalleeTakesCancel
    <3>2. CalleeTells(callee, <<Resp(code, "CANCEL")>>)
      BY <1>2, <1>6, <1>7, <1>8, <3>1
    <3> QED
      BY <3>2
  <2> QED
    BY <2>1, <2>2
<1>9. CASE m = Req("BYE")
  <2>1. CASE callee \in {"answered", "talking"}
    <3>1. PICK code \in {200, 481} : code = 200
      OBVIOUS
    <3>2. CalleeDoes("ended", <<Resp(code, "BYE")>>)
      BY <1>4, <1>9, <2>1, <3>1 DEF CalleeTakesBye
    <3>3. CalleeTells("ended", <<Resp(code, "BYE")>>)
      BY <1>2, <1>6, <1>7, <1>9, <2>1, <3>2
    <3> QED
      BY <3>3
  <2>2. CASE callee \notin {"answered", "talking"}
    <3>1. PICK code \in {200, 481} :
            CalleeDoes(IF callee = "hungup" THEN "ended" ELSE callee, <<Resp(code, "BYE")>>)
      BY <1>4, <1>9, <2>2 DEF CalleeTakesBye
    <3>2. PICK state : Advances(state) /\ CalleeDoes(state, <<Resp(code, "BYE")>>)
      BY <1>6, <3>1
    <3>3. CalleeTells(state, <<Resp(code, "BYE")>>)
      BY <1>2, <1>7, <1>9, <3>2
    <3> QED
      BY <3>3
  <2> QED
    BY <2>1, <2>2
<1>10. CASE m # Req("CANCEL") /\ m # Req("BYE")
  <2>1. PICK state : Advances(state) /\ CalleeDoes(state, <<>>)
    BY <1>4, <1>6, <1>10
  <2>2. CalleeTells(state, <<>>)
    BY <2>1, CalleeKeepsQuiet
  <2> QED
    BY <2>2
<1> QED
  BY <1>8, <1>9, <1>10

LEMMA CalleeStep ==
  ASSUME THInv, CalleeActs, UNCHANGED todo
  PROVE  THInv'
<1>1. /\ UNCHANGED <<server, serverReq, serverKnown, toCaller, client, clientReq, clientKnown>>
      /\ UNCHANGED <<bridged, up, fromCaller, caller>>
  BY DEF CalleeActs, serverVars
<1>2. /\ Everywhere /\ OnlyAcks /\ ClientOutline /\ ServerOutline
      /\ fromCallee \in Seq(Message) /\ toCallee \in Seq(Message)
      /\ todo \in [Legs -> Seq(Operation)]
  BY DEF THInv, Everywhere, ThreadsTypeOK, TypeOK
<1>3. toCallee' \in Seq(Message) /\ InFlight(toCallee') \subseteq InFlight(toCallee)
  BY <1>2, TailHolds DEF CalleeActs, CalleeTakes
<1>4. PICK state, messages : CalleeTells(state, messages)
  BY <1>2, CalleeOffers, CalleeHears DEF CalleeActs
<1>5. /\ messages \in Seq(Message) /\ callee' = state /\ callee' \in CalleeState
      /\ Answered => Answered'
      /\ callee = "declined" => callee' = "declined"
  BY <1>4 DEF CalleeTells, Advances, Answered, Spoken
<1>6. /\ fromCallee' \in Seq(Message)
      /\ InFlight(fromCallee') \subseteq InFlight(fromCallee) \cup InFlight(messages)
  BY <1>2, <1>4, <1>5, SentHolds DEF CalleeTells
<1>7. Superseded' = Superseded
  BY <1>1 DEF Superseded
<1>8. ThreadsTypeOK'
  BY <1>1, <1>2, <1>3, <1>5, <1>6 DEF Everywhere, ThreadsTypeOK, TypeOK
<1>9. OneInvite'
  BY <1>1, <1>2 DEF Everywhere, OneInvite, InviteIsFirst, InviteLeads, Unbegun
<1>10. CallerMessages'
  BY <1>1, <1>2, <1>5, <1>7 DEF Everywhere, CallerMessages
<1>11. CalleeMessages'
  <2>1. Req("CANCEL") \in InFlight(toCallee') \/ Req("BYE") \in InFlight(toCallee') => Superseded'
    BY <1>2, <1>3, <1>7 DEF Everywhere, CalleeMessages
  <2>2. ASSUME NEW m \in InFlight(fromCallee)
        PROVE  /\ m.code = 0 => m = Req("BYE")
               /\ m.code # 0 /\ m.method # "INVITE" => Superseded'
               /\ InviteOk(m) => Answered'
               /\ IsReject(m.code) => Superseded' \/ callee' = "declined"
    BY <1>2, <1>5, <1>7 DEF Everywhere, CalleeMessages
  <2>3. ASSUME NEW m \in InFlight(messages)
        PROVE  /\ m.code = 0 => m = Req("BYE")
               /\ m.code # 0 /\ m.method # "INVITE" => Superseded'
               /\ InviteOk(m) => Answered'
               /\ IsReject(m.code) => Superseded' \/ callee' = "declined"
    BY <1>4, <1>5, <1>7 DEF CalleeTells, Answered, Spoken
  <2> QED
    BY <1>6, <2>1, <2>2, <2>3 DEF CalleeMessages
<1>12. Outcome' /\ NoPhantomAnswer' /\ ByeOnlyAfterAnswer'
  BY <1>1, <1>2, <1>3, <1>5 DEF Everywhere, Outcome, NoPhantomAnswer, ByeOnlyAfterAnswer
<1>13. OnlyAcks'
  BY <1>1, <1>2, <1>7 DEF OnlyAcks, Stays, Acked
<1>14. ServerOutline'
  BY <1>1, <1>2, <1>5, <1>7, ServerOutlineStays DEF Stays, Acked
<1>15. ClientOutline'
  <2>1. ServerLegMoves /\ (Open => Open')
    BY <1>1, <1>7 DEF ServerLegMoves, Stays, Open, Told
  <2> QED
    BY <1>1, <1>2, <1>5, <1>7, <2>1, ClientOutlineStays
<1> QED
  BY <1>8, <1>9, <1>10, <1>11, <1>12, <1>13, <1>14, <1>15 DEF THInv, Everywhere

-----------------------------------------------------------------------------
(* Sessions, the start, and the whole. *)

LEMMA ClosingStep ==
  ASSUME THInv, SessionCloses, UNCHANGED todo
  PROVE  THInv'
<1>1. /\ UNCHANGED <<server, serverReq, serverKnown, client, clientReq, clientKnown>>
      /\ UNCHANGED <<bridged, caller, callee>> /\ up' \subseteq Legs
  BY DEF THInv, Everywhere, ThreadsTypeOK, TypeOK, SessionCloses, agents
<1>2. /\ Everywhere /\ OnlyAcks /\ ClientOutline /\ ServerOutline /\ ThreadsTypeOK
  BY DEF THInv, Everywhere
<1>3. \/ toCaller' = <<>> /\ fromCaller' = <<>> /\ UNCHANGED <<toCallee, fromCallee>>
      \/ toCallee' = <<>> /\ fromCallee' = <<>> /\ UNCHANGED <<toCaller, fromCaller>>
  BY DEF SessionCloses
<1>4. /\ <<>> \in Seq(Message) /\ InFlight(<<>>) = {} /\ NoOutcome(<<>>) /\ ~HasInviteOk(<<>>)
      /\ AtMostOneOutcome(<<>>)
  BY LiteralHolds DEF NoOutcome, HasInviteOk, AtMostOneOutcome
<1>5. /\ InFlight(toCaller') \subseteq InFlight(toCaller)
      /\ InFlight(fromCaller') \subseteq InFlight(fromCaller)
      /\ InFlight(toCallee') \subseteq InFlight(toCallee)
      /\ InFlight(fromCallee') \subseteq InFlight(fromCallee)
      /\ toCaller' = toCaller \/ toCaller' = <<>>
      /\ fromCaller' = fromCaller \/ fromCaller' = <<>>
      /\ HasInviteOk(toCaller') => HasInviteOk(toCaller)
      /\ NoOutcome(toCaller) => NoOutcome(toCaller')
  BY <1>3, <1>4
<1>6. Superseded' = Superseded /\ Answered' = Answered /\ Stays' = Stays
  BY <1>1 DEF Superseded, Answered, Stays
<1>7. ThreadsTypeOK'
  BY <1>1, <1>2, <1>3, <1>4 DEF ThreadsTypeOK, TypeOK
<1>8. OneInvite'
  BY <1>1, <1>2, <1>5 DEF Everywhere, OneInvite, InviteIsFirst, InviteLeads, Unbegun
<1>9. CallerMessages' /\ CalleeMessages'
  BY <1>1, <1>2, <1>5, <1>6 DEF Everywhere, CallerMessages, CalleeMessages
<1>10. Outcome'
  BY <1>1, <1>2, <1>4, <1>5 DEF Everywhere, Outcome
<1>11. NoPhantomAnswer' /\ ByeOnlyAfterAnswer'
  BY <1>1, <1>2, <1>5, <1>6 DEF Everywhere, NoPhantomAnswer, ByeOnlyAfterAnswer
<1>12. OnlyAcks'
  BY <1>1, <1>2, <1>5, <1>6 DEF OnlyAcks, Acked
<1>13. ServerOutline'
  <2>1. Acked' = Acked
    BY <1>1, <1>6 DEF Acked
  <2> QED
    BY <1>1, <1>2, <1>5, <1>6, <2>1, ServerOutlineStays
<1>14. ClientOutline'
  <2>1. ServerLegMoves
    BY <1>1, <1>6 DEF ServerLegMoves
  <2>2. Open => Open'
    BY <1>1, <1>5, <1>6 DEF Open, Told
  <2> QED
    BY <1>1, <1>2, <1>6, <2>1, <2>2, ClientOutlineStays
<1> QED
  BY <1>7, <1>8, <1>9, <1>10, <1>11, <1>12, <1>13, <1>14 DEF THInv, Everywhere

LEMMA IdleStep ==
  ASSUME THInv, UNCHANGED tvars
  PROVE  THInv'
<1>1. /\ UNCHANGED <<server, serverReq, serverKnown, toCaller, client, clientReq, clientKnown>>
      /\ UNCHANGED <<toCallee, bridged, up, fromCaller, fromCallee, caller, callee, todo>>
  BY DEF tvars, vars, serverVars, clientVars, agents
<1>2. Everywhere /\ OnlyAcks /\ ClientOutline /\ ServerOutline /\ ThreadsTypeOK
  BY DEF THInv, Everywhere
<1>3. Superseded' = Superseded /\ Answered' = Answered /\ Stays' = Stays
  BY <1>1 DEF Superseded, Answered, Stays
<1>4. ThreadsTypeOK' /\ OneInvite'
  BY <1>1, <1>2 DEF Everywhere, ThreadsTypeOK, TypeOK, OneInvite, InviteIsFirst, InviteLeads, Unbegun
<1>5. CallerMessages' /\ CalleeMessages' /\ Outcome' /\ NoPhantomAnswer' /\ ByeOnlyAfterAnswer'
  BY <1>1, <1>2, <1>3
     DEF Everywhere, CallerMessages, CalleeMessages, Outcome, NoPhantomAnswer, ByeOnlyAfterAnswer
<1>6. OnlyAcks'
  BY <1>1, <1>2, <1>3 DEF OnlyAcks, Acked
<1>7. ServerOutline'
  <2>1. Acked' = Acked
    BY <1>1, <1>3 DEF Acked
  <2> QED
    BY <1>1, <1>2, <1>3, <2>1, ServerOutlineStays
<1>8. ClientOutline'
  <2>1. ServerLegMoves /\ (Open => Open')
    BY <1>1, <1>3 DEF ServerLegMoves, Open, Told
  <2> QED
    BY <1>1, <1>2, <1>3, <2>1, ClientOutlineStays
<1> QED
  BY <1>4, <1>5, <1>6, <1>7, <1>8 DEF THInv, Everywhere

LEMMA InitTHInv == ThreadsInit => THInv
<1> SUFFICES ASSUME ThreadsInit
             PROVE  THInv
  OBVIOUS
<1>1. /\ server = "NONE" /\ serverReq = "INVITE" /\ serverKnown = FALSE
      /\ client = "NONE" /\ clientReq = "OWN" /\ clientKnown = FALSE
      /\ bridged = FALSE /\ up = Legs
      /\ toCaller = <<>> /\ fromCaller = <<>> /\ toCallee = <<>> /\ fromCallee = <<>>
      /\ caller = "idle" /\ callee = "idle"
      /\ todo = [leg \in Legs |-> <<>>]
  BY DEF ThreadsInit, Init
<1>2. <<>> \in Seq(Message) /\ InFlight(<<>>) = {}
  BY LiteralHolds
<1>3. todo["server"] = <<>> /\ todo["client"] = <<>> /\ todo \in [Legs -> Seq(Operation)]
  BY <1>1 DEF Legs
<1>4. ThreadsTypeOK
  BY <1>1, <1>2, <1>3 DEF ThreadsTypeOK, TypeOK, HandlerState, Method, CallerState, CalleeState
<1>5. OneInvite
  BY <1>1, <1>3 DEF OneInvite, InviteIsFirst, InviteLeads, Unbegun
<1>6. CallerMessages /\ CalleeMessages /\ NoPhantomAnswer /\ ByeOnlyAfterAnswer
  BY <1>1, <1>2 DEF CallerMessages, CalleeMessages, NoPhantomAnswer, ByeOnlyAfterAnswer, HasInviteOk
<1>7. Outcome /\ OnlyAcks
  BY <1>1, <1>2 DEF Outcome, NoOutcome, AtMostOneOutcome, OnlyAcks, HasInviteOk, Superseded
<1>8. ServerOutline
  BY <1>3 DEF ServerOutline, At
<1>9. ClientOutline
  BY <1>1, <1>3 DEF ClientOutline, At, Agree, ServerListed, Waiting
<1> QED
  BY <1>4, <1>5, <1>6, <1>7, <1>8, <1>9 DEF THInv, Everywhere

-----------------------------------------------------------------------------
(* The invariants of the run, for every value of the constants. *)

\* The outline holds however the operations of the two threads interleave.
THEOREM ThreadsInductive == ThreadsSpec => []THInv
<1>1. ASSUME THInv, ThreadsNext
      PROVE  THInv'
  <2>1. CASE ServerThread
    BY <2>1, <1>1, ServerTakes, ServerContinues DEF ServerThread
  <2>2. CASE ClientThread
    BY <2>2, <1>1, ClientTakesStep, ClientContinues DEF ClientThread
  <2>3. CASE Environment
    BY <2>3, <1>1, CallerStep, CalleeStep, ClosingStep DEF Environment
  <2> QED
    BY <1>1, <2>1, <2>2, <2>3 DEF ThreadsNext
<1>2. THInv /\ [ThreadsNext]_tvars => THInv'
  BY <1>1, IdleStep
<1> QED
  BY InitTHInv, <1>2, PTL DEF ThreadsSpec

\* What a thread still has to do is made of the operations of the handlers'
\* methods, and the handlers, agents and messages are the ones Call knows.
THEOREM ThreadsTypeCorrect == ThreadsSpec => []ThreadsTypeOK
<1>1. THInv => ThreadsTypeOK
  BY DEF THInv, Everywhere
<1> QED
  BY ThreadsInductive, <1>1, PTL

\* Also when onReject(), onOk() and onBye(request) of the two threads interrupt
\* one another, the INVITE is answered or rejected, not both and not twice.
THEOREM OneOutcomeHolds == ThreadsSpec => []OneOutcome
<1>1. ASSUME THInv
      PROVE  OneOutcome
  <2>1. \A i \in Outcomes : i \in 1..Len(toCaller) /\ IsOutcome(toCaller[i])
    BY DEF Outcomes, FinalResponses, IsOutcome
  <2>2. \A i \in Outcomes : ~NoOutcome(toCaller)
    BY <2>1 DEF NoOutcome, InFlight
  <2> QED
    BY <1>1, <2>1, <2>2 DEF THInv, Everywhere, Outcome, AtMostOneOutcome, OneOutcome
<1> QED
  BY ThreadsInductive, <1>1, PTL

\* No interleaving of the threads tells the caller of an answer that the callee
\* did not give.
THEOREM ThreadsAnswersAreReal == ThreadsSpec => []NoPhantomAnswer
<1>1. THInv => NoPhantomAnswer
  BY DEF THInv, Everywhere
<1> QED
  BY ThreadsInductive, <1>1, PTL

\* No interleaving of the threads sends a BYE to a callee that has not answered.
THEOREM ThreadsHangupsFollowAnswers == ThreadsSpec => []ByeOnlyAfterAnswer
<1>1. THInv => ByeOnlyAfterAnswer
  BY DEF THInv, Everywhere
<1> QED
  BY ThreadsInductive, <1>1, PTL

-----------------------------------------------------------------------------
(* A client handler that messageHandlerList no longer holds is over.         *)

\* Only the last but one operation of a plan forgets the client handler.
Unlisted ==
  Stays /\ ~clientKnown =>
    \/ At("client", <<Become("client", "FINISH")>>)
    \/ At("client", <<>>) /\ client \in {"NONE", "FINISH"}

LEMMA ForgottenAtTheEnd ==
  ASSUME ClientOutline, todo["client"] # <<>>, Head(todo["client"]).do = "forget",
         Head(todo["client"]).leg = "client"
  PROVE  At("client", FinishClient)
<1>1. ~Ringing
  BY DEF Ringing, At, Become, Run, Reply
<1>2. ~Accepting
  BY DEF Accepting, At, Accept, FinishServer, Become, Run, Reply, Ask, Forget
<1>3. ~Rejecting
  BY DEF Rejecting, At, FinishServer, FinishClient, Become, Run, Reply, Forget
<1>4. ~HangingUp
  BY DEF HangingUp, At, Become, Run, Reply, Ask, Cite
<1>5. Confirming
  BY <1>1, <1>2, <1>3, <1>4 DEF ClientOutline, At
<1> QED
  BY <1>5 DEF Confirming, At, FinishClient, Become, Run, Ask, Cite

\* The client thread forgets its handler only with the assignment of FINISH
\* still to come.
LEMMA ClientKeepsUnlisted ==
  ASSUME THInv, Unlisted, Continue("client")
  PROVE  Unlisted'
<1> SUFFICES ASSUME Stays', ~clientKnown'
             PROVE  \/ At("client", <<Become("client", "FINISH")>>)'
                    \/ At("client", <<>>)' /\ client' \in {"NONE", "FINISH"}
  BY DEF Unlisted
<1>1. Stays /\ todo["client"] # <<>> /\ "client" \in Legs /\ ThreadsTypeOK /\ ClientOutline
  BY DEF Continue, agents, Stays, Legs, THInv, Everywhere
<1>2. CASE ~clientKnown
  <2>1. Head(todo["client"]) = Become("client", "FINISH") /\ Tail(todo["client"]) = <<>>
    BY <1>1, <1>2, PlanOfOne DEF Unlisted, At
  <2>2. SetsState("client", "FINISH") /\ GoesOn("client", <<>>)
    BY <1>1, <2>1, Becomes
  <2> QED
    BY <2>2 DEF SetsState, GoesOn, At
<1>3. CASE clientKnown
  <2>1. PICK op \in {Head(todo["client"])} : TRUE
    OBVIOUS
  <2>2. op.do # "run"
    <3>1. ~UNCHANGED <<serverVars, clientVars>>
      BY <1>3 DEF clientVars
    <3> QED
      BY <2>1, <3>1 DEF Continue
  <2>3. \E now \in {Effect(Now, op)} : clientKnown' = now.known["client"]
    BY <1>1, <2>1, <2>2, Performs
  <2>4. op \in Operation
    BY <1>1, <2>1 DEF ThreadsTypeOK
  <2>5. op.do = "forget" /\ op.leg = "client"
    BY <1>3, <2>2, <2>3, <2>4 DEF Effect, Now, Operation, Legs
  <2>6. At("client", FinishClient)
    BY <1>1, <2>1, <2>5, ForgottenAtTheEnd
  <2>7. Head(todo["client"]) = Forget("client")
        /\ Tail(todo["client"]) = <<Become("client", "FINISH")>>
    BY <2>6, Parts DEF At
  <2>8. GoesOn("client", <<Become("client", "FINISH")>>)
    BY <1>1, <2>7, Removes
  <2> QED
    BY <2>8 DEF GoesOn, At
<1> QED
  BY <1>2, <1>3

\* As long as the caller stays, the server thread serves nothing but an ACK.
LEMMA ServerKeepsUnlisted ==
  ASSUME THInv, Unlisted, Continue("server")
  PROVE  Unlisted'
<1> SUFFICES ASSUME Stays', ~clientKnown'
             PROVE  Unlisted'
  BY DEF Unlisted
<1>1. Stays /\ todo["server"] # <<>> /\ "server" \in Legs /\ ThreadsTypeOK
  BY DEF Continue, agents, Stays, Legs, THInv, Everywhere
<1>2. \/ At("server", <<Run("server", "onACK")>>)
      \/ At("server", <<Become("server", "CALLING")>>)
  BY <1>1 DEF THInv, ServerOutline, Acking, At
<1>3. CASE At("server", <<Run("server", "onACK")>>)
  <2>1. Head(todo["server"]) = Run("server", "onACK") /\ Head(todo["server"]).do = "run"
    BY <1>3, PlanOfOne DEF At, Run
  <2>2. UNCHANGED <<client, clientKnown, caller>>
    BY <2>1 DEF Continue, clientVars, agents
  <2>3. todo'["client"] = todo["client"]
    BY <1>1, <2>1 DEF Continue, ThreadsTypeOK, Legs
  <2> QED
    BY <2>2, <2>3 DEF Unlisted, At, Stays
<1>4. CASE At("server", <<Become("server", "CALLING")>>)
  <2>1. Head(todo["server"]) = Become("server", "CALLING")
    BY <1>4, PlanOfOne DEF At
  <2>2. SetsState("server", "CALLING") /\ GoesOn("server", Tail(todo["server"]))
    BY <1>1, <2>1, Becomes
  <2> QED
    BY <2>2 DEF SetsState, Steady, GoesOn, Other, Unlisted, At, Stays
<1> QED
  BY <1>2, <1>3, <1>4

\* Taking a message leaves the handlers as they are, but for the INVITE.
LEMMA TakingKeepsUnlisted ==
  ASSUME THInv, Unlisted, ServerThreadTakes \/ ClientThreadTakes
  PROVE  Unlisted'
<1>1. todo \in [Legs -> Seq(Operation)] /\ "server" \in Legs /\ "client" \in Legs
  BY DEF THInv, Everywhere, ThreadsTypeOK, Legs
<1>2. CASE ClientThreadTakes
  <2>1. /\ UNCHANGED <<client, clientKnown, caller>> /\ todo["client"] = <<>>
        /\ Take("client", clientKnown, Head(fromCallee))
    BY <1>2 DEF ClientThreadTakes, NextFromCallee, clientVars, agents
  <2>2. ~clientKnown => todo'["client"] = <<>>
    BY <1>1, <2>1, Zenon DEF Take
  <2> QED
    BY <2>1, <2>2 DEF Unlisted, At, Stays
<1>3. CASE ServerThreadTakes
  <2>1. PICK m \in {Head(fromCaller)} :
          \/ /\ InviteMalformed(m) \/ InviteForbidden(m) \/ InviteStranded(m)
                \/ InviteBusy(m) \/ InviteRouted(m)
             /\ UNCHANGED todo
          \/ /\ NextFromCaller
             /\ Take("server", serverKnown, m)
             /\ UNCHANGED <<serverVars, clientVars, bridged>>
    BY <1>3 DEF ServerThreadTakes
  <2>2. CASE /\ InviteMalformed(m) \/ InviteForbidden(m) \/ InviteStranded(m)
                \/ InviteBusy(m) \/ InviteRouted(m)
             /\ UNCHANGED todo
    <3>1. NewInvite(m) /\ (OnlyServerLeg \/ ClientBecomes("TRYING", "OWN", TRUE, <<Req("INVITE")>>))
      BY <2>2, InviteServed
    <3>2. caller' = caller /\ (clientKnown' \/ UNCHANGED <<client, clientKnown>>)
      BY <3>1 DEF NewInvite, NextFromCaller, agents, OnlyServerLeg, clientVars, ClientBecomes
    <3> QED
      BY <2>2, <3>2 DEF Unlisted, At, Stays
  <2>3. CASE /\ NextFromCaller
             /\ Take("server", serverKnown, m)
             /\ UNCHANGED <<serverVars, clientVars, bridged>>
    <3>1. UNCHANGED <<client, clientKnown, caller>>
      BY <2>3 DEF NextFromCaller, clientVars, agents
    <3>2. todo'["client"] = todo["client"]
      BY <1>1, <2>3, Zenon DEF Take
    <3> QED
      BY <3>1, <3>2 DEF Unlisted, At, Stays
  <2> QED
    BY <2>1, <2>2, <2>3
<1> QED
  BY <1>2, <1>3

\* No agent comes back to a call that it has cancelled or ended.
LEMMA AgentsKeepUnlisted ==
  ASSUME THInv, Unlisted, Environment
  PROVE  Unlisted'
<1>1. UNCHANGED <<client, clientKnown, todo>>
  BY DEF Environment, CallerActs, CalleeActs, SessionCloses, clientVars
<1>2. CASE CallerActs
  <2>1. ASSUME CallerDials
        PROVE  Stays' => Stays
    BY <2>1 DEF CallerDials, Stays
  <2>2. ASSUME ~CallerDials
        PROVE  Stays' => Stays
    <3>1. PICK state, messages : CallerSays(state, messages)
      BY <1>2, <2>2, CallerActsSaying
    <3> QED
      BY <3>1 DEF CallerSays, Stays
  <2>3. Stays' => Stays
    BY <2>1, <2>2
  <2> QED
    BY <1>1, <2>3 DEF Unlisted, At
<1>3. CASE CalleeActs \/ SessionCloses
  <2>1. caller' = caller
    BY <1>3 DEF CalleeActs, SessionCloses, agents
  <2> QED
    BY <1>1, <2>1 DEF Unlisted, At, Stays
<1> QED
  BY <1>2, <1>3 DEF Environment

LEMMA AlwaysUnlisted == ThreadsSpec => []Unlisted
<1>1. ThreadsInit => Unlisted
  BY DEF ThreadsInit, Init, Unlisted, At, Legs
<1>2. THInv /\ Unlisted /\ ThreadsNext => Unlisted'
  BY ClientKeepsUnlisted, ServerKeepsUnlisted, TakingKeepsUnlisted, AgentsKeepUnlisted
     DEF ThreadsNext, ServerThread, ClientThread
<1>3. Unlisted /\ UNCHANGED tvars => Unlisted'
  BY DEF tvars, vars, clientVars, agents, Unlisted, At, Stays
<1> QED
  BY <1>1, <1>2, <1>3, ThreadsInductive, PTL DEF ThreadsSpec

\* A race does no damage to a call whose caller stays: whenever both threads are
\* at rest the two legs and messageHandlerList agree.
THEOREM StayingCallerHolds == ThreadsSpec => []StayingCallerIsSafe
<1>1. ASSUME THInv, Unlisted
      PROVE  StayingCallerIsSafe
  <2> SUFFICES ASSUME AtRest, CallerStays
               PROVE  /\ CallerWaitsOnLiveLeg /\ RegistryMatchesState
                      /\ client = "CALLING" => Answered /\ server \in {"OK", "CALLING"}
    BY DEF StayingCallerIsSafe
  <2>1. todo["client"] = <<>> /\ Stays
    BY DEF AtRest, CallerStays, Stays, Legs
  <2>2. Agree /\ (~clientKnown => client \in {"NONE", "FINISH"})
    BY <1>1, <2>1, ClientIdle DEF THInv, Unlisted, At
  <2> QED
    BY <2>1, <2>2 DEF Agree, ServerListed, CallerWaitsOnLiveLeg, RegistryMatchesState
<1> QED
  BY ThreadsInductive, AlwaysUnlisted, <1>1, PTL

=============================================================================
