----------------------------- MODULE CallProofs -----------------------------
(***************************************************************************)
(* Proofs about Call, for every set of answer codes, every bound on the    *)
(* answers in flight, and whichever sessions may close.                    *)
(***************************************************************************)
EXTENDS Call, TLAPS

-----------------------------------------------------------------------------
(* The inductive invariant. *)

Unused == {"NONE", "TRYING", "RINGING"}
Closing == {"BYE", "CANCELING", "FINISH"}

\* Which states of the two handlers occur together.
LegsAgree ==
  /\ client = "NONE" <=> ~bridged
  /\ client # "OK"
  /\ server = "NONE" => ~bridged
  /\ client \in Waiting => server = client
  /\ client = "CALLING" => server \in {"OK", "CALLING"}
  /\ server \in {"OK", "CALLING"} => client \in {"CALLING", "BYE", "FINISH"}

\* The INVITE is the caller's first message and its only one: a second
\* handler is never made for the Call-ID.
InviteLeads ==
  \A i \in 1..Len(fromCaller) : fromCaller[i] = Req("INVITE") => i = 1 /\ server = "NONE"
InviteIsFirst ==
  /\ caller = "idle" => fromCaller = <<>> /\ server = "NONE"
  /\ InviteLeads

\* The caller answers only a BYE, and the server leg sends one when it closes.
CallerAnswersBye ==
  /\ Req("BYE") \in InFlight(toCaller) => server \in Closing
  /\ \A m \in InFlight(fromCaller) : m.code # 0 => server \in Closing

\* Until the callee has answered its INVITE there is nothing else to answer.
CalleeAnswersInvite ==
  /\ Req("CANCEL") \in InFlight(toCallee) \/ Req("BYE") \in InFlight(toCallee) => client \notin Unused
  /\ \A m \in InFlight(fromCallee) : m.code # 0 /\ m.method # "INVITE" => client \notin Unused

\* What the gateway keeps up by itself, whoever its two parties are, as long as
\* the one sends its INVITE first and both respond only to what they were sent.
GatewayTypeOK ==
  /\ server \in HandlerState /\ serverReq \in Method /\ serverKnown \in BOOLEAN
  /\ client \in HandlerState /\ clientReq \in Method /\ clientKnown \in BOOLEAN
  /\ bridged \in BOOLEAN
  /\ up \subseteq Legs
  /\ toCaller \in Seq(Message) /\ fromCaller \in Seq(Message)
  /\ toCallee \in Seq(Message) /\ fromCallee \in Seq(Message)

GatewayInv ==
  /\ GatewayTypeOK
  /\ RegistryMatchesState /\ LegsAgree /\ CallerWaitsOnLiveLeg
  /\ InviteLeads /\ CallerAnswersBye /\ CalleeAnswersInvite

\* Everything that tells of an answer comes after the answer.
AnswerComesFirst ==
  /\ HasInviteOk(fromCallee) => Answered
  /\ client = "CALLING" \/ server \in {"OK", "CALLING"} => Answered

IInv ==
  /\ TypeOK
  /\ RegistryMatchesState /\ LegsAgree /\ CallerWaitsOnLiveLeg
  /\ InviteIsFirst /\ CallerAnswersBye /\ CalleeAnswersInvite
  /\ AnswerComesFirst /\ NoPhantomAnswer /\ ByeOnlyAfterAnswer

-----------------------------------------------------------------------------
(* Messages on the wires. *)

\* What a wire of Seq(Message) holds after a send, and after a receive.
LEMMA SentHolds ==
  ASSUME NEW wire \in Seq(Message), NEW messages \in Seq(Message), NEW leg
  PROVE  /\ Sent(leg, wire, messages) \in Seq(Message)
         /\ InFlight(Sent(leg, wire, messages)) \subseteq InFlight(wire) \cup InFlight(messages)
BY DEF Sent, InFlight

LEMMA TailHolds ==
  ASSUME NEW wire \in Seq(Message), wire # <<>>
  PROVE  /\ Head(wire) \in Message
         /\ Head(wire) \in InFlight(wire)
         /\ Tail(wire) \in Seq(Message)
         /\ InFlight(Tail(wire)) \subseteq InFlight(wire)
BY DEF InFlight

LEMMA LiteralHolds ==
  /\ <<>> \in Seq(Message) /\ InFlight(<<>>) = {}
  /\ \A m \in Message : <<m>> \in Seq(Message) /\ InFlight(<<m>>) = {m}
  /\ \A m, n \in Message : <<m, n>> \in Seq(Message) /\ InFlight(<<m, n>>) = {m, n}
BY DEF InFlight

\* Requests and responses are told apart by their code.
LEMMA RequestIsMessage ==
  ASSUME NEW a \in Method
  PROVE  Req(a) \in Message /\ ~InviteOk(Req(a))
BY DEF Req, Message, InviteOk, IsOk

Status == 1..699

LEMMA StatusCodes ==
  /\ 100 \in Status /\ 180 \in Status /\ 200 \in Status
  /\ 400 \in Status /\ 403 \in Status /\ 486 \in Status
BY DEF Status

LEMMA DeclineCodes ==
  ASSUME NEW code \in 300..699
  PROVE  code \in Status /\ ~IsOk(code)
<1>1. code \in Nat /\ code >= 300 /\ code \in Status
  BY DEF Status
<1>2. ~IsOk(code)
  BY <1>1 DEF IsOk
<1> QED
  BY <1>1, <1>2

LEMMA NotOk ==
  ~IsOk(100) /\ ~IsOk(180) /\ ~IsOk(400) /\ ~IsOk(403) /\ ~IsOk(486)
BY DEF IsOk

LEMMA ResponseIsMessage ==
  ASSUME NEW a \in Method, NEW code \in Status
  PROVE  /\ Resp(code, a) \in Message
         /\ InviteOk(Resp(code, a)) => a = "INVITE" /\ IsOk(code)
BY DEF Resp, Message, InviteOk, Status

LEMMA RequestsDiffer ==
  ASSUME NEW a \in Method, NEW b \in Method
  PROVE  Req(a) = Req(b) <=> a = b
BY DEF Req

LEMMA ResponseIsNoRequest ==
  ASSUME NEW a \in Method, NEW b \in Method, NEW code \in Status
  PROVE  Resp(code, a) # Req(b)
BY DEF Req, Resp, Status

\* A receive leaves no INVITE behind, a send of other messages adds none.
LEMMA TailHasNoInvite ==
  ASSUME NEW wire \in Seq(Message), wire # <<>>,
         \A i \in 1..Len(wire) : wire[i] = Req("INVITE") => i = 1
  PROVE  \A i \in 1..Len(Tail(wire)) : Tail(wire)[i] # Req("INVITE")
OBVIOUS

LEMMA SentAddsNoInvite ==
  ASSUME NEW wire \in Seq(Message), NEW messages \in Seq(Message), NEW leg,
         Req("INVITE") \notin InFlight(messages)
  PROVE  \A i \in 1..Len(Sent(leg, wire, messages)) :
           Sent(leg, wire, messages)[i] = Req("INVITE") =>
             i \in 1..Len(wire) /\ wire[i] = Req("INVITE")
BY DEF Sent, InFlight

\* What the methods of the two legs leave on the wires, as far as the
\* invariant looks: which requests, and whether a 2xx for the INVITE.

ServerQuietly(state, req, known) ==
  /\ server' = state /\ serverReq' = req /\ serverKnown' = known
  /\ toCaller' \in Seq(Message)
  /\ Req("BYE") \in InFlight(toCaller') => Req("BYE") \in InFlight(toCaller)
  /\ HasInviteOk(toCaller') => HasInviteOk(toCaller)

ServerAskedToHangUp ==
  /\ server = "CALLING"
  /\ server' = "BYE" /\ serverReq' = "OWN" /\ serverKnown' = serverKnown
  /\ toCaller' \in Seq(Message)
  /\ HasInviteOk(toCaller') => HasInviteOk(toCaller)

ClientAsking(state, req, known, asked) ==
  /\ client' = state /\ clientReq' = req /\ clientKnown' = known
  /\ toCallee' \in Seq(Message)
  /\ \A b \in Method :
       Req(b) \in InFlight(toCallee') => Req(b) \in InFlight(toCallee) \/ b \in asked

Harmless(messages) ==
  /\ messages \in Seq(Message)
  /\ Req("BYE") \notin InFlight(messages)
  /\ ~HasInviteOk(messages)

LEMMA HarmlessSilence == Harmless(<<>>)
BY LiteralHolds DEF Harmless, HasInviteOk

LEMMA HarmlessAck == Harmless(<<Req("ACK")>>)
<1>1. "ACK" \in Method /\ "BYE" \in Method
  BY DEF Method
<1>2. Req("ACK") \in Message /\ ~InviteOk(Req("ACK")) /\ Req("ACK") # Req("BYE")
  BY <1>1, RequestIsMessage, RequestsDiffer
<1> QED
  BY <1>2, LiteralHolds DEF Harmless, HasInviteOk

LEMMA HarmlessResponse ==
  ASSUME NEW a \in Method, NEW code \in Status, ~(a = "INVITE" /\ IsOk(code))
  PROVE  Harmless(<<Resp(code, a)>>)
<1>1. Resp(code, a) \in Message /\ ~InviteOk(Resp(code, a))
  BY ResponseIsMessage
<1>2. Resp(code, a) # Req("BYE")
  <2>1. "BYE" \in Method
    BY DEF Method
  <2> QED
    BY <2>1, ResponseIsNoRequest
<1> QED
  BY <1>1, <1>2, LiteralHolds DEF Harmless, HasInviteOk

LEMMA HarmlessResponses ==
  ASSUME NEW a \in Method, NEW code \in Status, NEW second \in Status,
         ~IsOk(code), ~IsOk(second)
  PROVE  Harmless(<<Resp(code, a), Resp(second, a)>>)
<1>1. Resp(code, a) \in Message /\ Resp(second, a) \in Message
  BY ResponseIsMessage
<1>2. ~InviteOk(Resp(code, a)) /\ ~InviteOk(Resp(second, a))
  BY ResponseIsMessage
<1>3. Resp(code, a) # Req("BYE") /\ Resp(second, a) # Req("BYE")
  <2>1. "BYE" \in Method
    BY DEF Method
  <2> QED
    BY <2>1, ResponseIsNoRequest
<1> DEFINE both == <<Resp(code, a), Resp(second, a)>>
<1>4. both \in Seq(Message) /\ InFlight(both) = {Resp(code, a), Resp(second, a)}
  BY <1>1, LiteralHolds
<1> QED
  BY <1>2, <1>3, <1>4 DEF Harmless, HasInviteOk

LEMMA ServerSends ==
  ASSUME GatewayTypeOK, NEW state, NEW req, NEW known, NEW messages \in Seq(Message),
         ServerBecomes(state, req, known, messages)
  PROVE  /\ server' = state /\ serverReq' = req /\ serverKnown' = known
         /\ toCaller' \in Seq(Message)
         /\ InFlight(toCaller') \subseteq InFlight(toCaller) \cup InFlight(messages)
BY SentHolds DEF ServerBecomes, GatewayTypeOK

LEMMA ClientSends ==
  ASSUME GatewayTypeOK, NEW state, NEW req, NEW known, NEW messages \in Seq(Message),
         ClientBecomes(state, req, known, messages)
  PROVE  /\ client' = state /\ clientReq' = req /\ clientKnown' = known
         /\ toCallee' \in Seq(Message)
         /\ InFlight(toCallee') \subseteq InFlight(toCallee) \cup InFlight(messages)
BY SentHolds DEF ClientBecomes, GatewayTypeOK

LEMMA ServerSendsHarmless ==
  ASSUME GatewayTypeOK, NEW state, NEW req, NEW known, NEW messages,
         Harmless(messages), ServerBecomes(state, req, known, messages)
  PROVE  ServerQuietly(state, req, known)
BY ServerSends DEF Harmless, HasInviteOk, ServerQuietly

\* The two sends that are not: the BYE of onBye(), the 200 of onOk().
LEMMA ServerHangsUp ==
  ASSUME GatewayTypeOK, NEW state, NEW req, NEW known,
         ServerBecomes(state, req, known, <<Req("BYE")>>)
  PROVE  /\ server' = state /\ serverReq' = req /\ serverKnown' = known
         /\ toCaller' \in Seq(Message)
         /\ HasInviteOk(toCaller') => HasInviteOk(toCaller)
<1>1. Req("BYE") \in Message /\ ~InviteOk(Req("BYE"))
  BY RequestIsMessage DEF Method
<1>2. <<Req("BYE")>> \in Seq(Message) /\ InFlight(<<Req("BYE")>>) = {Req("BYE")}
  BY <1>1, LiteralHolds
<1> QED
  BY <1>1, <1>2, ServerSends DEF HasInviteOk

LEMMA ServerAnswers ==
  ASSUME GatewayTypeOK, NEW state, NEW req, NEW known, NEW a \in Method, NEW code \in Status,
         ServerBecomes(state, req, known, <<Resp(code, a)>>)
  PROVE  /\ server' = state /\ serverReq' = req /\ serverKnown' = known
         /\ toCaller' \in Seq(Message)
         /\ Req("BYE") \in InFlight(toCaller') => Req("BYE") \in InFlight(toCaller)
<1>1. "BYE" \in Method
  BY DEF Method
<1>2. Resp(code, a) \in Message /\ Resp(code, a) # Req("BYE")
  BY <1>1, ResponseIsMessage, ResponseIsNoRequest
<1>3. <<Resp(code, a)>> \in Seq(Message) /\ InFlight(<<Resp(code, a)>>) = {Resp(code, a)}
  BY <1>2, LiteralHolds
<1> QED
  BY <1>2, <1>3, ServerSends

LEMMA ClientIsSilent ==
  ASSUME GatewayTypeOK, NEW state, NEW req, NEW known,
         ClientBecomes(state, req, known, <<>>)
  PROVE  ClientAsking(state, req, known, {})
BY ClientSends, LiteralHolds DEF ClientAsking

LEMMA ClientReplies ==
  ASSUME GatewayTypeOK, NEW state, NEW req, NEW known, NEW a \in Method, NEW code \in Status,
         ClientBecomes(state, req, known, <<Resp(code, a)>>)
  PROVE  ClientAsking(state, req, known, {})
<1>1. Resp(code, a) \in Message
  BY ResponseIsMessage
<1>2. \A b \in Method : Resp(code, a) # Req(b)
  BY ResponseIsNoRequest
<1>3. <<Resp(code, a)>> \in Seq(Message) /\ InFlight(<<Resp(code, a)>>) = {Resp(code, a)}
  BY <1>1, LiteralHolds
<1> QED
  BY <1>2, <1>3, ClientSends DEF ClientAsking

LEMMA ClientAsks ==
  ASSUME GatewayTypeOK, NEW state, NEW req, NEW known, NEW a \in Method,
         ClientBecomes(state, req, known, <<Req(a)>>)
  PROVE  ClientAsking(state, req, known, {a})
<1>1. Req(a) \in Message
  BY RequestIsMessage
<1>2. \A b \in Method : Req(a) = Req(b) => a = b
  BY RequestsDiffer
<1>3. <<Req(a)>> \in Seq(Message) /\ InFlight(<<Req(a)>>) = {Req(a)}
  BY <1>1, LiteralHolds
<1> QED
  BY <1>2, <1>3, ClientSends DEF ClientAsking

-----------------------------------------------------------------------------
(* The invariant is inductive. *)

LEMMA InitIInv == Init => IInv
<1> SUFFICES ASSUME Init PROVE IInv
  OBVIOUS
<1>1. TypeOK
  BY LiteralHolds DEF Init, TypeOK, HandlerState, Method, CallerState, CalleeState
<1>2. /\ InFlight(toCaller) = {} /\ InFlight(fromCaller) = {}
      /\ InFlight(toCallee) = {} /\ InFlight(fromCallee) = {}
  BY LiteralHolds DEF Init
<1>3. RegistryMatchesState /\ LegsAgree /\ CallerWaitsOnLiveLeg /\ InviteIsFirst
  BY DEF Init, RegistryMatchesState, LegsAgree, CallerWaitsOnLiveLeg, InviteIsFirst, InviteLeads, Waiting
<1>4. CallerAnswersBye /\ CalleeAnswersInvite
  BY <1>2 DEF CallerAnswersBye, CalleeAnswersInvite
<1>5. AnswerComesFirst /\ NoPhantomAnswer /\ ByeOnlyAfterAnswer
  BY <1>2 DEF Init, AnswerComesFirst, NoPhantomAnswer, ByeOnlyAfterAnswer, HasInviteOk
<1> QED
  BY <1>1, <1>3, <1>4, <1>5 DEF IInv

\* Whatever a step of the gateway tells of an answer, it has from the callee or
\* had before.
AnswerPassedOn ==
  /\ HasInviteOk(fromCallee') => HasInviteOk(fromCallee)
  /\ Req("BYE") \in InFlight(toCallee') => Req("BYE") \in InFlight(toCallee) \/ client = "CALLING"
  /\ HasInviteOk(toCaller') => HasInviteOk(toCaller) \/ HasInviteOk(fromCallee)
  /\ client' = "CALLING" \/ server' \in {"OK", "CALLING"} =>
       client = "CALLING" \/ server \in {"OK", "CALLING"} \/ HasInviteOk(fromCallee)

LEMMA GatewayServesKeeps ==
  ASSUME GatewayInv, GatewayServes
  PROVE  GatewayInv' /\ AnswerPassedOn
<1> DEFINE m == Head(fromCaller)
<1> HIDE DEF m
<1>0. /\ {"INVITE", "CANCEL", "BYE", "ACK", "OWN"} \subseteq Method
      /\ serverReq \in Method
      /\ "CANCEL" # "INVITE" /\ "BYE" # "INVITE"
  BY DEF GatewayInv, GatewayTypeOK, Method
<1>1. GatewayTypeOK
  BY DEF GatewayInv
<1>2. /\ m \in Message /\ m \in InFlight(fromCaller)
      /\ m = fromCaller[1] /\ 1 \in 1..Len(fromCaller)
  BY <1>1, TailHolds DEF GatewayTypeOK, GatewayServes, m
<1>3. ASSUME NextFromCaller
      PROVE  /\ fromCaller' \in Seq(Message)
             /\ InFlight(fromCaller') \subseteq InFlight(fromCaller)
             /\ \A i \in 1..Len(fromCaller') : fromCaller'[i] # Req("INVITE")
             /\ UNCHANGED <<up, fromCallee, caller, callee>>
  BY <1>1, <1>2, <1>3, TailHolds, TailHasNoInvite
     DEF GatewayInv, InviteLeads, GatewayTypeOK, GatewayServes, NextFromCaller, agents
<1>4. ASSUME NewInvite(m)
      PROVE  NextFromCaller /\ server = "NONE" /\ client = "NONE" /\ ~bridged
  BY <1>2, <1>4 DEF NewInvite, GatewayInv, InviteLeads, LegsAgree
\* A response of the caller finds the server leg closing.
<1>5. ASSUME serverKnown, m.code # 0
      PROVE  server \in {"BYE", "CANCELING"}
  BY <1>2, <1>5 DEF GatewayInv, CallerAnswersBye, RegistryMatchesState, Closing
<1>6. InviteMalformed(m) =>
        ServerQuietly("FINISH", "INVITE", FALSE)
  BY <1>1, HarmlessSilence, ServerSendsHarmless DEF InviteMalformed
<1>7. InviteForbidden(m) => ServerQuietly("FINISH", "INVITE", FALSE)
  <2>1. Harmless(<<Resp(403, "INVITE")>>)
    BY <1>0, StatusCodes, NotOk, HarmlessResponse
  <2> QED
    BY <1>1, <2>1, ServerSendsHarmless DEF InviteForbidden
<1>8. Harmless(<<Resp(100, "INVITE")>>)
  BY <1>0, StatusCodes, NotOk, HarmlessResponse
<1>9. InviteStranded(m) => ServerQuietly("TRYING", "INVITE", TRUE)
  BY <1>1, <1>8, ServerSendsHarmless DEF InviteStranded
<1>10. InviteBusy(m) => ServerQuietly("FINISH", "INVITE", FALSE)
  <2>1. Harmless(<<Resp(100, "INVITE"), Resp(486, "INVITE")>>)
    BY <1>0, StatusCodes, NotOk, HarmlessResponses
  <2> QED
    BY <1>1, <2>1, ServerSendsHarmless DEF InviteBusy
<1>11. InviteRouted(m) =>
         /\ ServerQuietly("TRYING", "INVITE", TRUE)
         /\ ClientAsking("TRYING", "OWN", TRUE, {"INVITE"})
  BY <1>1, <1>8, ServerSendsHarmless, ClientAsks, <1>0 DEF InviteRouted
<1>12. ServerOnAck =>
         \/ server = "OK" /\ ServerQuietly("CALLING", serverReq, serverKnown)
         \/ server \in {"BUSY", "BYE", "CANCELING"} /\ ServerQuietly("FINISH", serverReq, FALSE)
         \/ UNCHANGED serverVars
  BY <1>1, HarmlessSilence, ServerSendsHarmless DEF ServerOnAck
<1>13. CancelFromCaller(m) =>
         /\ ServerQuietly("CANCELING", "CANCEL", serverKnown)
         /\ \/ bridged /\ ClientAsking("CANCELING", clientReq, clientKnown, {"CANCEL"})
            \/ ~bridged /\ UNCHANGED clientVars
  <2>1. Harmless(<<Resp(200, "CANCEL")>>)
    BY <1>0, StatusCodes, HarmlessResponse
  <2> QED
    BY <1>0, <1>1, <2>1, ServerSendsHarmless, ClientAsks
       DEF CancelFromCaller, OnClientLeg, ClientOnCancel
<1>14. ByeFromCaller(m) =>
         \/ /\ server = "CALLING" /\ ServerQuietly("BYE", "BYE", serverKnown)
            /\ \/ client = "CALLING" /\ ClientAsking("BYE", "OWN", clientKnown, {"BYE"})
               \/ client # "CALLING" /\ UNCHANGED clientVars
         \/ /\ server # "CALLING" /\ ServerQuietly(server, serverReq, serverKnown)
            /\ UNCHANGED clientVars
  <2>1. Harmless(<<Resp(200, "BYE")>>) /\ Harmless(<<Resp(400, serverReq)>>)
    BY <1>0, StatusCodes, NotOk, HarmlessResponse
  <2>2. server = "CALLING" => bridged
    BY DEF GatewayInv, LegsAgree
  <2> QED
    BY ZenonT(60), <1>0, <1>1, <2>1, <2>2, ServerSendsHarmless, ClientAsks
       DEF ByeFromCaller, OnClientLeg, ClientHangUp
<1>15. OkFromCaller(m) =>
         server \in {"BYE", "CANCELING"} /\ ServerQuietly("FINISH", serverReq, FALSE)
  <2>1. OkFromCaller(m) => serverKnown /\ m.code # 0
    BY DEF OkFromCaller, IsOk
  <2>2. OkFromCaller(m) => ServerBecomes("FINISH", serverReq, FALSE, <<Req("ACK")>>)
    <3> SUFFICES ASSUME OkFromCaller(m)
                 PROVE  ServerBecomes("FINISH", serverReq, FALSE, <<Req("ACK")>>)
      OBVIOUS
    <3>1. server \in {"BYE", "CANCELING"}
      BY <1>5, <2>1
    <3>2. ServerOnOk
      BY DEF OkFromCaller
    <3> QED
      BY <3>1, <3>2 DEF ServerOnOk, Waiting
  <2> QED
    BY <1>1, <1>5, <2>1, <2>2, HarmlessAck, ServerSendsHarmless
<1>16. RejectFromCaller(m) =>
         server \in {"BYE", "CANCELING"} /\ ServerQuietly("FINISH", serverReq, FALSE)
  <2>1. RejectFromCaller(m) => serverKnown /\ m.code # 0
    BY DEF RejectFromCaller, IsReject
  <2>2. Harmless(<<Resp(486, serverReq)>>)
    BY <1>0, StatusCodes, NotOk, HarmlessResponse
  <2> QED
    BY <1>1, <1>5, <2>1, <2>2, ServerSendsHarmless DEF RejectFromCaller, ServerOnReject
<1> USE DEF GatewayInv, GatewayTypeOK, RegistryMatchesState, Revived, LegsAgree, CallerWaitsOnLiveLeg,
      InviteLeads, CallerAnswersBye, CalleeAnswersInvite, AnswerPassedOn,
      Waiting, Unused, Closing,
      HandlerState, MessageState, Method, OnlyServerLeg, clientVars, serverVars,
      ServerQuietly, ClientAsking
<1>17. CASE InviteMalformed(m)
  <2>1. GatewayTypeOK'
    BY <1>3, <1>4, <1>6, <1>17 DEF InviteMalformed
  <2>2. RegistryMatchesState' /\ LegsAgree' /\ CallerWaitsOnLiveLeg'
    BY <1>3, <1>4, <1>6, <1>17 DEF InviteMalformed
  <2>3. InviteLeads' /\ CallerAnswersBye' /\ CalleeAnswersInvite'
    BY <1>3, <1>4, <1>6, <1>17 DEF InviteMalformed
  <2>4. AnswerPassedOn
    BY <1>3, <1>4, <1>6, <1>17 DEF InviteMalformed
  <2> QED
    BY <2>1, <2>2, <2>3, <2>4
<1>18. CASE InviteForbidden(m)
  <2>1. GatewayTypeOK'
    BY <1>3, <1>4, <1>7, <1>18 DEF InviteForbidden
  <2>2. RegistryMatchesState' /\ LegsAgree' /\ CallerWaitsOnLiveLeg'
    BY <1>3, <1>4, <1>7, <1>18 DEF InviteForbidden
  <2>3. InviteLeads' /\ CallerAnswersBye' /\ CalleeAnswersInvite'
    BY <1>3, <1>4, <1>7, <1>18 DEF InviteForbidden
  <2>4. AnswerPassedOn
    BY <1>3, <1>4, <1>7, <1>18 DEF InviteForbidden
  <2> QED
    BY <2>1, <2>2, <2>3, <2>4
<1>19. CASE InviteStranded(m)
  <2>1. GatewayTypeOK'
    BY <1>3, <1>4, <1>9, <1>19 DEF InviteStranded
  <2>2. RegistryMatchesState' /\ LegsAgree' /\ CallerWaitsOnLiveLeg'
    BY <1>3, <1>4, <1>9, <1>19 DEF InviteStranded
  <2>3. InviteLeads' /\ CallerAnswersBye' /\ CalleeAnswersInvite'
    BY <1>3, <1>4, <1>9, <1>19 DEF InviteStranded
  <2>4. AnswerPassedOn
    BY <1>3, <1>4, <1>9, <1>19 DEF InviteStranded
  <2> QED
    BY <2>1, <2>2, <2>3, <2>4
<1>20. CASE InviteBusy(m)
  <2>1. GatewayTypeOK'
    BY <1>3, <1>4, <1>10, <1>20 DEF InviteBusy
  <2>2. RegistryMatchesState' /\ LegsAgree' /\ CallerWaitsOnLiveLeg'
    BY <1>3, <1>4, <1>10, <1>20 DEF InviteBusy
  <2>3. InviteLeads' /\ CallerAnswersBye' /\ CalleeAnswersInvite'
    BY <1>3, <1>4, <1>10, <1>20 DEF InviteBusy
  <2>4. AnswerPassedOn
    BY <1>3, <1>4, <1>10, <1>20 DEF InviteBusy
  <2> QED
    BY <2>1, <2>2, <2>3, <2>4
<1>21. CASE InviteRouted(m)
  <2>1. GatewayTypeOK'
    BY <1>3, <1>4, <1>11, <1>21 DEF InviteRouted
  <2>2. RegistryMatchesState' /\ LegsAgree' /\ CallerWaitsOnLiveLeg'
    BY <1>3, <1>4, <1>11, <1>21 DEF InviteRouted
  <2>3. InviteLeads' /\ CallerAnswersBye' /\ CalleeAnswersInvite'
    BY <1>3, <1>4, <1>11, <1>21 DEF InviteRouted
  <2>4. AnswerPassedOn
    BY <1>3, <1>4, <1>11, <1>21 DEF InviteRouted
  <2> QED
    BY <2>1, <2>2, <2>3, <2>4
<1>22. CASE AckFromCaller(m)
  <2>1. NextFromCaller /\ serverKnown /\ UNCHANGED <<clientVars, bridged>>
    BY <1>22 DEF AckFromCaller
  <2>2. CASE server = "OK" /\ ServerQuietly("CALLING", serverReq, serverKnown)
    <3>1. GatewayTypeOK'
      BY <1>3, <2>1, <2>2
    <3>2. RegistryMatchesState' /\ LegsAgree' /\ CallerWaitsOnLiveLeg'
      BY <1>3, <2>1, <2>2
    <3>3. InviteLeads' /\ CallerAnswersBye' /\ CalleeAnswersInvite'
      BY <1>3, <2>1, <2>2
    <3>4. AnswerPassedOn
      BY <1>3, <2>1, <2>2
    <3> QED
      BY <3>1, <3>2, <3>3, <3>4
  <2>3. CASE server \in {"BUSY", "BYE", "CANCELING"} /\ ServerQuietly("FINISH", serverReq, FALSE)
    <3>1. GatewayTypeOK'
      BY <1>3, <2>1, <2>3
    <3>2. RegistryMatchesState' /\ LegsAgree' /\ CallerWaitsOnLiveLeg'
      BY <1>3, <2>1, <2>3
    <3>3. InviteLeads' /\ CallerAnswersBye' /\ CalleeAnswersInvite'
      BY <1>3, <2>1, <2>3
    <3>4. AnswerPassedOn
      BY <1>3, <2>1, <2>3
    <3> QED
      BY <3>1, <3>2, <3>3, <3>4
  <2>4. CASE UNCHANGED serverVars
    <3>1. GatewayTypeOK'
      BY <1>3, <2>1, <2>4
    <3>2. RegistryMatchesState' /\ LegsAgree' /\ CallerWaitsOnLiveLeg'
      BY <1>3, <2>1, <2>4
    <3>3. InviteLeads' /\ CallerAnswersBye' /\ CalleeAnswersInvite'
      BY <1>3, <2>1, <2>4
    <3>4. AnswerPassedOn
      BY <1>3, <2>1, <2>4
    <3> QED
      BY <3>1, <3>2, <3>3, <3>4
  <2> QED
    BY <1>12, <1>22, <2>2, <2>3, <2>4 DEF AckFromCaller
<1>23. CASE CancelFromCaller(m)
  <2>1. GatewayTypeOK'
    BY <1>3, <1>13, <1>23 DEF CancelFromCaller
  <2>2. RegistryMatchesState' /\ LegsAgree' /\ CallerWaitsOnLiveLeg'
    BY <1>3, <1>13, <1>23 DEF CancelFromCaller
  <2>3. InviteLeads' /\ CallerAnswersBye' /\ CalleeAnswersInvite'
    BY <1>3, <1>13, <1>23 DEF CancelFromCaller
  <2>4. AnswerPassedOn
    BY <1>3, <1>13, <1>23 DEF CancelFromCaller
  <2> QED
    BY <2>1, <2>2, <2>3, <2>4
<1>24. CASE ByeFromCaller(m)
  <2>1. NextFromCaller /\ serverKnown /\ UNCHANGED bridged
    BY <1>24 DEF ByeFromCaller
  <2>2. CASE /\ server = "CALLING" /\ ServerQuietly("BYE", "BYE", serverKnown)
            /\ client = "CALLING" /\ ClientAsking("BYE", "OWN", clientKnown, {"BYE"})
    <3>1. GatewayTypeOK'
      BY <1>3, <2>1, <2>2
    <3>2. RegistryMatchesState' /\ LegsAgree' /\ CallerWaitsOnLiveLeg'
      BY <1>3, <2>1, <2>2
    <3>3. InviteLeads' /\ CallerAnswersBye' /\ CalleeAnswersInvite'
      BY <1>3, <2>1, <2>2
    <3>4. AnswerPassedOn
      BY <1>3, <2>1, <2>2
    <3> QED
      BY <3>1, <3>2, <3>3, <3>4
  <2>3. CASE /\ server = "CALLING" /\ ServerQuietly("BYE", "BYE", serverKnown)
            /\ client # "CALLING" /\ UNCHANGED clientVars
    <3>1. GatewayTypeOK'
      BY <1>3, <2>1, <2>3
    <3>2. RegistryMatchesState' /\ LegsAgree' /\ CallerWaitsOnLiveLeg'
      BY <1>3, <2>1, <2>3
    <3>3. InviteLeads' /\ CallerAnswersBye' /\ CalleeAnswersInvite'
      BY <1>3, <2>1, <2>3
    <3>4. AnswerPassedOn
      BY <1>3, <2>1, <2>3
    <3> QED
      BY <3>1, <3>2, <3>3, <3>4
  <2>4. CASE /\ server # "CALLING" /\ ServerQuietly(server, serverReq, serverKnown)
            /\ UNCHANGED clientVars
    <3>1. GatewayTypeOK'
      BY <1>3, <2>1, <2>4
    <3>2. RegistryMatchesState' /\ LegsAgree' /\ CallerWaitsOnLiveLeg'
      BY <1>3, <2>1, <2>4
    <3>3. InviteLeads' /\ CallerAnswersBye' /\ CalleeAnswersInvite'
      BY <1>3, <2>1, <2>4
    <3>4. AnswerPassedOn
      BY <1>3, <2>1, <2>4
    <3> QED
      BY <3>1, <3>2, <3>3, <3>4
  <2> QED
    BY <1>14, <1>24, <2>2, <2>3, <2>4 DEF ByeFromCaller
<1>25. CASE OkFromCaller(m)
  <2>1. GatewayTypeOK'
    BY ZenonT(60), <1>3, <1>15, <1>25 DEF OkFromCaller
  <2>2. RegistryMatchesState' /\ LegsAgree' /\ CallerWaitsOnLiveLeg'
    BY <1>3, <1>15, <1>25 DEF OkFromCaller
  <2>3. InviteLeads' /\ CallerAnswersBye' /\ CalleeAnswersInvite'
    BY <1>3, <1>15, <1>25 DEF OkFromCaller
  <2>4. AnswerPassedOn
    BY <1>3, <1>15, <1>25 DEF OkFromCaller
  <2> QED
    BY <2>1, <2>2, <2>3, <2>4
<1>26. CASE RejectFromCaller(m)
  <2>1. GatewayTypeOK'
    BY <1>3, <1>16, <1>26 DEF RejectFromCaller
  <2>2. RegistryMatchesState' /\ LegsAgree' /\ CallerWaitsOnLiveLeg'
    BY <1>3, <1>16, <1>26 DEF RejectFromCaller
  <2>3. InviteLeads' /\ CallerAnswersBye' /\ CalleeAnswersInvite'
    BY <1>3, <1>16, <1>26 DEF RejectFromCaller
  <2>4. AnswerPassedOn
    BY <1>3, <1>16, <1>26 DEF RejectFromCaller
  <2> QED
    BY <2>1, <2>2, <2>3, <2>4
<1>27. CASE IgnoredFromCaller(m)
  <2>1. GatewayTypeOK'
    BY <1>3, <1>27 DEF IgnoredFromCaller
  <2>2. RegistryMatchesState' /\ LegsAgree' /\ CallerWaitsOnLiveLeg'
    BY <1>3, <1>27 DEF IgnoredFromCaller
  <2>3. InviteLeads' /\ CallerAnswersBye' /\ CalleeAnswersInvite'
    BY <1>3, <1>27 DEF IgnoredFromCaller
  <2>4. AnswerPassedOn
    BY <1>3, <1>27 DEF IgnoredFromCaller
  <2> QED
    BY <2>1, <2>2, <2>3, <2>4
<1> QED
  BY <1>17, <1>18, <1>19, <1>20, <1>21, <1>22, <1>23, <1>24, <1>25, <1>26, <1>27 DEF GatewayServes, m

LEMMA GatewayRelaysKeeps ==
  ASSUME GatewayInv, GatewayRelays
  PROVE  GatewayInv' /\ AnswerPassedOn
<1> DEFINE m == Head(fromCallee)
<1> HIDE DEF m
<1>0. /\ {"INVITE", "CANCEL", "BYE", "ACK", "OWN"} \subseteq Method
      /\ serverReq \in Method /\ clientReq \in Method
  BY DEF GatewayInv, GatewayTypeOK, Method
<1>1. GatewayTypeOK
  BY DEF GatewayInv
<1>2. m \in Message /\ m \in InFlight(fromCallee)
  BY <1>1, TailHolds DEF GatewayTypeOK, GatewayRelays, m
<1>3. ASSUME NextFromCallee
      PROVE  /\ fromCallee' \in Seq(Message)
             /\ InFlight(fromCallee') \subseteq InFlight(fromCallee)
             /\ HasInviteOk(fromCallee') => HasInviteOk(fromCallee)
             /\ UNCHANGED <<up, fromCaller, caller, callee>>
  BY <1>1, <1>3, TailHolds DEF GatewayTypeOK, GatewayRelays, NextFromCallee, agents, HasInviteOk
<1>4. clientKnown => bridged
  BY DEF GatewayInv, RegistryMatchesState, LegsAgree
\* Before the callee has answered there is no 2xx of any kind from it.
<1>5. ASSUME IsOk(m.code), client \in Waiting
      PROVE  HasInviteOk(fromCallee)
  <2>1. m.method = "INVITE"
    BY <1>2, <1>5 DEF GatewayInv, CalleeAnswersInvite, IsOk, Waiting, Unused
  <2> QED
    BY <1>2, <1>5, <2>1 DEF HasInviteOk, InviteOk
<1>6. RingingFromCallee(m) =>
        \/ /\ server = "TRYING" /\ ServerQuietly("RINGING", serverReq, serverKnown)
           /\ client = "TRYING" /\ ClientAsking("RINGING", clientReq, clientKnown, {})
        \/ UNCHANGED <<serverVars, clientVars>>
  <2>1. client = "TRYING" => server = "TRYING"
    BY DEF GatewayInv, LegsAgree, Waiting
  <2>2. Harmless(<<Resp(180, serverReq)>>)
    BY <1>0, StatusCodes, NotOk, HarmlessResponse
  <2> QED
    BY <1>1, <1>4, <2>1, <2>2, ServerSendsHarmless, ClientIsSilent
       DEF RingingFromCallee, OnServerLeg, ServerOnRinging
<1>7. AcceptFromCallee(m) =>
        /\ HasInviteOk(fromCallee) /\ server \in Waiting /\ client \in Waiting
        /\ server' = "OK" /\ serverReq' = serverReq /\ serverKnown' = serverKnown
        /\ toCaller' \in Seq(Message)
        /\ Req("BYE") \in InFlight(toCaller') => Req("BYE") \in InFlight(toCaller)
        /\ ClientAsking("CALLING", clientReq, clientKnown, {"ACK"})
  <2> SUFFICES ASSUME AcceptFromCallee(m)
               PROVE  /\ HasInviteOk(fromCallee) /\ server \in Waiting /\ client \in Waiting
                      /\ server' = "OK" /\ serverReq' = serverReq /\ serverKnown' = serverKnown
                      /\ toCaller' \in Seq(Message)
                      /\ Req("BYE") \in InFlight(toCaller') => Req("BYE") \in InFlight(toCaller)
                      /\ ClientAsking("CALLING", clientReq, clientKnown, {"ACK"})
    OBVIOUS
  <2>1. HasInviteOk(fromCallee) /\ client \in Waiting /\ server \in Waiting
    BY <1>5 DEF AcceptFromCallee, GatewayInv, LegsAgree
  <2>2. ServerOnOk
    BY <1>4 DEF AcceptFromCallee, OnServerLeg
  <2>3. ServerBecomes("OK", serverReq, serverKnown, <<Resp(200, serverReq)>>)
    BY <2>1, <2>2 DEF ServerOnOk, Waiting
  <2>4. ClientBecomes("CALLING", clientReq, clientKnown, <<Req("ACK")>>)
    BY DEF AcceptFromCallee
  <2> QED
    BY <1>0, <1>1, <2>1, <2>3, <2>4, StatusCodes, ServerAnswers, ClientAsks
<1>8. ServerHangUp =>
        ServerAskedToHangUp \/ UNCHANGED serverVars
  BY <1>1, ServerHangsUp DEF ServerHangUp, ServerAskedToHangUp
<1>9. HangupConfirmedByCallee(m) =>
        /\ ServerHangUp /\ client = "BYE"
        /\ ClientAsking("FINISH", clientReq, FALSE, {"ACK"})
  BY <1>0, <1>1, <1>4, ClientAsks DEF HangupConfirmedByCallee, OnServerLeg
<1>10. CancelConfirmedByCallee(m) =>
        client = "CANCELING" /\ ClientAsking("FINISH", clientReq, FALSE, {"ACK"})
  BY <1>0, <1>1, ClientAsks DEF CancelConfirmedByCallee
<1>11. UnexpectedOkFromCallee(m) =>
        client \notin Waiting /\ ClientAsking("FINISH", clientReq, FALSE, {})
  BY <1>1, ClientIsSilent DEF UnexpectedOkFromCallee
<1>12. RejectFromCallee(m) =>
        /\ ServerQuietly("FINISH", serverReq, FALSE)
        /\ ClientAsking("FINISH", clientReq, FALSE, {})
  <2>1. Harmless(<<Resp(486, serverReq)>>)
    BY <1>0, StatusCodes, NotOk, HarmlessResponse
  <2> QED
    BY <1>1, <1>4, <2>1, ServerSendsHarmless, ClientIsSilent
       DEF RejectFromCallee, OnServerLeg, ServerOnReject
<1>13. ByeFromCallee(m) =>
        \/ /\ client = "CALLING" /\ ClientAsking("BYE", "BYE", clientKnown, {})
           /\ ServerHangUp
        \/ /\ client # "CALLING" /\ ClientAsking(client, clientReq, clientKnown, {})
           /\ UNCHANGED serverVars
  BY ZenonT(60), <1>0, <1>1, <1>4, StatusCodes, ClientReplies DEF ByeFromCallee, OnServerLeg
<1> USE DEF GatewayInv, GatewayTypeOK, RegistryMatchesState, Revived, LegsAgree, CallerWaitsOnLiveLeg,
      InviteLeads, CallerAnswersBye, CalleeAnswersInvite, AnswerPassedOn,
      Waiting, Unused, Closing,
      HandlerState, MessageState, Method, OnlyClientLeg, clientVars, serverVars,
      ServerQuietly, ServerAskedToHangUp, ClientAsking
<1>14. CASE RingingFromCallee(m)
  <2>1. NextFromCallee /\ clientKnown /\ UNCHANGED bridged
    BY <1>4, <1>14 DEF RingingFromCallee
  <2>2. CASE /\ server = "TRYING" /\ ServerQuietly("RINGING", serverReq, serverKnown)
            /\ client = "TRYING" /\ ClientAsking("RINGING", clientReq, clientKnown, {})
    <3>1. GatewayTypeOK'
      BY <1>3, <2>1, <2>2
    <3>2. RegistryMatchesState' /\ LegsAgree' /\ CallerWaitsOnLiveLeg'
      BY <1>3, <2>1, <2>2
    <3>3. InviteLeads' /\ CallerAnswersBye' /\ CalleeAnswersInvite'
      BY <1>3, <2>1, <2>2
    <3>4. AnswerPassedOn
      BY <1>3, <2>1, <2>2
    <3> QED
      BY <3>1, <3>2, <3>3, <3>4
  <2>3. CASE UNCHANGED <<serverVars, clientVars>>
    <3>1. GatewayTypeOK'
      BY <1>3, <2>1, <2>3
    <3>2. RegistryMatchesState' /\ LegsAgree' /\ CallerWaitsOnLiveLeg'
      BY <1>3, <2>1, <2>3
    <3>3. InviteLeads' /\ CallerAnswersBye' /\ CalleeAnswersInvite'
      BY <1>3, <2>1, <2>3
    <3>4. AnswerPassedOn
      BY <1>3, <2>1, <2>3
    <3> QED
      BY <3>1, <3>2, <3>3, <3>4
  <2> QED
    BY <1>6, <1>14, <2>2, <2>3
<1>15. CASE AcceptFromCallee(m)
  <2>1. GatewayTypeOK'
    BY <1>3, <1>4, <1>7, <1>15 DEF AcceptFromCallee
  <2>2. RegistryMatchesState' /\ LegsAgree' /\ CallerWaitsOnLiveLeg'
    BY <1>3, <1>4, <1>7, <1>15 DEF AcceptFromCallee
  <2>3. InviteLeads' /\ CallerAnswersBye' /\ CalleeAnswersInvite'
    BY <1>3, <1>4, <1>7, <1>15 DEF AcceptFromCallee
  <2>4. AnswerPassedOn
    BY <1>3, <1>4, <1>7, <1>15 DEF AcceptFromCallee
  <2> QED
    BY <2>1, <2>2, <2>3, <2>4
<1>16. CASE HangupConfirmedByCallee(m)
  <2>1. NextFromCallee /\ clientKnown /\ UNCHANGED bridged
    BY <1>16 DEF HangupConfirmedByCallee
  <2>2. ServerHangUp /\ client = "BYE" /\ ClientAsking("FINISH", clientReq, FALSE, {"ACK"})
    BY <1>9, <1>16
  <2>3. CASE ServerAskedToHangUp
    <3>1. GatewayTypeOK'
      BY <1>3, <2>1, <2>2, <2>3
    <3>2. RegistryMatchesState' /\ LegsAgree' /\ CallerWaitsOnLiveLeg'
      BY <1>3, <2>1, <2>2, <2>3
    <3>3. InviteLeads' /\ CallerAnswersBye' /\ CalleeAnswersInvite'
      BY <1>3, <2>1, <2>2, <2>3
    <3>4. AnswerPassedOn
      BY <1>3, <2>1, <2>2, <2>3
    <3> QED
      BY <3>1, <3>2, <3>3, <3>4
  <2>4. CASE UNCHANGED serverVars
    <3>1. GatewayTypeOK'
      BY <1>3, <2>1, <2>2, <2>4
    <3>2. RegistryMatchesState' /\ LegsAgree' /\ CallerWaitsOnLiveLeg'
      BY <1>3, <2>1, <2>2, <2>4
    <3>3. InviteLeads' /\ CallerAnswersBye' /\ CalleeAnswersInvite'
      BY <1>3, <2>1, <2>2, <2>4
    <3>4. AnswerPassedOn
      BY <1>3, <2>1, <2>2, <2>4
    <3> QED
      BY <3>1, <3>2, <3>3, <3>4
  <2> QED
    BY <1>8, <2>2, <2>3, <2>4
<1>17. CASE CancelConfirmedByCallee(m)
  <2>1. GatewayTypeOK'
    BY <1>3, <1>10, <1>17 DEF CancelConfirmedByCallee
  <2>2. RegistryMatchesState' /\ LegsAgree' /\ CallerWaitsOnLiveLeg'
    BY <1>3, <1>10, <1>17 DEF CancelConfirmedByCallee
  <2>3. InviteLeads' /\ CallerAnswersBye' /\ CalleeAnswersInvite'
    BY <1>3, <1>10, <1>17 DEF CancelConfirmedByCallee
  <2>4. AnswerPassedOn
    BY <1>3, <1>10, <1>17 DEF CancelConfirmedByCallee
  <2> QED
    BY <2>1, <2>2, <2>3, <2>4
<1>18. CASE UnexpectedOkFromCallee(m)
  <2>1. GatewayTypeOK'
    BY <1>3, <1>4, <1>11, <1>18 DEF UnexpectedOkFromCallee
  <2>2. RegistryMatchesState' /\ LegsAgree' /\ CallerWaitsOnLiveLeg'
    BY <1>3, <1>4, <1>11, <1>18 DEF UnexpectedOkFromCallee
  <2>3. InviteLeads' /\ CallerAnswersBye' /\ CalleeAnswersInvite'
    BY <1>3, <1>4, <1>11, <1>18 DEF UnexpectedOkFromCallee
  <2>4. AnswerPassedOn
    BY <1>3, <1>4, <1>11, <1>18 DEF UnexpectedOkFromCallee
  <2> QED
    BY <2>1, <2>2, <2>3, <2>4
<1>19. CASE RejectFromCallee(m)
  <2>1. GatewayTypeOK'
    BY <1>3, <1>4, <1>12, <1>19 DEF RejectFromCallee
  <2>2. RegistryMatchesState' /\ LegsAgree' /\ CallerWaitsOnLiveLeg'
    BY <1>3, <1>4, <1>12, <1>19 DEF RejectFromCallee
  <2>3. InviteLeads' /\ CallerAnswersBye' /\ CalleeAnswersInvite'
    BY <1>3, <1>4, <1>12, <1>19 DEF RejectFromCallee
  <2>4. AnswerPassedOn
    BY <1>3, <1>4, <1>12, <1>19 DEF RejectFromCallee
  <2> QED
    BY <2>1, <2>2, <2>3, <2>4
<1>20. CASE ByeFromCallee(m)
  <2>1. NextFromCallee /\ clientKnown /\ UNCHANGED bridged
    BY <1>20 DEF ByeFromCallee
  <2>2. CASE client = "CALLING" /\ ClientAsking("BYE", "BYE", clientKnown, {}) /\ ServerHangUp
    <3>1. CASE ServerAskedToHangUp
      <4>1. GatewayTypeOK'
        BY <1>3, <2>1, <2>2, <3>1
      <4>2. RegistryMatchesState' /\ LegsAgree' /\ CallerWaitsOnLiveLeg'
        BY <1>3, <2>1, <2>2, <3>1
      <4>3. InviteLeads' /\ CallerAnswersBye' /\ CalleeAnswersInvite'
        BY <1>3, <2>1, <2>2, <3>1
      <4>4. AnswerPassedOn
        BY <1>3, <2>1, <2>2, <3>1
      <4> QED
        BY <4>1, <4>2, <4>3, <4>4
    <3>2. CASE UNCHANGED serverVars
      <4>1. GatewayTypeOK'
        BY <1>3, <2>1, <2>2, <3>2
      <4>2. RegistryMatchesState' /\ LegsAgree' /\ CallerWaitsOnLiveLeg'
        BY <1>3, <2>1, <2>2, <3>2
      <4>3. InviteLeads' /\ CallerAnswersBye' /\ CalleeAnswersInvite'
        BY <1>3, <2>1, <2>2, <3>2
      <4>4. AnswerPassedOn
        BY <1>3, <2>1, <2>2, <3>2
      <4> QED
        BY <4>1, <4>2, <4>3, <4>4
    <3> QED
      BY <1>8, <2>2, <3>1, <3>2
  <2>3. CASE /\ client # "CALLING" /\ ClientAsking(client, clientReq, clientKnown, {})
            /\ UNCHANGED serverVars
    <3>1. GatewayTypeOK'
      BY <1>3, <2>1, <2>3
    <3>2. RegistryMatchesState' /\ LegsAgree' /\ CallerWaitsOnLiveLeg'
      BY <1>3, <2>1, <2>3
    <3>3. InviteLeads' /\ CallerAnswersBye' /\ CalleeAnswersInvite'
      BY <1>3, <2>1, <2>3
    <3>4. AnswerPassedOn
      BY <1>3, <2>1, <2>3
    <3> QED
      BY <3>1, <3>2, <3>3, <3>4
  <2> QED
    BY <1>13, <1>20, <2>2, <2>3
<1>21. CASE IgnoredFromCallee(m)
  <2>1. GatewayTypeOK'
    BY <1>3, <1>21 DEF IgnoredFromCallee
  <2>2. RegistryMatchesState' /\ LegsAgree' /\ CallerWaitsOnLiveLeg'
    BY <1>3, <1>21 DEF IgnoredFromCallee
  <2>3. InviteLeads' /\ CallerAnswersBye' /\ CalleeAnswersInvite'
    BY <1>3, <1>21 DEF IgnoredFromCallee
  <2>4. AnswerPassedOn
    BY <1>3, <1>21 DEF IgnoredFromCallee
  <2> QED
    BY <2>1, <2>2, <2>3, <2>4
<1> QED
  BY <1>14, <1>15, <1>16, <1>17, <1>18, <1>19, <1>20, <1>21 DEF GatewayRelays, m

\* A gateway step touches no agent, and one that leaves the caller's wire alone
\* makes no server leg.
LEMMA ServesWire ==
  ASSUME GatewayTypeOK, GatewayServes
  PROVE  /\ fromCaller # <<>>
         /\ UNCHANGED <<up, fromCallee, caller, callee>>
BY DEF GatewayServes, NewInvite, NextFromCaller, agents, InviteMalformed, InviteForbidden,
       InviteStranded, InviteBusy, InviteRouted, AckFromCaller, CancelFromCaller, ByeFromCaller,
       OkFromCaller, RejectFromCaller, IgnoredFromCaller

LEMMA RelaysWire ==
  ASSUME GatewayInv, GatewayRelays
  PROVE  /\ UNCHANGED <<up, fromCaller, caller, callee>>
         /\ server = "NONE" => server' = "NONE"
<1> DEFINE m == Head(fromCallee)
<1> HIDE DEF m
<1>1. UNCHANGED <<up, fromCaller, caller, callee>>
  BY DEF GatewayRelays, NextFromCallee, agents, RingingFromCallee, AcceptFromCallee,
         HangupConfirmedByCallee, CancelConfirmedByCallee, UnexpectedOkFromCallee,
         RejectFromCallee, ByeFromCallee, IgnoredFromCallee
<1>2. ASSUME server = "NONE"
      PROVE  server' = "NONE"
  <2>1. ~clientKnown
    BY <1>2 DEF GatewayInv, LegsAgree, RegistryMatchesState
  <2>2. IgnoredFromCallee(m)
    BY <2>1 DEF GatewayRelays, m, RingingFromCallee, AcceptFromCallee, HangupConfirmedByCallee,
                CancelConfirmedByCallee, UnexpectedOkFromCallee, RejectFromCallee, ByeFromCallee
  <2> QED
    BY <1>2, <2>2 DEF IgnoredFromCallee, serverVars
<1> QED
  BY <1>1, <1>2

\* So the gateway keeps the invariant of the call, with the caller's one INVITE
\* and the callee's answer in it.
LEMMA InvGivesGateway ==
  ASSUME IInv
  PROVE  GatewayInv
BY DEF IInv, GatewayInv, TypeOK, GatewayTypeOK, InviteIsFirst

LEMMA GatewayStep ==
  ASSUME IInv, GatewayInv', AnswerPassedOn, UNCHANGED <<caller, callee>>,
         caller = "idle" => fromCaller' = <<>> /\ server' = "NONE"
  PROVE  IInv'
<1>1. TypeOK'
  BY DEF IInv, TypeOK, GatewayInv, GatewayTypeOK
<1>2. InviteIsFirst'
  BY DEF GatewayInv, InviteIsFirst
<1>3. Answered' = Answered
  BY DEF Answered
<1>4. AnswerComesFirst' /\ NoPhantomAnswer' /\ ByeOnlyAfterAnswer'
  BY <1>3 DEF IInv, AnswerPassedOn, AnswerComesFirst, NoPhantomAnswer, ByeOnlyAfterAnswer
<1> QED
  BY <1>1, <1>2, <1>4 DEF IInv, GatewayInv

LEMMA GatewayServesStep ==
  ASSUME IInv, GatewayServes
  PROVE  IInv'
<1>1. GatewayInv /\ GatewayTypeOK
  BY InvGivesGateway DEF GatewayInv
<1>2. GatewayInv' /\ AnswerPassedOn
  BY <1>1, GatewayServesKeeps
<1>3. UNCHANGED <<caller, callee>> /\ caller # "idle"
  BY <1>1, ServesWire DEF IInv, InviteIsFirst
<1> QED
  BY <1>2, <1>3, GatewayStep

LEMMA GatewayRelaysStep ==
  ASSUME IInv, GatewayRelays
  PROVE  IInv'
<1>1. GatewayInv
  BY InvGivesGateway
<1>2. GatewayInv' /\ AnswerPassedOn
  BY <1>1, GatewayRelaysKeeps
<1>3. UNCHANGED <<caller, callee>> /\ (caller = "idle" => fromCaller' = <<>> /\ server' = "NONE")
  BY <1>1, RelaysWire DEF IInv, InviteIsFirst
<1> QED
  BY <1>2, <1>3, GatewayStep

\* What the caller's agent does to the wire: requests other than INVITE, or a
\* response when the server leg has sent it a BYE.
CallerSaying(state) ==
  /\ caller # "idle" /\ state # "idle"
  /\ caller' = state
  /\ fromCaller' \in Seq(Message)
  /\ \A i \in 1..Len(fromCaller') : fromCaller'[i] = Req("INVITE") =>
       i \in 1..Len(fromCaller) /\ fromCaller[i] = Req("INVITE")
  /\ \/ server \in Closing
     \/ \A m \in InFlight(fromCaller') : m.code # 0 => m \in InFlight(fromCaller)

LEMMA CallerAsks ==
  ASSUME TypeOK, caller # "idle", NEW state, state # "idle", NEW messages \in Seq(Message),
         CallerDoes(state, messages),
         \A m \in InFlight(messages) : m.code = 0 /\ m # Req("INVITE")
  PROVE  CallerSaying(state)
<1>1. fromCaller' = Sent("server", fromCaller, messages) /\ caller' = state
  BY DEF CallerDoes
<1>2. fromCaller \in Seq(Message) /\ Req("INVITE") \notin InFlight(messages)
  BY DEF TypeOK
<1>3. /\ fromCaller' \in Seq(Message)
      /\ InFlight(fromCaller') \subseteq InFlight(fromCaller) \cup InFlight(messages)
  BY <1>1, <1>2, SentHolds
<1>4. \A i \in 1..Len(fromCaller') : fromCaller'[i] = Req("INVITE") =>
        i \in 1..Len(fromCaller) /\ fromCaller[i] = Req("INVITE")
  BY <1>1, <1>2, SentAddsNoInvite
<1> QED
  BY <1>1, <1>3, <1>4 DEF CallerSaying

LEMMA CallerResponds ==
  ASSUME TypeOK, caller # "idle", server \in Closing, NEW state, state # "idle",
         NEW code \in Status,
         CallerDoes(state, <<Resp(code, "BYE")>>)
  PROVE  CallerSaying(state)
<1>1. "BYE" \in Method /\ "INVITE" \in Method
  BY DEF Method
<1>2. Resp(code, "BYE") \in Message /\ Resp(code, "BYE") # Req("INVITE")
  BY <1>1, ResponseIsMessage, ResponseIsNoRequest
<1> DEFINE messages == <<Resp(code, "BYE")>>
<1>3. messages \in Seq(Message) /\ Req("INVITE") \notin InFlight(messages)
  BY <1>2, LiteralHolds
<1> HIDE DEF messages
<1>4. fromCaller' = Sent("server", fromCaller, messages) /\ caller' = state
  BY DEF CallerDoes, messages
<1>5. fromCaller \in Seq(Message)
  BY DEF TypeOK
<1>6. fromCaller' \in Seq(Message)
  BY <1>3, <1>4, <1>5, SentHolds
<1>7. \A i \in 1..Len(fromCaller') : fromCaller'[i] = Req("INVITE") =>
        i \in 1..Len(fromCaller) /\ fromCaller[i] = Req("INVITE")
  BY <1>3, <1>4, <1>5, SentAddsNoInvite
<1> QED
  BY <1>4, <1>6, <1>7 DEF CallerSaying

LEMMA RequestLists ==
  /\ \A m \in InFlight(<<>>) : m.code = 0 /\ m # Req("INVITE")
  /\ \A a \in Method \ {"INVITE"} :
       /\ <<Req(a)>> \in Seq(Message)
       /\ \A m \in InFlight(<<Req(a)>>) : m.code = 0 /\ m # Req("INVITE")
  /\ \A a, b \in Method \ {"INVITE"} :
       /\ <<Req(a), Req(b)>> \in Seq(Message)
       /\ \A m \in InFlight(<<Req(a), Req(b)>>) : m.code = 0 /\ m # Req("INVITE")
<1>1. "INVITE" \in Method
  BY DEF Method
<1>2. ASSUME NEW a \in Method \ {"INVITE"}
      PROVE  Req(a) \in Message /\ Req(a).code = 0 /\ Req(a) # Req("INVITE")
  <2>1. Req(a).code = 0
    BY DEF Req
  <2> QED
    BY <1>1, <2>1, RequestIsMessage, RequestsDiffer
<1>3. \A a \in Method \ {"INVITE"} :
        /\ <<Req(a)>> \in Seq(Message)
        /\ \A m \in InFlight(<<Req(a)>>) : m.code = 0 /\ m # Req("INVITE")
  BY <1>2, LiteralHolds
<1>4. \A a, b \in Method \ {"INVITE"} :
        /\ <<Req(a), Req(b)>> \in Seq(Message)
        /\ \A m \in InFlight(<<Req(a), Req(b)>>) : m.code = 0 /\ m # Req("INVITE")
  BY <1>2, LiteralHolds
<1> QED
  BY <1>3, <1>4, LiteralHolds

\* The caller's agent, step by step: what its state becomes and what it says.
LEMMA CallerActsAs ==
  ASSUME IInv, CallerActs
  PROVE  \/ /\ caller = "idle" /\ caller' = "calling"
            /\ fromCaller' = <<Req("INVITE")>> /\ UNCHANGED toCaller
         \/ /\ UNCHANGED <<caller, fromCaller>>
            /\ toCaller' \in Seq(Message) /\ InFlight(toCaller') \subseteq InFlight(toCaller)
         \/ /\ \E state \in CallerState :
                 CallerSaying(state) /\ (state = "talking" => Answered)
            /\ toCaller' \in Seq(Message) /\ InFlight(toCaller') \subseteq InFlight(toCaller)
<1>0. /\ "INVITE" \in Method /\ {"CANCEL", "BYE", "ACK"} \subseteq Method \ {"INVITE"}
      /\ 200 \in Status /\ 481 \in Status
      /\ {"calling", "proceeding", "cancelling", "hungup", "ended"} \subseteq CallerState
      /\ caller \in CallerState /\ "talking" \in CallerState
  BY DEF Method, CallerState, IInv, TypeOK, Status
<1>1. TypeOK /\ toCaller \in Seq(Message) /\ fromCaller \in Seq(Message) /\ "server" \in up
  BY DEF IInv, TypeOK, CallerActs
<1>2. caller = "idle" => fromCaller = <<>>
  BY DEF IInv, InviteIsFirst, InviteLeads
\* Saying nothing leaves the wire as it is.
<1>3. ASSUME NEW state, CallerDoes(state, <<>>)
      PROVE  caller' = state /\ fromCaller' = fromCaller
  BY <1>1, <1>3 DEF CallerDoes, Sent
<1>4. ASSUME NEW state \in CallerState, CallerDoes(state, <<>>),
             caller # "idle", state # "idle"
      PROVE  CallerSaying(state)
  BY <1>1, <1>4, RequestLists, LiteralHolds, CallerAsks
<1>5. ASSUME NEW state \in CallerState, NEW a \in {"CANCEL", "BYE", "ACK"},
             CallerDoes(state, <<Req(a)>>), caller # "idle", state # "idle"
      PROVE  CallerSaying(state)
  BY <1>0, <1>1, <1>5, RequestLists, CallerAsks
<1>6. ASSUME CallerDoes("hungup", <<Req("ACK"), Req("BYE")>>), caller # "idle"
      PROVE  CallerSaying("hungup")
  BY <1>0, <1>1, <1>6, RequestLists, CallerAsks
<1>7. CASE CallerDials /\ UNCHANGED toCaller
  <2>1. caller' = "calling" /\ fromCaller' = Sent("server", <<>>, <<Req("INVITE")>>)
    BY <1>2, <1>7 DEF CallerDials, CallerDoes
  <2>2. Req("INVITE") \in Message
    BY <1>0, RequestIsMessage
  <2>3. Sent("server", <<>>, <<Req("INVITE")>>) = <<Req("INVITE")>>
    BY <1>1, <2>2 DEF Sent
  <2> QED
    BY <1>7, <2>1, <2>3 DEF CallerDials
<1>8. CASE CallerCancels /\ UNCHANGED toCaller
  BY <1>0, <1>1, <1>5, <1>8 DEF CallerCancels
<1>9. CASE CallerHangsUp /\ UNCHANGED toCaller
  BY <1>0, <1>1, <1>5, <1>9 DEF CallerHangsUp
<1>10. CASE CallerTakes
  <2> DEFINE m == Head(toCaller)
  <2>1. /\ toCaller' \in Seq(Message) /\ InFlight(toCaller') \subseteq InFlight(toCaller)
        /\ m \in InFlight(toCaller)
    BY <1>1, <1>10, TailHolds DEF CallerTakes
  <2>2. CASE \E state \in CallerState : CallerDoes(state, <<>>) /\ state \in {caller, "proceeding", "ended"}
               /\ (state # caller => caller # "idle")
    <3>1. PICK state \in CallerState : CallerDoes(state, <<>>) /\ state \in {caller, "proceeding", "ended"}
                 /\ (state # caller => caller # "idle")
      BY <2>2
    <3>2. CASE state = caller
      BY <1>3, <2>1, <3>1, <3>2
    <3>3. CASE state # caller
      BY <1>4, <2>1, <3>1, <3>3
    <3> QED
      BY <3>2, <3>3
  <2>3. CASE m = Req("BYE")
    <3>1. server \in Closing /\ caller # "idle"
      BY <2>1, <2>3 DEF IInv, CallerAnswersBye, InviteIsFirst, InviteLeads, Closing
    <3>2. CallerTakesBye
      <4>1. m.code = 0
        BY <2>3 DEF Req
      <4> QED
        BY <1>10, <2>3, <4>1 DEF CallerTakes
    <3>3. \E state \in CallerState, code \in Status :
            state \notin {"talking", "idle"} /\ CallerDoes(state, <<Resp(code, "BYE")>>)
      <4>1. CASE caller = "talking"
        <5>1. CallerDoes("ended", <<Resp(200, "BYE")>>)
          BY <3>2, <4>1 DEF CallerTakesBye
        <5> QED
          BY <1>0, <5>1
      <4>2. CASE caller # "talking"
        <5>1. PICK code \in {200, 481} :
                CallerDoes(IF caller = "hungup" THEN "ended" ELSE caller, <<Resp(code, "BYE")>>)
          BY <3>2, <4>2 DEF CallerTakesBye
        <5> QED
          BY <1>0, <3>1, <4>2, <5>1
      <4> QED
        BY <4>1, <4>2
    <3>4. \E state \in CallerState : state # "talking" /\ CallerSaying(state)
      BY <1>1, <3>1, <3>3, CallerResponds
    <3> QED
      BY <2>1, <3>4
  <2>4. CASE m # Req("BYE") /\ m.code # 0 /\ m.method = "INVITE"
    <3>1. CallerTakesInviteResponse(m.code)
      BY <1>10, <2>4 DEF CallerTakes
    <3>2. IsOk(m.code) => Answered
      BY <2>1, <2>4 DEF IInv, NoPhantomAnswer, HasInviteOk, InviteOk
    <3>3. \/ /\ IsOk(m.code) /\ caller # "idle"
             /\ \/ CallerDoes("talking", <<Req("ACK")>>)
                \/ CallerDoes("hungup", <<Req("ACK"), Req("BYE")>>)
          \/ caller # "idle" /\ CallerDoes("ended", <<Req("ACK")>>)
          \/ caller # "idle" /\ CallerDoes("proceeding", <<>>)
          \/ CallerDoes(caller, <<>>)
      <4>1. m.code \in 0..699
        <5>1. m \in Message
          BY <1>1, <1>10, TailHolds DEF CallerTakes
        <5> QED
          BY <5>1 DEF Message
      <4>2. CASE m.code < 200 /\ caller = "calling"
        BY <3>1, <4>1, <4>2 DEF CallerTakesInviteResponse, IsOk
      <4>3. CASE IsOk(m.code) /\ caller \in {"calling", "proceeding"}
        BY <3>1, <4>1, <4>3 DEF CallerTakesInviteResponse, IsOk
      <4>4. CASE IsOk(m.code) /\ caller = "cancelling"
        BY <3>1, <4>1, <4>4 DEF CallerTakesInviteResponse, IsOk
      <4>5. CASE m.code >= 300 /\ caller \in {"calling", "proceeding", "cancelling"}
        BY <3>1, <4>1, <4>5 DEF CallerTakesInviteResponse, IsOk
      <4> QED
        BY <3>1, <4>2, <4>3, <4>4, <4>5 DEF CallerTakesInviteResponse
    <3> QED
      BY <1>0, <1>5, <1>6, <2>1, <2>2, <3>2, <3>3
  <2>5. CASE m # Req("BYE") /\ ~(m.code # 0 /\ m.method = "INVITE")
    <3>1. (caller = "hungup" /\ CallerDoes("ended", <<>>)) \/ CallerDoes(caller, <<>>)
      BY <1>10, <2>5 DEF CallerTakes
    <3> QED
      BY <1>0, <2>2, <3>1
  <2> QED
    BY <2>3, <2>4, <2>5
<1> QED
  BY <1>7, <1>8, <1>9, <1>10 DEF CallerActs

LEMMA CallerActsStep ==
  ASSUME IInv, CallerActs
  PROVE  IInv'
<1>1. /\ UNCHANGED <<server, serverReq, serverKnown, client, clientReq, clientKnown, toCallee>>
      /\ UNCHANGED <<bridged, up, fromCallee, callee>>
  BY DEF CallerActs, clientVars
<1>2. TypeOK /\ {"calling", "proceeding", "ended", "talking"} \subseteq CallerState
  BY DEF IInv, CallerState
<1>3. RegistryMatchesState' /\ LegsAgree' /\ CallerWaitsOnLiveLeg'
  BY <1>1 DEF IInv, RegistryMatchesState, Revived, LegsAgree, CallerWaitsOnLiveLeg, Waiting
<1>4. CalleeAnswersInvite' /\ AnswerComesFirst' /\ ByeOnlyAfterAnswer'
  BY <1>1 DEF IInv, CalleeAnswersInvite, AnswerComesFirst, ByeOnlyAfterAnswer, Answered, Unused
<1>5. CASE caller = "idle" /\ caller' = "calling" /\ fromCaller' = <<Req("INVITE")>> /\ UNCHANGED toCaller
  <2>1. Req("INVITE") \in Message /\ Req("INVITE").code = 0
    BY RequestIsMessage DEF Method, Req
  <2>2. /\ fromCaller' \in Seq(Message) /\ InFlight(fromCaller') = {Req("INVITE")}
        /\ \A i \in 1..Len(fromCaller') : i = 1
    BY <1>5, <2>1, LiteralHolds
  <2>3. TypeOK'
    BY <1>1, <1>2, <1>5, <2>2 DEF TypeOK
  <2>4. InviteIsFirst' /\ CallerAnswersBye' /\ NoPhantomAnswer'
    BY <1>1, <1>5, <2>1, <2>2
       DEF IInv, InviteIsFirst, InviteLeads, CallerAnswersBye, NoPhantomAnswer, Answered, Closing
  <2> QED
    BY <1>3, <1>4, <2>3, <2>4 DEF IInv
<1>6. CASE /\ UNCHANGED <<caller, fromCaller>>
           /\ toCaller' \in Seq(Message) /\ InFlight(toCaller') \subseteq InFlight(toCaller)
  <2>1. TypeOK'
    BY <1>1, <1>2, <1>6 DEF TypeOK
  <2>2. InviteIsFirst' /\ CallerAnswersBye' /\ NoPhantomAnswer'
    BY <1>1, <1>6
       DEF IInv, InviteIsFirst, InviteLeads, CallerAnswersBye, NoPhantomAnswer, Answered, Closing, HasInviteOk
  <2> QED
    BY <1>3, <1>4, <2>1, <2>2 DEF IInv
<1>7. CASE /\ \E state \in CallerState : CallerSaying(state) /\ (state = "talking" => Answered)
           /\ toCaller' \in Seq(Message) /\ InFlight(toCaller') \subseteq InFlight(toCaller)
  <2>1. PICK state \in CallerState : CallerSaying(state) /\ (state = "talking" => Answered)
    BY <1>7
  <2>2. TypeOK'
    BY <1>1, <1>2, <1>7, <2>1 DEF TypeOK, CallerSaying
  <2>3. InviteIsFirst' /\ CallerAnswersBye'
    BY <1>1, <1>7, <2>1 DEF IInv, InviteIsFirst, InviteLeads, CallerAnswersBye, CallerSaying, Closing
  <2>4. NoPhantomAnswer'
    BY <1>1, <1>7, <2>1 DEF IInv, NoPhantomAnswer, Answered, CallerSaying, HasInviteOk
  <2> QED
    BY <1>3, <1>4, <2>2, <2>3, <2>4 DEF IInv
<1> QED
  BY <1>5, <1>6, <1>7, CallerActsAs

\* What the callee's agent does to the wire: it takes no answer back, and tells
\* of one only when it has answered; to anything but the INVITE it responds
\* when the client leg has been heard from first.
CalleeSaying(state, messages) ==
  /\ callee' = state /\ state \in CalleeState
  /\ Answered => Answered'
  /\ messages \in Seq(Message)
  /\ fromCallee' = Sent("client", fromCallee, messages)
  /\ HasInviteOk(messages) => Answered'
  /\ \A m \in InFlight(messages) : m.code # 0 /\ m.method # "INVITE" => client \notin Unused

LEMMA CalleeSays ==
  ASSUME TypeOK, NEW state \in CalleeState, NEW a \in Method, NEW code \in Status,
         CalleeDoes(state, <<Resp(code, a)>>),
         callee \in {"answered", "talking", "hungup", "ended"}
           => state \in {"answered", "talking", "hungup", "ended"},
         a = "INVITE" /\ IsOk(code) => state \in {"answered", "talking", "hungup", "ended"},
         a = "INVITE" \/ client \notin Unused
  PROVE  CalleeSaying(state, <<Resp(code, a)>>)
<1>1. Resp(code, a) \in Message /\ Resp(code, a).method = a
  BY ResponseIsMessage DEF Resp
<1>2. InviteOk(Resp(code, a)) => a = "INVITE" /\ IsOk(code)
  BY ResponseIsMessage
<1> DEFINE messages == <<Resp(code, a)>>
<1>3. messages \in Seq(Message) /\ InFlight(messages) = {Resp(code, a)}
  BY <1>1, LiteralHolds
<1>4. callee' = state /\ fromCallee' = Sent("client", fromCallee, messages)
  BY DEF CalleeDoes
<1> HIDE DEF messages
<1>5. HasInviteOk(messages) => Answered'
  BY <1>2, <1>3, <1>4 DEF HasInviteOk, Answered
<1>6. Answered => Answered'
  BY <1>4 DEF Answered
<1>7. \A m \in InFlight(messages) : m.code # 0 /\ m.method # "INVITE" => client \notin Unused
  BY <1>1, <1>3
<1>8. CalleeSaying(state, messages)
  BY <1>3, <1>4, <1>5, <1>6, <1>7 DEF CalleeSaying
<1> QED
  BY <1>8 DEF messages

LEMMA CalleeIsSilent ==
  ASSUME TypeOK, NEW state \in CalleeState, CalleeDoes(state, <<>>),
         callee \in {"answered", "talking", "hungup", "ended"}
           => state \in {"answered", "talking", "hungup", "ended"}
  PROVE  CalleeSaying(state, <<>>)
<1>1. callee' = state /\ fromCallee' = Sent("client", fromCallee, <<>>)
  BY DEF CalleeDoes
<1>2. <<>> \in Seq(Message) /\ InFlight(<<>>) = {}
  BY LiteralHolds
<1>3. Answered => Answered'
  BY <1>1 DEF Answered
<1> QED
  BY <1>1, <1>2, <1>3 DEF CalleeSaying, HasInviteOk

LEMMA CalleeHangsUpSaying ==
  ASSUME TypeOK, CalleeHangsUp
  PROVE  CalleeSaying("hungup", <<Req("BYE")>>)
<1>1. Req("BYE") \in Message /\ ~InviteOk(Req("BYE")) /\ Req("BYE").code = 0
  BY RequestIsMessage DEF Method, Req
<1>2. <<Req("BYE")>> \in Seq(Message) /\ InFlight(<<Req("BYE")>>) = {Req("BYE")}
  BY <1>1, LiteralHolds
<1>3. callee' = "hungup" /\ fromCallee' = Sent("client", fromCallee, <<Req("BYE")>>)
  BY DEF CalleeHangsUp, CalleeDoes
<1>4. "hungup" \in CalleeState /\ Answered'
  BY <1>3 DEF CalleeState, Answered
<1> QED
  BY <1>1, <1>2, <1>3, <1>4 DEF CalleeSaying, HasInviteOk

\* 200 for the CANCEL, then 487 for the INVITE.
LEMMA CalleeTakesCancelSaying ==
  ASSUME TypeOK, client \notin Unused,
         CalleeDoes("declined", <<Resp(200, "CANCEL"), Resp(487, "INVITE")>>), callee = "alerting"
  PROVE  CalleeSaying("declined", <<Resp(200, "CANCEL"), Resp(487, "INVITE")>>)
<1>0. 200 \in Status /\ 487 \in Status /\ "CANCEL" \in Method /\ "INVITE" \in Method /\ ~IsOk(487)
  BY DEF Status, Method, IsOk
<1>1. Resp(200, "CANCEL") \in Message /\ Resp(487, "INVITE") \in Message
  BY <1>0, ResponseIsMessage
<1>2. ~InviteOk(Resp(200, "CANCEL")) /\ ~InviteOk(Resp(487, "INVITE"))
  BY <1>0, ResponseIsMessage
<1> DEFINE messages == <<Resp(200, "CANCEL"), Resp(487, "INVITE")>>
<1>3. messages \in Seq(Message) /\ InFlight(messages) = {Resp(200, "CANCEL"), Resp(487, "INVITE")}
  BY <1>1, LiteralHolds
<1>4. callee' = "declined" /\ fromCallee' = Sent("client", fromCallee, messages)
  BY DEF CalleeDoes
<1> HIDE DEF messages
<1>5. "declined" \in CalleeState /\ (Answered => Answered')
  BY <1>4 DEF CalleeState, Answered
<1>6. ~HasInviteOk(messages)
  BY <1>2, <1>3 DEF HasInviteOk
<1>7. CalleeSaying("declined", messages)
  BY <1>3, <1>4, <1>5, <1>6 DEF CalleeSaying
<1> QED
  BY <1>7 DEF messages

\* The callee's agent, step by step.
LEMMA CalleeActsAs ==
  ASSUME IInv, CalleeActs
  PROVE  /\ \E state, messages : CalleeSaying(state, messages)
         /\ toCallee' \in Seq(Message) /\ InFlight(toCallee') \subseteq InFlight(toCallee)
<1>0. /\ {"INVITE", "CANCEL", "BYE"} \subseteq Method
      /\ 200 \in Status /\ 481 \in Status /\ callee \in CalleeState
      /\ {"alerting", "answered", "declined", "talking", "hungup", "ended"} \subseteq CalleeState
      /\ \A code \in 100..699 : code \in Status
  BY DEF Method, CalleeState, IInv, TypeOK, Status
<1>1. TypeOK /\ toCallee \in Seq(Message)
  BY DEF IInv, TypeOK
<1>2. CASE CalleeProgresses /\ UNCHANGED toCallee
  <2>1. PICK code \in Codes \cap 100..199 : CalleeDoes("alerting", <<Resp(code, "INVITE")>>)
    BY <1>2 DEF CalleeProgresses
  <2>2. code \in Status /\ ~IsOk(code)
    BY DEF Status, IsOk
  <2>3. CalleeSaying("alerting", <<Resp(code, "INVITE")>>)
    <3>1. callee = "alerting"
      BY <1>2 DEF CalleeProgresses
    <3> QED
      BY ZenonT(60), <1>0, <1>1, <2>1, <2>2, <3>1, CalleeSays
  <2> QED
    BY <1>1, <1>2, <2>3
<1>3. CASE CalleeAnswers /\ UNCHANGED toCallee
  <2>1. PICK code \in Codes \cap 200..299 : CalleeDoes("answered", <<Resp(code, "INVITE")>>)
    BY <1>3 DEF CalleeAnswers
  <2>2. code \in Status
    BY DEF Status
  <2>3. CalleeSaying("answered", <<Resp(code, "INVITE")>>)
    BY <1>0, <1>1, <2>1, <2>2, CalleeSays
  <2> QED
    BY <1>1, <1>3, <2>3
<1>4. CASE CalleeDeclines /\ UNCHANGED toCallee
  <2>1. PICK code \in Codes \cap 300..699 : CalleeDoes("declined", <<Resp(code, "INVITE")>>)
    BY <1>4 DEF CalleeDeclines
  <2>2. code \in Status /\ ~IsOk(code)
    BY DeclineCodes
  <2>3. CalleeSaying("declined", <<Resp(code, "INVITE")>>)
    <3>1. callee = "alerting"
      BY <1>4 DEF CalleeDeclines
    <3> QED
      BY ZenonT(60), <1>0, <1>1, <2>1, <2>2, <3>1, CalleeSays
  <2> QED
    BY <1>1, <1>4, <2>3
<1>5. CASE CalleeRepeatsAnswer /\ UNCHANGED toCallee
  <2>1. CalleeDoes("answered", <<Resp(200, "INVITE")>>)
    BY <1>5 DEF CalleeRepeatsAnswer
  <2>2. CalleeSaying("answered", <<Resp(200, "INVITE")>>)
    BY ZenonT(60), <1>0, <1>1, <2>1, CalleeSays
  <2> QED
    BY <1>1, <1>5, <2>2
<1>6. CASE CalleeHangsUp /\ UNCHANGED toCallee
  BY <1>1, <1>6, CalleeHangsUpSaying
<1>7. CASE CalleeTakes
  <2> DEFINE m == Head(toCallee)
  <2>1. /\ toCallee' \in Seq(Message) /\ InFlight(toCallee') \subseteq InFlight(toCallee)
        /\ m \in InFlight(toCallee)
    BY <1>1, <1>7, TailHolds DEF CalleeTakes
  <2>2. ASSUME NEW state \in CalleeState, NEW a \in {"CANCEL", "BYE"}, NEW code \in {200, 481},
               CalleeDoes(state, <<Resp(code, a)>>), client \notin Unused,
               callee \in {"answered", "talking", "hungup", "ended"}
                 => state \in {"answered", "talking", "hungup", "ended"}
        PROVE  CalleeSaying(state, <<Resp(code, a)>>)
    <3>1. a \in Method /\ code \in Status /\ a # "INVITE"
      BY <1>0
    <3> QED
      BY <1>1, <2>2, <3>1, CalleeSays
  <2>3. Req("CANCEL").code = 0 /\ Req("BYE").code = 0 /\ Req("INVITE").code = 0 /\ Req("ACK").code = 0
    BY DEF Req
  <2>4. /\ Req("CANCEL") # Req("INVITE") /\ Req("CANCEL") # Req("ACK")
        /\ Req("BYE") # Req("INVITE") /\ Req("BYE") # Req("ACK") /\ Req("BYE") # Req("CANCEL")
    BY DEF Req
  <2>5. CASE m = Req("CANCEL")
    <3>1. client \notin Unused
      BY <2>1, <2>5 DEF IInv, CalleeAnswersInvite
    <3>2. CalleeTakesCancel
      BY <1>7, <2>3, <2>4, <2>5 DEF CalleeTakes
    <3>3. CASE callee = "alerting"
      <4>1. CalleeDoes("declined", <<Resp(200, "CANCEL"), Resp(487, "INVITE")>>)
        BY <3>2, <3>3 DEF CalleeTakesCancel
      <4> QED
        BY <1>1, <2>1, <3>1, <3>3, <4>1, CalleeTakesCancelSaying
    <3>4. CASE callee # "alerting"
      <4>1. PICK code \in {200, 481} : CalleeDoes(callee, <<Resp(code, "CANCEL")>>)
        BY <3>2, <3>4 DEF CalleeTakesCancel
      <4>2. CalleeSaying(callee, <<Resp(code, "CANCEL")>>)
        BY <1>0, <2>2, <3>1, <4>1
      <4> QED
        BY <2>1, <4>2
    <3> QED
      BY <3>3, <3>4
  <2>6. CASE m = Req("BYE")
    <3>1. client \notin Unused
      BY <2>1, <2>6 DEF IInv, CalleeAnswersInvite
    <3>2. CalleeTakesBye
      BY <1>7, <2>3, <2>4, <2>6 DEF CalleeTakes
    <3>3. CASE callee \in {"answered", "talking"}
      <4>1. CalleeDoes("ended", <<Resp(200, "BYE")>>)
        BY <3>2, <3>3 DEF CalleeTakesBye
      <4>2. CalleeSaying("ended", <<Resp(200, "BYE")>>)
        BY <1>0, <2>2, <3>1, <4>1
      <4> QED
        BY <2>1, <4>2
    <3>4. CASE callee \notin {"answered", "talking"}
      <4> DEFINE state == IF callee = "hungup" THEN "ended" ELSE callee
      <4>1. PICK code \in {200, 481} : CalleeDoes(state, <<Resp(code, "BYE")>>)
        BY <3>2, <3>4 DEF CalleeTakesBye
      <4>2. /\ state \in CalleeState
            /\ callee \in {"answered", "talking", "hungup", "ended"}
                 => state \in {"answered", "talking", "hungup", "ended"}
        BY <1>0
      <4> HIDE DEF state
      <4>3. CalleeSaying(state, <<Resp(code, "BYE")>>)
        BY <2>2, <3>1, <4>1, <4>2
      <4> QED
        BY <2>1, <4>3
    <3> QED
      BY <3>3, <3>4
  <2>7. CASE m \notin {Req("CANCEL"), Req("BYE")}
    <3>1. \/ callee = "idle" /\ CalleeDoes("alerting", <<>>)
          \/ callee = "answered" /\ CalleeDoes("talking", <<>>)
          \/ callee = "hungup" /\ CalleeDoes("ended", <<>>)
          \/ CalleeDoes(callee, <<>>)
      BY <1>7, <2>7 DEF CalleeTakes
    <3>2. \E state \in CalleeState :
            /\ CalleeDoes(state, <<>>)
            /\ callee \in {"answered", "talking", "hungup", "ended"}
                 => state \in {"answered", "talking", "hungup", "ended"}
      BY <1>0, <3>1
    <3> QED
      BY <1>1, <2>1, <3>2, CalleeIsSilent
  <2> QED
    BY <2>5, <2>6, <2>7
<1> QED
  BY <1>2, <1>3, <1>4, <1>5, <1>6, <1>7 DEF CalleeActs

LEMMA CalleeActsStep ==
  ASSUME IInv, CalleeActs
  PROVE  IInv'
<1>1. /\ UNCHANGED <<server, serverReq, serverKnown, client, clientReq, clientKnown, toCaller>>
      /\ UNCHANGED <<bridged, up, fromCaller, caller>>
  BY DEF CalleeActs, serverVars
<1>2. TypeOK /\ fromCallee \in Seq(Message)
  BY DEF IInv, TypeOK
<1>3. toCallee' \in Seq(Message) /\ InFlight(toCallee') \subseteq InFlight(toCallee)
  BY CalleeActsAs
<1>4. PICK state, messages : CalleeSaying(state, messages)
  BY CalleeActsAs
<1>5. /\ callee' \in CalleeState /\ (Answered => Answered')
      /\ HasInviteOk(messages) => Answered'
      /\ \A m \in InFlight(messages) : m.code # 0 /\ m.method # "INVITE" => client \notin Unused
  BY <1>4 DEF CalleeSaying
<1>6. /\ fromCallee' \in Seq(Message)
      /\ InFlight(fromCallee') \subseteq InFlight(fromCallee) \cup InFlight(messages)
  BY <1>2, <1>4, SentHolds DEF CalleeSaying
<1>7. TypeOK'
  BY <1>1, <1>2, <1>3, <1>5, <1>6 DEF TypeOK
<1>8. RegistryMatchesState' /\ LegsAgree' /\ CallerWaitsOnLiveLeg'
  BY <1>1 DEF IInv, RegistryMatchesState, Revived, LegsAgree, CallerWaitsOnLiveLeg, Waiting
<1>9. InviteIsFirst' /\ CallerAnswersBye'
  BY <1>1 DEF IInv, InviteIsFirst, InviteLeads, CallerAnswersBye, Closing
<1>10. CalleeAnswersInvite'
  <2>1. Req("CANCEL") \in InFlight(toCallee') \/ Req("BYE") \in InFlight(toCallee')
          => client \notin Unused
    BY <1>3 DEF IInv, CalleeAnswersInvite
  <2>2. \A m \in InFlight(fromCallee') : m.code # 0 /\ m.method # "INVITE" => client \notin Unused
    BY <1>5, <1>6 DEF IInv, CalleeAnswersInvite
  <2> QED
    BY <1>1, <2>1, <2>2 DEF CalleeAnswersInvite, Unused
<1>11. HasInviteOk(fromCallee') => HasInviteOk(fromCallee) \/ HasInviteOk(messages)
  BY <1>6 DEF HasInviteOk
<1>12. AnswerComesFirst'
  BY <1>1, <1>5, <1>11 DEF IInv, AnswerComesFirst
<1>13. NoPhantomAnswer' /\ ByeOnlyAfterAnswer'
  BY <1>1, <1>3, <1>5 DEF IInv, NoPhantomAnswer, ByeOnlyAfterAnswer
<1> QED
  BY <1>7, <1>8, <1>9, <1>10, <1>12, <1>13 DEF IInv

LEMMA SessionClosesStep ==
  ASSUME IInv, SessionCloses
  PROVE  IInv'
<1>1. /\ UNCHANGED <<server, serverReq, serverKnown, client, clientReq, clientKnown>>
      /\ UNCHANGED <<bridged, caller, callee>> /\ up' \subseteq Legs
  BY DEF IInv, TypeOK, SessionCloses, agents
<1>2. \/ toCaller' = <<>> /\ fromCaller' = <<>> /\ UNCHANGED <<toCallee, fromCallee>>
      \/ toCallee' = <<>> /\ fromCallee' = <<>> /\ UNCHANGED <<toCaller, fromCaller>>
  BY DEF SessionCloses
<1>3. <<>> \in Seq(Message) /\ InFlight(<<>>) = {}
  BY LiteralHolds
<1>4. TypeOK'
  BY <1>1, <1>2, <1>3 DEF IInv, TypeOK
<1>5. RegistryMatchesState' /\ LegsAgree' /\ CallerWaitsOnLiveLeg'
  BY <1>1 DEF IInv, RegistryMatchesState, Revived, LegsAgree, CallerWaitsOnLiveLeg, Waiting
<1>6. InviteIsFirst' /\ CallerAnswersBye'
  BY <1>1, <1>2, <1>3 DEF IInv, InviteIsFirst, InviteLeads, CallerAnswersBye, Closing
<1>7. CalleeAnswersInvite'
  BY <1>1, <1>2, <1>3 DEF IInv, CalleeAnswersInvite, Unused
<1>8. AnswerComesFirst' /\ NoPhantomAnswer' /\ ByeOnlyAfterAnswer'
  BY <1>1, <1>2, <1>3
     DEF IInv, AnswerComesFirst, NoPhantomAnswer, ByeOnlyAfterAnswer, Answered, HasInviteOk
<1> QED
  BY <1>4, <1>5, <1>6, <1>7, <1>8 DEF IInv

LEMMA StutterStep ==
  ASSUME IInv, UNCHANGED vars
  PROVE  IInv'
<1>1. /\ UNCHANGED <<server, serverReq, serverKnown, toCaller, client, clientReq, clientKnown>>
      /\ UNCHANGED <<toCallee, bridged, up, fromCaller, fromCallee, caller, callee>>
  BY DEF vars, serverVars, clientVars, agents
<1>2. TypeOK'
  BY <1>1 DEF IInv, TypeOK
<1>3. RegistryMatchesState' /\ LegsAgree' /\ CallerWaitsOnLiveLeg'
  BY <1>1 DEF IInv, RegistryMatchesState, Revived, LegsAgree, CallerWaitsOnLiveLeg, Waiting
<1>4. InviteIsFirst' /\ CallerAnswersBye' /\ CalleeAnswersInvite'
  BY <1>1 DEF IInv, InviteIsFirst, InviteLeads, CallerAnswersBye, CalleeAnswersInvite, Closing, Unused
<1>5. AnswerComesFirst' /\ NoPhantomAnswer' /\ ByeOnlyAfterAnswer'
  BY <1>1 DEF IInv, AnswerComesFirst, NoPhantomAnswer, ByeOnlyAfterAnswer, Answered
<1> QED
  BY <1>2, <1>3, <1>4, <1>5 DEF IInv

-----------------------------------------------------------------------------
(* The invariants of the runs, for every value of the constants. *)

\* IInv holds in every state the gateway can reach.
THEOREM Inductive == Spec => []IInv
<1>1. IInv /\ [Next]_vars => IInv'
  BY GatewayServesStep, GatewayRelaysStep, CallerActsStep, CalleeActsStep,
     SessionClosesStep, StutterStep DEF Next
<1> QED
  BY InitIInv, <1>1, PTL DEF Spec

\* The states of the handlers and agents and the messages in flight are the
\* ones MessageHandler and its subclasses know.
THEOREM TypeCorrect == Spec => []TypeOK
<1>1. IInv => TypeOK
  BY DEF IInv
<1> QED
  BY Inductive, <1>1, PTL

\* A handler is in messageHandlerList until it is over and no longer: addHandler
\* and onFinishImmediately keep the list and the states together.  Only a CANCEL
\* of the caller revives a client handler that is out of the list.
THEOREM RegistryCorrect == Spec => []RegistryMatchesState
<1>1. IInv => RegistryMatchesState
  BY DEF IInv
<1> QED
  BY Inductive, <1>1, PTL

\* A caller that waits for an answer has a live client leg in the same phase.
THEOREM WaitingCallerHasLeg == Spec => []CallerWaitsOnLiveLeg
<1>1. IInv => CallerWaitsOnLiveLeg
  BY DEF IInv
<1> QED
  BY Inductive, <1>1, PTL

\* No caller is told of an answer that the callee did not give, although onOk()
\* takes the 2xx of any request.
THEOREM AnswersAreReal == Spec => []NoPhantomAnswer
<1>1. IInv => NoPhantomAnswer
  BY DEF IInv
<1> QED
  BY Inductive, <1>1, PTL

\* A callee that has not answered is never sent a BYE.
THEOREM HangupsFollowAnswers == Spec => []ByeOnlyAfterAnswer
<1>1. IInv => ByeOnlyAfterAnswer
  BY DEF IInv
<1> QED
  BY Inductive, <1>1, PTL

-----------------------------------------------------------------------------
(* The two handlers implement the back-to-back user agent of TwoLegs under *)
(* PhaseOf: what a step does to the two states is one of six effects, and  *)
(* each effect is an action of TwoLegs or leaves both phases alone.        *)

MapsToStep == [Abstract!Next]_<<PhaseOf(server), PhaseOf(client)>>

LEMMA Unmoved ==
  ASSUME UNCHANGED <<server, client>>
  PROVE  MapsToStep
BY DEF MapsToStep, PhaseOf

LEMMA Refused ==
  ASSUME server = "NONE", client = "NONE", server' = "FINISH", client' = client
  PROVE  MapsToStep
BY DEF MapsToStep, PhaseOf, Abstract!Next, Abstract!Refuse

LEMMA Offered ==
  ASSUME server = "NONE", client = "NONE",
         server' = "TRYING", client' \in {"NONE", "TRYING"}
  PROVE  MapsToStep
BY DEF MapsToStep, PhaseOf, Abstract!Next, Abstract!Offer

LEMMA Alerted ==
  ASSUME server = "TRYING", client = "TRYING",
         server' = "RINGING", client' = "RINGING"
  PROVE  MapsToStep
BY DEF MapsToStep, PhaseOf, Abstract!Next, Abstract!Alert

LEMMA Connected ==
  ASSUME server \in Waiting, client = server, server' = "OK", client' = "CALLING"
  PROVE  MapsToStep
BY DEF MapsToStep, PhaseOf, Waiting, Abstract!Next, Abstract!Connect, Abstract!Unanswered

LEMMA CalleeLost ==
  ASSUME server \in {"OK", "CALLING"}, client = "CALLING",
         server' = server, client' \in {"BYE", "FINISH"}
  PROVE  MapsToStep
BY DEF MapsToStep, PhaseOf, Abstract!Next, Abstract!LoseCallee

\* The server leg closes and takes along the callee that it has.
LEMMA LegsReleased ==
  ASSUME GatewayInv, server # "NONE", server' \in Closing,
         IF client = "NONE" THEN client' = "NONE" ELSE client' \in Closing
  PROVE  MapsToStep
<1>1. CASE server \in {"TRYING", "RINGING", "OK", "CALLING"}
  BY <1>1 DEF MapsToStep, PhaseOf, Closing, Abstract!Next, Abstract!Release, Abstract!Unanswered
<1>2. CASE server \notin {"TRYING", "RINGING", "OK", "CALLING"}
  <2>1. client \notin {"TRYING", "RINGING", "OK", "CALLING"}
    BY <1>2 DEF GatewayInv, LegsAgree, Waiting
  <2>2. PhaseOf(server) = "released" /\ PhaseOf(server') = "released"
    BY <1>2 DEF PhaseOf, Closing
  <2>3. PhaseOf(client) = PhaseOf(client')
    BY <2>1 DEF PhaseOf, Closing
  <2> QED
    BY <2>2, <2>3 DEF MapsToStep
<1> QED
  BY <1>1, <1>2

\* A closed server leg, or one that only waits for the ACK, moves on by itself.
LEMMA ServerMovesOn ==
  ASSUME client' = client,
         \/ server = "OK" /\ server' = "CALLING"
         \/ server \in {"BUSY", "BYE", "CANCELING"} /\ server' = "FINISH"
  PROVE  MapsToStep
BY DEF MapsToStep, PhaseOf

\* So does a client leg whose party is gone.
LEMMA ClientMovesOn ==
  ASSUME server' = server, client \notin {"NONE", "TRYING", "RINGING", "OK", "CALLING"},
         client' = "FINISH"
  PROVE  MapsToStep
BY DEF MapsToStep, PhaseOf

-----------------------------------------------------------------------------
(* The steps. *)

LEMMA ServesMaps ==
  ASSUME GatewayInv, GatewayServes
  PROVE  MapsToStep
<1> DEFINE m == Head(fromCaller)
<1> HIDE DEF m
<1>1. m \in InFlight(fromCaller) /\ m = fromCaller[1] /\ 1 \in 1..Len(fromCaller)
  BY TailHolds DEF GatewayInv, GatewayTypeOK, GatewayServes, m
<1>2. NewInvite(m) => server = "NONE" /\ client = "NONE"
  BY <1>1 DEF NewInvite, GatewayInv, InviteLeads, LegsAgree
<1>3. serverKnown => server \notin {"NONE", "FINISH"}
  BY DEF GatewayInv, RegistryMatchesState
\* A response of the caller finds the server leg closing.
<1>4. serverKnown /\ m.code # 0 => server \in {"BYE", "CANCELING"}
  BY <1>1, <1>3 DEF GatewayInv, CallerAnswersBye, Closing
<1>5. ASSUME InviteMalformed(m) \/ InviteForbidden(m) \/ InviteBusy(m) PROVE MapsToStep
  BY <1>2, <1>5, Refused
     DEF InviteMalformed, InviteForbidden, InviteBusy, ServerBecomes, OnlyServerLeg, clientVars
<1>6. ASSUME InviteStranded(m) \/ InviteRouted(m) PROVE MapsToStep
  BY <1>2, <1>6, Offered
     DEF InviteStranded, InviteRouted, ServerBecomes, ClientBecomes, OnlyServerLeg, clientVars
<1>7. ASSUME AckFromCaller(m) PROVE MapsToStep
  BY <1>7, ServerMovesOn, Unmoved
     DEF AckFromCaller, ServerOnAck, ServerBecomes, OnlyServerLeg, clientVars, serverVars
<1>8. ASSUME CancelFromCaller(m) PROVE MapsToStep
  <2>1. server # "NONE" /\ server' \in Closing
    BY <1>3, <1>8 DEF CancelFromCaller, ServerBecomes, Closing
  <2>2. IF client = "NONE" THEN client' = "NONE" ELSE client' \in Closing
    BY <1>8 DEF CancelFromCaller, OnClientLeg, ClientOnCancel, ClientBecomes, clientVars,
                Closing, GatewayInv, LegsAgree
  <2> QED
    BY <2>1, <2>2, LegsReleased
<1>9. ASSUME ByeFromCaller(m) PROVE MapsToStep
  <2>1. CASE server = "CALLING"
    <3>1. server' \in Closing
      BY <1>9, <2>1 DEF ByeFromCaller, ServerBecomes, Closing
    <3>2. bridged /\ client # "NONE" /\ client \in {"CALLING", "BYE", "FINISH"}
      BY <2>1 DEF GatewayInv, LegsAgree
    <3>3. client' \in Closing
      BY <1>9, <2>1, <3>2
         DEF ByeFromCaller, OnClientLeg, ClientHangUp, ClientBecomes, clientVars, Closing
    <3> QED
      BY <2>1, <3>1, <3>2, <3>3, LegsReleased
  <2>2. CASE server # "CALLING"
    BY <1>9, <2>2, Unmoved DEF ByeFromCaller, ServerBecomes, clientVars
  <2> QED
    BY <2>1, <2>2
<1>10. ASSUME OkFromCaller(m) PROVE MapsToStep
  <2>1. server \in {"BYE", "CANCELING"}
    BY <1>4, <1>10 DEF OkFromCaller, IsOk
  <2>2. server' = "FINISH" /\ client' = client
    BY <1>10, <2>1 DEF OkFromCaller, ServerOnOk, ServerBecomes, Waiting, OnlyServerLeg, clientVars
  <2> QED
    BY <2>1, <2>2, ServerMovesOn
<1>11. ASSUME RejectFromCaller(m) PROVE MapsToStep
  <2>1. server \in {"BYE", "CANCELING"}
    BY <1>4, <1>11 DEF RejectFromCaller, IsReject
  <2> QED
    BY <1>11, <2>1, ServerMovesOn
       DEF RejectFromCaller, ServerOnReject, ServerBecomes, OnlyServerLeg, clientVars
<1>12. ASSUME IgnoredFromCaller(m) PROVE MapsToStep
  BY <1>12, Unmoved DEF IgnoredFromCaller, serverVars, clientVars
<1> QED
  BY <1>5, <1>6, <1>7, <1>8, <1>9, <1>10, <1>11, <1>12 DEF GatewayServes, m

LEMMA RelaysMaps ==
  ASSUME GatewayInv, GatewayRelays
  PROVE  MapsToStep
<1> DEFINE m == Head(fromCallee)
<1> HIDE DEF m
<1>1. clientKnown => client \notin {"NONE", "FINISH"} /\ bridged /\ server # "NONE"
  BY DEF GatewayInv, RegistryMatchesState, LegsAgree
<1>2. ASSUME RingingFromCallee(m) PROVE MapsToStep
  <2>1. CASE client = "TRYING"
    <3>1. server = "TRYING" /\ bridged
      BY <2>1 DEF GatewayInv, LegsAgree, Waiting
    <3>2. server' = "RINGING" /\ client' = "RINGING"
      BY <1>2, <2>1, <3>1
         DEF RingingFromCallee, OnServerLeg, ServerOnRinging, ServerBecomes, ClientBecomes
    <3> QED
      BY <2>1, <3>1, <3>2, Alerted
  <2>2. CASE client # "TRYING"
    BY <1>2, <2>2, Unmoved DEF RingingFromCallee, serverVars, clientVars
  <2> QED
    BY <2>1, <2>2
<1>3. ASSUME AcceptFromCallee(m) PROVE MapsToStep
  <2>1. client \in Waiting /\ server = client /\ bridged
    BY <1>1, <1>3 DEF AcceptFromCallee, GatewayInv, LegsAgree
  <2>2. server' = "OK" /\ client' = "CALLING"
    <3>1. ServerOnOk /\ server \notin {"BYE", "CANCELING"}
      BY <1>3, <2>1 DEF AcceptFromCallee, OnServerLeg, Waiting
    <3> QED
      BY <1>3, <2>1, <3>1 DEF AcceptFromCallee, ServerOnOk, ServerBecomes, ClientBecomes
  <2> QED
    BY <2>1, <2>2, Connected
<1>4. ASSUME HangupConfirmedByCallee(m) PROVE MapsToStep
  <2>1. client = "BYE" /\ client' = "FINISH"
    BY <1>4 DEF HangupConfirmedByCallee, ClientBecomes
  <2>2. CASE server = "CALLING"
    <3>1. server' = "BYE"
      BY <1>1, <1>4, <2>2
         DEF HangupConfirmedByCallee, OnServerLeg, ServerHangUp, ServerBecomes
    <3> QED
      BY <2>1, <2>2, <3>1, LegsReleased DEF Closing
  <2>3. CASE server # "CALLING"
    BY <1>4, <2>1, <2>3, ClientMovesOn
       DEF HangupConfirmedByCallee, OnServerLeg, ServerHangUp, serverVars
  <2> QED
    BY <2>2, <2>3
<1>5. ASSUME CancelConfirmedByCallee(m) PROVE MapsToStep
  BY <1>5, ClientMovesOn
     DEF CancelConfirmedByCallee, ClientBecomes, OnlyClientLeg, serverVars
<1>6. ASSUME UnexpectedOkFromCallee(m) PROVE MapsToStep
  <2>1. server' = server /\ client' = "FINISH" /\ client \notin Waiting \cup {"NONE", "OK"}
    BY <1>1, <1>6
       DEF UnexpectedOkFromCallee, ClientBecomes, OnlyClientLeg, serverVars, GatewayInv, LegsAgree
  <2>2. CASE client = "CALLING"
    BY <2>1, <2>2, CalleeLost DEF GatewayInv, LegsAgree
  <2>3. CASE client # "CALLING"
    BY <2>1, <2>3, ClientMovesOn DEF Waiting
  <2> QED
    BY <2>2, <2>3
<1>7. ASSUME RejectFromCallee(m) PROVE MapsToStep
  <2>1. server' \in Closing /\ client' \in Closing /\ server # "NONE" /\ client # "NONE"
    BY <1>1, <1>7
       DEF RejectFromCallee, OnServerLeg, ServerOnReject, ServerBecomes, ClientBecomes, Closing
  <2> QED
    BY <2>1, LegsReleased
<1>8. ASSUME ByeFromCallee(m) PROVE MapsToStep
  <2>1. CASE client = "CALLING" /\ server = "CALLING"
    <3>1. server' = "BYE" /\ client' = "BYE"
      BY <1>1, <1>8, <2>1
         DEF ByeFromCallee, OnServerLeg, ServerHangUp, ServerBecomes, ClientBecomes
    <3> QED
      BY <2>1, <3>1, LegsReleased DEF Closing
  <2>2. CASE client = "CALLING" /\ server # "CALLING"
    <3>1. server = "OK" /\ server' = server /\ client' = "BYE"
      BY <1>8, <2>2
         DEF ByeFromCallee, OnServerLeg, ServerHangUp, serverVars, ClientBecomes, GatewayInv, LegsAgree
    <3> QED
      BY <2>2, <3>1, CalleeLost
  <2>3. CASE client # "CALLING"
    BY <1>8, <2>3, Unmoved DEF ByeFromCallee, ClientBecomes, serverVars
  <2> QED
    BY <2>1, <2>2, <2>3
<1>9. ASSUME IgnoredFromCallee(m) PROVE MapsToStep
  BY <1>9, Unmoved DEF IgnoredFromCallee, serverVars, clientVars
<1> QED
  BY <1>2, <1>3, <1>4, <1>5, <1>6, <1>7, <1>8, <1>9 DEF GatewayRelays, m

LEMMA OthersMap ==
  ASSUME CallerActs \/ CalleeActs \/ SessionCloses \/ UNCHANGED vars
  PROVE  MapsToStep
<1>1. UNCHANGED <<server, client>>
  BY DEF CallerActs, CalleeActs, SessionCloses, vars, serverVars, clientVars
<1> QED
  BY <1>1, Unmoved

-----------------------------------------------------------------------------
\* The two handlers keep the promise of the back-to-back user agent: alerting,
\* connecting and releasing are one step for both legs, whatever crosses, and
\* only a connected call may lose its callee first.
THEOREM LegsMoveTogether == Spec => LegsInLockStep
<1>1. Init => Abstract!Init
  BY DEF Init, Abstract!Init, PhaseOf
<1>2. IInv /\ [Next]_vars => [Abstract!Next]_<<PhaseOf(server), PhaseOf(client)>>
  BY InvGivesGateway, ServesMaps, RelaysMaps, OthersMap DEF Next, MapsToStep
<1> QED
  BY Inductive, <1>1, <1>2, PTL DEF Spec, LegsInLockStep, Abstract!Spec

-----------------------------------------------------------------------------
(* One final response: by induction relative to IInv. *)

\* What an INVITE may get once only.
IsFinal(m) == m.method = "INVITE" /\ m.code >= 200
NoFinal(wire) == \A m \in InFlight(wire) : ~IsFinal(m)
AtMostOneFinal(wire) ==
  \A i, j \in 1..Len(wire) : IsFinal(wire[i]) /\ IsFinal(wire[j]) => i = j

Unanswered == {"calling", "proceeding", "cancelling"}

\* A leg that has not answered has sent no final response, still cites the
\* INVITE, and faces a caller that waits: it has had no reason for a BYE.
NotYetAnswered ==
  server \in Unused =>
    /\ NoFinal(toCaller) /\ serverReq = "INVITE"
    /\ caller \in Unanswered \cup {"idle"} /\ Req("BYE") \notin InFlight(fromCaller)

FinalAwaited ==
  /\ AtMostOneFinal(toCaller)
  /\ ~NoFinal(toCaller) => caller \in Unanswered

\* A leg that closes cites the CANCEL, the BYE or a request of its own, and one
\* that a rejection of the callee can still reach is not over by a rejection.
ClosingCitesAnother ==
  /\ server \in Unused \cup Closing \cup {"OK", "CALLING"}
  /\ server \in {"BYE", "CANCELING"} \/ (server = "FINISH" /\ clientKnown)
       => serverReq # "INVITE"

\* The ACK of the 200 is sent, and arrives, before a BYE.
ByeAfterAck(wire) ==
  \A i \in 1..Len(wire) : wire[i] = Req("BYE") => \E j \in 1..(i - 1) : wire[j] = Req("ACK")
AckBeforeBye ==
  server = "OK" =>
    /\ ByeAfterAck(fromCaller)
    /\ caller = "talking" /\ "server" \in up => Req("ACK") \in InFlight(fromCaller)

\* A callee that has not declined rejects nothing, unless the gateway cancels
\* or hangs up.
CalleeQuiet ==
  callee # "declined" /\ (client \in Unused \cup {"CALLING"} \/ server \in {"OK", "CALLING"}) =>
    /\ Req("CANCEL") \notin InFlight(toCallee) /\ Req("BYE") \notin InFlight(toCallee)
    /\ \A m \in InFlight(fromCallee) : ~IsReject(m.code)

FInv ==
  /\ NotYetAnswered /\ FinalAwaited /\ ClosingCitesAnother /\ AckBeforeBye /\ CalleeQuiet

-----------------------------------------------------------------------------
(* Final responses on a wire. *)

LEMMA NoFinalAnywhere ==
  ASSUME NEW wire \in Seq(Message)
  PROVE  NoFinal(wire) <=> \A i \in 1..Len(wire) : ~IsFinal(wire[i])
BY DEF NoFinal, InFlight

LEMMA NoneIsAtMostOne ==
  ASSUME NEW wire \in Seq(Message), NoFinal(wire)
  PROVE  AtMostOneFinal(wire)
BY NoFinalAnywhere DEF AtMostOneFinal

\* A send without a final response adds none, one with a final response makes
\* it the only one on a wire that has none.
LEMMA SentNoFinal ==
  ASSUME NEW wire \in Seq(Message), NEW messages \in Seq(Message), NEW leg, NoFinal(messages)
  PROVE  /\ NoFinal(wire) => NoFinal(Sent(leg, wire, messages))
         /\ AtMostOneFinal(wire) => AtMostOneFinal(Sent(leg, wire, messages))
         /\ ~NoFinal(Sent(leg, wire, messages)) => ~NoFinal(wire)
<1>1. NoFinal(wire) => NoFinal(Sent(leg, wire, messages))
  BY SentHolds DEF NoFinal
<1>2. ASSUME AtMostOneFinal(wire) PROVE AtMostOneFinal(wire \o messages)
  <2>1. \A i \in 1..Len(messages) : ~IsFinal(messages[i])
    BY NoFinalAnywhere
  <2>2. \A i \in 1..Len(wire \o messages) : IsFinal((wire \o messages)[i]) =>
          i \in 1..Len(wire) /\ (wire \o messages)[i] = wire[i]
    <3> TAKE i \in 1..Len(wire \o messages)
    <3>1. CASE i <= Len(wire)
      BY <3>1
    <3>2. CASE i > Len(wire)
      <4>1. i - Len(wire) \in 1..Len(messages) /\ (wire \o messages)[i] = messages[i - Len(wire)]
        BY <3>2
      <4> QED BY <2>1, <4>1
    <3> QED BY <3>1, <3>2
  <2> QED BY <1>2, <2>2 DEF AtMostOneFinal
<1> QED BY <1>1, <1>2 DEF Sent

LEMMA SentAtMostOne ==
  ASSUME NEW wire \in Seq(Message), NEW messages \in Seq(Message), NEW leg,
         NoFinal(wire), AtMostOneFinal(messages)
  PROVE  AtMostOneFinal(Sent(leg, wire, messages))
<1>1. AtMostOneFinal(wire \o messages)
  <2>1. \A i \in 1..Len(wire) : ~IsFinal(wire[i])
    BY NoFinalAnywhere
  <2>2. \A i \in 1..Len(wire \o messages) : IsFinal((wire \o messages)[i]) =>
          i - Len(wire) \in 1..Len(messages) /\ (wire \o messages)[i] = messages[i - Len(wire)]
    <3> TAKE i \in 1..Len(wire \o messages)
    <3>1. CASE i <= Len(wire)
      <4>1. i \in 1..Len(wire) /\ (wire \o messages)[i] = wire[i]
        BY <3>1
      <4> QED BY <2>1, <4>1
    <3>2. CASE i > Len(wire)
      BY <3>2
    <3> QED BY <3>1, <3>2
  <2>3. \A i, j \in 1..Len(wire \o messages) : i - Len(wire) = j - Len(wire) => i = j
    OBVIOUS
  <2> QED BY <2>2, <2>3 DEF AtMostOneFinal
<1> QED BY <1>1, NoneIsAtMostOne DEF Sent

\* The final response that is taken was the only one.
LEMMA TailAtMostOne ==
  ASSUME NEW wire \in Seq(Message), wire # <<>>, AtMostOneFinal(wire)
  PROVE  /\ AtMostOneFinal(Tail(wire))
         /\ IsFinal(Head(wire)) => NoFinal(Tail(wire))
         /\ ~NoFinal(Tail(wire)) => ~NoFinal(wire)
<1>1. /\ Tail(wire) \in Seq(Message) /\ Head(wire) = wire[1] /\ 1 \in 1..Len(wire)
      /\ \A i \in 1..Len(Tail(wire)) : i + 1 \in 1..Len(wire) /\ Tail(wire)[i] = wire[i + 1]
  OBVIOUS
<1>2. AtMostOneFinal(Tail(wire))
  <2>1. \A i, j \in 1..Len(Tail(wire)) : i + 1 = j + 1 => i = j
    BY <1>1
  <2> QED BY <1>1, <2>1 DEF AtMostOneFinal
<1>3. ASSUME IsFinal(Head(wire)) PROVE NoFinal(Tail(wire))
  <2>1. \A i \in 1..Len(Tail(wire)) : i + 1 # 1
    BY <1>1
  <2>2. \A i \in 1..Len(Tail(wire)) : ~IsFinal(Tail(wire)[i])
    BY <1>1, <1>3, <2>1 DEF AtMostOneFinal
  <2> QED BY <1>1, <2>2, NoFinalAnywhere
<1> QED BY <1>2, <1>3, TailHolds DEF NoFinal

\* Which of the messages the gateway sends are final.
LEMMA SilenceNotFinal == NoFinal(<<>>)
BY LiteralHolds DEF NoFinal

LEMMA RequestNotFinal ==
  ASSUME NEW a \in Method
  PROVE  <<Req(a)>> \in Seq(Message) /\ NoFinal(<<Req(a)>>)
<1>1. Req(a) \in Message /\ ~IsFinal(Req(a))
  BY RequestIsMessage DEF Req, IsFinal
<1> QED BY <1>1, LiteralHolds DEF NoFinal

LEMMA ResponseFinal ==
  ASSUME NEW a \in Method, NEW code \in Status
  PROVE  /\ <<Resp(code, a)>> \in Seq(Message) /\ AtMostOneFinal(<<Resp(code, a)>>)
         /\ a # "INVITE" \/ code < 200 => NoFinal(<<Resp(code, a)>>)
<1>1. Resp(code, a) \in Message
  BY ResponseIsMessage
<1>2. (a # "INVITE" \/ code < 200) => ~IsFinal(Resp(code, a))
  BY DEF Resp, IsFinal, Status
<1>3. \A i, j \in 1..Len(<<Resp(code, a)>>) : i = j
  OBVIOUS
<1> QED BY <1>1, <1>2, <1>3, LiteralHolds DEF NoFinal, AtMostOneFinal

\* route(): 100, then onReject().
LEMMA BusyFinal ==
  LET busy == <<Resp(100, "INVITE"), Resp(486, "INVITE")>>
  IN  busy \in Seq(Message) /\ AtMostOneFinal(busy)
<1> DEFINE busy == <<Resp(100, "INVITE"), Resp(486, "INVITE")>>
<1>1. Resp(100, "INVITE") \in Message /\ Resp(486, "INVITE") \in Message
  BY StatusCodes, ResponseIsMessage DEF Method
<1>2. ~IsFinal(Resp(100, "INVITE"))
  BY DEF IsFinal, Resp
<1>3. busy \in Seq(Message)
  BY <1>1, LiteralHolds
<1>4. \A i, j \in 1..Len(busy) : IsFinal(busy[i]) /\ IsFinal(busy[j]) => i = j
  <2>1. Len(busy) = 2 /\ busy[1] = Resp(100, "INVITE")
    OBVIOUS
  <2>2. \A i \in 1..2 : i = 1 \/ i = 2
    OBVIOUS
  <2> HIDE DEF busy
  <2> QED BY <1>2, <2>1, <2>2
<1> QED BY <1>3, <1>4 DEF AtMostOneFinal

-----------------------------------------------------------------------------
(* The gateway's steps: what each does to the server leg, and that it leaves *)
(* a quiet callee quiet.                                                    *)

SendsNoFinal ==
  /\ NoFinal(toCaller) => NoFinal(toCaller')
  /\ AtMostOneFinal(toCaller) => AtMostOneFinal(toCaller')
  /\ ~NoFinal(toCaller') => ~NoFinal(toCaller)

\* The INVITE is refused, or answered.
Decides ==
  /\ server \in Unused /\ caller # "idle"
  /\ NoFinal(toCaller) => AtMostOneFinal(toCaller')
  /\ \/ server' = "FINISH" /\ ~clientKnown'
     \/ server' = "OK"

Progresses ==
  server \in Unused /\ server' \in Unused /\ serverReq' = "INVITE" /\ SendsNoFinal

TakesAck == server = "OK" /\ server' = "CALLING" /\ SendsNoFinal

Closes == server' \in Closing /\ serverReq' # "INVITE" /\ SendsNoFinal

ServerRests ==
  /\ UNCHANGED <<server, serverReq, toCaller>> /\ (clientKnown' => clientKnown)
  /\ server = "OK" => fromCaller' = fromCaller

ServerLegMovesOn == Decides \/ Progresses \/ TakesAck \/ Closes \/ ServerRests

CalleeIsOpen == client \in Unused \cup {"CALLING"} \/ server \in {"OK", "CALLING"}

LeavesCalleeQuiet ==
  CalleeIsOpen' =>
    /\ CalleeIsOpen
    /\ \A b \in {"CANCEL", "BYE"} :
         Req(b) \in InFlight(toCallee') => Req(b) \in InFlight(toCallee)

GatewayMoves ==
  /\ UNCHANGED <<caller, callee, up>>
  /\ InFlight(fromCaller') \subseteq InFlight(fromCaller)
  /\ InFlight(fromCallee') \subseteq InFlight(fromCallee)
  /\ ServerLegMovesOn /\ LeavesCalleeQuiet

LEMMA GatewayMovesKeep ==
  ASSUME IInv, FInv, GatewayMoves
  PROVE  FInv'
<1>0. NotYetAnswered /\ FinalAwaited /\ ClosingCitesAnother /\ AckBeforeBye /\ CalleeQuiet
  BY DEF FInv
<1>1. caller' = caller /\ callee' = callee /\ up' = up
  BY DEF GatewayMoves
<1>2. /\ InFlight(fromCaller') \subseteq InFlight(fromCaller)
      /\ InFlight(fromCallee') \subseteq InFlight(fromCallee)
      /\ LeavesCalleeQuiet
      /\ Decides \/ Progresses \/ TakesAck \/ Closes \/ ServerRests
  BY DEF GatewayMoves, ServerLegMovesOn
<1>3. NotYetAnswered'
  BY <1>0, <1>1, <1>2
     DEF NotYetAnswered, Decides, Progresses, TakesAck, Closes, ServerRests, SendsNoFinal, Unused, Closing
<1>4. FinalAwaited'
  BY <1>0, <1>1, <1>2
     DEF NotYetAnswered, FinalAwaited, Decides, Progresses, TakesAck, Closes, ServerRests, SendsNoFinal
<1>5. ClosingCitesAnother'
  BY <1>0, <1>2
     DEF ClosingCitesAnother, Decides, Progresses, TakesAck, Closes, ServerRests, Unused, Closing
<1>6. AckBeforeBye'
  <2>1. CASE server' = "OK" /\ server \in Unused
    <3>1. caller # "talking" /\ Req("BYE") \notin InFlight(fromCaller')
      BY <1>0, <1>2, <2>1 DEF NotYetAnswered, Unanswered
    <3> QED BY <1>1, <3>1 DEF AckBeforeBye, ByeAfterAck, InFlight
  <2>2. CASE server' = "OK" /\ server = "OK" /\ fromCaller' = fromCaller
    BY <1>0, <1>1, <2>2 DEF AckBeforeBye
  <2>3. CASE server' # "OK"
    BY <2>3 DEF AckBeforeBye
  <2> QED
    BY <1>2, <2>1, <2>2, <2>3
       DEF Decides, Progresses, TakesAck, Closes, ServerRests, Unused, Closing
<1>7. CalleeQuiet'
  BY <1>0, <1>1, <1>2 DEF CalleeQuiet, LeavesCalleeQuiet, CalleeIsOpen
<1> QED BY <1>3, <1>4, <1>5, <1>6, <1>7 DEF FInv

LEMMA ServerSendsNoFinal ==
  ASSUME TypeOK, NEW state, NEW req, NEW known, NEW messages \in Seq(Message), NoFinal(messages),
         ServerBecomes(state, req, known, messages)
  PROVE  server' = state /\ serverReq' = req /\ SendsNoFinal
BY SentNoFinal DEF ServerBecomes, TypeOK, SendsNoFinal

LEMMA ServerSendsFinal ==
  ASSUME TypeOK, NEW state, NEW req, NEW known, NEW messages \in Seq(Message),
         AtMostOneFinal(messages), ServerBecomes(state, req, known, messages)
  PROVE  server' = state /\ (NoFinal(toCaller) => AtMostOneFinal(toCaller'))
BY SentAtMostOne DEF ServerBecomes, TypeOK

\* A client leg that is left alone, or asks the callee for neither.
LEMMA CalleeUntouched ==
  ASSUME UNCHANGED clientVars, CalleeIsOpen' => CalleeIsOpen
  PROVE  LeavesCalleeQuiet
BY DEF LeavesCalleeQuiet, clientVars

LEMMA CalleeUntroubled ==
  ASSUME NEW state, NEW req, NEW known, NEW asked, ClientAsking(state, req, known, asked),
         asked \cap {"CANCEL", "BYE"} = {}, CalleeIsOpen' => CalleeIsOpen
  PROVE  LeavesCalleeQuiet
BY DEF LeavesCalleeQuiet, ClientAsking, Method

LEMMA GatewayServesMoves ==
  ASSUME IInv, FInv, GatewayServes
  PROVE  GatewayMoves
<1> DEFINE m == Head(fromCaller)
<1> HIDE DEF m
<1>0. /\ NotYetAnswered /\ ClosingCitesAnother /\ AckBeforeBye /\ TypeOK /\ GatewayTypeOK
      /\ {"INVITE", "CANCEL", "BYE", "ACK"} \subseteq Method /\ serverReq \in Method
  BY DEF FInv, IInv, TypeOK, GatewayTypeOK, Method
<1>1. /\ m \in Message /\ m \in InFlight(fromCaller) /\ fromCaller # <<>>
      /\ m = fromCaller[1] /\ 1 \in 1..Len(fromCaller)
  BY <1>0, TailHolds DEF TypeOK, GatewayServes, m
<1>2. caller # "idle"
  BY <1>1 DEF IInv, InviteIsFirst, InviteLeads
<1>3. ASSUME NextFromCaller, ServerLegMovesOn, LeavesCalleeQuiet
      PROVE  GatewayMoves
  <2>1. InFlight(fromCaller') \subseteq InFlight(fromCaller)
    BY <1>0, <1>1, <1>3, TailHolds DEF TypeOK, NextFromCaller
  <2> QED BY <1>3, <2>1 DEF GatewayMoves, NextFromCaller, agents
\* A response of the caller finds the server leg closing.
<1>4. ASSUME serverKnown, m.code # 0
      PROVE  server \in {"BYE", "CANCELING"}
  BY <1>1, <1>4 DEF IInv, CallerAnswersBye, RegistryMatchesState, Closing
<1>5. ASSUME NewInvite(m)
      PROVE  /\ NextFromCaller /\ server = "NONE" /\ server \in Unused
             /\ client = "NONE" /\ ~clientKnown
  BY <1>1, <1>5 DEF NewInvite, IInv, InviteIsFirst, InviteLeads, LegsAgree, RegistryMatchesState, Unused
<1>6. ASSUME UNCHANGED clientVars, server' \notin {"OK", "CALLING"} \/ server \in {"OK", "CALLING"}
      PROVE  LeavesCalleeQuiet
  BY <1>6, CalleeUntouched DEF CalleeIsOpen, clientVars
\* Refused, for whatever reason.
<1>7. ASSUME NewInvite(m), OnlyServerLeg, NEW messages \in Seq(Message),
             AtMostOneFinal(messages), ServerBecomes("FINISH", "INVITE", FALSE, messages)
      PROVE  GatewayMoves
  <2>1. server' = "FINISH" /\ (NoFinal(toCaller) => AtMostOneFinal(toCaller'))
    BY <1>0, <1>7, ServerSendsFinal
  <2>2. UNCHANGED clientVars
    BY <1>7 DEF OnlyServerLeg
  <2>3. Decides
    BY <1>2, <1>5, <1>7, <2>1, <2>2 DEF Decides, clientVars
  <2> QED BY <1>3, <1>5, <1>6, <1>7, <2>1, <2>2, <2>3 DEF ServerLegMovesOn
<1>8. CASE InviteMalformed(m)
  <2>1. <<>> \in Seq(Message) /\ AtMostOneFinal(<<>>)
    BY LiteralHolds, SilenceNotFinal, NoneIsAtMostOne
  <2> QED BY <1>7, <1>8, <2>1 DEF InviteMalformed
<1>9. CASE InviteForbidden(m)
  BY <1>0, <1>7, <1>9, StatusCodes, ResponseFinal DEF InviteForbidden
<1>10. CASE InviteBusy(m)
  BY <1>7, <1>10, BusyFinal DEF InviteBusy
<1>11. ASSUME NewInvite(m), ServerBecomes("TRYING", "INVITE", TRUE, <<Resp(100, "INVITE")>>)
       PROVE  Progresses /\ server' = "TRYING"
  <2>1. <<Resp(100, "INVITE")>> \in Seq(Message) /\ NoFinal(<<Resp(100, "INVITE")>>)
    BY <1>0, StatusCodes, ResponseFinal
  <2>2. server' = "TRYING" /\ serverReq' = "INVITE" /\ SendsNoFinal
    BY <1>0, <1>11, <2>1, ServerSendsNoFinal
  <2> QED BY <1>5, <1>11, <2>2 DEF Progresses, Unused
<1>12. CASE InviteStranded(m)
  BY <1>3, <1>5, <1>6, <1>11, <1>12 DEF InviteStranded, OnlyServerLeg, ServerLegMovesOn
<1>13. CASE InviteRouted(m)
  <2>1. ClientAsking("TRYING", "OWN", TRUE, {"INVITE"})
    BY <1>0, <1>13, ClientAsks DEF InviteRouted
  <2>2. CalleeIsOpen
    BY <1>5, <1>13 DEF InviteRouted, CalleeIsOpen, Unused
  <2> QED
    BY <1>3, <1>5, <1>11, <1>13, <2>1, <2>2, CalleeUntroubled DEF InviteRouted, ServerLegMovesOn
\* The leg closes, or is closed already, citing another request.
<1>14. ASSUME NEW state \in Closing, NEW req, NEW known, NEW messages \in Seq(Message),
              req # "INVITE", NoFinal(messages), ServerBecomes(state, req, known, messages)
       PROVE  ServerLegMovesOn /\ server' = state /\ server' \notin {"OK", "CALLING"}
  BY <1>0, <1>14, ServerSendsNoFinal DEF ServerLegMovesOn, Closes, Closing
<1>15. <<>> \in Seq(Message) /\ NoFinal(<<>>)
  BY LiteralHolds, SilenceNotFinal
<1>16. CASE AckFromCaller(m)
  <2>1. NextFromCaller /\ ServerOnAck /\ UNCHANGED clientVars
    BY <1>16 DEF AckFromCaller, OnlyServerLeg
  <2>2. CASE server = "OK"
    <3>1. server' = "CALLING" /\ SendsNoFinal
      BY <1>0, <1>15, <2>1, <2>2, ServerSendsNoFinal DEF ServerOnAck
    <3> QED BY <1>3, <1>6, <2>1, <2>2, <3>1 DEF ServerLegMovesOn, TakesAck
  <2>3. CASE server \in {"BYE", "CANCELING"}
    <3>1. ServerBecomes("FINISH", serverReq, FALSE, <<>>) /\ serverReq # "INVITE"
      BY <1>0, <2>1, <2>3 DEF ServerOnAck, ClosingCitesAnother
    <3>2. ServerLegMovesOn /\ server' \notin {"OK", "CALLING"}
      BY <1>14, <1>15, <3>1 DEF Closing
    <3> QED BY <1>3, <1>6, <2>1, <3>2
  <2>4. CASE server \notin {"OK", "BYE", "CANCELING"}
    <3>1. UNCHANGED serverVars
      BY <1>0, <2>1, <2>4 DEF ServerOnAck, ClosingCitesAnother, Unused, Closing
    <3>2. ServerRests
      BY <2>1, <2>4, <3>1 DEF ServerRests, serverVars, clientVars
    <3> QED BY <1>3, <1>6, <2>1, <3>1, <3>2 DEF ServerLegMovesOn, serverVars
  <2> QED BY <2>2, <2>3, <2>4
<1>17. CASE CancelFromCaller(m)
  <2>1. /\ NextFromCaller /\ OnClientLeg(ClientOnCancel)
        /\ ServerBecomes("CANCELING", "CANCEL", serverKnown, <<Resp(200, "CANCEL")>>)
    BY <1>17 DEF CancelFromCaller
  <2>2. <<Resp(200, "CANCEL")>> \in Seq(Message) /\ NoFinal(<<Resp(200, "CANCEL")>>)
    BY <1>0, StatusCodes, ResponseFinal
  <2>3. ServerLegMovesOn /\ server' = "CANCELING"
    BY <1>0, <1>14, <2>1, <2>2 DEF Closing
  <2>4. CASE client' = "CANCELING"
    BY <1>3, <2>1, <2>3, <2>4 DEF LeavesCalleeQuiet, CalleeIsOpen, Unused
  <2>5. CASE UNCHANGED clientVars
    BY <1>3, <1>6, <2>1, <2>3, <2>5
  <2> QED BY <2>1, <2>4, <2>5 DEF OnClientLeg, ClientOnCancel, ClientBecomes
<1>18. CASE ByeFromCaller(m)
  <2>1. NextFromCaller /\ serverKnown /\ m = Req("BYE")
    BY <1>18 DEF ByeFromCaller
  <2>2. CASE server = "CALLING"
    <3>1. /\ OnClientLeg(ClientHangUp)
          /\ ServerBecomes("BYE", "BYE", serverKnown, <<Resp(200, "BYE")>>)
      BY <1>18, <2>2 DEF ByeFromCaller
    <3>2. <<Resp(200, "BYE")>> \in Seq(Message) /\ NoFinal(<<Resp(200, "BYE")>>)
      BY <1>0, StatusCodes, ResponseFinal
    <3>3. ServerLegMovesOn /\ server' = "BYE"
      BY <1>0, <1>14, <3>1, <3>2 DEF Closing
    <3>4. CASE client' = "BYE"
      BY <1>3, <2>1, <3>3, <3>4 DEF LeavesCalleeQuiet, CalleeIsOpen, Unused
    <3>5. CASE UNCHANGED clientVars
      BY <1>3, <1>6, <2>1, <3>3, <3>5
    <3> QED BY <3>1, <3>4, <3>5 DEF OnClientLeg, ClientHangUp, ClientBecomes
\* Then there is no BYE to come before the ACK, and none at all before the answer.
  <2>3. CASE server # "CALLING"
    <3> DEFINE said == <<Resp(400, serverReq)>>
    <3>1. UNCHANGED clientVars /\ ServerBecomes(server, serverReq, serverKnown, said)
      BY <1>18, <2>3 DEF ByeFromCaller
    <3>2. server # "OK"
      <4>1. ~\E j \in 1..(1 - 1) : fromCaller[j] = Req("ACK")
        OBVIOUS
      <4> QED BY <1>0, <1>1, <2>1, <4>1 DEF AckBeforeBye, ByeAfterAck
    <3>3. server \notin {"TRYING", "RINGING", "NONE", "FINISH"}
      BY <1>0, <1>1, <2>1 DEF NotYetAnswered, Unused, IInv, RegistryMatchesState
    <3>4. server \in {"BYE", "CANCELING"} /\ serverReq # "INVITE"
      BY <1>0, <2>3, <3>2, <3>3 DEF ClosingCitesAnother, Unused, Closing
    <3>5. said \in Seq(Message) /\ NoFinal(said)
      BY <1>0, <3>4, StatusCodes, ResponseFinal
    <3>6. ServerLegMovesOn /\ server' \notin {"OK", "CALLING"}
      <4>1. server \in Closing
        BY <3>4 DEF Closing
      <4> HIDE DEF said
      <4> QED BY <1>14, <3>1, <3>4, <3>5, <4>1
    <3> QED BY <1>3, <1>6, <2>1, <3>1, <3>6
  <2> QED BY <2>2, <2>3
<1>19. CASE OkFromCaller(m)
  <2>1. NextFromCaller /\ serverKnown /\ m.code # 0 /\ ServerOnOk /\ UNCHANGED clientVars
    BY <1>19 DEF OkFromCaller, OnlyServerLeg, IsOk
  <2>2. server \in {"BYE", "CANCELING"} /\ serverReq # "INVITE"
    BY <1>0, <1>4, <2>1 DEF ClosingCitesAnother
  <2>3. ServerBecomes("FINISH", serverReq, FALSE, <<Req("ACK")>>)
    BY <2>1, <2>2 DEF ServerOnOk, Waiting
  <2>4. <<Req("ACK")>> \in Seq(Message) /\ NoFinal(<<Req("ACK")>>)
    BY <1>0, RequestNotFinal
  <2>5. ServerLegMovesOn /\ server' \notin {"OK", "CALLING"}
    BY <1>14, <2>2, <2>3, <2>4 DEF Closing
  <2> QED BY <1>3, <1>6, <2>1, <2>5
<1>20. CASE RejectFromCaller(m)
  <2>1. NextFromCaller /\ serverKnown /\ m.code # 0 /\ ServerOnReject /\ UNCHANGED clientVars
    BY <1>20 DEF RejectFromCaller, OnlyServerLeg, IsReject
  <2>2. server \in {"BYE", "CANCELING"} /\ serverReq # "INVITE"
    BY <1>0, <1>4, <2>1 DEF ClosingCitesAnother
  <2> DEFINE said == <<Resp(486, serverReq)>>
  <2>3. said \in Seq(Message) /\ NoFinal(said)
    BY <1>0, <2>2, StatusCodes, ResponseFinal
  <2>4. ServerLegMovesOn /\ server' \notin {"OK", "CALLING"}
    <3>1. ServerBecomes("FINISH", serverReq, FALSE, said) /\ "FINISH" \in Closing
      BY <2>1 DEF ServerOnReject, Closing
    <3> HIDE DEF said
    <3> QED BY <1>14, <2>2, <2>3, <3>1
  <2> QED BY <1>3, <1>6, <2>1, <2>4
<1>21. CASE IgnoredFromCaller(m)
  <2>1. NextFromCaller /\ UNCHANGED serverVars /\ UNCHANGED clientVars
    BY <1>21 DEF IgnoredFromCaller
  <2>2. server # "OK"
    <3>1. CASE serverKnown /\ IsPassedOver(m.code)
      BY <1>4, <3>1 DEF IsPassedOver
    <3>2. CASE serverKnown /\ m = Req("INVITE")
      BY <1>1, <3>2 DEF IInv, InviteIsFirst, InviteLeads
    <3>3. CASE ~serverKnown
      BY <3>3 DEF IInv, RegistryMatchesState
    <3> QED BY <1>21, <3>1, <3>2, <3>3 DEF IgnoredFromCaller
  <2>3. ServerRests
    BY <2>1, <2>2 DEF ServerRests, serverVars, clientVars
  <2> QED BY <1>3, <1>6, <2>1, <2>3 DEF ServerLegMovesOn, serverVars
<1> QED
  BY <1>8, <1>9, <1>10, <1>12, <1>13, <1>16, <1>17, <1>18, <1>19, <1>20, <1>21 DEF GatewayServes, m

LEMMA GatewayRelaysMoves ==
  ASSUME IInv, FInv, GatewayRelays
  PROVE  GatewayMoves
<1> DEFINE m == Head(fromCallee)
<1> HIDE DEF m
<1>0. /\ NotYetAnswered /\ ClosingCitesAnother /\ CalleeQuiet /\ TypeOK /\ GatewayTypeOK
      /\ {"INVITE", "BYE", "ACK"} \subseteq Method /\ serverReq \in Method /\ clientReq \in Method
  BY DEF FInv, IInv, TypeOK, GatewayTypeOK, Method
<1>1. m \in Message /\ m \in InFlight(fromCallee) /\ fromCallee # <<>>
  BY <1>0, TailHolds DEF TypeOK, GatewayRelays, m
<1>2. ASSUME clientKnown
      PROVE  bridged /\ server # "NONE" /\ caller # "idle"
  BY <1>2 DEF IInv, RegistryMatchesState, LegsAgree, InviteIsFirst, InviteLeads
<1>3. ASSUME NextFromCallee, ServerLegMovesOn, LeavesCalleeQuiet
      PROVE  GatewayMoves
  <2>1. InFlight(fromCallee') \subseteq InFlight(fromCallee)
    BY <1>0, <1>1, <1>3, TailHolds DEF TypeOK, NextFromCallee
  <2> QED BY <1>3, <2>1 DEF GatewayMoves, NextFromCallee, agents
<1>4. ASSUME NextFromCallee, UNCHANGED serverVars, clientKnown' => clientKnown
      PROVE  ServerLegMovesOn /\ server' = server
  BY <1>4 DEF NextFromCallee, serverVars, ServerLegMovesOn, ServerRests
\* onBye() of the server leg.
<1>5. ASSUME NextFromCallee, ServerHangUp, clientKnown' => clientKnown
      PROVE  ServerLegMovesOn /\ (server' \in {"OK", "CALLING"} => server \in {"OK", "CALLING"})
  <2>1. CASE server = "CALLING"
    <3>1. ServerBecomes("BYE", "OWN", serverKnown, <<Req("BYE")>>)
      BY <1>5, <2>1 DEF ServerHangUp
    <3>2. <<Req("BYE")>> \in Seq(Message) /\ NoFinal(<<Req("BYE")>>)
      BY <1>0, RequestNotFinal
    <3>3. server' = "BYE" /\ serverReq' = "OWN" /\ SendsNoFinal
      BY <1>0, <3>1, <3>2, ServerSendsNoFinal
    <3> QED BY <3>3 DEF ServerLegMovesOn, Closes, Closing
  <2>2. CASE server # "CALLING"
    BY <1>4, <1>5, <2>2 DEF ServerHangUp
  <2> QED BY <2>1, <2>2
<1>6. CASE RingingFromCallee(m)
  <2>1. NextFromCallee /\ bridged /\ clientKnown
    BY <1>2, <1>6 DEF RingingFromCallee
  <2>2. CASE client = "TRYING"
    <3>1. server = "TRYING" /\ serverReq = "INVITE" /\ CalleeIsOpen
      BY <1>0, <2>2 DEF IInv, LegsAgree, NotYetAnswered, Waiting, Unused, CalleeIsOpen
    <3>2. /\ ServerBecomes("RINGING", "INVITE", serverKnown, <<Resp(180, "INVITE")>>)
          /\ ClientBecomes("RINGING", clientReq, clientKnown, <<>>)
      BY <1>6, <2>1, <2>2, <3>1 DEF RingingFromCallee, OnServerLeg, ServerOnRinging
    <3>3. <<Resp(180, "INVITE")>> \in Seq(Message) /\ NoFinal(<<Resp(180, "INVITE")>>)
      BY <1>0, StatusCodes, ResponseFinal
    <3>4. server' = "RINGING" /\ serverReq' = "INVITE" /\ SendsNoFinal
      BY <1>0, <3>2, <3>3, ServerSendsNoFinal
    <3>5. ServerLegMovesOn
      BY <3>1, <3>4 DEF ServerLegMovesOn, Progresses, Unused
    <3>6. LeavesCalleeQuiet
      BY <1>0, <3>1, <3>2, ClientIsSilent, CalleeUntroubled
    <3> QED BY <1>3, <2>1, <3>5, <3>6
  <2>3. CASE client # "TRYING"
    <3>1. UNCHANGED serverVars /\ UNCHANGED clientVars
      BY <1>6, <2>3 DEF RingingFromCallee
    <3> QED
      BY <1>3, <1>4, <2>1, <3>1, CalleeUntouched DEF CalleeIsOpen, clientVars
  <2> QED BY <2>2, <2>3
<1>7. CASE AcceptFromCallee(m)
  <2>1. NextFromCallee /\ clientKnown /\ client \in Waiting
    BY <1>7 DEF AcceptFromCallee
  <2>2. server \in Waiting /\ server \in Unused /\ serverReq = "INVITE" /\ CalleeIsOpen
    BY <1>0, <2>1 DEF IInv, LegsAgree, NotYetAnswered, Waiting, Unused, CalleeIsOpen
  <2>3. ServerOnOk /\ ClientBecomes("CALLING", clientReq, clientKnown, <<Req("ACK")>>)
    BY <1>2, <1>7, <2>1 DEF AcceptFromCallee, OnServerLeg
  <2>4. ServerBecomes("OK", "INVITE", serverKnown, <<Resp(200, "INVITE")>>)
    BY <2>2, <2>3 DEF ServerOnOk, Waiting
  <2>5. <<Resp(200, "INVITE")>> \in Seq(Message) /\ AtMostOneFinal(<<Resp(200, "INVITE")>>)
    BY <1>0, StatusCodes, ResponseFinal
  <2>6. server' = "OK" /\ (NoFinal(toCaller) => AtMostOneFinal(toCaller'))
    BY <1>0, <2>4, <2>5, ServerSendsFinal
  <2>7. ServerLegMovesOn
    BY <1>2, <2>1, <2>2, <2>6 DEF ServerLegMovesOn, Decides
  <2>8. LeavesCalleeQuiet
    <3>1. ClientAsking("CALLING", clientReq, clientKnown, {"ACK"})
      BY <1>0, <2>3, ClientAsks
    <3>2. {"ACK"} \cap {"CANCEL", "BYE"} = {}
      OBVIOUS
    <3> QED BY <2>2, <3>1, <3>2, CalleeUntroubled
  <2> QED BY <1>3, <2>1, <2>7, <2>8
\* A client leg that ends leaves the callee open only to a caller that is in the call.
<1>8. ASSUME NEW known, ClientBecomes("FINISH", clientReq, known, <<Req("ACK")>>)
             \/ ClientBecomes("FINISH", clientReq, known, <<>>),
             server' \in {"OK", "CALLING"} => server \in {"OK", "CALLING"}
      PROVE  LeavesCalleeQuiet
  <2>1. client' = "FINISH"
    BY <1>8 DEF ClientBecomes
  <2>2. CalleeIsOpen' => CalleeIsOpen
    BY <1>8, <2>1 DEF CalleeIsOpen, Unused
  <2> QED BY <1>0, <1>8, <2>2, ClientAsks, ClientIsSilent, CalleeUntroubled
<1>9. CASE HangupConfirmedByCallee(m)
  <2>1. /\ NextFromCallee /\ clientKnown /\ ServerHangUp
        /\ ClientBecomes("FINISH", clientReq, FALSE, <<Req("ACK")>>)
    BY <1>2, <1>9 DEF HangupConfirmedByCallee, OnServerLeg
  <2> QED BY <1>3, <1>5, <1>8, <2>1
<1>10. CASE CancelConfirmedByCallee(m)
  <2>1. /\ NextFromCallee /\ clientKnown /\ UNCHANGED serverVars
        /\ ClientBecomes("FINISH", clientReq, FALSE, <<Req("ACK")>>)
    BY <1>10 DEF CancelConfirmedByCallee, OnlyClientLeg
  <2> QED BY <1>3, <1>4, <1>8, <2>1
<1>11. CASE UnexpectedOkFromCallee(m)
  <2>1. /\ NextFromCallee /\ clientKnown /\ UNCHANGED serverVars
        /\ ClientBecomes("FINISH", clientReq, FALSE, <<>>)
    BY <1>11 DEF UnexpectedOkFromCallee, OnlyClientLeg
  <2> QED BY <1>3, <1>4, <1>8, <2>1
<1>12. CASE RejectFromCallee(m)
  <2>1. /\ NextFromCallee /\ clientKnown /\ IsReject(m.code)
        /\ ClientBecomes("FINISH", clientReq, FALSE, <<>>)
        /\ ServerBecomes("FINISH", serverReq, FALSE, <<Resp(486, serverReq)>>)
    BY <1>2, <1>12 DEF RejectFromCallee, OnServerLeg, ServerOnReject
  <2>2. server' = "FINISH" /\ client' = "FINISH" /\ clientKnown' = FALSE
    BY <2>1 DEF ServerBecomes, ClientBecomes
  <2>3. LeavesCalleeQuiet
    BY <2>2 DEF LeavesCalleeQuiet, CalleeIsOpen, Unused
\* A callee that is in the call has not declined.
  <2>4. server \notin {"OK", "CALLING"}
    <3>1. server \in {"OK", "CALLING"} => callee # "declined"
      BY DEF IInv, AnswerComesFirst, Answered
    <3> QED BY <1>0, <1>1, <2>1, <3>1 DEF CalleeQuiet
  <2>5. <<Resp(486, serverReq)>> \in Seq(Message) /\ AtMostOneFinal(<<Resp(486, serverReq)>>)
    BY <1>0, StatusCodes, ResponseFinal
  <2>6. CASE server \in Unused
    <3>1. NoFinal(toCaller) => AtMostOneFinal(toCaller')
      BY <1>0, <2>1, <2>5, ServerSendsFinal
    <3>2. ServerLegMovesOn
      BY <1>2, <2>1, <2>2, <2>6, <3>1 DEF ServerLegMovesOn, Decides
    <3> QED BY <1>3, <2>1, <2>3, <3>2
  <2>7. CASE server \in Closing
    <3>1. serverReq # "INVITE"
      BY <1>0, <2>1, <2>7 DEF ClosingCitesAnother, Closing
    <3>2. NoFinal(<<Resp(486, serverReq)>>)
      BY <1>0, <3>1, StatusCodes, ResponseFinal
    <3>3. server' = "FINISH" /\ serverReq' = serverReq /\ SendsNoFinal
      BY <1>0, <2>1, <2>5, <3>2, ServerSendsNoFinal, ZenonT(40)
    <3>4. ServerLegMovesOn
      BY <3>1, <3>3 DEF ServerLegMovesOn, Closes, Closing
    <3> QED BY <1>3, <2>1, <2>3, <3>4
  <2> QED BY <1>0, <2>4, <2>6, <2>7 DEF ClosingCitesAnother
<1>13. CASE ByeFromCallee(m)
  <2>1. NextFromCallee /\ clientKnown
    BY <1>13 DEF ByeFromCallee
  <2>2. CASE client = "CALLING"
    <3>1. /\ ClientBecomes("BYE", "BYE", clientKnown, <<Resp(200, "BYE")>>)
          /\ ServerHangUp /\ CalleeIsOpen
      BY <1>2, <1>13, <2>1, <2>2 DEF ByeFromCallee, OnServerLeg, CalleeIsOpen
    <3>2. ClientAsking("BYE", "BYE", clientKnown, {})
      BY <1>0, <3>1, StatusCodes, ClientReplies
    <3>3. LeavesCalleeQuiet
      BY <3>1, <3>2, CalleeUntroubled
    <3>4. clientKnown' => clientKnown
      BY <2>1
    <3> QED BY <1>3, <1>5, <2>1, <3>1, <3>3, <3>4
  <2>3. CASE client # "CALLING"
    <3>1. /\ ClientBecomes(client, clientReq, clientKnown, <<Resp(400, clientReq)>>)
          /\ UNCHANGED serverVars
      BY <1>13, <2>3 DEF ByeFromCallee
    <3>2. ClientAsking(client, clientReq, clientKnown, {})
      BY <1>0, <3>1, StatusCodes, ClientReplies
    <3>3. CalleeIsOpen' => CalleeIsOpen
      BY <3>1 DEF CalleeIsOpen, ClientBecomes, serverVars
    <3>4. LeavesCalleeQuiet
      BY <3>2, <3>3, CalleeUntroubled
    <3>5. clientKnown' => clientKnown
      BY <2>1
    <3> QED BY <1>3, <1>4, <2>1, <3>1, <3>4, <3>5
  <2> QED BY <2>2, <2>3
<1>14. CASE IgnoredFromCallee(m)
  <2>1. NextFromCallee /\ UNCHANGED serverVars /\ UNCHANGED clientVars
    BY <1>14 DEF IgnoredFromCallee
  <2>2. (CalleeIsOpen' => CalleeIsOpen) /\ (clientKnown' => clientKnown)
    BY <2>1 DEF CalleeIsOpen, serverVars, clientVars
  <2> QED BY <1>3, <1>4, <2>1, <2>2, CalleeUntouched
<1> QED
  BY <1>6, <1>7, <1>9, <1>10, <1>11, <1>12, <1>13, <1>14 DEF GatewayRelays, m

-----------------------------------------------------------------------------
(* The caller's steps. *)

LEMMA ByeAfterAckGrows ==
  ASSUME NEW wire \in Seq(Message), NEW messages \in Seq(Message), ByeAfterAck(wire),
         ByeAfterAck(messages)
  PROVE  ByeAfterAck(wire \o messages)
<1> SUFFICES ASSUME NEW i \in 1..Len(wire \o messages), (wire \o messages)[i] = Req("BYE")
             PROVE  \E j \in 1..(i - 1) : (wire \o messages)[j] = Req("ACK")
  BY DEF ByeAfterAck
<1>1. CASE i <= Len(wire)
  <2>1. i \in 1..Len(wire) /\ wire[i] = Req("BYE")
    BY <1>1
  <2>2. PICK j \in 1..(i - 1) : wire[j] = Req("ACK")
    BY <2>1 DEF ByeAfterAck
  <2>3. (wire \o messages)[j] = wire[j]
    BY <2>1
  <2> QED BY <2>2, <2>3
<1>2. CASE i > Len(wire)
  <2>1. i - Len(wire) \in 1..Len(messages) /\ messages[i - Len(wire)] = Req("BYE")
    BY <1>2
  <2>2. PICK j \in 1..(i - Len(wire) - 1) : messages[j] = Req("ACK")
    BY <2>1 DEF ByeAfterAck
  <2>3. j + Len(wire) \in 1..(i - 1) /\ (wire \o messages)[j + Len(wire)] = messages[j]
    BY <2>1, <2>2
  <2> QED BY <2>2, <2>3
<1> QED BY <1>1, <1>2

LEMMA NoByeNoAck ==
  ASSUME NEW messages \in Seq(Message), Req("BYE") \notin InFlight(messages)
  PROVE  ByeAfterAck(messages)
BY DEF ByeAfterAck, InFlight

LEMMA SaidHolds ==
  ASSUME NEW wire \in Seq(Message), NEW messages \in Seq(Message)
  PROVE  InFlight(wire \o messages) = InFlight(wire) \cup InFlight(messages)
<1>1. \A i \in 1..Len(wire) : i \in 1..Len(wire \o messages) /\ (wire \o messages)[i] = wire[i]
  OBVIOUS
<1>2. \A i \in 1..Len(messages) :
        i + Len(wire) \in 1..Len(wire \o messages)
        /\ (wire \o messages)[i + Len(wire)] = messages[i]
  OBVIOUS
<1>3. \A i \in 1..Len(wire \o messages) :
        \/ i \in 1..Len(wire) /\ (wire \o messages)[i] = wire[i]
        \/ i - Len(wire) \in 1..Len(messages) /\ (wire \o messages)[i] = messages[i - Len(wire)]
  OBVIOUS
<1>4. InFlight(wire \o messages) \subseteq InFlight(wire) \cup InFlight(messages)
  BY <1>3 DEF InFlight
<1>5. InFlight(wire) \subseteq InFlight(wire \o messages)
  BY <1>1 DEF InFlight
<1>6. InFlight(messages) \subseteq InFlight(wire \o messages)
  <2> SUFFICES ASSUME NEW i \in 1..Len(messages)
               PROVE  messages[i] \in InFlight(wire \o messages)
    BY DEF InFlight
  <2> QED BY <1>2 DEF InFlight
<1> QED BY <1>4, <1>5, <1>6

\* A BYE behind an ACK that is still on its way.
LEMMA HangupAfterAck ==
  ASSUME NEW wire \in Seq(Message), ByeAfterAck(wire), Req("ACK") \in InFlight(wire)
  PROVE  ByeAfterAck(wire \o <<Req("BYE")>>)
<1> DEFINE said == wire \o <<Req("BYE")>>
<1>1. PICK k \in 1..Len(wire) : wire[k] = Req("ACK")
  BY DEF InFlight
<1>2. /\ Len(said) = Len(wire) + 1
      /\ \A i \in 1..Len(wire) : said[i] = wire[i]
  OBVIOUS
<1> HIDE DEF said
<1>3. ASSUME NEW i \in 1..Len(said), said[i] = Req("BYE")
      PROVE  \E j \in 1..(i - 1) : said[j] = Req("ACK")
  <2>1. CASE i \in 1..Len(wire)
    <3>1. PICK j \in 1..(i - 1) : wire[j] = Req("ACK")
      BY <1>2, <1>3, <2>1 DEF ByeAfterAck
    <3>2. j \in 1..Len(wire)
      BY <2>1
    <3> QED BY <1>2, <3>1, <3>2
  <2>2. CASE i \notin 1..Len(wire)
    <3>1. k \in 1..(i - 1)
      BY <1>2, <2>2
    <3> QED BY <1>1, <1>2, <3>1
  <2> QED BY <2>1, <2>2
<1> QED BY <1>3 DEF said, ByeAfterAck

\* What the caller may say in which state, so that the invariant holds on.
LEMMA CallerSpeaks ==
  ASSUME IInv, FInv, CallerActs, NEW state, NEW messages \in Seq(Message),
         CallerDoes(state, messages),
         AtMostOneFinal(toCaller'),
         ~NoFinal(toCaller') => ~NoFinal(toCaller) /\ state \in Unanswered,
         server \in Unused =>
           state \in Unanswered \cup {"idle"} /\ Req("BYE") \notin InFlight(messages),
         server = "OK" =>
           /\ ByeAfterAck(fromCaller \o messages)
           /\ state = "talking" => Req("ACK") \in InFlight(fromCaller \o messages)
  PROVE  FInv'
<1>1. /\ NotYetAnswered /\ FinalAwaited /\ ClosingCitesAnother /\ AckBeforeBye /\ CalleeQuiet
      /\ fromCaller \in Seq(Message)
  BY DEF FInv, IInv, TypeOK
<1>2. /\ UNCHANGED <<server, serverReq, client, clientKnown, toCallee, up, fromCallee, callee>>
      /\ "server" \in up
  BY DEF CallerActs, clientVars
<1>3. caller' = state /\ fromCaller' = fromCaller \o messages
  BY <1>2 DEF CallerDoes, Sent
<1>4. InFlight(fromCaller') = InFlight(fromCaller) \cup InFlight(messages)
  BY <1>1, <1>3, SaidHolds
<1>5. NotYetAnswered'
  BY <1>1, <1>2, <1>3, <1>4 DEF NotYetAnswered, Unused
<1>6. FinalAwaited'
  BY <1>3 DEF FinalAwaited
<1>7. ClosingCitesAnother' /\ CalleeQuiet'
  BY <1>1, <1>2 DEF ClosingCitesAnother, CalleeQuiet, Unused, Closing
<1>8. AckBeforeBye'
  BY <1>2, <1>3 DEF AckBeforeBye
<1> QED BY <1>5, <1>6, <1>7, <1>8 DEF FInv

LEMMA CallerActsKeeps ==
  ASSUME IInv, FInv, CallerActs
  PROVE  FInv'
<1>0. /\ NotYetAnswered /\ FinalAwaited /\ AckBeforeBye /\ TypeOK
      /\ {"INVITE", "CANCEL", "BYE", "ACK"} \subseteq Method
      /\ toCaller \in Seq(Message) /\ fromCaller \in Seq(Message)
  BY DEF FInv, IInv, TypeOK, Method
<1>1. /\ Req("INVITE") # Req("BYE") /\ Req("CANCEL") # Req("BYE") /\ Req("ACK") # Req("BYE")
      /\ \A a \in Method : <<Req(a)>> \in Seq(Message) /\ InFlight(<<Req(a)>>) = {Req(a)}
      /\ <<>> \in Seq(Message) /\ InFlight(<<>>) = {}
  BY <1>0, RequestsDiffer, RequestIsMessage, LiteralHolds
\* Anything but a BYE may be said at any time.
<1>2. ASSUME NEW messages \in Seq(Message), Req("BYE") \notin InFlight(messages)
      PROVE  server = "OK" => ByeAfterAck(fromCaller \o messages)
  BY <1>0, <1>2, NoByeNoAck, ByeAfterAckGrows DEF AckBeforeBye
<1>3. ASSUME server = "OK", caller = "talking", NEW messages \in Seq(Message)
      PROVE  Req("ACK") \in InFlight(fromCaller \o messages)
  BY <1>0, <1>3, SaidHolds DEF AckBeforeBye, CallerActs
<1>4. CASE CallerDials /\ UNCHANGED toCaller
  <2>1. /\ CallerDoes("calling", <<Req("INVITE")>>)
        /\ "calling" \in Unanswered /\ "calling" # "talking"
    BY <1>4 DEF CallerDials, Unanswered
  <2>2. AtMostOneFinal(toCaller') /\ (~NoFinal(toCaller') => ~NoFinal(toCaller))
    BY <1>0, <1>4 DEF FinalAwaited
  <2> QED BY <1>0, <1>1, <1>2, <2>1, <2>2, CallerSpeaks
<1>5. CASE CallerCancels /\ UNCHANGED toCaller
  <2>1. /\ CallerDoes("cancelling", <<Req("CANCEL")>>)
        /\ "cancelling" \in Unanswered /\ "cancelling" # "talking"
    BY <1>5 DEF CallerCancels, Unanswered
  <2>2. AtMostOneFinal(toCaller') /\ (~NoFinal(toCaller') => ~NoFinal(toCaller))
    BY <1>0, <1>5 DEF FinalAwaited
  <2> QED BY <1>0, <1>1, <1>2, <2>1, <2>2, CallerSpeaks
\* A caller that talks has been answered, and has sent the ACK.
<1>6. CASE CallerHangsUp /\ UNCHANGED toCaller
  <2>1. CallerDoes("hungup", <<Req("BYE")>>) /\ caller = "talking" /\ "hungup" # "talking"
    BY <1>6 DEF CallerHangsUp
  <2>2. AtMostOneFinal(toCaller') /\ NoFinal(toCaller')
    BY <1>0, <1>6, <2>1 DEF FinalAwaited, Unanswered
  <2>3. server \notin Unused
    BY <1>0, <2>1 DEF NotYetAnswered, Unanswered
  <2>4. server = "OK" => ByeAfterAck(fromCaller \o <<Req("BYE")>>)
    BY <1>0, <2>1, HangupAfterAck DEF AckBeforeBye, CallerActs
  <2> QED BY <1>0, <1>1, <2>1, <2>2, <2>3, <2>4, CallerSpeaks
<1>7. CASE CallerTakes
  <2> DEFINE m == Head(toCaller)
  <2>1. /\ m \in Message /\ m \in InFlight(toCaller) /\ toCaller' = Tail(toCaller)
        /\ AtMostOneFinal(toCaller')
        /\ IsFinal(m) => NoFinal(toCaller')
        /\ ~NoFinal(toCaller') => ~NoFinal(toCaller)
    BY <1>0, <1>7, TailHolds, TailAtMostOne DEF CallerTakes, FinalAwaited
\* A final response finds a caller that waits, and a leg that has answered.
  <2>2. IsFinal(m) => caller \in Unanswered /\ server \notin Unused
    BY <1>0, <2>1 DEF FinalAwaited, NotYetAnswered, NoFinal
  <2>3. ~NoFinal(toCaller') => caller \in Unanswered
    BY <1>0, <2>1 DEF FinalAwaited
  <2>4. server \in Unused => caller \in Unanswered \cup {"idle"}
    BY <1>0 DEF NotYetAnswered
  <2>5. CallerTakes => CASE m = Req("BYE") -> CallerTakesBye
         [] m.code # 0 /\ m.method = "INVITE" -> CallerTakesInviteResponse(m.code)
         [] m.code # 0 /\ m.method = "BYE" /\ caller = "hungup" -> CallerDoes("ended", <<>>)
         [] OTHER -> CallerDoes(caller, <<>>)
    BY DEF CallerTakes
  <2> HIDE DEF m
\* Saying nothing, in the same state or after a provisional response.
  <2>6. ASSUME NEW state \in {caller, "proceeding", "ended"}, CallerDoes(state, <<>>),
               state = "proceeding" => caller = "calling" \/ caller = "proceeding",
               state = "ended" => caller = "hungup" \/ caller = "ended"
        PROVE  FInv'
    <3>1. ~NoFinal(toCaller') => state \in Unanswered
      BY <2>3, <2>6 DEF Unanswered
    <3>2. server \in Unused => state \in Unanswered \cup {"idle"}
      BY <2>4, <2>6 DEF Unanswered
    <3>3. server = "OK" /\ state = "talking" => Req("ACK") \in InFlight(fromCaller \o <<>>)
      BY <1>1, <1>3, <2>6
    <3> QED BY <1>1, <1>2, <2>1, <2>6, <3>1, <3>2, <3>3, CallerSpeaks
  <2>7. CASE m = Req("BYE")
    <3>1. CallerTakesBye
      <4>1. m.code = 0
        BY <2>7 DEF Req
      <4> QED BY <1>7, <2>5, <2>7, <4>1
    <3>2. server \in Closing /\ server \notin Unused /\ server # "OK"
      BY <2>1, <2>7 DEF IInv, CallerAnswersBye, Closing, Unused
    <3>3. PICK state \in CallerState, code \in Status :
            /\ CallerDoes(state, <<Resp(code, "BYE")>>)
            /\ caller \in Unanswered => state = caller
      <4>1. 200 \in Status /\ 481 \in Status /\ caller \in CallerState /\ "ended" \in CallerState
        BY <1>0 DEF Status, TypeOK, CallerState
      <4>2. CASE caller = "talking"
        <5>1. CallerDoes("ended", <<Resp(200, "BYE")>>) /\ caller \notin Unanswered
          BY <3>1, <4>2 DEF CallerTakesBye, Unanswered
        <5> QED BY <4>1, <5>1
      <4>3. CASE caller = "hungup"
        <5>1. PICK code \in {200, 481} : CallerDoes("ended", <<Resp(code, "BYE")>>)
          BY <3>1, <4>3 DEF CallerTakesBye
        <5>2. caller \notin Unanswered
          BY <4>3 DEF Unanswered
        <5> QED BY <4>1, <5>1, <5>2
      <4>4. CASE caller \notin {"talking", "hungup"}
        <5>1. PICK code \in {200, 481} : CallerDoes(caller, <<Resp(code, "BYE")>>)
          BY <3>1, <4>4 DEF CallerTakesBye
        <5> QED BY <4>1, <5>1
      <4> QED BY <4>2, <4>3, <4>4
    <3>4. <<Resp(code, "BYE")>> \in Seq(Message)
      BY <1>0, ResponseFinal
    <3> QED BY <2>1, <2>3, <3>2, <3>3, <3>4, CallerSpeaks
  <2>8. CASE m # Req("BYE") /\ m.code # 0 /\ m.method = "INVITE"
    <3>1. CallerTakesInviteResponse(m.code) /\ m.code \in 0..699
      BY <1>7, <2>1, <2>5, <2>8 DEF Message
    <3>2. CASE m.code < 200
      <4>1. (CallerDoes("proceeding", <<>>) /\ caller = "calling") \/ CallerDoes(caller, <<>>)
        <5>1. ~IsOk(m.code) /\ ~(m.code >= 300)
          BY <3>1, <3>2 DEF IsOk
        <5> QED BY <3>1, <3>2, <5>1 DEF CallerTakesInviteResponse
      <4>2. CASE CallerDoes("proceeding", <<>>) /\ caller = "calling"
        BY <2>6, <4>2
      <4>3. CASE CallerDoes(caller, <<>>)
        BY <2>6, <4>3
      <4> QED BY <4>1, <4>2, <4>3
    <3>3. CASE m.code >= 200
      <4>1. IsFinal(m) /\ caller \in Unanswered /\ server \notin Unused /\ NoFinal(toCaller')
        BY <2>1, <2>2, <2>8, <3>3 DEF IsFinal
      <4>2. \/ CallerDoes("talking", <<Req("ACK")>>)
            \/ CallerDoes("hungup", <<Req("ACK"), Req("BYE")>>)
            \/ CallerDoes("ended", <<Req("ACK")>>)
        <5>1. CASE IsOk(m.code) /\ caller \in {"calling", "proceeding"}
          <6>1. ~(m.code < 200) /\ ~(m.code >= 300) /\ caller # "cancelling"
            BY <3>1, <5>1 DEF IsOk
          <6> QED BY <3>1, <5>1, <6>1 DEF CallerTakesInviteResponse
        <5>2. CASE IsOk(m.code) /\ caller = "cancelling"
          <6>1. ~(m.code < 200) /\ ~(m.code >= 300)
            BY <3>1, <5>2 DEF IsOk
          <6> QED BY <3>1, <5>2, <6>1 DEF CallerTakesInviteResponse
        <5>3. CASE ~IsOk(m.code)
          <6>1. ~(m.code < 200) /\ m.code >= 300
            BY <3>1, <3>3, <5>3 DEF IsOk
          <6> QED BY <3>1, <4>1, <5>3, <6>1 DEF CallerTakesInviteResponse, Unanswered
        <5> QED BY <4>1, <5>1, <5>2, <5>3 DEF Unanswered
      <4>3. ASSUME NEW state, CallerDoes(state, <<Req("ACK")>>) PROVE FInv'
        <5>1. Req("ACK") \in InFlight(fromCaller \o <<Req("ACK")>>)
          BY <1>0, <1>1, SaidHolds, SMTT(20)
        <5> QED BY <1>0, <1>1, <1>2, <2>1, <4>1, <4>3, <5>1, CallerSpeaks
      <4>4. CASE CallerDoes("hungup", <<Req("ACK"), Req("BYE")>>)
        <5> DEFINE both == <<Req("ACK"), Req("BYE")>>
        <5>1. both \in Seq(Message) /\ ByeAfterAck(both)
          <6>1. both \in Seq(Message)
            BY <1>0, RequestIsMessage, LiteralHolds
          <6>2. Len(both) = 2 /\ both[1] = Req("ACK") /\ 1 \in 1..(2 - 1)
            OBVIOUS
          <6> HIDE DEF both
          <6>3. \A i \in 1..Len(both) : both[i] = Req("BYE") => i = 2
            BY <1>1, <6>2
          <6> QED BY <6>1, <6>2, <6>3 DEF ByeAfterAck
        <5> HIDE DEF both
        <5>2. server = "OK" => ByeAfterAck(fromCaller \o both)
          BY <1>0, <5>1, ByeAfterAckGrows DEF AckBeforeBye
        <5>3. CallerDoes("hungup", both) /\ "hungup" # "talking"
          BY <4>4 DEF both
        <5> QED BY <2>1, <4>1, <5>1, <5>2, <5>3, CallerSpeaks
      <4> QED BY <4>2, <4>3, <4>4
    <3> QED BY <3>1, <3>2, <3>3
  <2>9. CASE m # Req("BYE") /\ ~(m.code # 0 /\ m.method = "INVITE")
    <3>1. (caller = "hungup" /\ CallerDoes("ended", <<>>)) \/ CallerDoes(caller, <<>>)
      BY <1>7, <2>5, <2>9
    <3>2. CASE caller = "hungup" /\ CallerDoes("ended", <<>>)
      BY <2>6, <3>2
    <3>3. CASE CallerDoes(caller, <<>>)
      BY <2>6, <3>3
    <3> QED BY <3>1, <3>2, <3>3
  <2> QED BY <2>7, <2>8, <2>9
<1> QED BY <1>4, <1>5, <1>6, <1>7 DEF CallerActs

-----------------------------------------------------------------------------
(* The callee's steps. *)

LEMMA CalleeSpeaks ==
  ASSUME FInv, CalleeActs, NEW state, NEW messages \in Seq(Message),
         CalleeDoes(state, messages), fromCallee \in Seq(Message),
         InFlight(toCallee') \subseteq InFlight(toCallee),
         callee = "declined" => state = "declined",
         \/ state = "declined" \/ ~CalleeIsOpen
         \/ \A m \in InFlight(messages) : ~IsReject(m.code)
  PROVE  FInv'
<1>1. NotYetAnswered /\ FinalAwaited /\ ClosingCitesAnother /\ AckBeforeBye /\ CalleeQuiet
  BY DEF FInv
<1>2. UNCHANGED <<server, serverReq, toCaller, client, clientKnown, up, fromCaller, caller>>
  BY DEF CalleeActs, serverVars
<1>3. callee' = state /\ fromCallee' = Sent("client", fromCallee, messages)
  BY DEF CalleeDoes
<1>4. InFlight(fromCallee') \subseteq InFlight(fromCallee) \cup InFlight(messages)
  BY <1>3, SentHolds
<1>5. NotYetAnswered' /\ ClosingCitesAnother'
  BY <1>1, <1>2 DEF NotYetAnswered, ClosingCitesAnother, Unused, Closing
<1>6. FinalAwaited' /\ AckBeforeBye'
  BY <1>1, <1>2 DEF FinalAwaited, AckBeforeBye
<1>7. CalleeQuiet'
  <2>1. CASE state = "declined"
    BY <1>3, <2>1 DEF CalleeQuiet
  <2>2. CASE ~CalleeIsOpen
    BY <1>2, <2>2 DEF CalleeQuiet, CalleeIsOpen, Unused
  <2>3. CASE callee # "declined" /\ CalleeIsOpen /\ \A m \in InFlight(messages) : ~IsReject(m.code)
    <3>1. /\ Req("CANCEL") \notin InFlight(toCallee) /\ Req("BYE") \notin InFlight(toCallee)
          /\ \A m \in InFlight(fromCallee) : ~IsReject(m.code)
      BY <1>1, <2>3 DEF CalleeQuiet, CalleeIsOpen
    <3> QED BY <1>4, <2>3, <3>1 DEF CalleeQuiet
  <2> QED BY <2>1, <2>2, <2>3
<1> QED BY <1>5, <1>6, <1>7 DEF FInv

LEMMA CalleeActsKeeps ==
  ASSUME IInv, FInv, CalleeActs
  PROVE  FInv'
<1>0. /\ CalleeQuiet /\ TypeOK /\ toCallee \in Seq(Message) /\ fromCallee \in Seq(Message)
      /\ {"INVITE", "CANCEL", "BYE"} \subseteq Method
  BY DEF FInv, IInv, TypeOK, Method
\* One response, that is no rejection.
<1>1. ASSUME NEW code \in Status, NEW a \in Method, NEW state,
             CalleeDoes(state, <<Resp(code, a)>>),
             InFlight(toCallee') \subseteq InFlight(toCallee),
             callee = "declined" => state = "declined",
             state = "declined" \/ ~CalleeIsOpen \/ ~IsReject(code)
      PROVE  FInv'
  <2>1. Resp(code, a) \in Message /\ Resp(code, a).code = code
    BY ResponseIsMessage DEF Resp
  <2> DEFINE said == <<Resp(code, a)>>
  <2>2. said \in Seq(Message) /\ InFlight(said) = {Resp(code, a)}
    BY <2>1, LiteralHolds
  <2>3. CalleeDoes(state, said)
    BY <1>1
  <2> HIDE DEF said
  <2>4. ~IsReject(code) => \A m \in InFlight(said) : ~IsReject(m.code)
    BY <2>1, <2>2
  <2> QED BY <1>0, <1>1, <2>2, <2>3, <2>4, CalleeSpeaks
<1>2. CASE CalleeProgresses /\ UNCHANGED toCallee
  <2>1. PICK code \in Codes \cap 100..199 : CalleeDoes("alerting", <<Resp(code, "INVITE")>>)
    BY <1>2 DEF CalleeProgresses
  <2>2. code \in Status /\ ~IsReject(code)
    BY DEF Status, IsReject
  <2>3. callee # "declined"
    BY <1>2 DEF CalleeProgresses
  <2> QED BY <1>0, <1>1, <1>2, <2>1, <2>2, <2>3
<1>3. CASE CalleeAnswers /\ UNCHANGED toCallee
  <2>1. PICK code \in Codes \cap 200..299 : CalleeDoes("answered", <<Resp(code, "INVITE")>>)
    BY <1>3 DEF CalleeAnswers
  <2>2. code \in Status /\ ~IsReject(code)
    BY DEF Status, IsReject
  <2>3. callee # "declined"
    BY <1>3 DEF CalleeAnswers
  <2> QED BY <1>0, <1>1, <1>3, <2>1, <2>2, <2>3
<1>4. CASE CalleeDeclines /\ UNCHANGED toCallee
  <2>1. PICK code \in Codes \cap 300..699 : CalleeDoes("declined", <<Resp(code, "INVITE")>>)
    BY <1>4 DEF CalleeDeclines
  <2>2. code \in Status
    BY DEF Status
  <2> QED BY <1>0, <1>1, <1>4, <2>1, <2>2
<1>5. CASE CalleeRepeatsAnswer /\ UNCHANGED toCallee
  <2>1. CalleeDoes("answered", <<Resp(200, "INVITE")>>) /\ callee # "declined"
    BY <1>5 DEF CalleeRepeatsAnswer
  <2>2. 200 \in Status /\ ~IsReject(200)
    BY DEF Status, IsReject
  <2> QED BY <1>0, <1>1, <1>5, <2>1, <2>2
<1>6. CASE CalleeHangsUp /\ UNCHANGED toCallee
  <2>1. CalleeDoes("hungup", <<Req("BYE")>>) /\ callee # "declined"
    BY <1>6 DEF CalleeHangsUp
  <2>2. Req("BYE") \in Message /\ ~IsReject(Req("BYE").code)
    BY <1>0, RequestIsMessage DEF Req, IsReject
  <2>3. <<Req("BYE")>> \in Seq(Message) /\ InFlight(<<Req("BYE")>>) = {Req("BYE")}
    BY <2>2, LiteralHolds
  <2>4. \A m \in InFlight(<<Req("BYE")>>) : ~IsReject(m.code)
    BY <2>2, <2>3
  <2> QED BY <1>0, <1>6, <2>1, <2>3, <2>4, CalleeSpeaks
<1>7. CASE CalleeTakes
  <2> DEFINE m == Head(toCallee)
  <2>1. m \in InFlight(toCallee) /\ InFlight(toCallee') \subseteq InFlight(toCallee)
    BY <1>0, <1>7, TailHolds DEF CalleeTakes
  <2>2. CalleeTakes => CASE m = Req("INVITE") /\ callee = "idle" -> CalleeDoes("alerting", <<>>)
         [] m = Req("ACK") /\ callee = "answered" -> CalleeDoes("talking", <<>>)
         [] m = Req("CANCEL") -> CalleeTakesCancel
         [] m = Req("BYE") -> CalleeTakesBye
         [] m.code # 0 /\ m.method = "BYE" /\ callee = "hungup" -> CalleeDoes("ended", <<>>)
         [] OTHER -> CalleeDoes(callee, <<>>)
    BY DEF CalleeTakes
  <2> HIDE DEF m
  <2>3. /\ Req("CANCEL") # Req("INVITE") /\ Req("CANCEL") # Req("ACK") /\ Req("CANCEL").code = 0
        /\ Req("BYE") # Req("INVITE") /\ Req("BYE") # Req("ACK") /\ Req("BYE") # Req("CANCEL")
        /\ Req("BYE").code = 0 /\ 200 \in Status /\ 481 \in Status
    BY DEF Req, Status
\* The gateway asks a callee that is open, and has not declined, for neither.
  <2>4. m \in {Req("CANCEL"), Req("BYE")} => ~CalleeIsOpen \/ callee = "declined"
    BY <1>0, <2>1 DEF CalleeQuiet, CalleeIsOpen
  <2>5. CASE m = Req("CANCEL")
    <3>1. CalleeTakesCancel
      BY <1>7, <2>2, <2>3, <2>5
    <3>2. CASE callee = "alerting"
      <4>1. CalleeDoes("declined", <<Resp(200, "CANCEL"), Resp(487, "INVITE")>>)
        BY <3>1, <3>2 DEF CalleeTakesCancel
      <4>2. <<Resp(200, "CANCEL"), Resp(487, "INVITE")>> \in Seq(Message)
        BY <1>0, <2>3, ResponseIsMessage, LiteralHolds DEF Status
      <4> QED BY <1>0, <2>1, <4>1, <4>2, CalleeSpeaks
    <3>3. CASE callee # "alerting"
      <4>1. PICK code \in {200, 481} : CalleeDoes(callee, <<Resp(code, "CANCEL")>>)
        BY <3>1, <3>3 DEF CalleeTakesCancel
      <4> QED BY <1>0, <1>1, <2>1, <2>3, <2>4, <2>5, <4>1
    <3> QED BY <3>2, <3>3
  <2>6. CASE m = Req("BYE")
    <3>1. CalleeTakesBye
      BY <1>7, <2>2, <2>3, <2>6
    <3>2. CASE callee \in {"answered", "talking"}
      <4>1. CalleeDoes("ended", <<Resp(200, "BYE")>>)
        BY <3>1, <3>2 DEF CalleeTakesBye
      <4> QED BY <1>0, <1>1, <2>1, <2>3, <2>4, <2>6, <3>2, <4>1
    <3>3. CASE callee \notin {"answered", "talking"}
      <4> DEFINE state == IF callee = "hungup" THEN "ended" ELSE callee
      <4>1. PICK code \in {200, 481} : CalleeDoes(state, <<Resp(code, "BYE")>>)
        BY <3>1, <3>3 DEF CalleeTakesBye
      <4>2. callee = "declined" => state = "declined"
        OBVIOUS
      <4> HIDE DEF state
      <4> QED BY <1>0, <1>1, <2>1, <2>3, <2>4, <2>6, <4>1, <4>2
    <3> QED BY <3>2, <3>3
  <2>7. CASE m \notin {Req("CANCEL"), Req("BYE")}
    <3>1. \/ callee = "idle" /\ CalleeDoes("alerting", <<>>)
          \/ callee = "answered" /\ CalleeDoes("talking", <<>>)
          \/ callee = "hungup" /\ CalleeDoes("ended", <<>>)
          \/ CalleeDoes(callee, <<>>)
      BY <1>7, <2>2, <2>7
    <3>2. PICK state : CalleeDoes(state, <<>>) /\ (callee = "declined" => state = "declined")
      BY <3>1
    <3>3. <<>> \in Seq(Message) /\ \A x \in InFlight(<<>>) : ~IsReject(x.code)
      BY LiteralHolds
    <3> QED BY <1>0, <2>1, <3>2, <3>3, CalleeSpeaks
  <2> QED BY <2>5, <2>6, <2>7
<1> QED BY <1>2, <1>3, <1>4, <1>5, <1>6, <1>7 DEF CalleeActs

-----------------------------------------------------------------------------
\* A closed session carries nothing any more, so nothing can be wrong on it.
LEMMA SessionClosesKeeps ==
  ASSUME FInv, SessionCloses
  PROVE  FInv'
<1>1. /\ UNCHANGED <<server, serverReq, client, clientKnown, caller, callee>>
      /\ up' \subseteq up
  BY DEF SessionCloses, agents
<1>2. \/ /\ toCaller' = <<>> /\ fromCaller' = <<>> /\ "server" \notin up'
         /\ UNCHANGED <<toCallee, fromCallee>>
      \/ toCallee' = <<>> /\ fromCallee' = <<>> /\ UNCHANGED <<toCaller, fromCaller>>
  BY DEF SessionCloses
<1>3. /\ <<>> \in Seq(Message) /\ InFlight(<<>>) = {} /\ NoFinal(<<>>)
      /\ AtMostOneFinal(<<>>) /\ ByeAfterAck(<<>>)
  BY LiteralHolds, SilenceNotFinal, NoneIsAtMostOne, NoByeNoAck
<1>4. NotYetAnswered' /\ FinalAwaited'
  BY <1>1, <1>2, <1>3 DEF FInv, NotYetAnswered, FinalAwaited, Unused
<1>5. ClosingCitesAnother' /\ AckBeforeBye'
  BY <1>1, <1>2, <1>3 DEF FInv, ClosingCitesAnother, AckBeforeBye, Unused, Closing
<1>6. CalleeQuiet'
  BY <1>1, <1>2, <1>3 DEF FInv, CalleeQuiet, Unused
<1> QED BY <1>4, <1>5, <1>6 DEF FInv

LEMMA StutterKeeps ==
  ASSUME FInv, UNCHANGED vars
  PROVE  FInv'
<1>1. /\ UNCHANGED <<server, serverReq, toCaller, client, clientKnown>>
      /\ UNCHANGED <<toCallee, up, fromCaller, fromCallee, caller, callee>>
  BY DEF vars, serverVars, clientVars, agents
<1> QED
  BY <1>1 DEF FInv, NotYetAnswered, FinalAwaited, ClosingCitesAnother, AckBeforeBye, CalleeQuiet,
              Unused, Closing

LEMMA FInvInit == Init => FInv
<1> SUFFICES ASSUME Init PROVE FInv
  OBVIOUS
<1>1. /\ InFlight(toCaller) = {} /\ InFlight(fromCaller) = {}
      /\ InFlight(toCallee) = {} /\ InFlight(fromCallee) = {}
      /\ NoFinal(toCaller) /\ AtMostOneFinal(toCaller)
  BY LiteralHolds, SilenceNotFinal, NoneIsAtMostOne DEF Init
<1> QED
  BY <1>1 DEF Init, FInv, NotYetAnswered, FinalAwaited, ClosingCitesAnother, AckBeforeBye,
              CalleeQuiet, Unused, Unanswered, Closing

LEMMA FInvAlways == Spec => []FInv
<1>1. IInv /\ FInv /\ [Next]_vars => FInv'
  BY GatewayServesMoves, GatewayRelaysMoves, GatewayMovesKeep, CallerActsKeeps,
     CalleeActsKeeps, SessionClosesKeeps, StutterKeeps DEF Next
<1> QED BY FInvInit, Inductive, <1>1, PTL DEF Spec

\* The caller's INVITE gets at most one final response, and none once the caller
\* has taken one: none of the 486 and 400 that onReject() and onBye(request) send for
\* whatever request the handler holds answers the INVITE a second time.
THEOREM OneFinalResponseHolds == Spec => []OneFinalResponse
<1>1. FInv /\ TypeOK => OneFinalResponse
  <2> SUFFICES ASSUME FInv, TypeOK PROVE OneFinalResponse
    OBVIOUS
  <2>1. FinalResponses = {i \in 1..Len(toCaller) : IsFinal(toCaller[i])}
    BY DEF FinalResponses, IsFinal
  <2>2. FinalResponses # {} => ~NoFinal(toCaller)
    BY <2>1 DEF NoFinal, InFlight
  <2> QED BY <2>1, <2>2 DEF FInv, FinalAwaited, AtMostOneFinal, Unanswered, OneFinalResponse
<1> QED BY FInvAlways, TypeCorrect, <1>1, PTL

-----------------------------------------------------------------------------
(* No abandoned callee: by induction relative to IInv and FInv.  The server *)
(* leg ties the caller to the call, the client leg the callee.              *)

\* What a party that is in the call, or about to be, hears of its INVITE.
Accepts(m) == m.method = "INVITE" /\ m.code \in 1..299

\* A leg that cites the CANCEL goes on citing it, and only then is the client
\* leg cancelled.
CancelIsCited ==
  /\ serverReq = "CANCEL" => server \in {"CANCELING", "FINISH"}
  /\ client = "CANCELING" => serverReq = "CANCEL"
  /\ Req("CANCEL") \in InFlight(toCallee) => serverReq = "CANCEL"

\* A caller that left a call which its leg has answered has a BYE on the way.
CallerIsInCall ==
  /\ server \in Unused \cup {"OK", "CALLING"} => \A m \in InFlight(toCaller) : Accepts(m)
  /\ server \in {"OK", "CALLING"} /\ "server" \in up =>
       caller # "ended" /\ (caller = "hungup" => Req("BYE") \in InFlight(fromCaller))

\* A callee in the call has a leg that is in the call, or a BYE on the way, or
\* has repeated its answer.
CalleeIsInCall ==
  /\ Req("ACK") \in InFlight(toCallee) => client \notin Unused
  /\ serverReq # "CANCEL" /\ "client" \in up =>
       /\ callee \in {"idle", "alerting"} => client \in Unused /\ NoFinal(fromCallee)
       /\ callee \in {"idle", "alerting", "answered", "talking"} =>
            \A m \in InFlight(fromCallee) : Accepts(m)
       /\ callee \in {"answered", "talking"} =>
            /\ \/ client \in Unused /\ callee = "answered"
               \/ client = "CALLING"
               \/ client = "BYE" /\ Req("BYE") \in InFlight(toCallee)
               \/ client = "FINISH" /\ Retransmits
            /\ ~Retransmits =>
                 AtMostOneFinal(fromCallee) /\ (client \notin Unused => NoFinal(fromCallee))

HInv == CancelIsCited /\ CallerIsInCall /\ CalleeIsInCall

\* What a step of the gateway does, for each of the three.
CancelGoesOn ==
  /\ serverReq = "CANCEL" => serverReq' = "CANCEL" /\ server' \in {"CANCELING", "FINISH"}
  /\ serverReq' = "CANCEL" /\ serverReq # "CANCEL" => server' = "CANCELING"
  /\ client' = "CANCELING" => client = "CANCELING" \/ serverReq' = "CANCEL"
  /\ Req("CANCEL") \in InFlight(toCallee') =>
       Req("CANCEL") \in InFlight(toCallee) \/ serverReq' = "CANCEL"

CallerGoesOn ==
  \/ server' \notin Unused \cup {"OK", "CALLING"}
  \/ /\ server \in Unused /\ server' \in Unused \cup {"OK"}
     /\ \A m \in InFlight(toCaller') : m \in InFlight(toCaller) \/ Accepts(m)
  \/ /\ server \in {"OK", "CALLING"} /\ server' \in {"OK", "CALLING"} /\ toCaller' = toCaller
     /\ Req("BYE") \in InFlight(fromCaller) => Req("BYE") \in InFlight(fromCaller')

TakesFinal == fromCallee # <<>> /\ fromCallee' = Tail(fromCallee) /\ IsFinal(Head(fromCallee))

CalleeLegGoesOn ==
  \/ client' = client /\ (Req("BYE") \in InFlight(toCallee) => Req("BYE") \in InFlight(toCallee'))
  \/ client' \in Unused
  \/ client' = "CALLING" /\ client \in Unused /\ TakesFinal
  \/ client' = "BYE" /\ client = "CALLING" /\ Req("BYE") \in InFlight(toCallee')
  \/ client' = "FINISH" /\ client \notin Unused /\ Retransmits
  \/ callee \notin {"idle", "alerting", "answered", "talking"}

CalleeGoesOn ==
  /\ client \notin Unused => client' \notin Unused
  /\ Req("ACK") \in InFlight(toCallee') => Req("ACK") \in InFlight(toCallee) \/ client' \notin Unused
  /\ fromCallee' = fromCallee \/ (fromCallee # <<>> /\ fromCallee' = Tail(fromCallee))
  /\ serverReq' # "CANCEL" /\ "client" \in up => CalleeLegGoesOn

LEMMA GatewayGoesOn ==
  ASSUME IInv, FInv, HInv, UNCHANGED <<caller, callee, up>>,
         CancelGoesOn, CallerGoesOn, CalleeGoesOn
  PROVE  HInv'
<1>0. /\ CancelIsCited /\ CallerIsInCall /\ CalleeIsInCall /\ NotYetAnswered
      /\ fromCallee \in Seq(Message)
      /\ caller' = caller /\ callee' = callee /\ up' = up
  BY DEF HInv, FInv, IInv, TypeOK
<1>1. CancelIsCited'
  BY <1>0 DEF CancelIsCited, CancelGoesOn
<1>2. CallerIsInCall'
  BY <1>0 DEF CallerIsInCall, CallerGoesOn, NotYetAnswered, Unused, Unanswered
<1>3. /\ InFlight(fromCallee') \subseteq InFlight(fromCallee)
      /\ NoFinal(fromCallee) => NoFinal(fromCallee')
      /\ AtMostOneFinal(fromCallee) => AtMostOneFinal(fromCallee')
      /\ AtMostOneFinal(fromCallee) /\ TakesFinal => NoFinal(fromCallee')
  <2>1. CASE fromCallee # <<>> /\ fromCallee' = Tail(fromCallee)
    <3>1. InFlight(fromCallee') \subseteq InFlight(fromCallee)
      BY <1>0, <2>1, TailHolds
    <3>2. AtMostOneFinal(fromCallee) =>
            AtMostOneFinal(fromCallee') /\ (IsFinal(Head(fromCallee)) => NoFinal(fromCallee'))
      BY <1>0, <2>1, TailAtMostOne
    <3> QED BY <3>1, <3>2 DEF TakesFinal, NoFinal
  <2>2. CASE fromCallee' = fromCallee
    <3>1. ~TakesFinal
      <4>1. fromCallee # <<>> => Len(Tail(fromCallee)) # Len(fromCallee)
        BY <1>0
      <4> QED BY <2>2, <4>1 DEF TakesFinal
    <3>2. fromCallee' = fromCallee
      BY <2>2
    <3> QED BY <3>1, <3>2 DEF NoFinal, AtMostOneFinal
  <2> QED BY <2>1, <2>2 DEF CalleeGoesOn
<1>4. Req("ACK") \in InFlight(toCallee') => client' \notin Unused
  BY <1>0 DEF CalleeIsInCall, CalleeGoesOn
<1>5. ASSUME serverReq' # "CANCEL", "client" \in up'
      PROVE  /\ callee \in {"idle", "alerting"} => client' \in Unused /\ NoFinal(fromCallee')
             /\ callee \in {"idle", "alerting", "answered", "talking"} =>
                  \A m \in InFlight(fromCallee') : Accepts(m)
             /\ callee \in {"answered", "talking"} =>
                  /\ \/ client' \in Unused /\ callee = "answered"
                     \/ client' = "CALLING"
                     \/ client' = "BYE" /\ Req("BYE") \in InFlight(toCallee')
                     \/ client' = "FINISH" /\ Retransmits
                  /\ ~Retransmits =>
                       AtMostOneFinal(fromCallee') /\ (client' \notin Unused => NoFinal(fromCallee'))
  <2>1. serverReq # "CANCEL" /\ "client" \in up
    BY <1>0, <1>5 DEF CancelGoesOn
  <2>2. CalleeLegGoesOn /\ (client \notin Unused => client' \notin Unused)
    BY <1>5, <2>1 DEF CalleeGoesOn
  <2>3. callee \in {"idle", "alerting", "answered", "talking"} => \A m \in InFlight(fromCallee) : Accepts(m)
    BY <1>0, <2>1 DEF CalleeIsInCall
  <2>4. ASSUME callee \in {"idle", "alerting"}
        PROVE  client' \in Unused /\ NoFinal(fromCallee')
    <3>1. client \in Unused /\ NoFinal(fromCallee)
      BY <1>0, <2>1, <2>4 DEF CalleeIsInCall
    <3>2. ~TakesFinal
      BY <1>0, <3>1, TailHolds DEF TakesFinal, NoFinal
    <3> QED BY <1>3, <2>2, <2>4, <3>1, <3>2 DEF CalleeLegGoesOn, Unused
  <2>5. ASSUME callee \in {"answered", "talking"}
        PROVE  /\ \/ client' \in Unused /\ callee = "answered"
                  \/ client' = "CALLING"
                  \/ client' = "BYE" /\ Req("BYE") \in InFlight(toCallee')
                  \/ client' = "FINISH" /\ Retransmits
               /\ ~Retransmits =>
                    AtMostOneFinal(fromCallee') /\ (client' \notin Unused => NoFinal(fromCallee'))
    <3>1. /\ \/ client \in Unused /\ callee = "answered"
             \/ client = "CALLING"
             \/ client = "BYE" /\ Req("BYE") \in InFlight(toCallee)
             \/ client = "FINISH" /\ Retransmits
          /\ ~Retransmits =>
               AtMostOneFinal(fromCallee) /\ (client \notin Unused => NoFinal(fromCallee))
      BY <1>0, <2>1, <2>5 DEF CalleeIsInCall
    <3>2. \/ client' \in Unused /\ callee = "answered"
          \/ client' = "CALLING"
          \/ client' = "BYE" /\ Req("BYE") \in InFlight(toCallee')
          \/ client' = "FINISH" /\ Retransmits
      BY <2>2, <2>5, <3>1 DEF CalleeLegGoesOn, Unused
    <3>3. client' \notin Unused /\ client \in Unused => TakesFinal \/ Retransmits
      BY <2>2, <2>5 DEF CalleeLegGoesOn, Unused
    <3> QED BY <1>3, <3>1, <3>2, <3>3
  <2> QED BY <1>3, <2>3, <2>4, <2>5
<1>6. CalleeIsInCall'
  BY <1>0, <1>4, <1>5 DEF CalleeIsInCall, Unused
<1> QED BY <1>1, <1>2, <1>6 DEF HInv

\* A receive takes the first message only.
LEMMA TailKeeps ==
  ASSUME NEW wire \in Seq(Message), wire # <<>>, NEW m \in InFlight(wire), m # Head(wire)
  PROVE  m \in InFlight(Tail(wire))
<1>1. PICK i \in 1..Len(wire) : wire[i] = m
  BY DEF InFlight
<1>2. i # 1
  BY <1>1
<1>3. i - 1 \in 1..Len(Tail(wire)) /\ Tail(wire)[i - 1] = m
  BY <1>1, <1>2
<1> QED BY <1>3 DEF InFlight

\* The server leg's messages that decide nothing, or tell of an answer.
LEMMA ServerTells ==
  ASSUME TypeOK, NEW state, NEW req, NEW known, NEW code \in Status,
         ServerBecomes(state, req, known, <<Resp(code, "INVITE")>>), code < 300
  PROVE  /\ server' = state /\ serverReq' = req
         /\ \A m \in InFlight(toCaller') : m \in InFlight(toCaller) \/ Accepts(m)
<1>1. Resp(code, "INVITE") \in Message /\ Accepts(Resp(code, "INVITE"))
  <2>1. "INVITE" \in Method
    BY DEF Method
  <2>2. Resp(code, "INVITE") \in Message
    BY <2>1, ResponseIsMessage
  <2> QED BY <2>2 DEF Accepts, Resp, Status
<1>2. <<Resp(code, "INVITE")>> \in Seq(Message)
      /\ InFlight(<<Resp(code, "INVITE")>>) = {Resp(code, "INVITE")}
  BY <1>1, LiteralHolds
<1>3. toCaller' = Sent("server", toCaller, <<Resp(code, "INVITE")>>) /\ toCaller \in Seq(Message)
  BY DEF ServerBecomes, TypeOK
<1>4. InFlight(toCaller') \subseteq InFlight(toCaller) \cup {Resp(code, "INVITE")}
  BY <1>2, <1>3, SentHolds
<1> QED BY <1>1, <1>4 DEF ServerBecomes

\* onBye() of the client leg: the BYE goes out on the open session.
LEMMA ClientHangsUp ==
  ASSUME TypeOK, ClientHangUp
  PROVE  /\ Req("CANCEL") \in InFlight(toCallee') => Req("CANCEL") \in InFlight(toCallee)
         /\ Req("ACK") \in InFlight(toCallee') => Req("ACK") \in InFlight(toCallee)
         /\ \/ UNCHANGED clientVars
            \/ /\ client = "CALLING" /\ client' = "BYE"
               /\ "client" \in up => Req("BYE") \in InFlight(toCallee')
<1>1. CASE client = "CALLING"
  <2>1. ClientBecomes("BYE", "OWN", clientKnown, <<Req("BYE")>>)
    BY <1>1 DEF ClientHangUp
  <2>2. ClientAsking("BYE", "OWN", clientKnown, {"BYE"})
    BY <2>1, ClientAsks DEF TypeOK, GatewayTypeOK, Method
  <2>3. "client" \in up => Req("BYE") \in InFlight(toCallee')
    <3>1. Req("BYE") \in Message /\ toCallee \in Seq(Message)
      BY RequestIsMessage DEF Method, TypeOK
    <3>2. <<Req("BYE")>> \in Seq(Message) /\ InFlight(<<Req("BYE")>>) = {Req("BYE")}
      BY <3>1, LiteralHolds
    <3>3. "client" \in up => toCallee' = toCallee \o <<Req("BYE")>>
      BY <2>1 DEF ClientBecomes, Sent
    <3> QED BY <3>1, <3>2, <3>3, SaidHolds
  <2> QED BY <1>1, <2>2, <2>3 DEF ClientAsking, Method
<1>2. CASE client # "CALLING"
  <2>1. UNCHANGED clientVars
    BY <1>2 DEF ClientHangUp
  <2> QED BY <2>1 DEF clientVars
<1> QED BY <1>1, <1>2

LEMMA GatewayServesOn ==
  ASSUME IInv, FInv, HInv, GatewayServes
  PROVE  HInv'
<1> DEFINE m == Head(fromCaller)
<1> HIDE DEF m
<1>0. /\ NotYetAnswered /\ ClosingCitesAnother /\ AckBeforeBye /\ CancelIsCited /\ TypeOK
      /\ GatewayTypeOK /\ fromCaller \in Seq(Message)
      /\ {"INVITE", "CANCEL", "BYE", "ACK"} \subseteq Method /\ serverReq \in Method
  BY DEF FInv, HInv, IInv, TypeOK, GatewayTypeOK, Method
<1>1. /\ m \in Message /\ m \in InFlight(fromCaller) /\ fromCaller # <<>>
      /\ m = fromCaller[1] /\ 1 \in 1..Len(fromCaller)
  BY <1>0, TailHolds DEF GatewayServes, m
<1>2. ASSUME NextFromCaller, CancelGoesOn, CallerGoesOn,
             client \notin Unused => client' \notin Unused,
             Req("ACK") \in InFlight(toCallee') => Req("ACK") \in InFlight(toCallee) \/ client' \notin Unused,
             serverReq' # "CANCEL" /\ "client" \in up => CalleeLegGoesOn
      PROVE  HInv'
  BY <1>2, GatewayGoesOn DEF NextFromCaller, agents, CalleeGoesOn
\* The client leg is left alone.
<1>3. ASSUME NextFromCaller, UNCHANGED clientVars, CallerGoesOn,
             serverReq = "CANCEL" => serverReq' = "CANCEL" /\ server' \in {"CANCELING", "FINISH"},
             serverReq' = "CANCEL" /\ serverReq # "CANCEL" => server' = "CANCELING"
      PROVE  HInv'
  <2>1. client' = client /\ toCallee' = toCallee
    BY <1>3 DEF clientVars
  <2> QED BY <1>2, <1>3, <2>1 DEF CancelGoesOn, CalleeLegGoesOn
<1>4. ASSUME serverKnown, m.code # 0
      PROVE  server \in {"BYE", "CANCELING"}
  BY <1>1, <1>4 DEF IInv, CallerAnswersBye, RegistryMatchesState, Closing
<1>5. ASSUME NewInvite(m)
      PROVE  NextFromCaller /\ server = "NONE" /\ client = "NONE" /\ serverReq = "INVITE"
  BY <1>0, <1>1, <1>5
     DEF NewInvite, IInv, InviteIsFirst, InviteLeads, LegsAgree, NotYetAnswered, Unused
\* The leg closes, or is closed already, citing what it cited.
<1>6. ASSUME NextFromCaller, UNCHANGED clientVars, NEW state \in Closing, NEW known, NEW messages,
             ServerBecomes(state, serverReq, known, messages),
             serverReq = "CANCEL" => state \in {"CANCELING", "FINISH"}
      PROVE  HInv'
  <2>1. server' = state /\ serverReq' = serverReq
    BY <1>6 DEF ServerBecomes
  <2>2. CallerGoesOn
    BY <1>6, <2>1 DEF CallerGoesOn, Closing, Unused
  <2> QED BY <1>3, <1>6, <2>1, <2>2
<1>7. ASSUME NewInvite(m), OnlyServerLeg, NEW messages,
             ServerBecomes("FINISH", "INVITE", FALSE, messages)
      PROVE  HInv'
  <2>1. ServerBecomes("FINISH", serverReq, FALSE, messages) /\ UNCHANGED clientVars
    BY <1>5, <1>7 DEF OnlyServerLeg
  <2> QED BY <1>5, <1>6, <1>7, <2>1 DEF Closing
<1>8. CASE InviteMalformed(m)
  BY <1>7, <1>8 DEF InviteMalformed
<1>9. CASE InviteForbidden(m)
  BY <1>7, <1>9 DEF InviteForbidden
<1>10. CASE InviteBusy(m)
  BY <1>7, <1>10 DEF InviteBusy
<1>11. ASSUME NewInvite(m), ServerBecomes("TRYING", "INVITE", TRUE, <<Resp(100, "INVITE")>>)
       PROVE  server' = "TRYING" /\ serverReq' = "INVITE" /\ CallerGoesOn
  <2>1. /\ server' = "TRYING" /\ serverReq' = "INVITE"
        /\ \A x \in InFlight(toCaller') : x \in InFlight(toCaller) \/ Accepts(x)
    <3>1. 100 \in Status /\ 100 < 300
      BY DEF Status
    <3> QED BY <1>0, <1>11, <3>1, ServerTells
  <2> QED BY <1>5, <1>11, <2>1 DEF CallerGoesOn, Unused
<1>12. CASE InviteStranded(m)
  BY <1>3, <1>5, <1>11, <1>12 DEF InviteStranded, OnlyServerLeg
<1>13. CASE InviteRouted(m)
  <2>1. ClientAsking("TRYING", "OWN", TRUE, {"INVITE"})
    BY <1>0, <1>13, ClientAsks DEF InviteRouted
  <2>2. /\ client' = "TRYING"
        /\ Req("ACK") \in InFlight(toCallee') => Req("ACK") \in InFlight(toCallee)
        /\ Req("CANCEL") \in InFlight(toCallee') => Req("CANCEL") \in InFlight(toCallee)
    BY <2>1 DEF ClientAsking, Method
  <2>3. CancelGoesOn
    BY <1>5, <1>11, <1>13, <2>2 DEF InviteRouted, CancelGoesOn
  <2>4. CalleeLegGoesOn
    BY <2>2 DEF CalleeLegGoesOn, Unused
  <2> QED BY <1>2, <1>5, <1>11, <1>13, <2>2, <2>3, <2>4 DEF InviteRouted, Unused
<1>14. CASE AckFromCaller(m)
  <2>1. NextFromCaller /\ ServerOnAck /\ UNCHANGED clientVars /\ m = Req("ACK")
    BY <1>14 DEF AckFromCaller, OnlyServerLeg
  <2>2. CASE server = "OK"
    <3>1. ServerBecomes("CALLING", serverReq, serverKnown, <<>>) /\ serverReq # "CANCEL"
      BY <1>0, <2>1, <2>2 DEF ServerOnAck, CancelIsCited
    <3>2. server' = "CALLING" /\ serverReq' = serverReq /\ toCaller' = toCaller
      BY <1>0, <3>1 DEF ServerBecomes, Sent, TypeOK
    <3>3. Req("BYE") \in InFlight(fromCaller) => Req("BYE") \in InFlight(fromCaller')
      BY <1>0, <1>1, <2>1, RequestsDiffer, TailKeeps DEF NextFromCaller, m
    <3>4. CallerGoesOn
      BY <2>2, <3>2, <3>3 DEF CallerGoesOn
    <3> QED BY <1>3, <2>1, <3>1, <3>2, <3>4
  <2>3. CASE server \in {"BYE", "CANCELING"}
    <3>1. ServerBecomes("FINISH", serverReq, FALSE, <<>>)
      BY <1>0, <2>1, <2>3 DEF ServerOnAck
    <3> QED BY <1>6, <2>1, <3>1 DEF Closing
  <2>4. CASE server \notin {"OK", "BYE", "CANCELING"}
    <3>1. UNCHANGED serverVars
      BY <1>0, <2>1, <2>4 DEF ServerOnAck, ClosingCitesAnother, Unused, Closing
    <3>2. server' = server /\ serverReq' = serverReq /\ toCaller' = toCaller
      BY <3>1 DEF serverVars
    <3>3. Req("BYE") \in InFlight(fromCaller) => Req("BYE") \in InFlight(fromCaller')
      BY <1>0, <1>1, <2>1, RequestsDiffer, TailKeeps DEF NextFromCaller, m
    <3>4. CallerGoesOn
      BY <2>4, <3>2, <3>3 DEF CallerGoesOn, Unused
    <3> QED BY <1>0, <1>3, <2>1, <3>2, <3>4 DEF CancelIsCited
  <2> QED BY <2>2, <2>3, <2>4
<1>15. CASE CancelFromCaller(m)
  <2>1. /\ NextFromCaller /\ OnClientLeg(ClientOnCancel)
        /\ server' = "CANCELING" /\ serverReq' = "CANCEL"
    BY <1>15 DEF CancelFromCaller, ServerBecomes
  <2>2. CallerGoesOn /\ CancelGoesOn
    BY <2>1 DEF CallerGoesOn, CancelGoesOn, Unused
  <2>3. CASE UNCHANGED clientVars
    BY <1>2, <2>1, <2>2, <2>3 DEF clientVars
  <2>4. CASE ClientOnCancel
    <3>1. ClientAsking("CANCELING", clientReq, clientKnown, {"CANCEL"})
      BY <1>0, <2>4, ClientAsks DEF ClientOnCancel
    <3>2. /\ client' = "CANCELING"
          /\ Req("ACK") \in InFlight(toCallee') => Req("ACK") \in InFlight(toCallee)
      BY <3>1 DEF ClientAsking, Method
    <3> QED BY <1>2, <2>1, <2>2, <3>2 DEF Unused
  <2> QED BY <2>1, <2>3, <2>4 DEF OnClientLeg
<1>16. CASE ByeFromCaller(m)
  <2>1. NextFromCaller /\ serverKnown /\ m = Req("BYE")
    BY <1>16 DEF ByeFromCaller
  <2>2. CASE server = "CALLING"
    <3>1. OnClientLeg(ClientHangUp) /\ server' = "BYE" /\ serverReq' = "BYE" /\ serverReq # "CANCEL"
      BY <1>0, <1>16, <2>2 DEF ByeFromCaller, ServerBecomes, CancelIsCited
    <3>2. CallerGoesOn
      BY <3>1 DEF CallerGoesOn, Unused
    <3>3. CASE UNCHANGED clientVars
      BY <1>3, <2>1, <3>1, <3>2, <3>3
    <3>4. CASE ClientHangUp
      <4>1. /\ Req("CANCEL") \in InFlight(toCallee') => Req("CANCEL") \in InFlight(toCallee)
            /\ Req("ACK") \in InFlight(toCallee') => Req("ACK") \in InFlight(toCallee)
            /\ \/ UNCHANGED clientVars
               \/ /\ client = "CALLING" /\ client' = "BYE"
                  /\ "client" \in up => Req("BYE") \in InFlight(toCallee')
        BY <1>0, <3>4, ClientHangsUp
      <4>2. CASE UNCHANGED clientVars
        BY <3>3, <4>2
      <4>3. CASE client = "CALLING" /\ client' = "BYE"
                 /\ ("client" \in up => Req("BYE") \in InFlight(toCallee'))
        <5>1. CancelGoesOn
          BY <3>1, <4>1, <4>3 DEF CancelGoesOn
        <5>2. "client" \in up => CalleeLegGoesOn
          BY <4>3 DEF CalleeLegGoesOn
        <5> QED BY <1>2, <2>1, <3>2, <4>1, <4>3, <5>1, <5>2 DEF Unused
      <4> QED BY <4>1, <4>2, <4>3
    <3> QED BY <3>1, <3>3, <3>4 DEF OnClientLeg
  <2>3. CASE server # "CALLING"
    <3> DEFINE said == <<Resp(400, serverReq)>>
    <3>1. UNCHANGED clientVars /\ ServerBecomes(server, serverReq, serverKnown, said)
      BY <1>16, <2>3 DEF ByeFromCaller
    <3>2. server # "OK"
      <4>1. ~\E j \in 1..(1 - 1) : fromCaller[j] = Req("ACK")
        OBVIOUS
      <4> QED BY <1>0, <1>1, <2>1, <4>1 DEF AckBeforeBye, ByeAfterAck
    <3>3. server \notin {"TRYING", "RINGING", "NONE", "FINISH"}
      BY <1>0, <1>1, <2>1 DEF NotYetAnswered, Unused, IInv, RegistryMatchesState
    <3>4. server \in Closing
      BY <1>0, <2>3, <3>2, <3>3 DEF ClosingCitesAnother, Unused, Closing
    <3> HIDE DEF said
    <3> QED BY <1>0, <1>6, <2>1, <3>1, <3>4 DEF CancelIsCited
  <2> QED BY <2>2, <2>3
<1>17. CASE OkFromCaller(m)
  <2>1. NextFromCaller /\ serverKnown /\ m.code # 0 /\ ServerOnOk /\ UNCHANGED clientVars
    BY <1>17 DEF OkFromCaller, OnlyServerLeg, IsOk
  <2>2. server \in {"BYE", "CANCELING"}
    BY <1>4, <2>1
  <2>3. ServerBecomes("FINISH", serverReq, FALSE, <<Req("ACK")>>)
    BY <2>1, <2>2 DEF ServerOnOk, Waiting
  <2> QED BY <1>6, <2>1, <2>3 DEF Closing
<1>18. CASE RejectFromCaller(m)
  <2>1. NextFromCaller /\ ServerOnReject /\ UNCHANGED clientVars
    BY <1>18 DEF RejectFromCaller, OnlyServerLeg
  <2> DEFINE said == <<Resp(486, serverReq)>>
  <2>2. ServerBecomes("FINISH", serverReq, FALSE, said)
    BY <2>1 DEF ServerOnReject
  <2> HIDE DEF said
  <2> QED BY <1>6, <2>1, <2>2 DEF Closing
<1>19. CASE IgnoredFromCaller(m)
  <2>1. NextFromCaller /\ UNCHANGED serverVars /\ UNCHANGED clientVars
    BY <1>19 DEF IgnoredFromCaller
  <2>2. server \notin {"OK", "CALLING"}
    <3>1. CASE serverKnown /\ IsPassedOver(m.code)
      BY <1>4, <3>1 DEF IsPassedOver
    <3>2. CASE serverKnown /\ m = Req("INVITE")
      BY <1>1, <3>2 DEF IInv, InviteIsFirst, InviteLeads
    <3>3. CASE ~serverKnown
      BY <3>3 DEF IInv, RegistryMatchesState
    <3> QED BY <1>19, <3>1, <3>2, <3>3 DEF IgnoredFromCaller
  <2>3. server' = server /\ serverReq' = serverReq /\ toCaller' = toCaller
    BY <2>1 DEF serverVars
  <2>4. CallerGoesOn
    BY <2>2, <2>3 DEF CallerGoesOn, Unused
  <2> QED BY <1>0, <1>3, <2>1, <2>3, <2>4 DEF CancelIsCited
<1> QED
  BY <1>8, <1>9, <1>10, <1>12, <1>13, <1>14, <1>15, <1>16, <1>17, <1>18, <1>19
     DEF GatewayServes, m

\* The classes of status codes exclude one another.
LEMMA CodeClasses ==
  ASSUME NEW m \in Message
  PROVE  /\ IsOk(m.code) => m.code >= 200 /\ m.code # 0
         /\ IsReject(m.code) => ~Accepts(m)
<1>1. PICK code \in 0..699 : m.code = code
  BY DEF Message
<1>2. IsOk(code) => code >= 200 /\ code # 0
  BY DEF IsOk
<1>3. IsReject(code) => code \notin 1..299
  BY DEF IsReject
<1> QED BY <1>1, <1>2, <1>3 DEF Accepts

LEMMA GatewayRelaysOn ==
  ASSUME IInv, FInv, HInv, GatewayRelays
  PROVE  HInv'
<1> DEFINE m == Head(fromCallee)
<1> HIDE DEF m
<1>0. /\ NotYetAnswered /\ ClosingCitesAnother /\ CancelIsCited /\ CalleeIsInCall /\ TypeOK
      /\ GatewayTypeOK /\ fromCallee \in Seq(Message)
      /\ {"INVITE", "CANCEL", "BYE", "ACK"} \subseteq Method
      /\ serverReq \in Method /\ clientReq \in Method
  BY DEF FInv, HInv, IInv, TypeOK, GatewayTypeOK, Method
<1>1. m \in Message /\ m \in InFlight(fromCallee) /\ fromCallee # <<>>
  BY <1>0, TailHolds DEF GatewayRelays, m
<1>2. ASSUME clientKnown
      PROVE  bridged /\ client # "NONE"
  BY <1>2 DEF IInv, RegistryMatchesState, LegsAgree
<1>3. ASSUME NextFromCallee, CancelGoesOn, CallerGoesOn,
             client \notin Unused => client' \notin Unused,
             Req("ACK") \in InFlight(toCallee') => Req("ACK") \in InFlight(toCallee) \/ client' \notin Unused,
             serverReq' # "CANCEL" /\ "client" \in up => CalleeLegGoesOn
      PROVE  HInv'
  <2>1. CalleeGoesOn
    BY <1>1, <1>3 DEF NextFromCallee, CalleeGoesOn
  <2> QED BY <1>3, <2>1, GatewayGoesOn DEF NextFromCallee, agents
\* The server leg is left alone.
<1>4. ASSUME NextFromCallee, UNCHANGED serverVars
      PROVE  /\ server' = server /\ serverReq' = serverReq /\ CallerGoesOn
             /\ serverReq = "CANCEL" => serverReq' = "CANCEL" /\ server' \in {"CANCELING", "FINISH"}
  <2>1. server' = server /\ serverReq' = serverReq /\ toCaller' = toCaller /\ fromCaller' = fromCaller
    BY <1>4 DEF NextFromCallee, serverVars
  <2> QED BY <1>0, <2>1 DEF CallerGoesOn, CancelIsCited
\* onBye() of the server leg.
<1>5. ASSUME NextFromCallee, ServerHangUp
      PROVE  /\ CallerGoesOn /\ (serverReq' = "CANCEL" <=> serverReq = "CANCEL")
             /\ serverReq = "CANCEL" => server' \in {"CANCELING", "FINISH"}
  <2>1. CASE server = "CALLING"
    <3>1. server' = "BYE" /\ serverReq' = "OWN" /\ serverReq # "CANCEL"
      BY <1>0, <1>5, <2>1 DEF ServerHangUp, ServerBecomes, CancelIsCited
    <3> QED BY <3>1 DEF CallerGoesOn, Unused
  <2>2. CASE server # "CALLING"
    <3>1. UNCHANGED serverVars
      BY <1>5, <2>2 DEF ServerHangUp
    <3> QED BY <1>4, <1>5, <3>1
  <2> QED BY <2>1, <2>2
\* What the callee may have said, unless the call was cancelled.
<1>6. ASSUME serverReq # "CANCEL", "client" \in up,
             callee \in {"idle", "alerting", "answered", "talking"}
      PROVE  Accepts(m)
  BY <1>0, <1>1, <1>6 DEF CalleeIsInCall
\* The client leg is over by a 2xx that is no answer: a repeated one.
<1>7. ASSUME IsOk(m.code), client \notin Unused, client' = "FINISH",
             serverReq # "CANCEL", "client" \in up
      PROVE  CalleeLegGoesOn
  <2>1. CASE callee \notin {"idle", "alerting", "answered", "talking"}
    BY <2>1 DEF CalleeLegGoesOn
  <2>2. CASE callee \in {"idle", "alerting"}
    BY <1>0, <1>7, <2>2 DEF CalleeIsInCall
  <2>3. CASE callee \in {"answered", "talking"}
    <3>1. m.code >= 200
      BY <1>1, <1>7, CodeClasses
    <3>2. IsFinal(m)
      BY <1>6, <1>7, <2>3, <3>1 DEF Accepts, IsFinal
    <3>3. Retransmits
      BY <1>0, <1>1, <1>7, <2>3, <3>2 DEF CalleeIsInCall, NoFinal
    <3> QED BY <1>7, <3>3 DEF CalleeLegGoesOn
  <2> QED BY <2>1, <2>2, <2>3
<1>8. ASSUME NEW known, ClientBecomes("FINISH", clientReq, known, <<Req("ACK")>>)
             \/ ClientBecomes("FINISH", clientReq, known, <<>>)
      PROVE  /\ client' = "FINISH" /\ client' \notin Unused
             /\ Req("CANCEL") \in InFlight(toCallee') => Req("CANCEL") \in InFlight(toCallee)
  <2>1. ClientAsking("FINISH", clientReq, known, {"ACK"}) \/ ClientAsking("FINISH", clientReq, known, {})
    BY <1>0, <1>8, ClientAsks, ClientIsSilent
  <2> QED BY <2>1 DEF ClientAsking, Method, Unused
<1>9. ASSUME NextFromCallee, UNCHANGED serverVars, UNCHANGED clientVars
       PROVE  HInv'
  <2>1. client' = client /\ toCallee' = toCallee
    BY <1>9 DEF clientVars
  <2>2. CallerGoesOn /\ CancelGoesOn /\ CalleeLegGoesOn
    BY <1>4, <1>9, <2>1 DEF CancelGoesOn, CalleeLegGoesOn
  <2> QED BY <1>3, <1>9, <2>1, <2>2
<1>10. CASE RingingFromCallee(m)
  <2>1. NextFromCallee /\ bridged /\ clientKnown
    BY <1>2, <1>10 DEF RingingFromCallee
  <2>2. CASE client = "TRYING"
    <3>1. server = "TRYING" /\ serverReq = "INVITE"
      BY <1>0, <2>2 DEF IInv, LegsAgree, NotYetAnswered, Waiting, Unused
    <3>2. /\ ServerBecomes("RINGING", "INVITE", serverKnown, <<Resp(180, "INVITE")>>)
          /\ ClientBecomes("RINGING", clientReq, clientKnown, <<>>)
      BY <1>10, <2>1, <2>2, <3>1 DEF RingingFromCallee, OnServerLeg, ServerOnRinging
    <3>3. /\ server' = "RINGING" /\ serverReq' = "INVITE"
          /\ \A x \in InFlight(toCaller') : x \in InFlight(toCaller) \/ Accepts(x)
      <4>1. 180 \in Status /\ 180 < 300
        BY DEF Status
      <4> QED BY <1>0, <3>2, <4>1, ServerTells
    <3>4. CallerGoesOn
      BY <3>1, <3>3 DEF CallerGoesOn, Unused
    <3>5. /\ client' = "RINGING"
          /\ Req("ACK") \in InFlight(toCallee') => Req("ACK") \in InFlight(toCallee)
          /\ Req("CANCEL") \in InFlight(toCallee') => Req("CANCEL") \in InFlight(toCallee)
      <4>1. ClientAsking("RINGING", clientReq, clientKnown, {})
        BY <1>0, <3>2, ClientIsSilent
      <4> QED BY <4>1 DEF ClientAsking, Method
    <3>6. CancelGoesOn
      BY <3>1, <3>3, <3>5 DEF CancelGoesOn
    <3>7. CalleeLegGoesOn
      BY <3>5 DEF CalleeLegGoesOn, Unused
    <3> QED BY <1>3, <2>1, <2>2, <3>4, <3>5, <3>6, <3>7 DEF Unused
  <2>3. CASE client # "TRYING"
    <3>1. UNCHANGED serverVars /\ UNCHANGED clientVars
      BY <1>10, <2>3 DEF RingingFromCallee
    <3> QED BY <1>9, <2>1, <3>1
  <2> QED BY <2>2, <2>3
<1>11. CASE AcceptFromCallee(m)
  <2>1. NextFromCallee /\ clientKnown /\ client \in Waiting /\ IsOk(m.code)
    BY <1>11 DEF AcceptFromCallee
  <2>2. server \in Waiting /\ server \in Unused /\ client \in Unused /\ serverReq = "INVITE"
    BY <1>0, <2>1 DEF IInv, LegsAgree, NotYetAnswered, Waiting, Unused
  <2>3. ServerOnOk /\ ClientBecomes("CALLING", clientReq, clientKnown, <<Req("ACK")>>)
    BY <1>2, <1>11, <2>1 DEF AcceptFromCallee, OnServerLeg
  <2>4. ServerBecomes("OK", "INVITE", serverKnown, <<Resp(200, "INVITE")>>)
    BY <2>2, <2>3 DEF ServerOnOk, Waiting
  <2>5. /\ server' = "OK" /\ serverReq' = "INVITE"
        /\ \A x \in InFlight(toCaller') : x \in InFlight(toCaller) \/ Accepts(x)
    <3>1. 200 \in Status /\ 200 < 300
      BY DEF Status
    <3> QED BY <1>0, <2>4, <3>1, ServerTells
  <2>6. CallerGoesOn
    BY <2>2, <2>5 DEF CallerGoesOn
  <2>7. /\ client' = "CALLING"
        /\ Req("CANCEL") \in InFlight(toCallee') => Req("CANCEL") \in InFlight(toCallee)
    <3>1. ClientAsking("CALLING", clientReq, clientKnown, {"ACK"})
      BY <1>0, <2>3, ClientAsks
    <3> QED BY <3>1 DEF ClientAsking, Method
  <2>8. CancelGoesOn
    BY <2>2, <2>5, <2>7 DEF CancelGoesOn
\* The 2xx is the answer: nothing else is outstanding on this leg.
  <2>9. IsFinal(m)
    <3>1. m.code >= 200 /\ m.code # 0
      BY <1>1, <2>1, CodeClasses
    <3>2. m.method = "INVITE"
      BY <1>1, <2>2, <3>1 DEF IInv, CalleeAnswersInvite
    <3> QED BY <3>1, <3>2 DEF IsFinal
  <2>10. TakesFinal
    BY <1>1, <2>1, <2>9 DEF TakesFinal, NextFromCallee, m
  <2>11. CalleeLegGoesOn
    BY <2>2, <2>7, <2>10 DEF CalleeLegGoesOn
  <2> QED BY <1>3, <2>1, <2>6, <2>7, <2>8, <2>11 DEF Unused
<1>12. CASE HangupConfirmedByCallee(m)
  <2>1. /\ NextFromCallee /\ IsOk(m.code) /\ client = "BYE" /\ ServerHangUp
        /\ ClientBecomes("FINISH", clientReq, FALSE, <<Req("ACK")>>)
    BY <1>2, <1>12 DEF HangupConfirmedByCallee, OnServerLeg
  <2>2. CallerGoesOn /\ CancelGoesOn
    BY <1>5, <1>8, <2>1 DEF CancelGoesOn
  <2>3. serverReq' # "CANCEL" /\ "client" \in up => CalleeLegGoesOn
    BY <1>5, <1>7, <1>8, <2>1 DEF Unused
  <2> QED BY <1>3, <1>8, <2>1, <2>2, <2>3
<1>13. CASE CancelConfirmedByCallee(m)
  <2>1. /\ NextFromCallee /\ UNCHANGED serverVars /\ client = "CANCELING"
        /\ ClientBecomes("FINISH", clientReq, FALSE, <<Req("ACK")>>)
    BY <1>13 DEF CancelConfirmedByCallee, OnlyClientLeg
  <2>2. CallerGoesOn /\ CancelGoesOn /\ serverReq' = "CANCEL"
    BY <1>0, <1>4, <1>8, <2>1 DEF CancelGoesOn, CancelIsCited
  <2> QED BY <1>3, <1>8, <2>1, <2>2
<1>14. CASE UnexpectedOkFromCallee(m)
  <2>1. /\ NextFromCallee /\ UNCHANGED serverVars /\ IsOk(m.code) /\ client \notin Unused
        /\ ClientBecomes("FINISH", clientReq, FALSE, <<>>)
    BY <1>2, <1>14 DEF UnexpectedOkFromCallee, OnlyClientLeg, Waiting, Unused
  <2>2. CallerGoesOn /\ CancelGoesOn
    BY <1>4, <1>8, <2>1 DEF CancelGoesOn
  <2>3. serverReq' # "CANCEL" /\ "client" \in up => CalleeLegGoesOn
    BY <1>4, <1>7, <1>8, <2>1
  <2> QED BY <1>3, <1>8, <2>1, <2>2, <2>3
<1>15. CASE RejectFromCallee(m)
  <2> DEFINE said == <<Resp(486, serverReq)>>
  <2>1. /\ NextFromCallee /\ IsReject(m.code)
        /\ ClientBecomes("FINISH", clientReq, FALSE, <<>>)
        /\ ServerBecomes("FINISH", serverReq, FALSE, said)
    BY <1>2, <1>15 DEF RejectFromCallee, OnServerLeg, ServerOnReject
  <2>2. server' = "FINISH" /\ serverReq' = serverReq
    BY <2>1 DEF ServerBecomes
  <2>3. CallerGoesOn /\ CancelGoesOn
    BY <1>8, <2>1, <2>2 DEF CallerGoesOn, CancelGoesOn, Unused
\* A callee that is in the call rejects nothing.
  <2>4. ASSUME serverReq # "CANCEL", "client" \in up
        PROVE  callee \notin {"idle", "alerting", "answered", "talking"}
    <3>1. ~Accepts(m)
      BY <1>1, <2>1, CodeClasses
    <3> QED BY <1>6, <2>4, <3>1
  <2>5. serverReq' # "CANCEL" /\ "client" \in up => CalleeLegGoesOn
    BY <2>2, <2>4 DEF CalleeLegGoesOn
  <2> HIDE DEF said
  <2> QED BY <1>3, <1>8, <2>1, <2>3, <2>5
<1>16. CASE ByeFromCallee(m)
  <2>1. NextFromCallee /\ m = Req("BYE")
    BY <1>16 DEF ByeFromCallee
  <2>2. ASSUME serverReq # "CANCEL", "client" \in up
        PROVE  CalleeLegGoesOn
    <3>1. ~Accepts(m)
      BY <2>1 DEF Accepts, Req
    <3> QED BY <1>6, <2>2, <3>1 DEF CalleeLegGoesOn
  <2>3. CASE client = "CALLING"
    <3>1. ClientBecomes("BYE", "BYE", clientKnown, <<Resp(200, "BYE")>>) /\ ServerHangUp
      BY <1>2, <1>16, <2>3 DEF ByeFromCallee, OnServerLeg
    <3>2. ClientAsking("BYE", "BYE", clientKnown, {})
      BY <1>0, <3>1, StatusCodes, ClientReplies
    <3>3. /\ client' = "BYE"
          /\ Req("CANCEL") \in InFlight(toCallee') => Req("CANCEL") \in InFlight(toCallee)
      BY <3>2 DEF ClientAsking, Method
    <3>4. CallerGoesOn /\ CancelGoesOn
      BY <1>5, <2>1, <3>1, <3>3 DEF CancelGoesOn
    <3>5. serverReq' # "CANCEL" /\ "client" \in up => CalleeLegGoesOn
      BY <1>5, <2>1, <2>2, <3>1
    <3> QED BY <1>3, <2>1, <3>3, <3>4, <3>5 DEF Unused
  <2>4. CASE client # "CALLING"
    <3>1. /\ ClientBecomes(client, clientReq, clientKnown, <<Resp(400, clientReq)>>)
          /\ UNCHANGED serverVars
      BY <1>16, <2>4 DEF ByeFromCallee
    <3>2. ClientAsking(client, clientReq, clientKnown, {})
      BY <1>0, <3>1, StatusCodes, ClientReplies
    <3>3. /\ client' = client
          /\ Req("ACK") \in InFlight(toCallee') => Req("ACK") \in InFlight(toCallee)
          /\ Req("CANCEL") \in InFlight(toCallee') => Req("CANCEL") \in InFlight(toCallee)
      BY <3>2 DEF ClientAsking, Method
    <3>4. CallerGoesOn /\ CancelGoesOn
      BY <1>4, <2>1, <3>1, <3>3 DEF CancelGoesOn
    <3>5. serverReq' # "CANCEL" /\ "client" \in up => CalleeLegGoesOn
      BY <1>4, <2>1, <2>2, <3>1
    <3> QED BY <1>3, <2>1, <3>3, <3>4, <3>5
  <2> QED BY <2>3, <2>4
<1>17. CASE IgnoredFromCallee(m)
  BY <1>17, <1>9 DEF IgnoredFromCallee
<1> QED
  BY <1>10, <1>11, <1>12, <1>13, <1>14, <1>15, <1>16, <1>17 DEF GatewayRelays, m

\* The caller speaks, and its messages come behind those on their way.
LEMMA CallerSpeaksOn ==
  ASSUME IInv, HInv, CallerActs, NEW state, NEW messages \in Seq(Message),
         CallerDoes(state, messages),
         InFlight(toCaller') \subseteq InFlight(toCaller),
         server \in {"OK", "CALLING"} =>
           /\ state = "ended" => caller = "ended"
           /\ state = "hungup" => caller = "hungup" \/ Req("BYE") \in InFlight(messages)
  PROVE  HInv'
<1>1. /\ CancelIsCited /\ CallerIsInCall /\ CalleeIsInCall /\ fromCaller \in Seq(Message)
  BY DEF HInv, IInv, TypeOK
<1>2. /\ UNCHANGED <<server, serverReq, client, toCallee, up, fromCallee, callee>>
      /\ "server" \in up
  BY DEF CallerActs, clientVars
<1>3. caller' = state /\ fromCaller' = fromCaller \o messages
  BY <1>2 DEF CallerDoes, Sent
<1>4. InFlight(fromCaller') = InFlight(fromCaller) \cup InFlight(messages)
  BY <1>1, <1>3, SaidHolds
<1>5. CancelIsCited'
  BY <1>1, <1>2 DEF CancelIsCited
<1>6. CallerIsInCall'
  BY <1>1, <1>2, <1>3, <1>4 DEF CallerIsInCall, Unused
<1>7. CalleeIsInCall'
  BY <1>1, <1>2 DEF CalleeIsInCall, Unused
<1> QED BY <1>5, <1>6, <1>7 DEF HInv

LEMMA CallerActsOn ==
  ASSUME IInv, FInv, HInv, CallerActs
  PROVE  HInv'
<1>0. /\ CallerIsInCall /\ TypeOK /\ toCaller \in Seq(Message)
      /\ {"INVITE", "CANCEL", "BYE", "ACK"} \subseteq Method
  BY DEF HInv, IInv, TypeOK, Method
<1>1. /\ \A a \in Method : Req(a) \in Message /\ <<Req(a)>> \in Seq(Message)
                           /\ InFlight(<<Req(a)>>) = {Req(a)}
      /\ <<>> \in Seq(Message) /\ InFlight(<<>>) = {}
  BY RequestIsMessage, LiteralHolds
<1>2. CASE CallerDials /\ UNCHANGED toCaller
  <2>1. CallerDoes("calling", <<Req("INVITE")>>)
    BY <1>2 DEF CallerDials
  <2> QED BY <1>0, <1>1, <1>2, <2>1, CallerSpeaksOn
<1>3. CASE CallerCancels /\ UNCHANGED toCaller
  <2>1. CallerDoes("cancelling", <<Req("CANCEL")>>)
    BY <1>3 DEF CallerCancels
  <2> QED BY <1>0, <1>1, <1>3, <2>1, CallerSpeaksOn
<1>4. CASE CallerHangsUp /\ UNCHANGED toCaller
  <2>1. CallerDoes("hungup", <<Req("BYE")>>)
    BY <1>4 DEF CallerHangsUp
  <2>2. Req("BYE") \in InFlight(<<Req("BYE")>>)
    BY <1>0, <1>1
  <2> QED BY <1>0, <1>1, <1>4, <2>1, <2>2, CallerSpeaksOn
<1>5. CASE CallerTakes
  <2> DEFINE m == Head(toCaller)
  <2>1. /\ m \in Message /\ m \in InFlight(toCaller)
        /\ InFlight(toCaller') \subseteq InFlight(toCaller)
    BY <1>0, <1>5, TailHolds DEF CallerTakes
\* A caller in the call is told of nothing but its answer.
  <2>2. server \in {"OK", "CALLING"} => Accepts(m)
    BY <1>0, <2>1 DEF CallerIsInCall
  <2>3. CallerTakes => CASE m = Req("BYE") -> CallerTakesBye
         [] m.code # 0 /\ m.method = "INVITE" -> CallerTakesInviteResponse(m.code)
         [] m.code # 0 /\ m.method = "BYE" /\ caller = "hungup" -> CallerDoes("ended", <<>>)
         [] OTHER -> CallerDoes(caller, <<>>)
    BY DEF CallerTakes
  <2> HIDE DEF m
  <2>4. ASSUME ~Accepts(m), NEW state, NEW messages \in Seq(Message), CallerDoes(state, messages)
        PROVE  HInv'
    BY <2>1, <2>2, <2>4, CallerSpeaksOn
  <2>5. ASSUME CallerDoes(caller, <<>>) PROVE HInv'
    BY <1>1, <2>1, <2>5, CallerSpeaksOn
  <2>6. CASE m = Req("BYE")
    <3>1. CallerTakesBye
      <4>1. m.code = 0
        BY <2>6 DEF Req
      <4> QED BY <1>5, <2>3, <2>6, <4>1
    <3>2. PICK state \in CallerState, code \in Status : CallerDoes(state, <<Resp(code, "BYE")>>)
      <4>1. CASE caller = "talking"
        <5>1. CallerDoes("ended", <<Resp(200, "BYE")>>)
          BY <3>1, <4>1 DEF CallerTakesBye
        <5>2. "ended" \in CallerState /\ 200 \in Status
          BY DEF CallerState, Status
        <5> QED BY <5>1, <5>2
      <4>2. CASE caller # "talking"
        <5> DEFINE state == IF caller = "hungup" THEN "ended" ELSE caller
        <5>1. PICK code \in {200, 481} : CallerDoes(state, <<Resp(code, "BYE")>>)
          BY <3>1, <4>2 DEF CallerTakesBye
        <5>2. state \in CallerState /\ code \in Status
          BY <1>0 DEF TypeOK, CallerState, Status
        <5> HIDE DEF state
        <5> QED BY <5>1, <5>2
      <4> QED BY <4>1, <4>2
    <3>3. <<Resp(code, "BYE")>> \in Seq(Message)
      BY <1>0, ResponseFinal
    <3>4. ~Accepts(m)
      BY <2>6 DEF Accepts, Req
    <3> QED BY <2>4, <3>2, <3>3, <3>4
  <2>7. CASE m # Req("BYE") /\ m.code # 0 /\ m.method = "INVITE"
    <3>1. CallerTakesInviteResponse(m.code)
      BY <1>5, <2>3, <2>7
    <3>2. CASE Accepts(m)
      <4>1. \/ CallerDoes("proceeding", <<>>)
            \/ CallerDoes("talking", <<Req("ACK")>>)
            \/ CallerDoes("hungup", <<Req("ACK"), Req("BYE")>>)
            \/ CallerDoes(caller, <<>>)
        <5>1. ~(m.code >= 300)
          BY <3>2 DEF Accepts
        <5> QED BY <3>1, <5>1 DEF CallerTakesInviteResponse
      <4>2. CASE CallerDoes("proceeding", <<>>)
        BY <1>1, <2>1, <4>2, CallerSpeaksOn
      <4>3. CASE CallerDoes("talking", <<Req("ACK")>>)
        BY <1>0, <1>1, <2>1, <4>3, CallerSpeaksOn
      <4>4. CASE CallerDoes("hungup", <<Req("ACK"), Req("BYE")>>)
        <5> DEFINE both == <<Req("ACK"), Req("BYE")>>
        <5>1. Req("ACK") \in Message /\ Req("BYE") \in Message
          BY <1>0, <1>1
        <5>2. both \in Seq(Message) /\ InFlight(both) = {Req("ACK"), Req("BYE")}
          BY <5>1, LiteralHolds
        <5>3. CallerDoes("hungup", both)
          BY <4>4
        <5> HIDE DEF both
        <5> QED BY <2>1, <5>2, <5>3, CallerSpeaksOn
      <4> QED BY <2>5, <4>1, <4>2, <4>3, <4>4
    <3>3. CASE ~Accepts(m)
      <4>1. \/ CallerDoes("proceeding", <<>>)
            \/ CallerDoes("talking", <<Req("ACK")>>)
            \/ CallerDoes("hungup", <<Req("ACK"), Req("BYE")>>)
            \/ CallerDoes("ended", <<Req("ACK")>>)
            \/ CallerDoes(caller, <<>>)
        BY <3>1 DEF CallerTakesInviteResponse
      <4>2. <<Req("ACK"), Req("BYE")>> \in Seq(Message)
        BY <1>0, <1>1, LiteralHolds
      <4> QED BY <1>0, <1>1, <2>4, <3>3, <4>1, <4>2
    <3> QED BY <3>2, <3>3
  <2>8. CASE m # Req("BYE") /\ ~(m.code # 0 /\ m.method = "INVITE")
    <3>1. CallerDoes("ended", <<>>) \/ CallerDoes(caller, <<>>)
      BY <1>5, <2>3, <2>8
    <3>2. ~Accepts(m)
      BY <2>8 DEF Accepts
    <3> QED BY <1>1, <2>4, <3>1, <3>2
  <2> QED BY <2>6, <2>7, <2>8
<1> QED BY <1>2, <1>3, <1>4, <1>5 DEF CallerActs

\* What the callee says and does, in a call that was not cancelled.
LEMMA CalleeSpeaksOn ==
  ASSUME IInv, HInv, CalleeActs, NEW state, NEW messages \in Seq(Message),
         CalleeDoes(state, messages),
         InFlight(toCallee') \subseteq InFlight(toCallee),
         serverReq # "CANCEL" =>
           \/ /\ state = callee /\ messages = <<>>
              /\ Req("BYE") \in InFlight(toCallee) => Req("BYE") \in InFlight(toCallee')
           \/ /\ state = "alerting" /\ callee \in {"idle", "alerting"} /\ NoFinal(messages)
              /\ \A m \in InFlight(messages) : Accepts(m)
           \/ /\ state = "answered" /\ toCallee' = toCallee
              /\ \A m \in InFlight(messages) : Accepts(m)
              /\ \/ callee = "alerting" /\ AtMostOneFinal(messages)
                 \/ callee = "answered" /\ Retransmits
           \/ /\ state = "talking" /\ callee = "answered" /\ client \notin Unused /\ messages = <<>>
              /\ Req("BYE") \in InFlight(toCallee) => Req("BYE") \in InFlight(toCallee')
           \/ state \notin {"idle", "alerting", "answered", "talking"}
  PROVE  HInv'
<1>0. /\ CancelIsCited /\ CallerIsInCall /\ CalleeIsInCall /\ fromCallee \in Seq(Message)
      /\ NoFinal(<<>>) /\ InFlight(<<>>) = {}
  BY SilenceNotFinal, LiteralHolds DEF HInv, IInv, TypeOK
<1>1. /\ UNCHANGED <<server, serverReq, toCaller, client, up, fromCaller, caller>>
      /\ "client" \in up
  BY DEF CalleeActs, serverVars
<1>2. callee' = state /\ fromCallee' = Sent("client", fromCallee, messages)
  BY DEF CalleeDoes
<1>3. /\ InFlight(fromCallee') \subseteq InFlight(fromCallee) \cup InFlight(messages)
      /\ NoFinal(messages) /\ NoFinal(fromCallee) => NoFinal(fromCallee')
      /\ NoFinal(messages) /\ AtMostOneFinal(fromCallee) => AtMostOneFinal(fromCallee')
      /\ AtMostOneFinal(messages) /\ NoFinal(fromCallee) => AtMostOneFinal(fromCallee')
  BY <1>0, <1>2, SentHolds, SentNoFinal, SentAtMostOne
<1>4. CancelIsCited' /\ CallerIsInCall'
  BY <1>0, <1>1 DEF CancelIsCited, CallerIsInCall, Unused
<1>5. Req("ACK") \in InFlight(toCallee') => client' \notin Unused
  BY <1>0, <1>1 DEF CalleeIsInCall, Unused
<1>6. ASSUME serverReq # "CANCEL"
      PROVE  /\ state \in {"idle", "alerting"} => client \in Unused /\ NoFinal(fromCallee')
             /\ state \in {"idle", "alerting", "answered", "talking"} =>
                  \A m \in InFlight(fromCallee') : Accepts(m)
             /\ state \in {"answered", "talking"} =>
                  /\ \/ client \in Unused /\ state = "answered"
                     \/ client = "CALLING"
                     \/ client = "BYE" /\ Req("BYE") \in InFlight(toCallee')
                     \/ client = "FINISH" /\ Retransmits
                  /\ ~Retransmits =>
                       AtMostOneFinal(fromCallee') /\ (client \notin Unused => NoFinal(fromCallee'))
  <2>1. /\ callee \in {"idle", "alerting"} => client \in Unused /\ NoFinal(fromCallee)
        /\ callee \in {"idle", "alerting", "answered", "talking"} =>
             \A m \in InFlight(fromCallee) : Accepts(m)
        /\ callee \in {"answered", "talking"} =>
             /\ \/ client \in Unused /\ callee = "answered"
                \/ client = "CALLING"
                \/ client = "BYE" /\ Req("BYE") \in InFlight(toCallee)
                \/ client = "FINISH" /\ Retransmits
             /\ ~Retransmits =>
                  AtMostOneFinal(fromCallee) /\ (client \notin Unused => NoFinal(fromCallee))
    BY <1>0, <1>1, <1>6 DEF CalleeIsInCall
  <2>2. CASE /\ state = callee /\ messages = <<>>
             /\ Req("BYE") \in InFlight(toCallee) => Req("BYE") \in InFlight(toCallee')
    BY <1>0, <1>3, <2>1, <2>2
  <2>3. CASE /\ state = "alerting" /\ callee \in {"idle", "alerting"} /\ NoFinal(messages)
             /\ \A m \in InFlight(messages) : Accepts(m)
    BY <1>3, <2>1, <2>3
  <2>4. CASE /\ state = "answered" /\ toCallee' = toCallee
             /\ \A m \in InFlight(messages) : Accepts(m)
             /\ \/ callee = "alerting" /\ AtMostOneFinal(messages)
                \/ callee = "answered" /\ Retransmits
    BY <1>3, <2>1, <2>4
  <2>5. CASE /\ state = "talking" /\ callee = "answered" /\ client \notin Unused /\ messages = <<>>
             /\ Req("BYE") \in InFlight(toCallee) => Req("BYE") \in InFlight(toCallee')
    BY <1>0, <1>3, <2>1, <2>5
  <2>6. CASE state \notin {"idle", "alerting", "answered", "talking"}
    BY <2>6
  <2> QED BY <1>6, <2>2, <2>3, <2>4, <2>5, <2>6
<1>7. CalleeIsInCall'
  BY <1>1, <1>2, <1>5, <1>6 DEF CalleeIsInCall, Unused
<1> QED BY <1>4, <1>7 DEF HInv

LEMMA CalleeActsOn ==
  ASSUME IInv, HInv, CalleeActs
  PROVE  HInv'
<1>0. /\ CancelIsCited /\ CalleeIsInCall /\ TypeOK
      /\ toCallee \in Seq(Message) /\ fromCallee \in Seq(Message) /\ "client" \in up
      /\ {"INVITE", "ACK", "CANCEL", "BYE"} \subseteq Method
  BY DEF HInv, IInv, TypeOK, Method, CalleeActs
<1>1. ASSUME NEW code \in Status, code < 300
      PROVE  /\ <<Resp(code, "INVITE")>> \in Seq(Message) /\ AtMostOneFinal(<<Resp(code, "INVITE")>>)
             /\ code < 200 => NoFinal(<<Resp(code, "INVITE")>>)
             /\ \A m \in InFlight(<<Resp(code, "INVITE")>>) : Accepts(m)
  <2>1. Resp(code, "INVITE") \in Message /\ Accepts(Resp(code, "INVITE"))
    <3>1. Resp(code, "INVITE") \in Message
      BY <1>0, ResponseIsMessage
    <3> QED BY <1>1, <3>1 DEF Accepts, Resp, Status
  <2>2. InFlight(<<Resp(code, "INVITE")>>) = {Resp(code, "INVITE")}
    BY <2>1, LiteralHolds
  <2> QED BY <1>0, <1>1, <2>1, <2>2, ResponseFinal
\* Out of the call, whatever is said.
<1>2. ASSUME NEW state, NEW messages \in Seq(Message), CalleeDoes(state, messages),
             InFlight(toCallee') \subseteq InFlight(toCallee),
             serverReq # "CANCEL" => state \notin {"idle", "alerting", "answered", "talking"}
      PROVE  HInv'
  BY <1>2, CalleeSpeaksOn
<1>3. CASE CalleeProgresses /\ UNCHANGED toCallee
  <2>1. PICK code \in Codes \cap 100..199 : CalleeDoes("alerting", <<Resp(code, "INVITE")>>)
    BY <1>3 DEF CalleeProgresses
  <2>2. code \in Status /\ code < 200 /\ code < 300
    BY DEF Status
  <2> DEFINE said == <<Resp(code, "INVITE")>>
  <2>3. said \in Seq(Message) /\ NoFinal(said) /\ \A m \in InFlight(said) : Accepts(m)
    BY <1>1, <2>2
  <2>4. CalleeDoes("alerting", said)
    BY <2>1
  <2> HIDE DEF said
  <2> QED BY <1>3, <2>3, <2>4, CalleeSpeaksOn DEF CalleeProgresses
<1>4. CASE CalleeAnswers /\ UNCHANGED toCallee
  <2>1. PICK code \in Codes \cap 200..299 : CalleeDoes("answered", <<Resp(code, "INVITE")>>)
    BY <1>4 DEF CalleeAnswers
  <2>2. code \in Status /\ code < 300 /\ callee = "alerting"
    BY <1>4 DEF Status, CalleeAnswers
  <2> DEFINE said == <<Resp(code, "INVITE")>>
  <2>3. said \in Seq(Message) /\ AtMostOneFinal(said) /\ \A m \in InFlight(said) : Accepts(m)
    BY <1>1, <2>2
  <2>4. CalleeDoes("answered", said)
    BY <2>1
  <2> HIDE DEF said
  <2> QED BY <1>4, <2>2, <2>3, <2>4, CalleeSpeaksOn
<1>5. CASE CalleeDeclines /\ UNCHANGED toCallee
  <2>1. PICK code \in Codes \cap 300..699 : CalleeDoes("declined", <<Resp(code, "INVITE")>>)
    BY <1>5 DEF CalleeDeclines
  <2>2. <<Resp(code, "INVITE")>> \in Seq(Message)
    BY <1>0, DeclineCodes, ResponseFinal
  <2> QED BY <1>2, <1>5, <2>1, <2>2
<1>6. CASE CalleeRepeatsAnswer /\ UNCHANGED toCallee
  <2> DEFINE said == <<Resp(200, "INVITE")>>
  <2>1. CalleeDoes("answered", said) /\ callee = "answered" /\ Retransmits
    BY <1>6 DEF CalleeRepeatsAnswer
  <2>2. said \in Seq(Message) /\ \A m \in InFlight(said) : Accepts(m)
    <3>1. 200 \in Status /\ 200 < 300
      BY DEF Status
    <3> QED BY <1>1, <3>1
  <2> HIDE DEF said
  <2> QED BY <1>6, <2>1, <2>2, CalleeSpeaksOn
<1>7. CASE CalleeHangsUp /\ UNCHANGED toCallee
  <2>1. CalleeDoes("hungup", <<Req("BYE")>>)
    BY <1>7 DEF CalleeHangsUp
  <2>2. <<Req("BYE")>> \in Seq(Message)
    BY <1>0, RequestIsMessage, LiteralHolds
  <2> QED BY <1>2, <1>7, <2>1, <2>2
<1>8. CASE CalleeTakes
  <2> DEFINE m == Head(toCallee)
  <2>1. /\ m \in InFlight(toCallee) /\ InFlight(toCallee') \subseteq InFlight(toCallee)
        /\ \A x \in InFlight(toCallee) : x # m => x \in InFlight(toCallee')
    BY <1>0, <1>8, TailHolds, TailKeeps DEF CalleeTakes
  <2>2. CalleeTakes => CASE m = Req("INVITE") /\ callee = "idle" -> CalleeDoes("alerting", <<>>)
         [] m = Req("ACK") /\ callee = "answered" -> CalleeDoes("talking", <<>>)
         [] m = Req("CANCEL") -> CalleeTakesCancel
         [] m = Req("BYE") -> CalleeTakesBye
         [] m.code # 0 /\ m.method = "BYE" /\ callee = "hungup" -> CalleeDoes("ended", <<>>)
         [] OTHER -> CalleeDoes(callee, <<>>)
    BY DEF CalleeTakes
  <2> HIDE DEF m
  <2>3. /\ Req("CANCEL") # Req("INVITE") /\ Req("CANCEL") # Req("ACK") /\ Req("CANCEL").code = 0
        /\ Req("BYE") # Req("INVITE") /\ Req("BYE") # Req("ACK") /\ Req("BYE") # Req("CANCEL")
        /\ Req("BYE").code = 0 /\ Req("INVITE") # Req("ACK")
    BY DEF Req
  <2>4. <<>> \in Seq(Message) /\ NoFinal(<<>>) /\ InFlight(<<>>) = {}
    BY LiteralHolds, SilenceNotFinal
  <2>5. ASSUME NEW code \in {200, 481}, NEW a \in Method
        PROVE  <<Resp(code, a)>> \in Seq(Message)
    <3>1. code \in Status
      BY DEF Status
    <3> QED BY <3>1, ResponseFinal
\* Only a call that was cancelled is cancelled on this leg.
  <2>6. CASE m = Req("CANCEL")
    <3>1. serverReq = "CANCEL"
      BY <1>0, <2>1, <2>6 DEF CancelIsCited
    <3>2. CalleeTakesCancel
      BY <1>8, <2>2, <2>3, <2>6
    <3>3. CASE callee = "alerting"
      <4>1. CalleeDoes("declined", <<Resp(200, "CANCEL"), Resp(487, "INVITE")>>)
        BY <3>2, <3>3 DEF CalleeTakesCancel
      <4> DEFINE said == <<Resp(200, "CANCEL"), Resp(487, "INVITE")>>
      <4>2. said \in Seq(Message)
        BY <1>0, ResponseIsMessage, LiteralHolds DEF Status
      <4>3. CalleeDoes("declined", said)
        BY <4>1
      <4> HIDE DEF said
      <4> QED BY <1>2, <2>1, <4>2, <4>3
    <3>4. CASE callee # "alerting"
      <4>1. PICK code \in {200, 481} : CalleeDoes(callee, <<Resp(code, "CANCEL")>>)
        BY <3>2, <3>4 DEF CalleeTakesCancel
      <4> DEFINE said == <<Resp(code, "CANCEL")>>
      <4>2. said \in Seq(Message) /\ CalleeDoes(callee, said)
        BY <1>0, <2>5, <4>1
      <4> HIDE DEF said
      <4> QED BY <1>2, <2>1, <3>1, <4>2
    <3> QED BY <3>3, <3>4
\* The callee that is sent a BYE has answered, and is released by it.
  <2>7. CASE m = Req("BYE")
    <3>1. CalleeTakesBye
      BY <1>8, <2>2, <2>3, <2>7
    <3>2. client \notin Unused
      BY <2>1, <2>7 DEF IInv, CalleeAnswersInvite
    <3>3. CASE callee \in {"answered", "talking"}
      <4>1. CalleeDoes("ended", <<Resp(200, "BYE")>>)
        BY <3>1, <3>3 DEF CalleeTakesBye
      <4> DEFINE said == <<Resp(200, "BYE")>>
      <4>2. said \in Seq(Message) /\ CalleeDoes("ended", said)
        BY <1>0, <2>5, <4>1
      <4> HIDE DEF said
      <4> QED BY <1>2, <2>1, <4>2
    <3>4. CASE callee \notin {"answered", "talking"}
      <4> DEFINE state == IF callee = "hungup" THEN "ended" ELSE callee
      <4>1. PICK code \in {200, 481} : CalleeDoes(state, <<Resp(code, "BYE")>>)
        BY <3>1, <3>4 DEF CalleeTakesBye
      <4>2. serverReq # "CANCEL" => callee \notin {"idle", "alerting"}
        BY <1>0, <3>2 DEF CalleeIsInCall
      <4>3. serverReq # "CANCEL" => state \notin {"idle", "alerting", "answered", "talking"}
        BY <3>4, <4>2
      <4> DEFINE said == <<Resp(code, "BYE")>>
      <4> HIDE DEF state
      <4>4. said \in Seq(Message) /\ CalleeDoes(state, said)
        BY <1>0, <2>5, <4>1
      <4> HIDE DEF said
      <4> QED BY <1>2, <2>1, <4>3, <4>4
    <3> QED BY <3>3, <3>4
  <2>8. CASE m \notin {Req("CANCEL"), Req("BYE")}
    <3>1. Req("BYE") \in InFlight(toCallee) => Req("BYE") \in InFlight(toCallee')
      BY <2>1, <2>8
    <3>2. \/ callee = "idle" /\ CalleeDoes("alerting", <<>>)
          \/ callee = "answered" /\ m = Req("ACK") /\ CalleeDoes("talking", <<>>)
          \/ CalleeDoes("ended", <<>>)
          \/ CalleeDoes(callee, <<>>)
      BY <1>8, <2>2, <2>3, <2>8
    <3>3. CASE callee = "idle" /\ CalleeDoes("alerting", <<>>)
      BY <2>1, <2>4, <3>3, CalleeSpeaksOn
    <3>4. CASE callee = "answered" /\ m = Req("ACK") /\ CalleeDoes("talking", <<>>)
      <4>1. client \notin Unused
        BY <1>0, <2>1, <3>4 DEF CalleeIsInCall
      <4> QED BY <2>1, <2>4, <3>1, <3>4, <4>1, CalleeSpeaksOn
    <3>5. CASE CalleeDoes("ended", <<>>)
      BY <1>2, <2>1, <2>4, <3>5
    <3>6. CASE CalleeDoes(callee, <<>>)
      BY <2>1, <2>4, <3>1, <3>6, CalleeSpeaksOn
    <3> QED BY <3>2, <3>3, <3>4, <3>5, <3>6
  <2> QED BY <2>6, <2>7, <2>8
<1> QED BY <1>3, <1>4, <1>5, <1>6, <1>7, <1>8 DEF CalleeActs

LEMMA SessionClosesOn ==
  ASSUME HInv, SessionCloses
  PROVE  HInv'
<1>1. UNCHANGED <<server, serverReq, client, caller, callee>> /\ up' \subseteq up
  BY DEF SessionCloses, agents
<1>2. \/ /\ toCaller' = <<>> /\ fromCaller' = <<>> /\ "server" \notin up'
         /\ UNCHANGED <<toCallee, fromCallee>>
      \/ /\ toCallee' = <<>> /\ fromCallee' = <<>> /\ "client" \notin up'
         /\ UNCHANGED <<toCaller, fromCaller>>
  <2>1. PICK leg \in up \cap Unreliable :
          /\ up' = up \ {leg}
          /\ IF leg = "server"
             THEN toCaller' = <<>> /\ fromCaller' = <<>> /\ UNCHANGED <<toCallee, fromCallee>>
             ELSE toCallee' = <<>> /\ fromCallee' = <<>> /\ UNCHANGED <<toCaller, fromCaller>>
    BY DEF SessionCloses
  <2>2. leg = "server" \/ leg = "client"
    BY UnreliableAssumption DEF Legs
  <2> QED BY <2>1, <2>2
<1>3. InFlight(<<>>) = {}
  BY LiteralHolds
<1>4. CancelIsCited' /\ CallerIsInCall'
  BY <1>1, <1>2, <1>3 DEF HInv, CancelIsCited, CallerIsInCall, Unused
<1>5. CalleeIsInCall'
  BY <1>1, <1>2, <1>3 DEF HInv, CalleeIsInCall, Unused, NoFinal, AtMostOneFinal
<1> QED BY <1>4, <1>5 DEF HInv

LEMMA StutterOn ==
  ASSUME HInv, UNCHANGED vars
  PROVE  HInv'
<1>1. /\ UNCHANGED <<server, serverReq, toCaller, client, toCallee>>
      /\ UNCHANGED <<up, fromCaller, fromCallee, caller, callee>>
  BY DEF vars, serverVars, clientVars, agents
<1> QED
  BY <1>1 DEF HInv, CancelIsCited, CallerIsInCall, CalleeIsInCall, Unused, NoFinal, AtMostOneFinal

LEMMA HInvInit == Init => HInv
<1> SUFFICES ASSUME Init PROVE HInv
  OBVIOUS
<1>1. /\ InFlight(toCaller) = {} /\ InFlight(fromCaller) = {}
      /\ InFlight(toCallee) = {} /\ InFlight(fromCallee) = {} /\ NoFinal(fromCallee)
  BY LiteralHolds, SilenceNotFinal DEF Init
<1> QED
  BY <1>1 DEF Init, HInv, CancelIsCited, CallerIsInCall, CalleeIsInCall, Unused

LEMMA HInvAlways == Spec => []HInv
<1>1. IInv /\ FInv /\ HInv /\ [Next]_vars => HInv'
  BY GatewayServesOn, GatewayRelaysOn, CallerActsOn, CalleeActsOn, SessionClosesOn, StutterOn
     DEF Next
<1> QED BY HInvInit, Inductive, FInvAlways, <1>1, PTL DEF Spec

\* When both sessions are open and nothing is in flight, no callee talks to a
\* caller that has left, unless the server leg took the CANCEL or the callee had
\* repeated its 2xx: in every other crossing of BYE, CANCEL, answers and
\* rejections the gateway sends the callee the BYE.
THEOREM CalleeNotOrphaned == Spec => []NoOrphanCallee
<1>1. IInv /\ HInv => NoOrphanCallee
  <2> SUFFICES ASSUME IInv, HInv, Abandoned, serverReq # "CANCEL",
                      ~(Retransmits /\ client = "FINISH")
               PROVE  FALSE
    BY DEF NoOrphanCallee
  <2>1. /\ callee = "talking" /\ caller \in {"hungup", "ended"}
        /\ "server" \in up /\ "client" \in up
        /\ toCaller \in Seq(Message) /\ fromCaller \in Seq(Message)
        /\ toCallee \in Seq(Message) /\ fromCallee \in Seq(Message)
        /\ toCaller \o fromCaller \o toCallee \o fromCallee = <<>>
    BY DEF Abandoned, InTransit, Legs, IInv, TypeOK
  <2>2. fromCaller = <<>> /\ toCallee = <<>>
    BY <2>1
  <2>3. InFlight(fromCaller) = {} /\ InFlight(toCallee) = {}
    BY <2>2, LiteralHolds
  <2>4. client = "CALLING"
    BY <2>1, <2>3 DEF HInv, CalleeIsInCall
  <2>5. server \in {"OK", "CALLING"}
    BY <2>4 DEF IInv, LegsAgree
  <2> QED BY <2>1, <2>3, <2>5 DEF HInv, CallerIsInCall
<1> QED BY Inductive, HInvAlways, <1>1, PTL
=============================================================================
