-------------------------------- MODULE Call --------------------------------
(***************************************************************************)
(* One INVITE call through the gateway, as a back-to-back user agent: the  *)
(* handler of the caller's INVITE (InviteServerMessageHandler, the server  *)
(* leg), the handler of the INVITE the gateway sends to the callee         *)
(* (InviteClientMessageHandler, the client leg), the dispatch of Handler,  *)
(* the bridge of RouteService, the WebSocket sessions of the two parties,  *)
(* and the two SIP user agents as the environment.                         *)
(*                                                                         *)
(* A handler runs to completion before the next message is dispatched.  A  *)
(* WebSocket delivers in order; what is sent to a closed one is lost.      *)
(***************************************************************************)
EXTENDS Naturals, Sequences

CONSTANTS
  Codes,        \* the final and provisional codes a callee may answer INVITE with
  MaxPending,   \* bound on the provisional and repeated answers in flight
  Retransmits,  \* whether the callee repeats its 2xx until the ACK arrives
  Unreliable    \* the legs whose WebSocket session may close during the call

Legs == {"server", "client"}

ASSUME CodesAssumption == Codes \subseteq 100..699
ASSUME MaxPendingAssumption == MaxPending \in Nat
ASSUME RetransmitsAssumption == Retransmits \in BOOLEAN
ASSUME UnreliableAssumption == Unreliable \subseteq Legs

VARIABLES
  server,       \* messageState of the server leg's handler, NONE before it exists
  client,       \* messageState of the client leg's handler, NONE before it exists
  serverReq,    \* what the server handler's getRequest() is: the responses cite it
  clientReq,    \* what the client handler's getRequest() is
  serverKnown,  \* whether messageHandlerList holds the server handler
  clientKnown,  \* whether messageHandlerList holds the client handler
  bridged,      \* whether bridgedElements pairs the two CallParams
  up,           \* the legs whose session is open
  toCaller, fromCaller, toCallee, fromCallee,  \* messages in flight, oldest first
  caller,       \* the calling user agent
  callee        \* the called user agent

serverVars == <<server, serverReq, serverKnown, toCaller>>
clientVars == <<client, clientReq, clientKnown, toCallee>>
agents == <<caller, callee>>
vars == <<serverVars, clientVars, bridged, up, fromCaller, fromCallee, agents>>

MessageState == {"STARTING", "TRYING", "RINGING", "BUSY", "OK", "CALLING",
                 "CANCELING", "BYE", "FINISH", "FAIL"}
HandlerState == MessageState \cup {"NONE"}
Waiting == {"TRYING", "RINGING"}     \* what MessageHandler.onOk() accepts

\* A request has code 0.  A response cites the method of the request it
\* answers, or OWN when the gateway builds it from a request of its own.
Method == {"INVITE", "ACK", "CANCEL", "BYE", "OWN"}
Message == [method : Method, code : 0..699]
Req(m) == [method |-> m, code |-> 0]
Resp(code, m) == [method |-> m, code |-> code]

\* The classes processResponse tells apart, in the order it tests them.
\* Codes outside all of them (100, 300, 401, 407) change nothing.
IsRinging(code) == code \in {180, 183}
IsChallenge(code) == code \in {401, 407}
IsOk(code) == code \in 200..299
IsReject(code) == code > 300 /\ ~IsChallenge(code)
IsPassedOver(code) == code # 0 /\ ~IsRinging(code) /\ ~IsOk(code) /\ ~IsReject(code)

CallerState == {"idle", "calling", "proceeding", "cancelling", "talking", "hungup", "ended"}
CalleeState == {"idle", "alerting", "declined", "answered", "talking", "hungup", "ended"}

Init ==
  /\ server = "NONE" /\ serverReq = "INVITE" /\ serverKnown = FALSE
  /\ client = "NONE" /\ clientReq = "OWN" /\ clientKnown = FALSE
  /\ bridged = FALSE
  /\ up = Legs
  /\ toCaller = <<>> /\ fromCaller = <<>> /\ toCallee = <<>> /\ fromCallee = <<>>
  /\ caller = "idle" /\ callee = "idle"

-----------------------------------------------------------------------------
(* What a method of a handler does to its own leg. *)

\* sendMessage on an open session queues the message; on a closed one it is
\* lost (IOException caught, or IllegalStateException after the state change).
Sent(leg, wire, messages) == IF leg \in up THEN wire \o messages ELSE wire

ServerBecomes(state, req, known, messages) ==
  /\ server' = state /\ serverReq' = req /\ serverKnown' = known
  /\ toCaller' = Sent("server", toCaller, messages)

ClientBecomes(state, req, known, messages) ==
  /\ client' = state /\ clientReq' = req /\ clientKnown' = known
  /\ toCallee' = Sent("client", toCallee, messages)

\* Mutant: a ringing callee is taken for one that has answered.
ServerOnRingingOk ==
  IF server = "TRYING"
  THEN ServerBecomes("OK", serverReq, serverKnown, <<Resp(200, serverReq)>>)
  ELSE UNCHANGED serverVars

ServerOnRinging ==
  IF server = "TRYING"
  THEN ServerBecomes("RINGING", serverReq, serverKnown, <<Resp(180, serverReq)>>)
  ELSE UNCHANGED serverVars

\* Mutant: the handler of a rejected call stays in messageHandlerList.
ServerOnRejectKept ==
  ServerBecomes("FINISH", serverReq, serverKnown, <<Resp(486, serverReq)>>)

\* BUSY, then onFinishImmediately: FINISH is all that is left to see.
ServerOnReject == ServerBecomes("FINISH", serverReq, FALSE, <<Resp(486, serverReq)>>)

\* Mutant: an answer is accepted in TRYING only, not after ringing.
ServerOnOkInTrying ==
  CASE server \in {"BYE", "CANCELING"} ->
         ServerBecomes("FINISH", serverReq, FALSE, <<Req("ACK")>>)
    [] server = "TRYING" ->
         ServerBecomes("OK", serverReq, serverKnown, <<Resp(200, serverReq)>>)
    [] OTHER -> ServerBecomes("FAIL", serverReq, serverKnown, <<>>)

ServerOnOk ==
  CASE server \in {"BYE", "CANCELING"} ->
         ServerBecomes("FINISH", serverReq, FALSE, <<Req("ACK")>>)
    [] server \in Waiting ->
         ServerBecomes("OK", serverReq, serverKnown, <<Resp(200, serverReq)>>)
    [] OTHER -> ServerBecomes("FAIL", serverReq, serverKnown, <<>>)

ServerOnAck ==
  CASE server = "OK" -> ServerBecomes("CALLING", serverReq, serverKnown, <<>>)
    [] server \in {"BUSY", "BYE", "CANCELING"} ->
         ServerBecomes("FINISH", serverReq, FALSE, <<>>)
    [] OTHER -> UNCHANGED serverVars

\* Mutant: the state is BYE, but the BYE is not sent.
ServerHangUpSilently ==
  IF server = "CALLING"
  THEN ServerBecomes("BYE", "OWN", serverKnown, <<>>)
  ELSE UNCHANGED serverVars

\* onBye(): the gateway hangs up on the leg, which only CALLING allows.
ServerHangUp ==
  IF server = "CALLING"
  THEN ServerBecomes("BYE", "OWN", serverKnown, <<Req("BYE")>>)
  ELSE UNCHANGED serverVars

ClientHangUp ==
  IF client = "CALLING"
  THEN ClientBecomes("BYE", "OWN", clientKnown, <<Req("BYE")>>)
  ELSE UNCHANGED clientVars

\* Mutant: an unanswered callee is sent a BYE.
ClientOnCancelWithBye == ClientBecomes("CANCELING", clientReq, clientKnown, <<Req("BYE")>>)

\* onCancel(): no test of the state, so a finished handler goes back to CANCELING.
ClientOnCancel == ClientBecomes("CANCELING", clientReq, clientKnown, <<Req("CANCEL")>>)

\* RouteService.observeBridgingFor...: a call that has no bridge is left alone.
OnServerLeg(A) == IF bridged THEN A ELSE UNCHANGED serverVars
OnClientLeg(A) == IF bridged THEN A ELSE UNCHANGED clientVars

-----------------------------------------------------------------------------
(* The caller's messages, dispatched by processRequest and processResponse. *)

NextFromCaller ==
  /\ fromCaller' = Tail(fromCaller)
  /\ UNCHANGED <<up, fromCallee, agents>>

OnlyServerLeg == UNCHANGED <<clientVars, bridged>>
OnlyClientLeg == UNCHANGED <<serverVars, bridged>>

NewInvite(m) == NextFromCaller /\ m = Req("INVITE") /\ ~serverKnown

\* Mutant: the handler is built without its request.
InviteMalformedUnset(m) ==
  /\ NewInvite(m)
  /\ ServerBecomes("FINISH", "NULL", FALSE, <<>>)
  /\ OnlyServerLeg

\* A mandatory header is missing: the handler is dropped without an answer.
InviteMalformed(m) ==
  /\ NewInvite(m)
  /\ ServerBecomes("FINISH", "INVITE", FALSE, <<>>)
  /\ OnlyServerLeg

\* Mutant: no return after the 403, the call is routed.
InviteForbiddenRouted(m) ==
  /\ NewInvite(m)
  /\ ServerBecomes("TRYING", "INVITE", TRUE, <<Resp(403, "INVITE"), Resp(100, "INVITE")>>)
  /\ ClientBecomes("TRYING", "OWN", TRUE, <<Req("INVITE")>>)
  /\ bridged' = TRUE

\* The Contact names no local extension.
InviteForbidden(m) ==
  /\ NewInvite(m)
  /\ ServerBecomes("FINISH", "INVITE", FALSE, <<Resp(403, "INVITE")>>)
  /\ OnlyServerLeg

\* No SDP, or To names no local extension: route() returns, and that is all.
InviteStranded(m) ==
  /\ NewInvite(m)
  /\ ServerBecomes("TRYING", "INVITE", TRUE, <<Resp(100, "INVITE")>>)
  /\ OnlyServerLeg

\* The extension of To is not registered: route() rejects the server leg.
InviteBusy(m) ==
  /\ NewInvite(m)
  /\ ServerBecomes("FINISH", "INVITE", FALSE, <<Resp(100, "INVITE"), Resp(486, "INVITE")>>)
  /\ OnlyServerLeg

InviteRouted(m) ==
  /\ NewInvite(m)
  /\ ServerBecomes("TRYING", "INVITE", TRUE, <<Resp(100, "INVITE")>>)
  /\ ClientBecomes("TRYING", "OWN", TRUE, <<Req("INVITE")>>)
  /\ bridged' = TRUE

AckFromCaller(m) ==
  /\ NextFromCaller /\ serverKnown /\ m = Req("ACK")
  /\ ServerOnAck
  /\ OnlyServerLeg

\* Mutant: setRequest() is missing, so the 200 answers the INVITE.
CancelFromCallerUnset(m) ==
  /\ NextFromCaller /\ serverKnown /\ m = Req("CANCEL")
  /\ ServerBecomes("CANCELING", serverReq, serverKnown, <<Resp(200, serverReq)>>)
  /\ OnClientLeg(ClientOnCancel)
  /\ UNCHANGED bridged

\* onCancel(request): its guard !(state != TRYING || state != RINGING) is
\* never true, so a CANCEL is accepted in every state.
CancelFromCaller(m) ==
  /\ NextFromCaller /\ serverKnown /\ m = Req("CANCEL")
  /\ ServerBecomes("CANCELING", "CANCEL", serverKnown, <<Resp(200, "CANCEL")>>)
  /\ OnClientLeg(ClientOnCancel)
  /\ UNCHANGED bridged

\* Mutant: the hang-up is not passed on to the callee.
ByeFromCallerKept(m) ==
  /\ NextFromCaller /\ serverKnown /\ m = Req("BYE")
  /\ IF server = "CALLING"
     THEN ServerBecomes("BYE", "BYE", serverKnown, <<Resp(200, "BYE")>>)
     ELSE ServerBecomes(server, serverReq, serverKnown, <<Resp(400, serverReq)>>)
  /\ OnlyServerLeg

ByeFromCaller(m) ==
  /\ NextFromCaller /\ serverKnown /\ m = Req("BYE")
  /\ IF server = "CALLING"
     THEN /\ ServerBecomes("BYE", "BYE", serverKnown, <<Resp(200, "BYE")>>)
          /\ OnClientLeg(ClientHangUp)
     ELSE /\ ServerBecomes(server, serverReq, serverKnown, <<Resp(400, serverReq)>>)
          /\ UNCHANGED clientVars
  /\ UNCHANGED bridged

\* The CSeq of a response is not looked at: any 2xx is an onOk().
OkFromCaller(m) ==
  /\ NextFromCaller /\ serverKnown /\ IsOk(m.code)
  /\ ServerOnOk
  /\ OnlyServerLeg

RejectFromCaller(m) ==
  /\ NextFromCaller /\ serverKnown /\ IsReject(m.code)
  /\ ServerOnReject
  /\ OnlyServerLeg

\* No handler has the Call-ID and the message opens no call, or one has it
\* and passes the message over.
IgnoredFromCaller(m) ==
  /\ NextFromCaller
  /\ IF serverKnown THEN m = Req("INVITE") \/ IsPassedOver(m.code) ELSE m # Req("INVITE")
  /\ UNCHANGED <<serverVars, clientVars, bridged>>

GatewayServes ==
  /\ fromCaller # <<>>
  /\ \E m \in {Head(fromCaller)} :
     \/ InviteMalformed(m) \/ InviteForbidden(m) \/ InviteStranded(m)
     \/ InviteBusy(m) \/ InviteRouted(m)
     \/ AckFromCaller(m) \/ CancelFromCaller(m) \/ ByeFromCaller(m)
     \/ OkFromCaller(m) \/ RejectFromCaller(m) \/ IgnoredFromCaller(m)

-----------------------------------------------------------------------------
(* The callee's messages. *)

NextFromCallee ==
  /\ fromCallee' = Tail(fromCallee)
  /\ UNCHANGED <<up, fromCaller, agents>>

\* Mutant: a late 180 takes the client leg back to RINGING.
RingingFromCalleeAlways(m) ==
  /\ NextFromCallee /\ clientKnown /\ IsRinging(m.code)
  /\ OnServerLeg(ServerOnRinging)
  /\ ClientBecomes("RINGING", clientReq, clientKnown, <<>>)
  /\ UNCHANGED bridged

RingingFromCallee(m) ==
  /\ NextFromCallee /\ clientKnown /\ IsRinging(m.code)
  /\ IF client = "TRYING"
     THEN /\ OnServerLeg(ServerOnRinging)
          /\ ClientBecomes("RINGING", clientReq, clientKnown, <<>>)
     ELSE UNCHANGED <<serverVars, clientVars>>
  /\ UNCHANGED bridged

\* onOk() of the client leg, one action per branch.
AcceptFromCallee(m) ==
  /\ NextFromCallee /\ clientKnown /\ IsOk(m.code) /\ client \in Waiting
  /\ OnServerLeg(ServerOnOk)
  /\ ClientBecomes("CALLING", clientReq, clientKnown, <<Req("ACK")>>)
  /\ UNCHANGED bridged

HangupConfirmedByCallee(m) ==
  /\ NextFromCallee /\ clientKnown /\ IsOk(m.code) /\ client = "BYE"
  /\ OnServerLeg(ServerHangUp)
  /\ ClientBecomes("FINISH", clientReq, FALSE, <<Req("ACK")>>)
  /\ UNCHANGED bridged

\* Mutant: onFinishImmediately() is missing.
CancelConfirmedByCalleeKept(m) ==
  /\ NextFromCallee /\ clientKnown /\ IsOk(m.code) /\ client = "CANCELING"
  /\ ClientBecomes("CANCELING", clientReq, clientKnown, <<Req("ACK")>>)
  /\ OnlyClientLeg

CancelConfirmedByCallee(m) ==
  /\ NextFromCallee /\ clientKnown /\ IsOk(m.code) /\ client = "CANCELING"
  /\ ClientBecomes("FINISH", clientReq, FALSE, <<Req("ACK")>>)
  /\ OnlyClientLeg

\* FAIL, then finished at once and without an ACK (the TODO in the source).
UnexpectedOkFromCallee(m) ==
  /\ NextFromCallee /\ clientKnown /\ IsOk(m.code)
  /\ client \notin Waiting \cup {"BYE", "CANCELING"}
  /\ ClientBecomes("FINISH", clientReq, FALSE, <<>>)
  /\ OnlyClientLeg

\* Mutant: the callee's rejection is not passed on to the caller.
RejectFromCalleeUnheard(m) ==
  /\ NextFromCallee /\ clientKnown /\ IsReject(m.code)
  /\ ClientBecomes("FINISH", clientReq, FALSE, <<>>)
  /\ OnlyClientLeg

\* onReject(): whatever the request was, the server leg is rejected too.
RejectFromCallee(m) ==
  /\ NextFromCallee /\ clientKnown /\ IsReject(m.code)
  /\ OnServerLeg(ServerOnReject)
  /\ ClientBecomes("FINISH", clientReq, FALSE, <<>>)
  /\ UNCHANGED bridged

ByeFromCallee(m) ==
  /\ NextFromCallee /\ clientKnown /\ m = Req("BYE")
  /\ IF client = "CALLING"
     THEN /\ ClientBecomes("BYE", "BYE", clientKnown, <<Resp(200, "BYE")>>)
          /\ OnServerLeg(ServerHangUp)
     ELSE /\ ClientBecomes(client, clientReq, clientKnown, <<Resp(400, clientReq)>>)
          /\ UNCHANGED serverVars
  /\ UNCHANGED bridged

\* The callee answers no 2xx of the gateway, so it sends neither INVITE nor ACK.
IgnoredFromCallee(m) ==
  /\ NextFromCallee
  /\ clientKnown => IsPassedOver(m.code)
  /\ UNCHANGED <<serverVars, clientVars, bridged>>

GatewayRelays ==
  /\ fromCallee # <<>>
  /\ \E m \in {Head(fromCallee)} :
     \/ RingingFromCallee(m) \/ AcceptFromCallee(m) \/ HangupConfirmedByCallee(m)
     \/ CancelConfirmedByCallee(m) \/ UnexpectedOkFromCallee(m)
     \/ RejectFromCallee(m) \/ ByeFromCallee(m) \/ IgnoredFromCallee(m)

\* onClose()/onError(): removeSession() finds no extension under its key and
\* setSession(null) is a no-op, so no handler learns of it.
SessionCloses ==
  \E leg \in up \cap Unreliable :
     /\ up' = up \ {leg}
     /\ IF leg = "server"
        THEN toCaller' = <<>> /\ fromCaller' = <<>> /\ UNCHANGED <<toCallee, fromCallee>>
        ELSE toCallee' = <<>> /\ fromCallee' = <<>> /\ UNCHANGED <<toCaller, fromCaller>>
     /\ UNCHANGED <<server, serverReq, serverKnown, client, clientReq, clientKnown,
                    bridged, agents>>

-----------------------------------------------------------------------------
(* The environment: two user agents that follow RFC 3261 and have no timers. *)

CallerDoes(state, messages) ==
  /\ caller' = state
  /\ fromCaller' = Sent("server", fromCaller, messages)

CallerDials == caller = "idle" /\ CallerDoes("calling", <<Req("INVITE")>>)

\* CANCEL waits for a provisional response, BYE for the call to be up.
CallerCancels == caller = "proceeding" /\ CallerDoes("cancelling", <<Req("CANCEL")>>)
CallerHangsUp == caller = "talking" /\ CallerDoes("hungup", <<Req("BYE")>>)

CallerTakesInviteResponse(code) ==
  CASE code < 200 /\ caller = "calling" -> CallerDoes("proceeding", <<>>)
    [] IsOk(code) /\ caller \in {"calling", "proceeding"} ->
         CallerDoes("talking", <<Req("ACK")>>)
    [] IsOk(code) /\ caller = "cancelling" ->   \* too late: hang up instead
         CallerDoes("hungup", <<Req("ACK"), Req("BYE")>>)
    [] code >= 300 /\ caller \in {"calling", "proceeding", "cancelling"} ->
         CallerDoes("ended", <<Req("ACK")>>)
    [] OTHER -> CallerDoes(caller, <<>>)

\* A BYE ends the dialog, also one that crosses the caller's own.
CallerTakesBye ==
  IF caller = "talking"
  THEN CallerDoes("ended", <<Resp(200, "BYE")>>)
  ELSE \E code \in {200, 481} :
         CallerDoes(IF caller = "hungup" THEN "ended" ELSE caller, <<Resp(code, "BYE")>>)

CallerTakes ==
  /\ toCaller # <<>>
  /\ toCaller' = Tail(toCaller)
  /\ \E m \in {Head(toCaller)} :
       CASE m = Req("BYE") -> CallerTakesBye
         [] m.code # 0 /\ m.method = "INVITE" -> CallerTakesInviteResponse(m.code)
         [] m.code # 0 /\ m.method = "BYE" /\ caller = "hungup" -> CallerDoes("ended", <<>>)
         [] OTHER -> CallerDoes(caller, <<>>)

CallerActs ==
  /\ "server" \in up
  /\ \/ /\ CallerDials \/ CallerCancels \/ CallerHangsUp
        /\ UNCHANGED toCaller
     \/ CallerTakes
  /\ UNCHANGED <<server, serverReq, serverKnown, clientVars, bridged, up, fromCallee, callee>>

CalleeDoes(state, messages) ==
  /\ callee' = state
  /\ fromCallee' = Sent("client", fromCallee, messages)

CalleeProgresses ==
  /\ callee = "alerting" /\ Len(fromCallee) < MaxPending
  /\ \E code \in Codes \cap 100..199 : CalleeDoes("alerting", <<Resp(code, "INVITE")>>)

CalleeAnswers ==
  /\ callee = "alerting"
  /\ \E code \in Codes \cap 200..299 : CalleeDoes("answered", <<Resp(code, "INVITE")>>)

CalleeDeclines ==
  /\ callee = "alerting"
  /\ \E code \in Codes \cap 300..699 : CalleeDoes("declined", <<Resp(code, "INVITE")>>)

CalleeRepeatsAnswer ==
  /\ Retransmits /\ callee = "answered" /\ Len(fromCallee) < MaxPending
  /\ CalleeDoes("answered", <<Resp(200, "INVITE")>>)

CalleeHangsUp == callee = "talking" /\ CalleeDoes("hungup", <<Req("BYE")>>)

CalleeTakesCancel ==
  IF callee = "alerting"
  THEN CalleeDoes("declined", <<Resp(200, "CANCEL"), Resp(487, "INVITE")>>)
  ELSE \E code \in {200, 481} : CalleeDoes(callee, <<Resp(code, "CANCEL")>>)

CalleeTakesBye ==
  IF callee \in {"answered", "talking"}
  THEN CalleeDoes("ended", <<Resp(200, "BYE")>>)
  ELSE \E code \in {200, 481} :
         CalleeDoes(IF callee = "hungup" THEN "ended" ELSE callee, <<Resp(code, "BYE")>>)

CalleeTakes ==
  /\ toCallee # <<>>
  /\ toCallee' = Tail(toCallee)
  /\ \E m \in {Head(toCallee)} :
       CASE m = Req("INVITE") /\ callee = "idle" -> CalleeDoes("alerting", <<>>)
         [] m = Req("ACK") /\ callee = "answered" -> CalleeDoes("talking", <<>>)
         [] m = Req("CANCEL") -> CalleeTakesCancel
         [] m = Req("BYE") -> CalleeTakesBye
         [] m.code # 0 /\ m.method = "BYE" /\ callee = "hungup" -> CalleeDoes("ended", <<>>)
         [] OTHER -> CalleeDoes(callee, <<>>)

CalleeActs ==
  /\ "client" \in up
  /\ \/ /\ \/ CalleeProgresses \/ CalleeAnswers \/ CalleeDeclines
           \/ CalleeRepeatsAnswer \/ CalleeHangsUp
        /\ UNCHANGED toCallee
     \/ CalleeTakes
  /\ UNCHANGED <<serverVars, client, clientReq, clientKnown, bridged, up, fromCaller, caller>>

-----------------------------------------------------------------------------
Next == GatewayServes \/ GatewayRelays \/ CallerActs \/ CalleeActs \/ SessionCloses

Spec == Init /\ [][Next]_vars

\* The container hands every message of an open session to a thread, the
\* agents read their sockets, and the callee answers or declines in the end.
\* Dialling, cancelling, hanging up and closing a session are free choices.
Fairness ==
  /\ WF_vars(GatewayServes) /\ WF_vars(GatewayRelays)
  /\ WF_vars(CallerActs /\ toCaller' # toCaller)
  /\ WF_vars(CalleeActs /\ toCallee' # toCallee)
  /\ WF_vars(CalleeActs /\ callee = "alerting" /\ callee' # "alerting")

FairSpec == Spec /\ Fairness

-----------------------------------------------------------------------------
TypeOK ==
  /\ server \in HandlerState /\ serverReq \in Method /\ serverKnown \in BOOLEAN
  /\ client \in HandlerState /\ clientReq \in Method /\ clientKnown \in BOOLEAN
  /\ bridged \in BOOLEAN
  /\ up \subseteq Legs
  /\ toCaller \in Seq(Message) /\ fromCaller \in Seq(Message)
  /\ toCallee \in Seq(Message) /\ fromCallee \in Seq(Message)
  /\ caller \in CallerState /\ callee \in CalleeState

\* No callee is left talking to a caller that has hung up, whatever BYE, CANCEL,
\* answers and rejections cross, but in two ways, both of which give up the client
\* leg before the BYE could be passed on: a CANCEL that the server leg took after
\* the answer (the guard of onCancel(request) does not refuse it), and a 2xx that
\* the callee repeated (onOk() in CALLING).
InTransit == toCaller \o fromCaller \o toCallee \o fromCallee
Abandoned == /\ callee = "talking" /\ caller \in {"hungup", "ended"}
             /\ up = Legs /\ InTransit = <<>>
NoOrphanCallee ==
  Abandoned => serverReq = "CANCEL" \/ (Retransmits /\ client = "FINISH")

\* A caller whose INVITE was routed and is still unanswered has a live client
\* leg, in the same phase and reachable by Call-ID: the gateway never forgets
\* the callee while the caller hears it ring (route, onRinging, onReject).
CallerWaitsOnLiveLeg ==
  server \in Waiting /\ bridged => client = server /\ clientKnown

\* Responses are dispatched by Call-ID alone, so a 2xx to CANCEL or BYE reaches
\* the same onOk() as an answer: still no caller is told that the call is
\* answered unless the callee answered it.
Answered == callee \in {"answered", "talking", "hungup", "ended"}
InviteOk(m) == m.method = "INVITE" /\ IsOk(m.code)
InFlight(wire) == {wire[i] : i \in 1..Len(wire)}
HasInviteOk(wire) == \E m \in InFlight(wire) : InviteOk(m)
NoPhantomAnswer == caller = "talking" \/ HasInviteOk(toCaller) => Answered

\* The caller's INVITE gets at most one final response: whatever onReject(),
\* onBye(request) in a wrong state and onOk() send for the request the handler
\* holds at that moment, none of it reaches the INVITE a second time.
FinalResponses == {i \in 1..Len(toCaller) :
                     toCaller[i].method = "INVITE" /\ toCaller[i].code >= 200}
OneFinalResponse ==
  /\ \A i, j \in FinalResponses : i = j
  /\ FinalResponses # {} => caller \in {"calling", "proceeding", "cancelling"}

\* The gateway hangs up on a callee (BYE) only when that callee has answered.
ByeOnlyAfterAnswer == Req("BYE") \in InFlight(toCallee) => Answered

\* messageHandlerList holds a server handler exactly until it is over, and no
\* client handler that is over.  A client handler that is out of it is over, too,
\* unless the CANCEL of the caller has revived it (onCancel() of the client leg
\* does not look at the state): no response will reach it any more.
Revived == client = "CANCELING" /\ serverReq = "CANCEL"
RegistryMatchesState ==
  /\ serverKnown <=> server \notin {"NONE", "FINISH"}
  /\ clientKnown => client \notin {"NONE", "FINISH"}
  /\ ~clientKnown => client \in {"NONE", "FINISH"} \/ Revived

-----------------------------------------------------------------------------
\* The handlers' states, seen as phases of the two legs.
PhaseOf(state) ==
  CASE state = "NONE" -> "none"
    [] state = "TRYING" -> "offered"
    [] state = "RINGING" -> "alerting"
    [] state \in {"OK", "CALLING"} -> "connected"
    [] OTHER -> "released"

Abstract == INSTANCE TwoLegs
              WITH inbound <- PhaseOf(server), outbound <- PhaseOf(client)

\* The two handlers implement the back-to-back user agent: they alert and
\* connect in the same step, a caller that is released leaves no callee
\* behind, an unanswered caller is never left without its callee, and a
\* released leg never comes back (a late CANCEL revives only the state of a
\* finished client handler, which stays released).
LegsInLockStep == Abstract!Spec

-----------------------------------------------------------------------------
\* A caller whose INVITE was routed learns the outcome (or has cancelled):
\* the answer or rejection of the callee is relayed by onOk() or onReject().
RoutedCallSettles ==
  (bridged /\ caller \in {"calling", "proceeding"})
    ~> caller \notin {"calling", "proceeding"}

\* A hang-up of either party that has been passed on, so that both legs are in
\* BYE, ends the call for both user agents, also when the two BYEs cross or meet
\* a repeated 2xx (onBye(), onBye(request)).
HangupEndsBothParties ==
  (server = "BYE" /\ client = "BYE") ~> caller = "ended" /\ callee = "ended"

\* A cancelled call finishes its client leg, whether the CANCEL reaches the
\* callee before or after it answered or declined (onCancel(), onOk()), unless
\* a repeated 2xx had taken the leg out of messageHandlerList before.
CancelFinishesClientLeg ==
  (server = "CANCELING" /\ bridged /\ clientKnown) ~> client = "FINISH"

\* resources/sipCancel.txt: a caller that cancels gets 200 for the CANCEL and
\* then a final response for its INVITE, "487 Request Terminated".
CancelledInviteIsAnswered == caller = "cancelling" ~> caller # "cancelling"

\* onCancel(request) means to refuse, with 400, a CANCEL that comes when the
\* leg is neither TRYING nor RINGING (an answered call is ended by BYE).
CancelOnlyWhileUnanswered ==
  [][server' = "CANCELING" => server \in Waiting \cup {"CANCELING"}]_vars

=============================================================================
