----------------------------- MODULE CallPages -----------------------------
(***************************************************************************)
(* The gateway of Call between two pages of its own client instead of two  *)
(* user agents of RFC 3261: the page that dials (caller) and the page that *)
(* is called (callee), each with its user, its browser and its timers.     *)
(* The pages cancel without waiting for a provisional response, answer     *)
(* through three callbacks of the browser, and do not acknowledge a 200    *)
(* that crosses their CANCEL.                                              *)
(*                                                                         *)
(* caller and callee hold the calls of the pages.  Each page has this call *)
(* only, and its sessions stay open; the controller is left out: a user    *)
(* may click as long as a button could be shown.                           *)
(***************************************************************************)
EXTENDS Call, Page

CONSTANT Media    \* whether localAudioVideoMediaStream may be set, may be undefined

ASSUME MediaAssumption == Media \subseteq BOOLEAN

VARIABLE offered  \* whether the callee has not used the accept and reject buttons

pagesVars == <<vars, offered>>
gatewayVars == <<server, serverReq, serverKnown, client, clientReq, clientKnown, bridged, up>>

PagesInit ==
  /\ server = "NONE" /\ serverReq = "INVITE" /\ serverKnown = FALSE
  /\ client = "NONE" /\ clientReq = "OWN" /\ clientKnown = FALSE
  /\ bridged = FALSE
  /\ up = Legs
  /\ toCaller = <<>> /\ fromCaller = <<>> /\ toCallee = <<>> /\ fromCallee = <<>>
  /\ caller = NoCallYet /\ callee = NoCallYet
  /\ offered = TRUE

-----------------------------------------------------------------------------
\* What a page makes of a message.  A BYE no connector takes is ignored while
\* its dialog lingers and answered 481 after that.
Hears(call, m) ==
  LET w == Work(call, FALSE)
  IN IF call.dir = "none" THEN {IF m = Request("INVITE") THEN Ring(FALSE) ELSE w}
     ELSE IF m = Request("BYE") /\ call.sip \notin Opened
     THEN {w, Send(w, Response(481, "BYE"))}
     ELSE IF LateAnswer(call, m)
     THEN {w, InvitingResponse(w, m.code)}
     ELSE {Receive(w, m)}

OnCaller(w, rest) ==
  /\ caller' = w.call /\ toCaller' = rest /\ fromCaller' = fromCaller \o w.out
  /\ UNCHANGED <<gatewayVars, toCallee, fromCallee, callee>>

OnCallee(w, rest) ==
  /\ callee' = w.call /\ toCallee' = rest /\ fromCallee' = fromCallee \o w.out
  /\ UNCHANGED <<gatewayVars, toCaller, fromCaller, caller>>

CallerDoesNow(w) == OnCaller(w, toCaller) /\ UNCHANGED offered
CalleeDoesNow(w) == OnCallee(w, toCallee) /\ UNCHANGED offered

UserDials ==
  /\ caller.dir = "none"
  /\ \E media \in Media : CallerDoesNow(Dial(FALSE, media))

\* The accept and reject buttons; a hang-up by the other party hides them a
\* moment later, here a click may still come at any time.
UserAnswers ==
  /\ callee.dir = "in" /\ offered
  /\ \/ \E media \in Media : OnCallee(Accept(Work(callee, FALSE), media), toCallee)
     \/ OnCallee(Reject(Work(callee, FALSE)), toCallee)
  /\ offered' = FALSE

\* The end button, and a failed ICE once both descriptions are set.
MayEnd(call) ==
  \/ call.dir = "out"
  \/ call.peer # "none"
Ends ==
  \/ MayEnd(caller) /\ CallerDoesNow(Close(Work(caller, FALSE)))
  \/ MayEnd(callee) /\ CalleeDoesNow(Close(Work(callee, FALSE)))

\* The event loop of a page: the callbacks of its browser and its timers.
Loop(call) ==
  LET w == Work(call, FALSE)
  IN (IF call.task # "none" THEN {TaskDone(w), TaskFailed(w)} ELSE {})
     \cup (IF call.stats = "asked" THEN {StatsGiven(w), StatsFailed(w)} ELSE {})
     \cup (IF CanTimeout(call) THEN {Timeout(w)} ELSE {})

PagesLoop ==
  \/ \E w \in Loop(caller) : CallerDoesNow(w)
  \/ \E w \in Loop(callee) : CalleeDoesNow(w)

PagesTake ==
  /\ \/ /\ toCaller # <<>>
        /\ \E w \in Hears(caller, Head(toCaller)) : OnCaller(w, Tail(toCaller))
     \/ /\ toCallee # <<>>
        /\ \E w \in Hears(callee, Head(toCallee)) : OnCallee(w, Tail(toCallee))
  /\ UNCHANGED offered

GatewayActs == (GatewayServes \/ GatewayRelays) /\ UNCHANGED offered

PagesNext == UserDials \/ UserAnswers \/ Ends \/ PagesLoop \/ PagesTake \/ GatewayActs

PagesSpec == PagesInit /\ [][PagesNext]_pagesVars

\* The browsers call back, the timers expire, the WebSockets deliver and the
\* gateway serves; nobody has to click and no connection has to fail.
PagesFairSpec == PagesSpec /\ WF_pagesVars(PagesLoop \/ PagesTake \/ GatewayActs)

-----------------------------------------------------------------------------
PagesTypeOK ==
  /\ caller \in CallRecord /\ caller.dir # "in" /\ caller.sip \notin Incoming
  /\ callee \in CallRecord /\ callee.dir # "out" /\ callee.sip \in Incoming \cup {"NONE"}
  /\ server \in HandlerState /\ client \in HandlerState
  /\ offered \in BOOLEAN

\* The caller's page shows an opened call only when the callee's user has
\* accepted it: no 200 to a CANCEL or a BYE, which the gateway dispatches by
\* Call-ID alone, is ever taken for the answer.
OpenedMeansAccepted ==
  caller.sip = "INVITING_ACCEPTED"
    => callee.sip \in {"INVITED_ACCEPTED", "INVITED_LOCAL_HANGINGUP"} \/ callee.stats # "unasked"

\* Once the callee's page has answered, declined or given up the call, the
\* caller's page does not go on calling.
OutcomeReachesCaller ==
  (callee.dir = "in" /\ callee.sip # "INVITED_INITIAL") ~> caller.sip # "INVITING"

\* A hang-up reaches the other page.  The callee's needs the caller's ACK to
\* have arrived before it: the gateway passes it on in CALLING only.
HangupReachesPeer ==
  /\ caller.sip = "INVITING_LOCAL_HANGINGUP" ~> callee.sip # "INVITED_ACCEPTED"
  /\ (callee.sip = "INVITED_LOCAL_HANGINGUP" /\ client = "CALLING" /\ server = "CALLING")
       ~> caller.sip # "INVITING_ACCEPTED"

\* A cancelled call stops ringing at the callee, also when the CANCEL
\* overtakes the provisional responses.
CancelStopsRinging ==
  caller.sip = "INVITING_CANCELLING" ~> callee.sip # "INVITED_INITIAL"
=============================================================================
