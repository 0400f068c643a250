-------------------------------- MODULE Page --------------------------------
(***************************************************************************)
(* What the page does with one of its calls: the SIP half of it            *)
(* (PrivateJainSipCallConnector), the media half (WebRTCommCall) and what  *)
(* jain-sip lets through between them and the WebSocket.  Every handler is *)
(* an operator from the call it works on to the call it leaves.            *)
(*                                                                         *)
(* The 407 branches are left out: the gateway passes a 401 or 407 of the   *)
(* callee over and sends none itself.                                      *)
(***************************************************************************)
EXTENDS Naturals, Sequences

Direction == {"none", "out", "in"}     \* "none": the object does not exist yet

\* sipCallState, without its _STATE; NONE is undefined, after resetSipContext().
SipCallState ==
  {"NONE", "INVITING_INITIAL", "INVITING", "INVITING_ACCEPTED", "INVITING_LOCAL_HANGINGUP",
   "INVITING_CANCELLING", "INVITING_CANCELLED", "INVITING_ERROR", "INVITING_HANGUP",
   "INVITED_INITIAL", "INVITED_ACCEPTED", "INVITED_LOCAL_HANGINGUP", "INVITED_HANGUP",
   "INVITED_CANCELLED"}
Opened == {"INVITING_ACCEPTED", "INVITED_ACCEPTED"}
Incoming == {"INVITED_INITIAL", "INVITED_ACCEPTED", "INVITED_LOCAL_HANGINGUP",
             "INVITED_HANGUP", "INVITED_CANCELLED"}

\* peerConnectionState; "none" is a call without a peerConnection.
PeerState == {"none", "new", "preparing-offer", "offer-sent", "answer-received",
              "offer-received", "preparing-answer", "established"}

\* The browser callback the peer connection waits for: "gather" is
\* setLocalDescription() and the candidate event that ends the gathering.
Task == {"none", "createOffer", "gather", "setRemote", "createAnswer"}

\* "unasked" is statsAlreadyRequested = false: nothing ever makes it false
\* again, the reset in hangup() is done on the wrong "this".
Stats == {"unasked", "asked", "given", "failed"}

\* The INVITE's client transaction, as far as it filters what a page hears.
InviteTransaction == {"unsent", "calling", "proceeding", "over"}

\* The listener events of a call that change the state of the controller.
Event == {"Closed", "OpenError", "Hangup", "Ringing"}

\* Messages as in Call: a request has code 0.
Request(m) == [method |-> m, code |-> 0]
Response(code, m) == [method |-> m, code |-> code]
IsAnswer(m) == m.code # 0

NoCallYet ==
  [dir |-> "none", sip |-> "NONE",
   known |-> FALSE,      \* whether sessionConnectors holds the connector
   linked |-> FALSE,     \* whether the call's connector is defined
   peer |-> "none", task |-> "none", stats |-> "unasked", invite |-> "unsent"]

CallRecord ==
  [dir : Direction, sip : SipCallState, known : BOOLEAN, linked : BOOLEAN,
   peer : PeerState, task : Task, stats : Stats, invite : InviteTransaction]

\* What one step of the page works on: the call, the static flag onCall, the
\* setTimeout() events of the call it starts and the messages it sends.
Work(call, onCall) == [call |-> call, onCall |-> onCall, events |-> <<>>, out |-> <<>>]

Send(w, m) == [w EXCEPT !.out = Append(w.out, m)]
Notify(w, e) == [w EXCEPT !.events = Append(w.events, e)]
InState(w, s) == [w EXCEPT !.call.sip = s]
PeerAt(w, state, task) == [w EXCEPT !.call.peer = state, !.call.task = task]

-----------------------------------------------------------------------------
(* Closing. *)

\* WebRTCommCall.close(true): what is left to do waits for the statistics.
Close(w) ==
  [w EXCEPT !.onCall = FALSE,
            !.call.stats = IF w.call.peer # "none" /\ @ = "unasked" THEN "asked" ELSE @]

\* Mutant: removeSessionConnector() without resetSipContext().
ReleasedKept(w) == [w EXCEPT !.call.known = FALSE]

\* resetSipContext() and removeSessionConnector(), always together.
Released(w) == [w EXCEPT !.call.sip = "NONE", !.call.known = FALSE]

\* onPrivateCallConnectorCallClosedEvent()
ClosedEvent(w) == Close([w EXCEPT !.call.linked = FALSE])

\* PrivateJainSipCallConnector.close().  INVITING_INITIAL has no branch of its
\* own: the code compares with SIP_INITIAL_INVITING_STATE, which is undefined.
ConnectorClose(w) ==
  CASE w.call.sip = "NONE" -> w
    [] w.call.sip = "INVITING" -> InState(Send(w, Request("CANCEL")), "INVITING_CANCELLING")
    [] w.call.sip = "INVITING_ACCEPTED" ->
         ClosedEvent(InState(Send(w, Request("BYE")), "INVITING_LOCAL_HANGINGUP"))
    [] w.call.sip = "INVITED_INITIAL" -> Released(Send(w, Response(480, "INVITE")))
    [] w.call.sip = "INVITED_ACCEPTED" ->
         InState(Send(w, Request("BYE")), "INVITED_LOCAL_HANGINGUP")
    [] OTHER -> ClosedEvent(Released(w))

\* Mutant: the peer connection is closed, the connector is not.
HangupMediaOnly(w) ==
  IF w.call.peer = "none" THEN w
  ELSE Notify(PeerAt(w, "none", "none"), "Closed")

\* WebRTCommCall.hangup(): first the connector, then the peer connection, whose
\* callbacks find it gone from here on.
Hangup(w) ==
  LET closed == IF w.call.linked THEN ConnectorClose(w) ELSE w
  IN IF closed.call.peer = "none" THEN closed
     ELSE Notify(PeerAt(closed, "none", "none"), "Closed")

\* onRtcPeerConnectionErrorEvent()
PeerError(w) == Close(Notify(w, "OpenError"))

\* A final answer the page does not accept, or whose SDP it cannot use.
OpenFailed(w) == ConnectorClose(Notify(w, "OpenError"))

-----------------------------------------------------------------------------
(* The clicks of the user. *)

\* Mutant: the connector is registered only once open() has accepted the call.
DialRegisteredLast(onCall, media) ==
  IF onCall \/ ~media THEN Work([NoCallYet EXCEPT !.dir = "out"], TRUE)
  ELSE Work([NoCallYet EXCEPT !.dir = "out", !.known = TRUE, !.linked = TRUE,
              !.sip = "INVITING_INITIAL", !.peer = "new", !.task = "createOffer"], TRUE)

\* WebRTCommClient.call() registers the connector, then calls open(), which
\* throws if another call is on (before it sets onCall) or if there is no
\* media stream (after): in both cases the connector stays registered.
Dial(onCall, media) ==
  LET registered == [NoCallYet EXCEPT !.dir = "out", !.known = TRUE, !.linked = TRUE]
  IN IF onCall \/ ~media THEN Work(registered, TRUE)
     ELSE Work([registered EXCEPT !.sip = "INVITING_INITIAL", !.peer = "new",
                                  !.task = "createOffer"], TRUE)

\* Whether call() returns the call, or throws.
DialSucceeds(onCall, media) == ~onCall /\ media

\* accept() creates the peer connection, whatever became of the connector.
Accept(w, media) ==
  IF ~media \/ (w.call.linked /\ w.call.sip \in Opened) THEN w
  ELSE PeerAt(w, "offer-received", "setRemote")

\* reject() works on a ringing call; the 480 of its close() finds the server
\* transaction COMPLETED by the 486 and is not sent.
RejectSucceeds(w) == w.call.linked /\ w.call.sip = "INVITED_INITIAL"
Reject(w) ==
  IF RejectSucceeds(w)
  THEN Notify(Released(Send(w, Response(486, "INVITE"))), "Closed")
  ELSE [Hangup(w) EXCEPT !.onCall = FALSE]

-----------------------------------------------------------------------------
(* The callbacks of the browser. *)

\* The description is complete: invite() or accept() of the connector.  Both
\* are called on undefined after a closed event, accept() also after a reset.
Gathered(w) ==
  IF ~w.call.linked \/ (w.call.peer = "preparing-answer" /\ w.call.sip = "NONE")
  THEN PeerError([w EXCEPT !.call.task = "none"])
  ELSE IF w.call.peer = "preparing-offer"
  THEN LET sent == PeerAt(InState(Send(w, Request("INVITE")), "INVITING"), "offer-sent", "none")
       IN [sent EXCEPT !.call.invite = "calling"]
  ELSE PeerAt(InState(Send(w, Response(200, "INVITE")), "INVITED_ACCEPTED"), "established", "none")

TaskDone(w) ==
  CASE w.call.task = "createOffer" ->
         PeerAt(w, "preparing-offer", "gather")
    [] w.call.task = "setRemote" /\ w.call.peer = "answer-received" ->
         PeerAt(w, "established", "none")
    [] w.call.task = "setRemote" /\ w.call.peer # "answer-received" ->
         [w EXCEPT !.call.task = "createAnswer"]
    [] w.call.task = "createAnswer" ->
         PeerAt(w, "preparing-answer", "gather")
    [] OTHER -> Gathered(w)

\* A failed createAnswer() is only logged: the call stays as it is.
TaskFailed(w) ==
  LET idle == [w EXCEPT !.call.task = "none"]
  IN IF w.call.task = "createAnswer" THEN idle ELSE PeerError(idle)

StatsGiven(w) == Hangup([w EXCEPT !.call.stats = "given"])
StatsFailed(w) == [w EXCEPT !.call.stats = "failed"]

-----------------------------------------------------------------------------
(* The messages and timeouts jain-sip hands over. *)

\* A response to an INVITE that is over is dropped; a final one other than a
\* 2xx is acknowledged by the transaction itself.
HeardInvite(w, code) ==
  LET next == [w EXCEPT !.call.invite = IF code < 200 THEN "proceeding" ELSE "over"]
  IN IF code >= 300 THEN Send(next, Request("ACK")) ELSE next

\* processInvitingSipResponseEvent(): a call that is being cancelled is over
\* with any response, and a 2xx among them is not acknowledged.
InvitingResponse(w, code) ==
  CASE w.call.sip = "INVITING" /\ code < 200 -> w
    [] w.call.sip = "INVITING" /\ code = 200 ->
         LET acked == InState(Send(w, Request("ACK")), "INVITING_ACCEPTED")
         IN IF w.call.peer = "none" THEN OpenFailed(acked)
            ELSE PeerAt(acked, "answer-received", "setRemote")
    [] w.call.sip = "INVITING" /\ code > 200 -> OpenFailed(InState(w, "INVITING_ERROR"))
    [] w.call.sip = "INVITING_CANCELLING" -> ConnectorClose(InState(w, "INVITING_CANCELLED"))
    [] w.call.sip = "INVITING_LOCAL_HANGINGUP" -> ConnectorClose(w)
    [] OTHER -> w

\* processInvitedSipResponseEvent()
InvitedResponse(w) ==
  IF w.call.sip = "INVITED_LOCAL_HANGINGUP" THEN ConnectorClose(w) ELSE w

\* processInviting- and processInvitedSipRequestEvent(), after the first INVITE.
HungUpByPeer(w, state) ==
  ConnectorClose(Notify(InState(Send(w, Response(200, "BYE")), state), "Hangup"))
CancelledByPeer(w) ==
  ConnectorClose(Notify(InState(
    Send(Send(w, Response(200, "CANCEL")), Response(487, "INVITE")),
    "INVITED_CANCELLED"), "Hangup"))

LaterRequest(w, m) ==
  CASE m = Request("BYE") /\ w.call.sip = "INVITING_ACCEPTED" ->
         HungUpByPeer(w, "INVITING_HANGUP")
    [] m = Request("BYE") /\ w.call.sip = "INVITED_ACCEPTED" ->
         HungUpByPeer(w, "INVITED_HANGUP")
    [] m = Request("CANCEL") /\ w.call.sip = "INVITED_INITIAL" -> CancelledByPeer(w)
    [] OTHER -> w

\* Mutant: the state of the new connector is misspelt, as in close().
RingMisspelt(onCall) ==
  LET ringing == [NoCallYet EXCEPT !.dir = "in", !.known = TRUE, !.linked = TRUE,
                                   !.sip = "undefined"]
  IN Notify(Send(Work(ringing, onCall), Response(180, "INVITE")), "Ringing")

\* processRequest() of an INVITE for a page that has no call.
Ring(onCall) ==
  LET ringing == [NoCallYet EXCEPT !.dir = "in", !.known = TRUE, !.linked = TRUE,
                                   !.sip = "INVITED_INITIAL"]
  IN Notify(Send(Work(ringing, onCall), Response(180, "INVITE")), "Ringing")

\* A message with the Call-ID of a call: nothing finds a call that has gone.  A
\* response no transaction asked for (OWN) still reaches the connector.
Receive(w, m) ==
  IF IsAnswer(m) /\ m.method = "INVITE"
  THEN LET heard == HeardInvite(w, m.code)
       IN IF w.call.invite \in {"unsent", "over"} THEN w
          ELSE IF w.call.known THEN InvitingResponse(heard, m.code) ELSE heard
  ELSE IF ~w.call.known THEN w
  ELSE IF ~IsAnswer(m) THEN LaterRequest(w, m)
  ELSE IF w.call.dir = "out" THEN InvitingResponse(w, m.code)
  ELSE InvitedResponse(w)

\* A final answer to an INVITE that has timed out is dropped with its transaction,
\* or reaches the connector if a late 180 has removed that one (Transactions).
LateAnswer(call, m) ==
  /\ IsAnswer(m) /\ m.method = "INVITE" /\ m.code >= 200
  /\ call.invite = "over" /\ call.known

\* What runs the timer of a client transaction: an INVITE that was not
\* answered at all, a CANCEL, a BYE.
CanTimeout(call) ==
  \/ call.invite = "calling"
  \/ call.known /\ call.sip \in {"INVITING_CANCELLING", "INVITING_LOCAL_HANGINGUP",
                                 "INVITED_LOCAL_HANGINGUP"}

\* Mutant: the timeout ends the transaction, the connector is not told.
TimeoutUnheard(w) == [w EXCEPT !.call.invite = "over"]

\* onJainSipClientConnectorSipTimeoutEvent(); the transaction is over after it, and
\* with the CANCEL's the INVITE's.
Timeout(w) ==
  LET over == IF w.call.invite = "calling" \/ w.call.sip = "INVITING_CANCELLING"
              THEN [w EXCEPT !.call.invite = "over"] ELSE w
  IN IF over.call.known THEN ConnectorClose(over) ELSE over
=============================================================================
