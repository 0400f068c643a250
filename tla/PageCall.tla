------------------------------ MODULE PageCall ------------------------------
(***************************************************************************)
(* The calls of one page: the user who clicks, the controller that points  *)
(* at one call, the static flag onCall, the browser's callbacks and        *)
(* timers, and the gateway at the other end of the WebSocket.  JavaScript  *)
(* runs a callback to its end, so one callback is one step.                *)
(*                                                                         *)
(* The gateway takes what the page sends at once: for the page that is     *)
(* the same as any delay, since all it sees is the wire towards it, on     *)
(* which whatever the gateway sent before may still be.                    *)
(***************************************************************************)
EXTENDS Page, Sequences

CONSTANTS
  Calls,        \* the calls a page may have, dialled or incoming
  NoCall,       \* what the controller points at when webRTCommCall is undefined
  Media         \* whether localAudioVideoMediaStream may be set, may be undefined

ASSUME NoCallAssumption == NoCall \notin Calls
ASSUME MediaAssumption == Media \subseteq BOOLEAN

VARIABLES
  call,      \* the calls
  onCall,    \* WebRTCommCall.onCall
  pending,   \* the setTimeout(1) callbacks that have not run, oldest first
  pointer,   \* webRTCommCall of the controller
  offered,   \* the calls whose accept and reject buttons are shown
  gateway,   \* what the gateway's handler of each call waits for
  wire       \* what the gateway has sent the page, per call

vars == <<call, onCall, pending, pointer, offered, gateway, wire>>

GatewayState == {"none", "serving", "ringing", "answered", "up", "closing",
                 "offering", "cancelling", "gone"}

Init ==
  /\ call = [c \in Calls |-> NoCallYet]
  /\ onCall = FALSE
  /\ pending = <<>>
  /\ pointer = NoCall
  /\ offered = {}
  /\ gateway = [c \in Calls |-> "none"]
  /\ wire = [c \in Calls |-> <<>>]

-----------------------------------------------------------------------------
(* The gateway, as Call has it. *)

Outcome(state, sent) == [state |-> state, sent |-> sent]

\* A BYE that crosses the gateway's own is answered with a 400 that cites a
\* request of the gateway.
GatewayTakes(g, m) ==
  CASE m = Request("INVITE") ->
         {Outcome("serving", <<Response(100, "INVITE")>>),
          Outcome("gone", <<Response(403, "INVITE")>>), Outcome("gone", <<>>)}
    [] m = Request("ACK") /\ g = "answered" -> {Outcome("up", <<>>)}
    [] m = Request("BYE") /\ g = "up" -> {Outcome("gone", <<Response(200, "BYE")>>)}
    [] m = Request("BYE") /\ g = "closing" -> {Outcome("closing", <<Response(400, "OWN")>>)}
    [] m = Request("CANCEL") /\ g # "gone" ->
         {Outcome("gone", <<Response(200, "CANCEL")>>)}
    [] IsAnswer(m) /\ m.code = 200 /\ g = "offering" ->
         {Outcome("up", <<Request("ACK")>>)}
    [] IsAnswer(m) /\ m.code = 200 /\ g = "cancelling" ->
         {Outcome("gone", <<Request("ACK")>>)}
    [] IsAnswer(m) /\ (\/ m.code >= 200 /\ g = "closing"
                       \/ m.code > 200 /\ g \in {"offering", "cancelling"}) ->
         {Outcome("gone", <<>>)}
    [] OTHER -> {Outcome(g, <<>>)}

\* Every outcome goes on with what m makes of it.
Further(outcomes, m) ==
  UNION {{Outcome(t.state, o.sent \o t.sent) : t \in GatewayTakes(o.state, m)} : o \in outcomes}

\* The gateway takes the messages of out in their order.
Delivered(g, out) ==
  LET after[n \in 0..Len(out)] ==
        IF n = 0 THEN {Outcome(g, <<>>)} ELSE Further(after[n - 1], out[n])
  IN  after[Len(out)]

GatewaySends(c, state, m) ==
  /\ gateway' = [gateway EXCEPT ![c] = state]
  /\ wire' = [wire EXCEPT ![c] = Append(@, m)]
  /\ UNCHANGED <<call, onCall, pending, pointer, offered>>

GatewayCalls(c) ==
  /\ gateway[c] = "none" /\ call[c].dir = "none"
  /\ GatewaySends(c, "offering", Request("INVITE"))

GatewayCancels(c) ==
  /\ gateway[c] = "offering"
  /\ GatewaySends(c, "cancelling", Request("CANCEL"))

GatewayRings(c) ==
  /\ gateway[c] = "serving"
  /\ GatewaySends(c, "ringing", Response(180, "INVITE"))

GatewayAnswers(c) ==
  /\ gateway[c] \in {"serving", "ringing"}
  /\ \/ GatewaySends(c, "answered", Response(200, "INVITE"))
     \/ GatewaySends(c, "gone", Response(486, "INVITE"))

GatewayHangsUp(c) ==
  /\ gateway[c] = "up"
  /\ GatewaySends(c, "closing", Request("BYE"))

-----------------------------------------------------------------------------
(* The page. *)

\* The step w of call c, with what is left on its wire.
Does(c, w, rest) ==
  /\ call' = [call EXCEPT ![c] = w.call]
  /\ onCall' = w.onCall
  /\ pending' = pending \o [i \in DOMAIN w.events |-> [event |-> w.events[i], call |-> c]]
  /\ \E o \in Delivered(gateway[c], w.out) :
       /\ gateway' = [gateway EXCEPT ![c] = o.state]
       /\ wire' = [wire EXCEPT ![c] = rest \o o.sent]

At(c) == Work(call[c], onCall)

\* A callback of call c that leaves the controller and its view alone.
Steps(c, w) == Does(c, w, wire[c]) /\ UNCHANGED <<pointer, offered>>

\* onClickCallButton...: only without a current call.
UserDials(c) ==
  /\ pointer = NoCall
  /\ call[c].dir = "none" /\ gateway[c] = "none"
  /\ \E media \in Media :
       /\ Does(c, Dial(onCall, media), wire[c])
       /\ pointer' = IF DialSucceeds(onCall, media) THEN c ELSE pointer
  /\ UNCHANGED offered

\* onClickEndCallButton...: enabled for a dialled and for an opened call.
UserEnds(c) ==
  /\ pointer = c
  /\ call[c].dir = "out" \/ call[c].peer # "none"
  /\ Steps(c, Close(At(c)))

UserAccepts(c) ==
  /\ pointer = c /\ c \in offered
  /\ \E media \in Media : Does(c, Accept(At(c), media), wire[c])
  /\ offered' = offered \ {c}
  /\ UNCHANGED pointer

\* An exception of reject() leaves the pointer.
UserRejects(c) ==
  /\ pointer = c /\ c \in offered
  /\ Does(c, Reject(At(c)), wire[c])
  /\ offered' = offered \ {c}
  /\ pointer' = IF RejectSucceeds(At(c)) THEN NoCall ELSE pointer

BrowserCallsBack(c) ==
  /\ call[c].task # "none"
  /\ Steps(c, TaskDone(At(c))) \/ Steps(c, TaskFailed(At(c)))

StatsCome(c) ==
  /\ call[c].stats = "asked"
  /\ Steps(c, StatsGiven(At(c))) \/ Steps(c, StatsFailed(At(c)))

\* iceConnectionState 'failed', once both descriptions are set.
IceFails(c) ==
  /\ call[c].peer \in {"preparing-answer", "established"}
  /\ Steps(c, Close(At(c)))

TimesOut(c) == CanTimeout(call[c]) /\ Steps(c, Timeout(At(c)))

\* Mutant: the listeners clear the pointer only if it is to their call, but
\* the Closed event of a call that was hung up is ignored.
TimerRunsOpen ==
  /\ pending # <<>>
  /\ pending' = Tail(pending)
  /\ \E t \in {Head(pending)} :
       /\ pointer' = CASE t.event = "Ringing" -> t.call
                       [] t.event = "Closed" -> pointer
                       [] OTHER -> NoCall
       /\ offered' = CASE t.event = "Ringing" -> offered \cup {t.call}
                       [] t.event = "Hangup" -> offered \ {t.call}
                       [] OTHER -> offered
  /\ UNCHANGED <<call, onCall, gateway, wire>>

\* The listeners of the controller: Ringing points at its call, the other
\* three point at none, whichever call they are for.
TimerRuns ==
  /\ pending # <<>>
  /\ pending' = Tail(pending)
  /\ \E t \in {Head(pending)} :
       /\ pointer' = IF t.event = "Ringing" THEN t.call ELSE NoCall
       /\ offered' = CASE t.event = "Ringing" -> offered \cup {t.call}
                       [] t.event = "Hangup" -> offered \ {t.call}
                       [] OTHER -> offered
  /\ UNCHANGED <<call, onCall, gateway, wire>>

Busy == \E d \in Calls : call[d].known     \* clientIsBusy()

\* Mutant: a new INVITE rings, whatever calls there are.
HearsAlways(c, m) == IF call[c].dir = "none" THEN {Ring(onCall)} ELSE {Receive(At(c), m)}

\* An INVITE for a busy page is declined without a call.  A BYE no connector
\* takes is ignored while its dialog lingers and answered 481 after that.
Hears(c, m) ==
  CASE call[c].dir = "none" /\ m = Request("INVITE") /\ Busy ->
         {Send(At(c), Response(480, "INVITE"))}
    [] call[c].dir = "none" /\ m = Request("INVITE") /\ ~Busy -> {Ring(onCall)}
    [] m = Request("BYE") /\ call[c].sip \notin Opened ->
         {At(c), Send(At(c), Response(481, "BYE"))}
    [] LateAnswer(call[c], m) -> {At(c), InvitingResponse(At(c), m.code)}
    [] OTHER -> {Receive(At(c), m)}

PageTakes(c) ==
  /\ wire[c] # <<>>
  /\ \E m \in {Head(wire[c])} : \E w \in Hears(c, m) : Does(c, w, Tail(wire[c]))
  /\ UNCHANGED <<pointer, offered>>

UserActs(c) == UserDials(c) \/ UserEnds(c) \/ UserAccepts(c) \/ UserRejects(c)

GatewayActs(c) ==
  \/ GatewayCalls(c) \/ GatewayCancels(c) \/ GatewayRings(c)
  \/ GatewayAnswers(c) \/ GatewayHangsUp(c)

\* What the event loop of the browser has to run.
LoopRuns(c) == BrowserCallsBack(c) \/ StatsCome(c) \/ PageTakes(c) \/ TimesOut(c)

Next ==
  \/ TimerRuns
  \/ \E c \in Calls : UserActs(c) \/ GatewayActs(c) \/ LoopRuns(c) \/ IceFails(c)

Spec == Init /\ [][Next]_vars

\* The event loop goes on while it has something to run: the browser calls
\* back, timers expire, the WebSocket delivers.  Nothing obliges the user or
\* the other party to act, and no connection has to fail.
Fairness == WF_vars(TimerRuns \/ \E c \in Calls : LoopRuns(c))

FairSpec == Spec /\ Fairness

-----------------------------------------------------------------------------
TypeOK ==
  /\ call \in [Calls -> CallRecord]
  /\ onCall \in BOOLEAN
  /\ \A i \in DOMAIN pending : pending[i] \in [event : Event, call : Calls]
  /\ pointer \in Calls \cup {NoCall}
  /\ offered \subseteq Calls
  /\ gateway \in [Calls -> GatewayState]

Gone(c) == call[c].dir # "none" /\ ~call[c].known /\ call[c].peer = "none"

\* A connector with a SIP state is in sessionConnectors: otherwise what the
\* gateway sends the call, a BYE say, would be ignored, and the call stay open.
Reachable == \A c \in Calls : call[c].sip # "NONE" => call[c].known

\* A SIP call that is up has a peer connection: closing always takes the
\* connector first, whoever of user, gateway, browser and timers starts it.
OpenHasMedia ==
  \A c \in Calls : call[c].sip \in Opened => call[c].peer # "none"

\* No two incoming calls are in sessionConnectors: clientIsBusy() declines the
\* second, in whatever state the first is.
OneIncoming ==
  \A c, d \in Calls :
     call[c].known /\ call[c].sip \in Incoming /\ call[d].known /\ call[d].sip \in Incoming
       => c = d

\* The static flag blocks dialling only while a dialled connector is registered:
\* a call that has left sessionConnectors never leaves it on.  (A dial without
\* media leaves both, the flag and the connector.)
OnCallMeansCall ==
  onCall => \E c \in Calls : call[c].dir = "out" /\ call[c].known

Closing(c) == call[c].stats \in {"asked", "given"} /\ ~Gone(c)
PointsAtGone(c) == pointer = c /\ ~call[c].known /\ call[c].stats # "failed"

\* Whatever starts the end of a call, the user, the other party, a failed ICE
\* or a browser error, no call stays half closed: it leaves sessionConnectors
\* and its peer connection is closed, unless the browser refuses the statistics.
ClosingCompletes == []<>(\A c \in Calls : ~Closing(c))

\* The controller does not go on pointing at a call that has left
\* sessionConnectors, which would make the call button dead.
PointerIsReleased == []<>(\A c \in Calls : ~PointsAtGone(c))
=============================================================================
