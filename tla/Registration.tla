---------------------------- MODULE Registration ----------------------------
(***************************************************************************)
(* Registration of the browser pages: the registrar of the gateway         *)
(* (RegisterServerMessageHandler, ExtensionBuilder, Extension), the        *)
(* WebSocket sessions, and in every page the connector of WebRTComm.js,    *)
(* which registers, refreshes, unregisters and tries again on a timeout.   *)
(*                                                                         *)
(* A page makes one connector and one session each time it connects, so a  *)
(* session stands for both.  Several may belong to one extension: two      *)
(* tabs, or a page that was loaded again.  As deployed, the gateway has    *)
(* WebSocket sessions and local extensions only, no UDP and no trunks.     *)
(***************************************************************************)
EXTENDS Naturals, Sequences

CONSTANTS
  Sessions,     \* the sessions a page may open, each of them once
  Extensions,   \* localExtensionList: the extensions created at start-up
  ExtensionOf,  \* the extension the page of a session names in its Contact
  MayClose,     \* the sessions that the network or the user may close
  Racing,       \* whether a timeout may come while the answer is on its way
  MaxCallId,    \* bound on Call-IDs
  MaxSkip,      \* bound on how far the next Call-ID of a page is from its last
  LastChoice    \* bound: with a later Call-ID a page only retries

ASSUME ExtensionAssumption == ExtensionOf \in [Sessions -> STRING]
ASSUME MayCloseAssumption == MayClose \subseteq Sessions
ASSUME RacingAssumption == Racing \in BOOLEAN
ASSUME BoundsAssumption == MaxCallId \in Nat /\ MaxSkip \in Nat /\ LastChoice \in Nat

NoSession == "none"
ASSUME NoSessionAssumption == NoSession \notin Sessions

CallIds == 1..MaxCallId

VARIABLES
  session,      \* Extension.session, by extension
  registered,   \* whether an extension's registerTime is set
  known,        \* the Call-IDs that messageHandlerList has a handler for
  socket,       \* the state of each WebSocket: closed for the page, then gone
  toGateway,    \* the Call-IDs of the REGISTERs in flight, oldest first
  toPage,       \* the responses in flight, oldest first
  state,        \* the connector's sipRegisterState
  opened,       \* its openedFlag: the page is told that it is online
  closing,      \* its sipUnregisterPendingFlag
  request,      \* the Call-ID of its jainSipRegisterRequest, 0 if undefined
  waiting,      \* whether the transaction of that request is still running
  now           \* the page's clock, as far as Call-IDs show it

gateway == <<session, registered, known>>
connector == <<state, opened, closing, request, waiting, now>>
vars == <<gateway, socket, toGateway, toPage, connector>>

\* The states SIP_..._STATE.  The two 401 states are left out: the gateway
\* asks for credentials only if isRegister() is false, and it never is once
\* onTrying() has stored the session.
RegisterState == {"UNREGISTERED", "REGISTERING", "REGISTERED", "REFRESHING", "UNREGISTERING"}
Transient == {"REGISTERING", "REFRESHING", "UNREGISTERING"}
Response == [code : {100, 200, 403}, callId : CallIds]

Init ==
  /\ session = [e \in Extensions |-> NoSession]
  /\ registered = [e \in Extensions |-> FALSE]
  /\ known = {}
  /\ socket = [s \in Sessions |-> "idle"]
  /\ toGateway = [s \in Sessions |-> <<>>]
  /\ toPage = [s \in Sessions |-> <<>>]
  /\ state = [s \in Sessions |-> "UNREGISTERED"]
  /\ opened = [s \in Sessions |-> FALSE]
  /\ closing = [s \in Sessions |-> FALSE]
  /\ request = [s \in Sessions |-> 0]
  /\ waiting = [s \in Sessions |-> FALSE]
  /\ now = [s \in Sessions |-> 0]

-----------------------------------------------------------------------------
(* The gateway. *)

\* The time since registerTime is not modelled: it decides only for an
\* extension without a session, and such a one has no registerTime either
\* (NothingIsDue).
IsRegister(e) == session[e] # NoSession \/ registered[e]

\* processOptionsExtension() sends OPTIONS to these; the REGISTER tasks send
\* to trunks, of which there are none.
DueForOptions(e) == session[e] = NoSession /\ IsRegister(e)

\* sendSipMessage: what is sent on a closed session is lost.
Answer(s, codes, callId) ==
  toPage' = IF socket[s] = "open"
            THEN [toPage EXCEPT ![s] =
                    @ \o [i \in 1..Len(codes) |-> [code |-> codes[i], callId |-> callId]]]
            ELSE toPage

\* A thread takes the next message of a session, also one that the page sent
\* just before the session closed.
Takes(s) ==
  /\ toGateway[s] # <<>>
  /\ toGateway' = [toGateway EXCEPT ![s] = Tail(@)]
  /\ UNCHANGED <<socket, connector>>

\* findHandler(), before addHandler(): handlers of answered REGISTERs stay.
HasHandler(callId) == callId \in known

\* processRequest: a REGISTER whose Call-ID has a handler is not answered.
IgnoreRegister(s) ==
  /\ Takes(s)
  /\ HasHandler(Head(toGateway[s]))
  /\ UNCHANGED <<gateway, toPage>>

\* getExtension(): the Contact names an extension of localExtensionList.  Its
\* expires and keepAlive() play no part once there is a session.
IsLocal(s) == ExtensionOf[s] \in Extensions

\* setSession() and keepRegistered(), and the handler that onFinish() leaves
\* in the registry.
Bind(s) ==
  /\ session' = [session EXCEPT ![ExtensionOf[s]] = s]
  /\ registered' = [registered EXCEPT ![ExtensionOf[s]] = TRUE]
  /\ known' = known \cup {Head(toGateway[s])}

\* The Contact names no local extension: 403, and onFinishImmediately().
ForbidRegister(s) ==
  /\ Takes(s)
  /\ ~HasHandler(Head(toGateway[s])) /\ ~IsLocal(s)
  /\ Answer(s, <<403>>, Head(toGateway[s]))
  /\ UNCHANGED gateway

\* Mutant: isRegister() is asked before the session is stored, so the first
\* REGISTER of an extension is asked for credentials.
AcceptRegisterAsking(s) ==
  /\ Takes(s)
  /\ ~HasHandler(Head(toGateway[s])) /\ IsLocal(s)
  /\ session' = [session EXCEPT ![ExtensionOf[s]] = s]
  /\ registered' = [registered EXCEPT ![ExtensionOf[s]] = IsRegister(ExtensionOf[s])]
  /\ known' = known \cup {Head(toGateway[s])}
  /\ Answer(s, <<100, IF IsRegister(ExtensionOf[s]) THEN 200 ELSE 401>>, Head(toGateway[s]))

\* The session is stored before isRegister() is asked, so the answer is 200
\* (Contact of WebRTComm.js has no expires, and Expires is not read: to
\* unregister is the same).
AcceptRegister(s) ==
  /\ Takes(s)
  /\ ~HasHandler(Head(toGateway[s])) /\ IsLocal(s)
  /\ Bind(s)
  /\ Answer(s, <<100, 200>>, Head(toGateway[s]))

\* Mutant: onClose() clears the extension's session, as it sets out to.
RemoveSessionForReal(s) ==
  /\ session' = IF IsLocal(s)
                THEN [session EXCEPT ![ExtensionOf[s]] = NoSession]
                ELSE session
  /\ UNCHANGED <<registered, known>>

\* removeSession(): the extension is looked up under "EXTENSION", a key that
\* setSession() does not use, and setSession(null) would do nothing anyway.
RemoveSession(s) == UNCHANGED gateway

\* onClose(), when the gateway has read what came before the close.
OnClose(s) ==
  /\ socket[s] = "closed" /\ toGateway[s] = <<>>
  /\ socket' = [socket EXCEPT ![s] = "gone"]
  /\ RemoveSession(s)
  /\ UNCHANGED <<toGateway, toPage, connector>>

GatewayServes(s) == IgnoreRegister(s) \/ ForbidRegister(s) \/ AcceptRegister(s) \/ OnClose(s)

-----------------------------------------------------------------------------
(* The connector of a page (PrivateJainSipClientConnector). *)

\* sendNewSipRegisterRequest(): the Call-ID is the time in milliseconds, so
\* it grows within a page, but two pages may use the same.
SendRegister(s) ==
  \E callId \in CallIds :
    /\ callId \in now[s] + 1 .. now[s] + MaxSkip
    /\ now' = [now EXCEPT ![s] = callId]
    /\ request' = [request EXCEPT ![s] = callId]
    /\ waiting' = [waiting EXCEPT ![s] = TRUE]
    /\ toGateway' = [toGateway EXCEPT ![s] = Append(@, callId)]

\* resetSipRegisterContext(), and reset(), which also puts the page offline.
Reset(s) ==
  /\ state' = [state EXCEPT ![s] = "UNREGISTERED"]
  /\ opened' = [opened EXCEPT ![s] = FALSE]
  /\ closing' = [closing EXCEPT ![s] = FALSE]
  /\ request' = [request EXCEPT ![s] = 0]
  /\ waiting' = [waiting EXCEPT ![s] = FALSE]
  /\ UNCHANGED now

Become(s, registerState) == state' = [state EXCEPT ![s] = registerState]

\* open() and processConnected().
Open(s) ==
  /\ socket[s] = "idle"
  /\ socket' = [socket EXCEPT ![s] = "open"]
  /\ Become(s, "REGISTERING")
  /\ SendRegister(s)
  /\ UNCHANGED <<gateway, toPage, opened, closing>>

\* onSipRegisterTimeout(): the timer of 3550 s.
Refresh(s) ==
  /\ state[s] = "REGISTERED" /\ now[s] < LastChoice
  /\ Become(s, "REFRESHING")
  /\ SendRegister(s)
  /\ UNCHANGED <<gateway, socket, toPage, opened, closing>>

\* Mutant: close() during a refresh is forgotten.
CloseForgotten(s) ==
  /\ opened[s] /\ now[s] < LastChoice
  /\ UNCHANGED <<gateway, socket, toPage, opened>>
  /\ \/ /\ state[s] = "REGISTERED"
        /\ closing' = [closing EXCEPT ![s] = FALSE]
        /\ Become(s, "UNREGISTERING")
        /\ SendRegister(s)
     \/ /\ state[s] # "REGISTERED"
        /\ closing' = [closing EXCEPT ![s] = TRUE]
        /\ Become(s, "REGISTERED")
        /\ UNCHANGED <<request, waiting, now, toGateway>>

\* close(): unregister, or note that it has to be done.
Close(s) ==
  /\ opened[s] /\ now[s] < LastChoice
  /\ UNCHANGED <<gateway, socket, toPage, opened>>
  /\ \/ /\ state[s] = "REGISTERED"
        /\ closing' = [closing EXCEPT ![s] = FALSE]
        /\ Become(s, "UNREGISTERING")
        /\ SendRegister(s)
     \/ /\ state[s] # "REGISTERED"
        /\ closing' = [closing EXCEPT ![s] = TRUE]
        /\ UNCHANGED <<state, request, waiting, now, toGateway>>

\* Mutant: only the first REGISTER is tried again.
RetryFirst(s) ==
  IF state[s] = "REGISTERING"
  THEN SendRegister(s)
  ELSE waiting' = [waiting EXCEPT ![s] = FALSE] /\ UNCHANGED <<request, now, toGateway>>

\* Mutant: the same REGISTER is sent again.
RetrySame(s) ==
  /\ toGateway' = [toGateway EXCEPT ![s] = Append(@, request[s])]
  /\ UNCHANGED <<request, waiting, now>>

\* processTimeout(): a new REGISTER, in whatever state the connector is.
Retry(s) == SendRegister(s)

\* The request has been lost to a handler of the same Call-ID: neither it nor
\* its answer is on the way.
Unanswered(s) ==
  /\ \A i \in 1..Len(toGateway[s]) : toGateway[s][i] # request[s]
  /\ \A i \in 1..Len(toPage[s]) : toPage[s][i].callId # request[s]

\* 32 s have passed since the request or its 100.
Timeout(s) ==
  /\ waiting[s]
  /\ Racing \/ Unanswered(s)
  /\ Retry(s)
  /\ UNCHANGED <<gateway, socket, toPage, state, opened, closing>>

\* A final response ends the transaction it belongs to.
Answered(s, m) == waiting' = [waiting EXCEPT ![s] = @ /\ (m.code = 100 \/ m.callId # request[s])]
Ignore(s, m) == Answered(s, m) /\ UNCHANGED <<state, opened, closing, request, now, toGateway>>

\* processSipRegisterResponse() in REGISTERING or REFRESHING: the page is
\* online, and unregisters at once if close() has been called meanwhile.
Confirmed(s, m) ==
  /\ opened' = [opened EXCEPT ![s] = TRUE]
  /\ closing' = [closing EXCEPT ![s] = FALSE]
  /\ \/ /\ closing[s]
        /\ Become(s, "UNREGISTERING")
        /\ SendRegister(s)
     \/ /\ ~closing[s]
        /\ Become(s, "REGISTERED")
        /\ Answered(s, m)
        /\ UNCHANGED <<request, now, toGateway>>

\* processSipRegisterResponse() looks at the state and the code, not at which
\* request the response answers.
Receive(s) ==
  /\ toPage[s] # <<>>
  /\ toPage' = [toPage EXCEPT ![s] = Tail(@)]
  /\ UNCHANGED <<gateway, socket>>
  /\ LET m == Head(toPage[s]) IN
       \/ m.code = 100 /\ Ignore(s, m)
       \/ m.code # 100 /\ state[s] \in {"UNREGISTERED", "REGISTERED"} /\ Ignore(s, m)
       \/ m.code # 100 /\ state[s] = "UNREGISTERING" /\ Reset(s) /\ UNCHANGED toGateway
       \/ m.code = 200 /\ state[s] \in {"REGISTERING", "REFRESHING"} /\ Confirmed(s, m)
       \/ m.code = 403 /\ state[s] \in {"REGISTERING", "REFRESHING"} /\ Reset(s) /\ UNCHANGED toGateway

\* The session closes: the page resets (processDisconnected()), what is on its
\* way to it is lost, and of what it has sent a part still arrives.
SessionCloses(s) ==
  /\ socket[s] = "open" /\ s \in MayClose
  /\ socket' = [socket EXCEPT ![s] = "closed"]
  /\ Reset(s)
  /\ toPage' = [toPage EXCEPT ![s] = <<>>]
  /\ \E n \in 0..Len(toGateway[s]) :
       toGateway' = [toGateway EXCEPT ![s] = SubSeq(@, 1, n)]
  /\ UNCHANGED gateway

PageActs(s) == Open(s) \/ Refresh(s) \/ Close(s) \/ Timeout(s) \/ Receive(s)

-----------------------------------------------------------------------------
Next == \E s \in Sessions : GatewayServes(s) \/ PageActs(s) \/ SessionCloses(s)

Spec == Init /\ [][Next]_vars

\* The container hands every message to a thread, the page reads its socket,
\* and the timer of a transaction runs out.  What the user does is free.
Fairness == \A s \in Sessions :
  WF_vars(GatewayServes(s)) /\ WF_vars(Receive(s)) /\ WF_vars(Timeout(s))

FairSpec == Spec /\ Fairness

-----------------------------------------------------------------------------
TypeOK ==
  /\ session \in [Extensions -> Sessions \cup {NoSession}]
  /\ registered \in [Extensions -> BOOLEAN]
  /\ known \subseteq CallIds
  /\ socket \in [Sessions -> {"idle", "open", "closed", "gone"}]
  /\ toGateway \in [Sessions -> Seq(CallIds)]
  /\ toPage \in [Sessions -> Seq(Response)]
  /\ state \in [Sessions -> RegisterState]
  /\ opened \in [Sessions -> BOOLEAN] /\ closing \in [Sessions -> BOOLEAN]
  /\ request \in [Sessions -> CallIds \cup {0}]
  /\ waiting \in [Sessions -> BOOLEAN]
  /\ now \in [Sessions -> CallIds \cup {0}]

\* A page that is told it is online is the one a call of its extension goes to,
\* and its session is open, unless another page of the extension has taken the
\* extension over: every REGISTER binds it, also one to unregister, and that page
\* may have closed since, when nobody can be called.  Nothing else unbinds an
\* online page, however sessions open, close and answer across each other
\* (setSession, onClose and the openedFlag of the connector).
CanBeCalled(s) == session[ExtensionOf[s]] = s /\ socket[s] = "open"
TakenOver(s) == \E t \in Sessions \ {s} :
  ExtensionOf[t] = ExtensionOf[s] /\ session[ExtensionOf[s]] = t /\ socket[t] # "idle"
OnlineMeansBound == \A s \in Sessions :
  opened[s] => ExtensionOf[s] \in Extensions /\ (CanBeCalled(s) \/ TakenOver(s))

\* The periodic tasks have nobody to send to, and registerTime never decides:
\* no extension is registered without a session (processOptionsExtension would
\* send to it over the UDP transport, which does not exist).
NothingIsDue == \A e \in Extensions : ~DueForOptions(e)

\* A connector that is in between two states, its answer lost to a Call-ID
\* used twice or not, still has a timer running: it cannot hang.
NeverStuck == \A s \in Sessions : state[s] \in Transient => waiting[s]

-----------------------------------------------------------------------------
\* A page of a local extension that connects comes online in the end, also
\* when its Call-ID was taken (processRequest ignores it, processTimeout
\* tries again).
ConnectsInTheEnd == \A s \in Sessions :
  (state[s] = "REGISTERING" /\ ExtensionOf[s] \in Extensions) ~> opened[s]

\* A page that closes is offline in the end, also when it closes in the middle
\* of a refresh or its last REGISTER goes unanswered.
ClosesInTheEnd == \A s \in Sessions :
  (opened[s] /\ (closing[s] \/ state[s] = "UNREGISTERING")) ~> ~opened[s]

=============================================================================
