-------------------------- MODULE CallPagesProofs --------------------------
(***************************************************************************)
(* Proofs about CallPages, for any browser: what the page that dials shows *)
(* of a call is true of the page that is called, through the gateway       *)
(* between them.                                                           *)
(***************************************************************************)
EXTENDS CallPages, CallProofs, PageLemmas

-----------------------------------------------------------------------------
(* The inductive invariant. *)

\* The INVITE of the dialling page is over or given up.  Once true it stays
\* true, and until then the page has sent nothing but its INVITE.
InvitePast(x) == x.invite # "unsent" /\ x.sip # "INVITING"

\* The user of the called page has accepted: stays true as well.
Accepted(x) ==
  x.sip \in {"INVITED_ACCEPTED", "INVITED_LOCAL_HANGINGUP"} \/ x.stats # "unasked"

\* How far the INVITE's transaction and the statistics are along with the call.
Paced(x) ==
  /\ x.sip \notin Incoming \cup {"NONE", "INVITING_INITIAL"} => x.invite # "unsent"
  /\ x.peer \in {"new", "preparing-offer"} => x.invite = "unsent"
  /\ x.dir # "out" => x.invite = "unsent"
  /\ x.sip = "INVITED_LOCAL_HANGINGUP" => x.stats # "unasked"

\* A called page whose user has not touched the buttons.
Resting(x) == x.sip \in {"NONE", "INVITED_INITIAL"} /\ x.peer = "none" /\ x.stats = "unasked"

PagesSound ==
  /\ Sound(caller) /\ Paced(caller) /\ caller.dir # "in"
  /\ Sound(callee) /\ Paced(callee) /\ callee.dir # "out"
  /\ offered \in BOOLEAN
  /\ offered => Resting(callee)
  /\ callee.dir = "none" => offered

\* A 2xx on its way to the dialling page tells of an answer, or comes too late.
Due == Accepted(callee) \/ InvitePast(caller)

ToCallerFits(m) ==
  /\ m # Req("INVITE")
  /\ m.method # "INVITE" => InvitePast(caller)
  /\ IsOk(m.code) => Due
FromCallerFits(m) == m # Req("INVITE") => InvitePast(caller)
ToCalleeFits(m) == m \in {Req("CANCEL"), Req("BYE")} => InvitePast(caller)
FromCalleeFits(m) == IsOk(m.code) => Due

ServerSide ==
  /\ server \in HandlerState /\ serverReq \in Method
  /\ serverReq # "INVITE" \/ server \in {"CALLING", "BYE", "CANCELING"} => InvitePast(caller)
  /\ toCaller \in Seq(Message) /\ \A m \in InFlight(toCaller) : ToCallerFits(m)
ClientSide ==
  /\ client \in HandlerState /\ clientReq \in Method
  /\ toCallee \in Seq(Message) /\ \A m \in InFlight(toCallee) : ToCalleeFits(m)
FromPages ==
  /\ fromCaller \in Seq(Message) /\ \A m \in InFlight(fromCaller) : FromCallerFits(m)
  /\ fromCallee \in Seq(Message) /\ \A m \in InFlight(fromCallee) : FromCalleeFits(m)

\* Before the page dials nothing has happened at the gateway.
DialFirst == server # "NONE" \/ fromCaller # <<>> => caller.invite # "unsent"

PagesInv ==
  /\ PagesSound /\ ServerSide /\ ClientSide /\ FromPages /\ OpenedMeansAccepted
  /\ GatewayInv /\ DialFirst

-----------------------------------------------------------------------------
(* Where a handler of a page leads. *)

\* Why a page may send m when its call is x.  The INVITE, and the answers to a
\* BYE or a CANCEL, need an excuse of their own.
Reason(x, m, excused) ==
  \/ m \in excused
  \/ /\ x.dir # "in" => m.code = 0 /\ m # Request("INVITE") /\ InvitePast(x)
     /\ x.dir # "out" => /\ IsOk(m.code) => Accepted(x)
                         /\ m.code # 0 => m.method = "INVITE"

Moves(a, b) ==
  /\ b \in WorkRecord /\ Paced(b.call) /\ b.call.dir = a.call.dir
  /\ a.call.invite # "unsent" => b.call.invite # "unsent"
  /\ InvitePast(a.call) => InvitePast(b.call)
  /\ Accepted(a.call) => Accepted(b.call)

Leads(a, b, excused) ==
  /\ Moves(a, b)
  /\ \A m \in InFlight(b.out) : m \in InFlight(a.out) \/ Reason(b.call, m, excused)

\* The one step that sends the INVITE, and nothing else with it.
Dials(a, b) ==
  /\ Moves(a, b)
  /\ a.call.dir = "out" /\ a.call.invite = "unsent" /\ b.call.invite # "unsent"
  /\ b.call.sip = "INVITING" /\ b.out = Append(a.out, Request("INVITE"))

LEMMA LeadsFurther ==
  ASSUME NEW a, NEW b, NEW c, NEW excused, Leads(a, b, excused), Leads(b, c, excused)
  PROVE  Leads(a, c, excused)
<1>1. Moves(a, c)
  BY DEF Leads, Moves
<1>2. ASSUME NEW m, Reason(b.call, m, excused)
      PROVE  Reason(c.call, m, excused)
  BY <1>2 DEF Leads, Moves, Reason
<1> QED BY <1>1, <1>2 DEF Leads

LEMMA LeadsNowhere ==
  ASSUME NEW w \in WorkRecord, Paced(w.call), NEW excused
  PROVE  Leads(w, w, excused)
BY DEF Leads, Moves

\* A handler that says nothing, and one that says m.
LEMMA LeadsSilently ==
  ASSUME NEW a, NEW b, NEW excused, Moves(a, b), SameOut(a, b)
  PROVE  Leads(a, b, excused)
BY DEF Leads, SameOut

LEMMA LeadsSaying ==
  ASSUME NEW a \in WorkRecord, NEW b, NEW excused, NEW m \in PageMessage,
         Moves(a, b), b.out = Append(a.out, m), Reason(b.call, m, excused)
  PROVE  Leads(a, b, excused)
<1>1. a.out \in Seq(PageMessage)
  BY DEF WorkRecord
<1>2. InFlight(Append(a.out, m)) \subseteq InFlight(a.out) \cup {m}
  BY <1>1 DEF InFlight
<1> QED BY <1>2 DEF Leads

LEMMA ExcuseDropped ==
  ASSUME NEW a, NEW b, NEW m, NEW excused,
         Leads(a, b, excused \cup {m}), Reason(b.call, m, excused)
  PROVE  Leads(a, b, excused)
BY DEF Leads, Reason

LEMMA NotifyLeads ==
  ASSUME NEW w \in WorkRecord, Paced(w.call), NEW e \in Ended, NEW excused
  PROVE  Leads(w, Notify(w, e), excused)
<1>1. Moves(w, Notify(w, e))
  BY NotifyEffect DEF Moves
<1> QED BY <1>1, NotifyEffect, LeadsSilently

LEMMA CloseLeads ==
  ASSUME NEW w \in WorkRecord, Paced(w.call), NEW excused
  PROVE  Leads(w, Close(w), excused)
<1>1. Moves(w, Close(w))
  BY CloseEffect DEF Moves, Paced, InvitePast, Accepted, SameSip, SameEnds, SameMedia
<1> QED BY <1>1, CloseEffect, LeadsSilently

LEMMA PeerAtLeads ==
  ASSUME NEW w \in WorkRecord, Paced(w.call), NEW p \in PeerState, NEW t \in Task, NEW excused,
         p \in {"new", "preparing-offer"} => w.call.invite = "unsent"
  PROVE  Leads(w, PeerAt(w, p, t), excused)
<1> DEFINE v == PeerAt(w, p, t)
<1>1. /\ v \in WorkRecord /\ v.call.peer = p
      /\ SameSip(w, v) /\ SameEnds(w, v) /\ SameHistory(w, v) /\ SameOut(w, v)
  BY PeerAtEffect
<1> HIDE DEF v
<1>2. Moves(w, v)
  BY <1>1 DEF Moves, Paced, InvitePast, Accepted, SameSip, SameEnds, SameHistory
<1>3. Leads(w, v, excused)
  BY <1>1, <1>2, LeadsSilently
<1> QED BY <1>3 DEF v

LEMMA TaskLeads ==
  ASSUME NEW w \in WorkRecord, Paced(w.call), NEW t \in Task, NEW excused
  PROVE  Leads(w, [w EXCEPT !.call.task = t], excused)
<1> DEFINE v == [w EXCEPT !.call.task = t]
<1>1. /\ v \in WorkRecord /\ v.call.peer = w.call.peer
      /\ SameSip(w, v) /\ SameEnds(w, v) /\ SameHistory(w, v) /\ SameOut(w, v)
  BY TaskEffect
<1> HIDE DEF v
<1>2. Moves(w, v)
  BY <1>1 DEF Moves, Paced, InvitePast, Accepted, SameSip, SameEnds, SameHistory
<1>3. Leads(w, v, excused)
  BY <1>1, <1>2, LeadsSilently
<1> QED BY <1>3 DEF v

LEMMA StatsLeads ==
  ASSUME NEW w \in WorkRecord, Paced(w.call), NEW s \in Stats \ {"unasked"}, NEW excused
  PROVE  Leads(w, [w EXCEPT !.call.stats = s], excused)
<1> DEFINE v == [w EXCEPT !.call.stats = s]
<1>1. /\ v \in WorkRecord /\ v.call.stats = s /\ v.call.invite = w.call.invite
      /\ SameSip(w, v) /\ SameEnds(w, v) /\ SameMedia(w, v) /\ SameOut(w, v)
  BY StatsEffect
<1> HIDE DEF v
<1>2. Moves(w, v)
  BY <1>1 DEF Moves, Paced, InvitePast, Accepted, SameSip, SameEnds, SameMedia
<1>3. Leads(w, v, excused)
  BY <1>1, <1>2, LeadsSilently
<1> QED BY <1>3 DEF v

-----------------------------------------------------------------------------
(* The handlers of a page: closing. *)

\* The messages of a page, and what tells them apart.
LEMMA PageMessages ==
  /\ Request("INVITE") \in PageMessage /\ ~IsOk(Request("INVITE").code)
  /\ Request("ACK") \in PageMessage /\ ~IsOk(Request("ACK").code)
  /\ Request("BYE") \in PageMessage /\ ~IsOk(Request("BYE").code)
  /\ Request("CANCEL") \in PageMessage /\ ~IsOk(Request("CANCEL").code)
  /\ \A code \in {180, 200, 480, 481, 486, 487}, m \in {"INVITE", "BYE", "CANCEL"} :
       /\ Response(code, m) \in PageMessage
       /\ Response(code, m).code # 0 /\ Response(code, m).method = m
       /\ code # 200 => ~IsOk(Response(code, m).code)
  /\ \A m \in {"ACK", "BYE", "CANCEL"} : Request(m).code = 0 /\ Request(m) # Request("INVITE")
<1>1. \A code \in {180, 200, 480, 481, 486, 487} : code # 200 => code \notin 200..299
  OBVIOUS
<1> QED BY <1>1, Sendable DEF Request, Response, IsOk

\* A connector that is up hangs up only when the statistics have been asked
\* for; any other open one tells the call, which asks for them.
LEMMA ConnectorCloseLeads ==
  ASSUME NEW w \in WorkRecord, NearlySound(w.call), Paced(w.call), NEW excused,
         w.call.sip = "INVITED_ACCEPTED" => w.call.stats # "unasked"
  PROVE  /\ Leads(w, ConnectorClose(w), excused)
         /\ /\ w.call.sip \notin {"NONE", "INVITING", "INVITED_INITIAL", "INVITED_ACCEPTED"}
            /\ w.call.peer # "none"
            => ConnectorClose(w).call.stats # "unasked"
         /\ ConnectorClose(w).call.sip # "INVITING"
<1> DEFINE v == ConnectorClose(w)
<1>1. ConnectorSound(w.call) /\ w.call.dir \in Direction
  BY DEF NearlySound, CallRecord
<1>2. CASE w.call.sip = "NONE"
  <2>1. v = w
    BY <1>2 DEF ConnectorClose
  <2> QED BY <1>2, <2>1, LeadsNowhere
<1>3. CASE w.call.sip = "INVITING"
  <2> DEFINE u == Send(w, Request("CANCEL"))
  <2>1. v = InState(u, "INVITING_CANCELLING")
    BY <1>3 DEF ConnectorClose
  <2>2. u \in WorkRecord /\ u.call = w.call /\ u.out = Append(w.out, Request("CANCEL"))
    BY PageMessages, SendEffect
  <2> HIDE DEF u, v
  <2>3. /\ v \in WorkRecord /\ v.call.sip = "INVITING_CANCELLING"
        /\ SameEnds(u, v) /\ SameMedia(u, v) /\ SameHistory(u, v) /\ SameOut(u, v)
    BY <2>1, <2>2, InStateEffect DEF SipCallState
  <2>4. Moves(w, v) /\ InvitePast(v.call) /\ v.call.dir = "out"
    BY <1>1, <1>3, <2>2, <2>3
    DEF Moves, Paced, InvitePast, Accepted, Incoming, ConnectorSound, SameEnds, SameMedia,
        SameHistory
  <2>5. Reason(v.call, Request("CANCEL"), excused)
    BY <2>4, PageMessages DEF Reason
  <2>6. Leads(w, v, excused)
    BY <2>2, <2>3, <2>4, <2>5, PageMessages, LeadsSaying DEF SameOut
  <2> QED BY <1>3, <2>3, <2>6 DEF v
<1>4. CASE w.call.sip = "INVITING_ACCEPTED"
  <2> DEFINE u == Send(w, Request("BYE"))
             x == InState(u, "INVITING_LOCAL_HANGINGUP")
  <2>1. v = ClosedEvent(x)
    BY <1>4 DEF ConnectorClose
  <2>2. u \in WorkRecord /\ u.call = w.call /\ u.out = Append(w.out, Request("BYE"))
    BY PageMessages, SendEffect
  <2> HIDE DEF u
  <2>3. /\ x \in WorkRecord /\ x.call.sip = "INVITING_LOCAL_HANGINGUP"
        /\ SameEnds(u, x) /\ SameMedia(u, x) /\ SameHistory(u, x) /\ SameOut(u, x)
    BY <2>2, InStateEffect DEF SipCallState
  <2> HIDE DEF x, v
  <2>4. /\ v \in WorkRecord /\ v.call.dir = x.call.dir
        /\ SameSip(x, v) /\ SameMedia(x, v) /\ SameOut(x, v)
        /\ v.call.invite = x.call.invite
        /\ x.call.stats # "unasked" => v.call.stats # "unasked"
        /\ x.call.peer # "none" => v.call.stats # "unasked"
    BY <2>1, <2>3, ClosedEventEffect
  <2>5. /\ v.call.sip = "INVITING_LOCAL_HANGINGUP" /\ v.call.invite = w.call.invite
        /\ v.call.dir = w.call.dir /\ v.call.peer = w.call.peer
        /\ v.out = Append(w.out, Request("BYE"))
        /\ w.call.stats # "unasked" => v.call.stats # "unasked"
    BY <2>2, <2>3, <2>4 DEF SameEnds, SameMedia, SameHistory, SameOut, SameSip
  <2>6. Moves(w, v) /\ InvitePast(v.call) /\ v.call.dir = "out"
    BY <1>1, <1>4, <2>4, <2>5 DEF Moves, Paced, InvitePast, Accepted, Incoming, ConnectorSound
  <2>7. Reason(v.call, Request("BYE"), excused)
    BY <2>6, PageMessages DEF Reason
  <2>8. Leads(w, v, excused)
    BY <2>5, <2>6, <2>7, PageMessages, LeadsSaying
  <2>9. w.call.peer # "none" => v.call.stats # "unasked"
    BY <2>2, <2>3, <2>4 DEF SameMedia
  <2> QED BY <2>5, <2>8, <2>9 DEF v
<1>5. CASE w.call.sip = "INVITED_INITIAL"
  <2> DEFINE u == Send(w, Response(480, "INVITE"))
  <2>1. v = Released(u)
    BY <1>5 DEF ConnectorClose
  <2>2. u \in WorkRecord /\ u.call = w.call /\ u.out = Append(w.out, Response(480, "INVITE"))
    BY PageMessages, SendEffect
  <2> HIDE DEF u, v
  <2>3. /\ v \in WorkRecord /\ v.call.sip = "NONE"
        /\ SameEnds(u, v) /\ SameMedia(u, v) /\ SameHistory(u, v) /\ SameOut(u, v)
    BY <2>1, <2>2, ReleasedEffect, ZenonT(40)
  <2>4. Moves(w, v) /\ v.call.dir = "in"
    BY <1>1, <1>5, <2>2, <2>3
    DEF Moves, Paced, InvitePast, Accepted, Incoming, ConnectorSound, SameEnds, SameMedia,
        SameHistory
  <2>5. Reason(v.call, Response(480, "INVITE"), excused)
    BY <2>4, PageMessages DEF Reason
  <2>6. Leads(w, v, excused)
    BY <2>2, <2>3, <2>4, <2>5, PageMessages, LeadsSaying DEF SameOut
  <2> QED BY <1>5, <2>3, <2>6 DEF v
<1>6. CASE w.call.sip = "INVITED_ACCEPTED"
  <2> DEFINE u == Send(w, Request("BYE"))
  <2>1. v = InState(u, "INVITED_LOCAL_HANGINGUP")
    BY <1>6 DEF ConnectorClose
  <2>2. u \in WorkRecord /\ u.call = w.call /\ u.out = Append(w.out, Request("BYE"))
    BY PageMessages, SendEffect
  <2> HIDE DEF u, v
  <2>3. /\ v \in WorkRecord /\ v.call.sip = "INVITED_LOCAL_HANGINGUP"
        /\ SameEnds(u, v) /\ SameMedia(u, v) /\ SameHistory(u, v) /\ SameOut(u, v)
    BY <2>1, <2>2, InStateEffect DEF SipCallState
  <2>4. Moves(w, v) /\ v.call.dir = "in"
    BY <1>1, <1>6, <2>2, <2>3
    DEF Moves, Paced, InvitePast, Accepted, Incoming, ConnectorSound, SameEnds, SameMedia,
        SameHistory
  <2>5. Reason(v.call, Request("BYE"), excused)
    BY <2>4, PageMessages DEF Reason
  <2>6. Leads(w, v, excused)
    BY <2>2, <2>3, <2>4, <2>5, PageMessages, LeadsSaying DEF SameOut
  <2> QED BY <1>6, <2>3, <2>6 DEF v
<1>7. CASE w.call.sip \notin {"NONE", "INVITING", "INVITING_ACCEPTED", "INVITED_INITIAL",
                             "INVITED_ACCEPTED"}
  <2> DEFINE u == Released(w)
  <2>1. v = ClosedEvent(u)
    BY <1>7 DEF ConnectorClose
  <2>2. /\ u \in WorkRecord /\ u.call.sip = "NONE"
        /\ SameEnds(w, u) /\ SameMedia(w, u) /\ SameHistory(w, u) /\ SameOut(w, u)
    BY ReleasedEffect
  <2> HIDE DEF u, v
  <2>3. /\ v \in WorkRecord /\ v.call.dir = u.call.dir
        /\ SameSip(u, v) /\ SameMedia(u, v) /\ SameOut(u, v)
        /\ v.call.invite = u.call.invite
        /\ u.call.stats # "unasked" => v.call.stats # "unasked"
        /\ u.call.peer # "none" => v.call.stats # "unasked"
    BY <2>1, <2>2, ClosedEventEffect
  <2>4. /\ v.call.sip = "NONE" /\ v.call.invite = w.call.invite
        /\ v.call.dir = w.call.dir /\ v.call.peer = w.call.peer
        /\ SameOut(w, v)
        /\ w.call.stats # "unasked" => v.call.stats # "unasked"
        /\ w.call.peer # "none" => v.call.stats # "unasked"
    BY <2>2, <2>3 DEF SameEnds, SameMedia, SameHistory, SameOut, SameSip
  <2>5. Moves(w, v)
    BY <1>7, <2>3, <2>4 DEF Moves, Paced, InvitePast, Accepted, Incoming
  <2>6. Leads(w, v, excused)
    BY <2>4, <2>5, LeadsSilently
  <2> QED BY <2>4, <2>6 DEF v
<1> QED BY <1>2, <1>3, <1>4, <1>5, <1>6, <1>7

LEMMA HangupLeads ==
  ASSUME NEW w \in WorkRecord, Sound(w.call), Paced(w.call), NEW excused,
         w.call.sip = "INVITED_ACCEPTED" => w.call.stats # "unasked"
  PROVE  Leads(w, Hangup(w), excused) /\ Hangup(w).call.sip \notin Opened
<1> DEFINE u == IF w.call.linked THEN ConnectorClose(w) ELSE w
           x == PeerAt(u, "none", "none")
<1>1. Leads(w, u, excused) /\ u.call.sip \notin Opened
  <2>1. CASE w.call.linked
    BY <2>1, ConnectorCloseLeads, ConnectorCloseGoes DEF Sound
  <2>2. CASE ~w.call.linked
    BY <2>2, LeadsNowhere DEF Sound, NearlySound, ConnectorSound, Opened
  <2> QED BY <2>1, <2>2
<1>2. Hangup(w) = IF u.call.peer = "none" THEN u ELSE Notify(x, "Closed")
  BY DEF Hangup
<1> HIDE DEF u
<1>3. "none" \in PeerState /\ "none" \in Task /\ "Closed" \in Ended
  BY DEF PeerState, Task, Ended, Event
<1>4. u \in WorkRecord /\ Paced(u.call)
  BY <1>1 DEF Leads, Moves
<1>5. Leads(u, x, excused) /\ x.call.sip = u.call.sip
  BY <1>3, <1>4, PeerAtLeads, PeerAtEffect DEF SameSip
<1>6. Leads(w, x, excused) /\ x \in WorkRecord /\ Paced(x.call)
  BY <1>1, <1>5, LeadsFurther DEF Leads, Moves
<1> HIDE DEF x
<1>7. Leads(x, Notify(x, "Closed"), excused) /\ Notify(x, "Closed").call = x.call
  BY <1>3, <1>6, NotifyLeads, NotifyEffect
<1>8. Leads(w, Notify(x, "Closed"), excused)
  BY <1>6, <1>7, LeadsFurther
<1> QED BY <1>1, <1>2, <1>5, <1>7, <1>8

LEMMA PeerErrorLeads ==
  ASSUME NEW w \in WorkRecord, Paced(w.call), NEW excused
  PROVE  Leads(w, PeerError(w), excused) /\ PeerError(w).call.sip = w.call.sip
<1> DEFINE u == Notify(w, "OpenError")
<1>1. "OpenError" \in Ended
  BY DEF Ended, Event
<1>2. Leads(w, u, excused) /\ u.call = w.call
  BY <1>1, NotifyLeads, NotifyEffect
<1>3. PeerError(w) = Close(u)
  BY DEF PeerError
<1> HIDE DEF u
<1>4. Leads(u, Close(u), excused) /\ Close(u).call.sip = u.call.sip
  BY <1>2, CloseLeads, CloseEffect DEF Leads, Moves, SameSip
<1> QED BY <1>2, <1>3, <1>4, LeadsFurther

LEMMA OpenFailedLeads ==
  ASSUME NEW w \in WorkRecord, NearlySound(w.call), Paced(w.call), NEW excused,
         w.call.sip # "INVITED_ACCEPTED"
  PROVE  /\ Leads(w, OpenFailed(w), excused)
         /\ OpenFailed(w).call.sip \notin Opened \cup {"INVITING"}
<1> DEFINE u == Notify(w, "OpenError")
<1>1. "OpenError" \in Ended
  BY DEF Ended, Event
<1>2. Leads(w, u, excused) /\ u.call = w.call
  BY <1>1, NotifyLeads, NotifyEffect
<1>3. OpenFailed(w) = ConnectorClose(u)
  BY DEF OpenFailed
<1> HIDE DEF u
<1>4. u \in WorkRecord
  BY <1>2 DEF Leads, Moves
<1>5. Leads(u, ConnectorClose(u), excused) /\ ConnectorClose(u).call.sip \notin Opened \cup {"INVITING"}
  BY <1>2, <1>4, ConnectorCloseLeads, ConnectorCloseGoes
<1> QED BY <1>2, <1>3, <1>5, LeadsFurther

LEMMA RejectLeads ==
  ASSUME NEW w \in WorkRecord, Sound(w.call), Paced(w.call), NEW excused,
         w.call.sip = "INVITED_ACCEPTED" => w.call.stats # "unasked"
  PROVE  Leads(w, Reject(w), excused)
<1>1. CASE RejectSucceeds(w)
  <2> DEFINE u == Send(w, Response(486, "INVITE"))
             x == Released(u)
  <2>1. Reject(w) = Notify(x, "Closed")
    BY <1>1 DEF Reject
  <2>2. u \in WorkRecord /\ u.call = w.call /\ u.out = Append(w.out, Response(486, "INVITE"))
    BY PageMessages, SendEffect
  <2> HIDE DEF u
  <2>3. /\ x \in WorkRecord /\ x.call.sip = "NONE"
        /\ SameEnds(u, x) /\ SameMedia(u, x) /\ SameHistory(u, x) /\ SameOut(u, x)
    BY <2>2, ReleasedEffect, ZenonT(40)
  <2> HIDE DEF x
  <2>4. Moves(w, x) /\ x.call.dir = "in"
    BY <1>1, <2>2, <2>3
    DEF RejectSucceeds, Sound, NearlySound, ConnectorSound, Moves, Paced, InvitePast, Accepted,
        Incoming, SameEnds, SameMedia, SameHistory
  <2>5. Reason(x.call, Response(486, "INVITE"), excused)
    BY <2>4, PageMessages DEF Reason
  <2>6. Leads(w, x, excused)
    BY <2>2, <2>3, <2>4, <2>5, PageMessages, LeadsSaying DEF SameOut
  <2>7. "Closed" \in Ended
    BY DEF Ended, Event
  <2>8. Leads(x, Notify(x, "Closed"), excused)
    BY <2>6, <2>7, NotifyLeads DEF Leads, Moves
  <2> QED BY <2>1, <2>6, <2>8, LeadsFurther
<1>2. CASE ~RejectSucceeds(w)
  <2> DEFINE u == Hangup(w)
             x == [u EXCEPT !.onCall = FALSE]
  <2>1. Reject(w) = x
    BY <1>2 DEF Reject
  <2>2. Leads(w, u, excused)
    BY HangupLeads
  <2> HIDE DEF u
  <2>3. x \in WorkRecord /\ x.call = u.call /\ x.out = u.out
    BY <2>2, OnCallOff DEF Leads, Moves, SameOut
  <2> HIDE DEF x
  <2> QED BY <2>1, <2>2, <2>3 DEF Leads, Moves
<1> QED BY <1>1, <1>2

LEMMA AcceptLeads ==
  ASSUME NEW w \in WorkRecord, Paced(w.call), NEW media, NEW excused
  PROVE  Leads(w, Accept(w, media), excused)
<1>1. "offer-received" \in PeerState /\ "setRemote" \in Task
  BY DEF PeerState, Task
<1>2. Leads(w, PeerAt(w, "offer-received", "setRemote"), excused)
  BY <1>1, PeerAtLeads
<1> QED BY <1>2, LeadsNowhere DEF Accept

-----------------------------------------------------------------------------
(* The handlers of a page: the callbacks of the browser. *)

\* The INVITE leaves once, and the only 2xx a page sends for it is the answer.
LEMMA GatheredLeads ==
  ASSUME NEW w \in WorkRecord, Sound(w.call), Paced(w.call), w.call.task = "gather", NEW excused
  PROVE  /\ Leads(w, Gathered(w), excused) \/ Dials(w, Gathered(w))
         /\ Gathered(w).call.sip = "INVITING_ACCEPTED" => w.call.sip = "INVITING_ACCEPTED"
<1>1. /\ w.call.peer \in {"preparing-offer", "preparing-answer"}
      /\ w.call.peer = "preparing-offer" => w.call.dir = "out" /\ w.call.invite = "unsent"
      /\ w.call.peer = "preparing-answer" => w.call.dir = "in" /\ w.call.invite = "unsent"
      /\ ConnectorSound(w.call)
  BY DEF Sound, NearlySound, MediaSound, Paced
<1>2. CASE ~w.call.linked \/ (w.call.peer = "preparing-answer" /\ w.call.sip = "NONE")
  <2> DEFINE u == [w EXCEPT !.call.task = "none"]
  <2>1. Gathered(w) = PeerError(u)
    BY <1>2 DEF Gathered
  <2>2. Leads(w, u, excused) /\ u.call.sip = w.call.sip
    BY TaskLeads, TaskEffect DEF Task, SameSip
  <2> HIDE DEF u
  <2>3. Leads(u, PeerError(u), excused) /\ PeerError(u).call.sip = u.call.sip
    BY <2>2, PeerErrorLeads DEF Leads, Moves
  <2> QED BY <2>1, <2>2, <2>3, LeadsFurther
<1>3. CASE w.call.linked /\ w.call.peer = "preparing-offer"
  <2> DEFINE u == Send(w, Request("INVITE"))
             x == InState(u, "INVITING")
             y == PeerAt(x, "offer-sent", "none")
             z == [y EXCEPT !.call.invite = "calling"]
  <2>1. Gathered(w) = z
    BY <1>3 DEF Gathered
  <2>2. u \in WorkRecord /\ u.call = w.call /\ u.out = Append(w.out, Request("INVITE"))
    BY PageMessages, SendEffect
  <2> HIDE DEF u
  <2>3. /\ x \in WorkRecord /\ x.call.sip = "INVITING"
        /\ SameEnds(u, x) /\ SameHistory(u, x) /\ SameOut(u, x)
    BY <2>2, InStateEffect DEF SipCallState
  <2> HIDE DEF x
  <2>4. /\ y \in WorkRecord /\ y.call.peer = "offer-sent"
        /\ SameSip(x, y) /\ SameEnds(x, y) /\ SameHistory(x, y) /\ SameOut(x, y)
    BY <2>3, PeerAtEffect DEF PeerState, Task
  <2> HIDE DEF y
  <2>5. /\ z \in WorkRecord /\ z.call.invite = "calling" /\ z.call.stats = y.call.stats
        /\ SameSip(y, z) /\ SameEnds(y, z) /\ SameMedia(y, z) /\ SameOut(y, z)
    BY <2>4, InviteEffect DEF InviteTransaction
  <2> HIDE DEF z
  <2>6. /\ z.call.sip = "INVITING" /\ z.call.dir = "out" /\ z.call.peer = "offer-sent"
        /\ z.call.stats = w.call.stats /\ z.out = Append(w.out, Request("INVITE"))
    BY <1>1, <1>3, <2>2, <2>3, <2>4, <2>5
    DEF SameSip, SameEnds, SameMedia, SameHistory, SameOut
  <2>7. Moves(w, z)
    BY <1>1, <1>3, <2>5, <2>6 DEF Moves, Paced, InvitePast, Accepted, ConnectorSound, Incoming
  <2>8. Dials(w, z)
    BY <1>1, <1>3, <2>5, <2>6, <2>7 DEF Dials, SameEnds
  <2> QED BY <2>1, <2>6, <2>8
<1>4. CASE /\ w.call.linked /\ w.call.peer = "preparing-answer"
           /\ w.call.sip # "NONE"
  <2> DEFINE u == Send(w, Response(200, "INVITE"))
             x == InState(u, "INVITED_ACCEPTED")
             y == PeerAt(x, "established", "none")
  <2>1. Gathered(w) = y
    BY <1>4 DEF Gathered
  <2>2. u \in WorkRecord /\ u.call = w.call /\ u.out = Append(w.out, Response(200, "INVITE"))
    BY PageMessages, SendEffect
  <2> HIDE DEF u
  <2>3. /\ x \in WorkRecord /\ x.call.sip = "INVITED_ACCEPTED"
        /\ SameEnds(u, x) /\ SameHistory(u, x) /\ SameOut(u, x)
    BY <2>2, InStateEffect DEF SipCallState
  <2> HIDE DEF x
  <2>4. /\ y \in WorkRecord /\ y.call.peer = "established"
        /\ SameSip(x, y) /\ SameEnds(x, y) /\ SameHistory(x, y) /\ SameOut(x, y)
    BY <2>3, PeerAtEffect DEF PeerState, Task
  <2> HIDE DEF y
  <2>5. /\ y.call.sip = "INVITED_ACCEPTED" /\ y.call.dir = "in"
        /\ y.call.stats = w.call.stats /\ y.call.invite = w.call.invite
        /\ y.out = Append(w.out, Response(200, "INVITE"))
    BY <1>1, <1>4, <2>2, <2>3, <2>4 DEF SameSip, SameEnds, SameHistory, SameOut
  <2>6. Moves(w, y) /\ Accepted(y.call)
    BY <1>1, <1>4, <2>4, <2>5 DEF Moves, Paced, InvitePast, Accepted, Incoming
  <2>7. Reason(y.call, Response(200, "INVITE"), excused)
    BY <2>5, <2>6, PageMessages DEF Reason
  <2>8. Leads(w, y, excused)
    BY <2>5, <2>6, <2>7, PageMessages, LeadsSaying
  <2> QED BY <2>1, <2>5, <2>8
<1> QED BY <1>1, <1>2, <1>3, <1>4

\* No callback of the browser opens a dialled call.
LEMMA TaskDoneLeads ==
  ASSUME NEW w \in WorkRecord, Sound(w.call), Paced(w.call), w.call.task # "none", NEW excused
  PROVE  /\ Leads(w, TaskDone(w), excused) \/ Dials(w, TaskDone(w))
         /\ TaskDone(w).call.sip = "INVITING_ACCEPTED" => w.call.sip = "INVITING_ACCEPTED"
<1>1. MediaSound(w.call) /\ w.call.task \in Task
  BY DEF Sound, NearlySound, CallRecord
<1>2. CASE w.call.task = "createOffer"
  <2>1. TaskDone(w) = PeerAt(w, "preparing-offer", "gather")
    BY <1>2 DEF TaskDone
  <2>2. "preparing-offer" \in PeerState /\ "gather" \in Task /\ w.call.invite = "unsent"
    BY <1>1, <1>2 DEF PeerState, Task, MediaSound, Paced
  <2> QED BY <2>1, <2>2, PeerAtLeads, PeerAtEffect DEF SameSip
<1>3. CASE w.call.task = "setRemote" /\ w.call.peer = "answer-received"
  <2>1. TaskDone(w) = PeerAt(w, "established", "none")
    BY <1>3 DEF TaskDone
  <2>2. "established" \in PeerState /\ "none" \in Task
    BY DEF PeerState, Task
  <2> QED BY <2>1, <2>2, PeerAtLeads, PeerAtEffect DEF SameSip
<1>4. CASE w.call.task = "setRemote" /\ w.call.peer # "answer-received"
  <2>1. TaskDone(w) = [w EXCEPT !.call.task = "createAnswer"]
    BY <1>4 DEF TaskDone
  <2>2. "createAnswer" \in Task
    BY DEF Task
  <2> QED BY <2>1, <2>2, TaskLeads, TaskEffect DEF SameSip
<1>5. CASE w.call.task = "createAnswer"
  <2>1. TaskDone(w) = PeerAt(w, "preparing-answer", "gather")
    BY <1>5 DEF TaskDone
  <2>2. "preparing-answer" \in PeerState /\ "gather" \in Task
    BY DEF PeerState, Task
  <2> QED BY <2>1, <2>2, PeerAtLeads, PeerAtEffect DEF SameSip
<1>6. CASE w.call.task = "gather"
  <2>1. TaskDone(w) = Gathered(w)
    BY <1>6 DEF TaskDone
  <2> QED BY <1>6, <2>1, GatheredLeads
<1> QED BY <1>1, <1>2, <1>3, <1>4, <1>5, <1>6 DEF Task

LEMMA TaskFailedLeads ==
  ASSUME NEW w \in WorkRecord, Paced(w.call), NEW excused
  PROVE  Leads(w, TaskFailed(w), excused) /\ TaskFailed(w).call.sip = w.call.sip
<1> DEFINE u == [w EXCEPT !.call.task = "none"]
<1>1. Leads(w, u, excused) /\ u.call.sip = w.call.sip
  BY TaskLeads, TaskEffect DEF Task, SameSip
<1>2. TaskFailed(w) = IF w.call.task = "createAnswer" THEN u ELSE PeerError(u)
  BY DEF TaskFailed
<1> HIDE DEF u
<1>3. Leads(u, PeerError(u), excused) /\ PeerError(u).call.sip = u.call.sip
  BY <1>1, PeerErrorLeads DEF Leads, Moves
<1> QED BY <1>1, <1>2, <1>3, LeadsFurther

\* The callback of getStats() hangs up: it leaves no call open.
LEMMA StatsComeLeads ==
  ASSUME NEW w \in WorkRecord, Sound(w.call), Paced(w.call), NEW excused
  PROVE  /\ Leads(w, StatsGiven(w), excused) /\ StatsGiven(w).call.sip \notin Opened
         /\ Leads(w, StatsFailed(w), excused) /\ StatsFailed(w).call.sip = w.call.sip
<1> DEFINE u == [w EXCEPT !.call.stats = "given"]
<1>1. /\ Leads(w, StatsFailed(w), excused) /\ StatsFailed(w).call.sip = w.call.sip
      /\ Leads(w, u, excused) /\ u.call.stats = "given"
  BY StatsLeads, StatsEffect DEF Stats, StatsFailed, SameSip
<1>2. StatsGiven(w) = Hangup(u)
  BY DEF StatsGiven
<1>3. Sound(u.call)
  BY StatsGoes DEF Goes, Stats
<1> HIDE DEF u
<1>4. Leads(u, Hangup(u), excused) /\ Hangup(u).call.sip \notin Opened
  BY <1>1, <1>3, HangupLeads DEF Leads, Moves
<1> QED BY <1>1, <1>2, <1>4, LeadsFurther

-----------------------------------------------------------------------------
(* The handlers of a page: messages and timeouts. *)

AnyCode == 0..699
Refusal == 300..699

\* Only a 200 opens the connector, and only one that still waits for it; a
\* final response leaves none waiting.
LEMMA InvitingResponseLeads ==
  ASSUME NEW w \in WorkRecord, Sound(w.call), Paced(w.call), NEW code \in AnyCode, NEW excused
  PROVE  /\ Leads(w, InvitingResponse(w, code), excused)
         /\ InvitingResponse(w, code).call.sip = "INVITING_ACCEPTED"
              => \/ w.call.sip = "INVITING_ACCEPTED"
                 \/ w.call.sip = "INVITING" /\ code = 200
         /\ code \in Refusal => InvitingResponse(w, code).call.sip # "INVITING"
<1> DEFINE v == InvitingResponse(w, code)
<1>1. NearlySound(w.call) /\ ConnectorSound(w.call) /\ MediaSound(w.call)
  BY DEF Sound, NearlySound
<1>2. CASE w.call.sip = "INVITING" /\ code = 200
  <2> DEFINE u == Send(w, Request("ACK"))
             acked == InState(u, "INVITING_ACCEPTED")
  <2>1. v = IF w.call.peer = "none" THEN OpenFailed(acked)
            ELSE PeerAt(acked, "answer-received", "setRemote")
    BY <1>2 DEF InvitingResponse
  <2>2. u \in WorkRecord /\ u.call = w.call /\ u.out = Append(w.out, Request("ACK"))
    BY PageMessages, SendEffect
  <2> HIDE DEF u
  <2>3. /\ acked \in WorkRecord /\ acked.call.sip = "INVITING_ACCEPTED"
        /\ acked.call.known = u.call.known
        /\ SameEnds(u, acked) /\ SameMedia(u, acked) /\ SameHistory(u, acked)
        /\ SameOut(u, acked)
    BY <2>2, InStateEffect DEF SipCallState
  <2> HIDE DEF acked, v
  <2>4. Moves(w, acked) /\ InvitePast(acked.call) /\ acked.call.dir = "out"
    BY <1>1, <1>2, <2>2, <2>3
    DEF Moves, Paced, InvitePast, Accepted, Incoming, ConnectorSound, SameEnds, SameMedia,
        SameHistory
  <2>5. Reason(acked.call, Request("ACK"), excused)
    BY <2>4, PageMessages DEF Reason
  <2>6. Leads(w, acked, excused)
    BY <2>2, <2>3, <2>4, <2>5, PageMessages, LeadsSaying DEF SameOut
  <2>7. NearlySound(acked.call) /\ Paced(acked.call) /\ acked.call.invite # "unsent"
    <3>1. ConnectorSound(acked.call)
      BY <1>1, <1>2, <2>2, <2>3 DEF ConnectorSound, SameEnds, Incoming
    <3>2. MediaSound(acked.call)
      BY <1>1, <2>2, <2>3 DEF MediaSound, SameEnds, SameMedia
    <3> QED BY <2>3, <2>4, <3>1, <3>2 DEF NearlySound, WorkRecord, Moves, InvitePast
  <2>8. /\ Leads(acked, OpenFailed(acked), excused)
        /\ OpenFailed(acked).call.sip \notin Opened \cup {"INVITING"}
    BY <2>3, <2>7, OpenFailedLeads
  <2>9. Leads(acked, PeerAt(acked, "answer-received", "setRemote"), excused)
    BY <2>3, <2>7, PeerAtLeads DEF PeerState, Task
  <2>10. Leads(w, v, excused)
    BY <2>1, <2>6, <2>8, <2>9, LeadsFurther
  <2>11. code \notin Refusal
    BY <1>2 DEF Refusal
  <2> QED BY <1>2, <2>10, <2>11 DEF v
<1>3. CASE w.call.sip = "INVITING" /\ code > 200 /\ ~(code < 200) /\ code # 200
  <2> DEFINE u == InState(w, "INVITING_ERROR")
  <2>1. v = OpenFailed(u)
    BY <1>3 DEF InvitingResponse
  <2>2. /\ u \in WorkRecord /\ u.call.sip = "INVITING_ERROR" /\ u.call.known = w.call.known
        /\ SameEnds(w, u) /\ SameMedia(w, u) /\ SameHistory(w, u) /\ SameOut(w, u)
    BY InStateEffect DEF SipCallState
  <2> HIDE DEF u, v
  <2>3. Moves(w, u)
    BY <1>1, <1>3, <2>2
    DEF Moves, Paced, InvitePast, Accepted, Incoming, ConnectorSound, SameEnds, SameMedia,
        SameHistory
  <2>4. Leads(w, u, excused)
    BY <2>2, <2>3, LeadsSilently
  <2>5. NearlySound(u.call) /\ Paced(u.call)
    <3>1. ConnectorSound(u.call)
      BY <1>1, <1>3, <2>2 DEF ConnectorSound, SameEnds, Incoming
    <3>2. MediaSound(u.call)
      BY <1>1, <2>2 DEF MediaSound, SameEnds, SameMedia
    <3> QED BY <2>2, <2>3, <3>1, <3>2 DEF NearlySound, WorkRecord, Moves
  <2>6. Leads(u, v, excused) /\ v.call.sip \notin Opened \cup {"INVITING"}
    BY <2>1, <2>2, <2>5, OpenFailedLeads
  <2>7. Leads(w, v, excused)
    BY <2>4, <2>6, LeadsFurther
  <2> QED BY <2>6, <2>7 DEF v, Opened
<1>4. CASE w.call.sip = "INVITING_CANCELLING"
  <2> DEFINE u == InState(w, "INVITING_CANCELLED")
  <2>1. v = ConnectorClose(u)
    BY <1>4 DEF InvitingResponse
  <2>2. /\ u \in WorkRecord /\ u.call.sip = "INVITING_CANCELLED" /\ u.call.known = w.call.known
        /\ SameEnds(w, u) /\ SameMedia(w, u) /\ SameHistory(w, u) /\ SameOut(w, u)
    BY InStateEffect DEF SipCallState
  <2> HIDE DEF u, v
  <2>3. Moves(w, u)
    BY <1>1, <1>4, <2>2
    DEF Moves, Paced, InvitePast, Accepted, Incoming, ConnectorSound, SameEnds, SameMedia,
        SameHistory
  <2>4. Leads(w, u, excused)
    BY <2>2, <2>3, LeadsSilently
  <2>5. NearlySound(u.call) /\ Paced(u.call)
    <3>1. ConnectorSound(u.call)
      BY <1>1, <1>4, <2>2 DEF ConnectorSound, SameEnds, Incoming
    <3>2. MediaSound(u.call)
      BY <1>1, <2>2 DEF MediaSound, SameEnds, SameMedia
    <3> QED BY <2>2, <2>3, <3>1, <3>2 DEF NearlySound, WorkRecord, Moves
  <2>6. Leads(u, v, excused) /\ v.call.sip \notin Opened \cup {"INVITING"}
    BY <2>1, <2>2, <2>5, ConnectorCloseLeads, ConnectorCloseGoes
  <2>7. Leads(w, v, excused)
    BY <2>4, <2>6, LeadsFurther
  <2> QED BY <2>6, <2>7 DEF v, Opened
<1>5. CASE w.call.sip = "INVITING_LOCAL_HANGINGUP"
  <2>1. v = ConnectorClose(w)
    BY <1>5 DEF InvitingResponse
  <2> HIDE DEF v
  <2>2. Leads(w, v, excused) /\ v.call.sip \notin Opened \cup {"INVITING"}
    BY <1>1, <1>5, <2>1, ConnectorCloseLeads, ConnectorCloseGoes
  <2> QED BY <2>2 DEF v, Opened
<1>6. CASE \/ w.call.sip \notin {"INVITING", "INVITING_CANCELLING", "INVITING_LOCAL_HANGINGUP"}
           \/ w.call.sip = "INVITING" /\ code < 200
           \/ w.call.sip = "INVITING" /\ ~(code < 200) /\ code # 200 /\ ~(code > 200)
  <2>1. v = w
    BY <1>6 DEF InvitingResponse, AnyCode
  <2>2. ASSUME code \in Refusal PROVE w.call.sip # "INVITING"
    <3>1. ~(code < 200) /\ code # 200 /\ code > 200
      BY <2>2 DEF Refusal
    <3> QED BY <1>6, <3>1
  <2> QED BY <2>1, <2>2, LeadsNowhere
<1> QED BY <1>2, <1>3, <1>4, <1>5, <1>6

\* A connector that is told the call is over: what it leaves of the call, and
\* what it may have said.
LEMMA ReleaseLeads ==
  ASSUME NEW w \in WorkRecord, Sound(w.call), Paced(w.call), NEW excused,
         NEW u \in WorkRecord, u.call = w.call,
         w.call.sip \in {"INVITING_ACCEPTED", "INVITED_ACCEPTED", "INVITED_INITIAL"},
         NEW s \in {"INVITING_HANGUP", "INVITED_HANGUP", "INVITED_CANCELLED"},
         s = "INVITING_HANGUP" <=> w.call.sip = "INVITING_ACCEPTED",
         NEW v, v = ConnectorClose(Notify(InState(u, s), "Hangup"))
  PROVE  /\ Moves(w, v) /\ v.call.sip \notin Opened
         /\ \A m \in InFlight(v.out) : m \in InFlight(u.out) \/ Reason(v.call, m, excused)
         /\ w.call.sip = "INVITING_ACCEPTED" => v.call.dir = "out" /\ InvitePast(v.call)
         /\ w.call.sip = "INVITED_ACCEPTED" => v.call.dir = "in" /\ Accepted(v.call)
         /\ w.call.sip = "INVITED_INITIAL" => v.call.dir = "in"
<1> DEFINE x == InState(u, s)
           y == Notify(x, "Hangup")
<1>0. v = ConnectorClose(y)
  OBVIOUS
<1>1. NearlySound(w.call) /\ ConnectorSound(w.call) /\ MediaSound(w.call)
      /\ (w.call.sip \in Opened => w.call.peer # "none")
  BY DEF Sound, NearlySound
<1>2. s \in {"INVITING_HANGUP", "INVITED_HANGUP", "INVITED_CANCELLED"}
  OBVIOUS
<1>3. /\ x \in WorkRecord /\ x.call.sip = s /\ x.call.known = w.call.known
      /\ SameEnds(w, x) /\ SameMedia(w, x) /\ SameHistory(w, x) /\ x.out = u.out
  BY <1>2, InStateEffect DEF SipCallState, SameEnds, SameMedia, SameHistory, SameOut
<1> HIDE DEF x
<1>4. y \in WorkRecord /\ y.call = x.call /\ y.out = x.out
  BY <1>3, NotifyEffect DEF Ended, Event, SameOut
<1> HIDE DEF y
<1>5. Paced(y.call)
  BY <1>1, <1>2, <1>3, <1>4 DEF Paced, SameEnds, SameMedia, SameHistory, Incoming
<1>6. NearlySound(y.call)
  <2>1. ConnectorSound(x.call)
    BY <1>1, <1>2, <1>3 DEF ConnectorSound, SameEnds, Incoming
  <2>2. MediaSound(x.call)
    BY <1>1, <1>3 DEF MediaSound, SameEnds, SameMedia
  <2> QED BY <1>3, <1>4, <2>1, <2>2 DEF NearlySound, WorkRecord
<1>7. y.call.sip \notin {"NONE", "INVITING", "INVITED_INITIAL", "INVITED_ACCEPTED"}
  BY <1>2, <1>3, <1>4
<1>8. /\ Leads(y, v, excused) /\ v.call.sip \notin Opened
      /\ y.call.peer # "none" => v.call.stats # "unasked"
  BY <1>0, <1>4, <1>5, <1>6, <1>7, ConnectorCloseLeads, ConnectorCloseGoes
<1>9. /\ v.call.dir = w.call.dir
      /\ w.call.sip \in Opened => v.call.stats # "unasked"
      /\ w.call.invite # "unsent" => InvitePast(v.call)
      /\ w.call.stats # "unasked" => Accepted(v.call)
  BY <1>1, <1>2, <1>3, <1>4, <1>8
  DEF Leads, Moves, InvitePast, Accepted, SameEnds, SameMedia, SameHistory
<1>10. Moves(w, v)
  BY <1>1, <1>8, <1>9 DEF Leads, Moves, InvitePast, Accepted, Opened
<1>11. \A m \in InFlight(v.out) : m \in InFlight(u.out) \/ Reason(v.call, m, excused)
  BY <1>3, <1>4, <1>8 DEF Leads
<1>12. /\ w.call.sip = "INVITING_ACCEPTED" => v.call.dir = "out" /\ InvitePast(v.call)
       /\ w.call.sip = "INVITED_ACCEPTED" => v.call.dir = "in" /\ Accepted(v.call)
       /\ w.call.sip = "INVITED_INITIAL" => v.call.dir = "in"
  BY <1>1, <1>9 DEF ConnectorSound, Paced, Incoming, Opened, Accepted
<1> QED BY <1>8, <1>10, <1>11, <1>12

LEMMA InvitedResponseLeads ==
  ASSUME NEW w \in WorkRecord, Sound(w.call), Paced(w.call), NEW excused
  PROVE  /\ Leads(w, InvitedResponse(w), excused)
         /\ InvitedResponse(w).call.sip \in Opened => w.call.sip \in Opened
BY ConnectorCloseLeads, ConnectorCloseGoes, LeadsNowhere DEF InvitedResponse, Sound

\* The 200 to a BYE or a CANCEL needs its excuse.
LEMMA LaterRequestLeads ==
  ASSUME NEW w \in WorkRecord, Sound(w.call), Paced(w.call), NEW m, NEW excused,
         m = Request("BYE") => Response(200, "BYE") \in excused,
         m = Request("CANCEL") /\ w.call.sip = "INVITED_INITIAL" => Response(200, "CANCEL") \in excused
  PROVE  /\ Leads(w, LaterRequest(w, m), excused)
         /\ LaterRequest(w, m).call.sip = "INVITING_ACCEPTED" => w.call.sip = "INVITING_ACCEPTED"
<1> DEFINE v == LaterRequest(w, m)
           u == Send(w, Response(200, "BYE"))
<1>1. /\ u \in WorkRecord /\ u.call = w.call
      /\ InFlight(u.out) \subseteq InFlight(w.out) \cup {Response(200, "BYE")}
  <2>1. Response(200, "BYE") \in PageMessage
    BY Sendable
  <2>2. u \in WorkRecord /\ u.call = w.call /\ u.out = Append(w.out, Response(200, "BYE"))
    BY <2>1, SendEffect
  <2>3. w.out \in Seq(PageMessage)
    BY DEF WorkRecord
  <2> QED BY <2>2, <2>3, SMTT(30) DEF InFlight
<1>2. CASE m = Request("BYE") /\ w.call.sip = "INVITING_ACCEPTED"
  <2>1. v = ConnectorClose(Notify(InState(u, "INVITING_HANGUP"), "Hangup"))
    BY <1>2 DEF LaterRequest, HungUpByPeer
  <2> HIDE DEF u, v
  <2>2. /\ Moves(w, v) /\ v.call.sip \notin Opened
        /\ \A n \in InFlight(v.out) : n \in InFlight(u.out) \/ Reason(v.call, n, excused)
        /\ v.call.dir = "out" /\ InvitePast(v.call)
    BY <1>1, <1>2, <2>1, ReleaseLeads
  <2>3. Reason(v.call, Response(200, "BYE"), excused)
    BY <1>2 DEF Reason
  <2> QED BY <1>1, <2>2, <2>3 DEF Leads, Opened, v
<1>3. CASE m = Request("BYE") /\ w.call.sip = "INVITED_ACCEPTED"
  <2>1. v = ConnectorClose(Notify(InState(u, "INVITED_HANGUP"), "Hangup"))
    BY <1>3 DEF LaterRequest, HungUpByPeer
  <2> HIDE DEF u, v
  <2>2. /\ Moves(w, v) /\ v.call.sip \notin Opened
        /\ \A n \in InFlight(v.out) : n \in InFlight(u.out) \/ Reason(v.call, n, excused)
        /\ v.call.dir = "in" /\ Accepted(v.call)
    BY <1>1, <1>3, <2>1, ReleaseLeads, ZenonT(40)
  <2>3. Reason(v.call, Response(200, "BYE"), excused)
    BY <1>3 DEF Reason
  <2> QED BY <1>1, <2>2, <2>3 DEF Leads, Opened, v
<1>4. CASE m = Request("CANCEL") /\ w.call.sip = "INVITED_INITIAL"
  <2> DEFINE x == Send(w, Response(200, "CANCEL"))
             y == Send(x, Response(487, "INVITE"))
  <2>0. Response(200, "CANCEL") \in PageMessage /\ Response(487, "INVITE") \in PageMessage
    BY Sendable
  <2>1. v = ConnectorClose(Notify(InState(y, "INVITED_CANCELLED"), "Hangup"))
    BY <1>4 DEF LaterRequest, CancelledByPeer, Request
  <2>2. x \in WorkRecord /\ x.call = w.call /\ x.out = Append(w.out, Response(200, "CANCEL"))
    BY <2>0, SendEffect
  <2> HIDE DEF x
  <2>3. y \in WorkRecord /\ y.call = w.call /\ y.out = Append(x.out, Response(487, "INVITE"))
    BY <2>0, <2>2, SendEffect, SMTT(30)
  <2>4. InFlight(y.out) \subseteq
          InFlight(w.out) \cup {Response(200, "CANCEL"), Response(487, "INVITE")}
    <3>1. w.out \in Seq(PageMessage) /\ x.out \in Seq(PageMessage)
      BY <2>2 DEF WorkRecord
    <3>2. InFlight(x.out) \subseteq InFlight(w.out) \cup {Response(200, "CANCEL")}
      BY <2>2, <3>1 DEF InFlight
    <3> HIDE DEF y
    <3>3. InFlight(y.out) \subseteq InFlight(x.out) \cup {Response(487, "INVITE")}
      BY <2>3, <3>1 DEF InFlight
    <3> QED BY <3>2, <3>3
  <2> HIDE DEF u, y, v
  <2>5. /\ Moves(w, v) /\ v.call.sip \notin Opened
        /\ \A n \in InFlight(v.out) : n \in InFlight(y.out) \/ Reason(v.call, n, excused)
        /\ v.call.dir = "in"
    <3>1. y \in WorkRecord /\ y.call = w.call /\ w.call.sip = "INVITED_INITIAL"
      BY <1>4, <2>3
    <3> QED BY <2>1, <3>1, ReleaseLeads
  <2>6. /\ Reason(v.call, Response(200, "CANCEL"), excused)
        /\ Reason(v.call, Response(487, "INVITE"), excused)
    <3>1. /\ ~IsOk(Response(487, "INVITE").code) /\ Response(487, "INVITE").method = "INVITE"
          /\ Response(200, "CANCEL") \in excused
      BY <1>4, PageMessages
    <3> QED BY <2>5, <3>1, PageMessages DEF Reason
  <2> QED BY <2>4, <2>5, <2>6 DEF Leads, Opened, v
<1>5. CASE /\ ~(m = Request("BYE") /\ w.call.sip \in Opened)
           /\ ~(m = Request("CANCEL") /\ w.call.sip = "INVITED_INITIAL")
  <2>1. v = w
    BY <1>5 DEF LaterRequest, Opened
  <2> QED BY <2>1, LeadsNowhere
<1> QED BY <1>2, <1>3, <1>4, <1>5 DEF Opened

\* The transaction of the INVITE acknowledges a final response by itself.
LEMMA HeardInviteLeads ==
  ASSUME NEW w \in WorkRecord, Sound(w.call), Paced(w.call), w.call.invite # "unsent",
         NEW code \in AnyCode, NEW excused, code \in Refusal => Request("ACK") \in excused
  PROVE  /\ Leads(w, HeardInvite(w, code), excused)
         /\ HeardInvite(w, code).call.sip = w.call.sip
         /\ HeardInvite(w, code).call.known = w.call.known
         /\ HeardInvite(w, code).call.invite # "unsent"
<1> DEFINE i == IF code < 200 THEN "proceeding" ELSE "over"
           u == [w EXCEPT !.call.invite = i]
           v == HeardInvite(w, code)
<1>1. i \in InviteTransaction /\ i # "unsent"
  BY DEF InviteTransaction
<1>2. v = IF code \in Refusal THEN Send(u, Request("ACK")) ELSE u
  BY DEF HeardInvite, AnyCode, Refusal
<1> HIDE DEF i, v
<1>3. /\ u \in WorkRecord /\ SameSip(w, u) /\ SameEnds(w, u) /\ SameMedia(w, u)
      /\ u.call.invite = i /\ u.call.stats = w.call.stats /\ SameOut(w, u)
  BY <1>1, InviteEffect
<1> HIDE DEF u
<1>4. Moves(w, u)
  BY <1>1, <1>3 DEF Moves, Paced, InvitePast, Accepted, SameSip, SameEnds, SameMedia
<1>5. v \in WorkRecord /\ v.call = u.call
  BY <1>2, <1>3, PageMessages, SendEffect
<1>6. Moves(w, v)
  BY <1>4, <1>5 DEF Moves
<1>7. CASE code \in Refusal
  <2>1. v.out = Append(w.out, Request("ACK"))
    <3>1. Send(u, Request("ACK")).out = Append(u.out, Request("ACK"))
      BY <1>3, Sendable, SendEffect
    <3> QED BY <1>2, <1>3, <1>7, <3>1 DEF SameOut
  <2>2. Reason(v.call, Request("ACK"), excused)
    BY <1>7, PageMessages DEF Reason
  <2>3. Leads(w, v, excused)
    BY <1>6, <2>1, <2>2, PageMessages, LeadsSaying
  <2> QED BY <1>1, <1>3, <1>5, <2>3 DEF v, SameSip
<1>8. CASE code \notin Refusal
  <2>1. Leads(w, v, excused)
    BY <1>2, <1>3, <1>4, <1>8, LeadsSilently
  <2> QED BY <1>1, <1>3, <1>5, <2>1 DEF v, SameSip
<1> QED BY <1>7, <1>8

\* What a page makes of a message: it opens a dialled call for a 200 only, and
\* only while it waits for the answer to its INVITE.
LEMMA ReceiveLeads ==
  ASSUME NEW w \in WorkRecord, Sound(w.call), Paced(w.call), NEW m \in Message, NEW excused,
         m = Request("BYE") => Response(200, "BYE") \in excused,
         m = Request("CANCEL") /\ w.call.sip = "INVITED_INITIAL" => Response(200, "CANCEL") \in excused
  PROVE  /\ Leads(w, Receive(w, m), excused)
         /\ Receive(w, m).call.sip = "INVITING_ACCEPTED"
              => \/ w.call.sip = "INVITING_ACCEPTED"
                 \/ w.call.sip = "INVITING" /\ m.code = 200
<1> DEFINE v == Receive(w, m)
<1>1. m.code \in AnyCode
  BY DEF Message, AnyCode
<1>2. CASE /\ IsAnswer(m) /\ m.method = "INVITE"
           /\ w.call.invite \notin {"unsent", "over"}
  <2> DEFINE h == HeardInvite(w, m.code)
             allowed == excused \cup {Request("ACK")}
  <2>1. v = IF w.call.known THEN InvitingResponse(h, m.code) ELSE h
    BY <1>2 DEF Receive
  <2> HIDE DEF v
  <2>2. ASSUME NEW permitted, m.code \in Refusal => Request("ACK") \in permitted
        PROVE  /\ Leads(w, v, permitted)
               /\ v.call.sip = "INVITING_ACCEPTED"
                    => \/ w.call.sip = "INVITING_ACCEPTED"
                       \/ w.call.sip = "INVITING" /\ m.code = 200
               /\ m.code \in Refusal => InvitePast(v.call)
               /\ v.call.dir = w.call.dir
    <3>1. /\ Leads(w, h, permitted) /\ h.call.sip = w.call.sip
          /\ h.call.known = w.call.known /\ h.call.invite # "unsent"
      BY <1>1, <1>2, <2>2, HeardInviteLeads
    <3>2. Sound(h.call) /\ h \in WorkRecord /\ Paced(h.call)
      BY <3>1, HeardInviteGoes DEF Goes, Leads, Moves
    <3> HIDE DEF h
    <3>3. CASE w.call.known
      <4>1. /\ Leads(h, v, permitted)
            /\ v.call.sip = "INVITING_ACCEPTED"
                 => \/ h.call.sip = "INVITING_ACCEPTED"
                    \/ h.call.sip = "INVITING" /\ m.code = 200
            /\ m.code \in Refusal => v.call.sip # "INVITING"
        BY <1>1, <2>1, <3>2, <3>3, InvitingResponseLeads
      <4>2. Leads(w, v, permitted)
        BY <3>1, <4>1, LeadsFurther
      <4>3. m.code \in Refusal => InvitePast(v.call)
        BY <3>1, <4>1 DEF InvitePast, Leads, Moves
      <4> QED BY <3>1, <4>1, <4>2, <4>3 DEF Leads, Moves
    <3>4. CASE ~w.call.known
      <4>1. v = h
        BY <2>1, <3>4
      <4>2. w.call.sip = "NONE"
        BY <3>4 DEF Sound, NearlySound, ConnectorSound
      <4> QED BY <3>1, <4>1, <4>2 DEF InvitePast, Leads, Moves
    <3> QED BY <3>3, <3>4
  <2>3. CASE m.code \in Refusal
    <3>1. Leads(w, v, allowed) /\ InvitePast(v.call)
      BY <2>2, <2>3
    <3>2. Reason(v.call, Request("ACK"), excused)
      BY <3>1, PageMessages DEF Reason
    <3>3. Leads(w, v, excused)
      BY <3>1, <3>2, ExcuseDropped
    <3> QED BY <2>2, <3>3 DEF v
  <2>4. CASE m.code \notin Refusal
    BY <2>2, <2>4 DEF v
  <2> QED BY <2>3, <2>4
<1>3. CASE /\ IsAnswer(m) /\ m.method = "INVITE"
           /\ w.call.invite \in {"unsent", "over"}
  BY <1>3, LeadsNowhere DEF Receive
<1>4. CASE ~(IsAnswer(m) /\ m.method = "INVITE") /\ ~w.call.known
  BY <1>4, LeadsNowhere DEF Receive
<1>5. CASE ~IsAnswer(m) /\ w.call.known
  <2>1. v = LaterRequest(w, m)
    BY <1>5 DEF Receive
  <2> QED BY <2>1, LaterRequestLeads
<1>6. CASE /\ IsAnswer(m) /\ m.method # "INVITE" /\ w.call.known
           /\ w.call.dir = "out"
  <2>1. v = InvitingResponse(w, m.code)
    BY <1>6 DEF Receive
  <2>2. /\ Leads(w, InvitingResponse(w, m.code), excused)
        /\ InvitingResponse(w, m.code).call.sip = "INVITING_ACCEPTED"
             => \/ w.call.sip = "INVITING_ACCEPTED"
                \/ w.call.sip = "INVITING" /\ m.code = 200
    BY <1>1, InvitingResponseLeads
  <2> QED BY <2>1, <2>2
<1>7. CASE /\ IsAnswer(m) /\ m.method # "INVITE" /\ w.call.known
           /\ w.call.dir # "out"
  <2>1. v = InvitedResponse(w)
    BY <1>7 DEF Receive
  <2>2. /\ Leads(w, v, excused)
        /\ v.call.sip \in Opened => w.call.sip \in Opened
    BY <2>1, InvitedResponseLeads
  <2> HIDE DEF v
  <2>3. v.call.sip # "INVITING_ACCEPTED"
    <3>1. Sound(v.call) /\ v.call.dir = w.call.dir
      BY <2>1, <2>2, ReceiveGoes DEF Goes, Keeps, v
    <3> QED BY <1>7, <3>1 DEF Sound, NearlySound, ConnectorSound, Incoming
  <2> QED BY <2>2, <2>3 DEF v
<1> QED BY <1>2, <1>3, <1>4, <1>5, <1>6, <1>7

\* A timer runs only once the call has left its first state.
LEMMA TimeoutLeads ==
  ASSUME NEW w \in WorkRecord, Sound(w.call), Paced(w.call), CanTimeout(w.call), NEW excused
  PROVE  /\ Leads(w, Timeout(w), excused)
         /\ Timeout(w).call.sip = "INVITING_ACCEPTED" => w.call.sip = "INVITING_ACCEPTED"
<1> DEFINE silent == w.call.invite = "calling" \/ w.call.sip = "INVITING_CANCELLING"
           u == [w EXCEPT !.call.invite = "over"]
           over == IF silent THEN u ELSE w
           v == Timeout(w)
<1>1. v = IF over.call.known THEN ConnectorClose(over) ELSE over
  BY DEF Timeout
<1>2. NearlySound(w.call) /\ ConnectorSound(w.call)
  BY DEF Sound, NearlySound
<1>3. w.call.sip # "INVITED_ACCEPTED"
  BY <1>2 DEF CanTimeout, ConnectorSound, Incoming, Paced
<1>4. silent => w.call.invite # "unsent"
  BY DEF Paced, Incoming
<1>5. /\ Leads(w, over, excused) /\ over.call.sip = w.call.sip /\ Sound(over.call)
      /\ over \in WorkRecord /\ Paced(over.call)
  <2>1. CASE silent
    <3>1. /\ u \in WorkRecord /\ SameSip(w, u) /\ SameEnds(w, u) /\ SameMedia(w, u)
          /\ u.call.invite = "over" /\ u.call.stats = w.call.stats /\ SameOut(w, u)
          /\ Sound(u.call)
      BY InviteEffect, InviteGoes DEF InviteTransaction, Goes
    <3> HIDE DEF u
    <3>2. Moves(w, u)
      BY <1>4, <2>1, <3>1
      DEF Moves, Paced, InvitePast, Accepted, SameSip, SameEnds, SameMedia
    <3>3. Leads(w, u, excused)
      BY <3>1, <3>2, LeadsSilently
    <3> QED BY <2>1, <3>1, <3>2, <3>3 DEF Moves, SameSip
  <2>2. CASE ~silent
    BY <2>2, LeadsNowhere
  <2> QED BY <2>1, <2>2
<1> HIDE DEF over, v
<1>6. CASE over.call.known
  <2>1. Leads(over, v, excused) /\ v.call.sip \notin Opened
    BY <1>1, <1>3, <1>5, <1>6, ConnectorCloseLeads, ConnectorCloseGoes DEF Sound
  <2>2. Leads(w, v, excused)
    BY <1>5, <2>1, LeadsFurther
  <2> QED BY <2>1, <2>2 DEF Opened, v
<1>7. CASE ~over.call.known
  <2>1. v = over
    BY <1>1, <1>7
  <2> QED BY <1>5, <2>1 DEF v
<1> QED BY <1>6, <1>7

\* A called page at rest stays so whatever it hears.
LEMMA ReceiveRests ==
  ASSUME NEW w \in WorkRecord, Sound(w.call), Paced(w.call), w.call.dir = "in",
         Resting(w.call), NEW m
  PROVE  Resting(Receive(w, m).call)
<1>1. w.call.invite = "unsent" /\ w.call.sip \notin Opened
  BY DEF Paced, Resting, Opened
<1>2. CASE IsAnswer(m)
  <2>1. InvitedResponse(w) = w
    BY DEF InvitedResponse, Resting
  <2>2. Receive(w, m) = w
    BY <1>1, <1>2, <2>1 DEF Receive
  <2> QED BY <2>2
<1>3. CASE ~IsAnswer(m) /\ ~(m = Request("CANCEL") /\ w.call.sip = "INVITED_INITIAL")
  <2>1. LaterRequest(w, m) = w
    BY <1>1, <1>3 DEF LaterRequest, Opened
  <2>2. Receive(w, m) = w
    BY <1>3, <2>1 DEF Receive
  <2> QED BY <2>2
<1>4. CASE ~IsAnswer(m) /\ m = Request("CANCEL") /\ w.call.sip = "INVITED_INITIAL"
  <2> DEFINE a == Send(w, Response(200, "CANCEL"))
             b == Send(a, Response(487, "INVITE"))
             c == InState(b, "INVITED_CANCELLED")
             d == Notify(c, "Hangup")
             e == Released(d)
             f == ClosedEvent(e)
  <2>1. Receive(w, m) = ConnectorClose(d)
    <3>1. LaterRequest(w, m) = ConnectorClose(d)
      BY <1>4 DEF LaterRequest, CancelledByPeer, Request
    <3>2. w.call.known
      BY <1>4 DEF Sound, NearlySound, ConnectorSound
    <3> QED BY <1>4, <3>1, <3>2 DEF Receive
  <2>0. Response(200, "CANCEL") \in PageMessage /\ Response(487, "INVITE") \in PageMessage
    BY Sendable
  <2>2. a \in WorkRecord /\ a.call = w.call
    BY <2>0, SendEffect
  <2> HIDE DEF a
  <2>3. b \in WorkRecord /\ b.call = w.call
    BY <2>0, <2>2, SendEffect
  <2> HIDE DEF b
  <2>4. /\ c \in WorkRecord /\ c.call.sip = "INVITED_CANCELLED"
        /\ c.call.peer = w.call.peer /\ c.call.stats = w.call.stats
    BY <2>3, InStateEffect DEF SipCallState, SameMedia, SameHistory
  <2> HIDE DEF c
  <2>5. d \in WorkRecord /\ d.call = c.call
    BY <2>4, NotifyEffect DEF Ended, Event
  <2> HIDE DEF d
  <2>6. ConnectorClose(d) = f
    BY <2>4, <2>5 DEF ConnectorClose
  <2>7. /\ e \in WorkRecord /\ e.call.sip = "NONE"
        /\ e.call.peer = w.call.peer /\ e.call.stats = w.call.stats
    <3>1. /\ e \in WorkRecord /\ e.call.sip = "NONE"
          /\ SameMedia(d, e) /\ SameHistory(d, e)
      BY <2>5, ReleasedEffect
    <3> QED BY <2>4, <2>5, <3>1 DEF SameMedia, SameHistory
  <2> HIDE DEF e
  <2>8. f.call.sip = "NONE" /\ f.call.peer = "none" /\ f.call.stats = "unasked"
    <3>1. /\ SameSip(e, f) /\ SameMedia(e, f)
          /\ f.call.stats = IF e.call.peer # "none" /\ e.call.stats = "unasked"
                            THEN "asked" ELSE e.call.stats
      BY <2>7, ClosedEventEffect
    <3> QED BY <2>7, <3>1 DEF SameSip, SameMedia, Resting
  <2> QED BY <2>1, <2>6, <2>8 DEF Resting
<1> QED BY <1>2, <1>3, <1>4

-----------------------------------------------------------------------------
(* The steps of the pages. *)

LEMMA WorkStarts ==
  ASSUME NEW x \in CallRecord
  PROVE  /\ Work(x, FALSE) \in WorkRecord
         /\ Work(x, FALSE).call = x
         /\ Work(x, FALSE).out = <<>> /\ InFlight(Work(x, FALSE).out) = {}
BY DEF Work, WorkRecord, InFlight

\* What a page says is what the wires of Call carry.
LEMMA PagesSpeakSip ==
  /\ Seq(PageMessage) \subseteq Seq(Message)
  /\ \A method, code : Request(method) = Req(method) /\ Response(code, method) = Resp(code, method)
<1>1. PageMessage \subseteq Message
  BY DEF PageMessage, Message, Method
<1>2. Seq(PageMessage) \subseteq Seq(Message)
  BY <1>1
<1> QED BY <1>2 DEF Request, Req, Response, Resp

LEMMA WiresJoin ==
  ASSUME NEW a \in Seq(Message), NEW b \in Seq(Message)
  PROVE  /\ a \o b \in Seq(Message)
         /\ InFlight(a \o b) \subseteq InFlight(a) \cup InFlight(b)
BY DEF InFlight

\* The dialling page steps: its INVITE may go over, never come back, and it
\* responds only to a BYE.
LEMMA CallerStep ==
  ASSUME PagesInv, NEW v, NEW rest \in Seq(Message), InFlight(rest) \subseteq InFlight(toCaller),
         OnCaller(v, rest), UNCHANGED offered,
         Sound(v.call), Paced(v.call), v.call.dir # "in", v.out \in Seq(PageMessage),
         caller.invite # "unsent" => v.call.invite # "unsent",
         InvitePast(caller) => InvitePast(v.call),
         \/ /\ v.out = <<Request("INVITE")>>
            /\ caller.invite = "unsent" /\ v.call.invite # "unsent"
         \/ \A m \in InFlight(v.out) : /\ m # Request("INVITE") /\ InvitePast(v.call)
                                       /\ m.code # 0 => server \in Closing,
         v.call.sip = "INVITING_ACCEPTED" => Accepted(callee)
  PROVE  PagesInv'
<1>1. /\ caller' = v.call /\ toCaller' = rest /\ fromCaller' = fromCaller \o v.out
      /\ UNCHANGED <<server, serverReq, client, clientReq, toCallee, fromCallee, callee, offered>>
      /\ UNCHANGED <<serverKnown, clientKnown, bridged, up>>
  BY DEF OnCaller, gatewayVars
<1>2. PagesSound'
  BY <1>1 DEF PagesInv, PagesSound
<1>3. InvitePast(caller) => InvitePast(caller)'
  BY <1>1 DEF InvitePast
<1>4. Due => Due'
  BY <1>1, <1>3 DEF Due, Accepted
<1>5. ServerSide'
  BY <1>1, <1>3, <1>4 DEF PagesInv, ServerSide, ToCallerFits
<1>6. ClientSide'
  BY <1>1, <1>3 DEF PagesInv, ClientSide, ToCalleeFits
<1>7. v.out \in Seq(Message) /\ fromCaller \in Seq(Message) /\ Request("INVITE") = Req("INVITE")
  BY PagesSpeakSip DEF PagesInv, FromPages
<1>8. /\ fromCaller' \in Seq(Message)
      /\ InFlight(fromCaller') \subseteq InFlight(fromCaller) \cup InFlight(v.out)
  BY <1>1, <1>7, WiresJoin
<1>9. /\ Req("INVITE") \in Message /\ Req("INVITE").code = 0
      /\ InFlight(<<Req("INVITE")>>) = {Req("INVITE")}
  BY LiteralHolds, RequestIsMessage DEF Method, Req
<1>10. \A m \in InFlight(v.out) : /\ m = Req("INVITE") \/ InvitePast(v.call)
                                  /\ m.code # 0 => server \in Closing
                                  /\ v.call.invite # "unsent"
  BY <1>7, <1>9 DEF InvitePast
<1>11. FromPages'
  <2>1. \A m \in InFlight(fromCaller') : m # Req("INVITE") => InvitePast(caller)'
    BY <1>1, <1>3, <1>8, <1>10 DEF PagesInv, FromPages, FromCallerFits, InvitePast
  <2>2. fromCallee' \in Seq(Message) /\ \A m \in InFlight(fromCallee') : IsOk(m.code) => Due'
    BY <1>1, <1>4 DEF PagesInv, FromPages, FromCalleeFits
  <2> QED BY <1>8, <2>1, <2>2 DEF FromPages, FromCallerFits, FromCalleeFits
<1>12. OpenedMeansAccepted'
  BY <1>1 DEF OpenedMeansAccepted, Accepted
<1>13. DialFirst'
  <2>1. v.out # <<>> => v.call.invite # "unsent"
    <3>1. v.out # <<>> => v.out[1] \in InFlight(v.out)
      BY <1>7 DEF InFlight
    <3> QED BY <1>10, <3>1
  <2>2. fromCaller' # <<>> => fromCaller # <<>> \/ v.out # <<>>
    BY <1>1, <1>7
  <2> QED BY <1>1, <2>1, <2>2 DEF PagesInv, DialFirst
<1>14. GatewayInv'
  <2>1. GatewayTypeOK'
    BY <1>1, <1>8 DEF PagesInv, GatewayInv, GatewayTypeOK
  <2>2. RegistryMatchesState' /\ LegsAgree' /\ CallerWaitsOnLiveLeg' /\ CalleeAnswersInvite'
    BY <1>1 DEF PagesInv, GatewayInv, RegistryMatchesState, Revived, LegsAgree, CallerWaitsOnLiveLeg,
                CalleeAnswersInvite, Waiting, Unused
  <2>3. CallerAnswersBye'
    BY <1>1, <1>8, <1>10 DEF PagesInv, GatewayInv, CallerAnswersBye, Closing
  <2>4. InviteLeads'
    <3>1. CASE v.out = <<Request("INVITE")>> /\ caller.invite = "unsent"
      <4>1. fromCaller = <<>> /\ server = "NONE"
        BY <3>1 DEF PagesInv, DialFirst
      <4>2. fromCaller' = <<Req("INVITE")>>
        BY <1>1, <1>7, <3>1, <4>1
      <4> QED BY <1>1, <4>1, <4>2 DEF InviteLeads
    <3>2. CASE \A m \in InFlight(v.out) : m # Request("INVITE")
      <4>1. \A i \in 1..Len(fromCaller') : fromCaller'[i] = Req("INVITE") =>
              i \in 1..Len(fromCaller) /\ fromCaller[i] = Req("INVITE")
        BY <1>1, <1>7, <3>2 DEF InFlight
      <4> QED BY <1>1, <4>1 DEF PagesInv, GatewayInv, InviteLeads
    <3> QED BY <3>1, <3>2
  <2> QED BY <2>1, <2>2, <2>3, <2>4 DEF GatewayInv
<1> QED BY <1>2, <1>5, <1>6, <1>11, <1>12, <1>13, <1>14 DEF PagesInv

\* The called page steps: once its user has accepted, that is never undone, and
\* it responds to its INVITE or to what follows an answer.
LEMMA CalleeStep ==
  ASSUME PagesInv, NEW v, NEW rest \in Seq(Message), InFlight(rest) \subseteq InFlight(toCallee),
         OnCallee(v, rest), offered' \in BOOLEAN, offered' => Resting(v.call),
         v.call.dir = "none" => offered',
         Sound(v.call), Paced(v.call), v.call.dir # "out", v.out \in Seq(PageMessage),
         Accepted(callee) => Accepted(v.call),
         \A m \in InFlight(v.out) :
           /\ IsOk(m.code) => Accepted(v.call) \/ InvitePast(caller)
           /\ m.code # 0 /\ m.method # "INVITE" => client \notin Unused
  PROVE  PagesInv'
<1>1. /\ callee' = v.call /\ toCallee' = rest /\ fromCallee' = fromCallee \o v.out
      /\ UNCHANGED <<server, serverReq, client, clientReq, toCaller, fromCaller, caller>>
      /\ UNCHANGED <<serverKnown, clientKnown, bridged, up>>
  BY DEF OnCallee, gatewayVars
<1>2. PagesSound'
  BY <1>1 DEF PagesInv, PagesSound
<1>3. Accepted(callee) => Accepted(callee)'
  BY <1>1 DEF Accepted
<1>4. Due => Due'
  BY <1>1, <1>3 DEF Due, InvitePast
<1>5. ServerSide'
  BY <1>1, <1>4 DEF PagesInv, ServerSide, ToCallerFits, InvitePast
<1>6. ClientSide'
  BY <1>1 DEF PagesInv, ClientSide, ToCalleeFits, InvitePast
<1>7. /\ fromCallee' \in Seq(Message)
      /\ InFlight(fromCallee') \subseteq InFlight(fromCallee) \cup InFlight(v.out)
  <2>1. v.out \in Seq(Message) /\ fromCallee \in Seq(Message)
    BY PagesSpeakSip DEF PagesInv, FromPages
  <2> QED BY <1>1, <2>1, WiresJoin
<1>8. FromPages'
  <2>1. \A m \in InFlight(fromCallee') : IsOk(m.code) => Due'
    BY <1>1, <1>4, <1>7 DEF PagesInv, FromPages, FromCalleeFits, Due, Accepted, InvitePast
  <2>2. /\ fromCaller' \in Seq(Message)
        /\ \A m \in InFlight(fromCaller') : m # Req("INVITE") => InvitePast(caller)'
    BY <1>1 DEF PagesInv, FromPages, FromCallerFits, InvitePast
  <2> QED BY <1>7, <2>1, <2>2 DEF FromPages, FromCallerFits, FromCalleeFits
<1>9. OpenedMeansAccepted'
  BY <1>1, <1>3 DEF PagesInv, OpenedMeansAccepted, Accepted
<1>10. DialFirst'
  BY <1>1 DEF PagesInv, DialFirst
<1>11. GatewayInv'
  <2>1. GatewayTypeOK'
    BY <1>1, <1>7 DEF PagesInv, GatewayInv, GatewayTypeOK
  <2>2. /\ RegistryMatchesState' /\ LegsAgree' /\ CallerWaitsOnLiveLeg'
        /\ InviteLeads' /\ CallerAnswersBye'
    BY <1>1 DEF PagesInv, GatewayInv, RegistryMatchesState, Revived, LegsAgree, CallerWaitsOnLiveLeg,
                InviteLeads, CallerAnswersBye, Waiting, Closing
  <2>3. CalleeAnswersInvite'
    BY <1>1, <1>7 DEF PagesInv, GatewayInv, CalleeAnswersInvite, Unused
  <2> QED BY <2>1, <2>2, <2>3 DEF GatewayInv
<1> QED BY <1>2, <1>5, <1>6, <1>8, <1>9, <1>10, <1>11 DEF PagesInv

\* A handler of the dialling page.
LEMMA CallerMoves ==
  ASSUME PagesInv, NEW v, NEW rest \in Seq(Message), InFlight(rest) \subseteq InFlight(toCaller),
         OnCaller(v, rest), UNCHANGED offered, NEW excused,
         Leads(Work(caller, FALSE), v, excused), Sound(v.call),
         excused # {} => InvitePast(caller) /\ server \in Closing,
         Request("INVITE") \notin excused,
         v.call.sip = "INVITING_ACCEPTED" => Accepted(callee)
  PROVE  PagesInv'
<1>1. caller \in CallRecord /\ caller.dir # "in"
  BY DEF PagesInv, PagesSound, Sound, NearlySound
<1> DEFINE w == Work(caller, FALSE)
<1>2. w \in WorkRecord /\ w.call = caller /\ InFlight(w.out) = {}
  BY <1>1, WorkStarts
<1> HIDE DEF w
<1>3. Leads(w, v, excused)
  BY DEF w
<1>4. /\ Paced(v.call) /\ v.call.dir # "in" /\ v.out \in Seq(PageMessage)
      /\ caller.invite # "unsent" => v.call.invite # "unsent"
      /\ InvitePast(caller) => InvitePast(v.call)
  BY <1>1, <1>2, <1>3 DEF Leads, Moves, WorkRecord
<1>5. \A m \in InFlight(v.out) : /\ m # Request("INVITE") /\ InvitePast(v.call)
                                 /\ m.code # 0 => server \in Closing
  BY <1>2, <1>3, <1>4 DEF Leads, Reason
<1> QED BY <1>4, <1>5, CallerStep

\* The one that sends the INVITE.
LEMMA CallerDialling ==
  ASSUME PagesInv, NEW v, OnCaller(v, toCaller), UNCHANGED offered,
         Dials(Work(caller, FALSE), v), Sound(v.call)
  PROVE  PagesInv'
<1>1. caller \in CallRecord /\ caller.dir # "in" /\ toCaller \in Seq(Message)
  BY DEF PagesInv, PagesSound, Sound, NearlySound, ServerSide
<1> DEFINE w == Work(caller, FALSE)
<1>2. w \in WorkRecord /\ w.call = caller /\ w.out = <<>>
  BY <1>1, WorkStarts
<1> HIDE DEF w
<1>3. Dials(w, v)
  BY DEF w
<1>4. /\ Paced(v.call) /\ v.call.dir # "in" /\ v.out \in Seq(PageMessage)
      /\ InvitePast(caller) => InvitePast(v.call)
      /\ v.out = <<Request("INVITE")>> /\ v.call.sip = "INVITING"
      /\ caller.invite = "unsent" /\ v.call.invite # "unsent"
  <2>1. Append(<<>>, Request("INVITE")) = <<Request("INVITE")>>
    OBVIOUS
  <2>2. v.out = <<Request("INVITE")>>
    BY <1>2, <1>3, <2>1 DEF Dials
  <2> QED BY <1>1, <1>2, <1>3, <2>2 DEF Dials, Moves, WorkRecord
<1> QED BY <1>1, <1>4, CallerStep

\* A handler of the called page.
LEMMA CalleeMoves ==
  ASSUME PagesInv, NEW v, NEW rest \in Seq(Message), InFlight(rest) \subseteq InFlight(toCallee),
         OnCallee(v, rest), offered' \in BOOLEAN, offered' => Resting(v.call),
         callee.dir = "none" => offered', NEW excused,
         Leads(Work(callee, FALSE), v, excused), Sound(v.call),
         excused # {} => InvitePast(caller) /\ client \notin Unused
  PROVE  PagesInv'
<1>1. callee \in CallRecord /\ callee.dir # "out"
  BY DEF PagesInv, PagesSound, Sound, NearlySound
<1> DEFINE w == Work(callee, FALSE)
<1>2. w \in WorkRecord /\ w.call = callee /\ InFlight(w.out) = {}
  BY <1>1, WorkStarts
<1> HIDE DEF w
<1>3. Leads(w, v, excused)
  BY DEF w
<1>4. /\ Paced(v.call) /\ v.call.dir # "out" /\ v.out \in Seq(PageMessage)
      /\ v.call.dir = callee.dir
      /\ Accepted(callee) => Accepted(v.call)
  BY <1>1, <1>2, <1>3 DEF Leads, Moves, WorkRecord
<1>5. \A m \in InFlight(v.out) :
        /\ IsOk(m.code) => Accepted(v.call) \/ InvitePast(caller)
        /\ m.code # 0 /\ m.method # "INVITE" => client \notin Unused
  BY <1>2, <1>3, <1>4 DEF Leads, Reason
<1> QED BY <1>4, <1>5, CalleeStep

\* The two pages as the handlers find them.
LEMMA PagesAtWork ==
  ASSUME PagesInv
  PROVE  /\ Work(caller, FALSE) \in WorkRecord /\ Work(caller, FALSE).call = caller
         /\ Sound(caller) /\ Paced(caller) /\ caller.dir # "in"
         /\ caller.sip = "INVITING_ACCEPTED" => Accepted(callee)
         /\ caller.sip # "INVITED_ACCEPTED"
         /\ Work(callee, FALSE) \in WorkRecord /\ Work(callee, FALSE).call = callee
         /\ Sound(callee) /\ Paced(callee) /\ callee.dir # "out"
         /\ offered \in BOOLEAN /\ (offered => Resting(callee))
         /\ callee.dir = "none" => offered
<1>1. caller \in CallRecord /\ callee \in CallRecord
  BY DEF PagesInv, PagesSound, Sound, NearlySound
<1>2. caller.sip # "INVITED_ACCEPTED"
  BY DEF PagesInv, PagesSound, Sound, NearlySound, ConnectorSound, Incoming
<1> QED BY <1>1, <1>2, WorkStarts DEF PagesInv, PagesSound, OpenedMeansAccepted, Accepted

\* What is left on a wire when nothing is taken from it.
LEMMA NothingTaken ==
  ASSUME PagesInv
  PROVE  toCaller \in Seq(Message) /\ toCallee \in Seq(Message)
BY DEF PagesInv, ServerSide, ClientSide

LEMMA UserDialsStep ==
  ASSUME PagesInv, UserDials
  PROVE  PagesInv'
<1>1. PICK media \in Media : OnCaller(Dial(FALSE, media), toCaller)
  BY DEF UserDials, CallerDoesNow
<1> DEFINE v == Dial(FALSE, media)
<1>2. UNCHANGED offered /\ caller.dir = "none"
  BY DEF UserDials, CallerDoesNow
<1>3. /\ v.out = <<>> /\ v.call.dir = "out" /\ v.call.known /\ v.call.linked
      /\ v.call.stats = "unasked" /\ v.call.invite = "unsent"
      /\ \/ v.call.sip = "NONE" /\ v.call.peer = "none" /\ v.call.task = "none"
         \/ v.call.sip = "INVITING_INITIAL" /\ v.call.peer = "new" /\ v.call.task = "createOffer"
      /\ v.call \in CallRecord
  BY DEF Dial, Work, NoCallYet, CallRecord, Direction, SipCallState, PeerState, Task, Stats,
         InviteTransaction
<1> HIDE DEF v
<1>4. Sound(v.call) /\ Paced(v.call)
  BY <1>3 DEF Sound, NearlySound, ConnectorSound, MediaSound, Paced, Incoming, Opened
<1>5. caller.invite = "unsent" /\ ~InvitePast(caller)
  BY <1>2 DEF PagesInv, PagesSound, Paced, InvitePast
<1>6. v.out \in Seq(PageMessage) /\ InFlight(v.out) = {}
  BY <1>3 DEF InFlight
<1>7. OnCaller(v, toCaller)
  BY <1>1 DEF v
<1>8. toCaller \in Seq(Message)
  BY NothingTaken
<1> QED BY <1>2, <1>3, <1>4, <1>5, <1>6, <1>7, <1>8, CallerStep

LEMMA UserAnswersStep ==
  ASSUME PagesInv, UserAnswers
  PROVE  PagesInv'
<1> DEFINE w == Work(callee, FALSE)
<1>1. /\ w \in WorkRecord /\ w.call = callee /\ Sound(w.call) /\ Paced(w.call)
      /\ w.call.sip # "INVITED_ACCEPTED" /\ w.call.dir = "in"
  BY PagesAtWork DEF UserAnswers, Resting
<1>2. offered' = FALSE /\ toCallee \in Seq(Message) /\ callee.dir # "none"
  BY NothingTaken DEF UserAnswers
<1>3. CASE \E media \in Media : OnCallee(Accept(w, media), toCallee)
  <2>1. PICK media \in Media : OnCallee(Accept(w, media), toCallee)
    BY <1>3
  <2>2. Leads(w, Accept(w, media), {})
    BY <1>1, AcceptLeads
  <2>3. Sound(Accept(w, media).call)
    <3>1. Goes(w, Accept(w, media))
      BY <1>1, MediaAssumption, AcceptGoes
    <3> QED BY <3>1 DEF Goes
  <2> QED BY <1>2, <2>1, <2>2, <2>3, CalleeMoves
<1>4. CASE OnCallee(Reject(w), toCallee)
  <2>1. Leads(w, Reject(w), {}) /\ Sound(Reject(w).call)
    BY <1>1, RejectLeads, RejectGoes DEF Goes
  <2> QED BY <1>2, <1>4, <2>1, CalleeMoves
<1> QED BY <1>3, <1>4 DEF UserAnswers

LEMMA EndsStep ==
  ASSUME PagesInv, Ends
  PROVE  PagesInv'
<1>1. CASE MayEnd(caller) /\ CallerDoesNow(Close(Work(caller, FALSE)))
  <2> DEFINE w == Work(caller, FALSE)
  <2>1. w \in WorkRecord /\ w.call = caller /\ Sound(w.call) /\ Paced(w.call)
    BY PagesAtWork
  <2> HIDE DEF w
  <2>2. Leads(w, Close(w), {}) /\ Sound(Close(w).call) /\ Close(w).call.sip = w.call.sip
    BY <2>1, CloseLeads, CloseGoes, CloseEffect DEF Goes, SameSip
  <2>3. OnCaller(Close(w), toCaller) /\ UNCHANGED offered
    BY <1>1 DEF CallerDoesNow, w
  <2>4. toCaller \in Seq(Message) /\ (Close(w).call.sip = "INVITING_ACCEPTED" => Accepted(callee))
    BY <2>1, <2>2, NothingTaken, PagesAtWork
  <2>5. Leads(Work(caller, FALSE), Close(w), {})
    BY <2>2 DEF w
  <2> QED BY <2>2, <2>3, <2>4, <2>5, CallerMoves
<1>2. CASE MayEnd(callee) /\ CalleeDoesNow(Close(Work(callee, FALSE)))
  <2> DEFINE w == Work(callee, FALSE)
  <2>1. w \in WorkRecord /\ w.call = callee /\ Sound(w.call) /\ Paced(w.call)
    BY PagesAtWork
  <2>2. offered \in BOOLEAN /\ ~offered /\ callee.dir # "none"
    BY <1>2, PagesAtWork DEF MayEnd, Resting
  <2> HIDE DEF w
  <2>3. Leads(w, Close(w), {}) /\ Sound(Close(w).call)
    BY <2>1, CloseLeads, CloseGoes DEF Goes
  <2>4. OnCallee(Close(w), toCallee) /\ UNCHANGED offered
    BY <1>2 DEF CalleeDoesNow, w
  <2>5. Leads(Work(callee, FALSE), Close(w), {})
    BY <2>3 DEF w
  <2> QED BY <2>2, <2>3, <2>4, <2>5, NothingTaken, CalleeMoves
<1> QED BY <1>1, <1>2 DEF Ends

\* The callbacks and timers of the dialling page.
LEMMA CallerLoops ==
  ASSUME PagesInv, NEW v \in Loop(caller), CallerDoesNow(v)
  PROVE  PagesInv'
<1> DEFINE w == Work(caller, FALSE)
<1>1. /\ w \in WorkRecord /\ w.call = caller /\ Sound(w.call) /\ Paced(w.call)
      /\ w.call.sip # "INVITED_ACCEPTED"
  BY PagesAtWork
<1>2. /\ OnCaller(v, toCaller) /\ UNCHANGED offered /\ toCaller \in Seq(Message)
      /\ w.call.sip = "INVITING_ACCEPTED" => Accepted(callee)
  BY <1>1, NothingTaken, PagesAtWork DEF CallerDoesNow
<1>3. \/ w.call.task # "none" /\ v \in {TaskDone(w), TaskFailed(w)}
      \/ v \in {StatsGiven(w), StatsFailed(w)}
      \/ CanTimeout(w.call) /\ v = Timeout(w)
  BY <1>1 DEF Loop
<1> HIDE DEF w
<1>4. (Leads(w, v, {}) \/ Dials(w, v)) /\ Sound(v.call)
      /\ (v.call.sip = "INVITING_ACCEPTED" => w.call.sip = "INVITING_ACCEPTED")
  <2>1. CASE w.call.task # "none" /\ v = TaskDone(w)
    BY <1>1, <2>1, TaskDoneLeads, TaskDoneGoes DEF Goes
  <2>2. CASE v = TaskFailed(w)
    BY <1>1, <2>2, TaskFailedLeads, TaskFailedGoes DEF Goes
  <2>3. CASE v = StatsGiven(w)
    BY <1>1, <2>3, StatsComeLeads, StatsGivenGoes DEF Goes, Opened
  <2>4. CASE v = StatsFailed(w)
    BY <1>1, <2>4, StatsComeLeads, StatsGivenGoes DEF Goes
  <2>5. CASE CanTimeout(w.call) /\ v = Timeout(w)
    BY <1>1, <2>5, TimeoutLeads, TimeoutGoes DEF Goes
  <2> QED BY <1>3, <2>1, <2>2, <2>3, <2>4, <2>5
<1>5. Leads(Work(caller, FALSE), v, {}) \/ Dials(Work(caller, FALSE), v)
  BY <1>4 DEF w
<1> QED BY <1>2, <1>4, <1>5, CallerMoves, CallerDialling

\* Those of the called page: at rest it has nothing to wait for.
LEMMA CalleeLoops ==
  ASSUME PagesInv, NEW v \in Loop(callee), CalleeDoesNow(v)
  PROVE  PagesInv'
<1> DEFINE w == Work(callee, FALSE)
<1>1. /\ w \in WorkRecord /\ w.call = callee /\ Sound(w.call) /\ Paced(w.call)
      /\ w.call.dir # "out" /\ offered \in BOOLEAN
  BY PagesAtWork
<1>2. OnCallee(v, toCallee) /\ UNCHANGED offered /\ toCallee \in Seq(Message)
  BY NothingTaken DEF CalleeDoesNow
<1>3. \/ w.call.task # "none" /\ v \in {TaskDone(w), TaskFailed(w)}
      \/ w.call.stats = "asked" /\ v \in {StatsGiven(w), StatsFailed(w)}
      \/ CanTimeout(w.call) /\ v = Timeout(w)
  BY <1>1 DEF Loop
<1>4. ~offered
  <2>1. MediaSound(w.call) /\ w.call.task \in Task
    BY <1>1 DEF Sound, NearlySound, CallRecord
  <2>2. w.call.invite = "unsent"
    BY <1>1 DEF Paced
  <2>3. ~Resting(w.call)
    BY <1>3, <2>1, <2>2 DEF Resting, MediaSound, CanTimeout, Task
  <2> QED BY <1>1, <2>3, PagesAtWork
<1> HIDE DEF w
<1>5. Leads(w, v, {}) /\ Sound(v.call)
  <2>1. CASE w.call.task # "none" /\ v = TaskDone(w)
    BY <1>1, <2>1, TaskDoneLeads, TaskDoneGoes DEF Goes, Dials
  <2>2. CASE v = TaskFailed(w)
    BY <1>1, <2>2, TaskFailedLeads, TaskFailedGoes DEF Goes
  <2>3. CASE v = StatsGiven(w)
    BY <1>1, <2>3, StatsComeLeads, StatsGivenGoes DEF Goes
  <2>4. CASE v = StatsFailed(w)
    BY <1>1, <2>4, StatsComeLeads, StatsGivenGoes DEF Goes
  <2>5. CASE CanTimeout(w.call) /\ v = Timeout(w)
    BY <1>1, <2>5, TimeoutLeads, TimeoutGoes DEF Goes
  <2> QED BY <1>3, <2>1, <2>2, <2>3, <2>4, <2>5
<1>6. Leads(Work(callee, FALSE), v, {})
  BY <1>5 DEF w
<1>7. offered' \in BOOLEAN /\ ~offered' /\ callee.dir # "none"
  BY <1>1, <1>2, <1>4, PagesAtWork
<1> QED BY <1>2, <1>5, <1>6, <1>7, CalleeMoves

\* What the dialling page makes of a message.  Whatever is not about its
\* INVITE finds the INVITE over, and a 200 that opens the call was due.
LEMMA CallerTakesStep ==
  ASSUME PagesInv, toCaller # <<>>, NEW v \in Hears(caller, Head(toCaller)),
         OnCaller(v, Tail(toCaller)), UNCHANGED offered
  PROVE  PagesInv'
<1> DEFINE w == Work(caller, FALSE)
           m == Head(toCaller)
           rest == Tail(toCaller)
<1>1. /\ w \in WorkRecord /\ w.call = caller /\ Sound(w.call) /\ Paced(w.call)
      /\ w.call.dir # "in" /\ w.call.sip # "INVITED_ACCEPTED"
      /\ w.call.sip = "INVITING_ACCEPTED" => Accepted(callee)
  BY PagesAtWork
<1>2. /\ m \in Message /\ m \in InFlight(toCaller)
      /\ rest \in Seq(Message) /\ InFlight(rest) \subseteq InFlight(toCaller)
  BY NothingTaken, TailHolds
<1>3. /\ m # Request("INVITE")
      /\ m.method # "INVITE" => InvitePast(caller)
      /\ IsOk(m.code) => Due
  BY <1>2, PagesSpeakSip DEF PagesInv, ServerSide, ToCallerFits
<1>4. /\ m = Request("BYE") => InvitePast(caller) /\ server \in Closing
      /\ w.call.sip = "INVITING" /\ m.code = 200 => Accepted(callee)
  <2>1. m = Request("BYE") => m.method # "INVITE"
    BY DEF Request
  <2>2. m.code = 200 => IsOk(m.code)
    BY DEF IsOk
  <2>3. m = Request("BYE") => server \in Closing
    BY <1>2, PagesSpeakSip DEF PagesInv, GatewayInv, CallerAnswersBye
  <2> QED BY <1>1, <1>3, <2>1, <2>2, <2>3 DEF Due, InvitePast
<1>5. \/ v = w
      \/ v = Send(w, Response(481, "BYE")) /\ m = Request("BYE")
      \/ v = InvitingResponse(w, m.code)
      \/ v = Receive(w, m)
  BY <1>3 DEF Hears
<1>6. OnCaller(v, rest)
  OBVIOUS
<1> HIDE DEF m, rest
<1>7. SUFFICES \E excused : /\ Leads(w, v, excused) /\ Sound(v.call)
                            /\ excused # {} => InvitePast(caller) /\ server \in Closing
                            /\ Request("INVITE") \notin excused
                            /\ v.call.sip = "INVITING_ACCEPTED" => Accepted(callee)
  BY <1>2, <1>6, CallerMoves
<1> HIDE DEF w
<1>8. CASE v = w
  BY <1>1, <1>8, LeadsNowhere
<1>9. CASE v = Send(w, Response(481, "BYE")) /\ m = Request("BYE")
  <2>1. Response(481, "BYE") \in PageMessage
    BY Sendable
  <2>2. /\ v \in WorkRecord /\ v.call = w.call /\ v.out = Append(w.out, Response(481, "BYE"))
    BY <1>1, <1>9, <2>1, SendEffect
  <2>3. Moves(w, v)
    BY <1>1, <2>2 DEF Moves
  <2> DEFINE excused == {Response(481, "BYE")}
  <2>4. Reason(v.call, Response(481, "BYE"), excused)
    BY DEF Reason
  <2>5. Leads(w, v, excused)
    BY <1>1, <2>1, <2>2, <2>3, <2>4, LeadsSaying
  <2>6. Request("INVITE") \notin excused
    BY PageMessages DEF Request
  <2> QED BY <1>1, <1>4, <1>9, <2>2, <2>5, <2>6
<1>10. CASE v = InvitingResponse(w, m.code)
  <2>1. m.code \in AnyCode
    BY <1>2 DEF Message, AnyCode
  <2>2. /\ Leads(w, v, {})
        /\ v.call.sip = "INVITING_ACCEPTED"
             => \/ w.call.sip = "INVITING_ACCEPTED"
                \/ w.call.sip = "INVITING" /\ m.code = 200
    BY <1>1, <1>10, <2>1, InvitingResponseLeads
  <2>3. Sound(v.call)
    BY <1>1, <1>10, InvitingResponseGoes DEF Goes
  <2> QED BY <1>1, <1>4, <2>2, <2>3
<1>11. CASE v = Receive(w, m)
  <2> DEFINE excused == IF m = Request("BYE") THEN {Response(200, "BYE")} ELSE {}
  <2>0. Response(200, "BYE") # Request("INVITE")
    BY PageMessages DEF Request
  <2>1. /\ m = Request("BYE") => Response(200, "BYE") \in excused
        /\ excused # {} => InvitePast(caller) /\ server \in Closing
        /\ Request("INVITE") \notin excused
        /\ w.call.sip # "INVITED_INITIAL"
    BY <1>1, <1>4, <2>0 DEF Sound, NearlySound, ConnectorSound, Incoming
  <2> HIDE DEF excused
  <2>2. /\ Leads(w, v, excused)
        /\ v.call.sip = "INVITING_ACCEPTED"
             => \/ w.call.sip = "INVITING_ACCEPTED"
                \/ w.call.sip = "INVITING" /\ m.code = 200
    BY <1>1, <1>2, <1>11, <2>1, ReceiveLeads
  <2>3. Sound(v.call)
    BY <1>1, <1>11, ReceiveGoes DEF Goes
  <2> QED BY <1>1, <1>4, <2>1, <2>2, <2>3
<1> QED BY <1>5, <1>8, <1>9, <1>10, <1>11

\* What the called page makes of a message: the INVITE rings, and only a
\* CANCEL, sent when the caller has given up, is answered 200 before the user
\* has accepted.
LEMMA CalleeTakesStep ==
  ASSUME PagesInv, toCallee # <<>>, NEW v \in Hears(callee, Head(toCallee)),
         OnCallee(v, Tail(toCallee)), UNCHANGED offered
  PROVE  PagesInv'
<1> DEFINE w == Work(callee, FALSE)
           m == Head(toCallee)
           rest == Tail(toCallee)
<1>1. /\ w \in WorkRecord /\ w.call = callee /\ Sound(w.call) /\ Paced(w.call)
      /\ w.call.dir # "out" /\ offered \in BOOLEAN /\ (offered => Resting(w.call))
      /\ callee.dir = "none" => offered
  BY PagesAtWork
<1>2. /\ m \in Message /\ m \in InFlight(toCallee)
      /\ rest \in Seq(Message) /\ InFlight(rest) \subseteq InFlight(toCallee)
  BY NothingTaken, TailHolds
<1>3. m \in {Request("CANCEL"), Request("BYE")} => InvitePast(caller) /\ client \notin Unused
  BY <1>2, PagesSpeakSip
  DEF PagesInv, ClientSide, ToCalleeFits, GatewayInv, CalleeAnswersInvite
<1>4. offered' = offered /\ OnCallee(v, rest)
  OBVIOUS
<1>5. CASE callee.dir = "none" /\ m = Request("INVITE")
  <2>1. v = Ring(FALSE)
    BY <1>5 DEF Hears
  <2>2. /\ v.call = [NoCallYet EXCEPT !.dir = "in", !.known = TRUE, !.linked = TRUE,
                                      !.sip = "INVITED_INITIAL"]
        /\ v.out = <<Response(180, "INVITE")>>
    BY <2>1 DEF Ring, Work, Send, Notify
  <2>3. /\ v.call \in CallRecord
        /\ v.call.dir = "in" /\ v.call.sip = "INVITED_INITIAL" /\ v.call.known /\ v.call.linked
        /\ v.call.peer = "none" /\ v.call.task = "none" /\ v.call.stats = "unasked"
        /\ v.call.invite = "unsent"
    BY <2>2, ZenonT(40) DEF NoCallYet, CallRecord, Direction, SipCallState, PeerState, Task, Stats,
                InviteTransaction
  <2>4. Sound(v.call) /\ Paced(v.call) /\ Resting(v.call)
    BY <2>3 DEF Sound, NearlySound, ConnectorSound, MediaSound, Paced, Resting, Incoming, Opened
  <2>5. v.out \in Seq(PageMessage) /\ InFlight(v.out) = {Response(180, "INVITE")}
    <3>1. Response(180, "INVITE") \in PageMessage
      BY Sendable
    <3> QED BY <2>2, <3>1 DEF InFlight
  <2>6. ~IsOk(Response(180, "INVITE").code) /\ Response(180, "INVITE").method = "INVITE"
    BY PageMessages
  <2>7. Accepted(callee) => Accepted(v.call)
    <3>1. Sound(callee) /\ callee.dir = "none"
      BY <1>1, <1>5
    <3>2. callee.sip = "NONE"
      BY <3>1 DEF Sound, NearlySound, ConnectorSound
    <3>3. callee.stats = "unasked"
      BY <1>1, <1>5 DEF Resting
    <3> QED BY <3>2, <3>3 DEF Accepted
  <2> QED BY <1>1, <1>2, <1>4, <2>3, <2>4, <2>5, <2>6, <2>7, CalleeStep, ZenonT(40)
<1>6. CASE ~(callee.dir = "none" /\ m = Request("INVITE"))
  <2>1. w.call.invite = "unsent"
    BY <1>1 DEF Paced
  <2>2. \/ v = w
        \/ v = Send(w, Response(481, "BYE")) /\ m = Request("BYE") /\ w.call.dir = "in"
        \/ v = Receive(w, m) /\ w.call.dir = "in"
    BY <1>1, <1>6, <2>1 DEF Hears, LateAnswer, Sound, NearlySound, CallRecord, Direction
  <2> HIDE DEF m, rest
  <2> HIDE DEF w
  <2>3. ASSUME NEW excused, Leads(w, v, excused), Sound(v.call),
               excused # {} => InvitePast(caller) /\ client \notin Unused, Resting(w.call) => Resting(v.call)
        PROVE  PagesInv'
    <3>1. /\ offered' \in BOOLEAN /\ (offered' => Resting(v.call))
          /\ callee.dir = "none" => offered'
      BY <1>1, <1>4, <2>3
    <3>2. Leads(Work(callee, FALSE), v, excused)
      BY <2>3 DEF w
    <3> QED BY <1>2, <1>4, <2>3, <3>1, <3>2, CalleeMoves
  <2>4. CASE v = w
    <3>1. Leads(w, v, {}) /\ Sound(v.call) /\ (Resting(w.call) => Resting(v.call))
      BY <1>1, <2>4, LeadsNowhere
    <3> QED BY <2>3, <3>1
  <2>5. CASE v = Send(w, Response(481, "BYE")) /\ m = Request("BYE")
    <3>1. Response(481, "BYE") \in PageMessage
      BY Sendable
    <3>2. /\ v \in WorkRecord /\ v.call = w.call /\ v.out = Append(w.out, Response(481, "BYE"))
      BY <1>1, <2>5, <3>1, SendEffect
    <3>3. Moves(w, v)
      BY <1>1, <3>2 DEF Moves
    <3> DEFINE excused == {Response(481, "BYE")}
    <3>4. Reason(v.call, Response(481, "BYE"), excused)
      BY DEF Reason
    <3>5. Leads(w, v, excused)
      BY <1>1, <3>1, <3>2, <3>3, <3>4, LeadsSaying
    <3> HIDE DEF excused
    <3> QED BY <1>1, <1>3, <2>3, <2>5, <3>2, <3>5
  <2>6. CASE v = Receive(w, m) /\ w.call.dir = "in"
    <3> DEFINE excused == IF m \in {Request("CANCEL"), Request("BYE")}
                          THEN {Response(200, "CANCEL"), Response(200, "BYE")} ELSE {}
    <3>1. /\ m = Request("CANCEL") => Response(200, "CANCEL") \in excused
          /\ m = Request("BYE") => Response(200, "BYE") \in excused
          /\ excused # {} => InvitePast(caller) /\ client \notin Unused
      BY <1>3
    <3> HIDE DEF excused
    <3>2. Leads(w, v, excused)
      BY <1>1, <1>2, <2>6, <3>1, ReceiveLeads
    <3>3. Sound(v.call)
      BY <1>1, <2>6, ReceiveGoes DEF Goes
    <3>4. Resting(w.call) => Resting(v.call)
      BY <1>1, <2>6, ReceiveRests
    <3> QED BY <2>3, <3>1, <3>2, <3>3, <3>4
  <2> QED BY <2>2, <2>4, <2>5, <2>6
<1> QED BY <1>5, <1>6

-----------------------------------------------------------------------------
(* The steps of the gateway. *)

PagesStay == UNCHANGED <<caller, callee, offered>>

LEMMA PagesStayGood ==
  ASSUME PagesInv, PagesStay
  PROVE  /\ PagesSound' /\ OpenedMeansAccepted'
         /\ InvitePast(caller)' = InvitePast(caller) /\ Due' = Due
BY DEF PagesStay, PagesInv, PagesSound, OpenedMeansAccepted, InvitePast, Due, Accepted

\* A leg of the gateway that does nothing.
LEMMA ServerIdles ==
  ASSUME PagesInv, PagesStay, UNCHANGED serverVars
  PROVE  ServerSide'
BY DEF PagesInv, PagesStay, serverVars, ServerSide, ToCallerFits, InvitePast, Due, Accepted

LEMMA ClientIdles ==
  ASSUME PagesInv, PagesStay, UNCHANGED clientVars
  PROVE  ClientSide'
BY DEF PagesInv, PagesStay, clientVars, ClientSide, ToCalleeFits, InvitePast

\* One that moves, with the messages it sends.
LEMMA ServerMoves ==
  ASSUME PagesInv, PagesStay, NEW state \in HandlerState, NEW req \in Method, NEW known,
         NEW messages \in Seq(Message), ServerBecomes(state, req, known, messages),
         req # "INVITE" \/ state \in {"CALLING", "BYE", "CANCELING"} => InvitePast(caller),
         \A m \in InFlight(messages) : ToCallerFits(m)
  PROVE  ServerSide'
<1>1. /\ server' = state /\ serverReq' = req
      /\ toCaller' = Sent("server", toCaller, messages)
  BY DEF ServerBecomes
<1>2. /\ toCaller' \in Seq(Message)
      /\ InFlight(toCaller') \subseteq InFlight(toCaller) \cup InFlight(messages)
  BY <1>1, SentHolds DEF PagesInv, ServerSide
<1>3. \A m \in InFlight(toCaller') : ToCallerFits(m)
  BY <1>2 DEF PagesInv, ServerSide
<1>4. \A m : ToCallerFits(m)' <=> ToCallerFits(m)
  BY DEF PagesStay, ToCallerFits, InvitePast, Due, Accepted
<1>5. InvitePast(caller)' = InvitePast(caller)
  BY PagesStayGood
<1> QED BY <1>1, <1>2, <1>3, <1>4, <1>5 DEF ServerSide

LEMMA ClientMoves ==
  ASSUME PagesInv, PagesStay, NEW state \in HandlerState, NEW req \in Method, NEW known,
         NEW messages \in Seq(Message), ClientBecomes(state, req, known, messages),
         \A m \in InFlight(messages) : ToCalleeFits(m)
  PROVE  ClientSide'
<1>1. /\ client' = state /\ clientReq' = req
      /\ toCallee' = Sent("client", toCallee, messages)
  BY DEF ClientBecomes
<1>2. /\ toCallee' \in Seq(Message)
      /\ InFlight(toCallee') \subseteq InFlight(toCallee) \cup InFlight(messages)
  BY <1>1, SentHolds DEF PagesInv, ClientSide
<1>3. \A m \in InFlight(toCallee') : ToCalleeFits(m)
  BY <1>2 DEF PagesInv, ClientSide
<1>4. \A m : ToCalleeFits(m)' <=> ToCalleeFits(m)
  BY DEF PagesStay, ToCalleeFits, InvitePast
<1> QED BY <1>1, <1>2, <1>3, <1>4 DEF ClientSide

\* The messages of the gateway.  Once the caller's INVITE is past, it may be
\* sent anything.
LEMMA GatewayMessages ==
  /\ \A a \in Method : Req(a) \in Message /\ <<Req(a)>> \in Seq(Message)
                       /\ InFlight(<<Req(a)>>) = {Req(a)}
  /\ \A a \in Method, code \in Status :
       /\ Resp(code, a) \in Message /\ Resp(code, a) # Req("INVITE")
       /\ Resp(code, a) # Req("CANCEL") /\ Resp(code, a) # Req("BYE")
       /\ <<Resp(code, a)>> \in Seq(Message) /\ InFlight(<<Resp(code, a)>>) = {Resp(code, a)}
  /\ <<>> \in Seq(Message) /\ InFlight(<<>>) = {}
<1>1. \A a \in Method : Req(a) \in Message
  BY RequestIsMessage
<1>2. \A a \in Method, code \in Status :
        /\ Resp(code, a) \in Message /\ Resp(code, a) # Req("INVITE")
        /\ Resp(code, a) # Req("CANCEL") /\ Resp(code, a) # Req("BYE")
  <2>1. "INVITE" \in Method /\ "CANCEL" \in Method /\ "BYE" \in Method
    BY DEF Method
  <2> QED BY <2>1, ResponseIsMessage, ResponseIsNoRequest
<1> QED BY <1>1, <1>2, LiteralHolds

LEMMA LateFits ==
  ASSUME InvitePast(caller), NEW m, m # Req("INVITE")
  PROVE  ToCallerFits(m)
BY DEF ToCallerFits, Due

\* The methods of the server leg that a message of either page calls.
LEMMA ServerHandles ==
  ASSUME PagesInv, PagesStay,
         \/ ServerOnRinging
         \/ ServerOnOk /\ Due
         \/ ServerOnReject
         \/ ServerHangUp
         \/ ServerOnAck /\ InvitePast(caller)
  PROVE  ServerSide'
<1>1. /\ server \in HandlerState /\ serverReq \in Method
      /\ serverReq # "INVITE" \/ server \in {"CALLING", "BYE", "CANCELING"} => InvitePast(caller)
  BY DEF PagesInv, ServerSide
<1>2. /\ {"RINGING", "FINISH", "OK", "FAIL", "BYE", "CALLING"} \subseteq HandlerState
      /\ {"INVITE", "OWN", "ACK", "BYE"} \subseteq Method
      /\ 180 \in Status /\ 200 \in Status /\ 486 \in Status
  BY StatusCodes DEF HandlerState, MessageState, Method
\* What the server leg answers fits the caller's INVITE, or comes after it.
<1>3. ASSUME NEW code \in Status, IsOk(code) => Due
      PROVE  /\ <<Resp(code, serverReq)>> \in Seq(Message)
             /\ \A m \in InFlight(<<Resp(code, serverReq)>>) : ToCallerFits(m)
  <2>1. /\ <<Resp(code, serverReq)>> \in Seq(Message)
        /\ InFlight(<<Resp(code, serverReq)>>) = {Resp(code, serverReq)}
        /\ Resp(code, serverReq) # Req("INVITE")
    BY <1>1, GatewayMessages
  <2>2. ToCallerFits(Resp(code, serverReq))
    BY <1>1, <1>3, <2>1 DEF ToCallerFits, Resp
  <2> QED BY <2>1, <2>2
<1>4. ASSUME NEW a \in {"ACK", "BYE"}, InvitePast(caller)
      PROVE  <<Req(a)>> \in Seq(Message) /\ \A m \in InFlight(<<Req(a)>>) : ToCallerFits(m)
  <2>1. <<Req(a)>> \in Seq(Message) /\ InFlight(<<Req(a)>>) = {Req(a)}
    BY <1>2, GatewayMessages
  <2>2. Req(a) # Req("INVITE")
    BY DEF Req
  <2> QED BY <1>4, <2>1, <2>2, LateFits
\* It keeps its request, or hangs up.
<1>5. ASSUME NEW state \in {"RINGING", "FINISH", "OK", "FAIL"}, NEW known,
             NEW messages \in Seq(Message), \A m \in InFlight(messages) : ToCallerFits(m),
             ServerBecomes(state, serverReq, known, messages)
      PROVE  ServerSide'
  <2>1. /\ state \in HandlerState
        /\ serverReq # "INVITE" \/ state \in {"CALLING", "BYE", "CANCELING"} => InvitePast(caller)
    BY <1>1, <1>2
  <2> QED BY <1>1, <1>5, <2>1, ServerMoves
<1>6. CASE UNCHANGED serverVars
  BY <1>6, ServerIdles
<1>7. CASE ServerOnRinging
  <2>1. CASE ServerBecomes("RINGING", serverReq, serverKnown, <<Resp(180, serverReq)>>)
    BY <1>2, <1>3, <1>5, <2>1, NotOk
  <2> QED BY <1>6, <1>7, <2>1 DEF ServerOnRinging
<1>8. CASE ServerOnReject
  <2>1. ServerBecomes("FINISH", serverReq, FALSE, <<Resp(486, serverReq)>>)
    BY <1>8 DEF ServerOnReject
  <2>2. /\ <<Resp(486, serverReq)>> \in Seq(Message)
        /\ \A m \in InFlight(<<Resp(486, serverReq)>>) : ToCallerFits(m)
    BY <1>2, <1>3, NotOk
  <2> QED BY <1>5, <2>1, <2>2, ZenonT(40)
<1>9. CASE ServerHangUp
  <2>1. CASE ServerBecomes("BYE", "OWN", serverKnown, <<Req("BYE")>>) /\ server = "CALLING"
    BY <1>1, <1>2, <1>4, <2>1, ServerMoves
  <2> QED BY <1>6, <1>9, <2>1 DEF ServerHangUp
<1>10. CASE ServerOnOk /\ Due
  <2>1. CASE /\ server \in {"BYE", "CANCELING"}
             /\ ServerBecomes("FINISH", serverReq, FALSE, <<Req("ACK")>>)
    BY <1>1, <1>4, <1>5, <2>1
  <2>2. CASE ServerBecomes("OK", serverReq, serverKnown, <<Resp(200, serverReq)>>)
    BY <1>2, <1>3, <1>5, <1>10, <2>2
  <2>3. CASE ServerBecomes("FAIL", serverReq, serverKnown, <<>>)
    BY <1>5, <2>3, GatewayMessages
  <2> QED BY <1>10, <2>1, <2>2, <2>3 DEF ServerOnOk
<1>11. CASE ServerOnAck /\ InvitePast(caller)
  <2>1. <<>> \in Seq(Message) /\ \A m \in InFlight(<<>>) : ToCallerFits(m)
    BY GatewayMessages
  <2>2. CASE ServerBecomes("CALLING", serverReq, serverKnown, <<>>)
    <3>1. "CALLING" \in HandlerState /\ InvitePast(caller)
      BY <1>2, <1>11
    <3> QED BY <1>1, <2>1, <2>2, <3>1, ServerMoves
  <2>3. CASE ServerBecomes("FINISH", serverReq, FALSE, <<>>)
    BY <1>5, <2>1, <2>3
  <2> QED BY <1>6, <1>11, <2>2, <2>3 DEF ServerOnAck
<1> QED BY <1>6, <1>7, <1>8, <1>9, <1>10, <1>11

LEMMA ServerRelays ==
  ASSUME PagesInv, PagesStay,
         \/ OnServerLeg(ServerOnRinging)
         \/ OnServerLeg(ServerOnOk) /\ Due
         \/ OnServerLeg(ServerOnReject)
         \/ OnServerLeg(ServerHangUp)
  PROVE  ServerSide'
<1>1. CASE UNCHANGED serverVars
  BY <1>1, ServerIdles
<1> QED BY <1>1, ServerHandles DEF OnServerLeg

\* A client leg that sends the callee a request or a response.
LEMMA ClientAsksCallee ==
  ASSUME PagesInv, PagesStay, NEW state \in HandlerState, NEW req \in Method, NEW known,
         NEW a \in Method, a \in {"CANCEL", "BYE"} => InvitePast(caller),
         ClientBecomes(state, req, known, <<Req(a)>>)
  PROVE  ClientSide'
<1>1. <<Req(a)>> \in Seq(Message) /\ InFlight(<<Req(a)>>) = {Req(a)}
  BY GatewayMessages
<1>2. ToCalleeFits(Req(a))
  BY DEF ToCalleeFits, Req
<1> QED BY <1>1, <1>2, ClientMoves

LEMMA ClientRepliesToCallee ==
  ASSUME PagesInv, PagesStay, NEW state \in HandlerState, NEW req \in Method, NEW known,
         NEW a \in Method, NEW code \in Status,
         ClientBecomes(state, req, known, <<Resp(code, a)>>)
  PROVE  ClientSide'
<1>1. /\ <<Resp(code, a)>> \in Seq(Message) /\ InFlight(<<Resp(code, a)>>) = {Resp(code, a)}
      /\ Resp(code, a) # Req("CANCEL") /\ Resp(code, a) # Req("BYE")
  BY GatewayMessages
<1>2. ToCalleeFits(Resp(code, a))
  BY <1>1 DEF ToCalleeFits
<1> QED BY <1>1, <1>2, ClientMoves

LEMMA ClientIsQuiet ==
  ASSUME PagesInv, PagesStay, NEW state \in HandlerState, NEW req \in Method, NEW known,
         ClientBecomes(state, req, known, <<>>)
  PROVE  ClientSide'
BY GatewayMessages, ClientMoves

\* The client leg hangs up, or cancels, when the caller does.
LEMMA ClientFollows ==
  ASSUME PagesInv, PagesStay, InvitePast(caller),
         OnClientLeg(ClientHangUp) \/ OnClientLeg(ClientOnCancel)
  PROVE  ClientSide'
<1>1. client \in HandlerState /\ clientReq \in Method
  BY DEF PagesInv, ClientSide
<1>2. /\ {"BYE", "CANCELING"} \subseteq HandlerState
      /\ {"OWN", "BYE", "CANCEL"} \subseteq Method
  BY DEF HandlerState, MessageState, Method
<1>3. CASE UNCHANGED clientVars
  BY <1>3, ClientIdles
<1>4. CASE ClientHangUp
  <2>1. CASE ClientBecomes("BYE", "OWN", clientKnown, <<Req("BYE")>>)
    BY <1>2, <2>1, ClientAsksCallee
  <2> QED BY <1>3, <1>4, <2>1 DEF ClientHangUp
<1>5. CASE ClientOnCancel
  BY <1>1, <1>2, <1>5, ClientAsksCallee DEF ClientOnCancel
<1> QED BY <1>3, <1>4, <1>5 DEF OnClientLeg

\* A message of the caller: the INVITE, or one that comes after it.
LEMMA GatewayServesPages ==
  ASSUME PagesInv, GatewayServes, UNCHANGED offered
  PROVE  PagesInv'
<1> DEFINE m == Head(fromCaller)
<1>1. /\ m \in Message /\ FromCallerFits(m)
      /\ Tail(fromCaller) \in Seq(Message)
      /\ \A n \in InFlight(Tail(fromCaller)) : FromCallerFits(n)
  BY TailHolds DEF PagesInv, FromPages, GatewayServes
<1>2. \/ InviteMalformed(m) \/ InviteForbidden(m) \/ InviteStranded(m)
      \/ InviteBusy(m) \/ InviteRouted(m)
      \/ AckFromCaller(m) \/ CancelFromCaller(m) \/ ByeFromCaller(m)
      \/ OkFromCaller(m) \/ RejectFromCaller(m) \/ IgnoredFromCaller(m)
  BY DEF GatewayServes
<1> HIDE DEF m
<1>3. NextFromCaller
  BY <1>2 DEF InviteMalformed, InviteForbidden, InviteStranded, InviteBusy, InviteRouted,
              NewInvite, AckFromCaller, CancelFromCaller, ByeFromCaller, OkFromCaller,
              RejectFromCaller, IgnoredFromCaller
<1>4. /\ PagesStay /\ PagesSound' /\ OpenedMeansAccepted'
      /\ fromCaller' = Tail(fromCaller) /\ fromCallee' = fromCallee
  BY <1>3, PagesStayGood DEF NextFromCaller, agents, PagesStay
<1>5. FromPages'
  BY <1>1, <1>4
  DEF PagesInv, FromPages, FromCallerFits, FromCalleeFits, PagesStay, InvitePast, Due, Accepted
<1>6. SUFFICES ServerSide' /\ ClientSide'
  <2>1. GatewayInv'
    BY GatewayServesKeeps DEF PagesInv
  <2>2. fromCaller # <<>>
    BY DEF GatewayServes
  <2>3. DialFirst'
    BY <1>4, <2>2 DEF PagesInv, DialFirst, PagesStay
  <2> QED BY <1>4, <1>5, <2>1, <2>3 DEF PagesInv
<1>7. /\ server \in HandlerState /\ serverReq \in Method
      /\ client \in HandlerState /\ clientReq \in Method
  BY DEF PagesInv, ServerSide, ClientSide
<1>8. /\ {"TRYING", "FINISH", "OK", "FAIL", "BYE", "CALLING", "CANCELING"} \subseteq HandlerState
      /\ {"INVITE", "OWN", "ACK", "BYE", "CANCEL"} \subseteq Method
  BY DEF HandlerState, MessageState, Method
<1>9. CASE UNCHANGED <<serverVars, clientVars>>
  BY <1>4, <1>9, ServerIdles, ClientIdles
\* A new INVITE is answered 100, 403 or 486.
<1>10. ASSUME NEW code \in Status, ~IsOk(code)
       PROVE  Resp(code, "INVITE") \in Message /\ ToCallerFits(Resp(code, "INVITE"))
  BY <1>8, <1>10, GatewayMessages DEF ToCallerFits, Resp
<1>11. ASSUME NEW messages \in Seq(Message), \A n \in InFlight(messages) : ToCallerFits(n),
              NEW state \in {"TRYING", "FINISH"}, NEW known,
              ServerBecomes(state, "INVITE", known, messages)
       PROVE  ServerSide'
  BY <1>4, <1>8, <1>11, ServerMoves
<1>12. /\ <<Resp(100, "INVITE")>> \in Seq(Message)
       /\ \A n \in InFlight(<<Resp(100, "INVITE")>>) : ToCallerFits(n)
       /\ <<Resp(403, "INVITE")>> \in Seq(Message)
       /\ \A n \in InFlight(<<Resp(403, "INVITE")>>) : ToCallerFits(n)
       /\ <<Resp(100, "INVITE"), Resp(486, "INVITE")>> \in Seq(Message)
       /\ \A n \in InFlight(<<Resp(100, "INVITE"), Resp(486, "INVITE")>>) : ToCallerFits(n)
  <2>1. /\ ToCallerFits(Resp(100, "INVITE")) /\ Resp(100, "INVITE") \in Message
        /\ ToCallerFits(Resp(403, "INVITE")) /\ Resp(403, "INVITE") \in Message
        /\ ToCallerFits(Resp(486, "INVITE")) /\ Resp(486, "INVITE") \in Message
    BY <1>10, StatusCodes, NotOk
  <2> QED BY <2>1, LiteralHolds
<1>13. CASE InviteMalformed(m)
  BY <1>4, <1>11, <1>13, GatewayMessages, ClientIdles DEF InviteMalformed, OnlyServerLeg
<1>14. CASE InviteForbidden(m)
  <2>1. ServerBecomes("FINISH", "INVITE", FALSE, <<Resp(403, "INVITE")>>) /\ UNCHANGED clientVars
    BY <1>14 DEF InviteForbidden, OnlyServerLeg
  <2> QED BY <1>4, <1>11, <1>12, <2>1, ClientIdles
<1>15. CASE InviteStranded(m)
  <2>1. ServerBecomes("TRYING", "INVITE", TRUE, <<Resp(100, "INVITE")>>) /\ UNCHANGED clientVars
    BY <1>15 DEF InviteStranded, OnlyServerLeg
  <2> QED BY <1>4, <1>11, <1>12, <2>1, ClientIdles
<1>16. CASE InviteBusy(m)
  <2>1. /\ ServerBecomes("FINISH", "INVITE", FALSE, <<Resp(100, "INVITE"), Resp(486, "INVITE")>>)
        /\ UNCHANGED clientVars
    BY <1>16 DEF InviteBusy, OnlyServerLeg
  <2> QED BY <1>4, <1>11, <1>12, <2>1, ClientIdles, ZenonT(40)
<1>17. CASE InviteRouted(m)
  <2>1. /\ ServerBecomes("TRYING", "INVITE", TRUE, <<Resp(100, "INVITE")>>)
        /\ ClientBecomes("TRYING", "OWN", TRUE, <<Req("INVITE")>>)
    BY <1>17 DEF InviteRouted
  <2>2. ServerSide'
    BY <1>11, <1>12, <2>1
  <2>3. ClientSide'
    BY <1>4, <1>8, <2>1, ClientAsksCallee
  <2> QED BY <2>2, <2>3
\* Any other message finds the caller's INVITE past.
<1>18. ASSUME InvitePast(caller), NEW state \in HandlerState, NEW req \in Method, NEW known,
              NEW messages \in Seq(Message), Req("INVITE") \notin InFlight(messages),
              ServerBecomes(state, req, known, messages)
       PROVE  ServerSide'
  BY <1>4, <1>18, LateFits, ServerMoves
<1>19. CASE AckFromCaller(m)
  <2>1. InvitePast(caller)
    BY <1>1, <1>19 DEF AckFromCaller, FromCallerFits, Req
  <2>2. ServerOnAck /\ UNCHANGED clientVars
    BY <1>19 DEF AckFromCaller, OnlyServerLeg
  <2> QED BY <1>4, <2>1, <2>2, ServerHandles, ClientIdles
<1>20. CASE CancelFromCaller(m)
  <2>1. InvitePast(caller)
    BY <1>1, <1>20 DEF CancelFromCaller, FromCallerFits, Req
  <2>2. ServerSide'
    <3>1. ServerBecomes("CANCELING", "CANCEL", serverKnown, <<Resp(200, "CANCEL")>>)
      BY <1>20 DEF CancelFromCaller
    <3>2. /\ <<Resp(200, "CANCEL")>> \in Seq(Message)
          /\ Req("INVITE") \notin InFlight(<<Resp(200, "CANCEL")>>)
      BY <1>8, GatewayMessages, StatusCodes
    <3> QED BY <1>8, <1>18, <2>1, <3>1, <3>2
  <2>3. ClientSide'
    BY <1>4, <1>20, <2>1, ClientFollows DEF CancelFromCaller
  <2> QED BY <2>2, <2>3
<1>21. CASE ByeFromCaller(m)
  <2>1. InvitePast(caller)
    BY <1>1, <1>21 DEF ByeFromCaller, FromCallerFits, Req
  <2>2. /\ <<Resp(200, "BYE")>> \in Seq(Message)
        /\ Req("INVITE") \notin InFlight(<<Resp(200, "BYE")>>)
        /\ <<Resp(400, serverReq)>> \in Seq(Message)
        /\ Req("INVITE") \notin InFlight(<<Resp(400, serverReq)>>)
    BY <1>7, <1>8, GatewayMessages, StatusCodes
  <2>3. CASE server = "CALLING"
    <3>1. /\ ServerBecomes("BYE", "BYE", serverKnown, <<Resp(200, "BYE")>>)
          /\ OnClientLeg(ClientHangUp)
      BY <1>21, <2>3 DEF ByeFromCaller
    <3> QED BY <1>4, <1>8, <1>18, <2>1, <2>2, <3>1, ClientFollows
  <2>4. CASE server # "CALLING"
    <3>1. /\ ServerBecomes(server, serverReq, serverKnown, <<Resp(400, serverReq)>>)
          /\ UNCHANGED clientVars
      BY <1>21, <2>4 DEF ByeFromCaller
    <3> QED BY <1>4, <1>7, <1>18, <2>1, <2>2, <3>1, ClientIdles, ZenonT(40)
  <2> QED BY <2>3, <2>4
<1>22. ASSUME m.code # 0
       PROVE  InvitePast(caller)
  BY <1>1, <1>22 DEF FromCallerFits, Req
<1>23. CASE OkFromCaller(m)
  <2>1. InvitePast(caller)
    BY <1>22, <1>23 DEF OkFromCaller, IsOk
  <2>2. ServerOnOk /\ Due /\ UNCHANGED clientVars
    BY <1>23, <2>1 DEF OkFromCaller, OnlyServerLeg, Due
  <2> QED BY <1>4, <2>2, ServerHandles, ClientIdles
<1>24. CASE RejectFromCaller(m)
  <2>1. ServerOnReject /\ UNCHANGED clientVars
    BY <1>24 DEF RejectFromCaller, OnlyServerLeg
  <2> QED BY <1>4, <2>1, ServerHandles, ClientIdles
<1>25. CASE IgnoredFromCaller(m)
  BY <1>9, <1>25 DEF IgnoredFromCaller
<1> QED BY <1>2, <1>13, <1>14, <1>15, <1>16, <1>17, <1>19, <1>20, <1>21, <1>23, <1>24, <1>25

\* A message of the callee: its 2xx is due, whatever the gateway takes it for.
LEMMA GatewayRelaysPages ==
  ASSUME PagesInv, GatewayRelays, UNCHANGED offered
  PROVE  PagesInv'
<1> DEFINE m == Head(fromCallee)
<1>1. /\ m \in Message /\ FromCalleeFits(m)
      /\ Tail(fromCallee) \in Seq(Message)
      /\ \A n \in InFlight(Tail(fromCallee)) : FromCalleeFits(n)
  BY TailHolds DEF PagesInv, FromPages, GatewayRelays
<1>2. \/ RingingFromCallee(m) \/ AcceptFromCallee(m) \/ HangupConfirmedByCallee(m)
      \/ CancelConfirmedByCallee(m) \/ UnexpectedOkFromCallee(m)
      \/ RejectFromCallee(m) \/ ByeFromCallee(m) \/ IgnoredFromCallee(m)
  BY DEF GatewayRelays
<1> HIDE DEF m
<1>3. NextFromCallee
  BY <1>2 DEF RingingFromCallee, AcceptFromCallee, HangupConfirmedByCallee,
              CancelConfirmedByCallee, UnexpectedOkFromCallee, RejectFromCallee, ByeFromCallee,
              IgnoredFromCallee
<1>4. /\ PagesStay /\ PagesSound' /\ OpenedMeansAccepted'
      /\ fromCallee' = Tail(fromCallee) /\ fromCaller' = fromCaller
  BY <1>3, PagesStayGood DEF NextFromCallee, agents, PagesStay
<1>5. FromPages'
  BY <1>1, <1>4
  DEF PagesInv, FromPages, FromCallerFits, FromCalleeFits, PagesStay, InvitePast, Due, Accepted
<1>6. SUFFICES ServerSide' /\ ClientSide'
  <2>1. GatewayInv' /\ (server = "NONE" => server' = "NONE")
    BY GatewayRelaysKeeps, RelaysWire DEF PagesInv
  <2>2. DialFirst'
    BY <1>4, <2>1 DEF PagesInv, DialFirst, PagesStay
  <2> QED BY <1>4, <1>5, <2>1, <2>2 DEF PagesInv
<1>7. client \in HandlerState /\ clientReq \in Method
  BY DEF PagesInv, ClientSide
<1>8. /\ {"RINGING", "CALLING", "FINISH", "BYE"} \subseteq HandlerState
      /\ {"ACK", "BYE"} \subseteq Method /\ "ACK" \notin {"CANCEL", "BYE"}
  BY DEF HandlerState, MessageState, Method
<1>9. CASE UNCHANGED <<serverVars, clientVars>>
  BY <1>4, <1>9, ServerIdles, ClientIdles
<1>10. ASSUME NEW state \in {"CALLING", "FINISH"}, NEW known,
              ClientBecomes(state, clientReq, known, <<Req("ACK")>>)
       PROVE  ClientSide'
  BY <1>4, <1>7, <1>8, <1>10, ClientAsksCallee
<1>11. CASE RingingFromCallee(m)
  <2>1. CASE /\ OnServerLeg(ServerOnRinging)
             /\ ClientBecomes("RINGING", clientReq, clientKnown, <<>>)
    BY <1>4, <1>7, <1>8, <2>1, ServerRelays, ClientIsQuiet
  <2> QED BY <1>9, <1>11, <2>1 DEF RingingFromCallee
<1>12. CASE AcceptFromCallee(m)
  <2>1. /\ OnServerLeg(ServerOnOk) /\ Due
        /\ ClientBecomes("CALLING", clientReq, clientKnown, <<Req("ACK")>>)
    BY <1>1, <1>12 DEF AcceptFromCallee, FromCalleeFits
  <2> QED BY <1>4, <1>10, <2>1, ServerRelays
<1>13. CASE HangupConfirmedByCallee(m)
  <2>1. /\ OnServerLeg(ServerHangUp)
        /\ ClientBecomes("FINISH", clientReq, FALSE, <<Req("ACK")>>)
    BY <1>13 DEF HangupConfirmedByCallee
  <2> QED BY <1>4, <1>10, <2>1, ServerRelays
<1>14. CASE CancelConfirmedByCallee(m)
  <2>1. UNCHANGED serverVars /\ ClientBecomes("FINISH", clientReq, FALSE, <<Req("ACK")>>)
    BY <1>14 DEF CancelConfirmedByCallee, OnlyClientLeg
  <2> QED BY <1>4, <1>10, <2>1, ServerIdles
<1>15. CASE UnexpectedOkFromCallee(m)
  <2>1. UNCHANGED serverVars /\ ClientBecomes("FINISH", clientReq, FALSE, <<>>)
    BY <1>15 DEF UnexpectedOkFromCallee, OnlyClientLeg
  <2> QED BY <1>4, <1>7, <1>8, <2>1, ServerIdles, ClientIsQuiet
<1>16. CASE RejectFromCallee(m)
  <2>1. OnServerLeg(ServerOnReject) /\ ClientBecomes("FINISH", clientReq, FALSE, <<>>)
    BY <1>16 DEF RejectFromCallee
  <2> QED BY <1>4, <1>7, <1>8, <2>1, ServerRelays, ClientIsQuiet
<1>17. CASE ByeFromCallee(m)
  <2>1. CASE /\ ClientBecomes("BYE", "BYE", clientKnown, <<Resp(200, "BYE")>>)
             /\ OnServerLeg(ServerHangUp)
    BY <1>4, <1>8, <2>1, StatusCodes, ServerRelays, ClientRepliesToCallee
  <2>2. CASE /\ ClientBecomes(client, clientReq, clientKnown, <<Resp(400, clientReq)>>)
             /\ UNCHANGED serverVars
    BY <1>4, <1>7, <2>2, StatusCodes, ServerIdles, ClientRepliesToCallee
  <2> QED BY <1>17, <2>1, <2>2 DEF ByeFromCallee
<1>18. CASE IgnoredFromCallee(m)
  BY <1>9, <1>18 DEF IgnoredFromCallee
<1> QED BY <1>2, <1>11, <1>12, <1>13, <1>14, <1>15, <1>16, <1>17, <1>18

-----------------------------------------------------------------------------
(* The invariant holds. *)

LEMMA PagesInvInit == PagesInit => PagesInv
<1> SUFFICES ASSUME PagesInit PROVE PagesInv
  OBVIOUS
<1>1. /\ NoCallYet \in CallRecord
      /\ NoCallYet.dir = "none" /\ NoCallYet.sip = "NONE" /\ ~NoCallYet.known /\ ~NoCallYet.linked
      /\ NoCallYet.peer = "none" /\ NoCallYet.task = "none" /\ NoCallYet.stats = "unasked"
      /\ NoCallYet.invite = "unsent"
  BY DEF NoCallYet, CallRecord, Direction, SipCallState, PeerState, Task, Stats,
         InviteTransaction
<1>2. /\ caller = NoCallYet /\ callee = NoCallYet /\ offered = TRUE
      /\ server = "NONE" /\ serverReq = "INVITE" /\ client = "NONE" /\ clientReq = "OWN"
      /\ toCaller = <<>> /\ fromCaller = <<>> /\ toCallee = <<>> /\ fromCallee = <<>>
  BY DEF PagesInit
<1>3. PagesSound /\ OpenedMeansAccepted
  BY <1>1, <1>2 DEF PagesSound, Sound, NearlySound, ConnectorSound, MediaSound, Paced, Resting,
                    Incoming, Opened, OpenedMeansAccepted
<1>4. <<>> \in Seq(Message) /\ InFlight(<<>>) = {}
  BY GatewayMessages
<1>5. "NONE" \in HandlerState /\ "INVITE" \in Method /\ "OWN" \in Method
  BY DEF HandlerState, Method
<1>6. ServerSide /\ ClientSide /\ FromPages /\ DialFirst
  BY <1>2, <1>4, <1>5 DEF ServerSide, ClientSide, FromPages, DialFirst
<1>7. /\ serverKnown = FALSE /\ clientKnown = FALSE /\ bridged = FALSE /\ up = Legs
  BY DEF PagesInit
<1>8. GatewayInv
  <2>1. GatewayTypeOK
    BY <1>2, <1>4, <1>5, <1>7 DEF GatewayTypeOK
  <2>2. /\ RegistryMatchesState /\ LegsAgree /\ CallerWaitsOnLiveLeg
        /\ InviteLeads /\ CallerAnswersBye /\ CalleeAnswersInvite
    BY <1>2, <1>4, <1>7 DEF RegistryMatchesState, Revived, LegsAgree, CallerWaitsOnLiveLeg, Waiting,
                            InviteLeads, CallerAnswersBye, CalleeAnswersInvite
  <2> QED BY <2>1, <2>2 DEF GatewayInv
<1> QED BY <1>3, <1>6, <1>8 DEF PagesInv

LEMMA PagesInvNext == PagesInv /\ [PagesNext]_pagesVars => PagesInv'
<1> SUFFICES ASSUME PagesInv, [PagesNext]_pagesVars PROVE PagesInv'
  OBVIOUS
<1>1. CASE UserDials
  BY <1>1, UserDialsStep
<1>2. CASE UserAnswers
  BY <1>2, UserAnswersStep
<1>3. CASE Ends
  BY <1>3, EndsStep
<1>4. CASE PagesLoop
  BY <1>4, CallerLoops, CalleeLoops DEF PagesLoop
<1>5. CASE PagesTake
  BY <1>5, CallerTakesStep, CalleeTakesStep DEF PagesTake
<1>6. CASE GatewayActs
  BY <1>6, GatewayServesPages, GatewayRelaysPages DEF GatewayActs
<1>7. CASE UNCHANGED pagesVars
  <2>1. /\ PagesStay /\ UNCHANGED serverVars /\ UNCHANGED clientVars
        /\ UNCHANGED <<fromCaller, fromCallee>>
    BY <1>7 DEF pagesVars, vars, agents, PagesStay
  <2>2. FromPages'
    BY <2>1 DEF PagesInv, FromPages, FromCallerFits, FromCalleeFits, PagesStay, InvitePast, Due,
                Accepted
  <2>3. /\ UNCHANGED <<server, serverReq, serverKnown, client, clientReq, clientKnown>>
        /\ UNCHANGED <<bridged, up, toCaller, fromCaller, toCallee, fromCallee, caller>>
    BY <1>7 DEF pagesVars, vars, serverVars, clientVars, agents
  <2>4. GatewayInv' /\ DialFirst'
    BY <2>3 DEF PagesInv, GatewayInv, GatewayTypeOK, RegistryMatchesState, Revived, LegsAgree,
                CallerWaitsOnLiveLeg, InviteLeads, CallerAnswersBye, CalleeAnswersInvite,
                Waiting, Closing, Unused, DialFirst
  <2> QED BY <2>1, <2>2, <2>4, PagesStayGood, ServerIdles, ClientIdles DEF PagesInv
<1> QED BY <1>1, <1>2, <1>3, <1>4, <1>5, <1>6, <1>7 DEF PagesNext

\* What a page knows of the other one, and what the messages between them may
\* still say, fits together for every browser and any delay on the wires.
THEOREM PagesInductive == PagesSpec => []PagesInv
<1>1. PagesInit => PagesInv
  BY PagesInvInit
<1>2. PagesInv /\ [PagesNext]_pagesVars => PagesInv'
  BY PagesInvNext
<1> QED BY <1>1, <1>2, PTL DEF PagesSpec

-----------------------------------------------------------------------------
(* What follows. *)

\* The dialling page is never in a state of a called one, nor the other way
\* round, and the legs of the gateway stay in the states of MessageState.
THEOREM PagesTypeCorrect == PagesSpec => []PagesTypeOK
<1>1. PagesInv => PagesTypeOK
  BY DEF PagesInv, PagesSound, ServerSide, ClientSide, Sound, NearlySound, ConnectorSound,
         CallRecord, Direction, PagesTypeOK
<1> QED BY <1>1, PagesInductive, PTL

\* An opened call at the dialling page has been accepted by the called user:
\* no 200 to a CANCEL or a BYE is ever taken for the answer.
THEOREM OpenedCallsAreAccepted == PagesSpec => []OpenedMeansAccepted
<1>1. PagesInv => OpenedMeansAccepted
  BY DEF PagesInv
<1> QED BY <1>1, PagesInductive, PTL

\* messageHandlerList holds the server leg until it is over and no client leg
\* that is over, and one that is out of it is over or revived by a CANCEL, also
\* when cancellations, rejections and hang-ups of pages cross.
THEOREM PagesRegistryCorrect == PagesSpec => []RegistryMatchesState
<1>1. PagesInv => RegistryMatchesState
  BY DEF PagesInv, GatewayInv
<1> QED BY <1>1, PagesInductive, PTL

\* While the dialling page waits, the client leg is alive, in the same phase
\* and reachable, although the page cancels before it has heard anything.
THEOREM PagesWaitOnLiveLeg == PagesSpec => []CallerWaitsOnLiveLeg
<1>1. PagesInv => CallerWaitsOnLiveLeg
  BY DEF PagesInv, GatewayInv
<1> QED BY <1>1, PagesInductive, PTL

\* Between two pages, too, the handlers implement the back-to-back user agent
\* of TwoLegs: they alert, connect and release in one step.
THEOREM PagesMoveLegsTogether == PagesSpec => LegsInLockStep
<1>1. PagesInit => Abstract!Init
  BY DEF PagesInit, Abstract!Init, PhaseOf
<1>2. PagesInv /\ [PagesNext]_pagesVars => [Abstract!Next]_<<PhaseOf(server), PhaseOf(client)>>
  <2> SUFFICES ASSUME PagesInv, [PagesNext]_pagesVars PROVE MapsToStep
    BY DEF MapsToStep
  <2>1. GatewayInv
    BY DEF PagesInv
  <2>2. CASE GatewayActs
    BY <2>1, <2>2, ServesMaps, RelaysMaps DEF GatewayActs
  <2>3. CASE UserDials \/ UserAnswers \/ Ends \/ PagesLoop \/ PagesTake
    <3>1. UNCHANGED <<server, client>>
      BY <2>3 DEF UserDials, UserAnswers, Ends, PagesLoop, PagesTake, CallerDoesNow,
                  CalleeDoesNow, OnCaller, OnCallee, gatewayVars
    <3> QED BY <3>1, Unmoved
  <2>4. CASE UNCHANGED pagesVars
    <3>1. UNCHANGED <<server, client>>
      BY <2>4 DEF pagesVars, vars, serverVars, clientVars
    <3> QED BY <3>1, Unmoved
  <2> QED BY <2>2, <2>3, <2>4 DEF PagesNext
<1> QED
  BY PagesInductive, <1>1, <1>2, PTL DEF PagesSpec, LegsInLockStep, Abstract!Spec

=============================================================================
