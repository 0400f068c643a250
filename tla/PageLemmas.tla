----------------------------- MODULE PageLemmas -----------------------------
(***************************************************************************)
(* What the handlers of Page do to the call they work on, and that none of *)
(* them takes a sound call to an unsound one: the lemmas that the proofs   *)
(* about PageCall and CallPages share.                                     *)
(***************************************************************************)
EXTENDS Page, SequenceTheorems, TLAPS

-----------------------------------------------------------------------------
(* Sound calls. *)

\* The connector: what its SIP state says of it, and that a dialled call
\* leaves sessionConnectors only with its connector.
ConnectorSound(x) ==
  /\ x.sip # "NONE" => x.known
  /\ x.known => x.dir # "none"
  /\ x.sip \in Incoming => x.dir = "in"
  /\ x.sip \notin Incoming /\ x.sip # "NONE" => x.dir = "out"
  /\ ~x.linked => x.sip \in {"NONE", "INVITING_LOCAL_HANGINGUP"}
  /\ x.dir = "out" /\ x.linked => x.known

\* The peer connection: which side of the call it can be on, and the callback
\* it can wait for.
MediaSound(x) ==
  /\ x.peer \in {"new", "preparing-offer", "offer-sent", "answer-received"} => x.dir = "out"
  /\ x.peer \in {"offer-received", "preparing-answer"} => x.dir = "in"
  /\ x.task = "createOffer" => x.peer = "new"
  /\ x.task = "setRemote" => x.peer \in {"answer-received", "offer-received"}
  /\ x.task = "createAnswer" => x.peer = "offer-received"
  /\ x.task = "gather" => x.peer \in {"preparing-offer", "preparing-answer"}

\* A handler may open the connector before it finds that the media are gone,
\* and closes it then: in between the call is only nearly sound.
NearlySound(x) == x \in CallRecord /\ ConnectorSound(x) /\ MediaSound(x)
Sound(x) == NearlySound(x) /\ (x.sip \in Opened => x.peer # "none")

-----------------------------------------------------------------------------
(* What one handler of the page does to a work record, one EXCEPT at a time. *)

Ended == Event \ {"Ringing"}
PageMessage == [method : {"INVITE", "ACK", "BYE", "CANCEL"}, code : 0..699]

\* The steps of a call that exists: none of them rings.
WorkRecord == [call : CallRecord, onCall : BOOLEAN, events : Seq(Ended), out : Seq(PageMessage)]

\* What most operators leave alone.
SameEnds(a, b) == b.call.dir = a.call.dir /\ b.call.linked = a.call.linked
SameMedia(a, b) == b.call.peer = a.call.peer /\ b.call.task = a.call.task
SameSip(a, b) == b.call.sip = a.call.sip /\ b.call.known = a.call.known
SameHistory(a, b) == b.call.stats = a.call.stats /\ b.call.invite = a.call.invite
SameOut(a, b) == b.out = a.out

LEMMA SendEffect ==
  ASSUME NEW w \in WorkRecord, NEW m \in PageMessage
  PROVE  /\ Send(w, m) \in WorkRecord
         /\ Send(w, m).call = w.call /\ Send(w, m).onCall = w.onCall
         /\ Send(w, m).out = Append(w.out, m)
<1>1. w.out \in Seq(PageMessage)
  BY DEF WorkRecord
<1>2. Append(w.out, m) \in Seq(PageMessage)
  BY <1>1
<1> QED BY <1>2 DEF Send, WorkRecord

LEMMA NotifyEffect ==
  ASSUME NEW w \in WorkRecord, NEW e \in Ended
  PROVE  /\ Notify(w, e) \in WorkRecord
         /\ Notify(w, e).call = w.call /\ Notify(w, e).onCall = w.onCall
         /\ SameOut(w, Notify(w, e))
<1>1. w.events \in Seq(Ended)
  BY DEF WorkRecord
<1>2. Append(w.events, e) \in Seq(Ended)
  BY <1>1
<1> QED BY <1>2 DEF Notify, WorkRecord, SameOut

LEMMA OnCallOff ==
  ASSUME NEW w \in WorkRecord
  PROVE  /\ [w EXCEPT !.onCall = FALSE] \in WorkRecord
         /\ [w EXCEPT !.onCall = FALSE].call = w.call
         /\ [w EXCEPT !.onCall = FALSE].onCall = FALSE
         /\ SameOut(w, [w EXCEPT !.onCall = FALSE])
BY DEF WorkRecord, SameOut

\* A step that only writes the call.
LEMMA CallWritten ==
  ASSUME NEW w \in WorkRecord, NEW x \in CallRecord
  PROVE  /\ [w EXCEPT !.call = x] \in WorkRecord
         /\ [w EXCEPT !.call = x].call = x
         /\ [w EXCEPT !.call = x].onCall = w.onCall
         /\ SameOut(w, [w EXCEPT !.call = x])
BY DEF WorkRecord, SameOut

LEMMA InStateEffect ==
  ASSUME NEW w \in WorkRecord, NEW s \in SipCallState
  PROVE  /\ InState(w, s) \in WorkRecord
         /\ InState(w, s).onCall = w.onCall
         /\ InState(w, s).call.sip = s
         /\ InState(w, s).call.known = w.call.known
         /\ SameEnds(w, InState(w, s))
         /\ SameMedia(w, InState(w, s))
         /\ SameHistory(w, InState(w, s)) /\ SameOut(w, InState(w, s))
<1> DEFINE x == [w.call EXCEPT !.sip = s]
<1>1. InState(w, s) = [w EXCEPT !.call = x]
  BY DEF InState, WorkRecord
<1>2. w.call \in CallRecord
  BY DEF WorkRecord
<1>3. x \in CallRecord
  BY <1>2 DEF CallRecord
<1>4. /\ x.dir = w.call.dir /\ x.sip = s /\ x.known = w.call.known
      /\ x.linked = w.call.linked /\ x.peer = w.call.peer /\ x.task = w.call.task
      /\ x.stats = w.call.stats /\ x.invite = w.call.invite
  BY <1>2 DEF CallRecord
<1> HIDE DEF x
<1> QED BY <1>1, <1>3, <1>4, CallWritten
       DEF SameEnds, SameMedia, SameSip, SameHistory, SameOut

LEMMA ReleasedEffect ==
  ASSUME NEW w \in WorkRecord
  PROVE  /\ Released(w) \in WorkRecord
         /\ Released(w).onCall = w.onCall
         /\ Released(w).call.sip = "NONE"
         /\ Released(w).call.known = FALSE
         /\ SameEnds(w, Released(w))
         /\ SameMedia(w, Released(w))
         /\ SameHistory(w, Released(w)) /\ SameOut(w, Released(w))
<1> DEFINE x == [w.call EXCEPT !.sip = "NONE", !.known = FALSE]
<1>1. Released(w) = [w EXCEPT !.call = x]
  BY DEF Released, WorkRecord
<1>2. w.call \in CallRecord
  BY DEF WorkRecord
<1>3. x \in CallRecord
  BY <1>2 DEF CallRecord, SipCallState
<1>4. /\ x.dir = w.call.dir /\ x.sip = "NONE" /\ x.known = FALSE
      /\ x.linked = w.call.linked /\ x.peer = w.call.peer /\ x.task = w.call.task
      /\ x.stats = w.call.stats /\ x.invite = w.call.invite
  BY <1>2 DEF CallRecord
<1> HIDE DEF x
<1> QED BY <1>1, <1>3, <1>4, CallWritten
       DEF SameEnds, SameMedia, SameSip, SameHistory, SameOut

LEMMA UnlinkedEffect ==
  ASSUME NEW w \in WorkRecord
  PROVE  /\ [w EXCEPT !.call.linked = FALSE] \in WorkRecord
         /\ [w EXCEPT !.call.linked = FALSE].onCall = w.onCall
         /\ [w EXCEPT !.call.linked = FALSE].call.dir = w.call.dir
         /\ [w EXCEPT !.call.linked = FALSE].call.linked = FALSE
         /\ SameSip(w, [w EXCEPT !.call.linked = FALSE])
         /\ SameMedia(w, [w EXCEPT !.call.linked = FALSE])
         /\ SameHistory(w, [w EXCEPT !.call.linked = FALSE]) /\ SameOut(w, [w EXCEPT !.call.linked = FALSE])
<1> DEFINE v == [w EXCEPT !.call.linked = FALSE]
           x == [w.call EXCEPT !.linked = FALSE]
<1>1. v = [w EXCEPT !.call = x]
  BY DEF WorkRecord
<1>2. w.call \in CallRecord
  BY DEF WorkRecord
<1>3. x \in CallRecord
  BY <1>2 DEF CallRecord
<1>4. /\ x.dir = w.call.dir /\ x.sip = w.call.sip /\ x.known = w.call.known
      /\ x.linked = FALSE /\ x.peer = w.call.peer /\ x.task = w.call.task
      /\ x.stats = w.call.stats /\ x.invite = w.call.invite
  BY <1>2 DEF CallRecord
<1> HIDE DEF v, x
<1>5. /\ v \in WorkRecord
      /\ v.onCall = w.onCall
      /\ v.call.dir = w.call.dir
      /\ v.call.linked = FALSE
      /\ SameSip(w, v)
      /\ SameMedia(w, v)
      /\ SameHistory(w, v) /\ SameOut(w, v)
  BY <1>1, <1>3, <1>4, CallWritten
     DEF SameEnds, SameMedia, SameSip, SameHistory, SameOut
<1> QED BY <1>5 DEF v

LEMMA PeerAtEffect ==
  ASSUME NEW w \in WorkRecord, NEW p \in PeerState, NEW t \in Task
  PROVE  /\ PeerAt(w, p, t) \in WorkRecord
         /\ PeerAt(w, p, t).onCall = w.onCall
         /\ PeerAt(w, p, t).call.peer = p
         /\ PeerAt(w, p, t).call.task = t
         /\ SameSip(w, PeerAt(w, p, t))
         /\ SameEnds(w, PeerAt(w, p, t))
         /\ SameHistory(w, PeerAt(w, p, t)) /\ SameOut(w, PeerAt(w, p, t))
<1> DEFINE x == [w.call EXCEPT !.peer = p, !.task = t]
<1>1. PeerAt(w, p, t) = [w EXCEPT !.call = x]
  BY DEF PeerAt, WorkRecord
<1>2. w.call \in CallRecord
  BY DEF WorkRecord
<1>3. x \in CallRecord
  BY <1>2 DEF CallRecord
<1>4. /\ x.dir = w.call.dir /\ x.sip = w.call.sip /\ x.known = w.call.known
      /\ x.linked = w.call.linked /\ x.peer = p /\ x.task = t
      /\ x.stats = w.call.stats /\ x.invite = w.call.invite
  BY <1>2 DEF CallRecord
<1> HIDE DEF x
<1> QED BY <1>1, <1>3, <1>4, CallWritten
       DEF SameEnds, SameMedia, SameSip, SameHistory, SameOut

LEMMA TaskEffect ==
  ASSUME NEW w \in WorkRecord, NEW t \in Task
  PROVE  /\ [w EXCEPT !.call.task = t] \in WorkRecord
         /\ [w EXCEPT !.call.task = t].onCall = w.onCall
         /\ [w EXCEPT !.call.task = t].call.peer = w.call.peer
         /\ [w EXCEPT !.call.task = t].call.task = t
         /\ SameSip(w, [w EXCEPT !.call.task = t])
         /\ SameEnds(w, [w EXCEPT !.call.task = t])
         /\ SameHistory(w, [w EXCEPT !.call.task = t]) /\ SameOut(w, [w EXCEPT !.call.task = t])
<1> DEFINE v == [w EXCEPT !.call.task = t]
           x == [w.call EXCEPT !.task = t]
<1>1. v = [w EXCEPT !.call = x]
  BY DEF WorkRecord
<1>2. w.call \in CallRecord
  BY DEF WorkRecord
<1>3. x \in CallRecord
  BY <1>2 DEF CallRecord
<1>4. /\ x.dir = w.call.dir /\ x.sip = w.call.sip /\ x.known = w.call.known
      /\ x.linked = w.call.linked /\ x.peer = w.call.peer /\ x.task = t
      /\ x.stats = w.call.stats /\ x.invite = w.call.invite
  BY <1>2 DEF CallRecord
<1> HIDE DEF v, x
<1>5. /\ v \in WorkRecord
      /\ v.onCall = w.onCall
      /\ v.call.peer = w.call.peer
      /\ v.call.task = t
      /\ SameSip(w, v)
      /\ SameEnds(w, v)
      /\ SameHistory(w, v) /\ SameOut(w, v)
  BY <1>1, <1>3, <1>4, CallWritten
     DEF SameEnds, SameMedia, SameSip, SameHistory, SameOut
<1> QED BY <1>5 DEF v

LEMMA StatsEffect ==
  ASSUME NEW w \in WorkRecord, NEW s \in Stats
  PROVE  /\ [w EXCEPT !.call.stats = s] \in WorkRecord
         /\ [w EXCEPT !.call.stats = s].onCall = w.onCall
         /\ SameSip(w, [w EXCEPT !.call.stats = s])
         /\ SameEnds(w, [w EXCEPT !.call.stats = s])
         /\ SameMedia(w, [w EXCEPT !.call.stats = s])
         /\ [w EXCEPT !.call.stats = s].call.stats = s
         /\ [w EXCEPT !.call.stats = s].call.invite = w.call.invite
         /\ SameOut(w, [w EXCEPT !.call.stats = s])
<1> DEFINE v == [w EXCEPT !.call.stats = s]
           x == [w.call EXCEPT !.stats = s]
<1>1. v = [w EXCEPT !.call = x]
  BY DEF WorkRecord
<1>2. w.call \in CallRecord
  BY DEF WorkRecord
<1>3. x \in CallRecord
  BY <1>2 DEF CallRecord
<1>4. /\ x.dir = w.call.dir /\ x.sip = w.call.sip /\ x.known = w.call.known
      /\ x.linked = w.call.linked /\ x.peer = w.call.peer /\ x.task = w.call.task
      /\ x.stats = s /\ x.invite = w.call.invite
  BY <1>2 DEF CallRecord
<1> HIDE DEF v, x
<1>5. /\ v \in WorkRecord
      /\ v.onCall = w.onCall
      /\ SameSip(w, v)
      /\ SameEnds(w, v)
      /\ SameMedia(w, v)
      /\ v.call.stats = s
      /\ v.call.invite = w.call.invite
      /\ SameOut(w, v)
  BY <1>1, <1>3, <1>4, CallWritten
     DEF SameEnds, SameMedia, SameSip, SameHistory, SameOut
<1> QED BY <1>5 DEF v

LEMMA InviteEffect ==
  ASSUME NEW w \in WorkRecord, NEW i \in InviteTransaction
  PROVE  /\ [w EXCEPT !.call.invite = i] \in WorkRecord
         /\ [w EXCEPT !.call.invite = i].onCall = w.onCall
         /\ SameSip(w, [w EXCEPT !.call.invite = i])
         /\ SameEnds(w, [w EXCEPT !.call.invite = i])
         /\ SameMedia(w, [w EXCEPT !.call.invite = i])
         /\ [w EXCEPT !.call.invite = i].call.invite = i
         /\ [w EXCEPT !.call.invite = i].call.stats = w.call.stats
         /\ SameOut(w, [w EXCEPT !.call.invite = i])
<1> DEFINE v == [w EXCEPT !.call.invite = i]
           x == [w.call EXCEPT !.invite = i]
<1>1. v = [w EXCEPT !.call = x]
  BY DEF WorkRecord
<1>2. w.call \in CallRecord
  BY DEF WorkRecord
<1>3. x \in CallRecord
  BY <1>2 DEF CallRecord
<1>4. /\ x.dir = w.call.dir /\ x.sip = w.call.sip /\ x.known = w.call.known
      /\ x.linked = w.call.linked /\ x.peer = w.call.peer /\ x.task = w.call.task
      /\ x.stats = w.call.stats /\ x.invite = i
  BY <1>2 DEF CallRecord
<1> HIDE DEF v, x
<1>5. /\ v \in WorkRecord
      /\ v.onCall = w.onCall
      /\ SameSip(w, v)
      /\ SameEnds(w, v)
      /\ SameMedia(w, v)
      /\ v.call.invite = i
      /\ v.call.stats = w.call.stats
      /\ SameOut(w, v)
  BY <1>1, <1>3, <1>4, CallWritten
     DEF SameEnds, SameMedia, SameSip, SameHistory, SameOut
<1> QED BY <1>5 DEF v

LEMMA CloseEffect ==
  ASSUME NEW w \in WorkRecord
  PROVE  /\ Close(w) \in WorkRecord
         /\ Close(w).onCall = FALSE
         /\ SameSip(w, Close(w)) /\ SameEnds(w, Close(w)) /\ SameMedia(w, Close(w))
         /\ Close(w).call.stats = IF w.call.peer # "none" /\ w.call.stats = "unasked"
                                  THEN "asked" ELSE w.call.stats
         /\ Close(w).call.invite = w.call.invite /\ SameOut(w, Close(w))
<1> DEFINE s == IF w.call.peer # "none" /\ w.call.stats = "unasked" THEN "asked" ELSE w.call.stats
           u == [w EXCEPT !.call.stats = s]
<1>1. Close(w) = [u EXCEPT !.onCall = FALSE]
  BY DEF Close, WorkRecord
<1>2. s \in Stats
  BY DEF WorkRecord, CallRecord, Stats
<1> HIDE DEF s
<1>3. /\ u \in WorkRecord
      /\ SameSip(w, u) /\ SameEnds(w, u) /\ SameMedia(w, u)
      /\ u.call.stats = s /\ u.call.invite = w.call.invite /\ SameOut(w, u)
  BY <1>2, StatsEffect
<1> HIDE DEF u
<1>4. Close(w).call.stats = s
  BY <1>1, <1>3, OnCallOff
<1>5. /\ Close(w) \in WorkRecord /\ Close(w).onCall = FALSE
      /\ SameSip(w, Close(w)) /\ SameEnds(w, Close(w)) /\ SameMedia(w, Close(w))
      /\ Close(w).call.invite = w.call.invite /\ SameOut(w, Close(w))
  BY <1>1, <1>3, OnCallOff DEF SameEnds, SameMedia, SameSip, SameOut
<1> QED BY <1>4, <1>5 DEF s

LEMMA ClosedEventEffect ==
  ASSUME NEW w \in WorkRecord
  PROVE  /\ ClosedEvent(w) \in WorkRecord
         /\ ClosedEvent(w).onCall = FALSE
         /\ ClosedEvent(w).call.dir = w.call.dir
         /\ ClosedEvent(w).call.linked = FALSE
         /\ SameSip(w, ClosedEvent(w)) /\ SameMedia(w, ClosedEvent(w))
         /\ ClosedEvent(w).call.stats = IF w.call.peer # "none" /\ w.call.stats = "unasked"
                                        THEN "asked" ELSE w.call.stats
         /\ ClosedEvent(w).call.invite = w.call.invite /\ SameOut(w, ClosedEvent(w))
<1> DEFINE u == [w EXCEPT !.call.linked = FALSE]
<1>1. ClosedEvent(w) = Close(u)
  BY DEF ClosedEvent
<1>2. /\ u \in WorkRecord /\ u.call.dir = w.call.dir /\ u.call.linked = FALSE
      /\ SameSip(w, u) /\ SameMedia(w, u) /\ SameHistory(w, u) /\ SameOut(w, u)
  BY UnlinkedEffect
<1> HIDE DEF u
<1>3. /\ Close(u) \in WorkRecord /\ Close(u).onCall = FALSE
      /\ SameSip(u, Close(u)) /\ SameEnds(u, Close(u)) /\ SameMedia(u, Close(u))
      /\ Close(u).call.stats = IF u.call.peer # "none" /\ u.call.stats = "unasked"
                               THEN "asked" ELSE u.call.stats
      /\ Close(u).call.invite = u.call.invite /\ SameOut(u, Close(u))
  BY <1>2, CloseEffect
<1>4. u.call.peer = w.call.peer /\ u.call.stats = w.call.stats /\ u.call.invite = w.call.invite
  BY <1>2 DEF SameMedia, SameHistory
<1> QED BY <1>1, <1>2, <1>3, <1>4 DEF SameEnds, SameMedia, SameSip, SameOut

-----------------------------------------------------------------------------
(* What a handler does to a call that exists, and what it keeps. *)

\* No handler registers a call, and none leaves the flag on for a dialled call
\* that it takes out of sessionConnectors.
Keeps(a, b) ==
  /\ b.call.dir = a.call.dir
  /\ b.call.known => a.call.known
  /\ b.onCall => a.onCall /\ (a.call.dir = "out" /\ a.call.known => b.call.known)

Goes(a, b) == b \in WorkRecord /\ Sound(b.call) /\ Keeps(a, b)

LEMMA GoesFurther ==
  ASSUME NEW a, NEW b, NEW c, Keeps(a, b), Goes(b, c)
  PROVE  Goes(a, c)
BY DEF Goes, Keeps

LEMMA GoesNowhere ==
  ASSUME NEW w \in WorkRecord, Sound(w.call)
  PROVE  Goes(w, w)
BY DEF Goes, Keeps

\* Steps that leave the connector and the peer connection alone.
LEMMA SendGoes ==
  ASSUME NEW w \in WorkRecord, Sound(w.call), NEW m \in PageMessage
  PROVE  Goes(w, Send(w, m))
BY SendEffect DEF Goes, Keeps

LEMMA NotifyGoes ==
  ASSUME NEW w \in WorkRecord, Sound(w.call), NEW e \in Ended
  PROVE  Goes(w, Notify(w, e))
BY NotifyEffect DEF Goes, Keeps

LEMMA SoundOfSame ==
  ASSUME NEW a, NEW b \in WorkRecord,
         SameSip(a, b), SameEnds(a, b), SameMedia(a, b)
  PROVE  /\ Sound(a.call) => Sound(b.call)
         /\ NearlySound(a.call) => NearlySound(b.call)
<1>1. b.call \in CallRecord
  BY DEF WorkRecord
<1>2. ConnectorSound(a.call) => ConnectorSound(b.call)
  BY DEF ConnectorSound, SameSip, SameEnds
<1>3. MediaSound(a.call) => MediaSound(b.call)
  BY DEF MediaSound, SameMedia, SameEnds
<1> QED BY <1>1, <1>2, <1>3 DEF Sound, NearlySound, SameSip, SameMedia

LEMMA CloseGoes ==
  ASSUME NEW w \in WorkRecord, Sound(w.call)
  PROVE  Goes(w, Close(w))
BY CloseEffect, SoundOfSame DEF Goes, Keeps, SameSip, SameEnds

LEMMA StatsGoes ==
  ASSUME NEW w \in WorkRecord, Sound(w.call), NEW s \in Stats
  PROVE  Goes(w, [w EXCEPT !.call.stats = s])
<1> DEFINE u == [w EXCEPT !.call.stats = s]
<1>1. /\ u \in WorkRecord /\ u.onCall = w.onCall
      /\ SameSip(w, u) /\ SameEnds(w, u) /\ SameMedia(w, u)
  BY StatsEffect
<1> HIDE DEF u
<1>2. Goes(w, u)
  BY <1>1, SoundOfSame DEF Goes, Keeps, SameSip, SameEnds
<1> QED BY <1>2 DEF u

LEMMA InviteGoes ==
  ASSUME NEW w \in WorkRecord, Sound(w.call), NEW i \in InviteTransaction
  PROVE  Goes(w, [w EXCEPT !.call.invite = i])
<1> DEFINE u == [w EXCEPT !.call.invite = i]
<1>1. /\ u \in WorkRecord /\ u.onCall = w.onCall
      /\ SameSip(w, u) /\ SameEnds(w, u) /\ SameMedia(w, u)
  BY InviteEffect
<1> HIDE DEF u
<1>2. Goes(w, u)
  BY <1>1, SoundOfSame DEF Goes, Keeps, SameSip, SameEnds
<1> QED BY <1>2 DEF u

\* The connector moves on within its side of the call.
LEMMA InStateGoes ==
  ASSUME NEW w \in WorkRecord, Sound(w.call), NEW s \in SipCallState \ {"NONE"},
         w.call.known, w.call.linked,
         s \in Incoming <=> w.call.dir = "in",
         s \in Opened => w.call.peer # "none"
  PROVE  /\ Goes(w, InState(w, s))
         /\ InState(w, s).call.sip = s /\ InState(w, s).call.known
         /\ SameEnds(w, InState(w, s)) /\ SameMedia(w, InState(w, s))
<1> DEFINE u == InState(w, s)
<1>1. /\ u \in WorkRecord /\ u.onCall = w.onCall
      /\ u.call.sip = s /\ u.call.known = w.call.known
      /\ SameEnds(w, u) /\ SameMedia(w, u)
  BY InStateEffect
<1> HIDE DEF u
<1>2. w.call.dir \in Direction /\ u.call \in CallRecord
  BY <1>1 DEF WorkRecord, CallRecord
<1>3. ConnectorSound(u.call)
  BY <1>1, <1>2 DEF ConnectorSound, SameEnds, Sound, NearlySound, Direction
<1>4. MediaSound(u.call)
  BY <1>1 DEF MediaSound, SameMedia, SameEnds, Sound, NearlySound
<1>5. Goes(w, u)
  BY <1>1, <1>2, <1>3, <1>4 DEF Goes, Keeps, Sound, NearlySound, SameEnds, SameMedia
<1> QED BY <1>1, <1>5 DEF u

\* The peer connection moves on.
LEMMA PeerAtGoes ==
  ASSUME NEW w \in WorkRecord, Sound(w.call), NEW p \in PeerState, NEW t \in Task,
         w.call.sip \in Opened => p # "none",
         p \in {"new", "preparing-offer", "offer-sent", "answer-received"} => w.call.dir = "out",
         p \in {"offer-received", "preparing-answer"} => w.call.dir = "in",
         t = "createOffer" => p = "new",
         t = "setRemote" => p \in {"answer-received", "offer-received"},
         t = "createAnswer" => p = "offer-received",
         t = "gather" => p \in {"preparing-offer", "preparing-answer"}
  PROVE  Goes(w, PeerAt(w, p, t))
<1> DEFINE u == PeerAt(w, p, t)
<1>1. /\ u \in WorkRecord /\ u.onCall = w.onCall
      /\ u.call.peer = p /\ u.call.task = t
      /\ SameEnds(w, u) /\ SameSip(w, u)
  BY PeerAtEffect
<1> HIDE DEF u
<1>2. ConnectorSound(u.call)
  BY <1>1 DEF ConnectorSound, SameSip, SameEnds, Sound, NearlySound
<1>3. MediaSound(u.call)
  BY <1>1 DEF MediaSound, SameEnds
<1>4. u.call \in CallRecord
  BY <1>1 DEF WorkRecord
<1>5. Goes(w, u)
  BY <1>1, <1>2, <1>3, <1>4 DEF Goes, Keeps, Sound, NearlySound, SameEnds, SameSip
<1> QED BY <1>5 DEF u

LEMMA TaskGoes ==
  ASSUME NEW w \in WorkRecord, Sound(w.call), NEW t \in {"none", "createAnswer"},
         t = "createAnswer" => w.call.peer = "offer-received"
  PROVE  Goes(w, [w EXCEPT !.call.task = t])
<1> DEFINE u == [w EXCEPT !.call.task = t]
<1>1. /\ u \in WorkRecord /\ u.onCall = w.onCall
      /\ u.call.peer = w.call.peer /\ u.call.task = t
      /\ SameEnds(w, u) /\ SameSip(w, u)
  <2>1. t \in Task
    BY DEF Task
  <2> QED BY <2>1, TaskEffect
<1> HIDE DEF u
<1>2. ConnectorSound(u.call)
  BY <1>1 DEF ConnectorSound, SameSip, SameEnds, Sound, NearlySound
<1>3. MediaSound(u.call)
  BY <1>1 DEF MediaSound, SameEnds, Sound, NearlySound
<1>4. u.call \in CallRecord
  BY <1>1 DEF WorkRecord
<1>5. Goes(w, u)
  BY <1>1, <1>2, <1>3, <1>4 DEF Goes, Keeps, Sound, NearlySound, SameEnds, SameSip
<1> QED BY <1>5 DEF u

LEMMA Sendable ==
  /\ Request("INVITE") \in PageMessage /\ Request("ACK") \in PageMessage
  /\ Request("BYE") \in PageMessage /\ Request("CANCEL") \in PageMessage
  /\ \A code \in {180, 200, 480, 481, 486, 487}, m \in {"INVITE", "BYE", "CANCEL"} :
       Response(code, m) \in PageMessage
BY DEF Request, Response, PageMessage

-----------------------------------------------------------------------------
(* The handlers: closing. *)

\* A connector that has changed but is not open.
LEMMA ClosedIsSound ==
  ASSUME NEW a, NEW b \in WorkRecord, NearlySound(a.call), Keeps(a, b),
         SameMedia(a, b), ConnectorSound(b.call), b.call.sip \notin Opened
  PROVE  Goes(a, b)
<1>1. MediaSound(b.call)
  BY DEF MediaSound, SameMedia, NearlySound, Keeps
<1>2. b.call \in CallRecord
  BY DEF WorkRecord
<1> QED BY <1>1, <1>2 DEF Goes, Sound, NearlySound

LEMMA ConnectorCloseGoes ==
  ASSUME NEW w \in WorkRecord, NearlySound(w.call)
  PROVE  /\ Goes(w, ConnectorClose(w))
         /\ ConnectorClose(w).call.sip \notin Opened
<1> DEFINE v == ConnectorClose(w)
<1>1. ConnectorSound(w.call)
  BY DEF NearlySound
<1>2. CASE w.call.sip = "NONE"
  <2>1. v = w
    BY <1>2 DEF ConnectorClose
  <2>2. w.call.sip \notin Opened
    BY <1>2 DEF Opened
  <2> QED BY <2>1, <2>2, GoesNowhere DEF Sound
<1>3. CASE w.call.sip = "INVITING"
  <2> DEFINE u == Send(w, Request("CANCEL"))
  <2>1. v = InState(u, "INVITING_CANCELLING")
    BY <1>3 DEF ConnectorClose
  <2>2. u \in WorkRecord /\ u.call = w.call /\ u.onCall = w.onCall
    <3>1. Request("CANCEL") \in PageMessage
      BY Sendable
    <3> QED BY <3>1, SendEffect
  <2> HIDE DEF u, v
  <2>3. /\ v \in WorkRecord /\ v.onCall = u.onCall
        /\ v.call.sip = "INVITING_CANCELLING" /\ v.call.known = u.call.known
        /\ SameEnds(u, v) /\ SameMedia(u, v)
    BY <2>1, <2>2, InStateEffect DEF SipCallState
  <2>4. ConnectorSound(v.call) /\ v.call.sip \notin Opened
    BY <1>1, <1>3, <2>2, <2>3 DEF ConnectorSound, SameEnds, Incoming, Opened
  <2>5. Keeps(w, v) /\ SameMedia(w, v)
    BY <2>2, <2>3 DEF Keeps, SameEnds, SameMedia
  <2> QED BY <2>3, <2>4, <2>5, ClosedIsSound DEF v
<1>4. CASE w.call.sip = "INVITING_ACCEPTED"
  <2> DEFINE u == Send(w, Request("BYE"))
             x == InState(u, "INVITING_LOCAL_HANGINGUP")
  <2>1. v = ClosedEvent(x)
    BY <1>4 DEF ConnectorClose
  <2>2. u \in WorkRecord /\ u.call = w.call /\ u.onCall = w.onCall
    <3>1. Request("BYE") \in PageMessage
      BY Sendable
    <3> QED BY <3>1, SendEffect
  <2> HIDE DEF u
  <2>3. /\ x \in WorkRecord
        /\ x.call.sip = "INVITING_LOCAL_HANGINGUP" /\ x.call.known = u.call.known
        /\ SameEnds(u, x) /\ SameMedia(u, x)
    BY <2>2, InStateEffect DEF SipCallState
  <2> HIDE DEF x, v
  <2>4. /\ v \in WorkRecord /\ v.onCall = FALSE
        /\ v.call.dir = x.call.dir /\ v.call.linked = FALSE
        /\ SameSip(x, v) /\ SameMedia(x, v)
    BY <2>1, <2>3, ClosedEventEffect
  <2>5. ConnectorSound(v.call) /\ v.call.sip \notin Opened
    BY <1>1, <1>4, <2>2, <2>3, <2>4 DEF ConnectorSound, SameEnds, SameSip, Incoming, Opened
  <2>6. Keeps(w, v) /\ SameMedia(w, v)
    BY <2>2, <2>3, <2>4 DEF Keeps, SameEnds, SameMedia, SameSip
  <2> QED BY <2>4, <2>5, <2>6, ClosedIsSound DEF v
<1>5. CASE w.call.sip = "INVITED_INITIAL"
  <2> DEFINE u == Send(w, Response(480, "INVITE"))
  <2>1. v = Released(u)
    BY <1>5 DEF ConnectorClose
  <2>2. u \in WorkRecord /\ u.call = w.call /\ u.onCall = w.onCall
    <3>1. Response(480, "INVITE") \in PageMessage
      BY Sendable
    <3> QED BY <3>1, SendEffect
  <2> HIDE DEF u, v
  <2>3. /\ v \in WorkRecord /\ v.onCall = u.onCall
        /\ v.call.sip = "NONE" /\ v.call.known = FALSE
        /\ SameEnds(u, v) /\ SameMedia(u, v)
    BY <2>1, <2>2, ReleasedEffect
  <2>4. w.call.dir = "in"
    BY <1>1, <1>5 DEF ConnectorSound, Incoming
  <2>5. ConnectorSound(v.call) /\ v.call.sip \notin Opened
    BY <2>2, <2>3, <2>4 DEF ConnectorSound, SameEnds, Incoming, Opened
  <2>6. Keeps(w, v) /\ SameMedia(w, v)
    BY <2>2, <2>3, <2>4 DEF Keeps, SameEnds, SameMedia
  <2> QED BY <2>3, <2>5, <2>6, ClosedIsSound DEF v
<1>6. CASE w.call.sip = "INVITED_ACCEPTED"
  <2> DEFINE u == Send(w, Request("BYE"))
  <2>1. v = InState(u, "INVITED_LOCAL_HANGINGUP")
    BY <1>6 DEF ConnectorClose
  <2>2. u \in WorkRecord /\ u.call = w.call /\ u.onCall = w.onCall
    <3>1. Request("BYE") \in PageMessage
      BY Sendable
    <3> QED BY <3>1, SendEffect
  <2> HIDE DEF u, v
  <2>3. /\ v \in WorkRecord /\ v.onCall = u.onCall
        /\ v.call.sip = "INVITED_LOCAL_HANGINGUP" /\ v.call.known = u.call.known
        /\ SameEnds(u, v) /\ SameMedia(u, v)
    BY <2>1, <2>2, InStateEffect DEF SipCallState
  <2>4. ConnectorSound(v.call) /\ v.call.sip \notin Opened
    BY <1>1, <1>6, <2>2, <2>3 DEF ConnectorSound, SameEnds, Incoming, Opened
  <2>5. Keeps(w, v) /\ SameMedia(w, v)
    BY <2>2, <2>3 DEF Keeps, SameEnds, SameMedia
  <2> QED BY <2>3, <2>4, <2>5, ClosedIsSound DEF v
<1>7. CASE w.call.sip \notin {"NONE", "INVITING", "INVITING_ACCEPTED", "INVITED_INITIAL",
                             "INVITED_ACCEPTED"}
  <2> DEFINE u == Released(w)
  <2>1. v = ClosedEvent(u)
    BY <1>7 DEF ConnectorClose
  <2>2. /\ u \in WorkRecord
        /\ u.call.sip = "NONE" /\ u.call.known = FALSE
        /\ SameEnds(w, u) /\ SameMedia(w, u)
    BY ReleasedEffect
  <2> HIDE DEF u, v
  <2>3. /\ v \in WorkRecord /\ v.onCall = FALSE
        /\ v.call.dir = u.call.dir /\ v.call.linked = FALSE
        /\ SameSip(u, v) /\ SameMedia(u, v)
    BY <2>1, <2>2, ClosedEventEffect
  <2>4. ConnectorSound(v.call) /\ v.call.sip \notin Opened
    BY <2>2, <2>3 DEF ConnectorSound, SameSip, Incoming, Opened
  <2>5. Keeps(w, v) /\ SameMedia(w, v)
    BY <2>2, <2>3 DEF Keeps, SameEnds, SameMedia, SameSip
  <2> QED BY <2>3, <2>4, <2>5, ClosedIsSound DEF v
<1> QED BY <1>2, <1>3, <1>4, <1>5, <1>6, <1>7

\* hangup(): the connector goes first, then the peer connection.
LEMMA HangupGoes ==
  ASSUME NEW w \in WorkRecord, Sound(w.call)
  PROVE  Goes(w, Hangup(w))
<1> DEFINE u == IF w.call.linked THEN ConnectorClose(w) ELSE w
           x == PeerAt(u, "none", "none")
<1>1. Goes(w, u) /\ u.call.sip \notin Opened
  <2>1. CASE w.call.linked
    BY <2>1, ConnectorCloseGoes DEF Sound
  <2>2. CASE ~w.call.linked
    BY <2>2, GoesNowhere DEF Sound, NearlySound, ConnectorSound, Opened
  <2> QED BY <2>1, <2>2
<1>2. Hangup(w) = IF u.call.peer = "none" THEN u ELSE Notify(x, "Closed")
  BY DEF Hangup
<1> HIDE DEF u
<1>3. "none" \in PeerState /\ "none" \in Task /\ "Closed" \in Ended
  BY DEF PeerState, Task, Ended, Event
<1>4. Goes(u, x)
  BY <1>1, <1>3, PeerAtGoes DEF Goes
<1> HIDE DEF x
<1>5. Goes(x, Notify(x, "Closed"))
  BY <1>3, <1>4, NotifyGoes DEF Goes
<1>6. Goes(w, Notify(x, "Closed"))
  BY <1>1, <1>4, <1>5, GoesFurther DEF Goes
<1> QED BY <1>1, <1>2, <1>6

LEMMA PeerErrorGoes ==
  ASSUME NEW w \in WorkRecord, Sound(w.call)
  PROVE  Goes(w, PeerError(w))
<1> DEFINE u == Notify(w, "OpenError")
<1>1. Goes(w, u)
  BY NotifyGoes DEF Ended, Event
<1>2. Goes(u, Close(u))
  BY <1>1, CloseGoes DEF Goes
<1> QED BY <1>1, <1>2, GoesFurther DEF PeerError, Goes

LEMMA OpenFailedGoes ==
  ASSUME NEW w \in WorkRecord, NearlySound(w.call)
  PROVE  Goes(w, OpenFailed(w))
<1> DEFINE u == Notify(w, "OpenError")
<1>1. u \in WorkRecord /\ u.call = w.call /\ u.onCall = w.onCall
  BY NotifyEffect DEF Ended, Event
<1>2. OpenFailed(w) = ConnectorClose(u)
  BY DEF OpenFailed
<1> HIDE DEF u
<1>3. Goes(u, ConnectorClose(u))
  BY <1>1, ConnectorCloseGoes
<1>4. Keeps(w, u)
  BY <1>1 DEF Keeps
<1> QED BY <1>2, <1>3, <1>4, GoesFurther

LEMMA RejectGoes ==
  ASSUME NEW w \in WorkRecord, Sound(w.call)
  PROVE  Goes(w, Reject(w))
<1>1. CASE RejectSucceeds(w)
  <2> DEFINE u == Send(w, Response(486, "INVITE"))
             x == Released(u)
  <2>1. Reject(w) = Notify(x, "Closed")
    BY <1>1 DEF Reject
  <2>2. u \in WorkRecord /\ u.call = w.call /\ u.onCall = w.onCall
    <3>1. Response(486, "INVITE") \in PageMessage
      BY Sendable
    <3> QED BY <3>1, SendEffect
  <2> HIDE DEF u
  <2>3. /\ x \in WorkRecord /\ x.onCall = u.onCall
        /\ x.call.sip = "NONE" /\ x.call.known = FALSE
        /\ SameEnds(u, x) /\ SameMedia(u, x)
    BY <2>2, ReleasedEffect
  <2> HIDE DEF x
  <2>4. w.call.dir = "in"
    BY <1>1 DEF RejectSucceeds, Sound, NearlySound, ConnectorSound, Incoming
  <2>5. ConnectorSound(x.call) /\ x.call.sip \notin Opened
    BY <2>2, <2>3, <2>4 DEF ConnectorSound, SameEnds, Incoming, Opened
  <2>6. Keeps(w, x) /\ SameMedia(w, x)
    BY <2>2, <2>3, <2>4 DEF Keeps, SameEnds, SameMedia
  <2>7. Goes(w, x)
    BY <2>3, <2>5, <2>6, ClosedIsSound DEF Sound
  <2>8. Goes(x, Notify(x, "Closed"))
    BY <2>7, NotifyGoes DEF Goes, Ended, Event
  <2> QED BY <2>1, <2>7, <2>8, GoesFurther DEF Goes
<1>2. CASE ~RejectSucceeds(w)
  <2> DEFINE u == Hangup(w)
             x == [u EXCEPT !.onCall = FALSE]
  <2>1. Reject(w) = x
    BY <1>2 DEF Reject
  <2>2. Goes(w, u)
    BY HangupGoes
  <2> HIDE DEF u
  <2>3. x \in WorkRecord /\ x.call = u.call /\ x.onCall = FALSE
    BY <2>2, OnCallOff DEF Goes
  <2> HIDE DEF x
  <2> QED BY <2>1, <2>2, <2>3 DEF Goes, Keeps
<1> QED BY <1>1, <1>2

LEMMA AcceptGoes ==
  ASSUME NEW w \in WorkRecord, Sound(w.call), NEW media \in BOOLEAN, w.call.dir = "in"
  PROVE  Goes(w, Accept(w, media))
<1>1. "offer-received" \in PeerState /\ "setRemote" \in Task
  BY DEF PeerState, Task
<1>2. Goes(w, PeerAt(w, "offer-received", "setRemote"))
  BY <1>1, PeerAtGoes
<1> QED BY <1>2, GoesNowhere DEF Accept

-----------------------------------------------------------------------------
(* The handlers: the callbacks of the browser. *)

LEMMA GatheredGoes ==
  ASSUME NEW w \in WorkRecord, Sound(w.call), w.call.task = "gather"
  PROVE  Goes(w, Gathered(w))
<1>1. /\ w.call.peer \in {"preparing-offer", "preparing-answer"}
      /\ w.call.peer = "preparing-offer" => w.call.dir = "out"
      /\ w.call.peer = "preparing-answer" => w.call.dir = "in"
  BY DEF Sound, NearlySound, MediaSound
<1>2. CASE ~w.call.linked \/ (w.call.peer = "preparing-answer" /\ w.call.sip = "NONE")
  <2> DEFINE u == [w EXCEPT !.call.task = "none"]
  <2>1. Goes(w, u)
    BY TaskGoes
  <2>2. Gathered(w) = PeerError(u)
    BY <1>2 DEF Gathered
  <2> HIDE DEF u
  <2> QED BY <2>1, <2>2, PeerErrorGoes, GoesFurther DEF Goes
<1>3. CASE w.call.linked /\ w.call.peer = "preparing-offer"
  <2> DEFINE u == Send(w, Request("INVITE"))
             x == InState(u, "INVITING")
             y == PeerAt(x, "offer-sent", "none")
             z == [y EXCEPT !.call.invite = "calling"]
  <2>1. Gathered(w) = z
    BY <1>3 DEF Gathered
  <2>2. Goes(w, u) /\ u.call = w.call
    <3>1. Request("INVITE") \in PageMessage
      BY Sendable
    <3> QED BY <3>1, SendGoes, SendEffect
  <2> HIDE DEF u
  <2>3. u.call.dir = "out" /\ u.call.linked /\ u.call.known
    BY <1>1, <1>3, <2>2 DEF Sound, NearlySound, ConnectorSound
  <2>4. /\ "INVITING" \in SipCallState \ {"NONE"}
        /\ "INVITING" \notin Incoming /\ "INVITING" \notin Opened
    BY DEF SipCallState, Incoming, Opened
  <2>5. /\ Goes(u, x) /\ x.call.dir = "out" /\ x.call.sip = "INVITING"
    BY <2>2, <2>3, <2>4, InStateGoes DEF Goes, SameEnds
  <2> HIDE DEF x
  <2>6. "offer-sent" \in PeerState /\ "none" \in Task /\ "calling" \in InviteTransaction
    BY DEF PeerState, Task, InviteTransaction
  <2>7. Goes(x, y)
    BY <2>5, <2>6, PeerAtGoes DEF Goes
  <2> HIDE DEF y
  <2>8. Goes(y, z)
    BY <2>6, <2>7, InviteGoes DEF Goes
  <2> HIDE DEF z
  <2>9. Goes(u, z)
    BY <2>5, <2>7, <2>8, GoesFurther DEF Goes
  <2> QED BY <2>1, <2>2, <2>9, GoesFurther DEF Goes
<1>4. CASE /\ w.call.linked /\ w.call.peer = "preparing-answer"
           /\ w.call.sip # "NONE"
  <2> DEFINE u == Send(w, Response(200, "INVITE"))
             x == InState(u, "INVITED_ACCEPTED")
             y == PeerAt(x, "established", "none")
  <2>1. Gathered(w) = y
    BY <1>4 DEF Gathered
  <2>2. Goes(w, u) /\ u.call = w.call
    <3>1. Response(200, "INVITE") \in PageMessage
      BY Sendable
    <3> QED BY <3>1, SendGoes, SendEffect
  <2> HIDE DEF u
  <2>3. u.call.dir = "in" /\ u.call.linked /\ u.call.known /\ u.call.peer # "none"
    BY <1>1, <1>4, <2>2 DEF Sound, NearlySound, ConnectorSound
  <2>4. "INVITED_ACCEPTED" \in SipCallState \ {"NONE"} /\ "INVITED_ACCEPTED" \in Incoming
    BY DEF SipCallState, Incoming
  <2>5. Goes(u, x)
    BY <2>2, <2>3, <2>4, InStateGoes DEF Goes
  <2> HIDE DEF x
  <2>6. "established" \in PeerState /\ "none" \in Task
    BY DEF PeerState, Task
  <2>7. Goes(x, y)
    BY <2>5, <2>6, PeerAtGoes DEF Goes
  <2> HIDE DEF y
  <2>8. Goes(u, y)
    BY <2>5, <2>7, GoesFurther DEF Goes
  <2> QED BY <2>1, <2>2, <2>8, GoesFurther DEF Goes
<1> QED BY <1>1, <1>2, <1>3, <1>4

LEMMA TaskDoneGoes ==
  ASSUME NEW w \in WorkRecord, Sound(w.call), w.call.task # "none"
  PROVE  Goes(w, TaskDone(w))
<1>1. MediaSound(w.call) /\ w.call.task \in Task
  BY DEF Sound, NearlySound, CallRecord
<1>2. CASE w.call.task = "createOffer"
  <2>1. TaskDone(w) = PeerAt(w, "preparing-offer", "gather")
    BY <1>2 DEF TaskDone
  <2>2. "preparing-offer" \in PeerState /\ "gather" \in Task /\ w.call.dir = "out"
    BY <1>1, <1>2 DEF PeerState, Task, MediaSound
  <2> QED BY <2>1, <2>2, PeerAtGoes
<1>3. CASE w.call.task = "setRemote" /\ w.call.peer = "answer-received"
  <2>1. TaskDone(w) = PeerAt(w, "established", "none")
    BY <1>3 DEF TaskDone
  <2>2. "established" \in PeerState /\ "none" \in Task
    BY DEF PeerState, Task
  <2> QED BY <2>1, <2>2, PeerAtGoes
<1>4. CASE w.call.task = "setRemote" /\ w.call.peer # "answer-received"
  <2>1. TaskDone(w) = [w EXCEPT !.call.task = "createAnswer"]
    BY <1>4 DEF TaskDone
  <2>2. w.call.peer = "offer-received"
    BY <1>1, <1>4 DEF MediaSound
  <2> QED BY <2>1, <2>2, TaskGoes
<1>5. CASE w.call.task = "createAnswer"
  <2>1. TaskDone(w) = PeerAt(w, "preparing-answer", "gather")
    BY <1>5 DEF TaskDone
  <2>2. "preparing-answer" \in PeerState /\ "gather" \in Task /\ w.call.dir = "in"
    BY <1>1, <1>5 DEF PeerState, Task, MediaSound
  <2> QED BY <2>1, <2>2, PeerAtGoes
<1>6. CASE w.call.task = "gather"
  <2>1. TaskDone(w) = Gathered(w)
    BY <1>6 DEF TaskDone
  <2> QED BY <1>6, <2>1, GatheredGoes
<1> QED BY <1>1, <1>2, <1>3, <1>4, <1>5, <1>6 DEF Task

LEMMA TaskFailedGoes ==
  ASSUME NEW w \in WorkRecord, Sound(w.call)
  PROVE  Goes(w, TaskFailed(w))
<1> DEFINE u == [w EXCEPT !.call.task = "none"]
<1>1. Goes(w, u)
  BY TaskGoes
<1>2. TaskFailed(w) = IF w.call.task = "createAnswer" THEN u ELSE PeerError(u)
  BY DEF TaskFailed
<1> HIDE DEF u
<1> QED BY <1>1, <1>2, PeerErrorGoes, GoesFurther DEF Goes

LEMMA StatsGivenGoes ==
  ASSUME NEW w \in WorkRecord, Sound(w.call)
  PROVE  Goes(w, StatsGiven(w)) /\ Goes(w, StatsFailed(w))
<1> DEFINE u == [w EXCEPT !.call.stats = "given"]
<1>1. Goes(w, u) /\ Goes(w, StatsFailed(w))
  BY StatsGoes DEF Stats, StatsFailed
<1>2. StatsGiven(w) = Hangup(u)
  BY DEF StatsGiven
<1> HIDE DEF u
<1> QED BY <1>1, <1>2, HangupGoes, GoesFurther DEF Goes

-----------------------------------------------------------------------------
(* The handlers: messages and timeouts. *)

LEMMA InvitingResponseGoes ==
  ASSUME NEW w \in WorkRecord, Sound(w.call), NEW code
  PROVE  Goes(w, InvitingResponse(w, code))
<1>1. NearlySound(w.call) /\ ConnectorSound(w.call)
  BY DEF Sound, NearlySound
<1>2. CASE w.call.sip = "INVITING"
  <2>1. w.call.known /\ w.call.linked /\ w.call.dir = "out"
    BY <1>1, <1>2 DEF ConnectorSound, Incoming
  <2> DEFINE u == Send(w, Request("ACK"))
             acked == InState(u, "INVITING_ACCEPTED")
  <2>2. Goes(w, OpenFailed(acked))
    <3>1. u \in WorkRecord /\ u.call = w.call /\ u.onCall = w.onCall
      <4>1. Request("ACK") \in PageMessage
        BY Sendable
      <4> QED BY <4>1, SendEffect
    <3> HIDE DEF u
    <3>2. /\ acked \in WorkRecord /\ acked.onCall = u.onCall
          /\ acked.call.sip = "INVITING_ACCEPTED" /\ acked.call.known = u.call.known
          /\ SameEnds(u, acked) /\ SameMedia(u, acked)
      BY <3>1, InStateEffect DEF SipCallState
    <3> HIDE DEF acked
    <3>3. ConnectorSound(acked.call)
      BY <2>1, <3>1, <3>2 DEF ConnectorSound, SameEnds, Incoming
    <3>4. MediaSound(acked.call)
      BY <1>1, <3>1, <3>2 DEF NearlySound, MediaSound, SameEnds, SameMedia
    <3>5. Goes(acked, OpenFailed(acked))
      BY <3>2, <3>3, <3>4, OpenFailedGoes DEF NearlySound, WorkRecord
    <3>6. Keeps(w, acked)
      BY <3>1, <3>2 DEF Keeps, SameEnds
    <3> QED BY <3>5, <3>6, GoesFurther
  <2>3. ASSUME w.call.peer # "none"
        PROVE  Goes(w, PeerAt(acked, "answer-received", "setRemote"))
    <3> DEFINE y == PeerAt(acked, "answer-received", "setRemote")
    <3>1. Goes(w, u) /\ u.call = w.call
      <4>1. Request("ACK") \in PageMessage
        BY Sendable
      <4> QED BY <4>1, SendGoes, SendEffect
    <3> HIDE DEF u
    <3>2. /\ "INVITING_ACCEPTED" \in SipCallState \ {"NONE"}
          /\ "INVITING_ACCEPTED" \notin Incoming
      BY DEF SipCallState, Incoming
    <3>3. Goes(u, acked) /\ acked.call.dir = "out"
      BY <2>1, <2>3, <3>1, <3>2, InStateGoes DEF Goes, SameEnds
    <3> HIDE DEF acked
    <3>4. "answer-received" \in PeerState /\ "setRemote" \in Task
      BY DEF PeerState, Task
    <3>5. Goes(acked, y)
      BY <3>3, <3>4, PeerAtGoes DEF Goes
    <3> HIDE DEF y
    <3>6. Goes(u, y)
      BY <3>3, <3>5, GoesFurther DEF Goes
    <3>7. Goes(w, y)
      BY <3>1, <3>6, GoesFurther DEF Goes
    <3> QED BY <3>7 DEF y
  <2> DEFINE failed == InState(w, "INVITING_ERROR")
  <2>4. Goes(w, OpenFailed(failed))
    <3>1. /\ "INVITING_ERROR" \in SipCallState \ {"NONE"}
          /\ "INVITING_ERROR" \notin Incoming /\ "INVITING_ERROR" \notin Opened
      BY DEF SipCallState, Incoming, Opened
    <3>2. Goes(w, failed)
      BY <2>1, <3>1, InStateGoes
    <3> HIDE DEF failed
    <3>3. Goes(failed, OpenFailed(failed))
      BY <3>2, OpenFailedGoes DEF Goes, Sound
    <3> QED BY <3>2, <3>3, GoesFurther DEF Goes
  <2>5. InvitingResponse(w, code)
          \in {w, OpenFailed(failed),
               IF w.call.peer = "none" THEN OpenFailed(acked)
               ELSE PeerAt(acked, "answer-received", "setRemote")}
    BY <1>2 DEF InvitingResponse
  <2> HIDE DEF acked, failed
  <2> QED BY <2>2, <2>3, <2>4, <2>5, GoesNowhere
<1>3. CASE w.call.sip = "INVITING_CANCELLING"
  <2> DEFINE u == InState(w, "INVITING_CANCELLED")
  <2>1. InvitingResponse(w, code) = ConnectorClose(u)
    BY <1>3 DEF InvitingResponse
  <2>2. w.call.known /\ w.call.linked /\ w.call.dir = "out"
    BY <1>1, <1>3 DEF ConnectorSound, Incoming
  <2>3. /\ "INVITING_CANCELLED" \in SipCallState \ {"NONE"}
        /\ "INVITING_CANCELLED" \notin Incoming /\ "INVITING_CANCELLED" \notin Opened
    BY DEF SipCallState, Incoming, Opened
  <2>4. Goes(w, u)
    BY <2>2, <2>3, InStateGoes
  <2> HIDE DEF u
  <2>5. Goes(u, ConnectorClose(u))
    BY <2>4, ConnectorCloseGoes DEF Goes, Sound
  <2> QED BY <2>1, <2>4, <2>5, GoesFurther DEF Goes
<1>4. CASE w.call.sip = "INVITING_LOCAL_HANGINGUP"
  <2>1. InvitingResponse(w, code) = ConnectorClose(w)
    BY <1>4 DEF InvitingResponse
  <2> QED BY <1>1, <2>1, ConnectorCloseGoes
<1>5. CASE w.call.sip \notin {"INVITING", "INVITING_CANCELLING", "INVITING_LOCAL_HANGINGUP"}
  <2>1. InvitingResponse(w, code) = w
    BY <1>5 DEF InvitingResponse
  <2> QED BY <2>1, GoesNowhere
<1> QED BY <1>2, <1>3, <1>4, <1>5

LEMMA ReleaseGoes ==
  ASSUME NEW w \in WorkRecord, Sound(w.call), NEW s \in SipCallState \ {"NONE"},
         w.call.known, w.call.linked, s \notin Opened,
         s \in Incoming <=> w.call.dir = "in"
  PROVE  Goes(w, ConnectorClose(Notify(InState(w, s), "Hangup")))
<1> DEFINE u == InState(w, s)
           x == Notify(u, "Hangup")
<1>1. Goes(w, u)
  BY InStateGoes
<1> HIDE DEF u
<1>2. Goes(u, x)
  BY <1>1, NotifyGoes DEF Goes, Ended, Event
<1> HIDE DEF x
<1>3. Goes(x, ConnectorClose(x))
  BY <1>2, ConnectorCloseGoes DEF Goes, Sound
<1>4. Goes(w, ConnectorClose(x))
  BY <1>1, <1>2, <1>3, GoesFurther DEF Goes
<1> QED BY <1>4 DEF x, u

LEMMA LaterRequestGoes ==
  ASSUME NEW w \in WorkRecord, Sound(w.call), NEW m
  PROVE  Goes(w, LaterRequest(w, m))
<1>1. ConnectorSound(w.call)
  BY DEF Sound, NearlySound
<1> DEFINE u == Send(w, Response(200, "BYE"))
           x == Send(Send(w, Response(200, "CANCEL")), Response(487, "INVITE"))
<1>2. Goes(w, u) /\ u.call = w.call
  <2>1. Response(200, "BYE") \in PageMessage
    BY Sendable
  <2> QED BY <2>1, SendGoes, SendEffect
<1>3. Goes(w, x) /\ x.call = w.call
  <2> DEFINE v == Send(w, Response(200, "CANCEL"))
  <2>1. Goes(w, v) /\ v.call = w.call
    <3>1. Response(200, "CANCEL") \in PageMessage
      BY Sendable
    <3> QED BY <3>1, SendGoes, SendEffect
  <2> HIDE DEF v
  <2>2. Goes(v, Send(v, Response(487, "INVITE"))) /\ Send(v, Response(487, "INVITE")).call = v.call
    <3>1. Response(487, "INVITE") \in PageMessage
      BY Sendable
    <3> QED BY <2>1, <3>1, SendGoes, SendEffect DEF Goes
  <2>3. Goes(w, Send(v, Response(487, "INVITE")))
    BY <2>1, <2>2, GoesFurther DEF Goes
  <2> QED BY <2>1, <2>2, <2>3 DEF v
<1>4. CASE m = Request("BYE") /\ w.call.sip = "INVITING_ACCEPTED"
  <2>1. LaterRequest(w, m) = ConnectorClose(Notify(InState(u, "INVITING_HANGUP"), "Hangup"))
    BY <1>4 DEF LaterRequest, HungUpByPeer
  <2> HIDE DEF u
  <2>2. u.call.known /\ u.call.linked /\ u.call.dir = "out"
    BY <1>1, <1>2, <1>4 DEF ConnectorSound, Incoming
  <2>3. /\ "INVITING_HANGUP" \in SipCallState \ {"NONE"}
        /\ "INVITING_HANGUP" \notin Incoming /\ "INVITING_HANGUP" \notin Opened
    BY DEF SipCallState, Incoming, Opened
  <2>4. Goes(u, LaterRequest(w, m))
    BY <1>2, <2>1, <2>2, <2>3, ReleaseGoes DEF Goes
  <2> QED BY <1>2, <2>4, GoesFurther DEF Goes
<1>5. CASE m = Request("BYE") /\ w.call.sip = "INVITED_ACCEPTED"
  <2>1. LaterRequest(w, m) = ConnectorClose(Notify(InState(u, "INVITED_HANGUP"), "Hangup"))
    BY <1>5 DEF LaterRequest, HungUpByPeer
  <2> HIDE DEF u
  <2>2. u.call.known /\ u.call.linked /\ u.call.dir = "in"
    BY <1>1, <1>2, <1>5 DEF ConnectorSound, Incoming
  <2>3. /\ "INVITED_HANGUP" \in SipCallState \ {"NONE"}
        /\ "INVITED_HANGUP" \in Incoming /\ "INVITED_HANGUP" \notin Opened
    BY DEF SipCallState, Incoming, Opened
  <2>4. Goes(u, LaterRequest(w, m))
    BY <1>2, <2>1, <2>2, <2>3, ReleaseGoes DEF Goes
  <2> QED BY <1>2, <2>4, GoesFurther DEF Goes
<1>6. CASE m = Request("CANCEL") /\ w.call.sip = "INVITED_INITIAL"
  <2>1. LaterRequest(w, m) = ConnectorClose(Notify(InState(x, "INVITED_CANCELLED"), "Hangup"))
    BY <1>6 DEF LaterRequest, CancelledByPeer, Request
  <2> HIDE DEF x
  <2>2. x.call.known /\ x.call.linked /\ x.call.dir = "in"
    BY <1>1, <1>3, <1>6 DEF ConnectorSound, Incoming
  <2>3. /\ "INVITED_CANCELLED" \in SipCallState \ {"NONE"}
        /\ "INVITED_CANCELLED" \in Incoming /\ "INVITED_CANCELLED" \notin Opened
    BY DEF SipCallState, Incoming, Opened
  <2>4. Goes(x, LaterRequest(w, m))
    BY <1>3, <2>1, <2>2, <2>3, ReleaseGoes DEF Goes
  <2> QED BY <1>3, <2>4, GoesFurther DEF Goes
<1>7. CASE /\ ~(m = Request("BYE") /\ w.call.sip = "INVITING_ACCEPTED")
           /\ ~(m = Request("BYE") /\ w.call.sip = "INVITED_ACCEPTED")
           /\ ~(m = Request("CANCEL") /\ w.call.sip = "INVITED_INITIAL")
  <2>1. LaterRequest(w, m) = w
    BY <1>7 DEF LaterRequest
  <2> QED BY <2>1, GoesNowhere
<1> QED BY <1>4, <1>5, <1>6, <1>7

LEMMA HeardInviteGoes ==
  ASSUME NEW w \in WorkRecord, Sound(w.call), NEW code
  PROVE  Goes(w, HeardInvite(w, code))
<1> DEFINE i == IF code < 200 THEN "proceeding" ELSE "over"
           u == [w EXCEPT !.call.invite = i]
<1>1. i \in InviteTransaction
  BY DEF InviteTransaction
<1>2. HeardInvite(w, code) = IF code >= 300 THEN Send(u, Request("ACK")) ELSE u
  BY DEF HeardInvite
<1> HIDE DEF i
<1>3. Goes(w, u)
  BY <1>1, InviteGoes
<1> HIDE DEF u
<1>4. Goes(u, Send(u, Request("ACK")))
  <2>1. Request("ACK") \in PageMessage
    BY Sendable
  <2> QED BY <1>3, <2>1, SendGoes DEF Goes
<1> QED BY <1>2, <1>3, <1>4, GoesFurther DEF Goes

LEMMA ReceiveGoes ==
  ASSUME NEW w \in WorkRecord, Sound(w.call), NEW m
  PROVE  Goes(w, Receive(w, m))
<1> DEFINE heard == HeardInvite(w, m.code)
<1>1. Goes(w, heard)
  BY HeardInviteGoes
<1>2. Goes(w, InvitingResponse(heard, m.code))
  <2> HIDE DEF heard
  <2>1. Goes(heard, InvitingResponse(heard, m.code))
    BY <1>1, InvitingResponseGoes DEF Goes
  <2> QED BY <1>1, <2>1, GoesFurther DEF Goes
<1>3. Goes(w, LaterRequest(w, m)) /\ Goes(w, InvitingResponse(w, m.code)) /\ Goes(w, w)
  BY LaterRequestGoes, InvitingResponseGoes, GoesNowhere
<1>4. Goes(w, InvitedResponse(w))
  BY ConnectorCloseGoes, GoesNowhere DEF InvitedResponse, Sound
<1>5. Receive(w, m) \in {w, heard, InvitingResponse(heard, m.code), LaterRequest(w, m),
                        InvitingResponse(w, m.code), InvitedResponse(w)}
  BY DEF Receive
<1> HIDE DEF heard
<1> QED BY <1>1, <1>2, <1>3, <1>4, <1>5

LEMMA TimeoutGoes ==
  ASSUME NEW w \in WorkRecord, Sound(w.call)
  PROVE  Goes(w, Timeout(w))
<1> DEFINE u == [w EXCEPT !.call.invite = "over"]
           over == IF w.call.invite = "calling" \/ w.call.sip = "INVITING_CANCELLING"
                   THEN u ELSE w
<1>1. Goes(w, u)
  BY InviteGoes DEF InviteTransaction
<1>2. Timeout(w) = IF over.call.known THEN ConnectorClose(over) ELSE over
  BY DEF Timeout
<1> HIDE DEF u
<1>3. Goes(w, over)
  BY <1>1, GoesNowhere
<1> HIDE DEF over
<1>4. Goes(over, ConnectorClose(over))
  BY <1>3, ConnectorCloseGoes DEF Goes, Sound
<1> QED BY <1>2, <1>3, <1>4, GoesFurther DEF Goes
=============================================================================
