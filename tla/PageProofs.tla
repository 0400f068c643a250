----------------------------- MODULE PageProofs -----------------------------
(***************************************************************************)
(* Proofs about Page and PageCall, for every set of calls: any number of   *)
(* them dialled, ringing, open and closing at once.                        *)
(***************************************************************************)
EXTENDS PageCall, PageLemmas, WellFoundedInduction

-----------------------------------------------------------------------------
(* The inductive invariant. *)

Timers == [event : Event, call : Calls]

\* Only an incoming call rings, so only an incoming call is offered.
RingsIncoming(queue, calls) ==
  \A i \in 1..Len(queue) : queue[i].event = "Ringing" => calls[queue[i].call].dir = "in"
OffersIncoming == \A c \in offered : call[c].dir = "in"

OneRegistered ==
  \A c, d \in Calls :
     call[c].known /\ call[c].dir = "in" /\ call[d].known /\ call[d].dir = "in" => c = d

PInv ==
  /\ call \in [Calls -> CallRecord] /\ onCall \in BOOLEAN
  /\ pending \in Seq(Timers) /\ offered \subseteq Calls
  /\ \A c \in Calls : Sound(call[c])
  /\ RingsIncoming(pending, call) /\ OffersIncoming
  /\ OneRegistered
  /\ OnCallMeansCall

-----------------------------------------------------------------------------
(* The steps of the page. *)

\* The setTimeout() callbacks a step starts.
Queued(events, c) == [i \in DOMAIN events |-> [event |-> events[i], call |-> c]]

Rings(events) == \E i \in 1..Len(events) : events[i] = "Ringing"

\* Once dialled or ringing, a call keeps its direction: the timers and buttons
\* that wait for it stay right.
LEMMA TimersQueued ==
  ASSUME NEW queue \in Seq(Timers), NEW old, RingsIncoming(queue, old),
         NEW c \in Calls, NEW events \in Seq(Event), NEW calls,
         \A d \in Calls : old[d].dir = "in" => calls[d].dir = "in",
         Rings(events) => calls[c].dir = "in"
  PROVE  /\ queue \o Queued(events, c) \in Seq(Timers)
         /\ RingsIncoming(queue \o Queued(events, c), calls)
<1> DEFINE new == Queued(events, c)
<1>1. Len(events) \in Nat /\ DOMAIN events = 1..Len(events)
  OBVIOUS
<1>2. \A i \in 1..Len(events) : new[i] = [event |-> events[i], call |-> c]
  BY <1>1 DEF Queued
<1>3. new \in [1..Len(events) -> Timers]
  BY <1>1 DEF Queued, Timers
<1> HIDE DEF new
<1>4. new \in Seq(Timers)
  BY <1>1, <1>3, SeqDef
<1>5. Len(new) = Len(events)
  <2>1. Len(new) \in Nat /\ 1..Len(new) = 1..Len(events)
    BY <1>3, <1>4, LenProperties
  <2>2. ASSUME NEW n \in Nat, NEW k \in Nat, 1..n = 1..k PROVE n <= k
    <3>1. n = 0 \/ n \in 1..n
      OBVIOUS
    <3>2. n = 0 \/ n \in 1..k
      BY <2>2, <3>1
    <3> QED BY <3>2
  <2>3. Len(new) <= Len(events) /\ Len(events) <= Len(new)
    BY <1>1, <2>1, <2>2
  <2> QED BY <1>1, <2>1, <2>3
<1> DEFINE all == queue \o new
<1>6. /\ all \in Seq(Timers) /\ Len(all) = Len(queue) + Len(new)
      /\ \A i \in 1..(Len(queue) + Len(new)) :
           all[i] = IF i <= Len(queue) THEN queue[i] ELSE new[i - Len(queue)]
  BY <1>4, ConcatProperties
<1>7. Len(queue) \in Nat
  BY LenProperties
<1> HIDE DEF all
<1>8. ASSUME NEW i \in 1..Len(all), all[i].event = "Ringing"
      PROVE  calls[all[i].call].dir = "in"
  <2>1. CASE i <= Len(queue)
    <3>1. i \in 1..Len(queue) /\ all[i] = queue[i] /\ queue[i] \in Timers
      BY <1>4, <1>5, <1>6, <1>7, <1>1, <2>1
    <3>2. old[queue[i].call].dir = "in" /\ queue[i].call \in Calls
      BY <1>8, <3>1 DEF RingsIncoming, Timers
    <3> QED BY <3>1, <3>2
  <2>2. CASE ~(i <= Len(queue))
    <3> DEFINE j == i - Len(queue)
    <3>1. j \in 1..Len(events) /\ all[i] = new[j]
      BY <1>1, <1>5, <1>6, <1>7, <2>2
    <3> HIDE DEF j
    <3>2. all[i] = [event |-> events[j], call |-> c]
      BY <1>2, <3>1
    <3>3. all[i].event = events[j] /\ all[i].call = c
      BY <3>2
    <3>4. Rings(events)
      BY <1>8, <3>1, <3>3 DEF Rings
    <3> QED BY <3>3, <3>4
  <2> QED BY <2>1, <2>2
<1>9. RingsIncoming(all, calls)
  BY <1>8 DEF RingsIncoming
<1> QED BY <1>6, <1>9 DEF all, new

\* What the step w of call c does to the calls.
LEMMA DoesEffect ==
  ASSUME PInv, NEW c \in Calls, NEW w, NEW rest, w.call \in CallRecord, Does(c, w, rest)
  PROVE  /\ call' \in [Calls -> CallRecord]
         /\ call'[c] = w.call
         /\ \A d \in Calls \ {c} : call'[d] = call[d]
         /\ onCall' = w.onCall
         /\ pending' = pending \o Queued(w.events, c)
BY DEF Does, PInv, Queued

\* A step of a call that keeps what Goes says keeps the invariant.
LEMMA StepKeeps ==
  ASSUME PInv, NEW c \in Calls, NEW w, NEW rest, Goes(At(c), w), Does(c, w, rest),
         offered' \subseteq offered
  PROVE  PInv'
<1>1. w \in WorkRecord /\ Sound(w.call) /\ w.call \in CallRecord
  BY DEF Goes, Sound, NearlySound
<1>2. /\ call' \in [Calls -> CallRecord]
      /\ call'[c] = w.call
      /\ \A d \in Calls \ {c} : call'[d] = call[d]
      /\ onCall' = w.onCall
      /\ pending' = pending \o Queued(w.events, c)
  BY <1>1, DoesEffect
<1>3. /\ call'[c].dir = call[c].dir
      /\ call'[c].known => call[c].known
      /\ onCall' => onCall /\ (call[c].dir = "out" /\ call[c].known => call'[c].known)
  BY <1>2 DEF Goes, Keeps, At, Work
<1>4. \A d \in Calls : call'[d].dir = call[d].dir
  BY <1>2, <1>3
<1>5. w.events \in Seq(Ended) /\ w.onCall \in BOOLEAN
  BY <1>1 DEF WorkRecord
<1>6. w.events \in Seq(Event) /\ \A i \in 1..Len(w.events) : w.events[i] # "Ringing"
  BY <1>5 DEF Ended
<1>7. pending' \in Seq(Timers) /\ RingsIncoming(pending', call')
  <2> DEFINE calls == call'
             queue == pending \o Queued(w.events, c)
  <2>1. \A d \in Calls : call[d].dir = "in" => calls[d].dir = "in"
    BY <1>4
  <2>2. ~Rings(w.events)
    BY <1>6 DEF Rings
  <2>3. pending \in Seq(Timers) /\ RingsIncoming(pending, call)
    BY DEF PInv
  <2> HIDE DEF calls
  <2>4. queue \in Seq(Timers) /\ RingsIncoming(queue, calls)
    BY <1>6, <2>1, <2>2, <2>3, TimersQueued
  <2>5. pending' = queue
    BY <1>2
  <2> HIDE DEF queue
  <2> QED BY <2>4, <2>5 DEF calls
<1>8. \A d \in offered' : d \in Calls /\ call'[d].dir = "in"
  BY <1>4 DEF PInv, OffersIncoming
<1>9. \A d \in Calls : Sound(call'[d])
  BY <1>1, <1>2 DEF PInv
<1>10. OneRegistered'
  BY <1>2, <1>3, <1>4 DEF PInv, OneRegistered
<1>11. OnCallMeansCall'
  <2> SUFFICES ASSUME onCall' PROVE \E d \in Calls : call'[d].dir = "out" /\ call'[d].known
    BY DEF OnCallMeansCall
  <2>1. PICK d \in Calls : call[d].dir = "out" /\ call[d].known
    BY <1>3 DEF PInv, OnCallMeansCall
  <2> QED BY <1>2, <1>3, <1>4, <2>1
<1>12. onCall' \in BOOLEAN
  BY <1>2, <1>5
<1> QED BY <1>2, <1>7, <1>8, <1>9, <1>10, <1>11, <1>12 DEF PInv, OffersIncoming

LEMMA AtSound ==
  ASSUME PInv, NEW c \in Calls
  PROVE  At(c) \in WorkRecord /\ Sound(At(c).call) /\ At(c).call = call[c]
<1>1. call[c] \in CallRecord /\ onCall \in BOOLEAN /\ Sound(call[c])
  BY DEF PInv
<1> QED BY <1>1 DEF At, Work, WorkRecord

\* Dialling registers the call, also when open() throws.
LEMMA UserDialsKeeps ==
  ASSUME PInv, NEW c \in Calls, UserDials(c)
  PROVE  PInv'
<1>1. PICK media \in Media : Does(c, Dial(onCall, media), wire[c])
  BY DEF UserDials
<1>2. offered' = offered /\ call[c].dir = "none"
  BY DEF UserDials
<1> DEFINE w == Dial(onCall, media)
<1>3. /\ w.call \in CallRecord /\ w.onCall = TRUE /\ w.events = << >>
      /\ w.call.dir = "out" /\ w.call.known /\ w.call.linked
      /\ \/ w.call.sip = "NONE" /\ w.call.peer = "none" /\ w.call.task = "none"
         \/ w.call.sip = "INVITING_INITIAL" /\ w.call.peer = "new" /\ w.call.task = "createOffer"
  BY DEF Dial, Work, NoCallYet, CallRecord, Direction, SipCallState, PeerState, Task, Stats,
         InviteTransaction
<1> HIDE DEF w
<1>4. Sound(w.call)
  BY <1>3 DEF Sound, NearlySound, ConnectorSound, MediaSound, Incoming, Opened
<1>5. /\ call' \in [Calls -> CallRecord]
      /\ call'[c] = w.call
      /\ \A d \in Calls \ {c} : call'[d] = call[d]
      /\ onCall' = w.onCall
      /\ pending' = pending \o Queued(w.events, c)
  <2>1. Does(c, w, wire[c])
    BY <1>1 DEF w
  <2> QED BY <1>3, <2>1, DoesEffect
<1>6. \A d \in Calls : call[d].dir = "in" => call'[d].dir = "in"
  BY <1>2, <1>5
<1>7. pending' \in Seq(Timers) /\ RingsIncoming(pending', call')
  <2> DEFINE calls == call'
             queue == pending \o Queued(w.events, c)
  <2>1. \A d \in Calls : call[d].dir = "in" => calls[d].dir = "in"
    BY <1>6
  <2>2. w.events \in Seq(Event) /\ ~Rings(w.events)
    BY <1>3 DEF Rings
  <2>3. pending \in Seq(Timers) /\ RingsIncoming(pending, call)
    BY DEF PInv
  <2> HIDE DEF calls
  <2>4. queue \in Seq(Timers) /\ RingsIncoming(queue, calls)
    BY <2>1, <2>2, <2>3, TimersQueued
  <2>5. pending' = queue
    BY <1>5
  <2> HIDE DEF queue
  <2> QED BY <2>4, <2>5 DEF calls
<1>8. \A d \in offered' : d \in Calls /\ call'[d].dir = "in"
  BY <1>2, <1>6 DEF PInv, OffersIncoming
<1>9. \A d \in Calls : Sound(call'[d])
  BY <1>4, <1>5 DEF PInv
<1>10. OneRegistered'
  BY <1>3, <1>5 DEF PInv, OneRegistered
<1>11. OnCallMeansCall'
  BY <1>3, <1>5 DEF OnCallMeansCall
<1> QED BY <1>2, <1>3, <1>5, <1>7, <1>8, <1>9, <1>10, <1>11 DEF PInv, OffersIncoming

\* An INVITE rings only when no call at all is registered.
LEMMA RingKeeps ==
  ASSUME PInv, NEW c \in Calls, NEW rest, ~Busy, call[c].dir = "none",
         Does(c, Ring(onCall), rest), offered' = offered
  PROVE  PInv'
<1> DEFINE w == Ring(onCall)
           x == [NoCallYet EXCEPT !.dir = "in", !.known = TRUE, !.linked = TRUE,
                                  !.sip = "INVITED_INITIAL"]
<1>1. /\ w.call \in CallRecord /\ w.onCall = onCall /\ w.events = <<"Ringing">>
      /\ w.call.dir = "in" /\ w.call.known /\ w.call.linked
      /\ w.call.sip = "INVITED_INITIAL" /\ w.call.peer = "none" /\ w.call.task = "none"
  <2>1. /\ x \in CallRecord /\ x.dir = "in" /\ x.known /\ x.linked
        /\ x.sip = "INVITED_INITIAL" /\ x.peer = "none" /\ x.task = "none"
    BY DEF NoCallYet, CallRecord, Direction, SipCallState, PeerState, Task, Stats,
           InviteTransaction
  <2>2. w = Notify(Send(Work(x, onCall), Response(180, "INVITE")), "Ringing")
    BY DEF Ring
  <2> HIDE DEF x, w
  <2>3. Append(<< >>, "Ringing") = <<"Ringing">>
    OBVIOUS
  <2>4. w.call = x /\ w.onCall = onCall /\ w.events = Append(<< >>, "Ringing")
    BY <2>2 DEF Notify, Send, Work
  <2> QED BY <2>1, <2>3, <2>4
<1> HIDE DEF w
<1>2. Sound(w.call)
  BY <1>1 DEF Sound, NearlySound, ConnectorSound, MediaSound, Incoming, Opened
<1>3. /\ call' \in [Calls -> CallRecord]
      /\ call'[c] = w.call
      /\ \A d \in Calls \ {c} : call'[d] = call[d]
      /\ onCall' = w.onCall
      /\ pending' = pending \o Queued(w.events, c)
  <2>1. Does(c, w, rest)
    BY DEF w
  <2> QED BY <1>1, <2>1, DoesEffect
<1>4. \A d \in Calls : call[d].dir = "in" => call'[d].dir = "in"
  BY <1>3
<1>5. pending' \in Seq(Timers) /\ RingsIncoming(pending', call')
  <2> DEFINE calls == call'
             queue == pending \o Queued(w.events, c)
  <2>1. (\A d \in Calls : call[d].dir = "in" => calls[d].dir = "in") /\ calls[c].dir = "in"
    BY <1>1, <1>3, <1>4
  <2>2. w.events \in Seq(Event)
    BY <1>1 DEF Event
  <2>3. pending \in Seq(Timers) /\ RingsIncoming(pending, call)
    BY DEF PInv
  <2> HIDE DEF calls
  <2>4. queue \in Seq(Timers) /\ RingsIncoming(queue, calls)
    BY <2>1, <2>2, <2>3, TimersQueued
  <2>5. pending' = queue
    BY <1>3
  <2> HIDE DEF queue
  <2> QED BY <2>4, <2>5 DEF calls
<1>6. \A d \in offered' : d \in Calls /\ call'[d].dir = "in"
  BY <1>4 DEF PInv, OffersIncoming
<1>7. \A d \in Calls : Sound(call'[d])
  BY <1>2, <1>3 DEF PInv
<1>8. OneRegistered'
  BY <1>3 DEF OneRegistered, Busy
<1>9. onCall = FALSE
  BY DEF PInv, OnCallMeansCall, Busy
<1>10. OnCallMeansCall' /\ onCall' \in BOOLEAN
  BY <1>1, <1>3, <1>9 DEF OnCallMeansCall
<1> QED BY <1>3, <1>5, <1>6, <1>7, <1>8, <1>10 DEF PInv, OffersIncoming

LEMMA UserAcceptsKeeps ==
  ASSUME PInv, NEW c \in Calls, UserAccepts(c)
  PROVE  PInv'
<1>1. PICK media \in Media : Does(c, Accept(At(c), media), wire[c])
  BY DEF UserAccepts
<1>2. offered' \subseteq offered /\ call[c].dir = "in" /\ media \in BOOLEAN
  BY MediaAssumption DEF UserAccepts, PInv, OffersIncoming
<1>3. Goes(At(c), Accept(At(c), media))
  BY <1>2, AtSound, AcceptGoes
<1> QED BY <1>1, <1>2, <1>3, StepKeeps

LEMMA UserRejectsKeeps ==
  ASSUME PInv, NEW c \in Calls, UserRejects(c)
  PROVE  PInv'
<1>1. Does(c, Reject(At(c)), wire[c]) /\ offered' \subseteq offered
  BY DEF UserRejects
<1>2. Goes(At(c), Reject(At(c)))
  BY AtSound, RejectGoes
<1> QED BY <1>1, <1>2, StepKeeps

\* The callbacks and clicks that leave the controller alone.
LEMMA LoopKeeps ==
  ASSUME PInv, NEW c \in Calls, NEW w, Steps(c, w), Goes(At(c), w)
  PROVE  PInv'
<1>1. Does(c, w, wire[c]) /\ offered' \subseteq offered
  BY DEF Steps
<1> QED BY <1>1, StepKeeps

LEMMA BrowserCallsBackKeeps ==
  ASSUME PInv, NEW c \in Calls, BrowserCallsBack(c)
  PROVE  PInv'
<1>1. At(c).call.task # "none"
  BY AtSound DEF BrowserCallsBack
<1>2. Goes(At(c), TaskDone(At(c))) /\ Goes(At(c), TaskFailed(At(c)))
  BY <1>1, AtSound, TaskDoneGoes, TaskFailedGoes
<1>3. Steps(c, TaskDone(At(c))) \/ Steps(c, TaskFailed(At(c)))
  BY DEF BrowserCallsBack
<1> QED BY <1>2, <1>3, LoopKeeps

LEMMA StatsComeKeeps ==
  ASSUME PInv, NEW c \in Calls, StatsCome(c)
  PROVE  PInv'
<1>1. Goes(At(c), StatsGiven(At(c))) /\ Goes(At(c), StatsFailed(At(c)))
  BY AtSound, StatsGivenGoes
<1>2. Steps(c, StatsGiven(At(c))) \/ Steps(c, StatsFailed(At(c)))
  BY DEF StatsCome
<1> QED BY <1>1, <1>2, LoopKeeps

\* The end button and a failed ICE only ask for the statistics.
LEMMA EndsKeeps ==
  ASSUME PInv, NEW c \in Calls, UserEnds(c) \/ IceFails(c)
  PROVE  PInv'
<1>1. Steps(c, Close(At(c)))
  BY DEF UserEnds, IceFails
<1>2. Goes(At(c), Close(At(c)))
  BY AtSound, CloseGoes
<1> QED BY <1>1, <1>2, LoopKeeps

LEMMA TimesOutKeeps ==
  ASSUME PInv, NEW c \in Calls, TimesOut(c)
  PROVE  PInv'
<1>1. Steps(c, Timeout(At(c)))
  BY DEF TimesOut
<1>2. Goes(At(c), Timeout(At(c)))
  BY AtSound, TimeoutGoes
<1> QED BY <1>1, <1>2, LoopKeeps

LEMMA PageTakesKeeps ==
  ASSUME PInv, NEW c \in Calls, PageTakes(c)
  PROVE  PInv'
<1>1. PICK m, w : w \in Hears(c, m) /\ Does(c, w, Tail(wire[c]))
  BY DEF PageTakes
<1>2. offered' = offered
  BY DEF PageTakes
<1>3. \/ w = Ring(onCall) /\ ~Busy /\ call[c].dir = "none"
      \/ w \in {At(c), Send(At(c), Response(480, "INVITE")),
                Send(At(c), Response(481, "BYE")), InvitingResponse(At(c), m.code),
                Receive(At(c), m)}
  BY <1>1 DEF Hears
<1>4. CASE w = Ring(onCall) /\ ~Busy /\ call[c].dir = "none"
  BY <1>1, <1>2, <1>4, RingKeeps
<1>5. /\ Goes(At(c), At(c)) /\ Goes(At(c), Receive(At(c), m))
      /\ Goes(At(c), InvitingResponse(At(c), m.code))
  BY AtSound, GoesNowhere, ReceiveGoes, InvitingResponseGoes
<1>6. /\ Goes(At(c), Send(At(c), Response(480, "INVITE")))
      /\ Goes(At(c), Send(At(c), Response(481, "BYE")))
  <2>1. Response(480, "INVITE") \in PageMessage /\ Response(481, "BYE") \in PageMessage
    BY Sendable
  <2> QED BY <2>1, AtSound, SendGoes
<1>7. CASE Goes(At(c), w)
  BY <1>1, <1>2, <1>7, StepKeeps
<1> QED BY <1>3, <1>4, <1>5, <1>6, <1>7

LEMMA TimerRunsKeeps ==
  ASSUME PInv, TimerRuns
  PROVE  PInv'
<1> DEFINE t == Head(pending)
<1>1. /\ pending \in Seq(Timers) /\ pending # << >>
      /\ pending' = Tail(pending) /\ call' = call /\ onCall' = onCall
      /\ offered' \subseteq IF t.event = "Ringing" THEN offered \cup {t.call} ELSE offered
  BY DEF TimerRuns, PInv
<1>2. /\ pending' \in Seq(Timers) /\ Len(pending') = Len(pending) - 1
      /\ \A i \in 1..Len(pending') : pending'[i] = pending[i + 1]
      /\ Len(pending) \in Nat \ {0} /\ t = pending[1]
  BY <1>1, HeadTailProperties, LenProperties
<1>3. t \in Timers /\ (t.event = "Ringing" => call[t.call].dir = "in")
  BY <1>1, <1>2, LenProperties DEF PInv, RingsIncoming
<1> HIDE DEF t
<1>4. RingsIncoming(pending', call)
  BY <1>2 DEF PInv, RingsIncoming
<1>5. \A c \in offered' : c \in Calls /\ call[c].dir = "in"
  BY <1>1, <1>3 DEF PInv, OffersIncoming, Timers
<1>6. OneRegistered' /\ OnCallMeansCall'
  BY <1>1 DEF PInv, OneRegistered, OnCallMeansCall
<1> QED BY <1>1, <1>2, <1>4, <1>5, <1>6 DEF PInv, OffersIncoming

\* The gateway's own steps, and stuttering: the page does not notice yet.
LEMMA PageUnmoved ==
  ASSUME PInv, UNCHANGED <<call, onCall, pending, offered>>
  PROVE  PInv'
BY DEF PInv, OffersIncoming, OneRegistered, OnCallMeansCall

-----------------------------------------------------------------------------
LEMMA PInvInit == Init => PInv
<1> SUFFICES ASSUME Init PROVE PInv
  OBVIOUS
<1>1. NoCallYet \in CallRecord
  BY DEF NoCallYet, CallRecord, Direction, SipCallState, PeerState, Task, Stats,
         InviteTransaction
<1>2. Sound(NoCallYet)
  BY <1>1 DEF Sound, NearlySound, ConnectorSound, MediaSound, NoCallYet, Incoming, Opened
<1>3. call \in [Calls -> CallRecord] /\ \A c \in Calls : call[c] = NoCallYet
  BY <1>1 DEF Init
<1>4. pending \in Seq(Timers) /\ RingsIncoming(pending, call)
  BY DEF Init, RingsIncoming
<1>5. offered = {} /\ onCall = FALSE
  BY DEF Init
<1>6. OneRegistered
  BY <1>3 DEF OneRegistered, NoCallYet
<1> QED BY <1>2, <1>3, <1>4, <1>5, <1>6 DEF PInv, OffersIncoming, OnCallMeansCall

LEMMA PInvNext == PInv /\ [Next]_vars => PInv'
<1> SUFFICES ASSUME PInv, [Next]_vars PROVE PInv'
  OBVIOUS
<1>1. ASSUME NEW c \in Calls, UserActs(c) PROVE PInv'
  BY <1>1, UserDialsKeeps, EndsKeeps, UserAcceptsKeeps, UserRejectsKeeps DEF UserActs
<1>2. ASSUME NEW c \in Calls, GatewayActs(c) PROVE PInv'
  <2>1. UNCHANGED <<call, onCall, pending, offered>>
    BY <1>2 DEF GatewayActs, GatewayCalls, GatewayCancels, GatewayRings, GatewayAnswers,
                GatewayHangsUp, GatewaySends
  <2> QED BY <2>1, PageUnmoved
<1>3. ASSUME NEW c \in Calls, LoopRuns(c) \/ IceFails(c) PROVE PInv'
  BY <1>3, BrowserCallsBackKeeps, StatsComeKeeps, PageTakesKeeps, TimesOutKeeps, EndsKeeps
     DEF LoopRuns
<1>4. CASE UNCHANGED vars
  BY <1>4, PageUnmoved DEF vars
<1> QED BY <1>1, <1>2, <1>3, <1>4, TimerRunsKeeps DEF Next

LEMMA PInvAlways == Spec => []PInv
BY PInvInit, PInvNext, PTL DEF Spec

\* A call whose connector has a SIP state can be reached by what the gateway
\* sends, however many calls the page has.
THEOREM ReachableHolds == Spec => []Reachable
<1>1. PInv => Reachable
  BY DEF PInv, Sound, NearlySound, ConnectorSound, Reachable
<1> QED BY <1>1, PInvAlways, PTL

\* No order of clicks, callbacks, timeouts and messages closes the media of an
\* open SIP call.
THEOREM OpenHasMediaHolds == Spec => []OpenHasMedia
<1>1. PInv => OpenHasMedia
  BY DEF PInv, Sound, OpenHasMedia
<1> QED BY <1>1, PInvAlways, PTL

\* A page never has two incoming calls, however many parties call it.
THEOREM OneIncomingHolds == Spec => []OneIncoming
<1>1. PInv => OneIncoming
  BY DEF PInv, Sound, NearlySound, ConnectorSound, OneRegistered, OneIncoming
<1> QED BY <1>1, PInvAlways, PTL

\* The flag that blocks dialling is set only while a dialled connector is in the
\* container.  A dial without media leaves both behind, so a set flag need not
\* mean that a call is up.
THEOREM OnCallMeansCallHolds == Spec => []OnCallMeansCall
<1>1. PInv => OnCallMeansCall
  BY DEF PInv
<1> QED BY <1>1, PInvAlways, PTL

-----------------------------------------------------------------------------
(* What the gateway makes of the messages of one step.  A property of all   *)
(* natural numbers up to a bound is proved of the least that lacks it.       *)

LEMMA LeastNatural ==
  ASSUME NEW T, T \subseteq Nat, T # {}
  PROVE  \E k \in T : \A n \in T : k <= n
<1> DEFINE R == OpToRel(<, Nat)
<1>1. IsWellFoundedOn(R, Nat)
  BY NatLessThanWellFounded
<1> HIDE DEF R
<1>2. PICK k \in T : \A n \in T : ~(<<n, k>> \in R)
  BY <1>1, WFMin
<1>3. ASSUME NEW n \in T PROVE k <= n
  <2>1. ~(<<n, k>> \in R) /\ k \in Nat /\ n \in Nat
    BY <1>2
  <2>2. ~(n < k)
    BY <2>1 DEF R, OpToRel
  <2> QED BY <2>1, <2>2
<1> QED BY <1>2, <1>3

Typed(outcomes) == \A o \in outcomes : o.state \in GatewayState

\* What the recursive function of Delivered computes for the first k messages.
After(after, g, out, k) ==
  after = [n \in 0..k |->
             IF n = 0 THEN {Outcome(g, <<>>)} ELSE Further(after[n - 1], out[n])]

LEMMA TakesTyped ==
  ASSUME NEW g \in GatewayState, NEW m, NEW t \in GatewayTakes(g, m)
  PROVE  t.state \in GatewayState
BY DEF GatewayTakes, GatewayState, Outcome

LEMMA FurtherTyped ==
  ASSUME NEW outcomes, NEW m, Typed(outcomes)
  PROVE  Typed(Further(outcomes, m))
<1> SUFFICES ASSUME NEW o \in outcomes, NEW t \in GatewayTakes(o.state, m)
             PROVE  Outcome(t.state, o.sent \o t.sent).state \in GatewayState
  BY DEF Typed, Further
<1>1. t.state \in GatewayState
  BY TakesTyped DEF Typed
<1> QED BY <1>1 DEF Outcome

\* The function exists, for however many messages.
LEMMA AfterExists ==
  ASSUME NEW g, NEW out, NEW k \in Nat
  PROVE  \E after : After(after, g, out, k)
<1> DEFINE Lacks == {n \in Nat : ~\E after : After(after, g, out, n)}
<1>1. SUFFICES Lacks = {}
  OBVIOUS
<1>2. SUFFICES ASSUME Lacks # {} PROVE FALSE
  OBVIOUS
<1>3. PICK n \in Lacks : \A i \in Lacks : n <= i
  <2>1. Lacks \subseteq Nat
    OBVIOUS
  <2> HIDE DEF Lacks
  <2> QED BY <1>2, <2>1, LeastNatural
<1>4. n \in Nat /\ ~\E after : After(after, g, out, n)
  BY <1>3
<1>5. CASE n = 0
  <2> DEFINE after == [i \in 0..0 |-> {Outcome(g, <<>>)}]
  <2>1. After(after, g, out, 0)
    BY DEF After
  <2> QED BY <1>4, <1>5, <2>1
<1>6. CASE n # 0
  <2>1. n - 1 \in Nat /\ ~(n <= n - 1)
    BY <1>4, <1>6
  <2>2. PICK old : After(old, g, out, n - 1)
    BY <1>3, <2>1
  <2> DEFINE after == [i \in 0..n |-> IF i = n THEN Further(old[n - 1], out[n]) ELSE old[i]]
             Entry(i) == IF i = 0 THEN {Outcome(g, <<>>)} ELSE Further(after[i - 1], out[i])
  <2>3. ASSUME NEW i \in 0..n PROVE after[i] = Entry(i)
    <3>1. CASE i = n
      <4>1. n - 1 \in 0..n /\ n - 1 # n /\ n # 0
        BY <1>4, <1>6
      <4>2. after[n - 1] = old[n - 1]
        BY <4>1
      <4>3. after[n] = Further(old[n - 1], out[n])
        BY <1>4
      <4> HIDE DEF after
      <4> QED BY <3>1, <4>1, <4>2, <4>3
    <3>2. CASE i # n
      <4>1. i \in 0..(n - 1) /\ (i # 0 => i - 1 \in 0..n /\ i - 1 # n)
        BY <1>4, <3>2
      <4>2. after[i] = old[i] /\ (i # 0 => after[i - 1] = old[i - 1])
        BY <3>2, <4>1
      <4>3. old[i] = IF i = 0 THEN {Outcome(g, <<>>)} ELSE Further(old[i - 1], out[i])
        <5> DEFINE D(f, j) == IF j = 0 THEN {Outcome(g, <<>>)} ELSE Further(f[j - 1], out[j])
        <5>1. old = [j \in 0..(n - 1) |-> D(old, j)]
          BY <2>2 DEF After
        <5> HIDE DEF D
        <5>2. old[i] = D(old, i)
          BY <4>1, <5>1
        <5> QED BY <5>2 DEF D
      <4> HIDE DEF after
      <4> QED BY <4>2, <4>3
    <3> QED BY <3>1, <3>2
  <2>4. after = [i \in 0..n |-> Entry(i)]
    <3>1. after = [i \in 0..n |-> after[i]]
      OBVIOUS
    <3> HIDE DEF after, Entry
    <3> QED BY <2>3, <3>1
  <2>5. After(after, g, out, n)
    BY <2>4 DEF After
  <2> QED BY <1>4, <2>5
<1> QED BY <1>5, <1>6

LEMMA DeliveredTyped ==
  ASSUME NEW g \in GatewayState, NEW out, Len(out) \in Nat, NEW o \in Delivered(g, out)
  PROVE  o.state \in GatewayState
<1> DEFINE L == Len(out)
           after == CHOOSE f : After(f, g, out, L)
           D(i) == IF i = 0 THEN {Outcome(g, <<>>)} ELSE Further(after[i - 1], out[i])
<1>1. After(after, g, out, L)
  BY AfterExists
<1>2. Delivered(g, out) = after[L]
  BY DEF Delivered, After
<1>3. after = [i \in 0..L |-> D(i)]
  BY <1>1 DEF After
<1> HIDE DEF after
<1>4. \A i \in 0..L : after[i] = D(i)
  <2> HIDE DEF D
  <2> QED BY <1>3
<1> DEFINE Untyped == {i \in 0..L : ~Typed(after[i])}
<1>5. SUFFICES Untyped = {}
  BY <1>2 DEF Typed
<1>6. SUFFICES ASSUME Untyped # {} PROVE FALSE
  OBVIOUS
<1>7. PICK i \in Untyped : \A j \in Untyped : i <= j
  <2>1. Untyped \subseteq Nat
    OBVIOUS
  <2> HIDE DEF Untyped
  <2> QED BY <1>6, <2>1, LeastNatural
<1>8. i # 0
  <2>1. after[0] = {Outcome(g, <<>>)}
    BY <1>4
  <2>2. Typed(after[0])
    BY <2>1 DEF Typed, Outcome
  <2> QED BY <1>7, <2>2
<1>9. i - 1 \in 0..L /\ ~(i <= i - 1)
  BY <1>7, <1>8
<1>10. Typed(after[i - 1])
  BY <1>7, <1>9
<1>11. after[i] = Further(after[i - 1], out[i])
  BY <1>4, <1>7, <1>8
<1> QED BY <1>7, <1>10, <1>11, FurtherTyped

-----------------------------------------------------------------------------
(* The type invariant. *)

\* The step w of call c keeps what the gateway waits for a handler state.
LEMMA DoesTyped ==
  ASSUME NEW c \in Calls, NEW w, Len(w.out) \in Nat, NEW rest, Does(c, w, rest),
         gateway \in [Calls -> GatewayState]
  PROVE  gateway' \in [Calls -> GatewayState]
<1>1. PICK o \in Delivered(gateway[c], w.out) : gateway' = [gateway EXCEPT ![c] = o.state]
  BY DEF Does
<1>2. gateway[c] \in GatewayState
  OBVIOUS
<1>3. o.state \in GatewayState
  BY <1>1, <1>2, DeliveredTyped
<1> QED BY <1>1, <1>3

LEMMA GoesTyped ==
  ASSUME NEW c \in Calls, NEW w, Goes(At(c), w), NEW rest, Does(c, w, rest),
         gateway \in [Calls -> GatewayState]
  PROVE  gateway' \in [Calls -> GatewayState]
<1>1. w.out \in Seq(PageMessage)
  BY DEF Goes, WorkRecord
<1>2. Len(w.out) \in Nat
  BY <1>1
<1> QED BY <1>2, DoesTyped

LEMMA UserTyped ==
  ASSUME PInv, TypeOK, NEW c \in Calls, UserActs(c)
  PROVE  gateway' \in [Calls -> GatewayState] /\ pointer' \in Calls \cup {NoCall}
<1>1. gateway \in [Calls -> GatewayState] /\ pointer \in Calls \cup {NoCall}
  BY DEF TypeOK
<1>2. pointer' \in {pointer, c, NoCall}
  BY DEF UserActs, UserDials, UserEnds, UserAccepts, UserRejects, Steps
<1>3. CASE UserDials(c)
  <2>1. PICK media \in Media : Does(c, Dial(onCall, media), wire[c])
    BY <1>3 DEF UserDials
  <2>2. Len(Dial(onCall, media).out) = 0
    BY DEF Dial, Work
  <2> QED BY <1>1, <1>2, <2>1, <2>2, DoesTyped
<1>4. CASE UserEnds(c)
  <2>1. Does(c, Close(At(c)), wire[c]) /\ Goes(At(c), Close(At(c)))
    BY <1>4, AtSound, CloseGoes DEF UserEnds, Steps
  <2> QED BY <1>1, <1>2, <2>1, GoesTyped
<1>5. CASE UserAccepts(c)
  <2>1. PICK media \in Media : Does(c, Accept(At(c), media), wire[c])
    BY <1>5 DEF UserAccepts
  <2>2. call[c].dir = "in" /\ media \in BOOLEAN
    BY <1>5, MediaAssumption DEF UserAccepts, PInv, OffersIncoming
  <2>3. Goes(At(c), Accept(At(c), media))
    BY <2>2, AtSound, AcceptGoes
  <2> QED BY <1>1, <1>2, <2>1, <2>3, GoesTyped
<1>6. CASE UserRejects(c)
  <2>1. Does(c, Reject(At(c)), wire[c]) /\ Goes(At(c), Reject(At(c)))
    BY <1>6, AtSound, RejectGoes DEF UserRejects
  <2> QED BY <1>1, <1>2, <2>1, GoesTyped
<1> QED BY <1>3, <1>4, <1>5, <1>6 DEF UserActs

\* Every state the gateway's own steps write is one of its handler's.
LEMMA GatewayActsTyped ==
  ASSUME TypeOK, NEW c \in Calls, GatewayActs(c)
  PROVE  gateway' \in [Calls -> GatewayState] /\ pointer' \in Calls \cup {NoCall}
<1>1. \E m : \E state \in GatewayState : GatewaySends(c, state, m)
  BY DEF GatewayActs, GatewayCalls, GatewayCancels, GatewayRings, GatewayAnswers,
         GatewayHangsUp, GatewayState
<1> QED BY <1>1 DEF GatewaySends, TypeOK

LEMMA LoopTyped ==
  ASSUME PInv, TypeOK, NEW c \in Calls, LoopRuns(c) \/ IceFails(c)
  PROVE  gateway' \in [Calls -> GatewayState] /\ pointer' \in Calls \cup {NoCall}
<1>1. gateway \in [Calls -> GatewayState] /\ pointer \in Calls \cup {NoCall}
  BY DEF TypeOK
<1>2. pointer' = pointer
  BY DEF LoopRuns, BrowserCallsBack, StatsCome, PageTakes, TimesOut, IceFails, Steps
<1>3. ASSUME NEW w, Steps(c, w), Goes(At(c), w) PROVE gateway' \in [Calls -> GatewayState]
  BY <1>1, <1>3, GoesTyped DEF Steps
<1>4. CASE BrowserCallsBack(c)
  <2>1. At(c).call.task # "none"
    BY <1>4, AtSound DEF BrowserCallsBack
  <2>2. Goes(At(c), TaskDone(At(c))) /\ Goes(At(c), TaskFailed(At(c)))
    BY <2>1, AtSound, TaskDoneGoes, TaskFailedGoes
  <2> QED BY <1>1, <1>2, <1>3, <1>4, <2>2 DEF BrowserCallsBack
<1>5. CASE StatsCome(c)
  <2>1. Goes(At(c), StatsGiven(At(c))) /\ Goes(At(c), StatsFailed(At(c)))
    BY AtSound, StatsGivenGoes
  <2> QED BY <1>1, <1>2, <1>3, <1>5, <2>1 DEF StatsCome
<1>6. CASE TimesOut(c) \/ IceFails(c)
  <2>1. Goes(At(c), Timeout(At(c))) /\ Goes(At(c), Close(At(c)))
    BY AtSound, TimeoutGoes, CloseGoes
  <2> QED BY <1>1, <1>2, <1>3, <1>6, <2>1 DEF TimesOut, IceFails
<1>7. CASE PageTakes(c)
  <2>1. PICK m, w : w \in Hears(c, m) /\ Does(c, w, Tail(wire[c]))
    BY <1>7 DEF PageTakes
  <2>2. \/ w = Ring(onCall)
        \/ w \in {At(c), Send(At(c), Response(480, "INVITE")),
                  Send(At(c), Response(481, "BYE")), InvitingResponse(At(c), m.code),
                  Receive(At(c), m)}
    BY <2>1 DEF Hears
  <2>3. CASE w = Ring(onCall)
    <3>1. Ring(onCall).out = Append(<< >>, Response(180, "INVITE"))
      BY DEF Ring, Notify, Send, Work
    <3>2. Len(w.out) = 1
      BY <2>3, <3>1
    <3> QED BY <1>1, <1>2, <2>1, <3>2, DoesTyped
  <2>4. /\ Goes(At(c), At(c)) /\ Goes(At(c), Receive(At(c), m))
        /\ Goes(At(c), InvitingResponse(At(c), m.code))
        /\ Goes(At(c), Send(At(c), Response(480, "INVITE")))
        /\ Goes(At(c), Send(At(c), Response(481, "BYE")))
    <3>1. Response(480, "INVITE") \in PageMessage /\ Response(481, "BYE") \in PageMessage
      BY Sendable
    <3> QED BY <3>1, AtSound, GoesNowhere, ReceiveGoes, InvitingResponseGoes, SendGoes
  <2>5. CASE Goes(At(c), w)
    BY <1>1, <1>2, <2>1, <2>5, GoesTyped
  <2> QED BY <2>2, <2>3, <2>4, <2>5
<1> QED BY <1>4, <1>5, <1>6, <1>7 DEF LoopRuns

\* The controller points at a call a timer was started for.
LEMMA TimerTyped ==
  ASSUME PInv, TypeOK, TimerRuns
  PROVE  gateway' \in [Calls -> GatewayState] /\ pointer' \in Calls \cup {NoCall}
<1>1. pending \in Seq(Timers) /\ pending # << >>
  BY DEF TimerRuns, PInv
<1>2. Head(pending) \in Timers
  BY <1>1, HeadTailProperties
<1> QED BY <1>2 DEF TimerRuns, TypeOK, Timers

LEMMA TypeOKNext == PInv /\ PInv' /\ TypeOK /\ [Next]_vars => TypeOK'
<1> SUFFICES ASSUME PInv, PInv', TypeOK, [Next]_vars PROVE TypeOK'
  OBVIOUS
<1>1. gateway' \in [Calls -> GatewayState] /\ pointer' \in Calls \cup {NoCall}
  <2>1. CASE UNCHANGED vars
    BY <2>1 DEF vars, TypeOK
  <2> QED BY <2>1, UserTyped, GatewayActsTyped, LoopTyped, TimerTyped DEF Next
<1>2. \A i \in DOMAIN pending' : pending'[i] \in [event : Event, call : Calls]
  <2>1. ASSUME NEW queue \in Seq(Timers), NEW i \in DOMAIN queue PROVE queue[i] \in Timers
    BY <2>1
  <2>2. pending' \in Seq(Timers)
    BY DEF PInv
  <2>3. \A i \in DOMAIN pending' : pending'[i] \in Timers
    BY <2>1, <2>2
  <2> QED BY <2>3 DEF Timers
<1> QED BY <1>1, <1>2 DEF TypeOK, PInv

\* Whatever a page and the gateway send each other, however many messages a
\* callback sends at once: the calls, timers, buttons and the gateway's
\* handlers stay in the states the code has for them.
THEOREM TypeOKHolds == Spec => []TypeOK
<1>1. Init /\ PInv => TypeOK
  <2> SUFFICES ASSUME Init, PInv PROVE TypeOK
    OBVIOUS
  <2>1. gateway \in [Calls -> GatewayState] /\ pending = << >> /\ pointer = NoCall
    BY DEF Init, GatewayState
  <2> QED BY <2>1 DEF PInv, TypeOK
<1> QED BY <1>1, PInvInit, PInvNext, TypeOKNext, PTL DEF Spec
=============================================================================
