------------------------- MODULE RegistrationProofs -------------------------
(***************************************************************************)
(* Proofs about Registration, for every set of sessions and extensions,    *)
(* every assignment of sessions to extensions and every bound.             *)
(***************************************************************************)
EXTENDS Registration, SequenceTheorems, TLAPS

HasOk(s) == \E i \in 1..Len(toPage[s]) : toPage[s][i].code = 200
HasSession(e) == e \in Extensions /\ session[e] # NoSession

\* What makes the invariants of Registration inductive.
RegisteredHaveSession == \A e \in Extensions : registered[e] => session[e] # NoSession
SessionsAreReal == \A e \in Extensions : session[e] # NoSession =>
                     ExtensionOf[session[e]] = e /\ socket[session[e]] # "idle"
IdleIsQuiet == \A s \in Sessions : socket[s] = "idle" =>
  toGateway[s] = <<>> /\ state[s] = "UNREGISTERED" /\ ~opened[s] /\ ~waiting[s]
OkMeansSession == \A s \in Sessions : HasOk(s) => HasSession(ExtensionOf[s])
OpenedMeansSession == \A s \in Sessions : opened[s] => HasSession(ExtensionOf[s])

RInv ==
  /\ TypeOK
  /\ RegisteredHaveSession
  /\ SessionsAreReal
  /\ IdleIsQuiet
  /\ OkMeansSession
  /\ OpenedMeansSession
  /\ NeverStuck

-----------------------------------------------------------------------------
(* What the operators that actions share do to the wires and the page.     *)

\* A message that is taken comes from a session that is open or was.
LEMMA TakesEffect ==
  ASSUME TypeOK, NEW s \in Sessions, Takes(s)
  PROVE  /\ toGateway[s] # <<>>
         /\ Head(toGateway[s]) \in CallIds
         /\ toGateway' \in [Sessions -> Seq(CallIds)]
         /\ \A t \in Sessions : toGateway'[t] # <<>> => toGateway[t] # <<>>
<1>1. toGateway[s] \in Seq(CallIds) /\ toGateway[s] # <<>>
  BY DEF TypeOK, Takes
<1>2. Head(toGateway[s]) \in CallIds /\ Tail(toGateway[s]) \in Seq(CallIds)
  BY <1>1, HeadTailProperties
<1>3. toGateway' = [toGateway EXCEPT ![s] = Tail(@)]
  BY DEF Takes
<1> QED
  BY <1>1, <1>2, <1>3 DEF TypeOK

\* An answer puts a 200 on the way to a page only if it is one.
LEMMA AnswerEffect ==
  ASSUME TypeOK, NEW s \in Sessions, NEW codes \in Seq({100, 200, 403}),
         NEW callId \in CallIds, Answer(s, codes, callId)
  PROVE  /\ toPage' \in [Sessions -> Seq(Response)]
         /\ \A t \in Sessions : HasOk(t)' =>
              HasOk(t) \/ (t = s /\ \E i \in 1..Len(codes) : codes[i] = 200)
<1> DEFINE sent == [i \in 1..Len(codes) |-> [code |-> codes[i], callId |-> callId]]
<1>1. Len(codes) \in Nat /\ \A i \in 1..Len(codes) : codes[i] \in {100, 200, 403}
  BY ElementOfSeq
<1>2. sent \in Seq(Response) /\ Len(sent) = Len(codes)
  <2>1. \A i \in 1..Len(codes) : sent[i] \in Response
    BY <1>1 DEF Response
  <2> HIDE DEF sent
  <2>2. sent = [i \in 1..Len(codes) |-> sent[i]]
    BY DEF sent
  <2> QED
    BY <1>1, <2>1, <2>2
<1>3. CASE socket[s] = "open"
  <2>1. toPage[s] \in Seq(Response)
    BY DEF TypeOK
  <2>2. toPage' = [toPage EXCEPT ![s] = @ \o sent]
    BY <1>3 DEF Answer
  <2> HIDE DEF sent
  <2>3. toPage[s] \o sent \in Seq(Response)
    BY <1>2, <2>1, ConcatProperties
  <2>4. toPage' \in [Sessions -> Seq(Response)]
    BY <2>2, <2>3 DEF TypeOK
  <2>5. ASSUME NEW t \in Sessions, HasOk(t)', t # s
        PROVE  HasOk(t)
    BY <2>2, <2>5 DEF HasOk, TypeOK
  <2>6. ASSUME HasOk(s)', ~HasOk(s)
        PROVE  \E i \in 1..Len(codes) : codes[i] = 200
    <3>1. toPage'[s] = toPage[s] \o sent
      BY <2>2 DEF TypeOK
    <3>2. PICK i \in 1..Len(toPage[s] \o sent) : (toPage[s] \o sent)[i].code = 200
      BY <2>6, <3>1 DEF HasOk
    <3>3. Len(toPage[s]) \in Nat /\ Len(toPage[s] \o sent) = Len(toPage[s]) + Len(codes)
      <4>1. Len(toPage[s]) \in Nat
        BY <2>1, LenProperties
      <4>2. Len(toPage[s] \o sent) = Len(toPage[s]) + Len(sent)
        BY <1>2, <2>1, ConcatProperties
      <4> QED
        BY <1>2, <4>1, <4>2
    <3>4. i > Len(toPage[s])
      BY <2>1, <1>2, <2>6, <3>2, <3>3, ConcatProperties DEF HasOk
    <3>5. i - Len(toPage[s]) \in 1..Len(codes)
      BY <1>1, <3>2, <3>3, <3>4
    <3>6. (toPage[s] \o sent)[i] = sent[i - Len(toPage[s])]
      BY <1>2, <2>1, <3>2, <3>3, <3>4, ConcatProperties
    <3>7. sent[i - Len(toPage[s])].code = codes[i - Len(toPage[s])]
      BY <3>5 DEF sent
    <3> QED
      BY <3>2, <3>5, <3>6, <3>7
  <2> QED
    BY <2>4, <2>5, <2>6
<1>4. CASE socket[s] # "open"
  BY <1>4 DEF Answer, TypeOK, HasOk
<1> QED
  BY <1>3, <1>4

\* A new REGISTER leaves the page waiting for its answer.
LEMMA SendEffect ==
  ASSUME TypeOK, NEW s \in Sessions, SendRegister(s)
  PROVE  /\ toGateway' \in [Sessions -> Seq(CallIds)]
         /\ request' \in [Sessions -> CallIds \cup {0}]
         /\ now' \in [Sessions -> CallIds \cup {0}]
         /\ waiting' = [waiting EXCEPT ![s] = TRUE]
         /\ \A t \in Sessions : t # s => toGateway'[t] = toGateway[t]
<1>1. PICK callId \in CallIds :
        /\ now' = [now EXCEPT ![s] = callId]
        /\ request' = [request EXCEPT ![s] = callId]
        /\ waiting' = [waiting EXCEPT ![s] = TRUE]
        /\ toGateway' = [toGateway EXCEPT ![s] = Append(@, callId)]
  BY DEF SendRegister
<1>2. Append(toGateway[s], callId) \in Seq(CallIds)
  BY AppendProperties DEF TypeOK
<1> QED
  BY <1>1, <1>2 DEF TypeOK

LEMMA AnsweredEffect ==
  ASSUME TypeOK, NEW s \in Sessions, NEW m \in Response, Answered(s, m)
  PROVE  /\ waiting' \in [Sessions -> BOOLEAN]
         /\ m.code = 100 => waiting' = waiting
         /\ \A t \in Sessions : t # s => waiting'[t] = waiting[t]
<1>1. (m.code = 100 \/ m.callId # request[s]) \in BOOLEAN
  OBVIOUS
<1>2. waiting \in [Sessions -> BOOLEAN]
  BY DEF TypeOK
<1>3. waiting' = [waiting EXCEPT ![s] = @ /\ (m.code = 100 \/ m.callId # request[s])]
  BY DEF Answered
<1>4. waiting' \in [Sessions -> BOOLEAN]
  BY <1>2, <1>3
<1>5. \A t \in Sessions : t # s => waiting'[t] = waiting[t]
  BY <1>2, <1>3
<1>6. ASSUME m.code = 100
      PROVE  waiting' = waiting
  BY <1>2, <1>3, <1>6
<1> QED
  BY <1>4, <1>5, <1>6

-----------------------------------------------------------------------------
(* The gateway's steps. *)

LEMMA InitEstablishes == Init => RInv
<1> SUFFICES ASSUME Init
             PROVE  RInv
  OBVIOUS
<1>1. TypeOK
  BY EmptySeq DEF Init, TypeOK, RegisterState
<1>2. OkMeansSession
  BY DEF Init, OkMeansSession, HasOk
<1> QED
  BY <1>1, <1>2
  DEF Init, RInv, RegisteredHaveSession, SessionsAreReal, IdleIsQuiet,
      OpenedMeansSession, NeverStuck, Transient

\* A step that binds no extension, and leaves no socket as if never opened,
\* keeps what RInv says of the sessions of extensions.
LEMMA SessionsKept ==
  ASSUME RInv, UNCHANGED gateway,
         \A t \in Sessions : socket[t] # "idle" => socket'[t] # "idle"
  PROVE  /\ RegisteredHaveSession' /\ SessionsAreReal'
         /\ \A e : HasSession(e)' <=> HasSession(e)
<1>1. RegisteredHaveSession'
  BY DEF RInv, RegisteredHaveSession, gateway
<1>2. SessionsAreReal'
  BY DEF RInv, SessionsAreReal, gateway, TypeOK
<1>3. \A e : HasSession(e)' <=> HasSession(e)
  BY DEF HasSession, gateway
<1> QED
  BY <1>1, <1>2, <1>3

\* Nor does a step that leaves the pages alone disturb what RInv says of them.
LEMMA PagesKept ==
  ASSUME RInv, UNCHANGED connector,
         \A e : HasSession(e) => HasSession(e)'
  PROVE  OpenedMeansSession' /\ NeverStuck'
<1>1. OpenedMeansSession'
  BY DEF RInv, OpenedMeansSession, connector
<1>2. NeverStuck'
  BY DEF RInv, NeverStuck, connector
<1> QED
  BY <1>1, <1>2

LEMMA IgnoreRegisterPreserves ==
  ASSUME RInv, NEW s \in Sessions, IgnoreRegister(s)
  PROVE  RInv'
<1>1. TypeOK /\ Takes(s) /\ UNCHANGED <<gateway, toPage>> /\ UNCHANGED <<socket, connector>>
  BY DEF RInv, IgnoreRegister, Takes
<1>2. TypeOK'
  BY <1>1, TakesEffect DEF TypeOK, gateway, connector
<1>3. RegisteredHaveSession' /\ SessionsAreReal' /\ \A e : HasSession(e)' <=> HasSession(e)
  BY <1>1, SessionsKept
<1>4. IdleIsQuiet'
  BY <1>1, TakesEffect DEF RInv, IdleIsQuiet, connector
<1>5. OkMeansSession'
  BY <1>1, <1>3 DEF RInv, OkMeansSession, HasOk
<1>6. OpenedMeansSession' /\ NeverStuck'
  BY <1>1, <1>3, PagesKept
<1> QED
  BY <1>2, <1>3, <1>4, <1>5, <1>6 DEF RInv

LEMMA ForbidRegisterPreserves ==
  ASSUME RInv, NEW s \in Sessions, ForbidRegister(s)
  PROVE  RInv'
<1>1. TypeOK /\ Takes(s) /\ UNCHANGED gateway /\ UNCHANGED <<socket, connector>>
  BY DEF RInv, ForbidRegister, Takes
<1>2. Head(toGateway[s]) \in CallIds /\ Answer(s, <<403>>, Head(toGateway[s]))
  BY <1>1, TakesEffect DEF ForbidRegister
<1>3. /\ toPage' \in [Sessions -> Seq(Response)]
      /\ \A t \in Sessions : HasOk(t)' => HasOk(t)
  <2> DEFINE codes == <<403>>  callId == Head(toGateway[s])
  <2>1. codes \in Seq({100, 200, 403}) /\ ~ \E i \in 1..Len(codes) : codes[i] = 200
    OBVIOUS
  <2>2. callId \in CallIds /\ Answer(s, codes, callId)
    BY <1>2
  <2> HIDE DEF codes, callId
  <2> QED
    BY <1>1, <2>1, <2>2, AnswerEffect
<1>4. TypeOK'
  BY <1>1, <1>3, TakesEffect DEF TypeOK, gateway, connector
<1>5. RegisteredHaveSession' /\ SessionsAreReal' /\ \A e : HasSession(e)' <=> HasSession(e)
  BY <1>1, SessionsKept
<1>6. IdleIsQuiet'
  BY <1>1, TakesEffect DEF RInv, IdleIsQuiet, connector
<1>7. OkMeansSession'
  BY <1>3, <1>5 DEF RInv, OkMeansSession
<1>8. OpenedMeansSession' /\ NeverStuck'
  BY <1>1, <1>5, PagesKept
<1> QED
  BY <1>4, <1>5, <1>6, <1>7, <1>8 DEF RInv

\* The session is one that has been opened, since it has sent a REGISTER.
LEMMA AcceptRegisterPreserves ==
  ASSUME RInv, NEW s \in Sessions, AcceptRegister(s)
  PROVE  RInv'
<1> DEFINE e0 == ExtensionOf[s]
<1>1. /\ TypeOK /\ Takes(s) /\ UNCHANGED <<socket, connector>>
      /\ e0 \in Extensions
      /\ session' = [session EXCEPT ![e0] = s]
      /\ registered' = [registered EXCEPT ![e0] = TRUE]
      /\ known' = known \cup {Head(toGateway[s])}
      /\ Answer(s, <<100, 200>>, Head(toGateway[s]))
  BY DEF RInv, AcceptRegister, Takes, Bind, IsLocal
<1>2. s # NoSession /\ socket[s] # "idle"
  BY <1>1, TakesEffect, NoSessionAssumption DEF RInv, IdleIsQuiet
<1>3. Head(toGateway[s]) \in CallIds
  BY <1>1, TakesEffect
<1>4. /\ toPage' \in [Sessions -> Seq(Response)]
      /\ \A t \in Sessions : HasOk(t)' => HasOk(t) \/ t = s
  <2> DEFINE codes == <<100, 200>>  callId == Head(toGateway[s])
  <2>1. codes \in Seq({100, 200, 403})
    OBVIOUS
  <2>2. callId \in CallIds /\ Answer(s, codes, callId)
    BY <1>1, <1>3
  <2> HIDE DEF codes, callId
  <2> QED
    BY <1>1, <2>1, <2>2, AnswerEffect
<1>5. TypeOK'
  BY <1>1, <1>4, TakesEffect DEF TypeOK, connector
<1> HIDE DEF e0
<1>6. RegisteredHaveSession'
  BY <1>1, <1>2 DEF RInv, RegisteredHaveSession, TypeOK
<1>7. SessionsAreReal'
  BY <1>1, <1>2 DEF RInv, SessionsAreReal, TypeOK, e0
<1>8. HasSession(e0)' /\ \A e : HasSession(e) => HasSession(e)'
  BY <1>1, <1>2 DEF HasSession, TypeOK
<1>9. IdleIsQuiet'
  BY <1>1, TakesEffect DEF RInv, IdleIsQuiet, connector
<1>10. OkMeansSession'
  BY <1>4, <1>8 DEF RInv, OkMeansSession, e0
<1>11. OpenedMeansSession' /\ NeverStuck'
  BY <1>1, <1>8, PagesKept
<1> QED
  BY <1>5, <1>6, <1>7, <1>9, <1>10, <1>11 DEF RInv

LEMMA OnClosePreserves ==
  ASSUME RInv, NEW s \in Sessions, OnClose(s)
  PROVE  RInv'
<1>1. /\ TypeOK /\ UNCHANGED <<gateway, toGateway, toPage, connector>>
      /\ socket[s] = "closed" /\ socket' = [socket EXCEPT ![s] = "gone"]
  BY DEF RInv, OnClose, RemoveSession
<1>2. /\ socket' \in [Sessions -> {"idle", "open", "closed", "gone"}]
      /\ \A t \in Sessions : socket'[t] = "idle" <=> socket[t] = "idle"
  BY <1>1 DEF TypeOK
<1>3. TypeOK'
  BY <1>1, <1>2 DEF TypeOK, gateway, connector
<1>4. RegisteredHaveSession' /\ SessionsAreReal' /\ \A e : HasSession(e)' <=> HasSession(e)
  BY <1>1, <1>2, SessionsKept
<1>5. IdleIsQuiet'
  BY <1>1, <1>2 DEF RInv, IdleIsQuiet, connector
<1>6. OkMeansSession'
  BY <1>1, <1>4 DEF RInv, OkMeansSession, HasOk
<1>7. OpenedMeansSession' /\ NeverStuck'
  BY <1>1, <1>4, PagesKept
<1> QED
  BY <1>3, <1>4, <1>5, <1>6, <1>7 DEF RInv

-----------------------------------------------------------------------------
(* The page's steps. *)

\* A step that only the page of s sees keeps what RInv says of sessions and
\* answers.
LEMMA AnswersKept ==
  ASSUME RInv, UNCHANGED gateway,
         \A t \in Sessions : socket[t] # "idle" => socket'[t] # "idle",
         \A t \in Sessions : HasOk(t)' => HasOk(t)
  PROVE  /\ RegisteredHaveSession' /\ SessionsAreReal' /\ OkMeansSession'
         /\ \A e : HasSession(e)' <=> HasSession(e)
<1>1. RegisteredHaveSession' /\ SessionsAreReal' /\ \A e : HasSession(e)' <=> HasSession(e)
  BY SessionsKept
<1>2. OkMeansSession'
  BY <1>1 DEF RInv, OkMeansSession
<1> QED
  BY <1>1, <1>2

LEMMA OpenPreserves ==
  ASSUME RInv, NEW s \in Sessions, Open(s)
  PROVE  RInv'
<1>1. /\ TypeOK /\ SendRegister(s) /\ UNCHANGED <<gateway, toPage, opened, closing>>
      /\ socket' = [socket EXCEPT ![s] = "open"]
      /\ state' = [state EXCEPT ![s] = "REGISTERING"]
  BY DEF RInv, Open, Become
<1>2. socket' \in [Sessions -> {"idle", "open", "closed", "gone"}]
      /\ state' \in [Sessions -> RegisterState]
  BY <1>1 DEF TypeOK, RegisterState
<1>3. waiting' = [waiting EXCEPT ![s] = TRUE] /\ waiting' \in [Sessions -> BOOLEAN]
  BY <1>1, SendEffect DEF TypeOK
<1>4. TypeOK'
  BY <1>1, <1>2, <1>3, SendEffect DEF TypeOK, gateway
<1>5. /\ RegisteredHaveSession' /\ SessionsAreReal' /\ OkMeansSession'
      /\ \A e : HasSession(e)' <=> HasSession(e)
  BY <1>1, AnswersKept DEF TypeOK, HasOk
<1>6. IdleIsQuiet'
  BY <1>1, <1>3, SendEffect DEF RInv, IdleIsQuiet, TypeOK
<1>7. OpenedMeansSession'
  BY <1>1, <1>5 DEF RInv, OpenedMeansSession
<1>8. NeverStuck'
  BY <1>1, <1>3 DEF RInv, NeverStuck, TypeOK
<1> QED
  BY <1>4, <1>5, <1>6, <1>7, <1>8 DEF RInv

\* Refresh, close() and a timeout send a REGISTER, or close() is put off.
LEMMA PageSends ==
  ASSUME RInv, NEW s \in Sessions, SendRegister(s), socket[s] # "idle",
         UNCHANGED <<gateway, socket, toPage, opened>>,
         closing' \in [Sessions -> BOOLEAN],
         NEW new \in RegisterState, state' = [state EXCEPT ![s] = new]
  PROVE  RInv'
<1>1. TypeOK
  BY DEF RInv
<1>2. waiting' = [waiting EXCEPT ![s] = TRUE] /\ waiting' \in [Sessions -> BOOLEAN]
  BY <1>1, SendEffect DEF TypeOK
<1>3. TypeOK'
  BY <1>1, <1>2, SendEffect DEF TypeOK, gateway
<1>4. /\ RegisteredHaveSession' /\ SessionsAreReal' /\ OkMeansSession'
      /\ \A e : HasSession(e)' <=> HasSession(e)
  BY AnswersKept DEF HasOk
<1>5. IdleIsQuiet'
  BY <1>1, <1>2, SendEffect DEF RInv, IdleIsQuiet, TypeOK
<1>6. OpenedMeansSession'
  BY <1>4 DEF RInv, OpenedMeansSession
<1>7. NeverStuck'
  BY <1>1, <1>2 DEF RInv, NeverStuck, TypeOK
<1> QED
  BY <1>3, <1>4, <1>5, <1>6, <1>7 DEF RInv

LEMMA RefreshPreserves ==
  ASSUME RInv, NEW s \in Sessions, Refresh(s)
  PROVE  RInv'
<1>1. socket[s] # "idle"
  BY DEF RInv, IdleIsQuiet, Refresh
<1>2. "REFRESHING" \in RegisterState /\ state' = [state EXCEPT ![s] = "REFRESHING"]
  BY DEF Refresh, Become, RegisterState
<1>3. closing' \in [Sessions -> BOOLEAN]
  BY DEF RInv, TypeOK, Refresh
<1> QED
  BY <1>1, <1>2, <1>3, PageSends DEF Refresh

LEMMA ClosePreserves ==
  ASSUME RInv, NEW s \in Sessions, Close(s)
  PROVE  RInv'
<1>1. socket[s] # "idle"
  BY DEF RInv, IdleIsQuiet, Close
<1>2. CASE state[s] = "REGISTERED"
  <2>1. "UNREGISTERING" \in RegisterState /\ state' = [state EXCEPT ![s] = "UNREGISTERING"]
    BY <1>2 DEF Close, Become, RegisterState
  <2>2. closing' \in [Sessions -> BOOLEAN]
    BY <1>2 DEF RInv, TypeOK, Close
  <2> QED
    BY <1>1, <1>2, <2>1, <2>2, PageSends DEF Close
<1>3. CASE state[s] # "REGISTERED"
  <2>1. /\ UNCHANGED <<gateway, socket, toPage, opened, state, request, waiting, now, toGateway>>
        /\ closing' = [closing EXCEPT ![s] = TRUE]
    BY <1>3 DEF Close
  <2>2. TypeOK'
    BY <2>1 DEF RInv, TypeOK, gateway
  <2>3. /\ RegisteredHaveSession' /\ SessionsAreReal' /\ OkMeansSession'
        /\ \A e : HasSession(e)' <=> HasSession(e)
    BY <2>1, AnswersKept DEF HasOk
  <2>4. IdleIsQuiet' /\ NeverStuck' /\ OpenedMeansSession'
    BY <2>1, <2>3 DEF RInv, IdleIsQuiet, NeverStuck, OpenedMeansSession
  <2> QED
    BY <2>2, <2>3, <2>4 DEF RInv
<1> QED
  BY <1>2, <1>3

LEMMA TimeoutPreserves ==
  ASSUME RInv, NEW s \in Sessions, Timeout(s)
  PROVE  RInv'
<1>1. socket[s] # "idle"
  BY DEF RInv, IdleIsQuiet, Timeout
<1>2. state[s] \in RegisterState /\ state' = [state EXCEPT ![s] = state[s]]
  BY DEF RInv, TypeOK, Timeout
<1>3. closing' \in [Sessions -> BOOLEAN]
  BY DEF RInv, TypeOK, Timeout
<1> QED
  BY <1>1, <1>2, <1>3, PageSends DEF Timeout, Retry

\* What is left on the way to a page was on the way before.
LEMMA ReadEffect ==
  ASSUME TypeOK, NEW s \in Sessions, toPage[s] # <<>>,
         toPage' = [toPage EXCEPT ![s] = Tail(@)]
  PROVE  /\ toPage' \in [Sessions -> Seq(Response)]
         /\ Head(toPage[s]) \in Response
         /\ Head(toPage[s]).code = 200 => HasOk(s)
         /\ \A t \in Sessions : HasOk(t)' => HasOk(t)
<1>1. toPage[s] \in Seq(Response)
  BY DEF TypeOK
<1>2. /\ Head(toPage[s]) \in Response /\ Tail(toPage[s]) \in Seq(Response)
      /\ Len(Tail(toPage[s])) = Len(toPage[s]) - 1
      /\ \A i \in 1..Len(Tail(toPage[s])) : Tail(toPage[s])[i] = toPage[s][i + 1]
  BY <1>1, HeadTailProperties
<1>3. Len(toPage[s]) \in Nat \ {0} /\ Head(toPage[s]) = toPage[s][1]
  BY <1>1, EmptySeq
<1>4. toPage' \in [Sessions -> Seq(Response)]
  BY <1>2 DEF TypeOK
<1>5. Head(toPage[s]).code = 200 => HasOk(s)
  BY <1>3 DEF HasOk
<1>6. ASSUME HasOk(s)'
      PROVE  HasOk(s)
  <2> DEFINE rest == Tail(toPage[s])
  <2>1. toPage'[s] = rest
    BY DEF TypeOK
  <2>2. /\ Len(rest) = Len(toPage[s]) - 1
        /\ \A i \in 1..Len(rest) : rest[i] = toPage[s][i + 1]
    BY <1>2
  <2> HIDE DEF rest
  <2>3. PICK i \in 1..Len(rest) : rest[i].code = 200
    BY <1>6, <2>1 DEF HasOk
  <2>4. i + 1 \in 1..Len(toPage[s]) /\ toPage[s][i + 1].code = 200
    BY <1>3, <2>2, <2>3
  <2> QED
    BY <2>4 DEF HasOk
<1>7. ASSUME NEW t \in Sessions, t # s, HasOk(t)'
      PROVE  HasOk(t)
  BY <1>7 DEF HasOk, TypeOK
<1> QED
  BY <1>2, <1>4, <1>5, <1>6, <1>7

\* The page is as if it had never connected.
LEMMA ResetEffect ==
  ASSUME TypeOK, NEW s \in Sessions, Reset(s)
  PROVE  /\ state' \in [Sessions -> RegisterState]
         /\ opened' \in [Sessions -> BOOLEAN] /\ closing' \in [Sessions -> BOOLEAN]
         /\ request' \in [Sessions -> CallIds \cup {0}]
         /\ waiting' \in [Sessions -> BOOLEAN]
         /\ now' \in [Sessions -> CallIds \cup {0}]
         /\ state'[s] = "UNREGISTERED" /\ ~opened'[s] /\ ~waiting'[s]
         /\ \A t \in Sessions : t # s =>
              state'[t] = state[t] /\ opened'[t] = opened[t] /\ waiting'[t] = waiting[t]
<1>1. /\ state' \in [Sessions -> RegisterState] /\ state'[s] = "UNREGISTERED"
      /\ \A t \in Sessions : t # s => state'[t] = state[t]
  BY DEF TypeOK, Reset, RegisterState
<1>2. /\ opened' \in [Sessions -> BOOLEAN] /\ ~opened'[s]
      /\ \A t \in Sessions : t # s => opened'[t] = opened[t]
  BY DEF TypeOK, Reset
<1>3. /\ waiting' \in [Sessions -> BOOLEAN] /\ ~waiting'[s]
      /\ \A t \in Sessions : t # s => waiting'[t] = waiting[t]
  BY DEF TypeOK, Reset
<1>4. /\ closing' \in [Sessions -> BOOLEAN]
      /\ request' \in [Sessions -> CallIds \cup {0}]
      /\ now' \in [Sessions -> CallIds \cup {0}]
  BY DEF TypeOK, Reset
<1> QED
  BY <1>1, <1>2, <1>3, <1>4

LEMMA ReceivePreserves ==
  ASSUME RInv, NEW s \in Sessions, Receive(s)
  PROVE  RInv'
<1> DEFINE m == Head(toPage[s])
<1>1. /\ TypeOK /\ toPage[s] # <<>> /\ toPage' = [toPage EXCEPT ![s] = Tail(@)]
      /\ UNCHANGED <<gateway, socket>>
  BY DEF RInv, Receive
<1>2. /\ toPage' \in [Sessions -> Seq(Response)] /\ m \in Response
      /\ m.code = 200 => HasOk(s)
      /\ \A t \in Sessions : HasOk(t)' => HasOk(t)
  <2>1. /\ toPage' \in [Sessions -> Seq(Response)]
        /\ Head(toPage[s]) \in Response
        /\ Head(toPage[s]).code = 200 => HasOk(s)
        /\ \A t \in Sessions : HasOk(t)' => HasOk(t)
    BY <1>1, ReadEffect, Zenon
  <2> QED
    BY <2>1
<1>3. /\ \/ m.code = 100 /\ Ignore(s, m)
         \/ m.code # 100 /\ state[s] \in {"UNREGISTERED", "REGISTERED"} /\ Ignore(s, m)
         \/ m.code # 100 /\ state[s] = "UNREGISTERING" /\ Reset(s) /\ UNCHANGED toGateway
         \/ m.code = 200 /\ state[s] \in {"REGISTERING", "REFRESHING"} /\ Confirmed(s, m)
         \/ m.code = 403 /\ state[s] \in {"REGISTERING", "REFRESHING"} /\ Reset(s)
                         /\ UNCHANGED toGateway
  BY DEF Receive
<1> HIDE DEF m
<1>4. /\ RegisteredHaveSession' /\ SessionsAreReal' /\ OkMeansSession'
      /\ \A e : HasSession(e)' <=> HasSession(e)
  BY <1>1, <1>2, AnswersKept
<1>5. CASE /\ Ignore(s, m)
           /\ m.code = 100 \/ state[s] \in {"UNREGISTERED", "REGISTERED"}
  <2>1. UNCHANGED <<state, opened, closing, request, now, toGateway>> /\ Answered(s, m)
    BY <1>5 DEF Ignore
  <2>2. /\ waiting' \in [Sessions -> BOOLEAN]
        /\ m.code = 100 => waiting' = waiting
        /\ \A t \in Sessions : t # s => waiting'[t] = waiting[t]
    BY <1>1, <1>2, <2>1, AnsweredEffect
  <2>3. TypeOK'
    BY <1>1, <1>2, <2>1, <2>2 DEF TypeOK, gateway
  <2>4. waiting'[s] => waiting[s]
    BY <1>1, <2>1 DEF Answered, TypeOK
  <2>5. IdleIsQuiet'
    BY <1>1, <2>1, <2>2, <2>4 DEF RInv, IdleIsQuiet
  <2>6. OpenedMeansSession'
    BY <1>4, <2>1 DEF RInv, OpenedMeansSession
  <2>7. NeverStuck'
    BY <1>5, <2>1, <2>2 DEF RInv, NeverStuck, Transient
  <2> QED
    BY <1>4, <2>3, <2>5, <2>6, <2>7 DEF RInv
<1>6. CASE Reset(s) /\ UNCHANGED toGateway /\ state[s] # "UNREGISTERED"
  <2>1. TypeOK'
    BY <1>1, <1>2, <1>6, ResetEffect DEF TypeOK, gateway
  <2>2. IdleIsQuiet'
    BY <1>1, <1>6, ResetEffect DEF RInv, IdleIsQuiet
  <2>3. OpenedMeansSession'
    BY <1>1, <1>4, <1>6, ResetEffect DEF RInv, OpenedMeansSession
  <2>4. NeverStuck'
    BY <1>1, <1>6, ResetEffect DEF RInv, NeverStuck, Transient
  <2> QED
    BY <1>4, <2>1, <2>2, <2>3, <2>4 DEF RInv
<1>7. CASE m.code = 200 /\ state[s] \in {"REGISTERING", "REFRESHING"} /\ Confirmed(s, m)
  <2>1. HasSession(ExtensionOf[s]) /\ socket[s] # "idle"
    BY <1>2, <1>7 DEF RInv, OkMeansSession, IdleIsQuiet
  <2>2. /\ opened' = [opened EXCEPT ![s] = TRUE] /\ closing' = [closing EXCEPT ![s] = FALSE]
        /\ opened' \in [Sessions -> BOOLEAN] /\ closing' \in [Sessions -> BOOLEAN]
    BY <1>1, <1>7 DEF Confirmed, TypeOK
  <2>3. OpenedMeansSession'
    BY <1>1, <1>4, <2>1, <2>2 DEF RInv, OpenedMeansSession, TypeOK
  <2>4. CASE closing[s]
    <3>1. SendRegister(s) /\ state' = [state EXCEPT ![s] = "UNREGISTERING"]
      BY <1>7, <2>4 DEF Confirmed, Become
    <3>2. waiting' = [waiting EXCEPT ![s] = TRUE] /\ waiting' \in [Sessions -> BOOLEAN]
      BY <1>1, <3>1, SendEffect DEF TypeOK
    <3>3. state' \in [Sessions -> RegisterState]
      BY <1>1, <3>1 DEF TypeOK, RegisterState
    <3>4. TypeOK'
      BY <1>1, <1>2, <2>2, <3>1, <3>2, <3>3, SendEffect DEF TypeOK, gateway
    <3>5. IdleIsQuiet'
      BY <1>1, <2>1, <2>2, <3>1, <3>2, SendEffect DEF RInv, IdleIsQuiet, TypeOK
    <3>6. NeverStuck'
      BY <1>1, <3>1, <3>2 DEF RInv, NeverStuck, TypeOK
    <3> QED
      BY <1>4, <2>3, <3>4, <3>5, <3>6 DEF RInv
  <2>5. CASE ~closing[s]
    <3>1. /\ Answered(s, m) /\ state' = [state EXCEPT ![s] = "REGISTERED"]
          /\ UNCHANGED <<request, now, toGateway>>
      BY <1>7, <2>5 DEF Confirmed, Become
    <3>2. /\ waiting' \in [Sessions -> BOOLEAN]
          /\ \A t \in Sessions : t # s => waiting'[t] = waiting[t]
      BY <1>1, <1>2, <3>1, AnsweredEffect
    <3>3. state' \in [Sessions -> RegisterState]
      BY <1>1, <3>1 DEF TypeOK, RegisterState
    <3>4. TypeOK'
      BY <1>1, <1>2, <2>2, <3>1, <3>2, <3>3 DEF TypeOK, gateway
    <3>5. IdleIsQuiet'
      BY <1>1, <2>1, <2>2, <3>1, <3>2 DEF RInv, IdleIsQuiet, TypeOK
    <3>6. NeverStuck'
      BY <1>1, <3>1, <3>2 DEF RInv, NeverStuck, TypeOK, Transient
    <3> QED
      BY <1>4, <2>3, <3>4, <3>5, <3>6 DEF RInv
  <2> QED
    BY <2>4, <2>5
<1> QED
  BY <1>3, <1>5, <1>6, <1>7

LEMMA SessionClosesPreserves ==
  ASSUME RInv, NEW s \in Sessions, SessionCloses(s)
  PROVE  RInv'
<1>1. /\ TypeOK /\ socket[s] = "open" /\ socket' = [socket EXCEPT ![s] = "closed"]
      /\ Reset(s) /\ toPage' = [toPage EXCEPT ![s] = <<>>] /\ UNCHANGED gateway
  BY DEF RInv, SessionCloses
<1>2. PICK n \in 0..Len(toGateway[s]) :
        toGateway' = [toGateway EXCEPT ![s] = SubSeq(@, 1, n)]
  BY DEF SessionCloses
<1>3. toGateway' \in [Sessions -> Seq(CallIds)]
  <2>1. toGateway[s] \in Seq(CallIds) /\ Len(toGateway[s]) \in Nat
    BY <1>1, LenProperties DEF TypeOK
  <2>2. n \in Int /\ \A i \in 1..n : toGateway[s][i] \in CallIds
    BY <2>1, ElementOfSeq
  <2>3. SubSeq(toGateway[s], 1, n) \in Seq(CallIds)
    BY <2>2, SubSeqProperties
  <2> QED
    BY <1>1, <1>2, <2>3 DEF TypeOK
<1>4. toPage' \in [Sessions -> Seq(Response)] /\ \A t \in Sessions : HasOk(t)' => HasOk(t)
  <2>1. <<>> \in Seq(Response) /\ Len(<<>>) = 0
    BY EmptySeq
  <2> QED
    BY <1>1, <2>1 DEF TypeOK, HasOk
<1>5. /\ socket' \in [Sessions -> {"idle", "open", "closed", "gone"}]
      /\ \A t \in Sessions : socket'[t] = "idle" <=> socket[t] = "idle"
  BY <1>1 DEF TypeOK
<1>6. TypeOK'
  BY <1>1, <1>3, <1>4, <1>5, ResetEffect DEF TypeOK, gateway
<1>7. /\ RegisteredHaveSession' /\ SessionsAreReal' /\ OkMeansSession'
      /\ \A e : HasSession(e)' <=> HasSession(e)
  BY <1>1, <1>4, <1>5, AnswersKept
<1>8. IdleIsQuiet'
  BY <1>1, <1>2, <1>5, ResetEffect DEF RInv, IdleIsQuiet, TypeOK
<1>9. OpenedMeansSession'
  BY <1>1, <1>7, ResetEffect DEF RInv, OpenedMeansSession
<1>10. NeverStuck'
  BY <1>1, ResetEffect DEF RInv, NeverStuck, Transient
<1> QED
  BY <1>6, <1>7, <1>8, <1>9, <1>10 DEF RInv

-----------------------------------------------------------------------------
(* The theorems. *)

LEMMA StepPreserves == RInv /\ [Next]_vars => RInv'
<1> SUFFICES ASSUME RInv, [Next]_vars
             PROVE  RInv'
  OBVIOUS
<1>1. CASE UNCHANGED vars
  <2>1. UNCHANGED <<gateway, socket, toGateway, toPage, connector>>
    BY <1>1 DEF vars
  <2>2. TypeOK' /\ IdleIsQuiet'
    BY <2>1 DEF RInv, TypeOK, IdleIsQuiet, gateway, connector
  <2>3. /\ RegisteredHaveSession' /\ SessionsAreReal' /\ OkMeansSession'
        /\ \A e : HasSession(e)' <=> HasSession(e)
    BY <2>1, AnswersKept DEF HasOk
  <2>4. OpenedMeansSession' /\ NeverStuck'
    BY <2>1, <2>3, PagesKept
  <2> QED
    BY <2>2, <2>3, <2>4 DEF RInv
<1>2. CASE Next
  <2>1. PICK s \in Sessions : GatewayServes(s) \/ PageActs(s) \/ SessionCloses(s)
    BY <1>2 DEF Next
  <2>2. CASE GatewayServes(s)
    BY <2>2, IgnoreRegisterPreserves, ForbidRegisterPreserves, AcceptRegisterPreserves,
       OnClosePreserves DEF GatewayServes
  <2>3. CASE PageActs(s)
    BY <2>3, OpenPreserves, RefreshPreserves, ClosePreserves, TimeoutPreserves,
       ReceivePreserves DEF PageActs
  <2>4. CASE SessionCloses(s)
    BY <2>4, SessionClosesPreserves
  <2> QED
    BY <2>1, <2>2, <2>3, <2>4
<1> QED
  BY <1>1, <1>2

\* The invariant of the registrar and the pages together.
THEOREM RegistrationInductive == Spec => []RInv
  BY InitEstablishes, StepPreserves, PTL DEF Spec

\* A page whose session is not open is offline, and nothing is on its way to it.
OnlineIsOpen == \A s \in Sessions : opened[s] \/ toPage[s] # <<>> => socket[s] = "open"

LEMMA OnlineIsOpenAlways == Spec => []OnlineIsOpen
<1>1. Init => OnlineIsOpen
  BY DEF Init, OnlineIsOpen
<1>2. ASSUME TypeOK, OnlineIsOpen, NEW s \in Sessions, NEW codes, NEW callId,
             Answer(s, codes, callId), UNCHANGED <<socket, opened>>
      PROVE  OnlineIsOpen'
  <2>1. ASSUME NEW t \in Sessions, toPage'[t] # <<>> PROVE socket[t] = "open"
    <3>1. CASE socket[s] = "open" /\ t = s
      BY <3>1
    <3>2. CASE t # s \/ socket[s] # "open"
      <4> DEFINE sent == [i \in 1..Len(codes) |-> [code |-> codes[i], callId |-> callId]]
      <4>1. toPage' = [toPage EXCEPT ![s] = @ \o sent] \/ toPage' = toPage
        BY <1>2 DEF Answer
      <4>2. socket[s] # "open" => toPage' = toPage
        BY <1>2 DEF Answer
      <4> HIDE DEF sent
      <4>3. toPage'[t] = toPage[t]
        BY <1>2, <3>2, <4>1, <4>2 DEF TypeOK
      <4> QED BY <1>2, <2>1, <4>3 DEF OnlineIsOpen
    <3> QED BY <3>1, <3>2
  <2> QED BY <1>2, <2>1 DEF OnlineIsOpen
<1>3. ASSUME TypeOK, OnlineIsOpen, NEW s \in Sessions, GatewayServes(s) PROVE OnlineIsOpen'
  <2>1. CASE IgnoreRegister(s)
    BY <1>3, <2>1 DEF IgnoreRegister, Takes, connector, OnlineIsOpen
  <2>2. CASE ForbidRegister(s)
    BY <1>2, <1>3, <2>2 DEF ForbidRegister, Takes, connector
  <2>3. CASE AcceptRegister(s)
    BY <1>2, <1>3, <2>3 DEF AcceptRegister, Takes, connector
  <2>4. CASE OnClose(s)
    BY <1>3, <2>4 DEF OnClose, connector, OnlineIsOpen, TypeOK
  <2> QED BY <1>3, <2>1, <2>2, <2>3, <2>4 DEF GatewayServes
<1>4. ASSUME TypeOK, OnlineIsOpen, NEW s \in Sessions, Receive(s) PROVE OnlineIsOpen'
  <2>1. /\ toPage[s] # <<>> /\ toPage' = [toPage EXCEPT ![s] = Tail(@)]
        /\ socket' = socket /\ socket[s] = "open"
    BY <1>4 DEF Receive, OnlineIsOpen
  <2>2. \A t \in Sessions : t # s => opened'[t] = opened[t]
    BY <1>4 DEF Receive, Ignore, Reset, Confirmed, TypeOK
  <2> QED BY <1>4, <2>1, <2>2 DEF OnlineIsOpen, TypeOK
<1>5. ASSUME TypeOK, OnlineIsOpen, NEW s \in Sessions, PageActs(s) PROVE OnlineIsOpen'
  <2>1. CASE Open(s)
    BY <1>5, <2>1 DEF Open, OnlineIsOpen, TypeOK
  <2>2. CASE Refresh(s) \/ Close(s) \/ Timeout(s)
    BY <1>5, <2>2 DEF Refresh, Close, Timeout, OnlineIsOpen
  <2> QED BY <1>4, <1>5, <2>1, <2>2 DEF PageActs
<1>6. ASSUME TypeOK, OnlineIsOpen, NEW s \in Sessions, SessionCloses(s) PROVE OnlineIsOpen'
  BY <1>6 DEF SessionCloses, Reset, OnlineIsOpen, TypeOK
<1>7. TypeOK /\ OnlineIsOpen /\ [Next]_vars => OnlineIsOpen'
  BY <1>3, <1>5, <1>6 DEF Next, vars, connector, OnlineIsOpen
<1>8. RInv => TypeOK
  BY DEF RInv
<1> QED BY <1>1, <1>7, <1>8, RegistrationInductive, PTL DEF Spec

\* Extensions, wires and connectors keep their types.
THEOREM RegistrationTypeCorrect == Spec => []TypeOK
<1>1. RInv => TypeOK
  BY DEF RInv
<1> QED
  BY <1>1, RegistrationInductive, PTL

\* A page that is told it is online is the one its extension is bound to, over an
\* open session, unless another page of the extension has registered since.
THEOREM OnlineIsBound == Spec => []OnlineMeansBound
<1>1. RInv /\ OnlineIsOpen => OnlineMeansBound
  <2> SUFFICES ASSUME RInv, OnlineIsOpen, NEW s \in Sessions, opened[s]
               PROVE  ExtensionOf[s] \in Extensions /\ (CanBeCalled(s) \/ TakenOver(s))
    BY DEF OnlineMeansBound
  <2> DEFINE t == session[ExtensionOf[s]]
  <2>1. ExtensionOf[s] \in Extensions /\ t # NoSession
    BY DEF RInv, OpenedMeansSession, HasSession
  <2>2. t \in Sessions
    BY <2>1 DEF RInv, TypeOK
  <2>3. ExtensionOf[t] = ExtensionOf[s] /\ socket[t] # "idle"
    BY <2>1 DEF RInv, SessionsAreReal
  <2>4. socket[s] = "open"
    BY DEF OnlineIsOpen
  <2> QED
    BY <2>1, <2>2, <2>3, <2>4 DEF CanBeCalled, TakenOver
<1> QED
  BY <1>1, RegistrationInductive, OnlineIsOpenAlways, PTL

\* The periodic OPTIONS have nobody to be sent to.
THEOREM OptionsHaveNobody == Spec => []NothingIsDue
<1>1. RInv => NothingIsDue
  BY DEF RInv, RegisteredHaveSession, NothingIsDue, DueForOptions, IsRegister
<1> QED
  BY <1>1, RegistrationInductive, PTL

\* A connector between two states always has a timer running.
THEOREM ConnectorNeverStuck == Spec => []NeverStuck
<1>1. RInv => NeverStuck
  BY DEF RInv
<1> QED
  BY <1>1, RegistrationInductive, PTL

=============================================================================
