---------------------------- MODULE AtomicProofs ----------------------------
(***************************************************************************)
(* CallThreads and Call are the same program: a handler that the other     *)
(* thread does not interrupt has the effect of one step of Call, for every *)
(* set of answer codes, every bound and whichever sessions may close.      *)
(***************************************************************************)
EXTENDS ThreadsProofs, HandlersAtomic

-----------------------------------------------------------------------------
(* One operation further. *)

Shared == [state : [Legs -> HandlerState], req : [Legs -> Method],
           known : [Legs -> BOOLEAN], wire : [Legs -> Seq(Message)]]
Points == [now : Shared, ops : Seq(Operation)]

LEMMA PointParts ==
  ASSUME NEW now, NEW ops
  PROVE  /\ Point(now, ops).now = now /\ Point(now, ops).ops = ops
         /\ now \in Shared /\ ops \in Seq(Operation) => Point(now, ops) \in Points
BY DEF Point, Points

LEMMA PointWhole ==
  ASSUME NEW a \in Points
  PROVE  a.now \in Shared /\ a.ops \in Seq(Operation) /\ a = Point(a.now, a.ops)
BY DEF Point, Points

LEMMA Rests ==
  ASSUME NEW a, a.ops = <<>>
  PROVE  On({a}) = {a}
BY DEF On

LEMMA GoesAhead ==
  ASSUME NEW a, a.ops # <<>>
  PROVE  On({a}) = {Ahead(a)}
BY DEF On

LEMMA PerformsOne ==
  ASSUME NEW now, NEW ops, ops # <<>>, Head(ops).do # "run"
  PROVE  On({Point(now, ops)}) = {Point(Effect(now, Head(ops)), Tail(ops))}
<1> DEFINE a == Point(now, ops)
<1>1. a.now = now /\ a.ops = ops
  BY PointParts
<1> HIDE DEF a
<1>2. Ahead(a) = Point(Effect(now, Head(ops)), Tail(ops))
  BY <1>1 DEF Ahead
<1> QED BY <1>1, <1>2, GoesAhead DEF a

LEMMA CallsOne ==
  ASSUME NEW now, NEW ops, ops # <<>>, Head(ops).do = "run"
  PROVE  On({Point(now, ops)})
           = {Point(now, Body(now.state, Head(ops).leg, Head(ops).name) \o Tail(ops))}
<1> DEFINE a == Point(now, ops)
<1>1. a.now = now /\ a.ops = ops
  BY PointParts
<1> HIDE DEF a
<1>2. Ahead(a) = Point(now, Body(now.state, Head(ops).leg, Head(ops).name) \o Tail(ops))
  BY <1>1 DEF Ahead
<1> QED BY <1>1, <1>2, GoesAhead DEF a

LEMMA OperationKinds ==
  ASSUME NEW op \in Operation
  PROVE  /\ op.leg \in Legs
         /\ \/ op.do = "become" /\ op.state \in MessageState
            \/ op.do = "cite" /\ op.req \in Method
            \/ op.do = "reply" /\ op.code \in {180, 200, 400, 486}
            \/ op.do = "ask" /\ op.method \in Method
            \/ op.do = "forget"
            \/ op.do = "run" /\ op.name \in Methods
BY DEF Operation

LEMMA SentTyped ==
  ASSUME NEW leg, NEW w \in Seq(Message), NEW m \in Message
  PROVE  Sent(leg, w, <<m>>) \in Seq(Message) /\ Sent(leg, w, <<m>>)' \in Seq(Message)
BY DEF Sent

LEMMA EffectTyped ==
  ASSUME NEW now \in Shared, NEW op \in Operation, op.do # "run"
  PROVE  Effect(now, op) \in Shared /\ Effect(now, op)' \in Shared
<1>1. op.leg \in Legs
  BY OperationKinds
<1>2. /\ now.state \in [Legs -> HandlerState] /\ now.req \in [Legs -> Method]
      /\ now.known \in [Legs -> BOOLEAN] /\ now.wire \in [Legs -> Seq(Message)]
  BY DEF Shared
<1>3. CASE op.do = "become"
  <2> DEFINE f == [now.state EXCEPT ![op.leg] = op.state]
  <2>1. op.state \in HandlerState
    BY <1>3, OperationKinds DEF HandlerState
  <2>2. f \in [Legs -> HandlerState]
    BY <1>1, <1>2, <2>1
  <2>3. Effect(now, op) = [now EXCEPT !.state = f] /\ Effect(now, op)' = [now EXCEPT !.state = f]
    BY <1>3 DEF Effect
  <2> HIDE DEF f
  <2> QED BY <2>2, <2>3 DEF Shared
<1>4. CASE op.do = "cite"
  <2> DEFINE f == [now.req EXCEPT ![op.leg] = op.req]
  <2>1. op.req \in Method
    BY <1>4, OperationKinds
  <2>2. f \in [Legs -> Method]
    BY <1>1, <1>2, <2>1
  <2>3. Effect(now, op) = [now EXCEPT !.req = f] /\ Effect(now, op)' = [now EXCEPT !.req = f]
    BY <1>4 DEF Effect
  <2> HIDE DEF f
  <2> QED BY <2>2, <2>3 DEF Shared
<1>5. CASE op.do = "forget"
  <2> DEFINE f == [now.known EXCEPT ![op.leg] = FALSE]
  <2>1. f \in [Legs -> BOOLEAN]
    BY <1>1, <1>2
  <2>2. Effect(now, op) = [now EXCEPT !.known = f] /\ Effect(now, op)' = [now EXCEPT !.known = f]
    BY <1>5 DEF Effect
  <2> HIDE DEF f
  <2> QED BY <2>1, <2>2 DEF Shared
<1>6. ASSUME NEW w \in Seq(Message) PROVE [now EXCEPT !.wire[op.leg] = w] \in Shared
  <2> DEFINE f == [now.wire EXCEPT ![op.leg] = w]
  <2>1. f \in [Legs -> Seq(Message)]
    BY <1>1, <1>2
  <2>2. [now EXCEPT !.wire[op.leg] = w] = [now EXCEPT !.wire = f]
    OBVIOUS
  <2> HIDE DEF f
  <2> QED BY <2>1, <2>2 DEF Shared
<1>7. ASSUME NEW m \in Message
      PROVE  /\ [now EXCEPT !.wire[op.leg] = Sent(op.leg, @, <<m>>)] \in Shared
             /\ [now EXCEPT !.wire[op.leg] = Sent(op.leg, @, <<m>>)]' \in Shared
  <2> DEFINE w == Sent(op.leg, now.wire[op.leg], <<m>>)
             z == Sent(op.leg, now.wire[op.leg], <<m>>)'
  <2>1. now.wire[op.leg] \in Seq(Message)
    BY <1>1, <1>2
  <2>2. w \in Seq(Message) /\ z \in Seq(Message)
    BY <2>1, SentTyped
  <2>3. /\ [now EXCEPT !.wire[op.leg] = Sent(op.leg, @, <<m>>)] = [now EXCEPT !.wire[op.leg] = w]
        /\ [now EXCEPT !.wire[op.leg] = Sent(op.leg, @, <<m>>)]' = [now EXCEPT !.wire[op.leg] = z]
    OBVIOUS
  <2> HIDE DEF w, z
  <2> QED BY <1>6, <2>2, <2>3
<1>8. CASE op.do = "ask"
  <2>1. Req(op.method) \in Message
    BY <1>8, OperationKinds DEF Req, Message
  <2>2. /\ Effect(now, op) = [now EXCEPT !.wire[op.leg] = Sent(op.leg, @, <<Req(op.method)>>)]
        /\ Effect(now, op)' = [now EXCEPT !.wire[op.leg] = Sent(op.leg, @, <<Req(op.method)>>)]'
    BY <1>8 DEF Effect
  <2> QED BY <1>7, <2>1, <2>2
<1>9. CASE op.do = "reply"
  <2>1. Resp(op.code, now.req[op.leg]) \in Message
    <3>1. op.code \in {180, 200, 400, 486}
      BY <1>9, OperationKinds
    <3>2. op.code \in 0..699 /\ now.req[op.leg] \in Method
      BY <1>1, <1>2, <3>1
    <3> QED BY <3>2 DEF Resp, Message
  <2>2. /\ Effect(now, op) =
             [now EXCEPT !.wire[op.leg] = Sent(op.leg, @, <<Resp(op.code, now.req[op.leg])>>)]
        /\ Effect(now, op)' =
             [now EXCEPT !.wire[op.leg] = Sent(op.leg, @, <<Resp(op.code, now.req[op.leg])>>)]'
    BY <1>9 DEF Effect
  <2> QED BY <1>7, <2>1, <2>2
<1> QED BY <1>3, <1>4, <1>5, <1>8, <1>9, OperationKinds

LEMMA PlanParts ==
  ASSUME NEW ops \in Seq(Operation), ops # <<>>
  PROVE  Head(ops) \in Operation /\ Tail(ops) \in Seq(Operation)
OBVIOUS

Leads(a, b) == On({a}) = {b}
LeadsFar(a, b) == Thrice({a}) = {b}
Ends(a, b) == Thrice(Thrice(Thrice({a}))) = {b}

LEMMA OneByOne ==
  ASSUME NEW a, NEW b, NEW c, NEW d, Leads(a, b), Leads(b, c), Leads(c, d)
  PROVE  LeadsFar(a, d)
BY DEF Leads, LeadsFar, Thrice

\* There is exactly one point ahead of a point.
LEMMA OneAhead ==
  ASSUME NEW a \in Points
  PROVE  \E b \in Points : Leads(a, b)
<1>1. a.now \in Shared /\ a.ops \in Seq(Operation) /\ a = Point(a.now, a.ops)
  BY PointWhole
<1>2. CASE a.ops = <<>>
  <2>1. Leads(a, a)
    BY <1>2, Rests DEF Leads
  <2> QED BY <2>1
<1>3. CASE a.ops # <<>> /\ Head(a.ops).do # "run"
  <2>1. Head(a.ops) \in Operation /\ Tail(a.ops) \in Seq(Operation)
    BY <1>1, <1>3, PlanParts
  <2>2. Effect(a.now, Head(a.ops)) \in Shared
    BY <1>1, <1>3, <2>1, EffectTyped
  <2>3. Leads(a, Point(Effect(a.now, Head(a.ops)), Tail(a.ops)))
    BY <1>1, <1>3, PerformsOne DEF Leads
  <2> QED BY <2>1, <2>2, <2>3, PointParts
<1>4. CASE a.ops # <<>> /\ Head(a.ops).do = "run"
  <2> DEFINE op == Head(a.ops)
             body == Body(a.now.state, op.leg, op.name)
             plan == body \o Tail(a.ops)
  <2>1. op \in Operation /\ Tail(a.ops) \in Seq(Operation)
    BY <1>1, <1>4, PlanParts
  <2>2. op.leg \in Legs /\ op.name \in Methods
    BY <1>4, <2>1, OperationKinds
  <2>3. body \in Seq(Operation)
    BY <2>2, BodyType
  <2>4. plan \in Seq(Operation)
    <3> HIDE DEF body
    <3> QED BY <2>1, <2>3
  <2>5. Leads(a, Point(a.now, plan))
    BY <1>1, <1>4, CallsOne DEF Leads
  <2> HIDE DEF plan
  <2> QED BY <1>1, <2>4, <2>5, PointParts
<1> QED BY <1>2, <1>3, <1>4

-----------------------------------------------------------------------------
(* What a step of the environment does to a thread that is on its way.  It *)
(* may take the head of a wire or empty the wire of a session that closes; *)
(* a thread that starts on the new wires ends with the same states, and    *)
(* with wires that differ in the same way.                                 *)

WireKin(taken, h, closed, leg, u, v) ==
  IF leg \in taken THEN u # <<>> /\ Head(u) = h /\ v = Tail(u)
  ELSE IF leg \in closed THEN v = <<>> ELSE v = u

SharedKin(taken, h, closed, m, n) ==
  /\ n.state = m.state /\ n.req = m.req /\ n.known = m.known
  /\ \A leg \in Legs : WireKin(taken, h, closed, leg, m.wire[leg], n.wire[leg])

Kin(taken, h, closed, a, b) ==
  b.ops = a.ops /\ SharedKin(taken, h, closed, a.now, b.now)

LEMMA Longer ==
  ASSUME NEW u \in Seq(Message), NEW m \in Message, u # <<>>
  PROVE  u \o <<m>> # <<>> /\ Head(u \o <<m>>) = Head(u) /\ Tail(u \o <<m>>) = Tail(u) \o <<m>>
<1> DEFINE l == u \o <<m>>
           t == Tail(u)
           k == t \o <<m>>
<1>1. /\ l \in Seq(Message) /\ Len(l) = Len(u) + 1 /\ l[Len(u) + 1] = m
      /\ \A i \in 1..Len(u) : l[i] = u[i]
      /\ Len(u) \in Nat \ {0}
  OBVIOUS
<1>2. t \in Seq(Message) /\ Len(t) = Len(u) - 1 /\ \A i \in 1..Len(t) : t[i] = u[i + 1]
  OBVIOUS
<1> HIDE DEF l, t
<1>3. /\ k \in Seq(Message) /\ Len(k) = Len(t) + 1 /\ k[Len(t) + 1] = m
      /\ \A i \in 1..Len(t) : k[i] = t[i]
  BY <1>2
<1> HIDE DEF k
<1>4. l # <<>> /\ Head(l) = l[1] /\ Head(u) = u[1]
  BY <1>1
<1>5. /\ Tail(l) \in Seq(Message) /\ Len(Tail(l)) = Len(u)
      /\ \A i \in 1..Len(u) : Tail(l)[i] = l[i + 1]
  BY <1>1, <1>4
<1>6. \A i \in 1..Len(u) : Tail(l)[i] = k[i]
  <2> SUFFICES ASSUME NEW i \in 1..Len(u) PROVE Tail(l)[i] = k[i]
    OBVIOUS
  <2>1. CASE i = Len(u)
    BY <1>1, <1>2, <1>3, <1>5, <2>1
  <2>2. CASE i # Len(u)
    <3>1. i \in 1..Len(t) /\ i + 1 \in 1..Len(u)
      BY <1>1, <1>2, <2>2
    <3> QED BY <1>1, <1>2, <1>3, <1>5, <3>1
  <2> QED BY <2>1, <2>2
<1>7. Len(k) = Len(u)
  BY <1>1, <1>2, <1>3
<1>8. Tail(l) = k
  BY <1>3, <1>5, <1>6, <1>7, SeqEqual
<1> QED BY <1>1, <1>4, <1>8 DEF l, k, t

LEMMA SentKin ==
  ASSUME NEW taken, NEW h, NEW closed, up' = up \ closed, NEW leg,
         leg \in taken => leg \notin closed,
         NEW u \in Seq(Message), NEW v, WireKin(taken, h, closed, leg, u, v),
         NEW m \in Message
  PROVE  WireKin(taken, h, closed, leg, Sent(leg, u, <<m>>), Sent(leg, v, <<m>>)')
<1>1. /\ Sent(leg, u, <<m>>) = IF leg \in up THEN u \o <<m>> ELSE u
      /\ Sent(leg, v, <<m>>)' = IF leg \in up' THEN v \o <<m>> ELSE v
  BY DEF Sent
<1>2. CASE leg \in taken
  <2>1. u # <<>> /\ Head(u) = h /\ v = Tail(u) /\ (leg \in up' <=> leg \in up)
    BY <1>2 DEF WireKin
  <2> QED BY <1>1, <1>2, <2>1, Longer DEF WireKin
<1>3. CASE leg \notin taken /\ leg \in closed
  BY <1>1, <1>3 DEF WireKin
<1>4. CASE leg \notin taken /\ leg \notin closed
  BY <1>1, <1>4 DEF WireKin
<1> QED BY <1>2, <1>3, <1>4

Disjoint(taken, closed) == \A leg \in Legs : leg \in taken => leg \notin closed

\* The wires after one of them has grown.
LEMMA GrownKin ==
  ASSUME NEW taken, NEW h, NEW closed, up' = up \ closed, Disjoint(taken, closed),
         NEW m \in Shared, NEW n \in Shared, SharedKin(taken, h, closed, m, n),
         NEW leg \in Legs, NEW x \in Message, NEW p, NEW q,
         p = [m EXCEPT !.wire[leg] = Sent(leg, @, <<x>>)],
         NEW w, w = Sent(leg, n.wire[leg], <<x>>)',
         q = [n EXCEPT !.wire[leg] = w]
  PROVE  SharedKin(taken, h, closed, p, q)
<1>1. m.wire \in [Legs -> Seq(Message)] /\ n.wire \in [Legs -> Seq(Message)]
  BY DEF Shared
<1>2. m.wire[leg] \in Seq(Message) /\ WireKin(taken, h, closed, leg, m.wire[leg], n.wire[leg])
  BY <1>1 DEF SharedKin
<1> DEFINE y == Sent(leg, m.wire[leg], <<x>>)
<1>3. WireKin(taken, h, closed, leg, y, w)
  BY <1>2, SentKin DEF Disjoint
<1>4. p = [m EXCEPT !.wire[leg] = y]
  OBVIOUS
<1> HIDE DEF y
<1>5. /\ p.state = m.state /\ p.req = m.req /\ p.known = m.known
      /\ p.wire = [m.wire EXCEPT ![leg] = y]
      /\ q.state = n.state /\ q.req = n.req /\ q.known = n.known
      /\ q.wire = [n.wire EXCEPT ![leg] = w]
  BY <1>4 DEF Shared
<1>6. ASSUME NEW l \in Legs PROVE WireKin(taken, h, closed, l, p.wire[l], q.wire[l])
  <2>1. CASE l = leg
    BY <1>1, <1>3, <1>5, <2>1
  <2>2. CASE l # leg
    <3>1. p.wire[l] = m.wire[l] /\ q.wire[l] = n.wire[l]
      BY <1>1, <1>5, <2>2
    <3> QED BY <3>1 DEF SharedKin
  <2> QED BY <2>1, <2>2
<1> QED BY <1>5, <1>6 DEF SharedKin

LEMMA EffectKin ==
  ASSUME NEW taken, NEW h, NEW closed, up' = up \ closed, Disjoint(taken, closed),
         NEW m \in Shared, NEW n \in Shared, SharedKin(taken, h, closed, m, n),
         NEW op \in Operation, op.do # "run"
  PROVE  SharedKin(taken, h, closed, Effect(m, op), Effect(n, op)')
<1>1. op.leg \in Legs
  BY OperationKinds
<1>2. n.state = m.state /\ n.req = m.req /\ n.known = m.known
  BY DEF SharedKin
<1>3. CASE op.do = "become"
  <2>1. /\ Effect(m, op) = [m EXCEPT !.state[op.leg] = op.state]
        /\ Effect(n, op)' = [n EXCEPT !.state[op.leg] = op.state]
    BY <1>3 DEF Effect
  <2> QED BY <1>2, <2>1 DEF SharedKin, Shared
<1>4. CASE op.do = "cite"
  <2>1. /\ Effect(m, op) = [m EXCEPT !.req[op.leg] = op.req]
        /\ Effect(n, op)' = [n EXCEPT !.req[op.leg] = op.req]
    BY <1>4 DEF Effect
  <2> QED BY <1>2, <2>1 DEF SharedKin, Shared
<1>5. CASE op.do = "forget"
  <2>1. /\ Effect(m, op) = [m EXCEPT !.known[op.leg] = FALSE]
        /\ Effect(n, op)' = [n EXCEPT !.known[op.leg] = FALSE]
    BY <1>5 DEF Effect
  <2> QED BY <1>2, <2>1 DEF SharedKin, Shared
<1>6. CASE op.do = "ask"
  <2> DEFINE x == Req(op.method)
             w == Sent(op.leg, n.wire[op.leg], <<x>>)'
  <2>1. x \in Message
    BY <1>6, OperationKinds DEF Req, Message
  <2>2. /\ Effect(m, op) = [m EXCEPT !.wire[op.leg] = Sent(op.leg, @, <<x>>)]
        /\ Effect(n, op)' = [n EXCEPT !.wire[op.leg] = w]
    BY <1>6 DEF Effect
  <2> HIDE DEF x
  <2> QED BY <1>1, <2>1, <2>2, GrownKin
<1>7. CASE op.do = "reply"
  <2> DEFINE x == Resp(op.code, m.req[op.leg])
             w == Sent(op.leg, n.wire[op.leg], <<x>>)'
  <2>1. x \in Message
    <3>1. op.code \in {180, 200, 400, 486}
      BY <1>7, OperationKinds
    <3>2. m.req[op.leg] \in Method
      BY <1>1 DEF Shared
    <3>3. op.code \in 0..699
      BY <3>1
    <3> QED BY <3>2, <3>3 DEF Resp, Message
  <2>2. x = Resp(op.code, n.req[op.leg])
    BY <1>2
  <2>3. /\ Effect(m, op) = [m EXCEPT !.wire[op.leg] = Sent(op.leg, @, <<x>>)]
        /\ Effect(n, op)' = [n EXCEPT !.wire[op.leg] = w]
    BY <1>7, <1>2 DEF Effect
  <2> HIDE DEF x
  <2> QED BY <1>1, <2>1, <2>3, GrownKin
<1> QED BY <1>3, <1>4, <1>5, <1>6, <1>7, OperationKinds

LEMMA BodySame ==
  ASSUME bridged' = bridged, NEW state, NEW leg \in Legs, NEW name \in Methods
  PROVE  Body(state, leg, name)' = Body(state, leg, name)
<1>1. \A l, k : OnOther(l, k)' = OnOther(l, k)
  BY DEF OnOther
<1>2. /\ OnAck(state)' = OnAck(state) /\ OnBye(state, leg)' = OnBye(state, leg)
      /\ OnCancel' = OnCancel
  BY DEF OnAck, OnBye, OnCancel, FinishImmediately
<1>3. OnByeRequest(state, leg)' = OnByeRequest(state, leg)
  BY <1>1 DEF OnByeRequest
<1>4. OnCancelRequest' = OnCancelRequest
  BY <1>1 DEF OnCancelRequest
<1>5. OnRinging(state, leg)' = OnRinging(state, leg)
  BY <1>1 DEF OnRinging, Legs
<1>6. OnReject(leg)' = OnReject(leg)
  BY <1>1 DEF OnReject, FinishImmediately
<1>7. OnOk(state, leg)' = OnOk(state, leg)
  BY <1>1 DEF OnOk, FinishImmediately
<1>8. OnOkWaiting(state, leg)' = OnOkWaiting(state, leg)
  BY <1>1 DEF OnOkWaiting, FinishImmediately, Legs
<1> QED
  BY <1>2, <1>3, <1>4, <1>5, <1>6, <1>7, <1>8 DEF Body, Methods

LEMMA OnKin ==
  ASSUME NEW taken, NEW h, NEW closed, up' = up \ closed, bridged' = bridged,
         Disjoint(taken, closed),
         NEW a \in Points, NEW b \in Points, Kin(taken, h, closed, a, b)
  PROVE  \E c \in Points, d \in Points :
           Leads(a, c) /\ Leads(b, d)' /\ Kin(taken, h, closed, c, d)
<1>1. /\ a.now \in Shared /\ a.ops \in Seq(Operation) /\ a = Point(a.now, a.ops)
      /\ b.now \in Shared /\ b = Point(b.now, b.ops)
  BY PointWhole
<1>2. b.ops = a.ops /\ SharedKin(taken, h, closed, a.now, b.now) /\ b.now.state = a.now.state
  BY DEF Kin, SharedKin
<1>3. CASE a.ops = <<>>
  <2>1. On({b})' = {b}
    BY <1>2, <1>3 DEF On
  <2> QED BY <1>3, <2>1, Rests DEF Leads
<1> DEFINE op == Head(a.ops)
           rest == Tail(a.ops)
<1>4. ASSUME a.ops # <<>> PROVE op \in Operation /\ rest \in Seq(Operation)
  BY <1>1, <1>4, PlanParts
<1>5. ASSUME a.ops # <<>>, NEW d, Ahead(b)' = d PROVE Leads(b, d)'
  BY <1>2, <1>5 DEF On, Leads
<1>6. CASE a.ops # <<>> /\ op.do # "run"
  <2> DEFINE m == Effect(a.now, op)
             n == Effect(b.now, op)'
  <2>1. Leads(a, Point(m, rest))
    BY <1>1, <1>6, PerformsOne DEF Leads
  <2>2. Ahead(b)' = Point(n, rest)
    BY <1>2, <1>6 DEF Ahead, Point
  <2>3. m \in Shared /\ SharedKin(taken, h, closed, m, n)
    BY <1>1, <1>2, <1>4, <1>6, EffectTyped, EffectKin
  <2>4. n \in Shared
    BY <1>1, <1>4, <1>6, EffectTyped
  <2> HIDE DEF m, n
  <2>5. rest \in Seq(Operation)
    BY <1>4, <1>6
  <2> HIDE DEF rest
  <2>6. /\ Point(m, rest) \in Points /\ Point(n, rest) \in Points
        /\ Kin(taken, h, closed, Point(m, rest), Point(n, rest))
    BY <2>3, <2>4, <2>5, PointParts DEF Kin
  <2> QED BY <1>5, <1>6, <2>1, <2>2, <2>6
<1>7. CASE a.ops # <<>> /\ op.do = "run"
  <2> DEFINE body == Body(a.now.state, op.leg, op.name)
             plan == body \o rest
  <2>1. op.leg \in Legs /\ op.name \in Methods
    BY <1>4, <1>7, OperationKinds
  <2>2. body \in Seq(Operation) /\ Body(a.now.state, op.leg, op.name)' = body
    BY <2>1, BodyType, BodySame
  <2>3. Leads(a, Point(a.now, plan))
    BY <1>1, <1>7, CallsOne DEF Leads
  <2>4. Ahead(b)' = Point(b.now, plan)
    BY <1>2, <1>7, <2>2 DEF Ahead, Point
  <2>5. plan \in Seq(Operation)
    <3> HIDE DEF body
    <3> QED BY <1>4, <1>7, <2>2
  <2> HIDE DEF plan
  <2>6. /\ Point(a.now, plan) \in Points /\ Point(b.now, plan) \in Points
        /\ Kin(taken, h, closed, Point(a.now, plan), Point(b.now, plan))
    BY <1>1, <1>2, <2>5, PointParts DEF Kin
  <2> QED BY <1>5, <1>7, <2>3, <2>4, <2>6
<1> QED BY <1>3, <1>6, <1>7

LEMMA ThriceKin ==
  ASSUME NEW taken, NEW h, NEW closed, up' = up \ closed, bridged' = bridged,
         Disjoint(taken, closed),
         NEW a \in Points, NEW b \in Points, Kin(taken, h, closed, a, b)
  PROVE  \E c \in Points, d \in Points :
           LeadsFar(a, c) /\ LeadsFar(b, d)' /\ Kin(taken, h, closed, c, d)
<1>1. PICK c \in Points, d \in Points :
        Leads(a, c) /\ Leads(b, d)' /\ Kin(taken, h, closed, c, d)
  BY OnKin
<1>2. PICK e \in Points, f \in Points :
        Leads(c, e) /\ Leads(d, f)' /\ Kin(taken, h, closed, e, f)
  BY <1>1, OnKin
<1>3. PICK i \in Points, j \in Points :
        Leads(e, i) /\ Leads(f, j)' /\ Kin(taken, h, closed, i, j)
  BY <1>2, OnKin
<1>4. LeadsFar(a, i)
  BY <1>1, <1>2, <1>3, OneByOne
<1>5. LeadsFar(b, j)'
  BY <1>1, <1>2, <1>3 DEF LeadsFar, Leads, Thrice
<1> QED BY <1>3, <1>4, <1>5

\* Started on kindred wires, a thread comes to kindred ends.
LEMMA EndKin ==
  ASSUME NEW taken, NEW h, NEW closed, up' = up \ closed, bridged' = bridged,
         Disjoint(taken, closed), NEW ops \in Seq(Operation),
         NEW m \in Shared, NEW n \in Shared, SharedKin(taken, h, closed, m, n)
  PROVE  \E c \in Points, d \in Points :
           Ends(Point(m, ops), c) /\ Ends(Point(n, ops), d)' /\ Kin(taken, h, closed, c, d)
<1> DEFINE a == Point(m, ops)
           b == Point(n, ops)
<1>1. a \in Points /\ b \in Points /\ Kin(taken, h, closed, a, b)
  BY PointParts DEF Kin
<1>2. \A d : Ends(Point(n, ops), d)' <=> Ends(b, d)'
  BY DEF Ends, Point
<1> HIDE DEF a, b
<1>3. PICK c \in Points, d \in Points :
        LeadsFar(a, c) /\ LeadsFar(b, d)' /\ Kin(taken, h, closed, c, d)
  BY <1>1, ThriceKin
<1>4. PICK e \in Points, f \in Points :
        LeadsFar(c, e) /\ LeadsFar(d, f)' /\ Kin(taken, h, closed, e, f)
  BY <1>3, ThriceKin
<1>5. PICK i \in Points, j \in Points :
        LeadsFar(e, i) /\ LeadsFar(f, j)' /\ Kin(taken, h, closed, i, j)
  BY <1>4, ThriceKin
<1>6. Ends(a, i)
  BY <1>3, <1>4, <1>5 DEF Ends, LeadsFar
<1>7. Ends(b, j)'
  BY <1>3, <1>4, <1>5 DEF Ends, LeadsFar
<1> QED BY <1>2, <1>5, <1>6, <1>7 DEF a

-----------------------------------------------------------------------------
(* A thread that is left alone comes to its end in nine operations: the    *)
(* plans that take one operation more than those of a set, whatever the    *)
(* states are in which a method is called.                                 *)

Successors(plan) ==
  IF Head(plan).do = "run"
  THEN {Body(states, Head(plan).leg, Head(plan).name) \o Tail(plan) : states \in [Legs -> HandlerState]}
  ELSE {Tail(plan)}

Longer1(D) == {plan \in Seq(Operation) : plan = <<>> \/ Successors(plan) \subseteq D}
Longer2(D) == Longer1(Longer1(D))
Longer3(D) == Longer1(Longer2(D))
Longer4(D) == Longer1(Longer3(D))
Longer5(D) == Longer1(Longer4(D))
Nothing == {<<>>}
Half == Longer4(Nothing)
Nearly == Longer4(Half)
Short == Longer1(Nearly)

\* The ends of a plan in the set are in it.
Closed(D) == <<>> \in D /\ D \subseteq Longer1(D)

LEMMA LongerClosed ==
  ASSUME NEW D, Closed(D)
  PROVE  D \subseteq Longer1(D) /\ Closed(Longer1(D)) /\ D \subseteq Seq(Operation)
<1>1. D \subseteq Longer1(D)
  BY DEF Closed
<1>2. <<>> \in Longer1(D)
  BY <1>1 DEF Closed
<1>3. ASSUME NEW plan \in Longer1(D) PROVE plan \in Longer1(Longer1(D))
  BY <1>1, <1>3 DEF Longer1
<1>4. D \subseteq Seq(Operation)
  BY <1>1 DEF Longer1
<1> QED BY <1>1, <1>2, <1>3, <1>4 DEF Closed

LEMMA LongerSteps ==
  ASSUME NEW D, Closed(D)
  PROVE  /\ Closed(Longer1(D)) /\ Closed(Longer2(D)) /\ Closed(Longer3(D))
         /\ Closed(Longer4(D)) /\ Closed(Longer5(D))
         /\ D \subseteq Longer1(D) /\ Longer1(D) \subseteq Longer2(D)
         /\ Longer2(D) \subseteq Longer3(D) /\ Longer3(D) \subseteq Longer4(D)
         /\ Longer4(D) \subseteq Longer5(D) /\ Longer5(D) \subseteq Seq(Operation)
<1>1. Closed(Longer1(D)) /\ D \subseteq Longer1(D)
  BY LongerClosed
<1>2. Closed(Longer2(D)) /\ Longer1(D) \subseteq Longer2(D)
  BY <1>1, LongerClosed DEF Longer2
<1>3. Closed(Longer3(D)) /\ Longer2(D) \subseteq Longer3(D)
  BY <1>2, LongerClosed DEF Longer3
<1>4. Closed(Longer4(D)) /\ Longer3(D) \subseteq Longer4(D)
  BY <1>3, LongerClosed DEF Longer4
<1>5. Closed(Longer5(D)) /\ Longer4(D) \subseteq Longer5(D)
  BY <1>4, LongerClosed DEF Longer5
<1>6. Longer5(D) \subseteq Seq(Operation)
  BY <1>5, LongerClosed
<1> QED BY <1>1, <1>2, <1>3, <1>4, <1>5, <1>6

LEMMA NothingClosed == Closed({<<>>})
BY DEF Closed, Longer1

LEMMA Joined ==
  ASSUME NEW a \in Operation, NEW b \in Operation
  PROVE  /\ <<a>> \o <<b>> = <<a, b>>
         /\ \A c \in Operation : <<a>> \o <<b, c>> = <<a, b, c>>
<1> DEFINE p == <<a>> \o <<b>>
<1>1. p \in Seq(Operation) /\ Len(p) = 2 /\ p[1] = a /\ p[2] = b
  OBVIOUS
<1>2. <<a, b>> \in Seq(Operation) /\ Len(<<a, b>>) = 2 /\ <<a, b>>[1] = a /\ <<a, b>>[2] = b
  OBVIOUS
<1> HIDE DEF p
<1>3. \A i \in 1..2 : p[i] = <<a, b>>[i]
  BY <1>1, <1>2
<1>4. p = <<a, b>>
  BY <1>1, <1>2, <1>3, SeqEqual
<1>5. ASSUME NEW c \in Operation PROVE <<a>> \o <<b, c>> = <<a, b, c>>
  <2> DEFINE q == <<a>> \o <<b, c>>
             r == <<a, b, c>>
  <2>1. q \in Seq(Operation) /\ Len(q) = 3 /\ q[1] = a /\ q[2] = b /\ q[3] = c
    OBVIOUS
  <2>2. r \in Seq(Operation) /\ Len(r) = 3 /\ r[1] = a /\ r[2] = b /\ r[3] = c
    OBVIOUS
  <2> HIDE DEF q, r
  <2>3. \A i \in 1..3 : q[i] = r[i]
    BY <2>1, <2>2
  <2>4. q = r
    BY <2>1, <2>2, <2>3, SeqEqual
  <2> QED BY <2>4 DEF q, r
<1> QED BY <1>4, <1>5 DEF p

LEMMA PlansLonger ==
  ASSUME NEW a \in Operation, NEW b \in Operation, NEW rest \in Seq(Operation)
  PROVE  /\ <<a>> \o rest \in Seq(Operation) /\ <<a>> \o rest # <<>>
         /\ <<a, b>> \o rest = <<a>> \o (<<b>> \o rest)
<1>1. <<a>> \in Seq(Operation) /\ <<b>> \in Seq(Operation)
  OBVIOUS
<1>2. <<a>> \o rest \in Seq(Operation) /\ <<a>> \o rest # <<>>
  OBVIOUS
<1>3. (<<a>> \o <<b>>) \o rest = <<a>> \o (<<b>> \o rest)
  BY <1>1, ConcatAssociative
<1>4. <<a>> \o <<b>> = <<a, b>>
  BY Joined
<1> QED BY <1>2, <1>3, <1>4

LEMMA LongPlans ==
  ASSUME NEW a \in Operation, NEW b \in Operation, NEW c \in Operation, NEW rest \in Seq(Operation)
  PROVE  <<a, b, c>> \o rest = <<a>> \o (<<b, c>> \o rest)
<1>1. <<a>> \in Seq(Operation) /\ <<b, c>> \in Seq(Operation)
  OBVIOUS
<1>2. (<<a>> \o <<b, c>>) \o rest = <<a>> \o (<<b, c>> \o rest)
  BY <1>1, ConcatAssociative
<1>3. <<a>> \o <<b, c>> = <<a, b, c>>
  BY Joined
<1> QED BY <1>2, <1>3

\* The operations that are not method calls.
Simple == {op \in Operation : op.do # "run"}

LEMMA SimpleOnes ==
  /\ \A leg \in Legs, state \in MessageState : Become(leg, state) \in Simple
  /\ \A leg \in Legs, method \in Method : Cite(leg, method) \in Simple /\ Ask(leg, method) \in Simple
  /\ \A leg \in Legs, code \in {180, 200, 400, 486} : Reply(leg, code) \in Simple
  /\ \A leg \in Legs : Forget(leg) \in Simple
BY Operations DEF Simple, Become, Cite, Ask, Reply, Forget

LEMMA OneMore ==
  ASSUME NEW D, D \subseteq Seq(Operation), NEW op \in Simple, NEW rest \in D
  PROVE  <<op>> \o rest \in Longer1(D)
<1>1. rest \in Seq(Operation) /\ op \in Operation /\ op.do # "run"
  BY DEF Simple
<1>2. /\ <<op>> \o rest \in Seq(Operation)
      /\ Head(<<op>> \o rest) = op /\ Tail(<<op>> \o rest) = rest
  BY <1>1, PlanOfMore, PlansLonger
<1>3. Successors(<<op>> \o rest) = {rest}
  BY <1>1, <1>2 DEF Successors
<1> QED BY <1>2, <1>3 DEF Longer1

LEMMA TwoMore ==
  ASSUME NEW D, Closed(D), NEW a \in Simple, NEW b \in Simple,
         NEW rest \in D
  PROVE  <<a, b>> \o rest \in Longer2(D)
<1>1. D \subseteq Seq(Operation) /\ Longer1(D) \subseteq Seq(Operation)
  BY LongerSteps
<1>2. <<a>> \o (<<b>> \o rest) \in Longer1(Longer1(D))
  BY <1>1, OneMore
<1> QED BY <1>1, <1>2, PlansLonger DEF Longer2, Simple

LEMMA ThreeMore ==
  ASSUME NEW D, Closed(D), NEW a \in Simple, NEW b \in Simple, NEW c \in Simple,
         NEW rest \in D
  PROVE  <<a, b, c>> \o rest \in Longer3(D)
<1>1. D \subseteq Seq(Operation) /\ Longer2(D) \subseteq Seq(Operation)
  BY LongerSteps
<1>2. <<b, c>> \o rest \in Longer2(D)
  BY TwoMore
<1>3. <<a>> \o (<<b, c>> \o rest) \in Longer1(Longer2(D))
  BY <1>1, <1>2, OneMore
<1>4. rest \in Seq(Operation)
  BY <1>1
<1>5. <<a, b, c>> \o rest = <<a>> \o (<<b, c>> \o rest)
  BY <1>4, LongPlans DEF Simple
<1> QED BY <1>3, <1>5 DEF Longer3

LEMMA OneCall ==
  ASSUME NEW D, NEW leg \in Legs, NEW name \in Methods, NEW rest \in Seq(Operation),
         \A states \in [Legs -> HandlerState] : Body(states, leg, name) \o rest \in D
  PROVE  <<Run(leg, name)>> \o rest \in Longer1(D)
<1> DEFINE op == Run(leg, name)
<1>1. op \in Operation /\ op.do = "run" /\ op.leg = leg /\ op.name = name
  BY Operations DEF Run
<1> HIDE DEF op
<1>2. /\ <<op>> \o rest \in Seq(Operation)
      /\ Head(<<op>> \o rest) = op /\ Tail(<<op>> \o rest) = rest
  BY <1>1, PlanOfMore, PlansLonger
<1>3. Successors(<<op>> \o rest) = {Body(states, leg, name) \o rest : states \in [Legs -> HandlerState]}
  BY <1>1, <1>2 DEF Successors
<1> QED BY <1>2, <1>3 DEF Longer1, op

\* The bodies, whatever the states are.
LEMMA PassedOnOrNot ==
  ASSUME NEW leg \in Legs, NEW name
  PROVE  OnOther(leg, name) = <<>> \/ OnOther(leg, name) = <<Run(Other(leg), name)>>
BY DEF OnOther

LEMMA FinishTakesTwo ==
  ASSUME NEW D, Closed(D), NEW leg \in Legs, NEW rest \in D
  PROVE  FinishImmediately(leg) \o rest \in Longer2(D)
BY TwoMore, SimpleOnes, Names DEF FinishImmediately

LEMMA NothingMore ==
  ASSUME NEW D, Closed(D), NEW rest \in D
  PROVE  <<>> \o rest \in D /\ rest \in Seq(Operation)
<1>1. rest \in Seq(Operation)
  BY LongerClosed
<1> QED BY <1>1, EmptyParts

LEMMA AckTakesThree ==
  ASSUME NEW D, Closed(D), NEW rest \in D
  PROVE  <<Run("server", "onACK")>> \o rest \in Longer3(D)
<1>1. ASSUME NEW states \in [Legs -> HandlerState]
      PROVE  Body(states, "server", "onACK") \o rest \in Longer2(D)
  <2>1. \/ Body(states, "server", "onACK") = <<Become("server", "CALLING")>>
        \/ Body(states, "server", "onACK") = FinishImmediately("server")
        \/ Body(states, "server", "onACK") = <<>>
    BY DEF Body, OnAck
  <2>2. <<Become("server", "CALLING")>> \o rest \in Longer1(D)
    BY OneMore, LongerClosed, SimpleOnes, Names
  <2>3. FinishImmediately("server") \o rest \in Longer2(D)
    BY FinishTakesTwo, Names
  <2>4. <<>> \o rest \in D
    BY NothingMore
  <2> QED BY <2>1, <2>2, <2>3, <2>4, LongerSteps
<1> QED BY <1>1, OneCall, NothingMore, Names DEF Longer3

LEMMA ByeTakesFour ==
  ASSUME NEW D, Closed(D), NEW leg \in Legs, NEW rest \in D
  PROVE  <<Run(leg, "onBye")>> \o rest \in Longer4(D)
<1>1. ASSUME NEW states \in [Legs -> HandlerState]
      PROVE  Body(states, leg, "onBye") \o rest \in Longer3(D)
  <2>1. \/ Body(states, leg, "onBye") = <<Become(leg, "BYE"), Cite(leg, "OWN"), Ask(leg, "BYE")>>
        \/ Body(states, leg, "onBye") = <<>>
    BY DEF Body, OnBye
  <2>2. <<Become(leg, "BYE"), Cite(leg, "OWN"), Ask(leg, "BYE")>> \o rest \in Longer3(D)
    BY ThreeMore, SimpleOnes, Names
  <2>3. <<>> \o rest \in D
    BY NothingMore
  <2> QED BY <2>1, <2>2, <2>3, LongerSteps
<1> QED BY <1>1, OneCall, NothingMore, Names DEF Longer4

LEMMA CancelTakesThree ==
  ASSUME NEW D, Closed(D), NEW rest \in D
  PROVE  <<Run("client", "onCancel")>> \o rest \in Longer3(D)
<1>1. ASSUME NEW states \in [Legs -> HandlerState]
      PROVE  Body(states, "client", "onCancel") \o rest \in Longer2(D)
  <2>1. Body(states, "client", "onCancel") = <<Become("client", "CANCELING"), Ask("client", "CANCEL")>>
    BY DEF Body, OnCancel
  <2> QED BY <2>1, TwoMore, SimpleOnes, Names
<1> QED BY <1>1, OneCall, NothingMore, Names DEF Longer3

LEMMA RingingTakesThree ==
  ASSUME NEW D, Closed(D), NEW rest \in D
  PROVE  <<Run("server", "onRinging")>> \o rest \in Longer3(D)
<1>1. ASSUME NEW states \in [Legs -> HandlerState]
      PROVE  Body(states, "server", "onRinging") \o rest \in Longer2(D)
  <2>1. \/ Body(states, "server", "onRinging") = <<Become("server", "RINGING"), Reply("server", 180)>>
        \/ Body(states, "server", "onRinging") = <<>>
    BY DEF Body, OnRinging
  <2>2. <<Become("server", "RINGING"), Reply("server", 180)>> \o rest \in Longer2(D)
    BY TwoMore, SimpleOnes, Names
  <2>3. <<>> \o rest \in D
    BY NothingMore
  <2> QED BY <2>1, <2>2, <2>3, LongerSteps
<1> QED BY <1>1, OneCall, NothingMore, Names DEF Longer3

LEMMA RejectTakesFive ==
  ASSUME NEW D, Closed(D), NEW rest \in D
  PROVE  <<Run("server", "onReject")>> \o rest \in Longer5(D)
<1> DEFINE told == <<Become("server", "BUSY"), Reply("server", 486)>>
           end == FinishImmediately("server")
<1>1. ASSUME NEW states \in [Legs -> HandlerState]
      PROVE  Body(states, "server", "onReject") \o rest \in Longer4(D)
  <2>1. Body(states, "server", "onReject") = told \o end
    BY DEF Body, OnReject
  <2>2. told \in Seq(Operation) /\ end \in Seq(Operation)
    <3>1. /\ Become("server", "BUSY") \in Operation /\ Reply("server", 486) \in Operation
          /\ Forget("server") \in Operation /\ Become("server", "FINISH") \in Operation
      BY Operations, Names
    <3> QED BY <3>1 DEF FinishImmediately
  <2>3. end \o rest \in Longer2(D) /\ Closed(Longer2(D))
    BY FinishTakesTwo, LongerSteps, Names
  <2> HIDE DEF end
  <2>4. told \o (end \o rest) \in Longer2(Longer2(D))
    BY <2>3, TwoMore, SimpleOnes, Names
  <2>5. (told \o end) \o rest = told \o (end \o rest)
    <3>1. rest \in Seq(Operation)
      BY NothingMore
    <3> HIDE DEF told
    <3> QED BY <2>2, <3>1, ConcatAssociative
  <2> QED BY <2>1, <2>4, <2>5 DEF Longer4, Longer3, Longer2
<1> QED BY <1>1, OneCall, NothingMore, Names DEF Longer5

LEMMA OkTakesFour ==
  ASSUME NEW D, Closed(D), NEW rest \in D
  PROVE  <<Run("server", "onOk")>> \o rest \in Longer4(D)
<1>1. Closed(Longer2(D)) /\ rest \in Seq(Operation)
  BY LongerSteps, NothingMore
<1>2. ASSUME NEW states \in [Legs -> HandlerState]
      PROVE  Body(states, "server", "onOk(waiting)") \o rest \in Longer2(D)
  <2>1. \/ Body(states, "server", "onOk(waiting)") = <<Become("server", "OK"), Reply("server", 200)>>
        \/ Body(states, "server", "onOk(waiting)") = <<Become("server", "FAIL")>>
    BY DEF Body, OnOkWaiting
  <2>2. <<Become("server", "OK"), Reply("server", 200)>> \o rest \in Longer2(D)
    BY TwoMore, SimpleOnes, Names
  <2>3. <<Become("server", "FAIL")>> \o rest \in Longer1(D)
    BY OneMore, LongerClosed, SimpleOnes, Names
  <2> QED BY <2>1, <2>2, <2>3, LongerSteps
<1>3. <<Run("server", "onOk(waiting)")>> \o rest \in Longer3(D)
  BY <1>1, <1>2, OneCall, Names DEF Longer3
<1>4. ASSUME NEW states \in [Legs -> HandlerState]
      PROVE  Body(states, "server", "onOk") \o rest \in Longer3(D)
  <2> DEFINE ack == <<Ask("server", "ACK")>>
             end == FinishImmediately("server")
  <2>1. ack \in Seq(Operation) /\ end \in Seq(Operation)
    <3>1. /\ Ask("server", "ACK") \in Operation /\ Forget("server") \in Operation
          /\ Become("server", "FINISH") \in Operation
      BY Operations, Names
    <3> QED BY <3>1 DEF FinishImmediately
  <2>2. \/ Body(states, "server", "onOk") = <<>> \o ack \o end
        \/ Body(states, "server", "onOk") = <<Run("server", "onOk(waiting)")>>
    BY DEF Body, OnOk
  <2>3. end \o rest \in Longer2(D)
    BY FinishTakesTwo, Names
  <2> HIDE DEF end
  <2>4. ack \o (end \o rest) \in Longer3(D)
    BY <1>1, <2>3, OneMore, LongerClosed, SimpleOnes, Names DEF Longer3
  <2> HIDE DEF ack
  <2>5. <<>> \o ack \o end = ack \o end
    BY <2>1, EmptyParts
  <2>6. (ack \o end) \o rest = ack \o (end \o rest)
    BY <1>1, <2>1, ConcatAssociative
  <2> QED BY <1>3, <2>2, <2>4, <2>5, <2>6
<1> QED BY <1>1, <1>4, OneCall, Names DEF Longer4

\* What is run on the other leg in a method takes as long as the method there.
LEMMA PassedOnTakes ==
  ASSUME NEW D, NEW E, D \subseteq E, Closed(D), NEW leg \in Legs, NEW name, NEW rest \in D,
         <<Run(Other(leg), name)>> \o rest \in E
  PROVE  OnOther(leg, name) \o rest \in E
<1>1. <<>> \o rest \in E
  BY NothingMore
<1> QED BY <1>1, PassedOnOrNot

LEMMA EmptyPlan == <<>> \in Seq(Operation)
OBVIOUS

LEMMA PassedOnPlan ==
  ASSUME NEW leg \in Legs, NEW name \in Methods
  PROVE  OnOther(leg, name) \in Seq(Operation)
<1> DEFINE op == Run(Other(leg), name)
<1>1. op \in Operation
  BY Operations DEF Other, Legs
<1>2. OnOther(leg, name) = <<>> \/ OnOther(leg, name) = <<op>>
  BY PassedOnOrNot
<1> HIDE DEF op
<1>3. <<op>> \in Seq(Operation)
  BY <1>1
<1> QED BY <1>2, <1>3, EmptyPlan


LEMMA ShortSteps ==
  /\ Closed(Nothing) /\ Closed(Half) /\ Closed(Longer1(Nothing)) /\ Closed(Longer2(Nothing))
  /\ Closed(Longer3(Nothing)) /\ Closed(Nearly) /\ Closed(Short)
  /\ Nothing \subseteq Longer1(Nothing) /\ Longer1(Nothing) \subseteq Longer2(Nothing)
  /\ Longer2(Nothing) \subseteq Longer3(Nothing) /\ Longer3(Nothing) \subseteq Half
  /\ Half \subseteq Longer1(Half) /\ Longer1(Half) \subseteq Longer2(Half)
  /\ Longer2(Half) \subseteq Longer3(Half) /\ Longer3(Half) \subseteq Nearly
  /\ Nearly \subseteq Short /\ Short \subseteq Seq(Operation)
  /\ Longer4(Half) = Nearly /\ Longer5(Half) = Short
<1>1. Closed(Nothing)
  BY NothingClosed DEF Nothing
<1>2. Longer4(Half) = Nearly /\ Longer5(Half) = Short
  BY DEF Half, Nearly, Short, Longer5, Nothing
<1>3. Closed(Half)
  BY <1>1, LongerSteps DEF Half
<1> QED BY <1>1, <1>2, <1>3, LongerSteps DEF Half

\* A method that a thread starts with takes at most nine operations.
LEMMA CancelledShort == <<Run("server", "onCancel(request)")>> \o <<>> \in Short
<1> DEFINE told == <<Cite("server", "CANCEL"), Become("server", "CANCELING"), Reply("server", 200)>>
           end == OnOther("server", "onCancel")
<1>1. <<>> \in Nothing /\ told \in Seq(Operation) /\ end \in Seq(Operation)
  <2>1. /\ Cite("server", "CANCEL") \in Operation /\ Become("server", "CANCELING") \in Operation
        /\ Reply("server", 200) \in Operation
    BY Operations, Names
  <2> QED BY <2>1, PassedOnPlan, Names DEF Nothing
<1>2. end \o <<>> \in Half
  <2>1. <<Run("client", "onCancel")>> \o <<>> \in Longer3(Nothing)
    BY <1>1, CancelTakesThree, ShortSteps
  <2>2. Nothing \subseteq Half /\ Longer3(Nothing) \subseteq Half
    BY ShortSteps
  <2> QED BY <1>1, <2>1, <2>2, PassedOnTakes, ShortSteps, Names DEF Other
<1> HIDE DEF end
<1>3. told \o (end \o <<>>) \in Longer3(Half)
  <2>1. /\ Cite("server", "CANCEL") \in Simple /\ Become("server", "CANCELING") \in Simple
        /\ Reply("server", 200) \in Simple
    BY SimpleOnes, Names
  <2>2. Closed(Half)
    BY ShortSteps
  <2> QED BY <1>2, <2>1, <2>2, ThreeMore
<1>4. (told \o end) \o <<>> = told \o (end \o <<>>)
  <2> HIDE DEF told
  <2> QED BY <1>1, ConcatAssociative
<1>5. \A states : Body(states, "server", "onCancel(request)") = told \o end
  BY DEF Body, OnCancelRequest, end
<1> DEFINE plan == told \o end
<1>6. \A states : Body(states, "server", "onCancel(request)") = plan
  BY <1>5
<1>7. plan \o <<>> \in Longer3(Half)
  BY <1>3, <1>4
<1> HIDE DEF plan
<1>8. <<Run("server", "onCancel(request)")>> \o <<>> \in Longer1(Longer3(Half))
  BY <1>6, <1>7, OneCall, EmptyPlan, Names
<1> QED BY <1>8, ShortSteps DEF Longer4

LEMMA HungUpShort ==
  ASSUME NEW leg \in Legs
  PROVE  <<Run(leg, "onBye(request)")>> \o <<>> \in Short
<1> DEFINE told == <<Cite(leg, "BYE"), Become(leg, "BYE"), Reply(leg, 200)>>
           end == OnOther(leg, "onBye")
<1>1. <<>> \in Nothing /\ told \in Seq(Operation) /\ end \in Seq(Operation)
  <2>1. /\ Cite(leg, "BYE") \in Operation /\ Become(leg, "BYE") \in Operation
        /\ Reply(leg, 200) \in Operation
    BY Operations, Names
  <2> QED BY <2>1, PassedOnPlan, Names DEF Nothing
<1>2. end \o <<>> \in Half
  <2>1. <<Run(Other(leg), "onBye")>> \o <<>> \in Half
    BY <1>1, ByeTakesFour, ShortSteps DEF Half, Other, Legs
  <2>2. Nothing \subseteq Half
    BY ShortSteps
  <2> QED BY <1>1, <2>1, <2>2, PassedOnTakes, ShortSteps
<1> HIDE DEF end
<1>3. told \o (end \o <<>>) \in Longer3(Half)
  <2>1. /\ Cite(leg, "BYE") \in Simple /\ Become(leg, "BYE") \in Simple
        /\ Reply(leg, 200) \in Simple
    BY SimpleOnes, Names
  <2>2. Closed(Half)
    BY ShortSteps
  <2> QED BY <1>2, <2>1, <2>2, ThreeMore
<1>4. (told \o end) \o <<>> = told \o (end \o <<>>)
  <2> HIDE DEF told
  <2> QED BY <1>1, ConcatAssociative
<1> HIDE DEF told
<1>5. <<Reply(leg, 400)>> \o <<>> \in Longer3(Half)
  <2>1. Nothing \subseteq Seq(Operation) /\ Reply(leg, 400) \in Simple
    BY LongerClosed, SimpleOnes, ShortSteps
  <2>2. <<Reply(leg, 400)>> \o <<>> \in Longer1(Nothing)
    BY <1>1, <2>1, OneMore
  <2> QED BY <2>2, ShortSteps
<1> DEFINE plan == told \o end
           refused == <<Reply(leg, 400)>>
<1>6. \A states : \/ Body(states, leg, "onBye(request)") = plan
                  \/ Body(states, leg, "onBye(request)") = refused
  BY DEF Body, OnByeRequest, end, told
<1>7. <<Run(leg, "onBye(request)")>> \o <<>> \in Longer1(Longer3(Half))
  <2>1. plan \o <<>> \in Longer3(Half)
    BY <1>3, <1>4
  <2>2. refused \o <<>> \in Longer3(Half)
    BY <1>5
  <2> HIDE DEF plan, refused
  <2>3. \A states : Body(states, leg, "onBye(request)") \o <<>> \in Longer3(Half)
    BY <1>6, <2>1, <2>2
  <2> QED BY <2>3, OneCall, EmptyPlan, Names
<1> QED BY <1>7, ShortSteps DEF Longer4

LEMMA RingingShort == <<Run("client", "onRinging")>> \o <<>> \in Short
<1> DEFINE last == <<Become("client", "RINGING")>>
           first == OnOther("client", "onRinging")
<1>1. <<>> \in Nothing /\ last \in Seq(Operation) /\ first \in Seq(Operation)
  <2>1. Become("client", "RINGING") \in Operation
    BY Operations, Names
  <2> QED BY <2>1, PassedOnPlan, Names DEF Nothing
<1>2. last \o <<>> \in Longer1(Nothing)
  <2>1. Become("client", "RINGING") \in Simple
    BY SimpleOnes, Names
  <2>2. Nothing \subseteq Seq(Operation)
    BY LongerClosed, ShortSteps
  <2> QED BY <1>1, <2>1, <2>2, OneMore
<1> HIDE DEF last
<1>3. first \o (last \o <<>>) \in Half
  <2>1. <<Run("server", "onRinging")>> \o (last \o <<>>) \in Longer3(Longer1(Nothing))
    BY <1>2, RingingTakesThree, ShortSteps
  <2>2. Longer3(Longer1(Nothing)) = Half
    BY DEF Longer3, Longer2, Half, Longer4
  <2>3. Longer1(Nothing) \subseteq Half
    BY ShortSteps
  <2> QED BY <1>2, <2>1, <2>2, <2>3, PassedOnTakes, ShortSteps, Names DEF Other
<1> HIDE DEF first
<1>4. (first \o last) \o <<>> = first \o (last \o <<>>)
  BY <1>1, ConcatAssociative
<1>5. <<>> \o <<>> \in Half
  BY NothingMore, ShortSteps DEF Closed
<1>6. \A states : \/ Body(states, "client", "onRinging") = first \o last
                  \/ Body(states, "client", "onRinging") = <<>>
  BY DEF Body, OnRinging, first, last
<1>7. <<Run("client", "onRinging")>> \o <<>> \in Longer1(Half)
  BY <1>3, <1>4, <1>5, <1>6, OneCall, EmptyPlan, Names
<1> QED BY <1>7, ShortSteps

LEMMA RejectedShort == <<Run("client", "onReject")>> \o <<>> \in Short
<1> DEFINE first == <<Become("client", "BUSY")>>
           told == OnOther("client", "onReject")
           end == FinishImmediately("client")
<1>1. /\ <<>> \in Nothing /\ first \in Seq(Operation) /\ told \in Seq(Operation)
      /\ end \in Seq(Operation)
  <2>1. /\ Become("client", "BUSY") \in Operation /\ Forget("client") \in Operation
        /\ Become("client", "FINISH") \in Operation
    BY Operations, Names
  <2> QED BY <2>1, PassedOnPlan, Names DEF Nothing, FinishImmediately
<1>2. end \o <<>> \in Longer2(Nothing)
  BY <1>1, FinishTakesTwo, ShortSteps, Names
<1> HIDE DEF end
<1>3. told \o (end \o <<>>) \in Longer3(Half)
  <2>1. <<Run("server", "onReject")>> \o (end \o <<>>) \in Longer5(Longer2(Nothing))
    BY <1>2, RejectTakesFive, ShortSteps
  <2>2. Longer5(Longer2(Nothing)) = Longer3(Half)
    BY DEF Longer5, Longer4, Longer3, Longer2, Half
  <2>3. Longer2(Nothing) \subseteq Longer3(Half)
    BY ShortSteps
  <2> QED BY <1>2, <2>1, <2>2, <2>3, PassedOnTakes, ShortSteps, Names DEF Other
<1> HIDE DEF told
<1>4. first \o (told \o (end \o <<>>)) \in Longer4(Half)
  <2>1. Longer3(Half) \subseteq Seq(Operation)
    BY ShortSteps
  <2> QED BY <1>3, <2>1, OneMore, SimpleOnes, Names DEF Longer4
<1> HIDE DEF first
<1>5. (first \o told \o end) \o <<>> = first \o (told \o (end \o <<>>))
  BY <1>1, ConcatAssociative
<1>6. \A states : Body(states, "client", "onReject") = first \o told \o end
  BY DEF Body, OnReject, first, told, end
<1>7. <<Run("client", "onReject")>> \o <<>> \in Longer1(Longer4(Half))
  BY <1>4, <1>5, <1>6, OneCall, EmptyPlan, Names
<1> QED BY <1>7, ShortSteps DEF Longer5

LEMMA AnsweredShort == <<Run("client", "onOk")>> \o <<>> \in Short
<1> DEFINE end == FinishImmediately("client")
           accept == <<Become("client", "CALLING"), Ask("client", "ACK")>>
           told == OnOther("client", "onOk")
           released == OnOther("client", "onBye")
           failed == <<Become("client", "FAIL")>>
           ack == <<Ask("client", "ACK")>>
           again == <<Run("client", "onOk(waiting)")>>
<1>1. /\ <<>> \in Nothing /\ end \in Seq(Operation) /\ accept \in Seq(Operation)
      /\ told \in Seq(Operation) /\ released \in Seq(Operation) /\ failed \in Seq(Operation)
      /\ ack \in Seq(Operation) /\ again \in Seq(Operation)
  <2>1. /\ Become("client", "CALLING") \in Operation /\ Forget("client") \in Operation
        /\ Become("client", "FINISH") \in Operation /\ Ask("client", "ACK") \in Operation
        /\ Become("client", "FAIL") \in Operation /\ Run("client", "onOk(waiting)") \in Operation
    BY Operations, Names
  <2> QED BY <2>1, PassedOnPlan, Names DEF Nothing, FinishImmediately
<1>2. end \o <<>> \in Longer2(Nothing) /\ accept \o <<>> \in Longer2(Nothing)
  <2>1. Become("client", "CALLING") \in Simple /\ Ask("client", "ACK") \in Simple
    BY SimpleOnes, Names
  <2>2. accept \o <<>> \in Longer2(Nothing)
    BY <1>1, <2>1, TwoMore, ShortSteps
  <2>3. end \o <<>> \in Longer2(Nothing)
    BY <1>1, FinishTakesTwo, ShortSteps, Names
  <2> QED BY <2>2, <2>3
<1> HIDE DEF end, accept
<1>3. told \o (accept \o <<>>) \in Longer2(Half)
  <2>1. <<Run("server", "onOk")>> \o (accept \o <<>>) \in Longer4(Longer2(Nothing))
    BY <1>2, OkTakesFour, ShortSteps
  <2>2. Longer4(Longer2(Nothing)) = Longer2(Half)
    BY DEF Longer4, Longer3, Longer2, Half
  <2>3. Longer2(Nothing) \subseteq Longer2(Half)
    BY ShortSteps
  <2> QED BY <1>2, <2>1, <2>2, <2>3, PassedOnTakes, ShortSteps, Names DEF Other
<1> HIDE DEF told
<1>4. failed \o (end \o <<>>) \in Longer2(Half) /\ ack \o (end \o <<>>) \in Longer3(Nothing)
  <2>1. /\ failed \o (end \o <<>>) \in Longer3(Nothing)
        /\ ack \o (end \o <<>>) \in Longer3(Nothing)
    BY <1>2, OneMore, LongerClosed, SimpleOnes, ShortSteps, Names DEF Longer3
  <2> QED BY <2>1, ShortSteps
<1> HIDE DEF failed
<1>5. again \o <<>> \in Longer3(Half)
  <2>1. \A states : \/ Body(states, "client", "onOk(waiting)") = told \o accept
                    \/ Body(states, "client", "onOk(waiting)") = failed \o end
    BY DEF Body, OnOkWaiting, told, accept, failed, end
  <2>2. /\ (told \o accept) \o <<>> = told \o (accept \o <<>>)
        /\ (failed \o end) \o <<>> = failed \o (end \o <<>>)
    BY <1>1, ConcatAssociative
  <2> QED BY <1>3, <1>4, <2>1, <2>2, OneCall, EmptyPlan, Names DEF Longer3
<1>6. released \o (ack \o (end \o <<>>)) \in Longer3(Half)
  <2> DEFINE rest == ack \o (end \o <<>>)
  <2>1. rest \in Longer3(Nothing)
    BY <1>4
  <2> HIDE DEF rest
  <2>2. <<Run("server", "onBye")>> \o rest \in Longer4(Longer3(Nothing))
    BY <2>1, ByeTakesFour, ShortSteps, Names
  <2>3. Longer4(Longer3(Nothing)) = Longer3(Half)
    BY DEF Longer4, Longer3, Longer2, Half
  <2>4. Longer3(Nothing) \subseteq Longer3(Half)
    BY ShortSteps
  <2>5. released \o rest \in Longer3(Half)
    BY <2>1, <2>2, <2>3, <2>4, PassedOnTakes, ShortSteps, Names DEF Other
  <2> QED BY <2>5 DEF rest
<1> HIDE DEF released
<1>7. /\ <<>> \o ack \o end = ack \o end
      /\ (ack \o end) \o <<>> = ack \o (end \o <<>>)
      /\ (released \o ack \o end) \o <<>> = released \o (ack \o (end \o <<>>))
  <2> HIDE DEF ack, again
  <2>1. <<>> \o ack \o end = ack \o end
    BY <1>1, EmptyParts
  <2>2. (ack \o end) \o <<>> = ack \o (end \o <<>>)
    BY <1>1, ConcatAssociative, EmptyPlan
  <2> DEFINE both == ack \o end
  <2>3. both \in Seq(Operation)
    BY <1>1
  <2>4. (released \o ack) \o end = released \o both
    <3>1. released \in Seq(Operation) /\ ack \in Seq(Operation) /\ end \in Seq(Operation)
      BY <1>1
    <3> QED BY <3>1, ConcatAssociative
  <2> HIDE DEF both
  <2>5. (released \o both) \o <<>> = released \o (both \o <<>>)
    BY <1>1, <2>3, ConcatAssociative, EmptyPlan
  <2> QED BY <2>1, <2>2, <2>4, <2>5 DEF both
<1>8. ack \o (end \o <<>>) \in Longer3(Half)
  BY <1>4, ShortSteps
<1>9. \A states : \/ Body(states, "client", "onOk") = released \o ack \o end
                  \/ Body(states, "client", "onOk") = <<>> \o ack \o end
                  \/ Body(states, "client", "onOk") = again
  BY DEF Body, OnOk, released, end
<1> HIDE DEF ack, again
<1>10. <<Run("client", "onOk")>> \o <<>> \in Longer1(Longer3(Half))
  BY <1>5, <1>6, <1>7, <1>8, <1>9, OneCall, EmptyPlan, Names
<1> QED BY <1>10, ShortSteps DEF Longer4

\* What a thread may start with.
Started(leg, name) ==
  \/ leg = "server" /\ name \in {"onACK", "onCancel(request)", "onBye(request)", "onOk", "onReject"}
  \/ leg = "client" /\ name \in {"onRinging", "onOk", "onReject", "onBye(request)"}

LEMMA StartedShort ==
  ASSUME NEW leg, NEW name, Started(leg, name)
  PROVE  <<Run(leg, name)>> \in Short
<1>1. leg \in Legs /\ name \in Methods
  BY Names DEF Started
<1>2. <<>> \in Nothing
  BY DEF Nothing
<1>3. <<Run(leg, name)>> \o <<>> \in Short
  <2>1. <<Run("server", "onACK")>> \o <<>> \in Short
    BY <1>2, AckTakesThree, ShortSteps
  <2>2. <<Run("server", "onOk")>> \o <<>> \in Short
    <3>1. <<Run("server", "onOk")>> \o <<>> \in Half
      BY <1>2, OkTakesFour, ShortSteps DEF Half
    <3> QED BY <3>1, ShortSteps
  <2>3. <<Run("server", "onReject")>> \o <<>> \in Short
    <3>1. <<Run("server", "onReject")>> \o <<>> \in Longer1(Half)
      BY <1>2, RejectTakesFive, ShortSteps DEF Half, Longer5
    <3> QED BY <3>1, ShortSteps
  <2> QED BY <1>1, <2>1, <2>2, <2>3, CancelledShort, HungUpShort, RingingShort, RejectedShort,
             AnsweredShort DEF Started
<1>4. Run(leg, name) \in Operation
  BY <1>1, Operations
<1> QED BY <1>3, <1>4, EmptyParts

-----------------------------------------------------------------------------
(* The end a thread comes to. *)

LEMMA Shortens ==
  ASSUME NEW D, Closed(D), NEW a \in Points, a.ops \in Longer1(D)
  PROVE  \E b \in Points : Leads(a, b) /\ b.ops \in D
<1>1. PICK b \in Points : Leads(a, b)
  BY OneAhead
<1>2. a.now \in Shared /\ a.ops \in Seq(Operation) /\ a = Point(a.now, a.ops)
  BY PointWhole
<1>3. CASE a.ops = <<>>
  <2>1. Leads(a, a)
    BY <1>3, Rests DEF Leads
  <2> QED BY <1>3, <2>1 DEF Closed
<1>4. CASE a.ops # <<>> /\ Head(a.ops).do # "run"
  <2>1. Leads(a, Point(Effect(a.now, Head(a.ops)), Tail(a.ops)))
    BY <1>2, <1>4, PerformsOne DEF Leads
  <2>2. b = Point(Effect(a.now, Head(a.ops)), Tail(a.ops))
    BY <1>1, <2>1 DEF Leads
  <2>3. Successors(a.ops) = {Tail(a.ops)}
    BY <1>4 DEF Successors
  <2>4. b.ops = Tail(a.ops) /\ Tail(a.ops) \in D
    BY <1>4, <2>2, <2>3, PointParts DEF Longer1
  <2> QED BY <1>1, <2>4
<1>5. CASE a.ops # <<>> /\ Head(a.ops).do = "run"
  <2> DEFINE plan == Body(a.now.state, Head(a.ops).leg, Head(a.ops).name) \o Tail(a.ops)
  <2>1. Leads(a, Point(a.now, plan))
    BY <1>2, <1>5, CallsOne DEF Leads
  <2>2. b = Point(a.now, plan)
    <3> HIDE DEF plan
    <3> QED BY <1>1, <2>1 DEF Leads
  <2>3. a.now.state \in [Legs -> HandlerState]
    BY <1>2 DEF Shared
  <2>4. plan \in Successors(a.ops)
    BY <1>5, <2>3 DEF Successors
  <2> HIDE DEF plan
  <2>5. b.ops = plan /\ plan \in D
    BY <1>5, <2>2, <2>4, PointParts DEF Longer1
  <2> QED BY <1>1, <2>5
<1> QED BY <1>3, <1>4, <1>5

LEMMA OneEnd ==
  ASSUME NEW a, NEW b, NEW c, NEW d, LeadsFar(a, b), LeadsFar(b, c), LeadsFar(c, d)
  PROVE  Ends(a, d)
BY DEF LeadsFar, Ends

\* Wherever a thread is on its way, it comes to the same end.
LEMMA SameEnd ==
  ASSUME NEW a \in Points, a.ops \in Short
  PROVE  \E b \in Points : Leads(a, b) /\ b.ops \in Short
           /\ \E end \in Points : end.ops = <<>> /\ Ends(a, end) /\ Ends(b, end)
<1>1. PICK b1 \in Points : Leads(a, b1) /\ b1.ops \in Longer4(Half)
  BY Shortens, ShortSteps DEF Short, Nearly, Half, Nothing
<1>2. PICK b2 \in Points : Leads(b1, b2) /\ b2.ops \in Longer3(Half)
  BY <1>1, Shortens, LongerSteps, ShortSteps DEF Longer4
<1>3. PICK b3 \in Points : Leads(b2, b3) /\ b3.ops \in Longer2(Half)
  BY <1>2, Shortens, LongerSteps, ShortSteps DEF Longer3
<1>4. PICK b4 \in Points : Leads(b3, b4) /\ b4.ops \in Longer1(Half)
  BY <1>3, Shortens, LongerSteps, ShortSteps DEF Longer2
<1>5. PICK b5 \in Points : Leads(b4, b5) /\ b5.ops \in Half
  BY <1>4, Shortens, ShortSteps
<1>6. PICK b6 \in Points : Leads(b5, b6) /\ b6.ops \in Longer3(Nothing)
  BY <1>5, Shortens, ShortSteps DEF Half, Longer4
<1>7. PICK b7 \in Points : Leads(b6, b7) /\ b7.ops \in Longer2(Nothing)
  BY <1>6, Shortens, ShortSteps DEF Longer3
<1>8. PICK b8 \in Points : Leads(b7, b8) /\ b8.ops \in Longer1(Nothing)
  BY <1>7, Shortens, ShortSteps DEF Longer2
<1>9. PICK b9 \in Points : Leads(b8, b9) /\ b9.ops \in Nothing
  BY <1>8, Shortens, ShortSteps
<1>10. b9.ops = <<>> /\ Leads(b9, b9)
  BY <1>9, Rests DEF Leads, Nothing
<1>11. Ends(a, b9)
  <2>1. LeadsFar(a, b3) /\ LeadsFar(b3, b6) /\ LeadsFar(b6, b9)
    BY <1>1, <1>2, <1>3, <1>4, <1>5, <1>6, <1>7, <1>8, <1>9, OneByOne
  <2> QED BY <2>1, OneEnd
<1>12. Ends(b1, b9)
  <2>1. LeadsFar(b1, b4) /\ LeadsFar(b4, b7) /\ LeadsFar(b7, b9)
    BY <1>2, <1>3, <1>4, <1>5, <1>6, <1>7, <1>8, <1>9, <1>10, OneByOne
  <2> QED BY <2>1, OneEnd
<1>13. b1.ops \in Short
  BY <1>1, ShortSteps
<1> QED BY <1>1, <1>10, <1>11, <1>12, <1>13

LEMMA EndUnique ==
  ASSUME NEW a, NEW b, NEW c, Ends(a, b), Ends(a, c)
  PROVE  b = c
BY DEF Ends

\* A point is on the way from another one.
OnTheWay(a, b) ==
  /\ a \in Points /\ b \in Points /\ a.ops \in Short /\ b.ops \in Short
  /\ \E end \in Points : end.ops = <<>> /\ Ends(a, end) /\ Ends(b, end)

LEMMA SetsOut ==
  ASSUME NEW now \in Shared, NEW plan \in Short
  PROVE  OnTheWay(Point(now, plan), Point(now, plan))
<1>1. plan \in Seq(Operation)
  BY ShortSteps
<1>2. Point(now, plan) \in Points /\ Point(now, plan).ops = plan
  BY <1>1, PointParts
<1> QED BY <1>2, SameEnd DEF OnTheWay

LEMMA StaysOnTheWay ==
  ASSUME NEW a, NEW b, NEW c, OnTheWay(a, b), Leads(b, c)
  PROVE  OnTheWay(a, c)
<1>1. PICK d \in Points : Leads(b, d) /\ d.ops \in Short
           /\ \E end \in Points : end.ops = <<>> /\ Ends(b, end) /\ Ends(d, end)
  BY SameEnd DEF OnTheWay
<1>2. d = c
  BY <1>1 DEF Leads
<1>3. PICK e \in Points : e.ops = <<>> /\ Ends(a, e) /\ Ends(b, e)
  BY DEF OnTheWay
<1>4. PICK f \in Points : f.ops = <<>> /\ Ends(b, f) /\ Ends(d, f)
  BY <1>1
<1>5. e = f
  BY <1>3, <1>4, EndUnique
<1> QED BY <1>1, <1>2, <1>3, <1>4, <1>5 DEF OnTheWay

LEMMA Arrives ==
  ASSUME NEW a, NEW n, OnTheWay(a, Point(n, <<>>))
  PROVE  Ends(a, Point(n, <<>>)) /\ n \in Shared
<1> DEFINE b == Point(n, <<>>)
<1>1. b \in Points /\ b.ops = <<>> /\ b.now = n
  BY PointParts DEF OnTheWay
<1>2. PICK e \in Points : e.ops = <<>> /\ Ends(a, e) /\ Ends(b, e)
  BY DEF OnTheWay
<1> HIDE DEF b
<1>3. Leads(b, b)
  BY <1>1, Rests DEF Leads
<1>4. Ends(b, b)
  BY <1>3, OneByOne, OneEnd
<1>5. e = b
  BY <1>2, <1>4, EndUnique
<1> QED BY <1>1, <1>2, <1>5, PointWhole DEF b

-----------------------------------------------------------------------------
(* What the methods come to. *)

Two(now, x, y) == Effect(Effect(now, x), y)
Three(now, x, y, z) == Effect(Two(now, x, y), z)

AfterFinish(now, leg) == Two(now, Forget(leg), Become(leg, "FINISH"))

AfterRinging(now) ==
  IF now.state["server"] = "TRYING"
  THEN Two(now, Become("server", "RINGING"), Reply("server", 180))
  ELSE now

AfterReject(now) ==
  AfterFinish(Two(now, Become("server", "BUSY"), Reply("server", 486)), "server")

AfterOk(now) ==
  IF now.state["server"] \in {"BYE", "CANCELING"}
  THEN AfterFinish(Effect(now, Ask("server", "ACK")), "server")
  ELSE IF now.state["server"] \in Waiting
       THEN Two(now, Become("server", "OK"), Reply("server", 200))
       ELSE Effect(now, Become("server", "FAIL"))

AfterBye(now, leg) ==
  IF now.state[leg] = "CALLING"
  THEN Three(now, Become(leg, "BYE"), Cite(leg, "OWN"), Ask(leg, "BYE"))
  ELSE now

AfterCancel(now) == Two(now, Become("client", "CANCELING"), Ask("client", "CANCEL"))

LEMMA DoesOne ==
  ASSUME NEW a, NEW now, NEW x \in Simple, NEW rest \in Seq(Operation),
         OnTheWay(a, Point(now, <<x>> \o rest))
  PROVE  OnTheWay(a, Point(Effect(now, x), rest))
<1> DEFINE plan == <<x>> \o rest
<1>1. x \in Operation /\ x.do # "run"
  BY DEF Simple
<1>2. plan # <<>> /\ Head(plan) = x /\ Tail(plan) = rest
  BY <1>1, PlanOfMore, PlansLonger
<1>3. OnTheWay(a, Point(now, plan))
  OBVIOUS
<1> HIDE DEF plan
<1>4. Leads(Point(now, plan), Point(Effect(now, x), rest))
  BY <1>1, <1>2, PerformsOne DEF Leads
<1> QED BY <1>3, <1>4, StaysOnTheWay

LEMMA DoesTwo ==
  ASSUME NEW a, NEW now, NEW x \in Simple, NEW y \in Simple, NEW rest \in Seq(Operation),
         OnTheWay(a, Point(now, <<x, y>> \o rest))
  PROVE  OnTheWay(a, Point(Two(now, x, y), rest))
<1>1. x \in Operation /\ y \in Operation
  BY DEF Simple
<1>2. <<x, y>> \o rest = <<x>> \o (<<y>> \o rest)
  BY <1>1, PlansLonger
<1> DEFINE more == <<y>> \o rest
<1>3. more \in Seq(Operation) /\ OnTheWay(a, Point(now, <<x>> \o more))
  BY <1>1, <1>2, PlansLonger
<1> HIDE DEF more
<1>4. OnTheWay(a, Point(Effect(now, x), more))
  BY <1>3, DoesOne
<1>5. OnTheWay(a, Point(Effect(Effect(now, x), y), rest))
  BY <1>4, DoesOne DEF more
<1> QED BY <1>5 DEF Two

LEMMA DoesThree ==
  ASSUME NEW a, NEW now, NEW x \in Simple, NEW y \in Simple, NEW z \in Simple,
         NEW rest \in Seq(Operation), OnTheWay(a, Point(now, <<x, y, z>> \o rest))
  PROVE  OnTheWay(a, Point(Three(now, x, y, z), rest))
<1>1. x \in Operation /\ y \in Operation /\ z \in Operation
  BY DEF Simple
<1>2. <<x, y, z>> \o rest = <<x>> \o (<<y, z>> \o rest)
  BY <1>1, LongPlans
<1> DEFINE more == <<y, z>> \o rest
<1>3. more \in Seq(Operation)
  <2>1. <<y, z>> \in Seq(Operation)
    BY <1>1
  <2> QED BY <2>1
<1>4. OnTheWay(a, Point(now, <<x>> \o more))
  BY <1>2
<1> HIDE DEF more
<1>5. OnTheWay(a, Point(Effect(now, x), more))
  BY <1>3, <1>4, DoesOne
<1>6. OnTheWay(a, Point(Two(Effect(now, x), y, z), rest))
  BY <1>5, DoesTwo DEF more
<1> QED BY <1>6 DEF Three, Two

LEMMA CallsNext ==
  ASSUME NEW a, NEW now, NEW leg \in Legs, NEW name \in Methods, NEW rest \in Seq(Operation),
         OnTheWay(a, Point(now, <<Run(leg, name)>> \o rest))
  PROVE  OnTheWay(a, Point(now, Body(now.state, leg, name) \o rest))
<1> DEFINE x == Run(leg, name)
           plan == <<x>> \o rest
<1>1. x \in Operation /\ x.do = "run" /\ x.leg = leg /\ x.name = name
  BY Operations DEF Run
<1>2. OnTheWay(a, Point(now, plan))
  OBVIOUS
<1> HIDE DEF x
<1>3. plan # <<>> /\ Head(plan) = x /\ Tail(plan) = rest
  BY <1>1, PlanOfMore, PlansLonger
<1> HIDE DEF plan
<1>4. Leads(Point(now, plan), Point(now, Body(now.state, leg, name) \o rest))
  BY <1>1, <1>3, CallsOne DEF Leads
<1> QED BY <1>2, <1>4, StaysOnTheWay

LEMMA Finishes ==
  ASSUME NEW a, NEW now, NEW leg \in Legs, NEW rest \in Seq(Operation),
         OnTheWay(a, Point(now, FinishImmediately(leg) \o rest))
  PROVE  OnTheWay(a, Point(AfterFinish(now, leg), rest))
<1>1. Forget(leg) \in Simple /\ Become(leg, "FINISH") \in Simple
  BY SimpleOnes, Names
<1> QED BY <1>1, DoesTwo DEF FinishImmediately, AfterFinish

LEMMA FinishPlan ==
  ASSUME NEW leg \in Legs
  PROVE  FinishImmediately(leg) \in Seq(Operation)
<1>1. Forget(leg) \in Operation /\ Become(leg, "FINISH") \in Operation
  BY Operations, Names
<1> QED BY <1>1 DEF FinishImmediately

LEMMA ServerRings ==
  ASSUME NEW a, NEW now, NEW rest \in Seq(Operation),
         OnTheWay(a, Point(now, <<Run("server", "onRinging")>> \o rest))
  PROVE  OnTheWay(a, Point(AfterRinging(now), rest))
<1>1. OnTheWay(a, Point(now, Body(now.state, "server", "onRinging") \o rest))
  BY CallsNext, Names
<1>2. CASE now.state["server"] = "TRYING"
  <2>1. Body(now.state, "server", "onRinging") = <<Become("server", "RINGING"), Reply("server", 180)>>
    BY <1>2 DEF Body, OnRinging
  <2>2. Become("server", "RINGING") \in Simple /\ Reply("server", 180) \in Simple
    BY SimpleOnes, Names
  <2> QED BY <1>1, <1>2, <2>1, <2>2, DoesTwo DEF AfterRinging
<1>3. CASE now.state["server"] # "TRYING"
  <2>1. Body(now.state, "server", "onRinging") = <<>>
    BY <1>3 DEF Body, OnRinging
  <2> QED BY <1>1, <1>3, <2>1, EmptyParts DEF AfterRinging
<1> QED BY <1>2, <1>3

LEMMA ServerRejects ==
  ASSUME NEW a, NEW now, NEW rest \in Seq(Operation),
         OnTheWay(a, Point(now, <<Run("server", "onReject")>> \o rest))
  PROVE  OnTheWay(a, Point(AfterReject(now), rest))
<1> DEFINE x == Become("server", "BUSY")
           y == Reply("server", 486)
           end == FinishImmediately("server")
<1>1. x \in Simple /\ y \in Simple
  BY SimpleOnes, Names
<1>2. OnTheWay(a, Point(now, (<<x, y>> \o end) \o rest))
  <2>1. Body(now.state, "server", "onReject") = <<x, y>> \o end
    BY DEF Body, OnReject
  <2>2. OnTheWay(a, Point(now, Body(now.state, "server", "onReject") \o rest))
    BY CallsNext, Names
  <2> QED BY <2>1, <2>2
<1>3. end \in Seq(Operation)
  BY FinishPlan, Names
<1> HIDE DEF x, y, end
<1>4. <<x, y>> \in Seq(Operation)
  BY <1>1 DEF Simple
<1>5. (<<x, y>> \o end) \o rest = <<x, y>> \o (end \o rest)
  <2> DEFINE first == <<x, y>>
  <2>1. first \in Seq(Operation)
    BY <1>4
  <2> HIDE DEF first
  <2>2. (first \o end) \o rest = first \o (end \o rest)
    BY <1>3, <2>1, ConcatAssociative
  <2> QED BY <2>2 DEF first
<1>6. end \o rest \in Seq(Operation)
  BY <1>3
<1>7. OnTheWay(a, Point(Two(now, x, y), end \o rest))
  BY <1>1, <1>2, <1>5, <1>6, DoesTwo
<1> QED BY <1>7, Finishes, Names DEF AfterReject, x, y, end

LEMMA HangsUp ==
  ASSUME NEW a, NEW now, NEW leg \in Legs, NEW rest \in Seq(Operation),
         OnTheWay(a, Point(now, <<Run(leg, "onBye")>> \o rest))
  PROVE  OnTheWay(a, Point(AfterBye(now, leg), rest))
<1>1. OnTheWay(a, Point(now, Body(now.state, leg, "onBye") \o rest))
  BY CallsNext, Names
<1>2. CASE now.state[leg] = "CALLING"
  <2>1. Body(now.state, leg, "onBye") = <<Become(leg, "BYE"), Cite(leg, "OWN"), Ask(leg, "BYE")>>
    BY <1>2 DEF Body, OnBye
  <2>2. Become(leg, "BYE") \in Simple /\ Cite(leg, "OWN") \in Simple /\ Ask(leg, "BYE") \in Simple
    BY SimpleOnes, Names
  <2> QED BY <1>1, <1>2, <2>1, <2>2, DoesThree DEF AfterBye
<1>3. CASE now.state[leg] # "CALLING"
  <2>1. Body(now.state, leg, "onBye") = <<>>
    BY <1>3 DEF Body, OnBye
  <2> QED BY <1>1, <1>3, <2>1, EmptyParts DEF AfterBye
<1> QED BY <1>2, <1>3

LEMMA Cancels ==
  ASSUME NEW a, NEW now, NEW rest \in Seq(Operation),
         OnTheWay(a, Point(now, <<Run("client", "onCancel")>> \o rest))
  PROVE  OnTheWay(a, Point(AfterCancel(now), rest))
<1>1. Body(now.state, "client", "onCancel") = <<Become("client", "CANCELING"), Ask("client", "CANCEL")>>
  BY DEF Body, OnCancel
<1>2. Become("client", "CANCELING") \in Simple /\ Ask("client", "CANCEL") \in Simple
  BY SimpleOnes, Names
<1>3. OnTheWay(a, Point(now, Body(now.state, "client", "onCancel") \o rest))
  BY CallsNext, Names
<1> QED BY <1>1, <1>2, <1>3, DoesTwo DEF AfterCancel

\* The thread acknowledges a 2xx and gives the leg up.
LEMMA AcksAndFinishes ==
  ASSUME NEW a, NEW now, NEW leg \in Legs, NEW rest \in Seq(Operation),
         OnTheWay(a, Point(now, (<<Ask(leg, "ACK")>> \o FinishImmediately(leg)) \o rest))
  PROVE  OnTheWay(a, Point(AfterFinish(Effect(now, Ask(leg, "ACK")), leg), rest))
<1> DEFINE x == Ask(leg, "ACK")
           end == FinishImmediately(leg)
<1>1. x \in Simple /\ end \in Seq(Operation)
  BY SimpleOnes, FinishPlan, Names
<1>2. OnTheWay(a, Point(now, (<<x>> \o end) \o rest))
  OBVIOUS
<1> HIDE DEF x, end
<1> DEFINE first == <<x>>
<1>3. first \in Seq(Operation)
  BY <1>1 DEF Simple
<1> HIDE DEF first
<1>4. (first \o end) \o rest = first \o (end \o rest) /\ end \o rest \in Seq(Operation)
  <2>1. end \in Seq(Operation) /\ rest \in Seq(Operation)
    BY <1>1
  <2>2. (first \o end) \o rest = first \o (end \o rest)
    BY <1>3, <2>1, ConcatAssociative
  <2>3. end \o rest \in Seq(Operation)
    BY <2>1
  <2> QED BY <2>2, <2>3
<1>5. OnTheWay(a, Point(Effect(now, x), end \o rest))
  BY <1>1, <1>2, <1>4, DoesOne DEF first
<1> QED BY <1>5, Finishes DEF x, end

LEMMA ServerOks ==
  ASSUME NEW a, NEW now, NEW rest \in Seq(Operation),
         OnTheWay(a, Point(now, <<Run("server", "onOk")>> \o rest))
  PROVE  OnTheWay(a, Point(AfterOk(now), rest))
<1>1. OnTheWay(a, Point(now, Body(now.state, "server", "onOk") \o rest))
  BY CallsNext, Names
<1>2. CASE now.state["server"] \in {"BYE", "CANCELING"}
  <2>1. Body(now.state, "server", "onOk") = <<>> \o <<Ask("server", "ACK")>> \o FinishImmediately("server")
    BY <1>2 DEF Body, OnOk
  <2>2. Ask("server", "ACK") \in Operation
    BY Operations, Names
  <2>3. <<>> \o <<Ask("server", "ACK")>> = <<Ask("server", "ACK")>>
    BY <2>2, EmptyParts
  <2> QED BY <1>1, <1>2, <2>1, <2>3, AcksAndFinishes, Names DEF AfterOk
<1>3. CASE now.state["server"] \notin {"BYE", "CANCELING"}
  <2>1. Body(now.state, "server", "onOk") = <<Run("server", "onOk(waiting)")>>
    BY <1>3 DEF Body, OnOk
  <2>2. OnTheWay(a, Point(now, Body(now.state, "server", "onOk(waiting)") \o rest))
    BY <1>1, <2>1, CallsNext, Names
  <2>3. CASE now.state["server"] \in Waiting
    <3>1. Body(now.state, "server", "onOk(waiting)") = <<Become("server", "OK"), Reply("server", 200)>>
      BY <2>3 DEF Body, OnOkWaiting
    <3>2. Become("server", "OK") \in Simple /\ Reply("server", 200) \in Simple
      BY SimpleOnes, Names
    <3> QED BY <1>3, <2>2, <2>3, <3>1, <3>2, DoesTwo DEF AfterOk
  <2>4. CASE now.state["server"] \notin Waiting
    <3>1. Body(now.state, "server", "onOk(waiting)") = <<Become("server", "FAIL")>>
      BY <2>4 DEF Body, OnOkWaiting
    <3>2. Become("server", "FAIL") \in Simple
      BY SimpleOnes, Names
    <3> QED BY <1>3, <2>2, <2>4, <3>1, <3>2, DoesOne DEF AfterOk
  <2> QED BY <2>3, <2>4
<1> QED BY <1>2, <1>3

-----------------------------------------------------------------------------
(* What a thread comes to that starts with a method. *)

\* A call on the other leg, which is made when the call has a bridge.
LEMMA PassesOn ==
  ASSUME NEW a, NEW now, NEW leg \in Legs, NEW name \in Methods, NEW rest \in Seq(Operation),
         OnTheWay(a, Point(now, OnOther(leg, name) \o rest))
  PROVE  /\ bridged => OnTheWay(a, Point(now, <<Run(Other(leg), name)>> \o rest))
         /\ ~bridged => OnTheWay(a, Point(now, rest))
<1>1. ASSUME bridged PROVE OnOther(leg, name) = <<Run(Other(leg), name)>>
  BY <1>1 DEF OnOther
<1>2. ASSUME ~bridged PROVE OnOther(leg, name) \o rest = rest
  <2>1. OnOther(leg, name) = <<>>
    BY <1>2 DEF OnOther
  <2> QED BY <2>1, EmptyParts
<1> QED BY <1>1, <1>2

\* A thread that starts with a method from the state now of what is shared.
Begins(now, leg, name) == Point(now, <<Run(leg, name)>>)
Results(now, leg, name, n) == Ends(Begins(now, leg, name), Point(n, <<>>)) /\ n \in Shared

LEMMA Enters ==
  ASSUME NEW now \in Shared, NEW leg, NEW name, Started(leg, name)
  PROVE  /\ leg \in Legs /\ name \in Methods
         /\ OnTheWay(Begins(now, leg, name), Point(now, <<Run(leg, name)>> \o <<>>))
         /\ OnTheWay(Begins(now, leg, name), Point(now, Body(now.state, leg, name) \o <<>>))
         /\ OnTheWay(Begins(now, leg, name), Point(now, Body(now.state, leg, name)))
<1>1. leg \in Legs /\ name \in Methods
  BY Names DEF Started
<1>2. Run(leg, name) \in Operation
  BY <1>1, Operations
<1>3. <<Run(leg, name)>> \o <<>> = <<Run(leg, name)>>
  BY <1>2, EmptyParts
<1>4. OnTheWay(Begins(now, leg, name), Point(now, <<Run(leg, name)>> \o <<>>))
  BY <1>3, StartedShort, SetsOut DEF Begins
<1>5. OnTheWay(Begins(now, leg, name), Point(now, Body(now.state, leg, name) \o <<>>))
  BY <1>1, <1>4, CallsNext, EmptyPlan
<1>6. Body(now.state, leg, name) \o <<>> = Body(now.state, leg, name)
  BY <1>1, BodyType, EmptyParts
<1> QED BY <1>1, <1>4, <1>5, <1>6

LEMMA Comes ==
  ASSUME NEW now, NEW leg, NEW name, NEW n, OnTheWay(Begins(now, leg, name), Point(n, <<>>))
  PROVE  Results(now, leg, name, n)
BY Arrives DEF Results

LEMMA AckResults ==
  ASSUME NEW now \in Shared
  PROVE  \E n : /\ Results(now, "server", "onACK", n)
                /\ n = CASE now.state["server"] = "OK" -> Effect(now, Become("server", "CALLING"))
                         [] now.state["server"] \in {"BUSY", "BYE", "CANCELING"} ->
                              AfterFinish(now, "server")
                         [] OTHER -> now
<1> DEFINE a == Begins(now, "server", "onACK")
<1>1. OnTheWay(a, Point(now, Body(now.state, "server", "onACK") \o <<>>))
  BY Enters DEF Started
<1> HIDE DEF a
<1>2. CASE now.state["server"] = "OK"
  <2>1. Body(now.state, "server", "onACK") = <<Become("server", "CALLING")>>
    BY <1>2 DEF Body, OnAck
  <2>2. PICK x : x = Become("server", "CALLING")
    OBVIOUS
  <2>3. x \in Simple
    BY <2>2, SimpleOnes, Names
  <2>4. OnTheWay(a, Point(now, <<x>> \o <<>>))
    BY <1>1, <2>1, <2>2
  <2>5. OnTheWay(a, Point(Effect(now, x), <<>>))
    BY <2>3, <2>4, DoesOne, EmptyPlan
  <2> QED BY <1>2, <2>2, <2>5, Comes DEF a
<1>3. CASE now.state["server"] \in {"BUSY", "BYE", "CANCELING"}
  <2>1. Body(now.state, "server", "onACK") = FinishImmediately("server")
    BY <1>3 DEF Body, OnAck
  <2>2. OnTheWay(a, Point(AfterFinish(now, "server"), <<>>))
    BY <1>1, <2>1, Finishes, EmptyPlan, Names
  <2> QED BY <1>3, <2>2, Comes DEF a
<1>4. CASE now.state["server"] \notin {"OK", "BUSY", "BYE", "CANCELING"}
  <2>1. Body(now.state, "server", "onACK") = <<>>
    BY <1>4 DEF Body, OnAck
  <2>2. OnTheWay(a, Point(now, <<>>))
    BY <1>1, <2>1, EmptyPlan, EmptyParts
  <2> QED BY <1>4, <2>2, Comes DEF a
<1> QED BY <1>2, <1>3, <1>4

LEMMA CancelResults ==
  ASSUME NEW now \in Shared
  PROVE  \E m, n : /\ Results(now, "server", "onCancel(request)", n)
                   /\ m = Three(now, Cite("server", "CANCEL"), Become("server", "CANCELING"),
                                     Reply("server", 200))
                   /\ n = IF bridged THEN AfterCancel(m) ELSE m
<1> DEFINE a == Begins(now, "server", "onCancel(request)")
           x == Cite("server", "CANCEL")
           y == Become("server", "CANCELING")
           z == Reply("server", 200)
           rest == OnOther("server", "onCancel")
<1>1. OnTheWay(a, Point(now, Body(now.state, "server", "onCancel(request)")))
  BY Enters DEF Started
<1> HIDE DEF a
<1>2. Body(now.state, "server", "onCancel(request)") = <<x, y, z>> \o rest
  BY DEF Body, OnCancelRequest
<1>3. x \in Simple /\ y \in Simple /\ z \in Simple /\ rest \in Seq(Operation)
  BY SimpleOnes, PassedOnPlan, Names
<1>4. rest \o <<>> = rest
  BY <1>3, EmptyParts
<1> HIDE DEF x, y, z
<1> DEFINE m == Three(now, x, y, z)
<1>5. OnTheWay(a, Point(m, OnOther("server", "onCancel") \o <<>>))
  <2> HIDE DEF rest
  <2>1. OnTheWay(a, Point(Three(now, x, y, z), rest))
    BY <1>1, <1>2, <1>3, DoesThree
  <2> QED BY <1>4, <2>1 DEF rest
<1> HIDE DEF m
<1>6. CASE bridged
  <2>1. OnTheWay(a, Point(m, <<Run("client", "onCancel")>> \o <<>>))
    BY <1>5, <1>6, PassesOn, EmptyPlan, Names DEF Other
  <2>2. OnTheWay(a, Point(AfterCancel(m), <<>>))
    BY <2>1, Cancels, EmptyPlan
  <2> QED BY <1>6, <2>2, Comes DEF a, m, x, y, z
<1>7. CASE ~bridged
  <2>1. OnTheWay(a, Point(m, <<>>))
    BY <1>5, <1>7, PassesOn, EmptyPlan, Names
  <2> QED BY <1>7, <2>1, Comes DEF a, m, x, y, z
<1> QED BY <1>6, <1>7

LEMMA ByeResults ==
  ASSUME NEW now \in Shared, NEW leg \in Legs
  PROVE  \E m, n : /\ Results(now, leg, "onBye(request)", n)
                   /\ m = Three(now, Cite(leg, "BYE"), Become(leg, "BYE"), Reply(leg, 200))
                   /\ n = IF now.state[leg] # "CALLING" THEN Effect(now, Reply(leg, 400))
                          ELSE IF bridged THEN AfterBye(m, Other(leg)) ELSE m
<1> DEFINE a == Begins(now, leg, "onBye(request)")
           x == Cite(leg, "BYE")
           y == Become(leg, "BYE")
           z == Reply(leg, 200)
           rest == OnOther(leg, "onBye")
<1>1. OnTheWay(a, Point(now, Body(now.state, leg, "onBye(request)")))
  BY Enters DEF Started, Legs
<1> HIDE DEF a
<1>2. CASE now.state[leg] # "CALLING"
  <2> DEFINE r == Reply(leg, 400)
  <2>1. Body(now.state, leg, "onBye(request)") = <<r>>
    BY <1>2 DEF Body, OnByeRequest
  <2>2. r \in Simple /\ r \in Operation
    BY SimpleOnes, Operations
  <2> HIDE DEF r
  <2>3. OnTheWay(a, Point(now, <<r>> \o <<>>))
    BY <1>1, <2>1, <2>2, EmptyParts
  <2>4. OnTheWay(a, Point(Effect(now, r), <<>>))
    BY <2>2, <2>3, DoesOne, EmptyPlan
  <2> QED BY <1>2, <2>4, Comes DEF a, r
<1>3. CASE now.state[leg] = "CALLING"
  <2>1. Body(now.state, leg, "onBye(request)") = <<x, y, z>> \o rest
    BY <1>3 DEF Body, OnByeRequest
  <2>2. x \in Simple /\ y \in Simple /\ z \in Simple /\ rest \in Seq(Operation)
    BY SimpleOnes, PassedOnPlan, Names
  <2>3. rest \o <<>> = rest
    BY <2>2, EmptyParts
  <2> HIDE DEF x, y, z
  <2> DEFINE m == Three(now, x, y, z)
  <2>4. OnTheWay(a, Point(m, OnOther(leg, "onBye") \o <<>>))
    <3> HIDE DEF rest
    <3>1. OnTheWay(a, Point(Three(now, x, y, z), rest))
      BY <1>1, <2>1, <2>2, DoesThree
    <3> QED BY <2>3, <3>1 DEF rest
  <2> HIDE DEF m
  <2>5. CASE bridged
    <3>1. OnTheWay(a, Point(m, <<Run(Other(leg), "onBye")>> \o <<>>))
      BY <2>4, <2>5, PassesOn, EmptyPlan, Names
    <3>2. Other(leg) \in Legs
      BY DEF Other, Legs
    <3>3. OnTheWay(a, Point(AfterBye(m, Other(leg)), <<>>))
      BY <3>1, <3>2, HangsUp, EmptyPlan
    <3> QED BY <1>3, <2>5, <3>3, Comes DEF a, m, x, y, z
  <2>6. CASE ~bridged
    <3>1. OnTheWay(a, Point(m, <<>>))
      BY <2>4, <2>6, PassesOn, EmptyPlan, Names
    <3> QED BY <1>3, <2>6, <3>1, Comes DEF a, m, x, y, z
  <2> QED BY <2>5, <2>6
<1> QED BY <1>2, <1>3

LEMMA ServerOkResults ==
  ASSUME NEW now \in Shared
  PROVE  \E n : Results(now, "server", "onOk", n) /\ n = AfterOk(now)
<1>1. OnTheWay(Begins(now, "server", "onOk"), Point(now, <<Run("server", "onOk")>> \o <<>>))
  BY Enters DEF Started
<1> QED BY <1>1, ServerOks, Comes, EmptyPlan

LEMMA ServerRejectResults ==
  ASSUME NEW now \in Shared
  PROVE  \E n : Results(now, "server", "onReject", n) /\ n = AfterReject(now)
<1>1. OnTheWay(Begins(now, "server", "onReject"), Point(now, <<Run("server", "onReject")>> \o <<>>))
  BY Enters DEF Started
<1> QED BY <1>1, ServerRejects, Comes, EmptyPlan

LEMMA RingingResults ==
  ASSUME NEW now \in Shared, bridged
  PROVE  \E n : /\ Results(now, "client", "onRinging", n)
                /\ n = IF now.state["client"] = "TRYING"
                       THEN Effect(AfterRinging(now), Become("client", "RINGING"))
                       ELSE now
<1> DEFINE a == Begins(now, "client", "onRinging")
           x == Become("client", "RINGING")
           told == OnOther("client", "onRinging")
<1>1. OnTheWay(a, Point(now, Body(now.state, "client", "onRinging")))
  BY Enters DEF Started
<1> HIDE DEF a
<1>2. CASE now.state["client"] # "TRYING"
  <2>1. Body(now.state, "client", "onRinging") = <<>>
    BY <1>2 DEF Body, OnRinging
  <2> QED BY <1>1, <1>2, <2>1, Comes DEF a
<1>3. CASE now.state["client"] = "TRYING"
  <2>1. Body(now.state, "client", "onRinging") = told \o <<x>>
    BY <1>3 DEF Body, OnRinging
  <2>2. x \in Simple
    BY SimpleOnes, Names
  <2> HIDE DEF x
  <2> DEFINE rest == <<x>>
  <2>3. rest \in Seq(Operation) /\ rest \o <<>> = rest
    <3>1. <<x>> \in Seq(Operation)
      BY <2>2 DEF Simple
    <3> QED BY <3>1, EmptyParts
  <2>4. OnTheWay(a, Point(now, told \o rest))
    BY <1>1, <2>1
  <2> HIDE DEF rest
  <2>5. OnTheWay(a, Point(now, <<Run("server", "onRinging")>> \o rest))
    BY <2>3, <2>4, PassesOn, Names DEF Other
  <2>6. OnTheWay(a, Point(AfterRinging(now), rest))
    BY <2>3, <2>5, ServerRings
  <2>7. OnTheWay(a, Point(AfterRinging(now), <<x>> \o <<>>))
    BY <2>3, <2>6 DEF rest
  <2>8. OnTheWay(a, Point(Effect(AfterRinging(now), x), <<>>))
    BY <2>2, <2>7, DoesOne, EmptyPlan
  <2> QED BY <1>3, <2>8, Comes DEF a, x
<1> QED BY <1>2, <1>3

LEMMA RejectResults ==
  ASSUME NEW now \in Shared, bridged
  PROVE  \E m, n : /\ Results(now, "client", "onReject", n)
                   /\ m = AfterReject(Effect(now, Become("client", "BUSY")))
                   /\ n = AfterFinish(m, "client")
<1> DEFINE a == Begins(now, "client", "onReject")
           x == Become("client", "BUSY")
           told == OnOther("client", "onReject")
           end == FinishImmediately("client")
<1>1. OnTheWay(a, Point(now, Body(now.state, "client", "onReject")))
  BY Enters DEF Started
<1> HIDE DEF a
<1>2. Body(now.state, "client", "onReject") = <<x>> \o told \o end
  BY DEF Body, OnReject
<1>3. x \in Simple /\ told \in Seq(Operation) /\ end \in Seq(Operation)
  BY SimpleOnes, PassedOnPlan, FinishPlan, Names
<1>4. end \o <<>> = end
  BY <1>3, EmptyParts
<1> HIDE DEF x, told, end
<1> DEFINE first == <<x>>
<1>5. first \in Seq(Operation)
  BY <1>3 DEF Simple
<1> HIDE DEF first
<1>6. (first \o told) \o end = first \o (told \o end) /\ told \o end \in Seq(Operation)
  <2>1. told \in Seq(Operation) /\ end \in Seq(Operation)
    BY <1>3
  <2>2. (first \o told) \o end = first \o (told \o end)
    BY <1>5, <2>1, ConcatAssociative
  <2>3. told \o end \in Seq(Operation)
    BY <2>1
  <2> QED BY <2>2, <2>3
<1>7. OnTheWay(a, Point(Effect(now, x), told \o end))
  BY <1>1, <1>2, <1>3, <1>6, DoesOne DEF first
<1> DEFINE p == Effect(now, x)
<1> HIDE DEF p
<1>8. OnTheWay(a, Point(p, <<Run("server", "onReject")>> \o end))
  BY <1>3, <1>7, PassesOn, Names DEF p, told, Other
<1>9. OnTheWay(a, Point(AfterReject(p), end))
  BY <1>3, <1>8, ServerRejects
<1>10. OnTheWay(a, Point(AfterFinish(AfterReject(p), "client"), <<>>))
  BY <1>4, <1>9, Finishes, EmptyPlan, Names DEF end
<1> QED BY <1>10, Comes DEF a, p, x

LEMMA OkResults ==
  ASSUME NEW now \in Shared, bridged
  PROVE  \E n : /\ Results(now, "client", "onOk", n)
                /\ n = IF now.state["client"] = "BYE"
                       THEN AfterFinish(Effect(AfterBye(now, "server"), Ask("client", "ACK")), "client")
                       ELSE IF now.state["client"] = "CANCELING"
                       THEN AfterFinish(Effect(now, Ask("client", "ACK")), "client")
                       ELSE IF now.state["client"] \in Waiting
                       THEN Two(AfterOk(now), Become("client", "CALLING"), Ask("client", "ACK"))
                       ELSE AfterFinish(Effect(now, Become("client", "FAIL")), "client")
<1> DEFINE a == Begins(now, "client", "onOk")
           state == now.state["client"]
           ack == <<Ask("client", "ACK")>>
           end == FinishImmediately("client")
<1>1. /\ OnTheWay(a, Point(now, Body(now.state, "client", "onOk")))
      /\ OnTheWay(a, Point(now, Body(now.state, "client", "onOk") \o <<>>))
  BY Enters DEF Started
<1> HIDE DEF a
<1>2. ack \in Seq(Operation) /\ end \in Seq(Operation) /\ Ask("client", "ACK") \in Simple
  <2>1. Ask("client", "ACK") \in Operation /\ Ask("client", "ACK") \in Simple
    BY Operations, SimpleOnes, Names
  <2>2. end \in Seq(Operation)
    BY FinishPlan, Names
  <2> HIDE DEF end
  <2> QED BY <2>1, <2>2
<1>3. CASE state = "BYE"
  <2> DEFINE told == OnOther("client", "onBye")
             rest == ack \o end
  <2>1. Body(now.state, "client", "onOk") = told \o ack \o end
    BY <1>3 DEF Body, OnOk
  <2>2. told \in Seq(Operation)
    BY PassedOnPlan, Names
  <2> HIDE DEF told, ack, end
  <2>3. (told \o ack) \o end = told \o rest /\ rest \in Seq(Operation)
    BY <1>2, <2>2, ConcatAssociative
  <2>4. OnTheWay(a, Point(now, told \o rest))
    BY <1>1, <2>1, <2>3
  <2> HIDE DEF rest
  <2>5. OnTheWay(a, Point(now, <<Run("server", "onBye")>> \o rest))
    BY <2>3, <2>4, PassesOn, Names DEF Other, told
  <2>6. OnTheWay(a, Point(AfterBye(now, "server"), rest))
    BY <2>3, <2>5, HangsUp, Names
  <2>7. rest \o <<>> = rest
    BY <2>3, EmptyParts
  <2>8. OnTheWay(a, Point(AfterBye(now, "server"), (ack \o end) \o <<>>))
    BY <2>6, <2>7 DEF rest
  <2>9. OnTheWay(a, Point(AfterFinish(Effect(AfterBye(now, "server"), Ask("client", "ACK")), "client"), <<>>))
    BY <2>8, AcksAndFinishes, EmptyPlan, Names DEF ack, end
  <2> QED BY <1>3, <2>9, Comes DEF a
<1>4. CASE state = "CANCELING"
  <2>1. Body(now.state, "client", "onOk") = <<>> \o ack \o end
    BY <1>4 DEF Body, OnOk
  <2>2. <<>> \o ack = ack
    BY <1>2, EmptyParts
  <2>3. OnTheWay(a, Point(AfterFinish(Effect(now, Ask("client", "ACK")), "client"), <<>>))
    BY <1>1, <2>1, <2>2, AcksAndFinishes, EmptyPlan, Names
  <2> QED BY <1>4, <2>3, Comes DEF a
<1>5. CASE state \notin {"BYE", "CANCELING"}
  <2>1. Body(now.state, "client", "onOk") = <<Run("client", "onOk(waiting)")>>
    BY <1>5 DEF Body, OnOk
  <2>2. OnTheWay(a, Point(now, Body(now.state, "client", "onOk(waiting)") \o <<>>))
    BY <1>1, <2>1, CallsNext, EmptyPlan, Names
  <2>3. CASE state \in Waiting
    <3> DEFINE told == OnOther("client", "onOk")
               x == Become("client", "CALLING")
               y == Ask("client", "ACK")
               rest == <<x, y>>
    <3>1. Body(now.state, "client", "onOk(waiting)") = told \o rest
      BY <2>3 DEF Body, OnOkWaiting
    <3>2. x \in Simple /\ y \in Simple /\ told \in Seq(Operation)
      BY SimpleOnes, PassedOnPlan, Names
    <3> HIDE DEF x, y, told
    <3>3. rest \in Seq(Operation) /\ rest \o <<>> = rest
      <4>1. rest \in Seq(Operation)
        BY <3>2 DEF Simple
      <4> HIDE DEF rest
      <4> QED BY <4>1, EmptyParts
    <3> HIDE DEF rest
    <3>4. (told \o rest) \o <<>> = told \o rest
      <4>1. told \o rest \in Seq(Operation)
        BY <3>2, <3>3
      <4> QED BY <4>1, EmptyParts
    <3>5. OnTheWay(a, Point(now, <<Run("server", "onOk")>> \o rest))
      BY <2>2, <3>1, <3>3, <3>4, PassesOn, Names DEF told, Other
    <3>6. OnTheWay(a, Point(AfterOk(now), rest))
      BY <3>3, <3>5, ServerOks
    <3>7. OnTheWay(a, Point(AfterOk(now), <<x, y>> \o <<>>))
      BY <3>3, <3>6 DEF rest
    <3>8. OnTheWay(a, Point(Two(AfterOk(now), x, y), <<>>))
      BY <3>2, <3>7, DoesTwo, EmptyPlan
    <3> QED BY <1>5, <2>3, <3>8, Comes DEF a, x, y
  <2>4. CASE state \notin Waiting
    <3> DEFINE x == Become("client", "FAIL")
               first == <<x>>
    <3>1. Body(now.state, "client", "onOk(waiting)") = first \o end
      BY <2>4 DEF Body, OnOkWaiting
    <3>2. x \in Simple
      BY SimpleOnes, Names
    <3> HIDE DEF x, end
    <3>3. first \in Seq(Operation)
      BY <3>2 DEF Simple
    <3> HIDE DEF first
    <3>4. /\ (first \o end) \o <<>> = first \o (end \o <<>>)
          /\ end \o <<>> = end
      BY <1>2, <3>3, ConcatAssociative, EmptyParts, EmptyPlan
    <3>5. OnTheWay(a, Point(now, <<x>> \o end))
      BY <2>2, <3>1, <3>4 DEF first
    <3>6. OnTheWay(a, Point(Effect(now, x), end))
      BY <1>2, <3>2, <3>5, DoesOne
    <3>7. OnTheWay(a, Point(AfterFinish(Effect(now, x), "client"), <<>>))
      BY <3>4, <3>6, Finishes, EmptyPlan, Names DEF end
    <3> QED BY <1>5, <2>4, <3>7, Comes DEF a, x
  <2> QED BY <2>3, <2>4
<1> QED BY <1>3, <1>4, <1>5

-----------------------------------------------------------------------------
(* What is shared, leg by leg. *)

View(s, c, sr, cr, sk, ck, ws, wc) ==
  [state |-> [server |-> s, client |-> c], req |-> [server |-> sr, client |-> cr],
   known |-> [server |-> sk, client |-> ck], wire |-> [server |-> ws, client |-> wc]]

LEMMA ViewParts ==
  ASSUME NEW s, NEW c, NEW sr, NEW cr, NEW sk, NEW ck, NEW ws, NEW wc
  PROVE  LET v == View(s, c, sr, cr, sk, ck, ws, wc)
         IN  /\ v.state["server"] = s /\ v.state["client"] = c
             /\ v.req["server"] = sr /\ v.req["client"] = cr
             /\ v.known["server"] = sk /\ v.known["client"] = ck
             /\ v.wire["server"] = ws /\ v.wire["client"] = wc
BY DEF View

LEMMA ViewBecomes ==
  ASSUME NEW s, NEW c, NEW sr, NEW cr, NEW sk, NEW ck, NEW ws, NEW wc, NEW x
  PROVE  /\ Effect(View(s, c, sr, cr, sk, ck, ws, wc), Become("server", x))
              = View(x, c, sr, cr, sk, ck, ws, wc)
         /\ Effect(View(s, c, sr, cr, sk, ck, ws, wc), Become("client", x))
              = View(s, x, sr, cr, sk, ck, ws, wc)
BY DEF View, Effect, Become

LEMMA ViewCites ==
  ASSUME NEW s, NEW c, NEW sr, NEW cr, NEW sk, NEW ck, NEW ws, NEW wc, NEW x
  PROVE  /\ Effect(View(s, c, sr, cr, sk, ck, ws, wc), Cite("server", x))
              = View(s, c, x, cr, sk, ck, ws, wc)
         /\ Effect(View(s, c, sr, cr, sk, ck, ws, wc), Cite("client", x))
              = View(s, c, sr, x, sk, ck, ws, wc)
BY DEF View, Effect, Cite

\* (A name for it keeps the provers from taking a leg's part of a view for a formula.)
IsFalse(no) == no = FALSE

LEMMA ViewForgets ==
  ASSUME NEW s, NEW c, NEW sr, NEW cr, NEW sk, NEW ck, NEW ws, NEW wc,
         NEW no, IsFalse(no)
  PROVE  /\ Effect(View(s, c, sr, cr, sk, ck, ws, wc), Forget("server"))
              = View(s, c, sr, cr, no, ck, ws, wc)
         /\ Effect(View(s, c, sr, cr, sk, ck, ws, wc), Forget("client"))
              = View(s, c, sr, cr, sk, no, ws, wc)
BY DEF View, Effect, Forget, IsFalse

LEMMA ViewAsks ==
  ASSUME NEW s, NEW c, NEW sr, NEW cr, NEW sk, NEW ck, NEW ws, NEW wc, NEW x
  PROVE  /\ Effect(View(s, c, sr, cr, sk, ck, ws, wc), Ask("server", x))
              = View(s, c, sr, cr, sk, ck, Sent("server", ws, <<Req(x)>>), wc)
         /\ Effect(View(s, c, sr, cr, sk, ck, ws, wc), Ask("client", x))
              = View(s, c, sr, cr, sk, ck, ws, Sent("client", wc, <<Req(x)>>))
BY DEF View, Effect, Ask

LEMMA ViewReplies ==
  ASSUME NEW s, NEW c, NEW sr, NEW cr, NEW sk, NEW ck, NEW ws, NEW wc, NEW x
  PROVE  /\ Effect(View(s, c, sr, cr, sk, ck, ws, wc), Reply("server", x))
              = View(s, c, sr, cr, sk, ck, Sent("server", ws, <<Resp(x, sr)>>), wc)
         /\ Effect(View(s, c, sr, cr, sk, ck, ws, wc), Reply("client", x))
              = View(s, c, sr, cr, sk, ck, ws, Sent("client", wc, <<Resp(x, cr)>>))
BY DEF View, Effect, Reply

LEMMA NowIsView ==
  Now = View(server, client, serverReq, clientReq, serverKnown, clientKnown, toCaller, toCallee)
BY DEF Now, View

LEMMA NowIsShared ==
  ASSUME TypeOK
  PROVE  Now \in Shared
BY DEF Now, Shared, TypeOK, Legs

LEMMA NowAndThen ==
  ASSUME NEW s, NEW c, NEW sr, NEW cr, NEW sk, NEW ck, NEW ws, NEW wc,
         Completed' = View(s, c, sr, cr, sk, ck, ws, wc)
  PROVE  /\ thenServer' = s /\ thenClient' = c /\ thenServerReq' = sr /\ thenClientReq' = cr
         /\ thenServerKnown' = sk /\ thenClientKnown' = ck
         /\ thenToCaller' = ws /\ thenToCallee' = wc
BY ViewParts DEF thenServer, thenClient, thenServerReq, thenClientReq, thenServerKnown,
                 thenClientKnown, thenToCaller, thenToCallee

LEMMA ThenIsNow ==
  ASSUME Completed = Now
  PROVE  /\ thenServer = server /\ thenClient = client
         /\ thenServerReq = serverReq /\ thenClientReq = clientReq
         /\ thenServerKnown = serverKnown /\ thenClientKnown = clientKnown
         /\ thenToCaller = toCaller /\ thenToCallee = toCallee
BY DEF Now, thenServer, thenClient, thenServerReq, thenClientReq, thenServerKnown,
       thenClientKnown, thenToCaller, thenToCallee

-----------------------------------------------------------------------------
(* What is shared when the thread on its way has come to its end. *)

LEMMA SharedWhole ==
  ASSUME NEW m \in Shared
  PROVE  m = [state |-> m.state, req |-> m.req, known |-> m.known, wire |-> m.wire]
BY DEF Shared

LEMMA EndsThen ==
  ASSUME up' = up, bridged' = bridged, NEW a \in Points, NEW b, Ends(a, b)
  PROVE  Ends(a, b)'
<1>1. a.now \in Shared /\ a.ops \in Seq(Operation) /\ a = Point(a.now, a.ops)
  BY PointWhole
<1>2. up' = up \ {} /\ Disjoint({}, {}) /\ SharedKin({}, <<>>, {}, a.now, a.now)
  BY DEF Disjoint, SharedKin, WireKin
<1> DEFINE m == a.now
           ops == a.ops
<1>3. PICK c \in Points, d \in Points :
        Ends(Point(m, ops), c) /\ Ends(Point(m, ops), d)' /\ Kin({}, <<>>, {}, c, d)
  BY <1>1, <1>2, EndKin
<1>4. c.now \in Shared /\ d.now \in Shared /\ c = Point(c.now, c.ops) /\ d = Point(d.now, d.ops)
  BY PointWhole
<1>5. d.ops = c.ops /\ d.now.state = c.now.state /\ d.now.req = c.now.req
      /\ d.now.known = c.now.known /\ \A leg \in Legs : d.now.wire[leg] = c.now.wire[leg]
  BY <1>3 DEF Kin, SharedKin, WireKin
<1>6. d.now = c.now
  <2>1. d.now.wire = c.now.wire
    BY <1>4, <1>5 DEF Shared
  <2> QED BY <1>4, <1>5, <2>1, SharedWhole
<1>7. d = c
  BY <1>4, <1>5, <1>6
<1>8. Ends(a, c) /\ Ends(a, c)'
  BY <1>1, <1>3, <1>7
<1> QED BY <1>8, EndUnique

Plan == todo["server"] \o todo["client"]

LEMMA CompletedIs ==
  ASSUME NEW b, Ends(Point(Now, Plan), b)
  PROVE  Completed = b.now
<1>1. AtTheEnd(Now, Plan) = {b}
  BY DEF Ends, AtTheEnd
<1>2. (CHOOSE at \in {b} : TRUE) = b
  OBVIOUS
<1> QED BY <1>1, <1>2 DEF Completed, Plan

LEMMA CompletedThen ==
  ASSUME NEW b, NEW now, NEW plan, Now' = now, Plan' = plan, Ends(Point(now, plan), b)'
  PROVE  Completed' = b.now
<1>1. Ends(Point(Now, Plan), b)'
  BY DEF Ends, Point
<1>2. (AtTheEnd(Now, Plan) = {b})'
  BY <1>1 DEF Ends, AtTheEnd
<1>3. (CHOOSE at \in {b} : TRUE) = b
  OBVIOUS
<1> QED BY <1>2, <1>3 DEF Completed, Plan

LEMMA IdlePlan ==
  ASSUME todo["server"] = <<>>, todo["client"] = <<>>, TypeOK
  PROVE  Completed = Now
<1>1. Plan = <<>>
  BY EmptyPlan, EmptyParts DEF Plan
<1>2. Now \in Shared
  BY NowIsShared
<1>3. <<>> \in Short
  BY ShortSteps DEF Closed
<1>4. Ends(Point(Now, <<>>), Point(Now, <<>>))
  BY <1>2, <1>3, SetsOut, Arrives
<1> QED BY <1>1, <1>4, CompletedIs, PointParts


LEMMA ViewFinish ==
  ASSUME NEW s, NEW c, NEW sr, NEW cr, NEW sk, NEW ck, NEW ws, NEW wc,
         NEW no, IsFalse(no)
  PROVE  /\ AfterFinish(View(s, c, sr, cr, sk, ck, ws, wc), "server")
              = View("FINISH", c, sr, cr, no, ck, ws, wc)
         /\ AfterFinish(View(s, c, sr, cr, sk, ck, ws, wc), "client")
              = View(s, "FINISH", sr, cr, sk, no, ws, wc)
<1>1. /\ Effect(View(s, c, sr, cr, sk, ck, ws, wc), Forget("server"))
           = View(s, c, sr, cr, no, ck, ws, wc)
      /\ Effect(View(s, c, sr, cr, sk, ck, ws, wc), Forget("client"))
           = View(s, c, sr, cr, sk, no, ws, wc)
  BY ViewForgets
<1>2. Effect(View(s, c, sr, cr, no, ck, ws, wc), Become("server", "FINISH"))
        = View("FINISH", c, sr, cr, no, ck, ws, wc)
  BY ViewBecomes
<1>3. Effect(View(s, c, sr, cr, sk, no, ws, wc), Become("client", "FINISH"))
        = View(s, "FINISH", sr, cr, sk, no, ws, wc)
  BY ViewBecomes
<1> QED BY <1>1, <1>2, <1>3 DEF AfterFinish, Two

\* A leg takes a state and sends an answer, or a request of its own.
LEMMA ViewAnswers ==
  ASSUME NEW s, NEW c, NEW sr, NEW cr, NEW sk, NEW ck, NEW ws, NEW wc,
         NEW x, NEW code
  PROVE  Two(View(s, c, sr, cr, sk, ck, ws, wc), Become("server", x), Reply("server", code))
           = View(x, c, sr, cr, sk, ck, Sent("server", ws, <<Resp(code, sr)>>), wc)
<1>1. Effect(View(s, c, sr, cr, sk, ck, ws, wc), Become("server", x))
        = View(x, c, sr, cr, sk, ck, ws, wc)
  BY ViewBecomes
<1>2. Effect(View(x, c, sr, cr, sk, ck, ws, wc), Reply("server", code))
        = View(x, c, sr, cr, sk, ck, Sent("server", ws, <<Resp(code, sr)>>), wc)
  BY DEF View, Effect, Reply
<1> QED BY <1>1, <1>2 DEF Two

LEMMA ViewRequests ==
  ASSUME NEW s, NEW c, NEW sr, NEW cr, NEW sk, NEW ck, NEW ws, NEW wc,
         NEW x, NEW method
  PROVE  Two(View(s, c, sr, cr, sk, ck, ws, wc), Become("client", x), Ask("client", method))
           = View(s, x, sr, cr, sk, ck, ws, Sent("client", wc, <<Req(method)>>))
<1>1. Effect(View(s, c, sr, cr, sk, ck, ws, wc), Become("client", x))
        = View(s, x, sr, cr, sk, ck, ws, wc)
  BY ViewBecomes
<1>2. Effect(View(s, x, sr, cr, sk, ck, ws, wc), Ask("client", method))
        = View(s, x, sr, cr, sk, ck, ws, Sent("client", wc, <<Req(method)>>))
  BY DEF View, Effect, Ask
<1> QED BY <1>1, <1>2 DEF Two

LEMMA ViewRinging ==
  ASSUME NEW s, NEW c, NEW sr, NEW cr, NEW sk, NEW ck, NEW ws, NEW wc
  PROVE  AfterRinging(View(s, c, sr, cr, sk, ck, ws, wc)) =
           IF s = "TRYING"
           THEN View("RINGING", c, sr, cr, sk, ck, Sent("server", ws, <<Resp(180, sr)>>), wc)
           ELSE View(s, c, sr, cr, sk, ck, ws, wc)
<1> DEFINE v == View(s, c, sr, cr, sk, ck, ws, wc)
           w == View("RINGING", c, sr, cr, sk, ck, Sent("server", ws, <<Resp(180, sr)>>), wc)
<1>1. v.state["server"] = s
  BY ViewParts
<1>2. Two(v, Become("server", "RINGING"), Reply("server", 180)) = w
  BY ViewAnswers
<1> HIDE DEF v, w
<1>3. AfterRinging(v) = IF s = "TRYING" THEN w ELSE v
  BY <1>1, <1>2 DEF AfterRinging
<1> QED BY <1>3 DEF v, w

LEMMA ViewReject ==
  ASSUME NEW s, NEW c, NEW sr, NEW cr, NEW sk, NEW ck, NEW ws, NEW wc,
         NEW no, IsFalse(no)
  PROVE  AfterReject(View(s, c, sr, cr, sk, ck, ws, wc))
           = View("FINISH", c, sr, cr, no, ck, Sent("server", ws, <<Resp(486, sr)>>), wc)
<1> DEFINE x == View("BUSY", c, sr, cr, sk, ck, Sent("server", ws, <<Resp(486, sr)>>), wc)
<1>1. Two(View(s, c, sr, cr, sk, ck, ws, wc), Become("server", "BUSY"), Reply("server", 486)) = x
  BY ViewAnswers
<1>2. AfterFinish(x, "server")
        = View("FINISH", c, sr, cr, no, ck, Sent("server", ws, <<Resp(486, sr)>>), wc)
  BY ViewFinish
<1> HIDE DEF x
<1> QED BY <1>1, <1>2 DEF AfterReject

LEMMA ViewOk ==
  ASSUME NEW s, NEW c, NEW sr, NEW cr, NEW sk, NEW ck, NEW ws, NEW wc,
         NEW no, IsFalse(no)
  PROVE  /\ s \in {"BYE", "CANCELING"} => AfterOk(View(s, c, sr, cr, sk, ck, ws, wc)) =
              View("FINISH", c, sr, cr, no, ck, Sent("server", ws, <<Req("ACK")>>), wc)
         /\ s \in Waiting => AfterOk(View(s, c, sr, cr, sk, ck, ws, wc)) =
              View("OK", c, sr, cr, sk, ck, Sent("server", ws, <<Resp(200, sr)>>), wc)
         /\ s \notin Waiting \cup {"BYE", "CANCELING"} =>
              AfterOk(View(s, c, sr, cr, sk, ck, ws, wc)) = View("FAIL", c, sr, cr, sk, ck, ws,
                                                                 wc)
<1> DEFINE v == View(s, c, sr, cr, sk, ck, ws, wc)
           x == View(s, c, sr, cr, sk, ck, Sent("server", ws, <<Req("ACK")>>), wc)
           p == View("FINISH", c, sr, cr, no, ck, Sent("server", ws, <<Req("ACK")>>), wc)
           q == View("OK", c, sr, cr, sk, ck, Sent("server", ws, <<Resp(200, sr)>>), wc)
           r == View("FAIL", c, sr, cr, sk, ck, ws, wc)
<1>1. v.state["server"] = s
  BY ViewParts
<1>2. Effect(v, Ask("server", "ACK")) = x
  BY ViewAsks
<1>3. AfterFinish(x, "server") = p
  BY ViewFinish
<1>4. Two(v, Become("server", "OK"), Reply("server", 200)) = q
  BY ViewAnswers
<1>5. Effect(v, Become("server", "FAIL")) = r
  BY ViewBecomes
<1> HIDE DEF v, x, p, q, r
<1>6. AfterOk(v) = IF s \in {"BYE", "CANCELING"} THEN p ELSE IF s \in Waiting THEN q ELSE r
  BY <1>1, <1>2, <1>3, <1>4, <1>5 DEF AfterOk
<1>7. s \in Waiting => s \notin {"BYE", "CANCELING"}
  BY DEF Waiting
<1> QED BY <1>6, <1>7 DEF v, p, q, r

LEMMA ViewBye ==
  ASSUME NEW s, NEW c, NEW sr, NEW cr, NEW sk, NEW ck, NEW ws, NEW wc
  PROVE  /\ AfterBye(View(s, c, sr, cr, sk, ck, ws, wc), "server") =
              IF s = "CALLING"
              THEN View("BYE", c, "OWN", cr, sk, ck, Sent("server", ws, <<Req("BYE")>>), wc)
              ELSE View(s, c, sr, cr, sk, ck, ws, wc)
         /\ AfterBye(View(s, c, sr, cr, sk, ck, ws, wc), "client") =
              IF c = "CALLING"
              THEN View(s, "BYE", sr, "OWN", sk, ck, ws, Sent("client", wc, <<Req("BYE")>>))
              ELSE View(s, c, sr, cr, sk, ck, ws, wc)
<1> DEFINE v == View(s, c, sr, cr, sk, ck, ws, wc)
           p == View("BYE", c, "OWN", cr, sk, ck, Sent("server", ws, <<Req("BYE")>>), wc)
           q == View(s, "BYE", sr, "OWN", sk, ck, ws, Sent("client", wc, <<Req("BYE")>>))
<1>1. v.state["server"] = s /\ v.state["client"] = c
  BY ViewParts
<1>2. Three(v, Become("server", "BYE"), Cite("server", "OWN"), Ask("server", "BYE")) = p
  <2>1. Effect(v, Become("server", "BYE")) = View("BYE", c, sr, cr, sk, ck, ws, wc)
    BY ViewBecomes
  <2>2. Effect(View("BYE", c, sr, cr, sk, ck, ws, wc), Cite("server", "OWN"))
          = View("BYE", c, "OWN", cr, sk, ck, ws, wc)
    BY ViewCites
  <2>3. Effect(View("BYE", c, "OWN", cr, sk, ck, ws, wc), Ask("server", "BYE")) = p
    BY DEF View, Effect, Ask
  <2> HIDE DEF v, p
  <2> QED BY <2>1, <2>2, <2>3 DEF Three, Two
<1>3. Three(v, Become("client", "BYE"), Cite("client", "OWN"), Ask("client", "BYE")) = q
  <2>1. Effect(v, Become("client", "BYE")) = View(s, "BYE", sr, cr, sk, ck, ws, wc)
    BY ViewBecomes
  <2>2. Effect(View(s, "BYE", sr, cr, sk, ck, ws, wc), Cite("client", "OWN"))
          = View(s, "BYE", sr, "OWN", sk, ck, ws, wc)
    BY ViewCites
  <2>3. Effect(View(s, "BYE", sr, "OWN", sk, ck, ws, wc), Ask("client", "BYE")) = q
    BY DEF View, Effect, Ask
  <2> HIDE DEF v, q
  <2> QED BY <2>1, <2>2, <2>3 DEF Three, Two
<1> HIDE DEF v, p, q
<1>4. /\ AfterBye(v, "server") = IF s = "CALLING" THEN p ELSE v
      /\ AfterBye(v, "client") = IF c = "CALLING" THEN q ELSE v
  BY <1>1, <1>2, <1>3 DEF AfterBye
<1> QED BY <1>4 DEF v, p, q

LEMMA ViewCancel ==
  ASSUME NEW s, NEW c, NEW sr, NEW cr, NEW sk, NEW ck, NEW ws, NEW wc
  PROVE  AfterCancel(View(s, c, sr, cr, sk, ck, ws, wc))
           = View(s, "CANCELING", sr, cr, sk, ck, ws, Sent("client", wc, <<Req("CANCEL")>>))
BY ViewRequests DEF AfterCancel

-----------------------------------------------------------------------------
(* A thread that nobody interrupts serves a message as Call does. *)

Serving(thread, name) ==
  /\ todo["server"] = <<>> /\ todo["client"] = <<>>
  /\ todo'[thread] = <<Run(thread, name)>> /\ todo'[Other(thread)] = <<>>
  /\ UNCHANGED <<serverVars, clientVars, bridged, up>>

\* What the two legs are when the thread has come to its end.
Becoming(s, c, sr, cr, sk, ck, ws, wc) ==
  /\ thenServer = server /\ thenClient = client
  /\ thenServerReq = serverReq /\ thenClientReq = clientReq
  /\ thenServerKnown = serverKnown /\ thenClientKnown = clientKnown
  /\ thenToCaller = toCaller /\ thenToCallee = toCallee
  /\ thenServer' = s /\ thenClient' = c /\ thenServerReq' = sr /\ thenClientReq' = cr
  /\ thenServerKnown' = sk /\ thenClientKnown' = ck
  /\ thenToCaller' = ws /\ thenToCallee' = wc

LEMMA Served ==
  ASSUME TypeOK, NEW leg, NEW name, Serving(leg, name), Started(leg, name),
         NEW s, NEW c, NEW sr, NEW cr, NEW sk, NEW ck, NEW ws, NEW wc, NEW n,
         Results(Now, leg, name, n), n = View(s, c, sr, cr, sk, ck, ws, wc)
  PROVE  Becoming(s, c, sr, cr, sk, ck, ws, wc)
<1>1. Completed = Now
  BY IdlePlan DEF Serving
<1>2. leg \in Legs /\ name \in Methods
  BY Names DEF Started
<1> DEFINE plan == <<Run(leg, name)>>
<1>3. plan \in Seq(Operation)
  BY <1>2, Operations
<1>4. plan \o <<>> = plan /\ <<>> \o plan = plan
  BY <1>3, EmptyParts
<1> HIDE DEF plan
<1>5. \/ todo'["server"] = plan /\ todo'["client"] = <<>>
      \/ todo'["client"] = plan /\ todo'["server"] = <<>>
  BY <1>2 DEF Serving, Other, Legs, plan
<1>6. Plan' = plan
  BY <1>4, <1>5 DEF Plan
<1>7. PICK now : now = Now
  OBVIOUS
<1>8. Now' = now
  BY <1>7 DEF Serving, Now, serverVars, clientVars
<1>9. PICK a : a = Point(now, plan)
  OBVIOUS
<1>10. PICK b : b = Point(n, <<>>)
  OBVIOUS
<1>11. Ends(a, b) /\ a \in Points
  BY <1>3, <1>7, <1>9, <1>10, NowIsShared, PointParts DEF Results, Begins, plan
<1>12. up' = up /\ bridged' = bridged
  BY DEF Serving
<1>13. Ends(a, b)'
  BY <1>11, <1>12, EndsThen
<1>14. Completed' = b.now
  BY <1>6, <1>8, <1>9, <1>13, CompletedThen
<1>15. Completed' = View(s, c, sr, cr, sk, ck, ws, wc)
  BY <1>10, <1>14, PointParts
<1> QED BY <1>1, <1>15, ThenIsNow, NowAndThen DEF Becoming

\* The states that the methods test are those of the handlers.
LEMMA NowParts == Now.state["server"] = server /\ Now.state["client"] = client
BY DEF Now

LEMMA NowRinging ==
  /\ server = "TRYING" => AfterRinging(Now)
       = View("RINGING", client, serverReq, clientReq, serverKnown, clientKnown,
              Sent("server", toCaller, <<Resp(180, serverReq)>>), toCallee)
  /\ server # "TRYING" => AfterRinging(Now)
       = View(server, client, serverReq, clientReq, serverKnown, clientKnown, toCaller, toCallee)
<1>1. AfterRinging(View(server, client, serverReq, clientReq, serverKnown, clientKnown, toCaller,
                        toCallee)) =
        IF server = "TRYING"
        THEN View("RINGING", client, serverReq, clientReq, serverKnown, clientKnown,
                  Sent("server", toCaller, <<Resp(180, serverReq)>>), toCallee)
        ELSE View(server, client, serverReq, clientReq, serverKnown, clientKnown, toCaller,
                  toCallee)
  BY ViewRinging
<1> QED BY <1>1, NowIsView

LEMMA NowOk ==
  ASSUME NEW no, IsFalse(no)
  PROVE  /\ server \in {"BYE", "CANCELING"} => AfterOk(Now)
              = View("FINISH", client, serverReq, clientReq, no, clientKnown,
                     Sent("server", toCaller, <<Req("ACK")>>), toCallee)
         /\ server \in Waiting => AfterOk(Now)
              = View("OK", client, serverReq, clientReq, serverKnown, clientKnown,
                     Sent("server", toCaller, <<Resp(200, serverReq)>>), toCallee)
         /\ server \notin Waiting \cup {"BYE", "CANCELING"} => AfterOk(Now)
              = View("FAIL", client, serverReq, clientReq, serverKnown, clientKnown,
                     toCaller, toCallee)
BY NowIsView, ViewOk

LEMMA AckServed ==
  ASSUME TypeOK, Serving("server", "onACK"), NEW no, IsFalse(no)
  PROVE  /\ server = "OK" =>
              Becoming("CALLING", client, serverReq, clientReq, serverKnown, clientKnown,
                       toCaller, toCallee)
         /\ server \in {"BUSY", "BYE", "CANCELING"} =>
              Becoming("FINISH", client, serverReq, clientReq, no, clientKnown, toCaller,
                       toCallee)
         /\ server \notin {"OK", "BUSY", "BYE", "CANCELING"} =>
              Becoming(server, client, serverReq, clientReq, serverKnown, clientKnown, toCaller,
                       toCallee)
<1>1. PICK n : /\ Results(Now, "server", "onACK", n)
               /\ n = CASE Now.state["server"] = "OK" -> Effect(Now, Become("server", "CALLING"))
                        [] Now.state["server"] \in {"BUSY", "BYE", "CANCELING"} ->
                             AfterFinish(Now, "server")
                        [] OTHER -> Now
  BY NowIsShared, AckResults
<1>2. ASSUME server = "OK"
      PROVE  n = View("CALLING", client, serverReq, clientReq, serverKnown, clientKnown, toCaller,
                      toCallee)
  <2>1. n = Effect(Now, Become("server", "CALLING"))
    BY <1>1, <1>2, NowParts
  <2> QED BY <2>1, NowIsView, ViewBecomes
<1>3. ASSUME server \in {"BUSY", "BYE", "CANCELING"}
      PROVE  n = View("FINISH", client, serverReq, clientReq, no, clientKnown, toCaller, toCallee)
  <2>1. n = AfterFinish(Now, "server")
    BY <1>1, <1>3, NowParts
  <2> QED BY <2>1, NowIsView, ViewFinish
<1>4. ASSUME server \notin {"OK", "BUSY", "BYE", "CANCELING"}
      PROVE  n = View(server, client, serverReq, clientReq, serverKnown, clientKnown, toCaller,
                      toCallee)
  BY <1>1, <1>4, NowParts, NowIsView
<1> QED BY <1>1, <1>2, <1>3, <1>4, Served DEF Started

\* A leg takes the request over that it answers.
LEMMA ViewServerTakesOver ==
  ASSUME NEW s, NEW c, NEW sr, NEW cr, NEW sk, NEW ck, NEW ws, NEW wc,
         NEW r, NEW x, NEW code
  PROVE  Three(View(s, c, sr, cr, sk, ck, ws, wc), Cite("server", r), Become("server", x),
               Reply("server", code))
           = View(x, c, r, cr, sk, ck, Sent("server", ws, <<Resp(code, r)>>), wc)
<1>1. Effect(View(s, c, sr, cr, sk, ck, ws, wc), Cite("server", r))
        = View(s, c, r, cr, sk, ck, ws, wc)
  BY ViewCites
<1>2. Effect(View(s, c, r, cr, sk, ck, ws, wc), Become("server", x))
        = View(x, c, r, cr, sk, ck, ws, wc)
  BY ViewBecomes
<1>3. Effect(View(x, c, r, cr, sk, ck, ws, wc), Reply("server", code))
        = View(x, c, r, cr, sk, ck, Sent("server", ws, <<Resp(code, r)>>), wc)
  BY DEF View, Effect, Reply
<1> QED BY <1>1, <1>2, <1>3 DEF Three, Two

LEMMA ViewClientTakesOver ==
  ASSUME NEW s, NEW c, NEW sr, NEW cr, NEW sk, NEW ck, NEW ws, NEW wc,
         NEW r, NEW x, NEW code
  PROVE  Three(View(s, c, sr, cr, sk, ck, ws, wc), Cite("client", r), Become("client", x),
               Reply("client", code))
           = View(s, x, sr, r, sk, ck, ws, Sent("client", wc, <<Resp(code, r)>>))
<1>1. Effect(View(s, c, sr, cr, sk, ck, ws, wc), Cite("client", r))
        = View(s, c, sr, r, sk, ck, ws, wc)
  BY ViewCites
<1>2. Effect(View(s, c, sr, r, sk, ck, ws, wc), Become("client", x))
        = View(s, x, sr, r, sk, ck, ws, wc)
  BY ViewBecomes
<1>3. Effect(View(s, x, sr, r, sk, ck, ws, wc), Reply("client", code))
        = View(s, x, sr, r, sk, ck, ws, Sent("client", wc, <<Resp(code, r)>>))
  BY DEF View, Effect, Reply
<1> QED BY <1>1, <1>2, <1>3 DEF Three, Two

LEMMA CancelServed ==
  ASSUME TypeOK, Serving("server", "onCancel(request)")
  PROVE  /\ bridged =>
              Becoming("CANCELING", "CANCELING", "CANCEL", clientReq, serverKnown, clientKnown,
                       Sent("server", toCaller, <<Resp(200, "CANCEL")>>),
                       Sent("client", toCallee, <<Req("CANCEL")>>))
         /\ ~bridged =>
              Becoming("CANCELING", client, "CANCEL", clientReq, serverKnown, clientKnown,
                       Sent("server", toCaller, <<Resp(200, "CANCEL")>>), toCallee)
<1> DEFINE w == Sent("server", toCaller, <<Resp(200, "CANCEL")>>)
<1>1. PICK m, n : /\ Results(Now, "server", "onCancel(request)", n)
                  /\ m = Three(Now, Cite("server", "CANCEL"), Become("server", "CANCELING"),
                                    Reply("server", 200))
                  /\ n = IF bridged THEN AfterCancel(m) ELSE m
  BY NowIsShared, CancelResults
<1>2. m = View("CANCELING", client, "CANCEL", clientReq, serverKnown, clientKnown, w, toCallee)
  BY <1>1, NowIsView, ViewServerTakesOver
<1> HIDE DEF w
<1>3. ASSUME bridged
      PROVE  n = View("CANCELING", "CANCELING", "CANCEL", clientReq, serverKnown, clientKnown, w,
                      Sent("client", toCallee, <<Req("CANCEL")>>))
  <2>1. n = AfterCancel(m)
    BY <1>1, <1>3
  <2> QED BY <1>2, <2>1, ViewCancel
<1>4. ASSUME ~bridged
      PROVE  n = View("CANCELING", client, "CANCEL", clientReq, serverKnown, clientKnown, w,
                      toCallee)
  BY <1>1, <1>2, <1>4
<1> QED BY <1>1, <1>3, <1>4, Served DEF Started, w

LEMMA ByeServed ==
  ASSUME TypeOK, Serving("server", "onBye(request)")
  PROVE  /\ server # "CALLING" =>
              Becoming(server, client, serverReq, clientReq, serverKnown, clientKnown,
                       Sent("server", toCaller, <<Resp(400, serverReq)>>), toCallee)
         /\ server = "CALLING" /\ bridged /\ client = "CALLING" =>
              Becoming("BYE", "BYE", "BYE", "OWN", serverKnown, clientKnown,
                       Sent("server", toCaller, <<Resp(200, "BYE")>>),
                       Sent("client", toCallee, <<Req("BYE")>>))
         /\ server = "CALLING" /\ ~(bridged /\ client = "CALLING") =>
              Becoming("BYE", client, "BYE", clientReq, serverKnown, clientKnown,
                       Sent("server", toCaller, <<Resp(200, "BYE")>>), toCallee)
<1> DEFINE w == Sent("server", toCaller, <<Resp(200, "BYE")>>)
<1>1. PICK m, n :
        /\ Results(Now, "server", "onBye(request)", n)
        /\ m = Three(Now, Cite("server", "BYE"), Become("server", "BYE"), Reply("server", 200))
        /\ n = IF Now.state["server"] # "CALLING" THEN Effect(Now, Reply("server", 400))
               ELSE IF bridged THEN AfterBye(m, Other("server")) ELSE m
  BY NowIsShared, ByeResults DEF Legs
<1>2. m = View("BYE", client, "BYE", clientReq, serverKnown, clientKnown, w, toCallee)
  BY <1>1, NowIsView, ViewServerTakesOver
<1> HIDE DEF w
<1>3. ASSUME server # "CALLING"
      PROVE  n = View(server, client, serverReq, clientReq, serverKnown, clientKnown,
                      Sent("server", toCaller, <<Resp(400, serverReq)>>), toCallee)
  <2>1. n = Effect(Now, Reply("server", 400))
    BY <1>1, <1>3, NowParts
  <2> QED BY <2>1, NowIsView DEF View, Effect, Reply
<1>4. ASSUME server = "CALLING", bridged, client = "CALLING"
      PROVE  n = View("BYE", "BYE", "BYE", "OWN", serverKnown, clientKnown, w,
                      Sent("client", toCallee, <<Req("BYE")>>))
  <2>1. n = AfterBye(m, "client")
    BY <1>1, <1>4, NowParts DEF Other
  <2> QED BY <1>2, <1>4, <2>1, ViewBye
<1>5. ASSUME server = "CALLING", ~(bridged /\ client = "CALLING")
      PROVE  n = View("BYE", client, "BYE", clientReq, serverKnown, clientKnown, w, toCallee)
  <2>1. CASE bridged
    <3>1. n = AfterBye(m, "client")
      BY <1>1, <1>5, <2>1, NowParts DEF Other
    <3> QED BY <1>2, <1>5, <2>1, <3>1, ViewBye
  <2>2. CASE ~bridged
    BY <1>1, <1>2, <1>5, <2>2, NowParts
  <2> QED BY <2>1, <2>2
<1> QED BY <1>1, <1>3, <1>4, <1>5, Served DEF Started, w

LEMMA ByeServedByClient ==
  ASSUME TypeOK, Serving("client", "onBye(request)"), bridged
  PROVE  /\ client # "CALLING" =>
              Becoming(server, client, serverReq, clientReq, serverKnown, clientKnown, toCaller,
                       Sent("client", toCallee, <<Resp(400, clientReq)>>))
         /\ client = "CALLING" /\ server = "CALLING" =>
              Becoming("BYE", "BYE", "OWN", "BYE", serverKnown, clientKnown,
                       Sent("server", toCaller, <<Req("BYE")>>),
                       Sent("client", toCallee, <<Resp(200, "BYE")>>))
         /\ client = "CALLING" /\ server # "CALLING" =>
              Becoming(server, "BYE", serverReq, "BYE", serverKnown, clientKnown, toCaller,
                       Sent("client", toCallee, <<Resp(200, "BYE")>>))
<1> DEFINE w == Sent("client", toCallee, <<Resp(200, "BYE")>>)
<1>1. PICK m, n :
        /\ Results(Now, "client", "onBye(request)", n)
        /\ m = Three(Now, Cite("client", "BYE"), Become("client", "BYE"), Reply("client", 200))
        /\ n = IF Now.state["client"] # "CALLING" THEN Effect(Now, Reply("client", 400))
               ELSE IF bridged THEN AfterBye(m, Other("client")) ELSE m
  BY NowIsShared, ByeResults DEF Legs
<1>2. m = View(server, "BYE", serverReq, "BYE", serverKnown, clientKnown, toCaller, w)
  <2>1. Three(View(server, client, serverReq, clientReq, serverKnown, clientKnown, toCaller,
                   toCallee),
              Cite("client", "BYE"), Become("client", "BYE"), Reply("client", 200))
          = View(server, "BYE", serverReq, "BYE", serverKnown, clientKnown, toCaller, w)
    BY ViewClientTakesOver
  <2> HIDE DEF w
  <2> QED BY <1>1, <2>1, NowIsView
<1> HIDE DEF w
<1>3. ASSUME client # "CALLING"
      PROVE  n = View(server, client, serverReq, clientReq, serverKnown, clientKnown, toCaller,
                      Sent("client", toCallee, <<Resp(400, clientReq)>>))
  <2>1. n = Effect(Now, Reply("client", 400))
    BY <1>1, <1>3, NowParts
  <2> QED BY <2>1, NowIsView DEF View, Effect, Reply
<1>4. ASSUME client = "CALLING" PROVE n = AfterBye(m, "server")
  BY <1>1, <1>4, NowParts DEF Other
<1>5. ASSUME client = "CALLING", server = "CALLING"
      PROVE  n = View("BYE", "BYE", "OWN", "BYE", serverKnown, clientKnown,
                      Sent("server", toCaller, <<Req("BYE")>>), w)
  BY <1>2, <1>4, <1>5, ViewBye
<1>6. ASSUME client = "CALLING", server # "CALLING"
      PROVE  n = View(server, "BYE", serverReq, "BYE", serverKnown, clientKnown, toCaller, w)
  BY <1>2, <1>4, <1>6, ViewBye
<1> QED BY <1>1, <1>3, <1>5, <1>6, Served DEF Started, w

LEMMA OkServed ==
  ASSUME TypeOK, Serving("server", "onOk"), NEW no, IsFalse(no)
  PROVE  /\ server \in {"BYE", "CANCELING"} =>
              Becoming("FINISH", client, serverReq, clientReq, no, clientKnown,
                       Sent("server", toCaller, <<Req("ACK")>>), toCallee)
         /\ server \in Waiting =>
              Becoming("OK", client, serverReq, clientReq, serverKnown, clientKnown,
                       Sent("server", toCaller, <<Resp(200, serverReq)>>), toCallee)
         /\ server \notin Waiting \cup {"BYE", "CANCELING"} =>
              Becoming("FAIL", client, serverReq, clientReq, serverKnown, clientKnown, toCaller,
                       toCallee)
<1>1. PICK n : Results(Now, "server", "onOk", n) /\ n = AfterOk(Now)
  BY NowIsShared, ServerOkResults
<1>2. ASSUME server \in {"BYE", "CANCELING"}
      PROVE  n = View("FINISH", client, serverReq, clientReq, no, clientKnown,
                      Sent("server", toCaller, <<Req("ACK")>>), toCallee)
  BY <1>1, <1>2, NowOk
<1>3. ASSUME server \in Waiting
      PROVE  n = View("OK", client, serverReq, clientReq, serverKnown, clientKnown,
                      Sent("server", toCaller, <<Resp(200, serverReq)>>), toCallee)
  BY <1>1, <1>3, NowOk
<1>4. ASSUME server \notin Waiting \cup {"BYE", "CANCELING"}
      PROVE  n = View("FAIL", client, serverReq, clientReq, serverKnown, clientKnown, toCaller,
                      toCallee)
  BY <1>1, <1>4, NowOk
<1> QED BY <1>1, <1>2, <1>3, <1>4, Served DEF Started

LEMMA RejectServed ==
  ASSUME TypeOK, Serving("server", "onReject"), NEW no, IsFalse(no)
  PROVE  Becoming("FINISH", client, serverReq, clientReq, no, clientKnown,
                  Sent("server", toCaller, <<Resp(486, serverReq)>>), toCallee)
<1>1. PICK n : Results(Now, "server", "onReject", n) /\ n = AfterReject(Now)
  BY NowIsShared, ServerRejectResults
<1>2. n = View("FINISH", client, serverReq, clientReq, no, clientKnown,
               Sent("server", toCaller, <<Resp(486, serverReq)>>), toCallee)
  BY <1>1, NowIsView, ViewReject
<1> QED BY <1>1, <1>2, Served DEF Started

LEMMA RingingServed ==
  ASSUME TypeOK, Serving("client", "onRinging"), bridged
  PROVE  /\ client # "TRYING" =>
              Becoming(server, client, serverReq, clientReq, serverKnown, clientKnown, toCaller,
                       toCallee)
         /\ client = "TRYING" /\ server = "TRYING" =>
              Becoming("RINGING", "RINGING", serverReq, clientReq, serverKnown, clientKnown,
                       Sent("server", toCaller, <<Resp(180, serverReq)>>), toCallee)
         /\ client = "TRYING" /\ server # "TRYING" =>
              Becoming(server, "RINGING", serverReq, clientReq, serverKnown, clientKnown,
                       toCaller, toCallee)
<1>1. PICK n : /\ Results(Now, "client", "onRinging", n)
               /\ n = IF Now.state["client"] = "TRYING"
                      THEN Effect(AfterRinging(Now), Become("client", "RINGING"))
                      ELSE Now
  BY NowIsShared, RingingResults
<1>2. ASSUME client # "TRYING"
      PROVE  n = View(server, client, serverReq, clientReq, serverKnown, clientKnown, toCaller,
                      toCallee)
  BY <1>1, <1>2, NowParts, NowIsView
<1>3. ASSUME client = "TRYING"
      PROVE  n = Effect(AfterRinging(Now), Become("client", "RINGING"))
  BY <1>1, <1>3, NowParts
<1>4. ASSUME client = "TRYING", server = "TRYING"
      PROVE  n = View("RINGING", "RINGING", serverReq, clientReq, serverKnown, clientKnown,
                      Sent("server", toCaller, <<Resp(180, serverReq)>>), toCallee)
  <2>1. AfterRinging(Now) = View("RINGING", client, serverReq, clientReq, serverKnown,
                                 clientKnown, Sent("server", toCaller, <<Resp(180, serverReq)>>),
                                 toCallee)
    BY <1>4, NowRinging
  <2> QED BY <1>3, <1>4, <2>1, ViewBecomes
<1>5. ASSUME client = "TRYING", server # "TRYING"
      PROVE  n = View(server, "RINGING", serverReq, clientReq, serverKnown, clientKnown, toCaller,
                      toCallee)
  <2>1. AfterRinging(Now) = View(server, client, serverReq, clientReq, serverKnown, clientKnown,
                                 toCaller, toCallee)
    BY <1>5, NowRinging
  <2> QED BY <1>3, <1>5, <2>1, ViewBecomes
<1> QED BY <1>1, <1>2, <1>4, <1>5, Served DEF Started

LEMMA RejectServedByClient ==
  ASSUME TypeOK, Serving("client", "onReject"), bridged, NEW no, IsFalse(no)
  PROVE  Becoming("FINISH", "FINISH", serverReq, clientReq, no, no,
                  Sent("server", toCaller, <<Resp(486, serverReq)>>), toCallee)
<1> DEFINE w == Sent("server", toCaller, <<Resp(486, serverReq)>>)
<1>1. PICK m, n : /\ Results(Now, "client", "onReject", n)
                  /\ m = AfterReject(Effect(Now, Become("client", "BUSY")))
                  /\ n = AfterFinish(m, "client")
  BY NowIsShared, RejectResults
<1>2. Effect(Now, Become("client", "BUSY")) = View(server, "BUSY", serverReq, clientReq,
                                                   serverKnown, clientKnown, toCaller, toCallee)
  BY NowIsView, ViewBecomes
<1>3. m = View("FINISH", "BUSY", serverReq, clientReq, no, clientKnown, w, toCallee)
  BY <1>1, <1>2, ViewReject
<1> HIDE DEF w
<1>4. n = View("FINISH", "FINISH", serverReq, clientReq, no, no, w, toCallee)
  BY <1>1, <1>3, ViewFinish
<1> QED BY <1>1, <1>4, Served DEF Started, w

LEMMA OkServedByClient ==
  ASSUME TypeOK, Serving("client", "onOk"), bridged, NEW no, IsFalse(no)
  PROVE  /\ client = "BYE" /\ server = "CALLING" =>
              Becoming("BYE", "FINISH", "OWN", clientReq, serverKnown, no,
                       Sent("server", toCaller, <<Req("BYE")>>),
                       Sent("client", toCallee, <<Req("ACK")>>))
         /\ client = "CANCELING" \/ (client = "BYE" /\ server # "CALLING") =>
              Becoming(server, "FINISH", serverReq, clientReq, serverKnown, no, toCaller,
                       Sent("client", toCallee, <<Req("ACK")>>))
         /\ client \in Waiting /\ server \in {"BYE", "CANCELING"} =>
              Becoming("FINISH", "CALLING", serverReq, clientReq, no, clientKnown,
                       Sent("server", toCaller, <<Req("ACK")>>),
                       Sent("client", toCallee, <<Req("ACK")>>))
         /\ client \in Waiting /\ server \in Waiting =>
              Becoming("OK", "CALLING", serverReq, clientReq, serverKnown, clientKnown,
                       Sent("server", toCaller, <<Resp(200, serverReq)>>),
                       Sent("client", toCallee, <<Req("ACK")>>))
         /\ client \in Waiting /\ server \notin Waiting \cup {"BYE", "CANCELING"} =>
              Becoming("FAIL", "CALLING", serverReq, clientReq, serverKnown, clientKnown,
                       toCaller, Sent("client", toCallee, <<Req("ACK")>>))
         /\ client \notin Waiting \cup {"BYE", "CANCELING"} =>
              Becoming(server, "FINISH", serverReq, clientReq, serverKnown, no, toCaller,
                       toCallee)
<1> DEFINE w == Sent("client", toCallee, <<Req("ACK")>>)
<1>1. PICK n :
        /\ Results(Now, "client", "onOk", n)
        /\ n = IF Now.state["client"] = "BYE"
               THEN AfterFinish(Effect(AfterBye(Now, "server"), Ask("client", "ACK")), "client")
               ELSE IF Now.state["client"] = "CANCELING"
               THEN AfterFinish(Effect(Now, Ask("client", "ACK")), "client")
               ELSE IF Now.state["client"] \in Waiting
               THEN Two(AfterOk(Now), Become("client", "CALLING"), Ask("client", "ACK"))
               ELSE AfterFinish(Effect(Now, Become("client", "FAIL")), "client")
  BY NowIsShared, OkResults
<1>2. ASSUME client = "BYE", server = "CALLING"
      PROVE  n = View("BYE", "FINISH", "OWN", clientReq, serverKnown, no,
                      Sent("server", toCaller, <<Req("BYE")>>), w)
  <2>1. AfterBye(Now, "server") = View("BYE", client, "OWN", clientReq, serverKnown, clientKnown,
                                       Sent("server", toCaller, <<Req("BYE")>>), toCallee)
    BY <1>2, NowIsView, ViewBye
  <2> DEFINE x == Sent("server", toCaller, <<Req("BYE")>>)
  <2> HIDE DEF x
  <2>2. Effect(View("BYE", client, "OWN", clientReq, serverKnown, clientKnown, x, toCallee),
               Ask("client", "ACK"))
          = View("BYE", client, "OWN", clientReq, serverKnown, clientKnown, x, w)
    BY ViewAsks
  <2> HIDE DEF w
  <2>3. n = AfterFinish(Effect(AfterBye(Now, "server"), Ask("client", "ACK")), "client")
    BY <1>1, <1>2, NowParts
  <2>4. n = AfterFinish(View("BYE", client, "OWN", clientReq, serverKnown, clientKnown, x, w),
                        "client")
    BY <2>1, <2>2, <2>3 DEF x
  <2>5. n = View("BYE", "FINISH", "OWN", clientReq, serverKnown, no, x, w)
    BY <2>4, ViewFinish
  <2> QED BY <2>5 DEF x
<1>3. ASSUME client = "CANCELING" \/ (client = "BYE" /\ server # "CALLING")
      PROVE  n = View(server, "FINISH", serverReq, clientReq, serverKnown, no, toCaller, w)
  <2>1. Effect(Now, Ask("client", "ACK")) = View(server, client, serverReq, clientReq,
                                                 serverKnown, clientKnown, toCaller, w)
    BY NowIsView, ViewAsks
  <2> HIDE DEF w
  <2>2. n = AfterFinish(Effect(Now, Ask("client", "ACK")), "client")
    <3>1. CASE client = "CANCELING"
      BY <1>1, <3>1, NowParts
    <3>2. CASE client = "BYE" /\ server # "CALLING"
      <4>1. AfterBye(Now, "server") = Now
        BY <3>2, NowParts DEF AfterBye
      <4> QED BY <1>1, <3>2, <4>1, NowParts
    <3> QED BY <1>3, <3>1, <3>2
  <2>3. n = AfterFinish(View(server, client, serverReq, clientReq, serverKnown, clientKnown,
                             toCaller, w), "client")
    BY <2>1, <2>2
  <2> QED BY <2>3, ViewFinish
<1>4. ASSUME client \in Waiting
      PROVE  n = Two(AfterOk(Now), Become("client", "CALLING"), Ask("client", "ACK"))
  BY <1>1, <1>4, NowParts DEF Waiting
<1>5. ASSUME client \in Waiting, server \in {"BYE", "CANCELING"}
      PROVE  n = View("FINISH", "CALLING", serverReq, clientReq, no, clientKnown,
                      Sent("server", toCaller, <<Req("ACK")>>), w)
  <2>1. AfterOk(Now) = View("FINISH", client, serverReq, clientReq, no, clientKnown,
                            Sent("server", toCaller, <<Req("ACK")>>), toCallee)
    BY <1>5, NowOk
  <2> QED BY <1>4, <1>5, <2>1, ViewRequests
<1>6. ASSUME client \in Waiting, server \in Waiting
      PROVE  n = View("OK", "CALLING", serverReq, clientReq, serverKnown, clientKnown,
                      Sent("server", toCaller, <<Resp(200, serverReq)>>), w)
  <2>1. AfterOk(Now) = View("OK", client, serverReq, clientReq, serverKnown, clientKnown,
                            Sent("server", toCaller, <<Resp(200, serverReq)>>), toCallee)
    BY <1>6, NowOk
  <2> QED BY <1>4, <1>6, <2>1, ViewRequests
<1>7. ASSUME client \in Waiting, server \notin Waiting \cup {"BYE", "CANCELING"}
      PROVE  n = View("FAIL", "CALLING", serverReq, clientReq, serverKnown, clientKnown, toCaller,
                      w)
  <2>1. AfterOk(Now) = View("FAIL", client, serverReq, clientReq, serverKnown, clientKnown,
                            toCaller, toCallee)
    BY <1>7, NowOk
  <2> QED BY <1>4, <1>7, <2>1, ViewRequests
<1>8. ASSUME client \notin Waiting \cup {"BYE", "CANCELING"}
      PROVE  n = View(server, "FINISH", serverReq, clientReq, serverKnown, no, toCaller, toCallee)
  <2>1. Effect(Now, Become("client", "FAIL")) = View(server, "FAIL", serverReq, clientReq,
                                                     serverKnown, clientKnown, toCaller, toCallee)
    BY NowIsView, ViewBecomes
  <2>2. n = AfterFinish(Effect(Now, Become("client", "FAIL")), "client")
    BY <1>1, <1>8, NowParts
  <2> QED BY <2>1, <2>2, ViewFinish
<1> HIDE DEF w
<1>9. /\ client = "BYE" /\ server = "CALLING" =>
           Becoming("BYE", "FINISH", "OWN", clientReq, serverKnown, no,
                    Sent("server", toCaller, <<Req("BYE")>>), w)
      /\ client = "CANCELING" \/ (client = "BYE" /\ server # "CALLING") =>
           Becoming(server, "FINISH", serverReq, clientReq, serverKnown, no, toCaller, w)
  BY <1>1, <1>2, <1>3, Served DEF Started
<1>10. /\ client \in Waiting /\ server \in {"BYE", "CANCELING"} =>
            Becoming("FINISH", "CALLING", serverReq, clientReq, no, clientKnown,
                     Sent("server", toCaller, <<Req("ACK")>>), w)
       /\ client \in Waiting /\ server \in Waiting =>
            Becoming("OK", "CALLING", serverReq, clientReq, serverKnown, clientKnown,
                     Sent("server", toCaller, <<Resp(200, serverReq)>>), w)
  BY <1>1, <1>5, <1>6, Served DEF Started
<1>11. /\ client \in Waiting /\ server \notin Waiting \cup {"BYE", "CANCELING"} =>
            Becoming("FAIL", "CALLING", serverReq, clientReq, serverKnown, clientKnown, toCaller,
                     w)
       /\ client \notin Waiting \cup {"BYE", "CANCELING"} =>
            Becoming(server, "FINISH", serverReq, clientReq, serverKnown, no, toCaller, toCallee)
  BY <1>1, <1>7, <1>8, Served DEF Started
<1> QED BY <1>9, <1>10, <1>11 DEF w

-----------------------------------------------------------------------------
(* What the legs become, in the terms of Call. *)

LEMMA SerialSent ==
  ASSUME NEW leg, NEW wire, NEW messages
  PROVE  Serial!Sent(leg, wire, messages) = Sent(leg, wire, messages)
BY DEF Serial!Sent, Sent

LEMMA NothingSent ==
  ASSUME NEW leg, NEW wire \in Seq(Message)
  PROVE  Sent(leg, wire, <<>>) = wire
BY EmptyParts DEF Sent

LEMMA SerialServer ==
  ASSUME NEW s, NEW c, NEW sr, NEW cr, NEW sk, NEW ck, NEW wc, NEW ms,
         Becoming(s, c, sr, cr, sk, ck, Sent("server", toCaller, ms), wc)
  PROVE  Serial!ServerBecomes(s, sr, sk, ms)
<1>1. Serial!Sent("server", thenToCaller, ms) = Sent("server", toCaller, ms)
  BY SerialSent DEF Becoming
<1> QED BY <1>1 DEF Becoming, Serial!ServerBecomes

LEMMA SerialServerQuietly ==
  ASSUME TypeOK, NEW s, NEW c, NEW sr, NEW cr, NEW sk, NEW ck, NEW wc,
         Becoming(s, c, sr, cr, sk, ck, toCaller, wc)
  PROVE  Serial!ServerBecomes(s, sr, sk, <<>>)
<1>1. Sent("server", toCaller, <<>>) = toCaller
  BY NothingSent DEF TypeOK
<1> QED BY <1>1, SerialServer

LEMMA SerialClient ==
  ASSUME NEW s, NEW c, NEW sr, NEW cr, NEW sk, NEW ck, NEW ws, NEW ms,
         Becoming(s, c, sr, cr, sk, ck, ws, Sent("client", toCallee, ms))
  PROVE  Serial!ClientBecomes(c, cr, ck, ms)
<1>1. Serial!Sent("client", thenToCallee, ms) = Sent("client", toCallee, ms)
  BY SerialSent DEF Becoming
<1> QED BY <1>1 DEF Becoming, Serial!ClientBecomes

LEMMA SerialClientQuietly ==
  ASSUME TypeOK, NEW s, NEW c, NEW sr, NEW cr, NEW sk, NEW ck, NEW ws,
         Becoming(s, c, sr, cr, sk, ck, ws, toCallee)
  PROVE  Serial!ClientBecomes(c, cr, ck, <<>>)
<1>1. Sent("client", toCallee, <<>>) = toCallee
  BY NothingSent DEF TypeOK
<1> QED BY <1>1, SerialClient

LEMMA SerialServerRests ==
  ASSUME NEW c, NEW cr, NEW ck, NEW wc,
         Becoming(server, c, serverReq, cr, serverKnown, ck, toCaller, wc)
  PROVE  UNCHANGED Serial!serverVars
BY DEF Becoming, Serial!serverVars

LEMMA SerialClientRests ==
  ASSUME NEW s, NEW sr, NEW sk, NEW ws,
         Becoming(s, client, sr, clientReq, sk, clientKnown, ws, toCallee)
  PROVE  UNCHANGED Serial!clientVars
BY DEF Becoming, Serial!clientVars

\* What the legs are before the message is served.
Beforehand ==
  /\ thenServer = server /\ thenClient = client
  /\ thenServerReq = serverReq /\ thenClientReq = clientReq
  /\ thenServerKnown = serverKnown /\ thenClientKnown = clientKnown

LEMMA Starts ==
  ASSUME NEW s, NEW c, NEW sr, NEW cr, NEW sk, NEW ck, NEW ws, NEW wc,
         Becoming(s, c, sr, cr, sk, ck, ws, wc)
  PROVE  Beforehand
BY DEF Becoming, Beforehand

-----------------------------------------------------------------------------
(* Each method, run to its end, is what Call says it is. *)

LEMMA IsSerialAck ==
  ASSUME TypeOK, Serving("server", "onACK")
  PROVE  /\ Beforehand
         /\ Serial!ServerOnAck /\ UNCHANGED Serial!clientVars
<1>1. PICK no : IsFalse(no)
  BY DEF IsFalse
<1>2. no = FALSE
  BY <1>1 DEF IsFalse
<1>3. CASE server = "OK"
  <2>1. Becoming("CALLING", client, serverReq, clientReq, serverKnown, clientKnown, toCaller,
                 toCallee)
    BY <1>1, <1>3, AckServed
  <2>2. Beforehand /\ UNCHANGED Serial!clientVars
    BY <2>1, Starts, SerialClientRests
  <2>3. Serial!ServerBecomes("CALLING", serverReq, serverKnown, <<>>)
    BY <2>1, SerialServerQuietly
  <2> QED BY <1>3, <2>2, <2>3 DEF Beforehand, Serial!ServerOnAck
<1>4. CASE server \in {"BUSY", "BYE", "CANCELING"}
  <2>1. Becoming("FINISH", client, serverReq, clientReq, no, clientKnown, toCaller, toCallee)
    BY <1>1, <1>4, AckServed
  <2>2. Beforehand /\ UNCHANGED Serial!clientVars
    BY <2>1, Starts, SerialClientRests
  <2>3. Serial!ServerBecomes("FINISH", serverReq, no, <<>>)
    BY <2>1, SerialServerQuietly
  <2> QED BY <1>2, <1>4, <2>2, <2>3 DEF Beforehand, Serial!ServerOnAck
<1>5. CASE server \notin {"OK", "BUSY", "BYE", "CANCELING"}
  <2>1. Becoming(server, client, serverReq, clientReq, serverKnown, clientKnown, toCaller,
                 toCallee)
    BY <1>1, <1>5, AckServed
  <2>2. Beforehand /\ UNCHANGED Serial!clientVars /\ UNCHANGED Serial!serverVars
    BY <2>1, Starts, SerialClientRests, SerialServerRests
  <2> QED BY <1>5, <2>2 DEF Beforehand, Serial!ServerOnAck
<1> QED BY <1>3, <1>4, <1>5

LEMMA IsSerialCancel ==
  ASSUME TypeOK, Serving("server", "onCancel(request)")
  PROVE  /\ Beforehand
         /\ Serial!ServerBecomes("CANCELING", "CANCEL", serverKnown, <<Resp(200, "CANCEL")>>)
         /\ Serial!OnClientLeg(Serial!ClientOnCancel)
<1>1. CASE bridged
  <2>1. Becoming("CANCELING", "CANCELING", "CANCEL", clientReq, serverKnown, clientKnown,
                 Sent("server", toCaller, <<Resp(200, "CANCEL")>>),
                 Sent("client", toCallee, <<Req("CANCEL")>>))
    BY <1>1, CancelServed
  <2>2. /\ Beforehand
        /\ Serial!ServerBecomes("CANCELING", "CANCEL", serverKnown, <<Resp(200, "CANCEL")>>)
        /\ Serial!ClientBecomes("CANCELING", clientReq, clientKnown, <<Req("CANCEL")>>)
    BY <2>1, Starts, SerialServer, SerialClient
  <2> QED BY <1>1, <2>2 DEF Beforehand, Serial!OnClientLeg, Serial!ClientOnCancel, Serial!Req, Req
<1>2. CASE ~bridged
  <2>1. Becoming("CANCELING", client, "CANCEL", clientReq, serverKnown, clientKnown,
                 Sent("server", toCaller, <<Resp(200, "CANCEL")>>), toCallee)
    BY <1>2, CancelServed
  <2>2. /\ Beforehand
        /\ Serial!ServerBecomes("CANCELING", "CANCEL", serverKnown, <<Resp(200, "CANCEL")>>)
        /\ UNCHANGED Serial!clientVars
    BY <2>1, Starts, SerialServer, SerialClientRests
  <2> QED BY <1>2, <2>2 DEF Serial!OnClientLeg
<1> QED BY <1>1, <1>2

LEMMA IsSerialBye ==
  ASSUME TypeOK, Serving("server", "onBye(request)")
  PROVE  /\ Beforehand
         /\ IF server = "CALLING"
            THEN /\ Serial!ServerBecomes("BYE", "BYE", serverKnown, <<Resp(200, "BYE")>>)
                 /\ Serial!OnClientLeg(Serial!ClientHangUp)
            ELSE /\ Serial!ServerBecomes(server, serverReq, serverKnown, <<Resp(400, serverReq)>>)
                 /\ UNCHANGED Serial!clientVars
<1>1. CASE server # "CALLING"
  <2>1. Becoming(server, client, serverReq, clientReq, serverKnown, clientKnown,
                 Sent("server", toCaller, <<Resp(400, serverReq)>>), toCallee)
    BY <1>1, ByeServed
  <2>2. /\ Beforehand
        /\ Serial!ServerBecomes(server, serverReq, serverKnown, <<Resp(400, serverReq)>>)
        /\ UNCHANGED Serial!clientVars
    BY <2>1, Starts, SerialServer, SerialClientRests
  <2> QED BY <1>1, <2>2
<1>2. CASE server = "CALLING" /\ bridged /\ client = "CALLING"
  <2>1. Becoming("BYE", "BYE", "BYE", "OWN", serverKnown, clientKnown,
                 Sent("server", toCaller, <<Resp(200, "BYE")>>),
                 Sent("client", toCallee, <<Req("BYE")>>))
    BY <1>2, ByeServed
  <2>2. /\ Beforehand
        /\ Serial!ServerBecomes("BYE", "BYE", serverKnown, <<Resp(200, "BYE")>>)
        /\ Serial!ClientBecomes("BYE", "OWN", clientKnown, <<Req("BYE")>>)
    BY <2>1, Starts, SerialServer, SerialClient
  <2> QED BY <1>2, <2>2 DEF Beforehand, Serial!OnClientLeg, Serial!ClientHangUp, Serial!Req, Req
<1>3. CASE server = "CALLING" /\ ~(bridged /\ client = "CALLING")
  <2>1. Becoming("BYE", client, "BYE", clientReq, serverKnown, clientKnown,
                 Sent("server", toCaller, <<Resp(200, "BYE")>>), toCallee)
    BY <1>3, ByeServed
  <2>2. /\ Beforehand
        /\ Serial!ServerBecomes("BYE", "BYE", serverKnown, <<Resp(200, "BYE")>>)
        /\ UNCHANGED Serial!clientVars
    BY <2>1, Starts, SerialServer, SerialClientRests
  <2> QED BY <1>3, <2>2 DEF Beforehand, Serial!OnClientLeg, Serial!ClientHangUp
<1> QED BY <1>1, <1>2, <1>3

\* onOk() of the server leg, called by either thread.
LEMMA SerialServerOk ==
  ASSUME TypeOK, NEW c, NEW cr, NEW ck, NEW wc, NEW no, IsFalse(no),
         /\ server \in {"BYE", "CANCELING"} =>
              Becoming("FINISH", c, serverReq, cr, no, ck,
                       Sent("server", toCaller, <<Req("ACK")>>), wc)
         /\ server \in Waiting =>
              Becoming("OK", c, serverReq, cr, serverKnown, ck,
                       Sent("server", toCaller, <<Resp(200, serverReq)>>), wc)
         /\ server \notin Waiting \cup {"BYE", "CANCELING"} =>
              Becoming("FAIL", c, serverReq, cr, serverKnown, ck, toCaller, wc)
  PROVE  Beforehand /\ Serial!ServerOnOk
<1>1. no = FALSE
  BY DEF IsFalse
<1>2. CASE server \in {"BYE", "CANCELING"}
  <2>1. Beforehand /\ Serial!ServerBecomes("FINISH", serverReq, no, <<Req("ACK")>>)
    BY <1>2, Starts, SerialServer
  <2> QED BY <1>1, <1>2, <2>1 DEF Beforehand, Serial!ServerOnOk, Serial!Waiting, Serial!Req, Req
<1>3. CASE server \in Waiting
  <2>1. Beforehand /\ Serial!ServerBecomes("OK", serverReq, serverKnown, <<Resp(200, serverReq)>>)
    BY <1>3, Starts, SerialServer
  <2> QED BY <1>3, <2>1 DEF Beforehand, Serial!ServerOnOk, Waiting, Serial!Waiting, Serial!Resp, Resp
<1>4. CASE server \notin Waiting \cup {"BYE", "CANCELING"}
  <2>1. Beforehand /\ Serial!ServerBecomes("FAIL", serverReq, serverKnown, <<>>)
    BY <1>4, Starts, SerialServerQuietly
  <2> QED BY <1>4, <2>1 DEF Beforehand, Serial!ServerOnOk, Waiting, Serial!Waiting
<1> QED BY <1>2, <1>3, <1>4

LEMMA IsSerialOk ==
  ASSUME TypeOK, Serving("server", "onOk")
  PROVE  Beforehand /\ Serial!ServerOnOk /\ UNCHANGED Serial!clientVars
<1>1. PICK no : IsFalse(no)
  BY DEF IsFalse
<1>2. /\ server \in {"BYE", "CANCELING"} =>
           Becoming("FINISH", client, serverReq, clientReq, no, clientKnown,
                    Sent("server", toCaller, <<Req("ACK")>>), toCallee)
      /\ server \in Waiting =>
           Becoming("OK", client, serverReq, clientReq, serverKnown, clientKnown,
                    Sent("server", toCaller, <<Resp(200, serverReq)>>), toCallee)
      /\ server \notin Waiting \cup {"BYE", "CANCELING"} =>
           Becoming("FAIL", client, serverReq, clientReq, serverKnown, clientKnown,
                    toCaller, toCallee)
  BY <1>1, OkServed
<1>3. Beforehand /\ Serial!ServerOnOk
  BY <1>1, <1>2, SerialServerOk
<1>4. UNCHANGED Serial!clientVars
  BY <1>2, SerialClientRests
<1> QED BY <1>3, <1>4

LEMMA IsSerialReject ==
  ASSUME TypeOK, Serving("server", "onReject")
  PROVE  Beforehand /\ Serial!ServerOnReject /\ UNCHANGED Serial!clientVars
<1>1. PICK no : IsFalse(no)
  BY DEF IsFalse
<1>2. no = FALSE
  BY <1>1 DEF IsFalse
<1>3. Becoming("FINISH", client, serverReq, clientReq, no, clientKnown,
               Sent("server", toCaller, <<Resp(486, serverReq)>>), toCallee)
  BY <1>1, RejectServed
<1>4. /\ Beforehand
      /\ Serial!ServerBecomes("FINISH", serverReq, no, <<Resp(486, serverReq)>>)
      /\ UNCHANGED Serial!clientVars
  BY <1>3, Starts, SerialServer, SerialClientRests
<1> QED BY <1>2, <1>4 DEF Beforehand, Serial!ServerOnReject, Serial!Resp, Resp

LEMMA IsSerialRinging ==
  ASSUME TypeOK, Serving("client", "onRinging"), bridged
  PROVE  /\ Beforehand
         /\ IF client = "TRYING"
            THEN /\ Serial!OnServerLeg(Serial!ServerOnRinging)
                 /\ Serial!ClientBecomes("RINGING", clientReq, clientKnown, <<>>)
            ELSE UNCHANGED <<Serial!serverVars, Serial!clientVars>>
<1>1. CASE client # "TRYING"
  <2>1. Becoming(server, client, serverReq, clientReq, serverKnown, clientKnown, toCaller,
                 toCallee)
    BY <1>1, RingingServed
  <2>2. Beforehand /\ UNCHANGED Serial!serverVars /\ UNCHANGED Serial!clientVars
    BY <2>1, Starts, SerialServerRests, SerialClientRests
  <2> QED BY <1>1, <2>2
<1>2. CASE client = "TRYING" /\ server = "TRYING"
  <2>1. Becoming("RINGING", "RINGING", serverReq, clientReq, serverKnown, clientKnown,
                 Sent("server", toCaller, <<Resp(180, serverReq)>>), toCallee)
    BY <1>2, RingingServed
  <2>2. /\ Beforehand
        /\ Serial!ServerBecomes("RINGING", serverReq, serverKnown, <<Resp(180, serverReq)>>)
        /\ Serial!ClientBecomes("RINGING", clientReq, clientKnown, <<>>)
    BY <2>1, Starts, SerialServer, SerialClientQuietly
  <2> QED BY <1>2, <2>2
          DEF Beforehand, Serial!OnServerLeg, Serial!ServerOnRinging, Serial!Resp, Resp
<1>3. CASE client = "TRYING" /\ server # "TRYING"
  <2>1. Becoming(server, "RINGING", serverReq, clientReq, serverKnown, clientKnown, toCaller,
                 toCallee)
    BY <1>3, RingingServed
  <2>2. /\ Beforehand /\ UNCHANGED Serial!serverVars
        /\ Serial!ClientBecomes("RINGING", clientReq, clientKnown, <<>>)
    BY <2>1, Starts, SerialServerRests, SerialClientQuietly
  <2> QED BY <1>3, <2>2 DEF Beforehand, Serial!OnServerLeg, Serial!ServerOnRinging
<1> QED BY <1>1, <1>2, <1>3

LEMMA IsSerialRejectByCallee ==
  ASSUME TypeOK, Serving("client", "onReject"), bridged
  PROVE  /\ Beforehand
         /\ Serial!OnServerLeg(Serial!ServerOnReject)
         /\ Serial!ClientBecomes("FINISH", clientReq, FALSE, <<>>)
<1>1. PICK no : IsFalse(no)
  BY DEF IsFalse
<1>2. no = FALSE
  BY <1>1 DEF IsFalse
<1>3. Becoming("FINISH", "FINISH", serverReq, clientReq, no, no,
               Sent("server", toCaller, <<Resp(486, serverReq)>>), toCallee)
  BY <1>1, RejectServedByClient
<1>4. /\ Beforehand
      /\ Serial!ServerBecomes("FINISH", serverReq, no, <<Resp(486, serverReq)>>)
      /\ Serial!ClientBecomes("FINISH", clientReq, no, <<>>)
  BY <1>3, Starts, SerialServer, SerialClientQuietly
<1> QED BY <1>2, <1>4
        DEF Beforehand, Serial!OnServerLeg, Serial!ServerOnReject, Serial!Resp, Resp

LEMMA IsSerialByeByCallee ==
  ASSUME TypeOK, Serving("client", "onBye(request)"), bridged
  PROVE  /\ Beforehand
         /\ IF client = "CALLING"
            THEN /\ Serial!ClientBecomes("BYE", "BYE", clientKnown, <<Resp(200, "BYE")>>)
                 /\ Serial!OnServerLeg(Serial!ServerHangUp)
            ELSE /\ Serial!ClientBecomes(client, clientReq, clientKnown, <<Resp(400, clientReq)>>)
                 /\ UNCHANGED Serial!serverVars
<1>1. CASE client # "CALLING"
  <2>1. Becoming(server, client, serverReq, clientReq, serverKnown, clientKnown, toCaller,
                 Sent("client", toCallee, <<Resp(400, clientReq)>>))
    BY <1>1, ByeServedByClient
  <2>2. /\ Beforehand
        /\ Serial!ClientBecomes(client, clientReq, clientKnown, <<Resp(400, clientReq)>>)
        /\ UNCHANGED Serial!serverVars
    BY <2>1, Starts, SerialClient, SerialServerRests
  <2> QED BY <1>1, <2>2
<1>2. CASE client = "CALLING" /\ server = "CALLING"
  <2>1. Becoming("BYE", "BYE", "OWN", "BYE", serverKnown, clientKnown,
                 Sent("server", toCaller, <<Req("BYE")>>),
                 Sent("client", toCallee, <<Resp(200, "BYE")>>))
    BY <1>2, ByeServedByClient
  <2>2. /\ Beforehand
        /\ Serial!ServerBecomes("BYE", "OWN", serverKnown, <<Req("BYE")>>)
        /\ Serial!ClientBecomes("BYE", "BYE", clientKnown, <<Resp(200, "BYE")>>)
    BY <2>1, Starts, SerialServer, SerialClient
  <2> QED BY <1>2, <2>2 DEF Beforehand, Serial!OnServerLeg, Serial!ServerHangUp, Serial!Req, Req
<1>3. CASE client = "CALLING" /\ server # "CALLING"
  <2>1. Becoming(server, "BYE", serverReq, "BYE", serverKnown, clientKnown, toCaller,
                 Sent("client", toCallee, <<Resp(200, "BYE")>>))
    BY <1>3, ByeServedByClient
  <2>2. /\ Beforehand /\ UNCHANGED Serial!serverVars
        /\ Serial!ClientBecomes("BYE", "BYE", clientKnown, <<Resp(200, "BYE")>>)
    BY <2>1, Starts, SerialServerRests, SerialClient
  <2> QED BY <1>3, <2>2 DEF Beforehand, Serial!OnServerLeg, Serial!ServerHangUp
<1> QED BY <1>1, <1>2, <1>3

\* onOk() of the client leg: the four cases that Call has an action for.
LEMMA IsSerialOkByCallee ==
  ASSUME TypeOK, Serving("client", "onOk"), bridged
  PROVE  /\ Beforehand
         /\ client \in Waiting =>
              /\ Serial!OnServerLeg(Serial!ServerOnOk)
              /\ Serial!ClientBecomes("CALLING", clientReq, clientKnown, <<Req("ACK")>>)
         /\ client = "BYE" =>
              /\ Serial!OnServerLeg(Serial!ServerHangUp)
              /\ Serial!ClientBecomes("FINISH", clientReq, FALSE, <<Req("ACK")>>)
         /\ client = "CANCELING" =>
              /\ UNCHANGED Serial!serverVars
              /\ Serial!ClientBecomes("FINISH", clientReq, FALSE, <<Req("ACK")>>)
         /\ client \notin Waiting \cup {"BYE", "CANCELING"} =>
              /\ UNCHANGED Serial!serverVars
              /\ Serial!ClientBecomes("FINISH", clientReq, FALSE, <<>>)
<1>1. PICK no : IsFalse(no)
  BY DEF IsFalse
<1>2. no = FALSE
  BY <1>1 DEF IsFalse
<1>3. PICK w : w = Sent("client", toCallee, <<Req("ACK")>>)
  OBVIOUS
<1>4. ASSUME client \in Waiting
      PROVE  /\ Beforehand /\ Serial!OnServerLeg(Serial!ServerOnOk)
             /\ Serial!ClientBecomes("CALLING", clientReq, clientKnown, <<Req("ACK")>>)
  <2>1. /\ server \in {"BYE", "CANCELING"} =>
             Becoming("FINISH", "CALLING", serverReq, clientReq, no, clientKnown,
                      Sent("server", toCaller, <<Req("ACK")>>), w)
        /\ server \in Waiting =>
             Becoming("OK", "CALLING", serverReq, clientReq, serverKnown, clientKnown,
                      Sent("server", toCaller, <<Resp(200, serverReq)>>), w)
        /\ server \notin Waiting \cup {"BYE", "CANCELING"} =>
             Becoming("FAIL", "CALLING", serverReq, clientReq, serverKnown, clientKnown,
                      toCaller, w)
    BY <1>1, <1>3, <1>4, OkServedByClient
  <2>2. Beforehand /\ Serial!ServerOnOk
    BY <1>1, <2>1, SerialServerOk
  <2>3. Serial!ClientBecomes("CALLING", clientReq, clientKnown, <<Req("ACK")>>)
    BY <1>3, <2>1, SerialClient
  <2> QED BY <2>2, <2>3 DEF Serial!OnServerLeg
<1>5. ASSUME client = "BYE"
      PROVE  /\ Beforehand /\ Serial!OnServerLeg(Serial!ServerHangUp)
             /\ Serial!ClientBecomes("FINISH", clientReq, no, <<Req("ACK")>>)
  <2>1. CASE server = "CALLING"
    <3>1. Becoming("BYE", "FINISH", "OWN", clientReq, serverKnown, no,
                   Sent("server", toCaller, <<Req("BYE")>>), w)
      BY <1>1, <1>3, <1>5, <2>1, OkServedByClient
    <3>2. Beforehand /\ Serial!ServerBecomes("BYE", "OWN", serverKnown, <<Req("BYE")>>)
      BY <3>1, Starts, SerialServer
    <3>3. Serial!ClientBecomes("FINISH", clientReq, no, <<Req("ACK")>>)
      BY <1>3, <3>1, SerialClient
    <3> QED BY <2>1, <3>2, <3>3
            DEF Beforehand, Serial!OnServerLeg, Serial!ServerHangUp, Serial!Req, Req
  <2>2. CASE server # "CALLING"
    <3>1. Becoming(server, "FINISH", serverReq, clientReq, serverKnown, no, toCaller, w)
      BY <1>1, <1>3, <1>5, <2>2, OkServedByClient
    <3>2. Beforehand /\ UNCHANGED Serial!serverVars
      BY <3>1, Starts, SerialServerRests
    <3>3. Serial!ClientBecomes("FINISH", clientReq, no, <<Req("ACK")>>)
      BY <1>3, <3>1, SerialClient
    <3> QED BY <2>2, <3>2, <3>3 DEF Beforehand, Serial!OnServerLeg, Serial!ServerHangUp
  <2> QED BY <2>1, <2>2
<1>6. ASSUME client = "CANCELING"
      PROVE  /\ Beforehand /\ UNCHANGED Serial!serverVars
             /\ Serial!ClientBecomes("FINISH", clientReq, no, <<Req("ACK")>>)
  <2>1. Becoming(server, "FINISH", serverReq, clientReq, serverKnown, no, toCaller, w)
    BY <1>1, <1>3, <1>6, OkServedByClient
  <2> QED BY <1>3, <2>1, Starts, SerialServerRests, SerialClient
<1>7. ASSUME client \notin Waiting \cup {"BYE", "CANCELING"}
      PROVE  /\ Beforehand /\ UNCHANGED Serial!serverVars
             /\ Serial!ClientBecomes("FINISH", clientReq, no, <<>>)
  <2>1. Becoming(server, "FINISH", serverReq, clientReq, serverKnown, no, toCaller, toCallee)
    BY <1>1, <1>7, OkServedByClient
  <2> QED BY <2>1, Starts, SerialServerRests, SerialClientQuietly
<1>8. Beforehand
  BY <1>4, <1>5, <1>6, <1>7
<1> QED BY <1>2, <1>4, <1>5, <1>6, <1>7, <1>8

-----------------------------------------------------------------------------
(* A thread never has more to do than a method that was started: it is     *)
(* always some way into a plan that nine operations exhaust.               *)

LEMMA SuccessorsSame ==
  ASSUME bridged' = bridged, NEW plan \in Seq(Operation), plan # <<>>
  PROVE  Successors(plan)' = Successors(plan)
<1> DEFINE h == Head(plan)
           t == Tail(plan)
<1>1. h \in Operation
  BY PlanParts
<1> HIDE DEF h, t
<1>2. CASE h.do = "run"
  <2>1. h.leg \in Legs /\ h.name \in Methods
    BY <1>1, <1>2, OperationKinds
  <2>2. ASSUME NEW states PROVE (Body(states, h.leg, h.name) \o t)' = Body(states, h.leg, h.name) \o t
    BY <2>1, BodySame
  <2>3. {Body(states, h.leg, h.name) \o t : states \in [Legs -> HandlerState]}'
          = {Body(states, h.leg, h.name) \o t : states \in [Legs -> HandlerState]}
    BY <2>2
  <2> QED BY <1>2, <2>3 DEF Successors, h, t
<1>3. CASE h.do # "run"
  BY <1>3 DEF Successors, h, t
<1> QED BY <1>2, <1>3

LEMMA LongerSame ==
  ASSUME bridged' = bridged, NEW D
  PROVE  Longer1(D)' = Longer1(D)
BY SuccessorsSame DEF Longer1

LEMMA MuchLongerSame ==
  ASSUME bridged' = bridged, NEW D
  PROVE  Longer4(D)' = Longer4(D)
<1>1. PICK d1 : d1 = Longer1(D)
  OBVIOUS
<1>2. d1 = Longer1(D)'
  BY <1>1, LongerSame
<1>3. PICK d2 : d2 = Longer1(d1)
  OBVIOUS
<1>4. d2 = Longer1(d1)'
  BY <1>3, LongerSame
<1>5. d2 = Longer2(D) /\ d2 = Longer2(D)'
  BY <1>1, <1>2, <1>3, <1>4 DEF Longer2, Longer1
<1>6. PICK d3 : d3 = Longer1(d2)
  OBVIOUS
<1>7. d3 = Longer1(d2)'
  BY <1>6, LongerSame
<1>8. d3 = Longer3(D) /\ d3 = Longer3(D)'
  BY <1>5, <1>6, <1>7 DEF Longer3, Longer1
<1>9. Longer1(d3)' = Longer1(d3)
  BY LongerSame
<1> QED BY <1>8, <1>9 DEF Longer4, Longer1

LEMMA ShortSame ==
  ASSUME bridged' = bridged
  PROVE  Short' = Short
<1>1. PICK d1 : d1 = Half
  OBVIOUS
<1>2. d1 = Half'
  BY <1>1, MuchLongerSame DEF Half, Nothing
<1>3. PICK d2 : d2 = Longer4(d1)
  OBVIOUS
<1>4. d2 = Longer4(d1)'
  BY <1>3, MuchLongerSame
<1>5. d2 = Nearly /\ d2 = Nearly'
  BY <1>1, <1>2, <1>3, <1>4 DEF Nearly, Longer4, Longer3, Longer2, Longer1
<1>6. Longer1(d2)' = Longer1(d2)
  BY LongerSame
<1> QED BY <1>5, <1>6 DEF Short, Longer1

LEMMA NothingShort == <<>> \in Short
BY ShortSteps DEF Closed

Exhausts == \A leg \in Legs : todo[leg] \in Short

\* What a thread does next is among the successors of its plan.
LEMMA ContinuesShort ==
  ASSUME TypeOK, NEW plan \in Short, plan # <<>>
  PROVE  /\ Head(plan).do = "run" =>
              Body(Now.state, Head(plan).leg, Head(plan).name) \o Tail(plan) \in Short
         /\ Head(plan).do # "run" => Tail(plan) \in Short
<1>1. Successors(plan) \subseteq Nearly /\ Nearly \subseteq Short
  BY ShortSteps DEF Short, Longer1
<1>2. Now.state \in [Legs -> HandlerState]
  BY NowIsShared DEF Shared
<1> QED BY <1>1, <1>2 DEF Successors

\* What is sent to the gateway: no request of its own, no INVITE by the callee.
LEMMA MessagesStart ==
  ASSUME CallerMessages, CalleeMessages, NEW leg \in Legs, NEW m,
         leg = "server" => m \in InFlight(fromCaller),
         leg = "client" => m \in InFlight(fromCallee),
         NEW name \in MethodFor(m)
  PROVE  Started(leg, name)
<1>1. CASE leg = "server"
  <2>1. m.code # 0 => ~IsRinging(m.code)
    BY <1>1 DEF CallerMessages
  <2>2. IsRinging(m.code) => m.code # 0
    BY DEF IsRinging
  <2> QED BY <1>1, <2>1, <2>2 DEF MethodFor, Started
<1>2. CASE leg = "client"
  <2>1. m.code = 0 => m = Req("BYE")
    BY <1>2 DEF CalleeMessages
  <2>2. Req("ACK").code = 0 /\ Req("CANCEL").code = 0
        /\ Req("BYE") # Req("ACK") /\ Req("BYE") # Req("CANCEL")
    BY DEF Req
  <2> QED BY <1>2, <2>1, <2>2 DEF MethodFor, Started
<1> QED BY <1>1, <1>2 DEF Legs

LEMMA ContinueExhausts ==
  ASSUME ThreadsTypeOK, Exhausts, NEW thread \in Legs, Continue(thread)
  PROVE  Exhausts'
<1>1. bridged' = bridged /\ todo[thread] # <<>> /\ todo[thread] \in Short /\ TypeOK
  BY DEF Continue, Exhausts, ThreadsTypeOK
<1>2. PICK short : short = Short
  OBVIOUS
<1>3. short = Short'
  BY <1>1, <1>2, ShortSame
<1>4. PICK plan : plan \in short /\ todo' = [todo EXCEPT ![thread] = plan]
  BY <1>1, <1>2, ContinuesShort DEF Continue
<1>5. \A leg \in Legs : todo[leg] \in short
  BY <1>2 DEF Exhausts
<1>6. todo \in [Legs -> Seq(Operation)]
  BY DEF ThreadsTypeOK
<1>7. \A leg \in Legs : todo'[leg] \in short
  BY <1>4, <1>5, <1>6
<1> QED BY <1>3, <1>7 DEF Exhausts

LEMMA TakeExhausts ==
  ASSUME THInv, Exhausts, NEW thread \in Legs, NEW known \in BOOLEAN, NEW m \in Message,
         thread = "server" => m \in InFlight(fromCaller),
         thread = "client" => m \in InFlight(fromCallee),
         Take(thread, known, m), bridged' = bridged
  PROVE  Exhausts'
<1>1. CallerMessages /\ CalleeMessages /\ todo \in [Legs -> Seq(Operation)]
  BY DEF THInv, Everywhere, ThreadsTypeOK
<1>2. PICK short : short = Short
  OBVIOUS
<1>3. short = Short'
  BY <1>2, ShortSame
<1>4. /\ todo'[Other(thread)] = todo[Other(thread)]
      /\ \/ todo'[thread] = <<>>
         \/ known /\ \E name \in MethodFor(m) : todo'[thread] = <<Run(thread, name)>>
  BY <1>1, Takes
<1>5. todo'[thread] \in short
  BY <1>1, <1>2, <1>4, NothingShort, MessagesStart, StartedShort
<1>6. todo'[Other(thread)] \in short
  BY <1>2, <1>4 DEF Exhausts, Other, Legs
<1>7. \A leg \in Legs : todo'[leg] \in short
  BY <1>5, <1>6 DEF Other, Legs
<1> QED BY <1>3, <1>7 DEF Exhausts

\* An INVITE finds both threads at rest.
LEMMA InviteFindsRest ==
  ASSUME THInv, fromCaller # <<>>, NEW m, m = Head(fromCaller), NewInvite(m)
  PROVE  todo["server"] = <<>> /\ todo["client"] = <<>>
<1>1. OneInvite /\ fromCaller \in Seq(Message) /\ m = Req("INVITE") /\ ~serverKnown
  BY DEF THInv, Everywhere, ThreadsTypeOK, TypeOK, NewInvite
<1>2. m = fromCaller[1] /\ 1 \in 1..Len(fromCaller)
  BY <1>1
<1>3. server = "NONE"
  BY <1>1, <1>2 DEF OneInvite, InviteIsFirst, InviteLeads
<1> QED BY <1>1, <1>3 DEF OneInvite, Unbegun

LEMMA StepExhausts ==
  ASSUME THInv, Exhausts, ThreadsNext
  PROVE  Exhausts'
<1>1. ThreadsTypeOK /\ fromCaller \in Seq(Message) /\ fromCallee \in Seq(Message)
      /\ serverKnown \in BOOLEAN /\ clientKnown \in BOOLEAN
  BY DEF THInv, Everywhere, ThreadsTypeOK, TypeOK
<1>2. CASE Continue("server") \/ Continue("client")
  BY <1>1, <1>2, ContinueExhausts DEF Legs
<1>3. CASE ClientThreadTakes
  <2>1. /\ fromCallee # <<>> /\ Take("client", clientKnown, Head(fromCallee)) /\ bridged' = bridged
    BY <1>3 DEF ClientThreadTakes
  <2>2. Head(fromCallee) \in Message /\ Head(fromCallee) \in InFlight(fromCallee)
    BY <1>1, <2>1, TailHolds
  <2> QED BY <1>1, <2>1, <2>2, TakeExhausts DEF Legs
<1>4. CASE ServerThreadTakes
  <2>1. fromCaller # <<>>
    BY <1>4 DEF ServerThreadTakes
  <2>2. PICK m \in {Head(fromCaller)} :
          \/ /\ InviteMalformed(m) \/ InviteForbidden(m) \/ InviteStranded(m)
                \/ InviteBusy(m) \/ InviteRouted(m)
             /\ UNCHANGED todo
          \/ Take("server", serverKnown, m) /\ UNCHANGED bridged
    BY <1>4 DEF ServerThreadTakes
  <2>3. m \in Message /\ m \in InFlight(fromCaller)
    BY <1>1, <2>1, TailHolds
  <2>4. CASE Take("server", serverKnown, m) /\ UNCHANGED bridged
    BY <1>1, <2>3, <2>4, TakeExhausts DEF Legs
  <2>5. CASE NewInvite(m) /\ UNCHANGED todo
    <3>1. todo["server"] = <<>> /\ todo["client"] = <<>>
      BY <2>1, <2>5, InviteFindsRest
    <3>2. todo'["server"] = <<>> /\ todo'["client"] = <<>>
      BY <2>5, <3>1
    <3>3. (<<>> \in Short)'
      BY NothingShort, PTL
    <3> QED BY <3>2, <3>3 DEF Exhausts, Legs
  <2> QED BY <2>2, <2>4, <2>5, InviteServed
<1>5. CASE Environment
  <2>1. bridged' = bridged /\ todo' = todo
    BY <1>5 DEF Environment, CallerActs, CalleeActs, SessionCloses
  <2> QED BY <2>1, ShortSame DEF Exhausts
<1> QED BY <1>2, <1>3, <1>4, <1>5 DEF ThreadsNext, ServerThread, ClientThread

\* However the threads interrupt one another, a method that was started has at
\* most nine operations left.
LEMMA ThreadsExhaust == ThreadsSpec => []Exhausts
<1>1. ThreadsInit => Exhausts
  BY NothingShort DEF ThreadsInit, Exhausts
<1>2. ASSUME THInv, Exhausts, UNCHANGED tvars
      PROVE  Exhausts'
  <2>1. bridged' = bridged /\ todo' = todo
    BY <1>2 DEF tvars, vars
  <2> QED BY <1>2, <2>1, ShortSame DEF Exhausts
<1>3. THInv /\ Exhausts /\ [ThreadsNext]_tvars => Exhausts'
  BY <1>2, StepExhausts
<1> QED BY <1>1, <1>3, ThreadsInductive, PTL DEF ThreadsSpec

-----------------------------------------------------------------------------
(* Each step of the threads, as Call sees it. *)

\* What is shared is what it is for the two legs.
LEMMA SharedByLegs ==
  ASSUME NEW m \in Shared
  PROVE  m = View(m.state["server"], m.state["client"], m.req["server"], m.req["client"],
                  m.known["server"], m.known["client"], m.wire["server"], m.wire["client"])
<1>1. /\ m.state \in [Legs -> HandlerState] /\ m.req \in [Legs -> Method]
      /\ m.known \in [Legs -> BOOLEAN] /\ m.wire \in [Legs -> Seq(Message)]
  BY DEF Shared
<1>2. \A f : f \in [Legs -> HandlerState] \cup [Legs -> Method] \cup [Legs -> Seq(Message)]
        => f = [server |-> f["server"], client |-> f["client"]]
  BY DEF Legs
<1>3. m.known = [server |-> m.known["server"], client |-> m.known["client"]]
  BY <1>1 DEF Legs
<1>4. /\ m.state = [server |-> m.state["server"], client |-> m.state["client"]]
      /\ m.req = [server |-> m.req["server"], client |-> m.req["client"]]
      /\ m.wire = [server |-> m.wire["server"], client |-> m.wire["client"]]
  BY <1>1, <1>2
<1> QED BY <1>3, <1>4, SharedWhole DEF View

\* Nothing puts a handler back into messageHandlerList.
Falls(a, b) == \A leg \in Legs : b.now.known[leg] => a.now.known[leg]

LEMMA EffectFalls ==
  ASSUME NEW now \in Shared, NEW op \in Operation, op.do # "run", NEW leg \in Legs
  PROVE  Effect(now, op).known[leg] => now.known[leg]
<1>1. op.leg \in Legs /\ now.known \in [Legs -> BOOLEAN]
  BY OperationKinds DEF Shared
<1>2. CASE op.do = "forget"
  <2>1. Effect(now, op) = [now EXCEPT !.known[op.leg] = FALSE]
    BY <1>2 DEF Effect
  <2>2. Effect(now, op).known = [now.known EXCEPT ![op.leg] = FALSE]
    BY <2>1 DEF Shared
  <2> QED BY <1>1, <2>2
<1>3. CASE op.do # "forget"
  <2>1. Effect(now, op).known = now.known
    BY <1>3, OperationKinds DEF Effect, Shared
  <2> QED BY <2>1
<1> QED BY <1>2, <1>3

LEMMA AheadFalls ==
  ASSUME NEW a \in Points
  PROVE  \E b \in Points : Leads(a, b) /\ Falls(a, b)
<1>1. PICK b \in Points : Leads(a, b)
  BY OneAhead
<1>2. a.now \in Shared /\ a.ops \in Seq(Operation) /\ a = Point(a.now, a.ops)
  BY PointWhole
<1>3. CASE a.ops = <<>>
  BY <1>3, Rests DEF Leads, Falls
<1>4. CASE a.ops # <<>> /\ Head(a.ops).do # "run"
  <2>1. Leads(a, Point(Effect(a.now, Head(a.ops)), Tail(a.ops)))
    BY <1>2, <1>4, PerformsOne DEF Leads
  <2>2. b = Point(Effect(a.now, Head(a.ops)), Tail(a.ops))
    BY <1>1, <2>1 DEF Leads
  <2>3. Head(a.ops) \in Operation
    BY <1>2, <1>4, PlanParts
  <2> QED BY <1>1, <1>2, <1>4, <2>2, <2>3, EffectFalls, PointParts DEF Falls
<1>5. CASE a.ops # <<>> /\ Head(a.ops).do = "run"
  <2> DEFINE plan == Body(a.now.state, Head(a.ops).leg, Head(a.ops).name) \o Tail(a.ops)
  <2>1. Leads(a, Point(a.now, plan))
    BY <1>2, <1>5, CallsOne DEF Leads
  <2> HIDE DEF plan
  <2>2. b = Point(a.now, plan)
    BY <1>1, <2>1 DEF Leads
  <2> QED BY <1>1, <2>2, PointParts DEF Falls
<1> QED BY <1>3, <1>4, <1>5

LEMMA FarFalls ==
  ASSUME NEW a \in Points
  PROVE  \E b \in Points : LeadsFar(a, b) /\ Falls(a, b)
<1>1. PICK b \in Points : Leads(a, b) /\ Falls(a, b)
  BY AheadFalls
<1>2. PICK c \in Points : Leads(b, c) /\ Falls(b, c)
  BY AheadFalls
<1>3. PICK d \in Points : Leads(c, d) /\ Falls(c, d)
  BY AheadFalls
<1>4. LeadsFar(a, d)
  BY <1>1, <1>2, <1>3, OneByOne
<1> QED BY <1>1, <1>2, <1>3, <1>4 DEF Falls

LEMMA EndFalls ==
  ASSUME NEW a \in Points
  PROVE  \E b \in Points : Ends(a, b) /\ Falls(a, b)
<1>1. PICK b \in Points : LeadsFar(a, b) /\ Falls(a, b)
  BY FarFalls
<1>2. PICK c \in Points : LeadsFar(b, c) /\ Falls(b, c)
  BY FarFalls
<1>3. PICK d \in Points : LeadsFar(c, d) /\ Falls(c, d)
  BY FarFalls
<1>4. Ends(a, d)
  BY <1>1, <1>2, <1>3, OneEnd
<1> QED BY <1>1, <1>2, <1>3, <1>4 DEF Falls

LEMMA PlanTyped ==
  ASSUME ThreadsTypeOK
  PROVE  Plan \in Seq(Operation) /\ Now \in Shared /\ Point(Now, Plan) \in Points
<1>1. todo["server"] \in Seq(Operation) /\ todo["client"] \in Seq(Operation)
  BY DEF ThreadsTypeOK, Legs
<1>2. Plan \in Seq(Operation)
  BY <1>1 DEF Plan
<1>3. Now \in Shared
  BY NowIsShared DEF ThreadsTypeOK
<1> QED BY <1>2, <1>3, PointParts

LEMMA KnownFalls ==
  ASSUME ThreadsTypeOK
  PROVE  (thenServerKnown => serverKnown) /\ (thenClientKnown => clientKnown)
<1>1. Point(Now, Plan) \in Points
  BY PlanTyped
<1>2. PICK b \in Points : Ends(Point(Now, Plan), b) /\ Falls(Point(Now, Plan), b)
  BY <1>1, EndFalls
<1>3. Completed = b.now
  BY <1>2, CompletedIs
<1>4. \A leg \in Legs : Completed.known[leg] => Now.known[leg]
  BY <1>2, <1>3, PointParts DEF Falls
<1>5. Now.known["server"] = serverKnown /\ Now.known["client"] = clientKnown
  BY DEF Now
<1> QED BY <1>4, <1>5 DEF thenServerKnown, thenClientKnown, Legs

\* The legs are, seen at the end of the thread, what they were.
SameThen ==
  /\ thenServer' = thenServer /\ thenClient' = thenClient
  /\ thenServerReq' = thenServerReq /\ thenClientReq' = thenClientReq
  /\ thenServerKnown' = thenServerKnown /\ thenClientKnown' = thenClientKnown
  /\ thenToCaller' = thenToCaller /\ thenToCallee' = thenToCallee

LEMMA SameCompleted ==
  ASSUME Completed' = Completed
  PROVE  SameThen
BY DEF SameThen, thenServer, thenClient, thenServerReq, thenClientReq, thenServerKnown,
       thenClientKnown, thenToCaller, thenToCallee

LEMMA Unaffected ==
  ASSUME ThreadsTypeOK, UNCHANGED <<serverVars, clientVars, bridged, up>>,
         todo'["server"] = todo["server"], todo'["client"] = todo["client"]
  PROVE  SameThen
<1>1. PICK now : now = Now
  OBVIOUS
<1>2. PICK plan : plan = Plan
  OBVIOUS
<1>3. Now' = now /\ Plan' = plan
  BY <1>1, <1>2 DEF Now, Plan, serverVars, clientVars
<1>4. Point(Now, Plan) \in Points
  BY PlanTyped
<1>5. PICK a \in Points : a = Point(now, plan)
  BY <1>1, <1>2, <1>4
<1>6. PICK b \in Points : Ends(a, b)
  BY EndFalls
<1>7. Ends(a, b)'
  BY <1>6, EndsThen
<1>8. Completed = b.now
  BY <1>1, <1>2, <1>5, <1>6, CompletedIs
<1>9. Completed' = b.now
  BY <1>3, <1>5, <1>7, CompletedThen
<1> QED BY <1>8, <1>9, SameCompleted

\* What is shared after an operation is its effect.
LEMMA NowThen ==
  ASSUME NEW n \in Shared,
         server' = n.state["server"], client' = n.state["client"],
         serverReq' = n.req["server"], clientReq' = n.req["client"],
         serverKnown' = n.known["server"], clientKnown' = n.known["client"],
         toCaller' = n.wire["server"], toCallee' = n.wire["client"]
  PROVE  Now' = n
<1>1. Now' = View(n.state["server"], n.state["client"], n.req["server"], n.req["client"],
                  n.known["server"], n.known["client"], n.wire["server"], n.wire["client"])
  BY DEF Now, View
<1> QED BY <1>1, SharedByLegs

\* A step of a thread on its way is no step of Call.
LEMMA ContinueIsNoStep ==
  ASSUME ThreadsTypeOK, Exhausts, Alone, NEW thread \in Legs, Continue(thread)
  PROVE  SameThen
<1>1. /\ todo[thread] # <<>> /\ bridged' = bridged /\ up' = up
      /\ todo[thread] \in Short /\ todo \in [Legs -> Seq(Operation)]
  BY DEF Continue, Exhausts, ThreadsTypeOK
<1>2. todo[Other(thread)] = <<>>
  BY <1>1 DEF Alone, Other, Legs
<1>3. PICK now, plan : now = Now /\ plan = todo[thread]
  OBVIOUS
<1>4. now \in Shared /\ plan \in Short /\ plan \in Seq(Operation) /\ plan # <<>>
  BY <1>1, <1>3, PlanTyped
<1>5. Head(plan) \in Operation /\ Tail(plan) \in Seq(Operation)
  BY <1>4, PlanParts
<1>6. \A p \in Seq(Operation) : p \o <<>> = p /\ <<>> \o p = p
  BY EmptyParts
<1>7. Plan = plan
  BY <1>2, <1>3, <1>4, <1>6 DEF Plan, Other, Legs
<1>8. PICK a \in Points : a = Point(now, plan) /\ a.now = now /\ a.ops = plan
  BY <1>4, PointParts
<1>9. PICK b \in Points : Leads(a, b) /\ \E end \in Points : Ends(a, end) /\ Ends(b, end)
  BY <1>4, <1>8, SameEnd
<1>10. PICK end \in Points : Ends(a, end) /\ Ends(b, end)
  BY <1>9
<1>11. PICK n \in Shared, rest \in Seq(Operation) :
         /\ Now' = n /\ todo' = [todo EXCEPT ![thread] = rest] /\ Leads(a, Point(n, rest))
  <2>1. CASE Head(plan).do = "run"
    <3> DEFINE rest == Body(now.state, Head(plan).leg, Head(plan).name) \o Tail(plan)
    <3>1. rest \in Seq(Operation)
      <4>1. Head(plan).leg \in Legs /\ Head(plan).name \in Methods
        BY <1>5, <2>1, OperationKinds
      <4>2. Body(now.state, Head(plan).leg, Head(plan).name) \in Seq(Operation)
        BY <4>1, BodyType
      <4> QED BY <1>5, <4>2
    <3>2. /\ todo' = [todo EXCEPT ![thread] = rest]
          /\ UNCHANGED <<serverVars, clientVars>>
      BY <1>3, <2>1 DEF Continue
    <3>3. Leads(a, Point(now, rest))
      BY <1>4, <1>8, <2>1, CallsOne DEF Leads
    <3> HIDE DEF rest
    <3>4. Now' = now
      BY <1>3, <3>2 DEF Now, serverVars, clientVars
    <3> QED BY <1>4, <3>1, <3>2, <3>3, <3>4
  <2>2. CASE Head(plan).do # "run"
    <3>1. PICK n : n = Effect(now, Head(plan))
      OBVIOUS
    <3>2. n \in Shared
      BY <1>4, <1>5, <2>2, <3>1, EffectTyped
    <3>3. todo' = [todo EXCEPT ![thread] = Tail(plan)]
      BY <1>3, <2>2 DEF Continue
    <3>4. /\ server' = n.state["server"] /\ client' = n.state["client"]
          /\ serverReq' = n.req["server"] /\ clientReq' = n.req["client"]
          /\ serverKnown' = n.known["server"] /\ clientKnown' = n.known["client"]
          /\ toCaller' = n.wire["server"] /\ toCallee' = n.wire["client"]
      BY <1>3, <2>2, <3>1 DEF Continue
    <3>5. Now' = n
      BY <3>2, <3>4, NowThen
    <3>6. Leads(a, Point(n, Tail(plan)))
      BY <1>4, <1>8, <2>2, <3>1, PerformsOne DEF Leads
    <3> QED BY <1>5, <3>2, <3>3, <3>5, <3>6
  <2> QED BY <2>1, <2>2
<1>12. b = Point(n, rest)
  BY <1>9, <1>11 DEF Leads
<1>13. Plan' = rest
  BY <1>1, <1>2, <1>6, <1>11 DEF Plan, Other, Legs
<1>14. Ends(b, end)'
  BY <1>1, <1>10, EndsThen
<1>15. Completed = end.now
  BY <1>3, <1>7, <1>8, <1>10, CompletedIs
<1>16. Completed' = end.now
  BY <1>11, <1>12, <1>13, <1>14, CompletedThen
<1> QED BY <1>15, <1>16, SameCompleted

LEMMA SerialRests ==
  ASSUME SameThen, UNCHANGED <<bridged, up, fromCaller, fromCallee, agents>>
  PROVE  UNCHANGED Serial!vars
BY DEF SameThen, Serial!vars, Serial!serverVars, Serial!clientVars, Serial!agents, agents

-----------------------------------------------------------------------------
(* The INVITE, which finds both threads at rest and leaves them so.        *)

NowIsThen ==
  /\ thenServer = server /\ thenClient = client
  /\ thenServerReq = serverReq /\ thenClientReq = clientReq
  /\ thenServerKnown = serverKnown /\ thenClientKnown = clientKnown
  /\ thenToCaller = toCaller /\ thenToCallee = toCallee

LEMMA RestIsNow ==
  ThreadsTypeOK /\ todo["server"] = <<>> /\ todo["client"] = <<>> => NowIsThen
BY IdlePlan, ThenIsNow DEF ThreadsTypeOK, NowIsThen

LEMMA RestServer ==
  ASSUME NowIsThen, NowIsThen', NEW state, NEW req, NEW known, NEW messages,
         ServerBecomes(state, req, known, messages)
  PROVE  Serial!ServerBecomes(state, req, known, messages)
<1>1. Serial!Sent("server", thenToCaller, messages) = Sent("server", toCaller, messages)
  BY SerialSent DEF NowIsThen
<1> QED BY <1>1 DEF NowIsThen, ServerBecomes, Serial!ServerBecomes

LEMMA RestClient ==
  ASSUME NowIsThen, NowIsThen', NEW state, NEW req, NEW known, NEW messages,
         ClientBecomes(state, req, known, messages)
  PROVE  Serial!ClientBecomes(state, req, known, messages)
<1>1. Serial!Sent("client", thenToCallee, messages) = Sent("client", toCallee, messages)
  BY SerialSent DEF NowIsThen
<1> QED BY <1>1 DEF NowIsThen, ClientBecomes, Serial!ClientBecomes

LEMMA InviteIsSerial ==
  ASSUME NowIsThen, NowIsThen', fromCaller # <<>>, NEW m, m = Head(fromCaller),
         \/ InviteMalformed(m) \/ InviteForbidden(m) \/ InviteStranded(m)
         \/ InviteBusy(m) \/ InviteRouted(m)
  PROVE  Serial!GatewayServes
<1>1. NewInvite(m) => Serial!NewInvite(m)
  BY DEF NewInvite, Serial!NewInvite, NextFromCaller, Serial!NextFromCaller, agents,
         Serial!agents, Req, Serial!Req, NowIsThen
<1>2. OnlyServerLeg => Serial!OnlyServerLeg
  BY DEF OnlyServerLeg, Serial!OnlyServerLeg, clientVars, Serial!clientVars, NowIsThen
<1>3. \A code, method : Serial!Resp(code, method) = Resp(code, method)
  BY DEF Serial!Resp, Resp
<1>4. Serial!Req("INVITE") = Req("INVITE")
  BY DEF Serial!Req, Req
<1>5. CASE InviteMalformed(m)
  <2>1. Serial!ServerBecomes("FINISH", "INVITE", FALSE, <<>>)
    BY <1>5, RestServer DEF InviteMalformed
  <2>2. Serial!InviteMalformed(m)
    BY <1>1, <1>2, <1>5, <2>1 DEF InviteMalformed, Serial!InviteMalformed
  <2> QED BY <2>2 DEF Serial!GatewayServes
<1>6. CASE InviteForbidden(m)
  <2>1. Serial!ServerBecomes("FINISH", "INVITE", FALSE, <<Resp(403, "INVITE")>>)
    BY <1>6, RestServer DEF InviteForbidden
  <2>2. Serial!InviteForbidden(m)
    BY <1>1, <1>2, <1>3, <1>6, <2>1 DEF InviteForbidden, Serial!InviteForbidden
  <2> QED BY <2>2 DEF Serial!GatewayServes
<1>7. CASE InviteStranded(m)
  <2>1. Serial!ServerBecomes("TRYING", "INVITE", TRUE, <<Resp(100, "INVITE")>>)
    BY <1>7, RestServer DEF InviteStranded
  <2>2. Serial!InviteStranded(m)
    BY <1>1, <1>2, <1>3, <1>7, <2>1 DEF InviteStranded, Serial!InviteStranded
  <2> QED BY <2>2 DEF Serial!GatewayServes
<1>8. CASE InviteBusy(m)
  <2> DEFINE answers == <<Resp(100, "INVITE"), Resp(486, "INVITE")>>
  <2>1. Serial!ServerBecomes("FINISH", "INVITE", FALSE, answers)
    <3>1. ServerBecomes("FINISH", "INVITE", FALSE, answers)
      BY <1>8 DEF InviteBusy
    <3> HIDE DEF answers
    <3> QED BY <3>1, RestServer
  <2>2. Serial!InviteBusy(m)
    BY <1>1, <1>2, <1>3, <1>8, <2>1 DEF InviteBusy, Serial!InviteBusy
  <2> QED BY <2>2 DEF Serial!GatewayServes
<1>9. CASE InviteRouted(m)
  <2>1. Serial!ServerBecomes("TRYING", "INVITE", TRUE, <<Resp(100, "INVITE")>>)
    BY <1>9, RestServer DEF InviteRouted
  <2>2. Serial!ClientBecomes("TRYING", "OWN", TRUE, <<Req("INVITE")>>)
    BY <1>9, RestClient DEF InviteRouted
  <2>3. Serial!InviteRouted(m)
    BY <1>1, <1>3, <1>4, <1>9, <2>1, <2>2 DEF InviteRouted, Serial!InviteRouted
  <2> QED BY <2>3 DEF Serial!GatewayServes
<1> QED BY <1>5, <1>6, <1>7, <1>8, <1>9

-----------------------------------------------------------------------------
(* The messages of the caller and of the callee.                           *)

\* No agent sends a request of the gateway's own making.
NoneOwn == \A m \in InFlight(fromCaller) : m # Req("OWN")

LEMMA DroppedIsPassedOver ==
  ASSUME NEW m \in Message, MethodFor(m) = {}
  PROVE  m = Req("INVITE") \/ m = Req("OWN") \/ IsPassedOver(m.code)
<1>1. /\ m # Req("ACK") /\ m # Req("CANCEL") /\ m # Req("BYE")
      /\ ~IsRinging(m.code) /\ ~IsOk(m.code) /\ ~IsReject(m.code)
  BY DEF MethodFor
<1>2. CASE m.code = 0
  <2>1. m = Req(m.method)
    BY <1>2 DEF Message, Req
  <2>2. m.method \in {"INVITE", "ACK", "CANCEL", "BYE", "OWN"}
    BY DEF Message, Method
  <2> QED BY <1>1, <2>1, <2>2
<1>3. CASE m.code # 0
  BY <1>1, <1>3 DEF IsPassedOver
<1> QED BY <1>2, <1>3

\* How a thread that finds the other at rest takes a message.
LEMMA TakesHow ==
  ASSUME ThreadsTypeOK, Alone', NEW thread \in Legs, todo[thread] = <<>>,
         NEW known \in BOOLEAN, NEW m \in Message, Take(thread, known, m),
         UNCHANGED <<serverVars, clientVars, bridged, up>>
  PROVE  \/ /\ ~known \/ MethodFor(m) = {}
            /\ SameThen
         \/ /\ known
            /\ \E name \in MethodFor(m) : Serving(thread, name)
<1>1. todo \in [Legs -> Seq(Operation)] /\ Other(thread) \in Legs /\ Other(thread) # thread
  BY DEF ThreadsTypeOK, Other, Legs
<1>2. CASE known /\ MethodFor(m) # {}
  <2>1. PICK name \in MethodFor(m) : todo' = [todo EXCEPT ![thread] = <<Run(thread, name)>>]
    BY <1>2 DEF Take
  <2>2. todo'[thread] = <<Run(thread, name)>> /\ todo'[Other(thread)] = todo[Other(thread)]
    BY <1>1, <2>1
  <2>3. <<Run(thread, name)>> # <<>>
    OBVIOUS
  <2>4. todo'[Other(thread)] = <<>>
    BY <2>2, <2>3 DEF Alone, Other, Legs
  <2>5. todo["server"] = <<>> /\ todo["client"] = <<>>
    BY <2>2, <2>4 DEF Other, Legs
  <2> QED BY <1>2, <2>2, <2>4, <2>5 DEF Serving
<1>3. CASE ~(known /\ MethodFor(m) # {})
  <2>1. todo' = [todo EXCEPT ![thread] = <<>>]
    BY <1>3, Zenon DEF Take
  <2>2. todo'["server"] = todo["server"] /\ todo'["client"] = todo["client"]
    BY <1>1, <2>1 DEF Legs
  <2>3. SameThen
    BY <2>2, Unaffected
  <2> QED BY <1>3, <2>3
<1> QED BY <1>2, <1>3

LEMMA SerialNames ==
  /\ \A code : /\ Serial!IsRinging(code) = IsRinging(code) /\ Serial!IsOk(code) = IsOk(code)
               /\ Serial!IsReject(code) = IsReject(code)
               /\ Serial!IsPassedOver(code) = IsPassedOver(code)
  /\ \A method : Serial!Req(method) = Req(method)
  /\ \A code, method : Serial!Resp(code, method) = Resp(code, method)
  /\ Serial!Waiting = Waiting
BY DEF Serial!IsRinging, IsRinging, Serial!IsOk, IsOk, Serial!IsReject, IsReject,
       Serial!IsChallenge, IsChallenge, Serial!IsPassedOver, IsPassedOver, Serial!Req, Req,
       Serial!Resp, Resp, Serial!Waiting, Waiting

\* A message of the caller that starts a method.
LEMMA ServedIsSerial ==
  ASSUME TypeOK, fromCaller # <<>>, NEW m \in Message, m = Head(fromCaller), serverKnown,
         NextFromCaller, NEW name \in MethodFor(m), Started("server", name),
         Serving("server", name)
  PROVE  Serial!GatewayServes
<1>1. Serial!NextFromCaller /\ bridged' = bridged
  BY DEF NextFromCaller, Serial!NextFromCaller, agents, Serial!agents, Serving
<1>2. CASE name = "onACK"
  <2>1. m = Req("ACK")
    BY <1>2, MethodsFor
  <2>2. Beforehand /\ Serial!ServerOnAck /\ UNCHANGED Serial!clientVars
    BY <1>2, IsSerialAck
  <2>3. Serial!AckFromCaller(m)
    BY <1>1, <2>1, <2>2, SerialNames DEF Serial!AckFromCaller, Serial!OnlyServerLeg, Beforehand
  <2> QED BY <2>3 DEF Serial!GatewayServes
<1>3. CASE name = "onCancel(request)"
  <2>1. m = Req("CANCEL")
    BY <1>3, MethodsFor
  <2>2. /\ Beforehand
        /\ Serial!ServerBecomes("CANCELING", "CANCEL", serverKnown, <<Resp(200, "CANCEL")>>)
        /\ Serial!OnClientLeg(Serial!ClientOnCancel)
    BY <1>3, IsSerialCancel
  <2>3. Serial!CancelFromCaller(m)
    BY <1>1, <2>1, <2>2, SerialNames DEF Serial!CancelFromCaller, Beforehand
  <2> QED BY <2>3 DEF Serial!GatewayServes
<1>4. CASE name = "onBye(request)"
  <2>1. m = Req("BYE")
    BY <1>4, MethodsFor
  <2>2. /\ Beforehand
        /\ IF server = "CALLING"
           THEN /\ Serial!ServerBecomes("BYE", "BYE", serverKnown, <<Resp(200, "BYE")>>)
                /\ Serial!OnClientLeg(Serial!ClientHangUp)
           ELSE /\ Serial!ServerBecomes(server, serverReq, serverKnown, <<Resp(400, serverReq)>>)
                /\ UNCHANGED Serial!clientVars
    BY <1>4, IsSerialBye
  <2>3. Serial!ByeFromCaller(m)
    BY <1>1, <2>1, <2>2, SerialNames DEF Serial!ByeFromCaller, Beforehand
  <2> QED BY <2>3 DEF Serial!GatewayServes
<1>5. CASE name = "onOk"
  <2>1. IsOk(m.code)
    BY <1>5, MethodsFor
  <2>2. Beforehand /\ Serial!ServerOnOk /\ UNCHANGED Serial!clientVars
    BY <1>5, IsSerialOk
  <2>3. Serial!OkFromCaller(m)
    BY <1>1, <2>1, <2>2, SerialNames DEF Serial!OkFromCaller, Serial!OnlyServerLeg, Beforehand
  <2> QED BY <2>3 DEF Serial!GatewayServes
<1>6. CASE name = "onReject"
  <2>1. IsReject(m.code)
    BY <1>6, MethodsFor
  <2>2. Beforehand /\ Serial!ServerOnReject /\ UNCHANGED Serial!clientVars
    BY <1>6, IsSerialReject
  <2>3. Serial!RejectFromCaller(m)
    BY <1>1, <2>1, <2>2, SerialNames DEF Serial!RejectFromCaller, Serial!OnlyServerLeg, Beforehand
  <2> QED BY <2>3 DEF Serial!GatewayServes
<1> QED BY <1>2, <1>3, <1>4, <1>5, <1>6 DEF Started

\* A message of the callee that starts a method.
LEMMA RelayedIsSerial ==
  ASSUME TypeOK, fromCallee # <<>>, NEW m \in Message, m = Head(fromCallee), clientKnown, bridged,
         NextFromCallee, NEW name \in MethodFor(m), Started("client", name),
         Serving("client", name)
  PROVE  Serial!GatewayRelays
<1>1. Serial!NextFromCallee /\ bridged' = bridged
  BY DEF NextFromCallee, Serial!NextFromCallee, agents, Serial!agents, Serving
<1>2. CASE name = "onRinging"
  <2>1. IsRinging(m.code)
    BY <1>2, MethodsFor
  <2>2. /\ Beforehand
        /\ IF client = "TRYING"
           THEN /\ Serial!OnServerLeg(Serial!ServerOnRinging)
                /\ Serial!ClientBecomes("RINGING", clientReq, clientKnown, <<>>)
           ELSE UNCHANGED <<Serial!serverVars, Serial!clientVars>>
    BY <1>2, IsSerialRinging
  <2>3. Serial!RingingFromCallee(m)
    BY <1>1, <2>1, <2>2, SerialNames DEF Serial!RingingFromCallee, Beforehand
  <2> QED BY <2>3 DEF Serial!GatewayRelays
<1>3. CASE name = "onReject"
  <2>1. IsReject(m.code)
    BY <1>3, MethodsFor
  <2>2. /\ Beforehand
        /\ Serial!OnServerLeg(Serial!ServerOnReject)
        /\ Serial!ClientBecomes("FINISH", clientReq, FALSE, <<>>)
    BY <1>3, IsSerialRejectByCallee
  <2>3. Serial!RejectFromCallee(m)
    BY <1>1, <2>1, <2>2, SerialNames DEF Serial!RejectFromCallee, Beforehand
  <2> QED BY <2>3 DEF Serial!GatewayRelays
<1>4. CASE name = "onBye(request)"
  <2>1. m = Req("BYE")
    BY <1>4, MethodsFor
  <2>2. /\ Beforehand
        /\ IF client = "CALLING"
           THEN /\ Serial!ClientBecomes("BYE", "BYE", clientKnown, <<Resp(200, "BYE")>>)
                /\ Serial!OnServerLeg(Serial!ServerHangUp)
           ELSE /\ Serial!ClientBecomes(client, clientReq, clientKnown, <<Resp(400, clientReq)>>)
                /\ UNCHANGED Serial!serverVars
    BY <1>4, IsSerialByeByCallee
  <2>3. Serial!ByeFromCallee(m)
    BY <1>1, <2>1, <2>2, SerialNames DEF Serial!ByeFromCallee, Beforehand
  <2> QED BY <2>3 DEF Serial!GatewayRelays
<1>5. CASE name = "onOk"
  <2>1. IsOk(m.code)
    BY <1>5, MethodsFor
  <2>2. /\ Beforehand
        /\ client \in Waiting =>
             /\ Serial!OnServerLeg(Serial!ServerOnOk)
             /\ Serial!ClientBecomes("CALLING", clientReq, clientKnown, <<Req("ACK")>>)
        /\ client = "BYE" =>
             /\ Serial!OnServerLeg(Serial!ServerHangUp)
             /\ Serial!ClientBecomes("FINISH", clientReq, FALSE, <<Req("ACK")>>)
        /\ client = "CANCELING" =>
             /\ UNCHANGED Serial!serverVars
             /\ Serial!ClientBecomes("FINISH", clientReq, FALSE, <<Req("ACK")>>)
        /\ client \notin Waiting \cup {"BYE", "CANCELING"} =>
             /\ UNCHANGED Serial!serverVars
             /\ Serial!ClientBecomes("FINISH", clientReq, FALSE, <<>>)
    BY <1>5, IsSerialOkByCallee
  <2>3. CASE client \in Waiting
    <3>1. Serial!AcceptFromCallee(m)
      BY <1>1, <2>1, <2>2, <2>3, SerialNames DEF Serial!AcceptFromCallee, Beforehand
    <3> QED BY <3>1 DEF Serial!GatewayRelays
  <2>4. CASE client = "BYE"
    <3>1. Serial!HangupConfirmedByCallee(m)
      BY <1>1, <2>1, <2>2, <2>4, SerialNames DEF Serial!HangupConfirmedByCallee, Beforehand
    <3> QED BY <3>1 DEF Serial!GatewayRelays
  <2>5. CASE client = "CANCELING"
    <3>1. Serial!CancelConfirmedByCallee(m)
      BY <1>1, <2>1, <2>2, <2>5, SerialNames
         DEF Serial!CancelConfirmedByCallee, Serial!OnlyClientLeg, Beforehand
    <3> QED BY <3>1 DEF Serial!GatewayRelays
  <2>6. CASE client \notin Waiting \cup {"BYE", "CANCELING"}
    <3>1. Serial!UnexpectedOkFromCallee(m)
      BY <1>1, <2>1, <2>2, <2>6, SerialNames
         DEF Serial!UnexpectedOkFromCallee, Serial!OnlyClientLeg, Beforehand
    <3> QED BY <3>1 DEF Serial!GatewayRelays
  <2> QED BY <2>3, <2>4, <2>5, <2>6
<1> QED BY <1>2, <1>3, <1>4, <1>5 DEF Started

\* A message that no method is for, or that no handler is listed for.
LEMMA DroppedOfCaller ==
  ASSUME THInv, NoneOwn, fromCaller # <<>>, NEW m, m = Head(fromCaller),
         ~(m = Req("INVITE") /\ ~serverKnown), NextFromCaller, bridged' = bridged,
         ~serverKnown \/ MethodFor(m) = {}, SameThen
  PROVE  Serial!GatewayServes
<1>1. /\ ThreadsTypeOK /\ OneInvite /\ fromCaller \in Seq(Message)
  BY DEF THInv, Everywhere, ThreadsTypeOK, TypeOK
<1>2. m \in Message /\ m \in InFlight(fromCaller) /\ m = fromCaller[1] /\ 1 \in 1..Len(fromCaller)
  BY <1>1, TailHolds
<1>3. m # Req("INVITE")
  BY <1>1, <1>2 DEF OneInvite, InviteIsFirst, InviteLeads, Unbegun
<1>4. m # Req("OWN")
  BY <1>2 DEF NoneOwn
<1>5. thenServerKnown => IsPassedOver(m.code)
  BY <1>1, <1>2, <1>3, <1>4, KnownFalls, DroppedIsPassedOver
<1>6. Serial!NextFromCaller
  BY DEF NextFromCaller, Serial!NextFromCaller, agents, Serial!agents
<1>7. UNCHANGED <<Serial!serverVars, Serial!clientVars, bridged>>
  BY DEF SameThen, Serial!serverVars, Serial!clientVars
<1>8. Serial!IgnoredFromCaller(m)
  BY <1>3, <1>5, <1>6, <1>7, SerialNames DEF Serial!IgnoredFromCaller
<1> QED BY <1>8 DEF Serial!GatewayServes

LEMMA DroppedOfCallee ==
  ASSUME THInv, fromCallee # <<>>, NEW m, m = Head(fromCallee),
         NextFromCallee, bridged' = bridged,
         ~clientKnown \/ MethodFor(m) = {}, SameThen
  PROVE  Serial!GatewayRelays
<1>1. /\ ThreadsTypeOK /\ CalleeMessages /\ fromCallee \in Seq(Message)
  BY DEF THInv, Everywhere, ThreadsTypeOK, TypeOK
<1>2. m \in Message /\ m \in InFlight(fromCallee)
  BY <1>1, TailHolds
<1>3. m.code = 0 => m = Req("BYE")
  BY <1>1, <1>2 DEF CalleeMessages
<1>4. m = Req("BYE") => MethodFor(m) # {}
  <2>1. Req("BYE") # Req("ACK") /\ Req("BYE") # Req("CANCEL")
    BY DEF Req
  <2> QED BY <2>1 DEF MethodFor
<1>5. MethodFor(m) = {} => IsPassedOver(m.code)
  <2>1. Req("INVITE").code = 0 /\ Req("OWN").code = 0
    BY DEF Req
  <2> QED BY <1>2, <1>3, <1>4, <2>1, DroppedIsPassedOver
<1>6. thenClientKnown => IsPassedOver(m.code)
  BY <1>1, <1>5, KnownFalls
<1>7. Serial!NextFromCallee
  BY DEF NextFromCallee, Serial!NextFromCallee, agents, Serial!agents
<1>8. UNCHANGED <<Serial!serverVars, Serial!clientVars, bridged>>
  BY DEF SameThen, Serial!serverVars, Serial!clientVars
<1>9. Serial!IgnoredFromCallee(m)
  BY <1>6, <1>7, <1>8, SerialNames DEF Serial!IgnoredFromCallee
<1> QED BY <1>9 DEF Serial!GatewayRelays

-----------------------------------------------------------------------------
(* No agent sends a request of the gateway's own making. *)

Utterances ==
  {<<>>, <<Req("INVITE")>>, <<Req("ACK")>>, <<Req("CANCEL")>>, <<Req("BYE")>>,
   <<Req("ACK"), Req("BYE")>>, <<Resp(200, "BYE")>>, <<Resp(481, "BYE")>>}

LEMMA UtteranceHolds ==
  ASSUME NEW messages \in Utterances
  PROVE  messages \in Seq(Message) /\ \A m \in InFlight(messages) : m # Req("OWN")
<1>1. /\ \A a \in {"INVITE", "ACK", "CANCEL", "BYE"} : a \in Method /\ a # "OWN"
      /\ "OWN" \in Method /\ 200 \in Status /\ 481 \in Status
  BY DEF Method, Status
<1>2. \A a \in {"INVITE", "ACK", "CANCEL", "BYE"} : Req(a) \in Message /\ Req(a) # Req("OWN")
  BY <1>1, RequestIsMessage, RequestsDiffer
<1>3. \A code \in {200, 481} : Resp(code, "BYE") \in Message /\ Resp(code, "BYE") # Req("OWN")
  BY <1>1, ResponseIsMessage, ResponseIsNoRequest
<1>4. PICK invite, ack, cancel, bye, ok, gone :
        /\ invite = Req("INVITE") /\ ack = Req("ACK") /\ cancel = Req("CANCEL") /\ bye = Req("BYE")
        /\ ok = Resp(200, "BYE") /\ gone = Resp(481, "BYE")
  OBVIOUS
<1>5. \A m \in {invite, ack, cancel, bye, ok, gone} : m \in Message /\ m # Req("OWN")
  BY <1>2, <1>3, <1>4
<1>6. \/ messages = <<>>
      \/ \E m \in {invite, ack, cancel, bye, ok, gone} : messages = <<m>>
      \/ messages = <<ack, bye>>
  BY <1>4 DEF Utterances
<1>7. CASE messages = <<>>
  BY <1>7, LiteralHolds
<1>8. CASE \E m \in {invite, ack, cancel, bye, ok, gone} : messages = <<m>>
  <2>1. PICK m \in {invite, ack, cancel, bye, ok, gone} : messages = <<m>>
    BY <1>8
  <2>2. <<m>> \in Seq(Message) /\ InFlight(<<m>>) = {m}
    BY <1>5, LiteralHolds
  <2> QED BY <1>5, <2>1, <2>2
<1>9. CASE messages = <<ack, bye>>
  <2>1. <<ack, bye>> \in Seq(Message) /\ InFlight(<<ack, bye>>) = {ack, bye}
    BY <1>5, LiteralHolds
  <2> QED BY <1>5, <1>9, <2>1
<1> QED BY <1>6, <1>7, <1>8, <1>9

LEMMA CallerUtters ==
  ASSUME TypeOK, CallerActs
  PROVE  \E state, messages : messages \in Utterances /\ CallerDoes(state, messages)
<1>1. CASE CallerDials \/ CallerCancels \/ CallerHangsUp
  BY <1>1 DEF CallerDials, CallerCancels, CallerHangsUp, Utterances
<1>2. CASE CallerTakes
  <2>1. toCaller # <<>> /\ toCaller \in Seq(Message)
    BY <1>2 DEF CallerTakes, TypeOK
  <2>2. PICK m \in {Head(toCaller)} :
          CASE m = Req("BYE") -> CallerTakesBye
            [] m.code # 0 /\ m.method = "INVITE" -> CallerTakesInviteResponse(m.code)
            [] m.code # 0 /\ m.method = "BYE" /\ caller = "hungup" -> CallerDoes("ended", <<>>)
            [] OTHER -> CallerDoes(caller, <<>>)
    BY <1>2 DEF CallerTakes
  <2>3. m.code \in 0..699
    <3>1. m \in Message
      BY <2>1, <2>2, TailHolds
    <3> QED BY <3>1 DEF Message
  <2>4. \/ CallerTakesBye \/ CallerTakesInviteResponse(m.code)
        \/ CallerDoes("ended", <<>>) \/ CallerDoes(caller, <<>>)
    <3>1. Req("BYE").code = 0
      BY DEF Req
    <3> QED BY <2>2, <3>1
  <2>5. CallerTakesBye =>
          \E state, messages : messages \in Utterances /\ CallerDoes(state, messages)
    BY DEF CallerTakesBye, Utterances
  <2>6. ASSUME CallerTakesInviteResponse(m.code)
        PROVE  \E state, messages : messages \in Utterances /\ CallerDoes(state, messages)
    <3>1. \E state : \/ CallerDoes(state, <<>>) \/ CallerDoes(state, <<Req("ACK")>>)
                     \/ CallerDoes(state, <<Req("ACK"), Req("BYE")>>)
      BY <2>3, <2>6, InviteResponses
    <3> QED BY <3>1 DEF Utterances
  <2> QED BY <2>4, <2>5, <2>6 DEF Utterances
<1> QED BY <1>1, <1>2 DEF CallerActs

LEMMA NoneOwnStays ==
  ASSUME THInv, NoneOwn, ThreadsNext
  PROVE  NoneOwn'
<1>1. fromCaller \in Seq(Message) /\ TypeOK
  BY DEF THInv, Everywhere, ThreadsTypeOK, TypeOK
<1>2. CASE fromCaller' = fromCaller \/ fromCaller' = <<>>
  BY <1>2, LiteralHolds DEF NoneOwn
<1>3. CASE fromCaller # <<>> /\ fromCaller' = Tail(fromCaller)
  BY <1>1, <1>3, TailHolds DEF NoneOwn
<1>4. CASE CallerActs
  <2>1. PICK state, messages : messages \in Utterances /\ CallerDoes(state, messages)
    BY <1>1, <1>4, CallerUtters
  <2>2. fromCaller' = Sent("server", fromCaller, messages)
    BY <2>1 DEF CallerDoes
  <2>3. messages \in Seq(Message) /\ \A m \in InFlight(messages) : m # Req("OWN")
    BY <2>1, UtteranceHolds
  <2>4. InFlight(fromCaller') \subseteq InFlight(fromCaller) \cup InFlight(messages)
    BY <1>1, <2>2, <2>3, SentHolds
  <2> QED BY <2>3, <2>4 DEF NoneOwn
<1>5. ServerThreadTakes => fromCaller # <<>> /\ fromCaller' = Tail(fromCaller)
  BY InviteServed DEF ServerThreadTakes, NextFromCaller, NewInvite
<1>6. ClientThreadTakes \/ Continue("server") \/ Continue("client") \/ CalleeActs
      => fromCaller' = fromCaller
  BY DEF ClientThreadTakes, NextFromCallee, Continue, CalleeActs
<1>7. SessionCloses => fromCaller' = fromCaller \/ fromCaller' = <<>>
  BY DEF SessionCloses
<1> QED BY <1>2, <1>3, <1>4, <1>5, <1>6, <1>7
        DEF ThreadsNext, ServerThread, ClientThread, Environment

LEMMA ThreadsNoneOwn == ThreadsSpec => []NoneOwn
<1>1. ThreadsInit => NoneOwn
  BY LiteralHolds DEF ThreadsInit, Init, NoneOwn
<1>2. UNCHANGED tvars /\ NoneOwn => NoneOwn'
  BY DEF tvars, vars, NoneOwn, InFlight
<1>3. THInv /\ NoneOwn /\ [ThreadsNext]_tvars => NoneOwn'
  BY <1>2, NoneOwnStays
<1> QED BY <1>1, <1>3, ThreadsInductive, PTL DEF ThreadsSpec

-----------------------------------------------------------------------------
(* The agents and the sessions: what they do to the wires now, they do to  *)
(* the wires at the end of the thread.                                     *)

LegsRest ==
  /\ thenServer' = thenServer /\ thenClient' = thenClient
  /\ thenServerReq' = thenServerReq /\ thenClientReq' = thenClientReq
  /\ thenServerKnown' = thenServerKnown /\ thenClientKnown' = thenClientKnown

LEMMA TypedNow == TypeOK => Now \in Shared
BY NowIsShared

LEMMA WiresThen ==
  ASSUME ThreadsTypeOK, ThreadsTypeOK', NEW taken, NEW h, NEW closed, Disjoint(taken, closed),
         up' = up \ closed, bridged' = bridged, todo' = todo,
         UNCHANGED <<server, serverReq, serverKnown, client, clientReq, clientKnown>>,
         WireKin(taken, h, closed, "server", toCaller, toCaller'),
         WireKin(taken, h, closed, "client", toCallee, toCallee')
  PROVE  /\ LegsRest
         /\ WireKin(taken, h, closed, "server", thenToCaller, thenToCaller')
         /\ WireKin(taken, h, closed, "client", thenToCallee, thenToCallee')
<1>1. PICK now : now = Now
  OBVIOUS
<1>2. PICK n : n = Now'
  OBVIOUS
<1>3. PICK plan : plan = Plan
  OBVIOUS
<1>4. now \in Shared /\ plan \in Seq(Operation)
  BY <1>1, <1>3, PlanTyped
<1>5. n \in Shared
  <2>1. (TypeOK => Now \in Shared)'
    BY TypedNow, PTL
  <2> QED BY <1>2, <2>1 DEF ThreadsTypeOK
<1>6. Plan' = plan
  BY <1>3 DEF Plan
<1>7. SharedKin(taken, h, closed, now, n)
  BY <1>1, <1>2 DEF SharedKin, Now, Legs
<1>8. PICK c \in Points, d \in Points :
        Ends(Point(now, plan), c) /\ Ends(Point(n, plan), d)' /\ Kin(taken, h, closed, c, d)
  BY <1>4, <1>5, <1>7, EndKin
<1>9. Completed = c.now
  BY <1>1, <1>3, <1>8, CompletedIs
<1>10. Completed' = d.now
  BY <1>2, <1>6, <1>8, CompletedThen
<1>11. SharedKin(taken, h, closed, c.now, d.now)
  BY <1>8 DEF Kin
<1>12. "server" \in Legs /\ "client" \in Legs
  BY DEF Legs
<1>13. LegsRest
  BY <1>9, <1>10, <1>11 DEF SharedKin, LegsRest, thenServer, thenClient, thenServerReq,
                            thenClientReq, thenServerKnown, thenClientKnown
<1>14. \A leg \in Legs : WireKin(taken, h, closed, leg, c.now.wire[leg], d.now.wire[leg])
  BY <1>11 DEF SharedKin
<1>15. /\ thenToCaller = c.now.wire["server"] /\ thenToCaller' = d.now.wire["server"]
       /\ thenToCallee = c.now.wire["client"] /\ thenToCallee' = d.now.wire["client"]
  BY <1>9, <1>10 DEF thenToCaller, thenToCallee
<1> QED BY <1>12, <1>13, <1>14, <1>15

\* A message that is taken now is the head of the wire, and is so at the end.
LEMMA TakenThen ==
  ASSUME ThreadsTypeOK, ThreadsTypeOK', NEW leg \in Legs, up' = up, bridged' = bridged,
         todo' = todo,
         UNCHANGED <<server, serverReq, serverKnown, client, clientReq, clientKnown>>,
         IF leg = "server"
         THEN toCaller # <<>> /\ toCaller' = Tail(toCaller) /\ toCallee' = toCallee
         ELSE toCallee # <<>> /\ toCallee' = Tail(toCallee) /\ toCaller' = toCaller
  PROVE  /\ LegsRest
         /\ IF leg = "server"
            THEN /\ thenToCaller # <<>> /\ Head(thenToCaller) = Head(toCaller)
                 /\ thenToCaller' = Tail(thenToCaller) /\ thenToCallee' = thenToCallee
            ELSE /\ thenToCallee # <<>> /\ Head(thenToCallee) = Head(toCallee)
                 /\ thenToCallee' = Tail(thenToCallee) /\ thenToCaller' = thenToCaller
<1>1. PICK h : h = IF leg = "server" THEN Head(toCaller) ELSE Head(toCallee)
  OBVIOUS
<1>2. up' = up \ {} /\ Disjoint({leg}, {})
  BY DEF Disjoint
<1>3. /\ WireKin({leg}, h, {}, "server", toCaller, toCaller')
      /\ WireKin({leg}, h, {}, "client", toCallee, toCallee')
  BY <1>1 DEF WireKin, Legs
<1>4. /\ LegsRest
      /\ WireKin({leg}, h, {}, "server", thenToCaller, thenToCaller')
      /\ WireKin({leg}, h, {}, "client", thenToCallee, thenToCallee')
  BY <1>2, <1>3, WiresThen
<1> QED BY <1>1, <1>4 DEF WireKin, Legs

LEMMA SerialCallerDoes ==
  /\ \A state, messages : CallerDoes(state, messages) => Serial!CallerDoes(state, messages)
  /\ \A state, messages : CalleeDoes(state, messages) => Serial!CalleeDoes(state, messages)
BY DEF CallerDoes, Serial!CallerDoes, CalleeDoes, Serial!CalleeDoes, Serial!Sent, Sent

LEMMA SerialCallerTakes ==
  /\ CallerTakesBye => Serial!CallerTakesBye
  /\ \A code \in 0..699 :
       CallerTakesInviteResponse(code) => Serial!CallerTakesInviteResponse(code)
<1>1. CallerTakesBye => Serial!CallerTakesBye
  BY SerialCallerDoes, SerialNames DEF CallerTakesBye, Serial!CallerTakesBye
<1>2. ASSUME NEW code \in 0..699, CallerTakesInviteResponse(code)
      PROVE  Serial!CallerTakesInviteResponse(code)
  <2>1. Serial!IsOk(code) = IsOk(code) /\ Serial!Req("ACK") = Req("ACK") /\ Serial!Req("BYE") = Req("BYE")
    BY SerialNames
  <2> QED BY <1>2, <2>1, SerialCallerDoes
          DEF CallerTakesInviteResponse, Serial!CallerTakesInviteResponse
<1> QED BY <1>1, <1>2

LEMMA SerialCalleeTakes ==
  /\ CalleeTakesBye => Serial!CalleeTakesBye
  /\ CalleeTakesCancel => Serial!CalleeTakesCancel
BY SerialCallerDoes, SerialNames
   DEF CalleeTakesBye, Serial!CalleeTakesBye, CalleeTakesCancel, Serial!CalleeTakesCancel

LEMMA CallerIsSerial ==
  ASSUME ThreadsTypeOK, ThreadsTypeOK', CallerActs, todo' = todo
  PROVE  Serial!CallerActs
<1>1. /\ "server" \in up /\ up' = up /\ bridged' = bridged /\ toCallee' = toCallee
      /\ UNCHANGED <<server, serverReq, serverKnown, client, clientReq, clientKnown>>
      /\ UNCHANGED <<fromCallee, callee>>
  BY DEF CallerActs, clientVars
<1>2. CASE (CallerDials \/ CallerCancels \/ CallerHangsUp) /\ UNCHANGED toCaller
  <2>1. UNCHANGED <<serverVars, clientVars, bridged, up>>
    BY <1>1, <1>2 DEF serverVars, clientVars
  <2>2. SameThen
    BY <2>1, Unaffected
  <2>3. Serial!CallerDials \/ Serial!CallerCancels \/ Serial!CallerHangsUp
    BY <1>2, SerialCallerDoes, SerialNames
       DEF CallerDials, CallerCancels, CallerHangsUp,
           Serial!CallerDials, Serial!CallerCancels, Serial!CallerHangsUp
  <2> QED BY <1>1, <2>2, <2>3 DEF SameThen, Serial!CallerActs, Serial!clientVars
<1>3. CASE CallerTakes
  <2>1. toCaller # <<>> /\ toCaller' = Tail(toCaller) /\ toCaller \in Seq(Message)
    BY <1>3 DEF CallerTakes, ThreadsTypeOK, TypeOK
  <2>2. /\ LegsRest
        /\ thenToCaller # <<>> /\ Head(thenToCaller) = Head(toCaller)
        /\ thenToCaller' = Tail(thenToCaller) /\ thenToCallee' = thenToCallee
    <3>1. "server" \in Legs
      BY DEF Legs
    <3> QED BY <1>1, <2>1, <3>1, TakenThen
  <2>3. PICK m : m = Head(toCaller)
    OBVIOUS
  <2>4. m.code \in 0..699
    <3>1. m \in Message
      BY <2>1, <2>3, TailHolds
    <3> QED BY <3>1 DEF Message
  <2>5. (CASE m = Req("BYE") -> CallerTakesBye
           [] m.code # 0 /\ m.method = "INVITE" -> CallerTakesInviteResponse(m.code)
           [] m.code # 0 /\ m.method = "BYE" /\ caller = "hungup" -> CallerDoes("ended", <<>>)
           [] OTHER -> CallerDoes(caller, <<>>))
    BY <1>3, <2>3 DEF CallerTakes
  <2>6. (CASE m = Serial!Req("BYE") -> Serial!CallerTakesBye
           [] m.code # 0 /\ m.method = "INVITE" -> Serial!CallerTakesInviteResponse(m.code)
           [] m.code # 0 /\ m.method = "BYE" /\ caller = "hungup" -> Serial!CallerDoes("ended", <<>>)
           [] OTHER -> Serial!CallerDoes(caller, <<>>))
    <3>1. Serial!Req("BYE") = Req("BYE") /\ Req("BYE").code = 0
      BY SerialNames DEF Req
    <3>2. CASE m = Req("BYE")
      <4>1. CallerTakesBye
        BY <2>5, <3>1, <3>2
      <4>2. Serial!CallerTakesBye
        BY <4>1, SerialCallerTakes
      <4> QED BY <3>1, <3>2, <4>2
    <3>3. CASE m.code # 0 /\ m.method = "INVITE"
      <4>1. m # Req("BYE") /\ CallerTakesInviteResponse(m.code)
        BY <2>5, <3>1, <3>3
      <4>2. Serial!CallerTakesInviteResponse(m.code)
        BY <2>4, <4>1, SerialCallerTakes
      <4> QED BY <3>1, <3>3, <4>1, <4>2
    <3>4. CASE m.code # 0 /\ m.method = "BYE" /\ caller = "hungup"
      BY <2>5, <3>1, <3>4, SerialCallerDoes
    <3>5. CASE /\ m # Req("BYE") /\ ~(m.code # 0 /\ m.method = "INVITE")
               /\ ~(m.code # 0 /\ m.method = "BYE" /\ caller = "hungup")
      BY <2>5, <3>1, <3>5, SerialCallerDoes
    <3> QED BY <3>2, <3>3, <3>4, <3>5
  <2>7. Serial!CallerTakes
    BY <2>2, <2>3, <2>6 DEF Serial!CallerTakes
  <2> QED BY <1>1, <2>2, <2>7 DEF LegsRest, Serial!CallerActs, Serial!clientVars
<1> QED BY <1>2, <1>3 DEF CallerActs

LEMMA CalleeIsSerial ==
  ASSUME ThreadsTypeOK, ThreadsTypeOK', CalleeActs, todo' = todo
  PROVE  Serial!CalleeActs
<1>1. /\ "client" \in up /\ up' = up /\ bridged' = bridged /\ toCaller' = toCaller
      /\ UNCHANGED <<server, serverReq, serverKnown, client, clientReq, clientKnown>>
      /\ UNCHANGED <<fromCaller, caller>>
  BY DEF CalleeActs, serverVars
<1>2. CASE /\ \/ CalleeProgresses \/ CalleeAnswers \/ CalleeDeclines
              \/ CalleeRepeatsAnswer \/ CalleeHangsUp
           /\ UNCHANGED toCallee
  <2>1. UNCHANGED <<serverVars, clientVars, bridged, up>>
    BY <1>1, <1>2 DEF serverVars, clientVars
  <2>2. SameThen
    BY <2>1, Unaffected
  <2>3. \/ Serial!CalleeProgresses \/ Serial!CalleeAnswers \/ Serial!CalleeDeclines
        \/ Serial!CalleeRepeatsAnswer \/ Serial!CalleeHangsUp
    <3>1. CalleeProgresses => Serial!CalleeProgresses
      BY SerialCallerDoes, SerialNames DEF CalleeProgresses, Serial!CalleeProgresses
    <3>2. CalleeAnswers => Serial!CalleeAnswers
      BY SerialCallerDoes, SerialNames DEF CalleeAnswers, Serial!CalleeAnswers
    <3>3. CalleeDeclines => Serial!CalleeDeclines
      BY SerialCallerDoes, SerialNames DEF CalleeDeclines, Serial!CalleeDeclines
    <3>4. CalleeRepeatsAnswer => Serial!CalleeRepeatsAnswer
      BY SerialCallerDoes, SerialNames DEF CalleeRepeatsAnswer, Serial!CalleeRepeatsAnswer
    <3>5. CalleeHangsUp => Serial!CalleeHangsUp
      BY SerialCallerDoes, SerialNames DEF CalleeHangsUp, Serial!CalleeHangsUp
    <3> QED BY <1>2, <3>1, <3>2, <3>3, <3>4, <3>5
  <2> QED BY <1>1, <2>2, <2>3 DEF SameThen, Serial!CalleeActs, Serial!serverVars
<1>3. CASE CalleeTakes
  <2>1. toCallee # <<>> /\ toCallee' = Tail(toCallee)
    BY <1>3 DEF CalleeTakes
  <2>2. /\ LegsRest
        /\ thenToCallee # <<>> /\ Head(thenToCallee) = Head(toCallee)
        /\ thenToCallee' = Tail(thenToCallee) /\ thenToCaller' = thenToCaller
    <3>1. "client" \in Legs /\ "client" # "server"
      BY DEF Legs
    <3> QED BY <1>1, <2>1, <3>1, TakenThen
  <2>3. PICK m : m = Head(toCallee)
    OBVIOUS
  <2>4. (CASE m = Req("INVITE") /\ callee = "idle" -> CalleeDoes("alerting", <<>>)
           [] m = Req("ACK") /\ callee = "answered" -> CalleeDoes("talking", <<>>)
           [] m = Req("CANCEL") -> CalleeTakesCancel
           [] m = Req("BYE") -> CalleeTakesBye
           [] m.code # 0 /\ m.method = "BYE" /\ callee = "hungup" -> CalleeDoes("ended", <<>>)
           [] OTHER -> CalleeDoes(callee, <<>>))
    BY <1>3, <2>3 DEF CalleeTakes
  <2>5. (CASE m = Serial!Req("INVITE") /\ callee = "idle" -> Serial!CalleeDoes("alerting", <<>>)
           [] m = Serial!Req("ACK") /\ callee = "answered" -> Serial!CalleeDoes("talking", <<>>)
           [] m = Serial!Req("CANCEL") -> Serial!CalleeTakesCancel
           [] m = Serial!Req("BYE") -> Serial!CalleeTakesBye
           [] m.code # 0 /\ m.method = "BYE" /\ callee = "hungup" -> Serial!CalleeDoes("ended", <<>>)
           [] OTHER -> Serial!CalleeDoes(callee, <<>>))
    <3>1. PICK invite, ack, cancel, bye :
            /\ invite = Req("INVITE") /\ ack = Req("ACK")
            /\ cancel = Req("CANCEL") /\ bye = Req("BYE")
      OBVIOUS
    <3>2. /\ Serial!Req("INVITE") = invite /\ Serial!Req("ACK") = ack
          /\ Serial!Req("CANCEL") = cancel /\ Serial!Req("BYE") = bye
      BY <3>1, SerialNames
    <3>3. /\ invite.code = 0 /\ ack.code = 0 /\ cancel.code = 0 /\ bye.code = 0
          /\ invite.method = "INVITE" /\ ack.method = "ACK"
          /\ cancel.method = "CANCEL" /\ bye.method = "BYE"
      BY <3>1 DEF Req
    <3>4. CASE m = invite /\ callee = "idle"
      BY <2>4, <3>1, <3>2, <3>3, <3>4, SerialCallerDoes
    <3>5. CASE m = ack /\ callee = "answered"
      BY <2>4, <3>1, <3>2, <3>3, <3>5, SerialCallerDoes
    <3>6. CASE m = cancel
      BY <2>4, <3>1, <3>2, <3>3, <3>6, SerialCalleeTakes
    <3>7. CASE m = bye
      BY <2>4, <3>1, <3>2, <3>3, <3>7, SerialCalleeTakes
    <3>8. CASE m.code # 0 /\ m.method = "BYE" /\ callee = "hungup"
      BY <2>4, <3>1, <3>2, <3>3, <3>8, SerialCallerDoes
    <3>9. CASE /\ ~(m = invite /\ callee = "idle") /\ ~(m = ack /\ callee = "answered")
               /\ m # cancel /\ m # bye /\ ~(m.code # 0 /\ m.method = "BYE" /\ callee = "hungup")
      BY <2>4, <3>1, <3>2, <3>9, SerialCallerDoes
    <3> QED BY <3>4, <3>5, <3>6, <3>7, <3>8, <3>9
  <2>6. Serial!CalleeTakes
    BY <2>2, <2>3, <2>5 DEF Serial!CalleeTakes
  <2> QED BY <1>1, <2>2, <2>6 DEF LegsRest, Serial!CalleeActs, Serial!serverVars
<1> QED BY <1>2, <1>3 DEF CalleeActs

LEMMA ClosingIsSerial ==
  ASSUME ThreadsTypeOK, ThreadsTypeOK', SessionCloses, todo' = todo
  PROVE  Serial!SessionCloses
<1>1. PICK leg \in up \cap Unreliable :
        /\ up' = up \ {leg}
        /\ IF leg = "server"
           THEN toCaller' = <<>> /\ fromCaller' = <<>> /\ UNCHANGED <<toCallee, fromCallee>>
           ELSE toCallee' = <<>> /\ fromCallee' = <<>> /\ UNCHANGED <<toCaller, fromCaller>>
        /\ UNCHANGED <<server, serverReq, serverKnown, client, clientReq, clientKnown>>
        /\ UNCHANGED <<bridged, agents>>
  BY DEF SessionCloses
<1>2. leg \in Legs
  BY DEF ThreadsTypeOK, TypeOK
<1>3. Disjoint({}, {leg})
  BY DEF Disjoint
<1>4. /\ WireKin({}, <<>>, {leg}, "server", toCaller, toCaller')
      /\ WireKin({}, <<>>, {leg}, "client", toCallee, toCallee')
  BY <1>1, <1>2 DEF WireKin, Legs
<1>5. /\ LegsRest
      /\ WireKin({}, <<>>, {leg}, "server", thenToCaller, thenToCaller')
      /\ WireKin({}, <<>>, {leg}, "client", thenToCallee, thenToCallee')
  BY <1>1, <1>3, <1>4, WiresThen
<1>6. IF leg = "server"
      THEN thenToCaller' = <<>> /\ UNCHANGED thenToCallee
      ELSE thenToCallee' = <<>> /\ UNCHANGED thenToCaller
  BY <1>2, <1>5 DEF WireKin, Legs
<1>7. UNCHANGED <<bridged, Serial!agents>>
  BY <1>1 DEF agents, Serial!agents
<1> QED BY <1>1, <1>5, <1>6, <1>7 DEF LegsRest, Serial!SessionCloses

-----------------------------------------------------------------------------
(* The threads.                                                             *)

\* The methods of the caller's messages find the server leg, listed.
LEMMA ServerTakeIsSerial ==
  ASSUME THInv, NoneOwn, Alone', ServerThreadTakes
  PROVE  Serial!GatewayServes
<1>1. /\ ThreadsTypeOK /\ TypeOK /\ fromCaller \in Seq(Message) /\ serverKnown \in BOOLEAN
      /\ CallerMessages /\ CalleeMessages
  BY DEF THInv, Everywhere, ThreadsTypeOK, TypeOK
<1>2. todo["server"] = <<>> /\ fromCaller # <<>>
  BY DEF ServerThreadTakes
<1>3. PICK m : m = Head(fromCaller)
  OBVIOUS
<1>4. m \in Message /\ m \in InFlight(fromCaller)
  BY <1>1, <1>2, <1>3, TailHolds
<1>5. CASE /\ InviteMalformed(m) \/ InviteForbidden(m) \/ InviteStranded(m)
              \/ InviteBusy(m) \/ InviteRouted(m)
           /\ UNCHANGED todo
  <2>1. NewInvite(m)
    BY <1>5, InviteServed
  <2>2. todo["server"] = <<>> /\ todo["client"] = <<>>
    BY <1>2, <1>3, <2>1, InviteFindsRest
  <2>3. NowIsThen
    BY <1>1, <2>2, RestIsNow
  <2>4. ThreadsTypeOK'
    <3>1. THInv'
      BY ServerTakes
    <3> QED BY <3>1 DEF THInv, Everywhere
  <2>5. NowIsThen'
    <3>1. (ThreadsTypeOK /\ todo["server"] = <<>> /\ todo["client"] = <<>> => NowIsThen)'
      BY RestIsNow, PTL
    <3> QED BY <1>5, <2>2, <2>4, <3>1
  <2> QED BY <1>2, <1>3, <1>5, <2>3, <2>5, InviteIsSerial
<1>6. CASE /\ ~(m = Req("INVITE") /\ ~serverKnown)
           /\ NextFromCaller
           /\ Take("server", serverKnown, m)
           /\ UNCHANGED <<serverVars, clientVars, bridged>>
  <2>1. up' = up /\ bridged' = bridged /\ "server" \in Legs
    BY <1>6 DEF NextFromCaller, Legs
  <2>2. \/ (~serverKnown \/ MethodFor(m) = {}) /\ SameThen
        \/ serverKnown /\ \E name \in MethodFor(m) : Serving("server", name)
    BY <1>1, <1>2, <1>4, <1>6, <2>1, TakesHow
  <2>3. CASE (~serverKnown \/ MethodFor(m) = {}) /\ SameThen
    BY <1>2, <1>3, <1>6, <2>1, <2>3, DroppedOfCaller
  <2>4. CASE serverKnown /\ \E name \in MethodFor(m) : Serving("server", name)
    <3>1. PICK name \in MethodFor(m) : Serving("server", name)
      BY <2>4
    <3>2. Started("server", name)
      BY <1>1, <1>4, <2>1, <3>1, MessagesStart
    <3> QED BY <1>1, <1>2, <1>3, <1>4, <1>6, <2>4, <3>1, <3>2, ServedIsSerial
  <2> QED BY <2>2, <2>3, <2>4
<1> QED BY <1>3, <1>5, <1>6 DEF ServerThreadTakes

LEMMA ClientTakeIsSerial ==
  ASSUME THInv, Alone', ClientThreadTakes
  PROVE  Serial!GatewayRelays
<1>1. /\ ThreadsTypeOK /\ TypeOK /\ fromCallee \in Seq(Message) /\ clientKnown \in BOOLEAN
      /\ CallerMessages /\ CalleeMessages /\ (clientKnown => bridged) /\ bridged \in BOOLEAN
  BY DEF THInv, Everywhere, ThreadsTypeOK, TypeOK, OneInvite
<1>2. PICK m : m = Head(fromCallee)
  OBVIOUS
<1>3. /\ todo["client"] = <<>> /\ fromCallee # <<>> /\ NextFromCallee
      /\ Take("client", clientKnown, m) /\ UNCHANGED <<serverVars, clientVars, bridged>>
  BY <1>2 DEF ClientThreadTakes
<1>4. m \in Message /\ m \in InFlight(fromCallee)
  BY <1>1, <1>2, <1>3, TailHolds
<1>5. up' = up /\ bridged' = bridged /\ "client" \in Legs
  BY <1>3 DEF NextFromCallee, Legs
<1>6. \/ (~clientKnown \/ MethodFor(m) = {}) /\ SameThen
      \/ clientKnown /\ \E name \in MethodFor(m) : Serving("client", name)
  BY <1>1, <1>3, <1>4, <1>5, TakesHow
<1>7. CASE (~clientKnown \/ MethodFor(m) = {}) /\ SameThen
  BY <1>2, <1>3, <1>5, <1>7, DroppedOfCallee
<1>8. CASE clientKnown /\ \E name \in MethodFor(m) : Serving("client", name)
  <2>1. PICK name \in MethodFor(m) : Serving("client", name)
    BY <1>8
  <2>2. Started("client", name)
    BY <1>1, <1>4, <1>5, <2>1, MessagesStart
  <2> QED BY <1>1, <1>2, <1>3, <1>4, <1>8, <2>1, <2>2, RelayedIsSerial
<1> QED BY <1>6, <1>7, <1>8

-----------------------------------------------------------------------------
\* onACK, onBye, onCancel, onRinging, onReject and onOk, performed operation by
\* operation, are the steps of Call wherever the other thread does not come in
\* between: what is proved of Call holds of the threads unless they interleave.
THEOREM UninterruptedIsAtomic == ThreadsSpec => UninterruptedHandlersAreAtomic
<1>1. ASSUME THInv, THInv', NoneOwn, Exhausts, ThreadsNext, Alone, Alone'
      PROVE  Serial!Next \/ UNCHANGED Serial!vars
  <2>1. ThreadsTypeOK
    BY <1>1 DEF THInv, Everywhere
  <2>2. ThreadsTypeOK'
    BY <1>1 DEF THInv, Everywhere
  <2>3. CASE Continue("server") \/ Continue("client")
    <3>1. PICK thread \in Legs : Continue(thread)
      BY <2>3 DEF Legs
    <3>2. SameThen
      BY <1>1, <2>1, <3>1, ContinueIsNoStep
    <3>3. UNCHANGED <<bridged, up, fromCaller, fromCallee, agents>>
      BY <3>1 DEF Continue
    <3> QED BY <3>2, <3>3, SerialRests
  <2>4. CASE ServerThreadTakes
    BY <1>1, <2>4, ServerTakeIsSerial DEF Serial!Next
  <2>5. CASE ClientThreadTakes
    BY <1>1, <2>5, ClientTakeIsSerial DEF Serial!Next
  <2>6. CASE Environment
    <3>1. todo' = todo /\ (CallerActs \/ CalleeActs \/ SessionCloses)
      BY <2>6 DEF Environment
    <3> QED BY <2>1, <2>2, <3>1, CallerIsSerial, CalleeIsSerial, ClosingIsSerial DEF Serial!Next
  <2> QED BY <1>1, <2>3, <2>4, <2>5, <2>6 DEF ThreadsNext, ServerThread, ClientThread
<1>2. THInv /\ THInv' /\ NoneOwn /\ Exhausts /\ [ThreadsNext]_tvars
        => [Alone /\ Alone' => Serial!Next \/ UNCHANGED Serial!vars]_tvars
  BY <1>1
<1> QED BY <1>2, ThreadsInductive, ThreadsNoneOwn, ThreadsExhaust, PTL
        DEF ThreadsSpec, UninterruptedHandlersAreAtomic
=============================================================================
