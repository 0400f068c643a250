# Verification of the WebRTC SIP gateway

TLA+ models of the Java gateway under `src/src/main/java/sipserver/com` and of the
browser client it serves (`src/src/main/resources/static/js`), the TLC configurations that check them on small instances, and proofs for every
value of the constants.

The gateway is a back-to-back user agent for browsers that speak SIP over
WebSocket. A caller's INVITE makes one handler (the *server leg*), the gateway
sends an INVITE of its own to the callee with a second one (the *client leg*),
and `RouteService` passes what happens on one leg to the other. The browsers run
the client that the gateway itself serves: a page controller over `WebRTComm.js`,
which joins a SIP call with a peer connection, over `jain-sip.js`.

## 1. Inventory

| part | state | operations | talks to |
|---|---|---|---|
| dispatch (`Handler`) | none | `processSipMessage`, `processRequest`, `processResponse` | finds a handler by Call-ID and calls its `onX` |
| server leg (`InviteServerMessageHandler`, `MessageHandler`) | `messageState`, `request`, `response`, `callParam` | `onTrying`, `onRinging`, `onReject`, `onOk`, `onACK`, `onCancel(request)`, `onBye(request)`, `onBye()`, `onFinishImmediately` | its session, `RouteService` |
| client leg (`InviteClientMessageHandler`, `MessageHandler`) | the same | `onTrying`, `onRinging`, `onReject`, `onOk`, `onCancel()`, `onBye(request)`, `onBye()` | its session, `RouteService` |
| bridge (`RouteService`, `CoreElement.bridgedElements`) | pairs of `CallParam` | `route`, `observeBridgingForX` | the other leg's handler |
| registry (`CoreElement`) | `messageHandlerList`, `localExtensionList` | `addHandler`, `findHandler`, `removeHandler` | everything |
| extensions (`Extension`, `ExtensionBuilder`) | session, address, `expiresTime`, `registerTime`, `aliveTime` | `getExtension`, `isRegister`, `isAlive`, `keepRegistered`, `keepAlive`, `setSession` | REGISTER and OPTIONS handlers, `route` |
| REGISTER and OPTIONS handlers | `messageState` | `onTrying`, `onOk`, `onReject`, `onACK` | extensions, registry |
| periodic tasks (`ExtensionControlService`, `Task`) | three threads | send REGISTER to trunks, OPTIONS to extensions | extensions, registry |
| WebSocket transport (`ProgrammaticEnpoint`, `WebSocketMessageHandler`, `WebsocketListener`) | one session per browser | `onOpen`, `onMessage`, `onClose`, `onError`, `sendSipMessage` | dispatch, extensions |
| browser page (`WebRTComm.js`, `PrivateJainSipClientConnector`) | `sipRegisterState`, `openedFlag`, `sipUnregisterPendingFlag`, current REGISTER, timers | `open`, `close`, `processConnected`, `processTimeout`, `onSipRegisterTimeout`, `processSipRegisterResponse`, `processDisconnected` | its session |
| call connector (`WebRTComm.js`, `PrivateJainSipCallConnector`) | `sipCallState`, `sessionConnectors` of the client connector | `invite`, `accept`, `reject`, `close`, `processInviting...`, `processInvited...`, timeout | its call, jain-sip |
| call (`WebRTComm.js`, `WebRTCommCall`) | `connector`, `peerConnection`, `peerConnectionState`, `statsAlreadyRequested`; `onCall` for all calls | `open`, `accept`, `reject`, `hangup`, `close`, the callbacks of the peer connection | its connector, the browser, by `setTimeout` the controller |
| page controller (`TelScaleRTMController.js`) | `webRTCommCall`, the buttons shown | the four buttons, the listeners of a call's events | the calls |
| transactions (`jain-sip.js`) | `clientTransactionTable`, `serverTransactionTable`, a state and a timer each | `sendRequest`, `createCancel`, `processResponse`, `newSIPServerRequest`, `removeTransaction`, the intervals | connectors, the session |
| UDP transport | one socket | `listenSocket`, `send` | dispatch; not created in this build |

What is hard here: the two parties act at the same time, so BYE, CANCEL, 200
and rejections cross; responses are dispatched by Call-ID without looking at
their CSeq; handlers change the other leg's state before their own; sessions
close without any handler hearing of it; there is no timer anywhere; and the
container serves the two sessions on two threads without a lock. In the page every
callback runs to its end, but a click, an answer of the browser, a message, a
timer and an event posted with `setTimeout` come in any order, and each may find
the call half closed by another. `PROJECT.json`
lists each of these hazards at its line with the properties that cover it, or
why none does.

What makes each part correct:

* the call: a caller waits only on a live callee, is told of an answer only if
  there is one and gets one final response; hang-ups and cancellations end both
  legs, and no callee stays behind in a call. The code breaks the last of these in
  two ways (section 3), and the properties say in which;
* the registry: it holds exactly the handlers that are not over, but for a client
  handler that a late CANCEL revives outside it;
* extensions and pages: a page that is told it is online can be called, until
  another page of its extension takes the extension over; a page that connects comes
  online and one that closes goes offline, and none waits for an answer without a
  timer;
* a call of a page: its SIP half and its media half end together, whoever starts
  it; a call that is up can be reached by the gateway; the page never has two
  incoming calls, and lets go of a call that has gone;
* page to page: an opened call was accepted, and an outcome, a hang-up and a
  cancellation reach the other page;
* the transactions: a request has one outcome (two when a late 180 has removed its
  transaction) and does not wait for it for ever, and a CANCEL finds the INVITE that
  rings.

## 2. Modules

`Call.tla` is one call: both handlers, the dispatch of requests and responses
to them, the bridge, the two sessions and the two user agents.

| state in `Call` | in the code |
|---|---|
| `server`, `client` | `messageState` of the two handlers; `NONE` before the handler exists |
| `serverReq`, `clientReq` | which request `getRequest()` returns: responses cite it. `OWN` is a request the gateway made itself |
| `serverKnown`, `clientKnown` | whether `messageHandlerList` holds the handler |
| `bridged` | whether `bridgedElements` pairs the two `CallParam`s (it is never undone: `removeBridging` has no caller) |
| `up`, `toCaller` ... `fromCallee` | open sessions and what they carry, in order |
| `caller`, `callee` | the user agents (environment) |

Each branch of a handler method is an action: `InviteMalformed`,
`InviteForbidden`, `InviteStranded`, `InviteBusy` and `InviteRouted` are the
ways `onTrying` and `route` end; `AckFromCaller`, `CancelFromCaller`,
`ByeFromCaller`, `OkFromCaller` and `RejectFromCaller` are the other messages
of the caller; `RingingFromCallee` to `ByeFromCallee` are those of the callee.
An action includes all that the handler calls: the other leg through
`observeBridgingForX` (`OnServerLeg`, `OnClientLeg`), what is sent, and
`onFinishImmediately`. `BUSY` is left again within the same call of
`onReject`, so only `FINISH` is seen.

The environment is two user agents that follow RFC 3261: the caller sends
CANCEL after a provisional response and BYE when in the call; a CANCEL that
meets the answer is followed by ACK and BYE; the callee answers CANCEL with 200
and 487, and repeats its 2xx until the ACK (`Retransmits`). A session may close
(`Unreliable`): what is in flight and what is sent later is lost.

`TwoLegs.tla` is what a back-to-back user agent promises, over two variables:
the phases (none, offered, alerting, connected, released) of the caller's and
the callee's leg. `Call` implements it under the mapping `PhaseOf`; the property
`LegsInLockStep` is `Abstract!Spec`. `LoseCallee` is in it because the code
does it: a callee that hangs up before the caller's ACK has arrived leaves the
caller's leg connected.

`CallThreads.tla` is the same call without run-to-completion. The variable `todo`
holds what the thread of each session still has to do: assignments (`Become`,
`Cite`, `Forget`), sends (`Reply`, `Ask`) and method calls (`Run`), which are
replaced by the method's `Body` when the thread reaches them and reads the
state. `onOk()` reads it twice, since `super.onOk()` reads it again. The order of
the operations is that of the source: `onBye()` sets the state before the
request, `onBye(request)` the other way round. The handler of the INVITE stays
one step, because nothing is shared before its last action, the INVITE to the
callee. Assignments are taken to be seen by the other thread in program order;
the fields are not volatile, so Java promises less.

`HandlersAtomic.tla` relates the two models. `Completed` is what the threads share
after what is left in `todo` has been carried out, and `Serial` is `Call` with it in
place of the variables: `UninterruptedHandlersAreAtomic` says that a handler which the
other thread does not interrupt is one step of `Call`, taken when its message is, and
that its operations are none. `AtTheEnd` takes nine operations, the most that a handler
has; it is no recursive operator, so that it can be proved about.

`Registration.tla` is the registrar and the pages. A page makes a connector and a
session each time it connects (`WebRTCommClient.open`), so one member of
`Sessions` stands for both; several may name one extension, as tabs and reloaded
pages do.

| state in `Registration` | in the code |
|---|---|
| `session`, `registered` | `Extension.session`, and whether `registerTime` is set |
| `known` | the Call-IDs for which `messageHandlerList` has a REGISTER handler |
| `socket`, `toGateway`, `toPage` | each WebSocket (`closed`: the page knows; `gone`: `onClose()` has run) and what it carries |
| `state`, `opened`, `closing` | `sipRegisterState`, `openedFlag`, `sipUnregisterPendingFlag` |
| `request`, `waiting` | `jainSipRegisterRequest`, and whether its transaction still runs |
| `now` | the clock of the page, from which it takes Call-IDs |

`IgnoreRegister`, `ForbidRegister` and `AcceptRegister` are the ways a REGISTER
goes through `processRequest` and `onTrying`, `OnClose` is the end of a session;
`Open`, `Refresh`, `Close`, `Timeout`, `Receive` and `SessionCloses` are the
handlers of the connector. What the code does here, and the model with it:

* `onTrying` stores the session before it asks `isRegister()`, which is then
  true. Every REGISTER of a local extension is answered 200; the branches for
  passwords and challenges, and the 401 states of the page, are never reached.
* `Expires` is not read. A page that unregisters binds its extension once more,
  also when another page of the extension is the one that stays.
* `removeSession()` has no effect: the key differs from the one `setSession()`
  uses, and `setSession(null)` returns at once. An extension stays bound to a
  closed session. With the key alone repaired (`RemoveSessionForReal`) an extension
  could lose its session while a page of it is online.
* A REGISTER whose Call-ID is in the registry is dropped, and Call-IDs are
  milliseconds, so pages can collide; the page's timeout then tries again.

A REGISTER is served in one step. Its only reads that another thread can
change are the registry's, where two REGISTERs of one Call-ID served at the same
moment would both be answered.

`Page.tla` has what a page does with one call, as operators from the call a
handler works on to the call it leaves (`Work`: the call, the flag `onCall`, the
events posted and the messages sent). They are shared by the two modules below.

| field of a call in `Page` | in the code |
|---|---|
| `sip` | `sipCallState`; `NONE` after `resetSipContext()` |
| `known`, `linked` | whether `sessionConnectors` holds the connector; whether the call's `connector` is defined |
| `peer` | `peerConnection` and `peerConnectionState` |
| `task` | the callback of the browser that is to come |
| `stats` | how far the `getStats()` of `close()` has come |
| `invite` | the INVITE's client transaction, as far as it drops late answers |

`ConnectorClose`, `Close` and `Hangup` call each other as `close()`, `close()` and
`hangup()` of the two classes do: the connector's `close()` tells the call, whose
`close()` asks for the statistics, whose callback hangs up, which closes the
connector once more. Each has to find out how far the others have come.

`PageCall.tla` is a page with several calls: `UserDials`, `UserEnds`, `UserAccepts`
and `UserRejects` are the controller's buttons, `BrowserCallsBack`, `StatsCome`,
`IceFails` and `TimesOut` the browser and its timers, `PageTakes` a message of the
gateway, `TimerRuns` the oldest event posted with `setTimeout(1)`. The gateway is
the one of `Call` seen from one leg (`GatewayTakes`). It takes a page's messages at
once, which the page cannot tell from any other delay: it sees only its own wire,
on which what the gateway sent before may still be.

`CallPages.tla` EXTENDS `Call` and `Page`: the gateway's actions of `Call` between two
pages instead of the two RFC 3261 agents. The page that dials cancels without
waiting for a provisional response, does not acknowledge a 200 that crosses its
CANCEL, and the page that is called answers three browser callbacks after the
click; `Call` alone does not have these.

`Transactions.tla` is the transaction layer of one page's jain-sip.

| state in `Transactions` | in the code |
|---|---|
| `client[x]` | the client transaction of a request: state, `timeoutTimerTicksLeft`, whether its interval runs (`ticking`), whether `clientTransactionTable` has it (`mapped`), and how often the listener was told of its end (`told`) |
| `replied` | the requests whose final response has arrived: the gateway answers a request once |
| `server[c]` | state and timer of the INVITE server transaction |
| `table` | `serverTransactionTable`, in order |
| `late` | a history of which INVITEs a provisional response has removed from the table after their end |
| `disturbed` | a history of whether the condition of `RingingIsFound` still holds |

`Final` has the three places a final response can find: its transaction, a
transaction that is over but still mapped, and none. `Provisional` has what a
provisional response does, also to a transaction that is over: `processResponseargu3()`
means to drop it, but tests `getStatusCode() / 100 == 1`, which is true of 100 only. A
180 or 183 goes on and removes the transaction (`PassesFilter`), and the final response
that follows finds none. In `Page` this is why a final answer to an INVITE that has
timed out may reach the connector or not (`LateAnswer`). `EvictFirst` is what
`removeTransaction()` does to the table of server transactions: it compares the key
with the entry instead of its first element, never finds it, and `splice(null, 1)`
removes the oldest entry.

The modules with `MC` in front give the instances; `CallProofs.tla`,
`ThreadsProofs.tla`, `AtomicProofs.tla`, `RegistrationProofs.tla`,
`TransactionsProofs.tla`, `PageProofs.tla` and `CallPagesProofs.tla` hold the proofs, and
`PageLemmas.tla` what the last two need to know of the operators of `Page`.

Operators whose comment begins with "Mutant" are wrong variants of the
definition below them. No specification uses them; they document, for each
property, a plausible bug that the property finds.

## 3. Runs

| run | instance | properties | states |
|---|---|---|---|
| `call_safety` | all response classes, sessions may close, repeated 2xx | `TypeOK`, `NoOrphanCallee`, `CallerWaitsOnLiveLeg`, `NoPhantomAnswer`, `OneFinalResponse`, `ByeOnlyAfterAnswer`, `RegistryMatchesState`, `LegsInLockStep` | 4204 |
| `call_settles` | relayed codes, repeated 2xx, fairness | `RoutedCallSettles` | 2249 |
| `call_hangup` | relayed codes, repeated 2xx, fairness | `HangupEndsBothParties`, `CancelFinishesClientLeg` | 2249 |
| `threads_safety` | as `call_safety`, one thread per session | `ThreadsTypeOK`, `NoPhantomAnswer`, `OneOutcome`, `ByeOnlyAfterAnswer`, `StayingCallerIsSafe`, `UninterruptedHandlersAreAtomic` | 138852 |
| `threads_settle` | as `call_settles`, one thread per session | `RoutedCallSettles` | 87380 |
| `registration_safety` | two pages of one extension, sessions may close, timeouts may race with answers | `TypeOK`, `OnlineMeansBound`, `NothingIsDue`, `NeverStuck` | 81675 |
| `registration_settles` | pages of two extensions and of an unknown one, fairness | `ConnectsInTheEnd`, `ClosesInTheEnd` | 21848 |
| `page_call` | one page, two calls, with and without media, fairness | `TypeOK`, `Reachable`, `OpenHasMedia`, `OneIncoming`, `OnCallMeansCall`, `ClosingCompletes`, `PointerIsReleased` | 306909 |
| `call_pages` | two pages and the gateway, with and without media, fairness | `PagesTypeOK`, `OpenedMeansAccepted`, `OutcomeReachesCaller`, `HangupReachesPeer`, `CancelStopsRinging` | 9261 |
| `transactions` | one dialled and three offered calls, timers of two ticks, fairness | `TypeOK`, `ToldOnce`, `RingingIsFound`, `ClientsSettle` | 563469 |
| `call_cancel487` | relayed codes, fairness | `CancelledInviteIsAnswered`, violated | |
| `call_cancel_late` | relayed codes | `CancelOnlyWhileUnanswered`, violated | |

Bounds. `Codes` has one code for each class that `processResponse` tells apart
(100, 300 and 401 passed over; 180; 200 and another 2xx; 486 with a branch of
its own; 500 in the last one). `MaxPending` is 2: two provisional or repeated
answers in flight are enough for one to be overtaken by a CANCEL or BYE and for
a second 2xx to find the leg already in CALLING; the other messages are bounded
by the protocol. Deadlock is not checked, since a call ends.

Bounds of `Registration`. `MaxSkip` is how far a page's clock moves between two
REGISTERs: 2 lets two pages meet in a Call-ID or miss each other. After
`LastChoice` a page no longer refreshes or closes of its own accord, so that under
`MaxCallId` there is a Call-ID left for every retry; in the liveness run
`MaxSkip` is 1, every page uses every Call-ID, and collisions are the rule.
`Racing` lets the 32-second timer run out while the answer is on its way. The
liveness run leaves that out, since a page whose every answer comes too late
would use up the Call-IDs, and it keeps the sessions open, since a closed session
makes both properties trivial.

Bounds of the page. Two calls are what one pointer, one flag and `clientIsBusy()`
need to be confused: a dialled call with an incoming one, two dialled ones (the
page may dial again when the pointer is released), two incoming ones. `Media` has
both values, so every dial and every accept may find no media stream.

Bounds of the transactions. Three offered calls are one that rings, one that was
declined before and one that is declined meanwhile; the entries of their CANCELs and
BYEs fill the table. `Timer` 2 instead of 64 ticks lets a response come before the
first tick, between the two and after the last. The client and the server side
share no variable and no property speaks of both, so the constraint
`OneSideMoves` of `MCTransactions` explores each side with the other at rest. A state
where both have moved differs from these in nothing a property looks at.

Fairness of the page. `setTimeout`, `setInterval` and the browser call back, and the
WebSocket delivers: one weak fairness condition on the event loop of a page
(`PageCall`), of both pages and the gateway (`CallPages`), of the intervals
(`Transactions`). In each of them what the loop can do without a new click or
message comes to an end, so a step that stays possible is reached. The user, the
other party and a failing connection have no fairness.

Fairness of `Registration`. The gateway reads what arrives, the page reads its
socket, and the timer of a running transaction runs out. Opening, refreshing and
closing are choices.

Fairness (`Fairness` in `Call`). The container gives every message of an open
session to a thread, and handlers do not wait for anything, so `GatewayServes`
and `GatewayRelays` are weakly fair. The user agents read their sockets, and the
callee answers or declines in the end. Dialling, cancelling, hanging up and
closing a session are choices and have no fairness. The liveness runs keep the
sessions open, because the gateway has no timer that would end a call whose
party is gone, and leave out the codes that it passes over (300, 401), after
which both parties wait for ever.

What the threads change. `NoPhantomAnswer`, `ByeOnlyAfterAnswer` and
`RoutedCallSettles` do not depend on handlers running to completion. The other
properties of `Call` do. What is left of them here is `OneOutcome`, and for a caller that
stays in the call `StayingCallerIsSafe`, whose last conjunct is that a connected callee has
a caller who was answered and not released:

* the caller's BYE served between `onOk()` on the server leg and
  `messageState = CALLING` on the client leg does nothing to the client leg, which
  stays in CALLING (`NoOrphanCallee`);
* a CANCEL served inside `onRinging()` is overwritten by RINGING on either leg
  (`CallerWaitsOnLiveLeg`), and the callee's 200 for the CANCEL is then taken for
  an answer;
* a CANCEL served while a rejection finishes the server leg revives it outside
  `messageHandlerList` (`RegistryMatchesState`);
* a BYE served between the two assignments of `onBye()` is refused with a 400
  that cites the INVITE (`OneFinalResponse`).

What the gateway's properties leave out, because the code does otherwise.

* `NoOrphanCallee`: when everything sent has arrived on open sessions, no callee talks
  to a caller that has hung up, with two exceptions. A CANCEL that crosses the answer is
  accepted (`call_cancel_late` below), so `serverReq` is the CANCEL and the BYE finds no
  handler. And a callee that repeats its 2xx runs `onOk()` in CALLING, which finishes
  the client leg (`client = "FINISH"`), so that the caller's BYE is not passed on. A
  closed session leaves the other party in the call, too; nothing in the gateway could
  tell it, and the property is about open ones.
* `HangupEndsBothParties` is about a hang-up that both legs have seen (BYE on both
  sides). A hang-up seen by the server leg alone is the second exception above.
  `CancelFinishesClientLeg` is about a client leg that is still in `messageHandlerList`:
  the CANCEL of a caller that crosses a repeated 2xx revives the finished leg
  (`onCancel()` does not look at the state), and as no response reaches it, it stays in
  CANCELING.
* `RegistryMatchesState` has that revived leg as its one exception (`Revived`).
* `OnlineMeansBound`: an online page is the one its extension is bound to, on an open
  session, unless another page has taken the extension over. A page that
  unregisters does so as well, since `Expires` is not read; then the extension is bound to a
  session that closes, and the page that stays online cannot be called.
* `ToldOnce`: an INVITE that has timed out, or whose CANCEL has, and then hears a 180 or
  183 is forgotten, and the final response is told as a second outcome.

What the page's properties leave out, because the code does otherwise.

* `ClosingCompletes` and `PointerIsReleased` name calls whose `getStats()` failed: the
  error is logged and nothing else, so the call stays open.
* `HangupReachesPeer` promises the callee's hang-up to the caller only when the gateway
  has the caller's ACK: before it, `onBye()` does nothing on the server leg.
* `CancelStopsRinging` says that the callee's page stops ringing. After a CANCEL that
  crosses the 200 it stops because it believes to be in the call: the page that
  cancelled sends neither ACK nor BYE.
* `OnCallMeansCall` holds, but a dial without media leaves both the flag and the
  registered connector behind: the page can then neither dial nor be called.
* `RingingIsFound` has a condition. Without it TLC finds the case within a few steps: an
  INVITE is declined because another one rings, the gateway sends no ACK for a
  rejection, 32 seconds later timer H removes the oldest entry, which is the ringing
  INVITE's, and its CANCEL is answered 481 while the page rings on.

What the two violations show.

* `call_cancel487`: `resources/sipCancel.txt` and `sipCancel2.txt`, the traces
  kept as the reference for cancelling, have 200 for the CANCEL and then 487
  for the INVITE. The gateway sends only the 200, and the caller waits for ever.
* `call_cancel_late`: `onCancel(request)` means to refuse a CANCEL outside
  TRYING and RINGING, but its condition cannot be true. A CANCEL that crosses
  the answer takes the server leg to CANCELING; the caller's ACK then finishes
  it, its BYE finds no handler, and the callee stays in the call: the first exception of
  `NoOrphanCallee`.

## 4. Proofs

`CallProofs.tla` proves, for every set of codes in 100..699, every `MaxPending`
and every set of sessions that may close:

| theorem | states |
|---|---|
| `Inductive` | `IInv` holds in every reachable state |
| `TypeCorrect` | `TypeOK` |
| `RegistryCorrect` | `RegistryMatchesState` |
| `WaitingCallerHasLeg` | `CallerWaitsOnLiveLeg` |
| `CalleeNotOrphaned` | `NoOrphanCallee` |
| `AnswersAreReal` | `NoPhantomAnswer` |
| `HangupsFollowAnswers` | `ByeOnlyAfterAnswer` |
| `OneFinalResponseHolds` | `OneFinalResponse` |
| `LegsMoveTogether` | `LegsInLockStep`: `Call` implements `TwoLegs` |

None of the invariants is inductive alone. `CallerWaitsOnLiveLeg` needs to know which
states of the two legs occur together (`LegsAgree`); that in turn needs the
caller to send no response before the server leg has sent it a BYE
(`CallerAnswersBye`), or a stray 2xx would run `onOk()` on a ringing leg, and the
INVITE to be the caller's first and only one (`InviteIsFirst`), or a second
handler would replace the first. `NoPhantomAnswer` and `ByeOnlyAfterAnswer` need
every 2xx on the callee's wire to come after the answer: one for the INVITE by
`AnswerComesFirst`, one for a CANCEL or BYE by `CalleeAnswersInvite`, which finds
the client leg past TRYING and RINGING. `IInv` is the conjunction of all of
these. The proof has one lemma per disjunct of `Next`.

The lemmas of the gateway (`GatewayServesKeeps`, `GatewayRelaysKeeps`) do not mention
the agents. They show that a step of the gateway preserves `GatewayInv`, which is the
part of `IInv` that speaks of the two legs, the registry and the wires only, and that
it tells of an answer only what it had from the callee or from before (`AnswerPassedOn`).
In them, first what each handler does to its leg and its wire is derived
(`ServerQuietly`, `ClientAsking`), then each conjunct of `GatewayInv` is shown to
survive it. `GatewayInv` asks two things of the parties: the INVITE comes first and
once (`InviteLeads`), and neither sends a response to a leg that has not asked for it
(`CallerAnswersBye`, `CalleeAnswersInvite`). The agents of `Call` and the pages of
`CallPages` both keep to that, so both have these lemmas for their gateway.

`OneFinalResponseHolds` is proved relative to `IInv`, by the invariant `FInv`. The
handlers answer whatever request they hold, so each place that sends a 486 or a 400
late needs its own reason why that is not the INVITE any more, or why it is not
reached. `ClosingCitesAnother`: a leg that closes holds the CANCEL, the BYE or a
request of its own. `AckBeforeBye`: a BYE cannot find the server leg in OK, since the
ACK is in front of it on the caller's wire. `CalleeQuiet`: a rejection cannot reach a
leg that has been answered, since the callee that answered sends none unless the
gateway cancels or hangs up. `NotYetAnswered` is what is left: before the answer
nothing final has been sent. The gateway's actions are reduced to what they do to the
server leg (`Decides`, `Progresses`, `TakesAck`, `Closes`, `ServerRests`), and one lemma
shows that each of these preserves `FInv`.

`CalleeNotOrphaned` is proved relative to both, by the invariant `HInv`, which follows
the two user agents instead of the handlers. `CallerIsInCall`: a caller that has hung up on
a server leg in OK or CALLING has its BYE on the way. `CalleeIsInCall`: unless the server
leg has taken a CANCEL, a callee that talks has a client leg in CALLING, or a BYE of the
gateway on its wire, or has repeated its 2xx. `CancelIsCited`: the leg that has taken a
CANCEL goes on citing it, and without one the client leg is never cancelled. When nothing is
in flight, a client leg in CALLING comes with a server leg in OK or CALLING
(`LegsAgree`), whose caller would have a BYE under way, so only the two exceptions are left. Its lemmas follow the disjuncts of `Next` like those of `FInv`
(`GatewayServesOn` to `StutterOn`).

`LegsMoveTogether` reduces each action to what it does to the two states (the
lemmas `Refused` to `ClientMovesOn`), each of which is an action of `TwoLegs` or
leaves both phases alone. It rests on `LegsAgree` again: a CANCEL or a rejection
that finds the server leg closed must not meet a callee that is still ringing or
connected, or it would release that callee's leg alone.

`ThreadsProofs.tla` proves of `CallThreads`, for every set of codes, every `MaxPending`
and every set of sessions that may close:

| theorem | states |
|---|---|
| `ThreadsInductive` | `THInv` holds in every reachable state |
| `ThreadsTypeCorrect` | `ThreadsTypeOK` |
| `OneOutcomeHolds` | `OneOutcome` |
| `ThreadsAnswersAreReal` | `NoPhantomAnswer` |
| `ThreadsHangupsFollowAnswers` | `ByeOnlyAfterAnswer` |
| `StayingCallerHolds` | `StayingCallerIsSafe` |

`IInv` is of no use here: between two operations of a handler the legs do disagree. The
invariant `THInv` is a proof outline instead. `ClientOutline` and `ServerOutline` list
every point at which a thread may be interrupted, as what is left in `todo`, with what
the thread counts on there; a step of the thread leads from one point to the next, and
a step of the other thread or of an agent must leave what is counted on true. These
assertions are weak on purpose, so that they are stable:

* `Superseded`, the server handler holds another request than the INVITE, is never
  undone. What a handler sends from then on does not answer the INVITE, however stale
  the state it has read.
* `Open`, an outcome can still be sent, is all that protects the INVITE from a second
  one; `Quiet` is what remains when the callee's leg has decided. They are falsified
  only by the client thread itself, and while the caller stays only that thread decides.
* Most about the legs is claimed only under `Stays`: the caller has neither
  cancelled nor hung up and the call is not over. `OnlyAcks` is the reason it
  is enough: such a caller has nothing under way but its INVITE or one ACK, and the ACK
  finds the leg in OK, so the server thread touches neither the client leg nor the
  registry. Once the caller cancels or hangs up, both threads write the same
  handlers, and of the agreement of the legs nothing is left to claim (section 3 has
  the interleavings that undo it).
* `Unlisted`, proved relative to `THInv`: while the caller stays, the client thread takes its
  handler out of `messageHandlerList` only with the assignment of FINISH still to come.

The proof has one lemma per operation (`Resumes` to `Calls`), per group of points of
each outline (`RingingGoesOn`, `AckingGoesOn` and so on), and per kind of step that an
outline must survive.

`AtomicProofs.tla` proves `UninterruptedIsAtomic`: `ThreadsSpec` implies
`UninterruptedHandlersAreAtomic`, for every set of codes, every bound and whichever
sessions may close. It is why `Call` may take a handler as one step: wherever the two
threads do not come in between, `CallThreads` does nothing that `Call` does not. Where they
do, the property says nothing, and `THInv` is what is left. The argument has five parts.

* A handler left alone ends. `Short` are the plans that come to nothing in nine
  operations whatever states the methods read, found backwards from the empty plan
  (`Longer1`); `StartedShort` has every method that a message starts, and
  `Exhausts` is the invariant that whatever a thread is left with is one of them
  (`ThreadsExhaust`). Without it `AtTheEnd` might stop halfway.
* So an operation of an uninterrupted thread changes nothing at the end (`SameEnd`,
  `ContinueIsNoStep`): it was due already.
* A step of an agent, or a closing session, comes while a handler is half done, and
  `Call` has it after the handler. `Kin` relates the two orders: the states are the same at
  every operation, and the wires differ by the message taken, or are empty (`EndKin`).
  The agent takes the head of its wire, and what the handler still sends goes to the tail
  (`TakenThen`).
* What each method does, followed operation by operation to its end (`AckResults` to
  `OkResults`), is the action that `Call` has for the message (`IsSerialAck` to
  `IsSerialOkByCallee`).
* A message is dropped in both models or in neither. `Call` decides by what is listed
  after the handler that is still running, `CallThreads` by what is listed now;
  nothing is ever listed again (`KnownFalls`), so the first implies the second, and an
  INVITE, the one message that an unlisted handler does not drop, finds both threads at
  rest (`InviteFindsRest`).

`RegistrationProofs.tla` proves, for every set of sessions and extensions, every
assignment of one to the other and every bound:

| theorem | states |
|---|---|
| `RegistrationInductive` | `RInv` holds in every reachable state |
| `RegistrationTypeCorrect` | `TypeOK` |
| `OnlineIsBound` | `OnlineMeansBound` |
| `OptionsHaveNobody` | `NothingIsDue` |
| `ConnectorNeverStuck` | `NeverStuck` |

`OnlineMeansBound` is about the page, and what makes it true happens at the
gateway one message earlier. `RInv` therefore says of every 200 on its way that
its extension has a session already (`OkMeansSession`), that such a session
belongs to the extension and has been opened (`SessionsAreReal`), that
`registerTime` comes with a session (`RegisteredHaveSession`), and that a page
that never opened has sent nothing and waits for nothing (`IdleIsQuiet`). That the
socket of an online page is open is a second invariant (`OnlineIsOpen`): when
a socket closes, the page goes offline in the same step and what is on its way to the
page is lost. The
effect lemmas (`TakesEffect`, `AnswerEffect`, `SendEffect`, `ReadEffect`,
`ResetEffect`) say what each shared operator does to the wires; there is one lemma
per action after them.

`TransactionsProofs.tla` proves, for every set of dialled calls, every finite set of
offered calls and every timer length (the assumptions `IncomingAssumption` and
`TimerAssumption`):

| theorem | states |
|---|---|
| `TypeCorrect` | `TypeOK` |
| `ToldOnceHolds` | `ToldOnce` |
| `RingingIsFoundHolds` | `RingingIsFound` |

`ToldOnce` needs to know of each transaction why it cannot be told again (`Sound`):
it is terminated, and either its response has been there, or it is still mapped and
its interval stopped, so that a late response finds it and is dropped, or a late 180 has
removed it and it is in `late`, where one more outcome is allowed. `RingingIsFound`
is a counting argument. The only INVITEs that may still remove an entry are the
rejected ones whose ACK has not come (`Pending`), one entry each; while nothing is
disturbed no new one joins them as long as a call rings, so it is enough that the
ringing INVITE stands behind more entries than there are of them (`Sheltered`), and
that the table has as many entries as there are of them (`EnoughEntries`), or an
INVITE that begins to ring would not be sheltered. `OneRings` is needed for the step
in which the ringing INVITE itself is rejected and joins them.

`PageProofs.tla` proves, for every set of calls and with or without a media stream:

| theorem | states |
|---|---|
| `ReachableHolds` | `Reachable` |
| `OpenHasMediaHolds` | `OpenHasMedia` |
| `OneIncomingHolds` | `OneIncoming` |
| `OnCallMeansCallHolds` | `OnCallMeansCall` |
| `TypeOKHolds` | `TypeOK` |

The invariant `PInv` says of each call which states of its connector and of its peer
connection occur together and with which direction (`ConnectorSound`, `MediaSound`),
and that an open one has a peer connection (`Sound`). A handler that opens the
connector and then finds the media gone closes it in the same step, so inside a
handler only `NearlySound` holds; the lemmas say for each handler that it `Goes` from a
nearly sound call to a sound one without touching another call. `OneIncoming` needs
that a registered incoming call stays registered as such whatever its SIP state
(`OneRegistered`), and that only incoming calls ring and are offered (`RingsIncoming`,
`OffersIncoming`), or the accept button could turn a dialled call into a second
incoming one. `PInv` says nothing of the gateway's side and of the wires: what the page
takes from them may be anything, so the first four theorems do not depend on how the
gateway behaves. `TypeOKHolds` does: what the gateway waits for after a step of the page is
computed by a recursive function over the messages of that step (`Delivered`). That the
function exists (`AfterExists`), and that every outcome it computes is a state of the
handler (`DeliveredTyped`), is shown for any number of messages of the least number that
lacks it (`LeastNatural`): the induction theorems of the library take an operator, this
one only a set.

`CallPagesProofs.tla` proves, with or without a media stream (`MediaAssumption`), of two
pages with the gateway between them:

| theorem | states |
|---|---|
| `PagesInductive` | `PagesInv` holds in every reachable state |
| `PagesTypeCorrect` | `PagesTypeOK` |
| `OpenedCallsAreAccepted` | `OpenedMeansAccepted` |
| `PagesRegistryCorrect` | `RegistryMatchesState` |
| `PagesWaitOnLiveLeg` | `CallerWaitsOnLiveLeg` |
| `PagesMoveLegsTogether` | `LegsInLockStep`: between two pages, too, the gateway implements `TwoLegs` |

The dialling page opens its call on any 200 that cites the INVITE, the gateway passes on
any 200 of the called page whatever it answers, and the called page answers a CANCEL and
a BYE with 200. Two facts that are never undone keep these apart. `InvitePast`: the
dialling page has sent its INVITE and has left INVITING, so it takes no answer any more.
`Accepted`: the user of the called page has accepted, which stays visible in the
connector, or in the statistics that are asked for once. A 2xx is `Due` when one of
them holds, and the invariant says of every message on the four wires which of
them it presupposes (`ToCallerFits`, `FromCallerFits`, `ToCalleeFits`,
`FromCalleeFits`): a CANCEL, an ACK or a BYE that the INVITE is past, a 2xx that it is due.
Since both are stable, a message that fits when it is sent fits for as long as it
is under way. The gateway's two states matter little: a server leg that holds
another request than the INVITE, or that is in CALLING, BYE or CANCELING, has heard from a
caller whose INVITE is past (`ServerSide`). The called page must not answer a stray request
with 200 before its user has touched the buttons; that is `Resting`, and it needs the two halves
of a call to agree, so `PagesSound` has `Sound` of `PageLemmas.tla` for each page, and `Paced`
for how far the INVITE's transaction and the statistics have come. The proof goes through the
handlers of `Page` once: each `Leads` from a call to a call that loses neither fact, and what it
sends has a `Reason` in the call it leaves behind. Then there is one lemma per step of a page
and per branch of the gateway.

The last three theorems come from `GatewayInv`, which is part of `PagesInv`. That the pages
keep the two rules it asks for is shown along with the rest. A handler that sends the
INVITE sends nothing else and finds none sent before (`Dials`, `DialFirst`): the offer of the
peer connection comes once, and the INVITE's transaction is never unsent again. A page
responds only to what it was sent: the dialling page to a BYE, which comes when the server leg is
closing already, and the called page to the INVITE, or with a 200 to a CANCEL or a BYE, whose
client leg is past RINGING by then (`Reason`, and the excuses its lemmas name).
`PagesMoveLegsTogether` then needs nothing new: the steps of the gateway map to `TwoLegs` by the
lemmas of `CallProofs.tla`, and the pages' own steps leave both phases alone. The run
`call_pages` does not repeat these three properties, which `call_safety` checks for the agents.

The assumptions are the named ones on the constants. Checked by TLC only: the
liveness properties, which are out of the prover's reach. Every invariant and every
action property that a passing run checks is a theorem.

## 5. Not modelled

* Stale reads: `messageState` is not volatile, and `CallThreads` lets each thread
  see the other's assignments at once. Two threads that send on one session at
  the same time, which some containers refuse, are not modelled either.
* Registration without a session: expiry of `registerTime` and `aliveTime`,
  trunks, the OPTIONS handlers and what the periodic tasks send. All of it needs
  the UDP transport, whose creation is commented out; `NothingIsDue` shows that it
  stays dormant.
* An INVITE or OPTIONS binds the extension to its session just as a REGISTER does
  (both run `MessageHandler.onTrying`). `Registration` has no calls, and `Call` has
  one session per party, so the effect of one on the other is left to their
  composition (section 6).
* The pages of `CallPages` have one call each, and no session of theirs closes; a
  closed session is in `Call`, several calls of a page are in `PageCall`.
* Of the browser client: the 407 branches (the gateway never asks a call for
  authentication), `ignore()`, DTMF, data channels, muting, recording, chat and the
  view. Of jain-sip: parsers, header classes and the dialog layer, which appear as
  what they let through (`Hears`).
* `adapter.js` and `RestCommWebClient.js` are loaded by no page; jQuery, Bootstrap and
  the other libraries hold no logic of this system. They and the parsers of
  jain-sip are four fifths of the JavaScript, so the definitions of this project stand
  for a small share of all its lines and for most of those that decide what
  happens to a call.
* Headers, SDP, tags and branches: which request a message answers is all that
  the handlers' control depends on.
* Media server and IVR (commented out), UDP (not created), authentication
  helpers (unused).

## 6. Plan

1. `Routing`: composition of `Registration` with calls. `route` reads an extension
   whose session a REGISTER or an INVITE changes, and the client handler keeps the
   session it found.
2. `Registry`: several calls and reuse of a Call-ID over `messageHandlerList` and
   `bridgedElements`, and what is left in them.
3. `Expiry`: extensions without a session, with the width of Java's int, the
   OPTIONS handlers and the periodic tasks, for a build with the UDP transport; an
   abstract specification of when an extension is reachable.
4. Proofs: that the dialling page of `CallPages` gets one final response, what the two
   threads leave of a call whose caller has cancelled or hung up, and the inductive
   invariants of the modules above.
