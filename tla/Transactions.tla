---------------------------- MODULE Transactions ----------------------------
(***************************************************************************)
(* The transactions of one page's jain-sip stack: the client transactions  *)
(* of the calls it dials, each with the interval that counts its timeout   *)
(* down and sweeps it out of clientTransactionTable, and the server        *)
(* transactions of the calls it is offered, whose removal takes the first  *)
(* entry of serverTransactionTable, whosever it is: removeTransaction()    *)
(* compares the key with the entry and not with its first element, and     *)
(* splice(null, 1) removes entry 0.                                        *)
(*                                                                         *)
(* The transport is reliable (isReliable()), so COMPLETED is left at once  *)
(* where the code knows no timer for it.  The peer answers a request once. *)
(***************************************************************************)
EXTENDS Naturals, Sequences, FiniteSets

CONSTANTS
  Outgoing,   \* the calls the page dials
  Incoming,   \* the calls it is offered
  Timer       \* the ticks of the timers B, F and H, 64 in the code

ASSUME IncomingAssumption == IsFiniteSet(Incoming)
ASSUME TimerAssumption == Timer \in Nat \ {0}

VARIABLES
  client,     \* the client transactions, by call and method
  replied,    \* the requests whose final response has arrived
  late,       \* history: the INVITEs a provisional response removed after their end
  server,     \* the INVITE server transactions, by call
  table,      \* serverTransactionTable, by call and method
  cancelled,  \* the calls whose CANCEL has arrived
  byed,       \* the calls whose BYE has arrived
  disturbed   \* whether an INVITE was declined while another one rang, or a
              \* request was answered by the stack itself and removed

clientVars == <<client, replied, late>>
serverVars == <<server, table, cancelled, byed, disturbed>>
vars == <<clientVars, serverVars>>

Requests == Outgoing \X {"INVITE", "CANCEL", "BYE"}
Invite(c) == <<c, "INVITE">>
IsInvite(x) == x[2] = "INVITE"

ClientState == {"null", "CALLING", "TRYING", "PROCEEDING", "TERMINATED"}
ServerState == {"null", "PROCEEDING", "COMPLETED", "TERMINATED"}

\* ticksLeft 0 is a disabled timer; told counts the final responses and
\* timeouts the listener was given.
NoTransaction ==
  [state |-> "null", ticksLeft |-> 0, ticking |-> FALSE, mapped |-> FALSE, told |-> 0]

Init ==
  /\ client = [x \in Requests |-> NoTransaction]
  /\ replied = {} /\ late = {}
  /\ server = [c \in Incoming |-> [state |-> "null", ticksLeft |-> 0]]
  /\ table = <<>> /\ cancelled = {} /\ byed = {}
  /\ disturbed = FALSE

-----------------------------------------------------------------------------
(* Client transactions. *)

\* sendMessage() of a new transaction, mapped by createTransaction().
\* Mutant: the timer runs a tick too long.
StartedLong(first) ==
  [state |-> first, ticksLeft |-> Timer + 1, ticking |-> TRUE, mapped |-> TRUE, told |-> 0]

Started(first) ==
  [state |-> first, ticksLeft |-> Timer, ticking |-> TRUE, mapped |-> TRUE, told |-> 0]

Told(t) == [t EXCEPT !.told = @ + 1]
Terminated(t) == [t EXCEPT !.state = "TERMINATED"]
Disabled(t) == [t EXCEPT !.ticksLeft = 0]
Removed(t) == [t EXCEPT !.mapped = FALSE, !.ticking = FALSE]   \* and clearInterval()

\* Mutant: every provisional response starts the timer again.
ProvisionalAgain(x, t, code) ==
  CASE t.state = "CALLING" -> Disabled([t EXCEPT !.state = "PROCEEDING"])
    [] t.state \in {"TRYING", "PROCEEDING"} /\ ~IsInvite(x) ->
         [t EXCEPT !.state = "PROCEEDING", !.ticksLeft = Timer]
    [] OTHER -> t

\* processResponseargu3() drops what comes for a TERMINATED transaction if
\* getStatusCode() / 100 == 1, which only a 100 fulfils.
PassesFilter(x, t, code) == IsInvite(x) /\ t.state = "TERMINATED" /\ t.mapped /\ code # 100

Provisional(x, t, code) ==
  CASE t.state = "CALLING" -> Disabled([t EXCEPT !.state = "PROCEEDING"])
    [] t.state = "TRYING" -> [t EXCEPT !.state = "PROCEEDING", !.ticksLeft = Timer]
    [] PassesFilter(x, t, code) -> Removed(t)
    [] OTHER -> t

\* A response that matches no transaction goes to the listener without one.  The
\* transaction is removed at once in an INVITE's PROCEEDING and in TRYING, and
\* left to the next tick in CALLING and in PROCEEDING of the other methods.
Final(x, t) ==
  IF ~t.mapped THEN Told(t)
  ELSE IF t.state = "TERMINATED" THEN IF IsInvite(x) THEN Removed(t) ELSE t
  ELSE IF (t.state = "PROCEEDING") = IsInvite(x) THEN Told(Removed(Terminated(t)))
  ELSE Told(Disabled(Terminated(t)))

\* Mutant: the listener is told, the transaction stays as it was.
TimedOutAlive(t) == Told([t EXCEPT !.ticking = FALSE, !.ticksLeft = 0])

TimedOut(t) == Told(Terminated([t EXCEPT !.ticking = FALSE, !.ticksLeft = 0]))

\* The interval of a transaction; after the sweep it goes on for nothing.
Ticked(t) ==
  IF t.state = "TERMINATED" THEN [t EXCEPT !.mapped = FALSE]
  ELSE IF t.ticksLeft > 1 THEN [t EXCEPT !.ticksLeft = @ - 1]
  ELSE IF t.ticksLeft = 1 THEN TimedOut(t)
  ELSE t

Becomes(x, t) == client' = [client EXCEPT ![x] = t]

SendInvite(c) ==
  /\ client[Invite(c)].state = "null"
  /\ Becomes(Invite(c), Started("CALLING"))
  /\ UNCHANGED <<replied, late, serverVars>>

\* createCancel() of a pending INVITE.
SendCancel(c) ==
  /\ client[Invite(c)].state \in {"CALLING", "PROCEEDING"}
  /\ client[<<c, "CANCEL">>].state = "null"
  /\ Becomes(<<c, "CANCEL">>, Started("TRYING"))
  /\ UNCHANGED <<replied, late, serverVars>>

SendBye(c) ==
  /\ Invite(c) \in replied /\ client[Invite(c)].told > 0
  /\ client[<<c, "BYE">>].state = "null"
  /\ Becomes(<<c, "BYE">>, Started("TRYING"))
  /\ UNCHANGED <<replied, late, serverVars>>

HearProvisional(x) ==
  /\ client[x].state # "null" /\ x \notin replied
  /\ \E code \in {100, 180} :
       /\ Becomes(x, Provisional(x, client[x], code))
       /\ late' = IF PassesFilter(x, client[x], code) THEN late \cup {x} ELSE late
  /\ UNCHANGED <<replied, serverVars>>

HearFinal(x) ==
  /\ client[x].state # "null" /\ x \notin replied
  /\ replied' = replied \cup {x}
  /\ Becomes(x, Final(x, client[x]))
  /\ UNCHANGED <<late, serverVars>>

\* The timeout of a CANCEL ends the INVITE, its listener is not told of it.
Tick(x) ==
  /\ client[x].ticking
  /\ LET timesOut == client[x].state # "TERMINATED" /\ client[x].ticksLeft = 1
         ends(y) == /\ timesOut /\ x[2] = "CANCEL" /\ y = Invite(x[1])
                    /\ client[y].state \in {"CALLING", "PROCEEDING"}
     IN client' = [y \in Requests |->
                     CASE y = x -> Ticked(client[x])
                       [] ends(y) -> Terminated(client[y])
                       [] OTHER -> client[y]]
  /\ UNCHANGED <<replied, late, serverVars>>

-----------------------------------------------------------------------------
(* Server transactions. *)

InTable(x) == \E i \in DOMAIN table : table[i] = x
Ringing(c) == server[c].state = "PROCEEDING"
EvictFirst(entries) == IF entries = <<>> THEN entries ELSE Tail(entries)

ServerBecomes(c, state, ticks) ==
  server' = [server EXCEPT ![c] = [state |-> state, ticksLeft |-> ticks]]

\* getNewServerTransaction() maps it; the page rings, or declines at once,
\* as it does whenever another call rings.
InviteArrives(c) ==
  /\ server[c].state = "null"
  /\ table' = Append(table, Invite(c))
  /\ \/ /\ ~\E d \in Incoming : Ringing(d)
        /\ ServerBecomes(c, "PROCEEDING", 0) /\ UNCHANGED disturbed
     \/ /\ ServerBecomes(c, "COMPLETED", Timer)
        /\ disturbed' = (disturbed \/ \E d \in Incoming : Ringing(d))
  /\ UNCHANGED <<clientVars, cancelled, byed>>

UserAnswers(c) ==
  /\ Ringing(c)
  /\ ServerBecomes(c, "TERMINATED", 0) \/ ServerBecomes(c, "COMPLETED", Timer)
  /\ UNCHANGED <<clientVars, table, cancelled, byed, disturbed>>

\* The ACK of a rejection: over CONFIRMED to TERMINATED, without a removal.
AckArrives(c) ==
  /\ server[c].state = "COMPLETED" /\ InTable(Invite(c))
  /\ ServerBecomes(c, "TERMINATED", 0)
  /\ UNCHANGED <<clientVars, table, cancelled, byed, disturbed>>

\* A CANCEL that finds no INVITE is answered 481 and its transaction removed.
CancelArrives(c) ==
  /\ server[c].state # "null" /\ c \notin cancelled
  /\ cancelled' = cancelled \cup {c}
  /\ IF InTable(Invite(c))
     THEN /\ table' = Append(table, <<c, "CANCEL">>)
          /\ IF Ringing(c) THEN ServerBecomes(c, "COMPLETED", Timer) ELSE UNCHANGED server
          /\ UNCHANGED disturbed
     ELSE /\ table' = EvictFirst(Append(table, <<c, "CANCEL">>))
          /\ disturbed' = TRUE
          /\ UNCHANGED server
  /\ UNCHANGED <<clientVars, byed>>

\* The dialog is known, or has gone after its linger time (481).
ByeArrives(c) ==
  /\ server[c].state = "TERMINATED" /\ c \notin byed
  /\ byed' = byed \cup {c}
  /\ \/ table' = Append(table, <<c, "BYE">>) /\ UNCHANGED disturbed
     \/ table' = EvictFirst(Append(table, <<c, "BYE">>)) /\ disturbed' = TRUE
  /\ UNCHANGED <<clientVars, server, cancelled>>

\* Mutant: the timeout leaves the transaction in COMPLETED.
ServerTickAgain(c) ==
  /\ server[c].state = "COMPLETED"
  /\ IF server[c].ticksLeft > 1
     THEN ServerBecomes(c, "COMPLETED", server[c].ticksLeft - 1) /\ UNCHANGED table
     ELSE UNCHANGED server /\ table' = EvictFirst(table)
  /\ UNCHANGED <<clientVars, cancelled, byed, disturbed>>

\* Timer H of a rejected INVITE whose ACK does not come.
ServerTick(c) ==
  /\ server[c].state = "COMPLETED"
  /\ IF server[c].ticksLeft > 1
     THEN ServerBecomes(c, "COMPLETED", server[c].ticksLeft - 1) /\ UNCHANGED table
     ELSE ServerBecomes(c, "TERMINATED", 0) /\ table' = EvictFirst(table)
  /\ UNCHANGED <<clientVars, cancelled, byed, disturbed>>

-----------------------------------------------------------------------------
ClientSteps ==
  \/ \E c \in Outgoing : SendInvite(c) \/ SendCancel(c) \/ SendBye(c)
  \/ \E x \in Requests : HearProvisional(x) \/ HearFinal(x) \/ Tick(x)

ServerSteps ==
  \E c \in Incoming :
    \/ InviteArrives(c) \/ UserAnswers(c) \/ AckArrives(c)
    \/ CancelArrives(c) \/ ByeArrives(c) \/ ServerTick(c)

Next == ClientSteps \/ ServerSteps

Spec == Init /\ [][Next]_vars

\* setInterval() keeps calling back; the peer owes no answer, the user no click.
FairSpec == Spec /\ WF_vars(\E x \in Requests : Tick(x))

-----------------------------------------------------------------------------
TransactionRecord ==
  [state : ClientState, ticksLeft : 0..Timer, ticking : BOOLEAN, mapped : BOOLEAN, told : Nat]

TypeOK ==
  /\ client \in [Requests -> TransactionRecord]
  /\ replied \subseteq Requests /\ late \subseteq Requests
  /\ server \in [Incoming -> [state : ServerState, ticksLeft : 0..Timer]]
  /\ table \in Seq(Incoming \X {"INVITE", "CANCEL", "BYE"})
  /\ cancelled \subseteq Incoming /\ byed \subseteq Incoming
  /\ disturbed \in BOOLEAN

\* The listener is given one outcome of a request, a final response or a
\* timeout, also when the response comes after the timeout, after a CANCEL has
\* ended the INVITE, or after the sweep has forgotten the transaction.  It is
\* given two in one case only: a 180 or 183 that came after the INVITE's end
\* has removed the transaction, so that nothing is left to drop the final
\* response (processResponseargu3(), inviteClientTransaction()).
ToldOnce == \A x \in Requests : client[x].told <= IF x \in late THEN 2 ELSE 1

\* No request waits for good: all but an INVITE that has heard a provisional
\* response get an outcome without help of the peer, and a transaction whose
\* interval still runs is swept out of the table.  (One that timed out stays.)
Waits(x) ==
  \/ client[x].state \in {"CALLING", "TRYING"}
  \/ client[x].state = "PROCEEDING" /\ ~IsInvite(x)
  \/ client[x].state = "TERMINATED" /\ client[x].ticking /\ client[x].mapped
ClientsSettle == []<>(\A x \in Requests : ~Waits(x))

\* A ringing INVITE is in serverTransactionTable, where its CANCEL is looked
\* up, as long as no INVITE was declined while another one rang and the stack
\* has answered no request itself: the wrong entries removed until then are
\* those of older calls.
RingingIsFound == ~disturbed => \A c \in Incoming : Ringing(c) => InTable(Invite(c))
=============================================================================
