------------------------- MODULE TransactionsProofs -------------------------
(***************************************************************************)
(* Proofs about Transactions, for every set of dialled calls, every finite *)
(* set of offered calls and every length of the timers.                    *)
(***************************************************************************)
EXTENDS Transactions, FiniteSetTheorems, SequenceTheorems, TLAPS

\* What makes ToldOnce inductive, of the transaction t of a request x, the
\* requests that were replied to and those whose transaction a late provisional
\* response removed: who was told is over, and cannot be told again but by that.
Sound(x, t, heard, freed) ==
  /\ t.told <= IF x \in freed THEN 2 ELSE 1
  /\ t.told > 0 => /\ t.state = "TERMINATED"
                   /\ \/ x \in heard
                      \/ ~t.ticking /\ (t.mapped \/ (x \in freed /\ t.told = 1))
  /\ ~t.mapped => t.state \in {"null", "TERMINATED"}
  /\ t.ticking => t.state # "null"
  /\ x \in freed => t.state = "TERMINATED" /\ ~t.mapped /\ ~t.ticking

AllSound == \A x \in Requests : Sound(x, client[x], replied, late)

\* What makes RingingIsFound inductive: the rejected INVITEs that may still
\* take an entry out of the table are fewer than the entries before the
\* ringing one.
Pending == {c \in Incoming : server[c].state = "COMPLETED"}
OneRings == \A c, d \in Incoming : Ringing(c) /\ Ringing(d) => c = d
EnoughEntries == Cardinality(Pending) <= Len(table)
Sheltered(c) == \E p \in 1..Len(table) : table[p] = Invite(c) /\ Cardinality(Pending) < p
RingingSheltered == \A c \in Incoming : Ringing(c) => Sheltered(c)

TInv ==
  /\ TypeOK
  /\ AllSound
  /\ OneRings
  /\ ~disturbed => EnoughEntries /\ RingingSheltered

-----------------------------------------------------------------------------
(* One client transaction. *)

LEMMA StartedSound ==
  ASSUME NEW x, NEW s \in {"CALLING", "TRYING"}, NEW heard, NEW freed, x \notin freed
  PROVE  Started(s) \in TransactionRecord /\ Sound(x, Started(s), heard, freed)
BY TimerAssumption DEF Started, TransactionRecord, ClientState, Sound

\* u is t with other values of the fields, and still a transaction.
Same(u, t) == u.told = t.told /\ u.mapped = t.mapped /\ u.ticking = t.ticking

LEMMA StateSet ==
  ASSUME NEW t \in TransactionRecord, NEW s \in ClientState
  PROVE  LET u == [t EXCEPT !.state = s]
         IN u \in TransactionRecord /\ u.state = s /\ Same(u, t)
BY DEF TransactionRecord, Same

LEMMA TicksSet ==
  ASSUME NEW t \in TransactionRecord, NEW n \in 0..Timer
  PROVE  LET u == [t EXCEPT !.ticksLeft = n]
         IN u \in TransactionRecord /\ u.state = t.state /\ Same(u, t)
BY DEF TransactionRecord, Same

LEMMA TerminatedEffect ==
  ASSUME NEW t \in TransactionRecord
  PROVE  /\ Terminated(t) \in TransactionRecord
         /\ Terminated(t).state = "TERMINATED" /\ Same(Terminated(t), t)
BY StateSet DEF Terminated, ClientState

LEMMA DisabledEffect ==
  ASSUME NEW t \in TransactionRecord
  PROVE  /\ Disabled(t) \in TransactionRecord
         /\ Disabled(t).state = t.state /\ Same(Disabled(t), t)
<1>1. 0 \in 0..Timer
  BY TimerAssumption
<1> QED BY <1>1, TicksSet DEF Disabled

LEMMA ToldEffect ==
  ASSUME NEW t \in TransactionRecord
  PROVE  /\ Told(t) \in TransactionRecord
         /\ Told(t).state = t.state /\ Told(t).told = t.told + 1
         /\ Told(t).mapped = t.mapped /\ Told(t).ticking = t.ticking
BY DEF Told, TransactionRecord

LEMMA TickingSet ==
  ASSUME NEW t \in TransactionRecord
  PROVE  LET u == [t EXCEPT !.ticking = FALSE]
         IN /\ u \in TransactionRecord /\ u.state = t.state /\ u.told = t.told
            /\ u.mapped = t.mapped /\ u.ticking = FALSE
BY DEF TransactionRecord

LEMMA MappedSet ==
  ASSUME NEW t \in TransactionRecord
  PROVE  LET u == [t EXCEPT !.mapped = FALSE]
         IN /\ u \in TransactionRecord /\ u.state = t.state /\ u.told = t.told
            /\ u.mapped = FALSE /\ u.ticking = t.ticking
BY DEF TransactionRecord

LEMMA RemovedEffect ==
  ASSUME NEW t \in TransactionRecord
  PROVE  /\ Removed(t) \in TransactionRecord
         /\ Removed(t).state = t.state /\ Removed(t).told = t.told
         /\ Removed(t).mapped = FALSE /\ Removed(t).ticking = FALSE
<1> DEFINE u == [t EXCEPT !.mapped = FALSE]
<1>1. u \in TransactionRecord /\ u.state = t.state /\ u.told = t.told /\ u.mapped = FALSE
  BY MappedSet
<1>2. Removed(t) = [u EXCEPT !.ticking = FALSE]
  BY DEF Removed
<1> HIDE DEF u
<1> QED BY <1>1, <1>2, TickingSet

\* What late becomes when a provisional response is heard.
Freed(x, t, code, freed) == IF PassesFilter(x, t, code) THEN freed \cup {x} ELSE freed

LEMMA ProvisionalSound ==
  ASSUME NEW x, NEW t \in TransactionRecord, NEW heard, NEW freed, Sound(x, t, heard, freed),
         NEW code, x \notin heard
  PROVE  /\ Provisional(x, t, code) \in TransactionRecord
         /\ Sound(x, Provisional(x, t, code), heard, Freed(x, t, code, freed))
<1>0. t.told \in Nat /\ t.mapped \in BOOLEAN /\ t.ticking \in BOOLEAN
  BY DEF TransactionRecord
<1> DEFINE u == [t EXCEPT !.state = "PROCEEDING"]
<1>1. u \in TransactionRecord /\ u.state = "PROCEEDING" /\ Same(u, t)
  BY StateSet DEF ClientState
<1>2. Timer \in 0..Timer
  BY TimerAssumption
<1>3. CASE t.state = "CALLING"
  <2>1. Provisional(x, t, code) = Disabled(u) /\ Freed(x, t, code, freed) = freed
    BY <1>3 DEF Provisional, Freed, PassesFilter
  <2> HIDE DEF u
  <2> QED BY <1>1, <1>3, <2>1, DisabledEffect DEF Same, Sound
<1>4. CASE t.state = "TRYING"
  <2>1. Provisional(x, t, code) = [u EXCEPT !.ticksLeft = Timer] /\ Freed(x, t, code, freed) = freed
    BY <1>4 DEF Provisional, Freed, PassesFilter
  <2> HIDE DEF u
  <2> QED BY <1>1, <1>2, <1>4, <2>1, TicksSet DEF Same, Sound
<1>5. CASE PassesFilter(x, t, code)
  <2>1. Provisional(x, t, code) = Removed(t) /\ Freed(x, t, code, freed) = freed \cup {x}
    BY <1>5 DEF Provisional, Freed, PassesFilter
  <2>2. t.state = "TERMINATED" /\ t.mapped /\ t.told <= 1
    BY <1>0, <1>5 DEF PassesFilter, Sound
  <2> HIDE DEF Freed
  <2> DEFINE u2 == Removed(t)
             freed2 == freed \cup {x}
  <2>3. /\ u2 \in TransactionRecord /\ u2.state = "TERMINATED" /\ ~u2.mapped /\ ~u2.ticking
        /\ u2.told = t.told /\ x \in freed2
    BY <2>2, RemovedEffect
  <2> HIDE DEF u2, freed2
  <2>4. Sound(x, u2, heard, freed2)
    BY <1>0, <2>2, <2>3 DEF Sound
  <2> QED BY <2>1, <2>3, <2>4 DEF u2, freed2
<1>6. CASE t.state \notin {"CALLING", "TRYING"} /\ ~PassesFilter(x, t, code)
  <2>1. Provisional(x, t, code) = t /\ Freed(x, t, code, freed) = freed
    BY <1>6 DEF Provisional, Freed
  <2> QED BY <2>1
<1> QED BY <1>3, <1>4, <1>5, <1>6

\* The response is the first: a transaction that was told before has timed out.
LEMMA FinalSound ==
  ASSUME NEW x, NEW t \in TransactionRecord, NEW heard, NEW freed, x \notin heard,
         Sound(x, t, heard, freed),
         t.state # "null"
  PROVE  Final(x, t) \in TransactionRecord /\ Sound(x, Final(x, t), heard \cup {x}, freed)
<1>0. t.told \in Nat /\ t.mapped \in BOOLEAN /\ t.ticking \in BOOLEAN
  BY DEF TransactionRecord
<1>1. CASE ~t.mapped
  <2>1. Final(x, t) = Told(t)
    BY <1>1 DEF Final
  <2>2. t.state = "TERMINATED" /\ t.told <= (IF x \in freed THEN 1 ELSE 0)
    BY <1>0, <1>1 DEF Sound
  <2> QED BY <1>0, <1>1, <2>1, <2>2, ToldEffect DEF Sound
<1>2. CASE t.mapped /\ t.state = "TERMINATED"
  <2>1. Final(x, t) \in {Removed(t), t}
    BY <1>2 DEF Final
  <2>2. Sound(x, Removed(t), heard \cup {x}, freed)
    BY <1>2, RemovedEffect DEF Sound
  <2>3. Sound(x, t, heard \cup {x}, freed)
    BY DEF Sound
  <2> QED BY <2>1, <2>2, <2>3, RemovedEffect
<1>3. CASE t.mapped /\ t.state # "TERMINATED"
  <2>1. t.told = 0 /\ x \notin freed
    BY <1>0, <1>3 DEF Sound
  <2> DEFINE u == Terminated(t)
  <2>2. Final(x, t) \in {Told(Removed(u)), Told(Disabled(u))}
    BY <1>3 DEF Final
  <2>3. u \in TransactionRecord /\ u.state = "TERMINATED" /\ Same(u, t)
    BY TerminatedEffect
  <2> HIDE DEF u
  <2>4. Told(Removed(u)) \in TransactionRecord /\ Sound(x, Told(Removed(u)), heard \cup {x}, freed)
    <3> DEFINE v == Removed(u)
    <3>0. v = Removed(u)
      OBVIOUS
    <3>1. v \in TransactionRecord /\ v.state = "TERMINATED" /\ v.told = 0 /\ ~v.ticking
      BY <2>1, <2>3, RemovedEffect DEF Same
    <3> HIDE DEF v
    <3>2. Told(v) \in TransactionRecord /\ Told(v).state = "TERMINATED" /\ Told(v).told = 1
      BY <3>1, ToldEffect
    <3>3. Sound(x, Told(v), heard \cup {x}, freed)
      BY <2>1, <3>2 DEF Sound
    <3> QED BY <3>0, <3>2, <3>3
  <2>5. Told(Disabled(u)) \in TransactionRecord /\ Sound(x, Told(Disabled(u)), heard \cup {x}, freed)
    <3> DEFINE v == Disabled(u)
    <3>0. v = Disabled(u)
      OBVIOUS
    <3>1. v \in TransactionRecord /\ v.state = "TERMINATED" /\ v.told = 0
      BY <2>1, <2>3, DisabledEffect DEF Same
    <3> HIDE DEF v
    <3>2. Told(v) \in TransactionRecord /\ Told(v).state = "TERMINATED" /\ Told(v).told = 1
      BY <3>1, ToldEffect
    <3>3. Sound(x, Told(v), heard \cup {x}, freed)
      BY <2>1, <3>2 DEF Sound
    <3> QED BY <3>0, <3>2, <3>3
  <2> QED BY <2>2, <2>4, <2>5
<1> QED BY <1>0, <1>1, <1>2, <1>3

LEMMA TickedSound ==
  ASSUME NEW x, NEW t \in TransactionRecord, NEW heard, NEW freed, Sound(x, t, heard, freed), t.ticking
  PROVE  Ticked(t) \in TransactionRecord /\ Sound(x, Ticked(t), heard, freed)
<1>0. t.told \in Nat /\ t.ticking \in BOOLEAN /\ t.mapped \in BOOLEAN /\ t.ticksLeft \in 0..Timer
  BY DEF TransactionRecord
<1>1. CASE t.state = "TERMINATED"
  <2>1. Ticked(t) = [t EXCEPT !.mapped = FALSE]
    BY <1>1 DEF Ticked
  <2> QED BY <1>0, <1>1, <2>1, MappedSet DEF Sound
<1>2. CASE t.state # "TERMINATED" /\ t.ticksLeft = 1
  <2>1. t.told = 0 /\ t.mapped /\ x \notin freed
    BY <1>0, <1>2 DEF Sound
  <2> DEFINE u == [t EXCEPT !.ticking = FALSE]
             v == [u EXCEPT !.ticksLeft = 0]
             w == Terminated(v)
  <2>2. Ticked(t) = Told(w)
    BY <1>2 DEF Ticked, TimedOut
  <2>3. /\ u \in TransactionRecord /\ u.told = 0 /\ u.mapped /\ u.ticking = FALSE
    BY <2>1, TickingSet
  <2>4. 0 \in 0..Timer
    BY TimerAssumption
  <2> HIDE DEF u
  <2>5. v \in TransactionRecord /\ v.told = 0 /\ v.mapped /\ ~v.ticking
    BY <2>3, <2>4, TicksSet DEF Same
  <2> HIDE DEF v
  <2>6. w \in TransactionRecord /\ w.state = "TERMINATED" /\ w.told = 0 /\ w.mapped /\ ~w.ticking
    BY <2>5, TerminatedEffect DEF Same
  <2> HIDE DEF w
  <2> QED BY <2>1, <2>2, <2>6, ToldEffect DEF Sound
<1>3. CASE t.state # "TERMINATED" /\ t.ticksLeft > 1
  <2>1. Ticked(t) = [t EXCEPT !.ticksLeft = t.ticksLeft - 1]
    BY <1>3 DEF Ticked
  <2>2. t.ticksLeft - 1 \in 0..Timer
    BY <1>0, <1>3, TimerAssumption
  <2> QED BY <2>1, <2>2, TicksSet DEF Same, Sound
<1>4. CASE t.state # "TERMINATED" /\ ~(t.ticksLeft > 1) /\ t.ticksLeft # 1
  <2>1. Ticked(t) = t
    BY <1>4 DEF Ticked
  <2> QED BY <2>1
<1> QED BY <1>1, <1>2, <1>3, <1>4

LEMMA TerminatedSound ==
  ASSUME NEW x, NEW t \in TransactionRecord, NEW heard, NEW freed, Sound(x, t, heard, freed),
         t.state \in {"CALLING", "PROCEEDING"}
  PROVE  Terminated(t) \in TransactionRecord /\ Sound(x, Terminated(t), heard, freed)
<1>1. t.told = 0 /\ t.mapped /\ x \notin freed
  BY DEF Sound, TransactionRecord
<1> QED BY <1>1, TerminatedEffect DEF Same, Sound

\* A step of the client side keeps the server side, and the other way round.
LEMMA ServerSideKept ==
  ASSUME TInv, UNCHANGED serverVars,
         client' \in [Requests -> TransactionRecord], replied' \subseteq Requests,
         late' \subseteq Requests, AllSound'
  PROVE  TInv'
BY DEF TInv, TypeOK, serverVars, OneRings, Ringing, EnoughEntries, RingingSheltered,
       Sheltered, Pending

LEMMA ClientSideKept ==
  ASSUME TInv, UNCHANGED clientVars
  PROVE  /\ client' \in [Requests -> TransactionRecord]
         /\ replied' \subseteq Requests /\ late' \subseteq Requests
         /\ AllSound'
BY DEF TInv, TypeOK, clientVars, AllSound

LEMMA BecomesSound ==
  ASSUME TInv, NEW x \in Requests, NEW t \in TransactionRecord, Becomes(x, t),
         replied' \in {replied, replied \cup {x}}, late' \in {late, late \cup {x}},
         Sound(x, t, replied', late'), UNCHANGED serverVars
  PROVE  TInv'
<1>1. /\ client' \in [Requests -> TransactionRecord]
      /\ replied' \subseteq Requests /\ late' \subseteq Requests
  BY DEF TInv, TypeOK, Becomes
<1>2. \A y \in Requests : Sound(y, client'[y], replied', late')
  <2> SUFFICES ASSUME NEW y \in Requests PROVE Sound(y, client'[y], replied', late')
    OBVIOUS
  <2>1. CASE y = x
    BY <2>1 DEF TInv, TypeOK, Becomes
  <2>2. CASE y # x
    <3>1. /\ client'[y] = client[y]
          /\ y \in replied <=> y \in replied'
          /\ y \in late <=> y \in late'
      BY <2>2 DEF TInv, TypeOK, Becomes
    <3>2. Sound(y, client[y], replied, late)
      BY DEF TInv, AllSound
    <3> QED BY <3>1, <3>2 DEF Sound
  <2> QED BY <2>1, <2>2
<1> QED BY <1>1, <1>2, ServerSideKept DEF AllSound
-----------------------------------------------------------------------------
(* The table of the server transactions and the rejected INVITEs. *)

Entries == Incoming \X {"INVITE", "CANCEL", "BYE"}

LEMMA ServerEffect ==
  ASSUME TypeOK, NEW c \in Incoming, NEW s \in ServerState, NEW n \in 0..Timer,
         ServerBecomes(c, s, n)
  PROVE  /\ server' \in [Incoming -> [state : ServerState, ticksLeft : 0..Timer]]
         /\ \A d \in Incoming :
              server'[d].state = IF d = c THEN s ELSE server[d].state
BY DEF TypeOK, ServerBecomes

LEMMA PendingFinite ==
  IsFiniteSet(Pending) /\ Cardinality(Pending) \in Nat
BY IncomingAssumption, FS_Subset, FS_CardinalityType DEF Pending

LEMMA PendingAdded ==
  ASSUME TypeOK, NEW c \in Incoming, NEW n \in 0..Timer, ServerBecomes(c, "COMPLETED", n)
  PROVE  /\ Cardinality(Pending)' \in Nat
         /\ Cardinality(Pending)' = IF server[c].state = "COMPLETED" THEN Cardinality(Pending)
                                    ELSE Cardinality(Pending) + 1
<1>1. \A d \in Incoming :
        server'[d].state = IF d = c THEN "COMPLETED" ELSE server[d].state
  BY ServerEffect DEF ServerState
<1>2. Pending' = Pending \cup {c}
  BY <1>1 DEF Pending
<1>3. Pending = {d \in Incoming : server[d].state = "COMPLETED"}
  BY DEF Pending
<1>4. IsFiniteSet(Pending') /\ Cardinality(Pending') \in Nat
  BY <1>2, PendingFinite, FS_AddElement, FS_CardinalityType
<1> QED BY <1>2, <1>3, <1>4, PendingFinite, FS_AddElement

LEMMA PendingRemoved ==
  ASSUME TypeOK, NEW c \in Incoming, NEW s \in ServerState, s # "COMPLETED",
         NEW n \in 0..Timer, ServerBecomes(c, s, n)
  PROVE  /\ Cardinality(Pending)' \in Nat
         /\ Cardinality(Pending)' = IF server[c].state = "COMPLETED"
                                    THEN Cardinality(Pending) - 1 ELSE Cardinality(Pending)
<1>1. \A d \in Incoming : server'[d].state = IF d = c THEN s ELSE server[d].state
  BY ServerEffect
<1>2. Pending' = Pending \ {c}
  BY <1>1 DEF Pending
<1>3. Pending = {d \in Incoming : server[d].state = "COMPLETED"}
  BY DEF Pending
<1>4. IsFiniteSet(Pending')
  BY <1>2, PendingFinite, FS_RemoveElement
<1>5. Cardinality(Pending') \in Nat
  BY <1>4, FS_CardinalityType
<1> QED BY <1>2, <1>3, <1>5, PendingFinite, FS_RemoveElement

\* A rejected INVITE is one of the pending ones.
LEMMA PendingCounted ==
  ASSUME NEW c \in Incoming, server[c].state = "COMPLETED"
  PROVE  Cardinality(Pending) >= 1
<1>1. Pending # {}
  BY DEF Pending
<1> QED BY <1>1, PendingFinite, FS_EmptySet

\* An entry more, and as many INVITEs that may take one.
LEMMA AppendShelters ==
  ASSUME TypeOK, NEW e \in Entries, table' = Append(table, e), NEW c \in Incoming,
         Sheltered(c), Cardinality(Pending)' = Cardinality(Pending)
  PROVE  Sheltered(c)'
<1>1. table \in Seq(Entries)
  BY DEF TypeOK, Entries
<1>2. PICK p \in 1..Len(table) : table[p] = Invite(c) /\ Cardinality(Pending) < p
  BY DEF Sheltered
<1>3. Len(table') = Len(table) + 1 /\ table'[p] = table[p] /\ Len(table) \in Nat
  BY <1>1, AppendProperties, LenProperties
<1>4. p \in 1..Len(table')
  BY <1>3
<1> QED BY <1>2, <1>3, <1>4 DEF Sheltered, Invite

\* The first entry goes, and one of those that may take one.
LEMMA EvictionShelters ==
  ASSUME TypeOK, table # <<>>, table' = Tail(table), NEW c \in Incoming,
         Sheltered(c), Cardinality(Pending) \in Nat, Cardinality(Pending) >= 1,
         Cardinality(Pending)' = Cardinality(Pending) - 1
  PROVE  Sheltered(c)'
<1>1. table \in Seq(Entries)
  BY DEF TypeOK, Entries
<1>2. PICK p \in 1..Len(table) : table[p] = Invite(c) /\ Cardinality(Pending) < p
  BY DEF Sheltered
<1>3. /\ Len(table') = Len(table) - 1 /\ Len(table) \in Nat
      /\ \A i \in 1..Len(table') : table'[i] = table[i + 1]
  BY <1>1, HeadTailProperties, LenProperties
<1>4. p - 1 \in 1..Len(table') /\ (p - 1) + 1 = p
  BY <1>2, <1>3
<1>5. table'[p - 1] = Invite(c) /\ Cardinality(Pending)' < p - 1
  BY <1>2, <1>3, <1>4
<1> QED BY <1>4, <1>5 DEF Sheltered, Invite

\* What an action of the server side has to show.
LEMMA ServerStep ==
  ASSUME TInv, UNCHANGED clientVars,
         server' \in [Incoming -> [state : ServerState, ticksLeft : 0..Timer]],
         table' \in Seq(Entries), cancelled' \subseteq Incoming, byed' \subseteq Incoming,
         disturbed' \in BOOLEAN, OneRings',
         ~disturbed' => EnoughEntries' /\ RingingSheltered'
  PROVE  TInv'
BY ClientSideKept DEF TInv, TypeOK, Entries
-----------------------------------------------------------------------------
(* The actions of the server side. *)

\* The parts of TInv, with the facts about Entries and Pending.
LEMMA TInvParts ==
  ASSUME TInv
  PROVE  /\ TypeOK /\ OneRings
         /\ ~disturbed => EnoughEntries /\ RingingSheltered
         /\ table \in Seq(Entries) /\ Len(table) \in Nat
         /\ Cardinality(Pending) \in Nat
BY PendingFinite, LenProperties DEF TInv, TypeOK, Entries

LEMMA AppendedTable ==
  ASSUME TInv, NEW e \in Entries, table' = Append(table, e)
  PROVE  /\ table' \in Seq(Entries)
         /\ Len(table') = Len(table) + 1 /\ table'[Len(table) + 1] = e
BY TInvParts, AppendProperties

LEMMA EvictedTable ==
  ASSUME TInv, NEW e \in Entries, table' = EvictFirst(Append(table, e))
  PROVE  table' \in Seq(Entries)
BY TInvParts, AppendProperties, HeadTailProperties DEF EvictFirst

LEMMA InviteArrivesKeeps ==
  ASSUME TInv, NEW c \in Incoming, InviteArrives(c)
  PROVE  TInv'
<1>1. /\ UNCHANGED <<clientVars, cancelled, byed>> /\ table' = Append(table, Invite(c))
      /\ server[c].state = "null"
  BY DEF InviteArrives
<1>2. Invite(c) \in Entries
  BY DEF Invite, Entries
<1>3. /\ table' \in Seq(Entries) /\ Len(table') = Len(table) + 1
      /\ table'[Len(table) + 1] = Invite(c)
  BY <1>1, <1>2, AppendedTable
<1>4. 0 \in 0..Timer /\ Timer \in 0..Timer
  BY TimerAssumption
<1>5. cancelled' \subseteq Incoming /\ byed' \subseteq Incoming /\ UNCHANGED clientVars
  BY <1>1, TInvParts DEF TypeOK
<1>6. CASE /\ ~\E d \in Incoming : Ringing(d)
           /\ ServerBecomes(c, "PROCEEDING", 0) /\ UNCHANGED disturbed
  <2>1. /\ server' \in [Incoming -> [state : ServerState, ticksLeft : 0..Timer]]
        /\ \A d \in Incoming :
             server'[d].state = IF d = c THEN "PROCEEDING" ELSE server[d].state
    BY <1>4, <1>6, TInvParts, ServerEffect DEF ServerState
  <2>2. Cardinality(Pending)' = Cardinality(Pending)
    BY <1>1, <1>4, <1>6, TInvParts, PendingRemoved DEF ServerState
  <2>3. \A d \in Incoming : Ringing(d)' => d = c
    BY <1>6, <2>1 DEF Ringing
  <2>4. OneRings'
    BY <2>3 DEF OneRings
  <2>5. ASSUME ~disturbed' PROVE EnoughEntries' /\ RingingSheltered'
    <3>1. Cardinality(Pending) <= Len(table)
      BY <1>6, <2>5, TInvParts DEF EnoughEntries
    <3>2. Len(table) + 1 \in 1..Len(table') /\ Cardinality(Pending)' < Len(table) + 1
      BY <1>3, <2>2, <3>1, TInvParts
    <3>3. Sheltered(c)'
      BY <1>3, <3>2 DEF Sheltered, Invite
    <3> QED BY <1>3, <2>2, <2>3, <3>1, <3>3, TInvParts DEF EnoughEntries, RingingSheltered
  <2>6. disturbed' \in BOOLEAN
    BY <1>6, TInvParts DEF TypeOK
  <2> QED BY <1>3, <1>5, <2>1, <2>4, <2>5, <2>6, ServerStep
<1>7. CASE /\ ServerBecomes(c, "COMPLETED", Timer)
           /\ disturbed' = (disturbed \/ \E d \in Incoming : Ringing(d))
  <2>1. /\ server' \in [Incoming -> [state : ServerState, ticksLeft : 0..Timer]]
        /\ \A d \in Incoming :
             server'[d].state = IF d = c THEN "COMPLETED" ELSE server[d].state
    BY <1>4, <1>7, TInvParts, ServerEffect DEF ServerState
  <2>2. Cardinality(Pending)' = Cardinality(Pending) + 1
    BY <1>1, <1>4, <1>7, TInvParts, PendingAdded
  <2>3. \A d \in Incoming : Ringing(d)' => Ringing(d)
    BY <2>1 DEF Ringing
  <2>4. OneRings'
    BY <2>3, TInvParts DEF OneRings
  <2>5. ASSUME ~disturbed' PROVE EnoughEntries' /\ RingingSheltered'
    <3>1. ~disturbed /\ ~\E d \in Incoming : Ringing(d)
      BY <1>7, <2>5
    <3>2. Cardinality(Pending) <= Len(table)
      BY <3>1, TInvParts DEF EnoughEntries
    <3>3. EnoughEntries'
      BY <1>3, <2>2, <3>2, TInvParts DEF EnoughEntries
    <3> QED BY <2>3, <3>1, <3>3 DEF RingingSheltered
  <2>6. disturbed' \in BOOLEAN
    BY <1>7, TInvParts DEF TypeOK
  <2> QED BY <1>3, <1>5, <2>1, <2>4, <2>5, <2>6, ServerStep
<1> QED BY <1>6, <1>7 DEF InviteArrives

\* An INVITE leaves PROCEEDING or is no longer waited for, the table stays.
LEMMA SettledKeeps ==
  ASSUME TInv, NEW c \in Incoming, NEW s \in {"COMPLETED", "TERMINATED"}, NEW n \in 0..Timer,
         ServerBecomes(c, s, n), Ringing(c) \/ server[c].state = "COMPLETED",
         UNCHANGED <<clientVars, disturbed>>,
         cancelled' \subseteq Incoming, byed' \subseteq Incoming,
         table' = table \/ \E e \in Entries : table' = Append(table, e)
  PROVE  TInv'
<1>1. /\ server' \in [Incoming -> [state : ServerState, ticksLeft : 0..Timer]]
      /\ \A d \in Incoming : server'[d].state = IF d = c THEN s ELSE server[d].state
  BY TInvParts, ServerEffect DEF ServerState
<1>2. \A d \in Incoming : Ringing(d)' => Ringing(d) /\ d # c
  BY <1>1 DEF Ringing
<1>3. OneRings'
  BY <1>2, TInvParts DEF OneRings
<1>4. /\ table' \in Seq(Entries) /\ Len(table') \in Nat /\ Len(table') >= Len(table)
      /\ \A p \in 1..Len(table) : p \in 1..Len(table') /\ table'[p] = table[p]
  <2>1. CASE table' = table
    BY <2>1, TInvParts
  <2>2. CASE \E e \in Entries : table' = Append(table, e)
    BY <2>2, TInvParts, AppendProperties
  <2> QED BY <2>1, <2>2
<1>5. /\ Cardinality(Pending)' \in Nat
      /\ Cardinality(Pending)' <= Cardinality(Pending) \/ Ringing(c)
      /\ Cardinality(Pending)' <= Cardinality(Pending) + 1
  <2>1. CASE s = "COMPLETED"
    BY <2>1, TInvParts, PendingAdded DEF Ringing
  <2>2. CASE s = "TERMINATED"
    BY <2>2, TInvParts, PendingRemoved DEF Ringing, ServerState
  <2> QED BY <2>1, <2>2
<1>6. ASSUME ~disturbed' PROVE EnoughEntries' /\ RingingSheltered'
  <2>1. EnoughEntries /\ RingingSheltered
    BY <1>6, TInvParts
  <2>2. CASE Ringing(c)
    <3>1. PICK p \in 1..Len(table) : Cardinality(Pending) < p
      BY <2>1, <2>2 DEF RingingSheltered, Sheltered
    <3>2. Cardinality(Pending)' <= Len(table')
      BY <1>4, <1>5, <3>1, TInvParts
    <3>3. \A d \in Incoming : ~Ringing(d)'
      BY <1>2, <2>2, TInvParts DEF OneRings
    <3> QED BY <3>2, <3>3 DEF EnoughEntries, RingingSheltered
  <2>3. CASE ~Ringing(c)
    <3>1. Cardinality(Pending)' <= Cardinality(Pending)
      BY <1>5, <2>3
    <3>2. Cardinality(Pending)' <= Len(table')
      BY <1>4, <1>5, <2>1, <3>1, TInvParts DEF EnoughEntries
    <3>3. ASSUME NEW d \in Incoming, Ringing(d)' PROVE Sheltered(d)'
      <4>1. PICK p \in 1..Len(table) : table[p] = Invite(d) /\ Cardinality(Pending) < p
        BY <1>2, <2>1, <3>3 DEF RingingSheltered, Sheltered
      <4>2. p \in 1..Len(table') /\ table'[p] = Invite(d) /\ Cardinality(Pending)' < p
        BY <1>4, <1>5, <3>1, <4>1, TInvParts
      <4> QED BY <4>2 DEF Sheltered, Invite
    <3> QED BY <3>2, <3>3 DEF EnoughEntries, RingingSheltered
  <2> QED BY <2>2, <2>3
<1>7. disturbed' \in BOOLEAN /\ UNCHANGED clientVars
  BY TInvParts DEF TypeOK
<1> QED BY <1>1, <1>3, <1>4, <1>6, <1>7, ServerStep

\* A request that finds its transaction or dialog only adds an entry.
LEMMA AppendKeeps ==
  ASSUME TInv, NEW e \in Entries, table' = Append(table, e),
         UNCHANGED <<clientVars, server, disturbed>>,
         cancelled' \subseteq Incoming, byed' \subseteq Incoming
  PROVE  TInv'
<1>1. table' \in Seq(Entries) /\ Len(table') = Len(table) + 1
  BY AppendedTable
<1>2. UNCHANGED server
  OBVIOUS
<1>3. Cardinality(Pending)' = Cardinality(Pending) /\ OneRings'
  BY <1>2, TInvParts DEF Pending, OneRings, Ringing
<1>4. \A d \in Incoming : Ringing(d)' = Ringing(d)
  BY <1>2 DEF Ringing
<1>5. ASSUME ~disturbed' PROVE EnoughEntries' /\ RingingSheltered'
  <2>1. EnoughEntries /\ RingingSheltered
    BY <1>5, TInvParts
  <2>2. EnoughEntries'
    BY <1>1, <1>3, <2>1, TInvParts DEF EnoughEntries
  <2>3. ASSUME NEW d \in Incoming, Ringing(d)' PROVE Sheltered(d)'
    BY <1>3, <1>4, <2>1, <2>3, TInvParts, AppendShelters DEF RingingSheltered
  <2> QED BY <2>2, <2>3 DEF RingingSheltered
<1>6. /\ server' \in [Incoming -> [state : ServerState, ticksLeft : 0..Timer]]
      /\ disturbed' \in BOOLEAN
  BY TInvParts DEF TypeOK
<1>7. UNCHANGED clientVars
  OBVIOUS
<1> QED BY <1>1, <1>3, <1>5, <1>6, <1>7, ServerStep

\* A request the stack answers itself: nothing is promised after that.
LEMMA DisturbedKeeps ==
  ASSUME TInv, UNCHANGED <<clientVars, server>>, disturbed' = TRUE,
         table' \in Seq(Entries), cancelled' \subseteq Incoming, byed' \subseteq Incoming
  PROVE  TInv'
<1>1. UNCHANGED server /\ UNCHANGED clientVars
  OBVIOUS
<1>2. /\ server' \in [Incoming -> [state : ServerState, ticksLeft : 0..Timer]]
      /\ OneRings'
  BY <1>1, TInvParts DEF TypeOK, OneRings, Ringing
<1> QED BY <1>1, <1>2, ServerStep

LEMMA UserAnswersKeeps ==
  ASSUME TInv, NEW c \in Incoming, UserAnswers(c)
  PROVE  TInv'
<1>1. 0 \in 0..Timer /\ Timer \in 0..Timer
  BY TimerAssumption
<1>4. cancelled' \subseteq Incoming /\ byed' \subseteq Incoming
  BY TInvParts DEF UserAnswers, TypeOK
<1>2. CASE ServerBecomes(c, "TERMINATED", 0)
  BY <1>1, <1>2, <1>4, SettledKeeps DEF UserAnswers
<1>3. CASE ServerBecomes(c, "COMPLETED", Timer)
  BY <1>1, <1>3, <1>4, SettledKeeps DEF UserAnswers
<1> QED BY <1>2, <1>3 DEF UserAnswers

LEMMA AckArrivesKeeps ==
  ASSUME TInv, NEW c \in Incoming, AckArrives(c)
  PROVE  TInv'
<1>1. 0 \in 0..Timer
  BY TimerAssumption
<1>2. cancelled' \subseteq Incoming /\ byed' \subseteq Incoming
  BY TInvParts DEF AckArrives, TypeOK
<1> QED BY <1>1, <1>2, SettledKeeps DEF AckArrives

LEMMA CancelArrivesKeeps ==
  ASSUME TInv, NEW c \in Incoming, CancelArrives(c)
  PROVE  TInv'
<1> DEFINE e == <<c, "CANCEL">>
<1>1. e \in Entries
  BY DEF Entries
<1>2. cancelled' \subseteq Incoming /\ byed' \subseteq Incoming /\ UNCHANGED clientVars
  BY TInvParts DEF CancelArrives, TypeOK
<1>3. Timer \in 0..Timer
  BY TimerAssumption
<1>4. CASE InTable(Invite(c)) /\ Ringing(c)
  <2>1. /\ table' = Append(table, e) /\ ServerBecomes(c, "COMPLETED", Timer)
        /\ UNCHANGED <<clientVars, byed, disturbed>>
    BY <1>4 DEF CancelArrives
  <2> HIDE DEF e
  <2> QED BY <1>1, <1>2, <1>3, <1>4, <2>1, SettledKeeps
<1>5. CASE InTable(Invite(c)) /\ ~Ringing(c)
  <2>1. table' = Append(table, e) /\ UNCHANGED <<clientVars, server, disturbed>>
    BY <1>5 DEF CancelArrives
  <2> HIDE DEF e
  <2> QED BY <1>1, <1>2, <2>1, AppendKeeps
<1>6. CASE ~InTable(Invite(c))
  <2>1. /\ table' = EvictFirst(Append(table, e)) /\ disturbed' = TRUE
        /\ UNCHANGED <<clientVars, server>>
    BY <1>6 DEF CancelArrives
  <2> HIDE DEF e
  <2>2. table' \in Seq(Entries)
    BY <1>1, <2>1, EvictedTable
  <2> QED BY <1>2, <2>1, <2>2, DisturbedKeeps
<1> QED BY <1>4, <1>5, <1>6

LEMMA ByeArrivesKeeps ==
  ASSUME TInv, NEW c \in Incoming, ByeArrives(c)
  PROVE  TInv'
<1> DEFINE e == <<c, "BYE">>
<1>1. e \in Entries
  BY DEF Entries
<1>2. /\ cancelled' \subseteq Incoming /\ byed' \subseteq Incoming
      /\ UNCHANGED clientVars /\ UNCHANGED server
  BY TInvParts DEF ByeArrives, TypeOK
<1>3. CASE table' = Append(table, e) /\ UNCHANGED disturbed
  <2> HIDE DEF e
  <2> QED BY <1>1, <1>2, <1>3, AppendKeeps
<1>4. CASE table' = EvictFirst(Append(table, e)) /\ disturbed' = TRUE
  <2> HIDE DEF e
  <2>1. table' \in Seq(Entries)
    BY <1>1, <1>4, EvictedTable
  <2> QED BY <1>2, <1>4, <2>1, DisturbedKeeps
<1> QED BY <1>3, <1>4 DEF ByeArrives

LEMMA ServerTickKeeps ==
  ASSUME TInv, NEW c \in Incoming, ServerTick(c)
  PROVE  TInv'
<1>1. server[c].state = "COMPLETED" /\ UNCHANGED <<clientVars, cancelled, byed, disturbed>>
  BY DEF ServerTick
<1>2. Cardinality(Pending) >= 1
  BY <1>1, PendingCounted
<1>3. CASE server[c].ticksLeft > 1
  <2> DEFINE n == server[c].ticksLeft - 1
  <2>1. n \in 0..Timer
    BY <1>3, TInvParts, TimerAssumption DEF TypeOK
  <2>2. ServerBecomes(c, "COMPLETED", n) /\ table' = table
    BY <1>3 DEF ServerTick
  <2>3. cancelled' \subseteq Incoming /\ byed' \subseteq Incoming
    BY <1>1, TInvParts DEF TypeOK
  <2> HIDE DEF n
  <2> QED BY <1>1, <2>1, <2>2, <2>3, SettledKeeps
<1>4. CASE ~(server[c].ticksLeft > 1)
  <2>1. ServerBecomes(c, "TERMINATED", 0) /\ table' = EvictFirst(table)
    BY <1>4 DEF ServerTick
  <2>2. 0 \in 0..Timer
    BY TimerAssumption
  <2>3. /\ server' \in [Incoming -> [state : ServerState, ticksLeft : 0..Timer]]
        /\ \A d \in Incoming :
             server'[d].state = IF d = c THEN "TERMINATED" ELSE server[d].state
    BY <2>1, <2>2, TInvParts, ServerEffect DEF ServerState
  <2>4. Cardinality(Pending)' = Cardinality(Pending) - 1
    BY <1>1, <2>1, <2>2, TInvParts, PendingRemoved DEF ServerState
  <2>5. table' \in Seq(Entries)
    BY <2>1, TInvParts, HeadTailProperties DEF EvictFirst
  <2>6. \A d \in Incoming : Ringing(d)' => Ringing(d)
    BY <2>3 DEF Ringing
  <2>7. ASSUME ~disturbed' PROVE EnoughEntries' /\ RingingSheltered'
    <3>1. EnoughEntries /\ RingingSheltered
      BY <1>1, <2>7, TInvParts
    <3>2. Len(table) >= 1
      BY <1>2, <3>1, TInvParts DEF EnoughEntries
    <3>3. table # <<>>
      BY <3>2, TInvParts, EmptySeq
    <3>4. table' = Tail(table) /\ Len(table') = Len(table) - 1
      BY <2>1, <3>3, TInvParts, HeadTailProperties DEF EvictFirst
    <3>5. EnoughEntries'
      BY <2>4, <3>1, <3>4, TInvParts DEF EnoughEntries
    <3>6. ASSUME NEW d \in Incoming, Ringing(d)' PROVE Sheltered(d)'
      <4>1. Sheltered(d)
        BY <2>6, <3>1, <3>6 DEF RingingSheltered
      <4> QED BY <1>2, <2>4, <3>3, <3>4, <4>1, TInvParts, EvictionShelters
    <3> QED BY <3>5, <3>6 DEF RingingSheltered
  <2>8. OneRings'
    BY <2>6, TInvParts DEF OneRings
  <2>9. /\ cancelled' \subseteq Incoming /\ byed' \subseteq Incoming /\ disturbed' \in BOOLEAN
        /\ UNCHANGED clientVars
    BY <1>1, TInvParts DEF TypeOK
  <2> QED BY <2>3, <2>5, <2>7, <2>8, <2>9, ServerStep
<1> QED BY <1>3, <1>4

-----------------------------------------------------------------------------
(* The actions of the client side. *)

LEMMA SoundOf ==
  ASSUME TInv, NEW x \in Requests
  PROVE  client[x] \in TransactionRecord /\ Sound(x, client[x], replied, late)
BY DEF TInv, TypeOK, AllSound

LEMMA StartKeeps ==
  ASSUME TInv, NEW x \in Requests, NEW s \in {"CALLING", "TRYING"}, Becomes(x, Started(s)),
         client[x].state = "null", UNCHANGED <<replied, late, serverVars>>
  PROVE  TInv'
<1>1. UNCHANGED serverVars /\ replied' = replied /\ late' = late
  OBVIOUS
<1>2. x \notin late
  BY SoundOf DEF Sound
<1>3. Started(s) \in TransactionRecord /\ Sound(x, Started(s), replied', late')
  BY <1>1, <1>2, StartedSound
<1> QED BY <1>1, <1>3, BecomesSound

LEMMA HearProvisionalKeeps ==
  ASSUME TInv, NEW x \in Requests, HearProvisional(x)
  PROVE  TInv'
<1>1. PICK code \in {100, 180} :
        /\ Becomes(x, Provisional(x, client[x], code))
        /\ late' = Freed(x, client[x], code, late)
  BY DEF HearProvisional, Freed
<1> DEFINE t == Provisional(x, client[x], code)
<1>2. UNCHANGED serverVars /\ replied' = replied /\ Becomes(x, t)
  BY <1>1 DEF HearProvisional
<1>3. x \notin replied
  BY DEF HearProvisional
<1>4. t \in TransactionRecord /\ Sound(x, t, replied, late')
  BY <1>1, <1>3, SoundOf, ProvisionalSound
<1>5. late' \in {late, late \cup {x}}
  BY <1>1 DEF Freed
<1> HIDE DEF t
<1> QED BY <1>2, <1>4, <1>5, BecomesSound

LEMMA HearFinalKeeps ==
  ASSUME TInv, NEW x \in Requests, HearFinal(x)
  PROVE  TInv'
<1> DEFINE t == Final(x, client[x])
<1>1. /\ UNCHANGED serverVars /\ replied' = replied \cup {x} /\ late' = late /\ Becomes(x, t)
      /\ client[x].state # "null" /\ x \notin replied
  BY DEF HearFinal
<1>2. client[x] \in TransactionRecord /\ Sound(x, client[x], replied, late)
  BY SoundOf
<1>3. t \in TransactionRecord /\ Sound(x, t, replied', late')
  BY <1>1, <1>2, FinalSound
<1> HIDE DEF t
<1> QED BY <1>1, <1>3, BecomesSound

LEMMA TickKeeps ==
  ASSUME TInv, NEW x \in Requests, Tick(x)
  PROVE  TInv'
<1>1. client[x].ticking /\ replied' = replied /\ late' = late /\ UNCHANGED serverVars
  BY DEF Tick
<1>2. \A y \in Requests :
        \/ y = x /\ client'[y] = Ticked(client[x])
        \/ client[y].state \in {"CALLING", "PROCEEDING"} /\ client'[y] = Terminated(client[y])
        \/ client'[y] = client[y]
  BY DEF Tick
<1>3. client' = [y \in Requests |-> client'[y]]
  BY DEF Tick
<1>4. ASSUME NEW y \in Requests
      PROVE  client'[y] \in TransactionRecord /\ Sound(y, client'[y], replied, late)
  <2>1. CASE y = x /\ client'[y] = Ticked(client[x])
    BY <1>1, <2>1, SoundOf, TickedSound
  <2>2. CASE /\ client[y].state \in {"CALLING", "PROCEEDING"}
             /\ client'[y] = Terminated(client[y])
    BY <2>2, SoundOf, TerminatedSound
  <2>3. CASE client'[y] = client[y]
    BY <2>3, SoundOf
  <2> QED BY <1>2, <2>1, <2>2, <2>3
<1>5. /\ client' \in [Requests -> TransactionRecord]
      /\ replied' \subseteq Requests /\ late' \subseteq Requests
  BY <1>1, <1>3, <1>4, TInvParts DEF TypeOK
<1>6. AllSound'
  BY <1>1, <1>4 DEF AllSound
<1> QED BY <1>1, <1>5, <1>6, ServerSideKept

-----------------------------------------------------------------------------
LEMMA TInvInit == Init => TInv
<1> SUFFICES ASSUME Init PROVE TInv
  OBVIOUS
<1>1. NoTransaction \in TransactionRecord /\ \A x : Sound(x, NoTransaction, {}, {})
  BY TimerAssumption DEF NoTransaction, TransactionRecord, ClientState, Sound
<1>2. 0 \in 0..Timer
  BY TimerAssumption
<1>3. TypeOK
  <2>1. client \in [Requests -> TransactionRecord]
    BY <1>1 DEF Init
  <2>2. server \in [Incoming -> [state : ServerState, ticksLeft : 0..Timer]]
    BY <1>2 DEF Init, ServerState
  <2>3. table \in Seq(Incoming \X {"INVITE", "CANCEL", "BYE"})
    BY DEF Init
  <2> QED BY <2>1, <2>2, <2>3 DEF Init, TypeOK
<1>4. AllSound
  BY <1>1 DEF Init, AllSound
<1>5. \A c \in Incoming : ~Ringing(c) /\ server[c].state # "COMPLETED"
  BY DEF Init, Ringing
<1>6. OneRings /\ RingingSheltered
  BY <1>5 DEF OneRings, RingingSheltered
<1>7. Pending = {}
  BY <1>5 DEF Pending
<1>8. EnoughEntries
  BY <1>7, FS_EmptySet DEF Init, EnoughEntries
<1> QED BY <1>3, <1>4, <1>6, <1>8 DEF TInv

LEMMA TInvNext == TInv /\ [Next]_vars => TInv'
<1> SUFFICES ASSUME TInv, [Next]_vars PROVE TInv'
  OBVIOUS
<1>1. ASSUME NEW c \in Outgoing, SendInvite(c) PROVE TInv'
  BY <1>1, StartKeeps DEF SendInvite, Invite, Requests
<1>2. ASSUME NEW c \in Outgoing, SendCancel(c) PROVE TInv'
  BY <1>2, StartKeeps DEF SendCancel, Requests
<1>3. ASSUME NEW c \in Outgoing, SendBye(c) PROVE TInv'
  BY <1>3, StartKeeps DEF SendBye, Requests
<1>4. ASSUME NEW x \in Requests, HearProvisional(x) \/ HearFinal(x) \/ Tick(x) PROVE TInv'
  BY <1>4, HearProvisionalKeeps, HearFinalKeeps, TickKeeps
<1>5. ASSUME NEW c \in Incoming, InviteArrives(c) \/ UserAnswers(c) \/ AckArrives(c) PROVE TInv'
  BY <1>5, InviteArrivesKeeps, UserAnswersKeeps, AckArrivesKeeps
<1>6. ASSUME NEW c \in Incoming, CancelArrives(c) \/ ByeArrives(c) \/ ServerTick(c) PROVE TInv'
  BY <1>6, CancelArrivesKeeps, ByeArrivesKeeps, ServerTickKeeps
<1>7. CASE UNCHANGED vars
  <2>1. UNCHANGED clientVars /\ UNCHANGED serverVars
    BY <1>7 DEF vars
  <2> QED BY <2>1, ClientSideKept, ServerSideKept
<1>8. CASE ClientSteps
  BY <1>1, <1>2, <1>3, <1>4, <1>8 DEF ClientSteps
<1>9. CASE ServerSteps
  BY <1>5, <1>6, <1>9 DEF ServerSteps
<1> QED BY <1>7, <1>8, <1>9 DEF Next

LEMMA TInvAlways == Spec => []TInv
BY TInvInit, TInvNext, PTL DEF Spec

\* Every value a transaction, the table or a timer can take is of its type.
THEOREM TypeCorrect == Spec => []TypeOK
<1>1. TInv => TypeOK
  BY DEF TInv
<1> QED BY <1>1, TInvAlways, PTL

\* A request is reported to the listener once: whatever comes first of the final
\* response, the timeout and the CANCEL that ends an INVITE, what comes after it is
\* not told, however many calls are dialled, unless a 180 or 183 has come after the
\* timeout of the INVITE; and then the listener is told twice at most.
THEOREM ToldOnceHolds == Spec => []ToldOnce
<1>1. TInv => ToldOnce
  BY DEF TInv, AllSound, Sound, ToldOnce
<1> QED BY <1>1, TInvAlways, PTL

\* The removals of the wrong entries never reach a ringing INVITE while they
\* are only those of rejected calls from before it rang: they are fewer than
\* the entries in front of it.
THEOREM RingingIsFoundHolds == Spec => []RingingIsFound
<1>1. ASSUME NEW c \in Incoming, Sheltered(c) PROVE InTable(Invite(c))
  <2>1. PICK p \in 1..Len(table) : table[p] = Invite(c)
    BY <1>1 DEF Sheltered
  <2>2. ASSUME TypeOK PROVE p \in DOMAIN table
    BY <2>2, LenProperties DEF TypeOK
  <2> QED BY <2>1 DEF InTable
<1>2. TInv => RingingIsFound
  BY <1>1 DEF TInv, RingingSheltered, RingingIsFound
<1> QED BY <1>2, TInvAlways, PTL
=============================================================================
