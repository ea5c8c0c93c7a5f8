----------------------- MODULE SessionAdapter_proofs ------------------------
(* For any number of adapters, calls and slots, any limits and any number   *)
(* of broker lives: sessions have owners, running calls have sessions,      *)
(* nobody waits in vain, the limit holds, and a call runs twice only when   *)
(* it was cut off.                                                          *)
(*                                                                          *)
(* The argument: no two adapters know one session, so that what one does    *)
(* with its session disturbs no other; and a transport that was closed has  *)
(* no calls on the wire, so that a session is replaced under nobody.        *)
EXTENDS SessionAdapter, FiniteSetTheorems, SequenceTheorems, TLAPS

(* The sessions that calls run in are counted by them, and ready.           *)
RunIn(s) == {c \in Calls : call[c].at = "running" /\ adapter[OwnerOf[c]].inner = s}

Counts == \A s \in Sessions : sess[s].inFlight = Cardinality(RunIn(s))

(* Only a newcomer in its room waits, for an instance that closes.          *)
RoomInv ==
  \A s \in Sessions :
    /\ sess[s].at = "room" <=> sess[s].waits # Gone
    /\ sess[s].waits # Gone => sess[sess[s].waits].at = "closing"

(* An adapter knows a session that is ready, or the one it is opening.      *)
Holds(a) ==
  /\ adapter[a].inner # Gone => sess[adapter[a].inner].at = "ready"
  /\ adapter[a].next # Gone =>
       \/ adapter[a].shake = "opening" /\ sess[adapter[a].next].at \in {"room", "starting", "open"}
       \/ adapter[a].shake = "answered" /\ sess[adapter[a].next].at = "ready"
  /\ adapter[a].pc = "gone" => adapter[a].shake = "none"
  /\ adapter[a].pc = "connecting" => adapter[a].shake # "none"
  /\ adapter[a].shake # "none" => adapter[a].pc = "connecting" \/ adapter[a].closed

HolderInv == \A a \in Adapters : Holds(a)

(* No session is known twice.                                               *)
RefsApart ==
  \A a, b \in Adapters :
    /\ adapter[a].inner # Gone => adapter[a].inner # adapter[b].next
    /\ adapter[a].inner # Gone /\ a # b => adapter[a].inner # adapter[b].inner
    /\ adapter[a].next # Gone /\ a # b => adapter[a].next # adapter[b].next

(* Where a call can be, by where its adapter is.                            *)
Placed(c) ==
  LET a == OwnerOf[c]
  IN /\ call[c].at = "parked" => adapter[a].shake # "none"
     /\ adapter[a].closed => call[c].at \notin {"sent", "running"}
     /\ adapter[a].pc \in {"connecting", "gone"} => call[c].at \in {"new", "done"}
     /\ call[c].at = "running" => adapter[a].inner # Gone

CallsInv == \A c \in Calls : Placed(c)

(* How often a call has run, by how far it is.                              *)
RunsRight(k) ==
  /\ k.runs = (IF k.at = "running" THEN k.cut + 1 ELSE k.cut)
  /\ (~k.resent /\ k.at \in {"new", "sent"}) => k.runs = 0
  /\ (~k.resent \/ k.at = "sent") => k.runs <= 1
  /\ k.at \in {"new", "parked"} => ~k.resent
  /\ k.runs <= 2

RunsInv == \A c \in Calls : RunsRight(call[c])

SInv ==
  /\ TypeOK /\ RoomInv /\ HolderInv /\ RefsApart
  /\ CallsInv /\ Counts /\ EverySessionHeld

----------------------------------------------------------------------------
(* What TypeOK says of each record, for the leaves below.                   *)

AdapterRecord ==
  [pc : {"connecting", "serving", "ended", "gone"}, inner : Refs, closed : BOOLEAN,
   shake : {"none", "trying", "opening", "answered"}, next : Refs, tries : Nat]

CallRecord ==
  [at : {"new", "sent", "running", "lost", "parked", "done"},
   on : {"inner", "old"}, resent : BOOLEAN, runs : Nat, cut : Nat]

SessionRecord == [at : Stages, inFlight : Nat, waits : Refs]

LEMMA Typed ==
  ASSUME TypeOK
  PROVE  /\ endpoint \in Limits /\ lru \in Seq(Sessions)
         /\ broker \in {"up", "down"} /\ lives \in 1 .. MaxLives
         /\ left \subseteq Sessions
         /\ adapter \in [Adapters -> AdapterRecord]
         /\ call \in [Calls -> CallRecord]
         /\ sess \in [Sessions -> SessionRecord]
BY DEF TypeOK, TableTypeOK, AdapterRecord, CallRecord, SessionRecord, Refs

LEMMA TypedNext ==
  ASSUME endpoint' \in Limits, lru' \in Seq(Sessions),
         broker' \in {"up", "down"}, lives' \in 1 .. MaxLives,
         left' \subseteq Sessions,
         adapter' \in [Adapters -> AdapterRecord],
         call' \in [Calls -> CallRecord],
         sess' \in [Sessions -> SessionRecord]
  PROVE  TypeOK'
BY DEF TypeOK, TableTypeOK, AdapterRecord, CallRecord, SessionRecord, Refs

(* Four fields at once, two at a time.                                      *)
LEMMA FourFields ==
  ASSUME NEW r \in AdapterRecord, NEW pc \in {"connecting", "serving", "ended", "gone"},
         NEW shake \in {"none", "trying", "opening", "answered"},
         NEW next \in Refs, NEW tries \in Nat
  PROVE  [r EXCEPT !.shake = shake, !.next = next, !.tries = tries, !.pc = pc] \in AdapterRecord
<1> DEFINE q == [r EXCEPT !.shake = shake, !.next = next]
<1>1. q \in AdapterRecord
  BY DEF AdapterRecord
<1>2. [r EXCEPT !.shake = shake, !.next = next, !.tries = tries, !.pc = pc]
        = [q EXCEPT !.tries = tries, !.pc = pc]
  OBVIOUS
<1> HIDE DEF q
<1>3. [q EXCEPT !.tries = tries, !.pc = pc] \in AdapterRecord
  BY <1>1 DEF AdapterRecord
<1> QED
  BY <1>2, <1>3

LEMMA AdapterFields ==
  ASSUME TypeOK, NEW a \in Adapters
  PROVE  /\ adapter[a] \in AdapterRecord
         /\ adapter[a].pc \in {"connecting", "serving", "ended", "gone"}
         /\ adapter[a].inner \in Refs /\ adapter[a].next \in Refs
         /\ adapter[a].closed \in BOOLEAN
         /\ adapter[a].shake \in {"none", "trying", "opening", "answered"}
         /\ adapter[a].tries \in Nat
BY Typed DEF AdapterRecord

LEMMA CallFields ==
  ASSUME TypeOK, NEW c \in Calls
  PROVE  /\ OwnerOf[c] \in Adapters
         /\ call[c] \in CallRecord
         /\ call[c].at \in {"new", "sent", "running", "lost", "parked", "done"}
         /\ call[c].on \in {"inner", "old"} /\ call[c].resent \in BOOLEAN
         /\ call[c].runs \in Nat /\ call[c].cut \in Nat
BY Typed, OwnersAreAdapters DEF CallRecord

LEMMA SessionFields ==
  ASSUME TypeOK, NEW s \in Sessions
  PROVE  /\ sess[s] \in SessionRecord
         /\ sess[s].at \in Stages /\ sess[s].inFlight \in Nat /\ sess[s].waits \in Refs
BY Typed DEF SessionRecord

----------------------------------------------------------------------------
(* The order of use stays a sequence of sessions.                           *)

LEMMA LruStays ==
  ASSUME TypeOK, NEW s \in Sessions
  PROVE  /\ Without(s) \in Seq(Sessions)
         /\ \A t \in Sessions : Append(Without(s), t) \in Seq(Sessions)
<1>1. lru \in Seq(Sessions) /\ Len(lru) \in Nat /\ DOMAIN lru = 1 .. Len(lru)
  BY Typed, LenProperties
<1>2. Without(s) \in Seq(Sessions)
  <2>1. CASE \E i \in DOMAIN lru : lru[i] = s
    <3> DEFINE i == CHOOSE i \in DOMAIN lru : lru[i] = s
    <3>1. i \in 1 .. Len(lru)
      BY <1>1, <2>1
    <3>2. Without(s) = SubSeq(lru, 1, i - 1) \o SubSeq(lru, i + 1, Len(lru))
      BY <2>1 DEF Without, RemoveAt
    <3> HIDE DEF i
    <3>3. /\ SubSeq(lru, 1, i - 1) \in Seq(Sessions)
          /\ SubSeq(lru, i + 1, Len(lru)) \in Seq(Sessions)
      <4>1. \A k \in 1 .. i - 1 : lru[k] \in Sessions
        BY <1>1, <3>1, ElementOfSeq
      <4>2. \A k \in i + 1 .. Len(lru) : lru[k] \in Sessions
        BY <1>1, <3>1, ElementOfSeq
      <4> QED
        BY <1>1, <3>1, <4>1, <4>2, SubSeqProperties
    <3> QED
      BY <3>2, <3>3, ConcatProperties
  <2>2. CASE ~ \E i \in DOMAIN lru : lru[i] = s
    BY <1>1, <2>2 DEF Without
  <2> QED
    BY <2>1, <2>2
<1> QED
  BY <1>2, AppendProperties

----------------------------------------------------------------------------
(* A call runs again only when it was cut off.                              *)

LEMMA MovedCall ==
  ASSUME TypeOK, NEW C, NEW stage \in {"sent", "lost", "parked", "done"},
         NEW c \in Calls
  PROVE  /\ CallsMove(C, stage)[c] =
              IF c \notin C THEN call[c]
              ELSE IF stage = "done" THEN Fresh(stage)
              ELSE [call[c] EXCEPT !.at = stage]
         /\ CallsMove(C, stage)[c].at = (IF c \in C THEN stage ELSE call[c].at)
         /\ CallsMove(C, stage)[c] \in CallRecord
BY CallFields DEF CallsMove, Fresh, CallRecord

LEMMA OneMoves ==
  ASSUME TypeOK, NEW c \in Calls, NEW d \in Calls,
         NEW stage \in {"sent", "lost", "parked", "done"},
         call' = CallsMove({c}, stage)
  PROVE  call'[d] = IF d # c THEN call[d]
                    ELSE IF stage = "done" THEN Fresh("done")
                    ELSE [call[c] EXCEPT !.at = stage]
<1>1. CallsMove({c}, stage)[d] = IF d \notin {c} THEN call[d]
                                 ELSE IF stage = "done" THEN Fresh(stage)
                                 ELSE [call[d] EXCEPT !.at = stage]
  BY MovedCall
<1> QED
  BY <1>1

LEMMA FreshIsRight == RunsRight(Fresh("done")) /\ RunsRight(Fresh("new"))
BY DEF RunsRight, Fresh

LEMMA DoneIsRight ==
  ASSUME TypeOK, RunsInv, NEW C, call' = CallsMove(C, "done")
  PROVE  RunsInv'
<1> SUFFICES ASSUME NEW c \in Calls PROVE RunsRight(call'[c])
  BY DEF RunsInv, RunsRight
<1>1. call'[c] \in {call[c], Fresh("done")}
  BY MovedCall
<1> QED
  BY <1>1, FreshIsRight DEF RunsInv

LEMMA RunsStep == TypeOK /\ RunsInv /\ [Next]_vars => RunsInv'
<1> SUFFICES ASSUME TypeOK, RunsInv, [Next]_vars PROVE RunsInv'
  OBVIOUS
<1>0. ASSUME call' = call PROVE RunsInv'
  BY <1>0 DEF RunsInv, RunsRight
<1>1. ASSUME NEW a \in Adapters, Handshake(a) \/ EndSession(a) \/ Kill(a)
      PROVE  RunsInv'
  <2>1. CASE Initialized(a)
    <3> SUFFICES ASSUME NEW c \in Calls PROVE RunsRight(call'[c])
      BY DEF RunsInv, RunsRight
    <3>1. call'[c] = IF c \in Of(a, {"parked"}) THEN [call[c] EXCEPT !.at = "sent", !.resent = TRUE]
                     ELSE IF c \in Of(a, {"lost"}) THEN [call[c] EXCEPT !.on = "old"]
                     ELSE call[c]
      BY <2>1 DEF Initialized
    <3>2. c \in Of(a, {"parked"}) => call[c].at = "parked"
      BY DEF Of
    <3>3. RunsRight(call[c]) /\ call[c] \in CallRecord
      BY CallFields DEF RunsInv
    <3> QED
      BY <3>1, <3>2, <3>3 DEF RunsRight, CallRecord
  <2>2. CASE (Refused(a) \/ Admitted(a)) \/ (OpeningFails(a) \/ OpeningTimesOut(a))
    BY <2>2, <1>0 DEF Refused, Admitted, OpeningFails, OpeningTimesOut
  <2>3. CASE InitializedFails(a) \/ GiveUp(a)
    BY <2>3, <1>0, DoneIsRight DEF InitializedFails, GiveUp, Throws
  <2>4. CASE EndSession(a) \/ Kill(a)
    BY <2>4, DoneIsRight DEF EndSession, Kill, AfterAbort
  <2> QED
    BY <1>1, <2>1, <2>2, <2>3, <2>4 DEF Handshake
<1>2. ASSUME NEW c \in Calls, Send(c) \/ CallStep(c) PROVE RunsInv'
  <2> SUFFICES ASSUME NEW d \in Calls PROVE RunsRight(call'[d])
    BY DEF RunsInv, RunsRight
  <2>0. /\ RunsRight(call[d]) /\ call[d] \in CallRecord
        /\ RunsRight(call[c]) /\ call[c] \in CallRecord
    BY CallFields DEF RunsInv
  <2>1. CASE Send(c)
    <3>1. PICK stage \in {"done", "sent"} : call' = CallsMove({c}, stage)
      BY <2>1 DEF Send, AfterAbort
    <3>2. /\ call'[d] \in {call[d], Fresh("done")} \/ (c = d /\ call'[d] = [call[c] EXCEPT !.at = "sent"])
      BY <3>1, OneMoves
    <3> QED
      BY <2>0, <2>1, <3>2, FreshIsRight DEF Send, RunsRight, CallRecord
  <2>2. CASE CallRefused(c)
    <3>1. PICK stage \in {"lost", "done"} : call' = CallsMove({c}, stage)
      BY <2>2 DEF CallRefused
    <3>2. call'[d] \in {call[d], Fresh("done")} \/ (c = d /\ call'[d] = [call[c] EXCEPT !.at = "lost"])
      BY <3>1, OneMoves
    <3> QED
      BY <2>0, <2>2, <3>2, FreshIsRight DEF CallRefused, RunsRight, CallRecord
  <2>3. CASE Forward(c)
    <3>1. CASE c # d
      BY <2>0, <2>3, <3>1, Typed DEF Forward
    <3>2. CASE c = d
      <4>1. /\ call[c].at = "sent" /\ call'[c].at = "running"
            /\ call'[c].runs = call[c].runs + 1
            /\ call'[c].cut = call[c].cut /\ call'[c].resent = call[c].resent
        BY <2>0, <2>3, Typed DEF Forward, CallRecord
      <4> QED
        BY <2>0, <3>2, <4>1, CallFields DEF RunsRight
    <3> QED
      BY <3>1, <3>2
  <2>4. CASE Answer(c)
    BY <2>4, DoneIsRight DEF Answer, RunsInv
  <2>5. CASE RouteTimesOut(c)
    <3>1. /\ call[c].at = "running"
          /\ call'[d] = call[d] \/ (c = d /\ call'[d] = [call[c] EXCEPT !.at = "lost", !.cut = @ + 1])
      BY <2>5, Typed DEF RouteTimesOut
    <3> QED
      BY <2>0, <3>1 DEF RunsRight, CallRecord
  <2>6. CASE OnLost(c)
    <3>1. /\ call[c].at = "lost"
          /\ \/ call'[d] \in {call[d], Fresh("done")}
             \/ /\ c = d /\ ~call[c].resent
                /\ \/ call'[d] = [call[c] EXCEPT !.at = "parked"]
                   \/ call'[d] = [call[c] EXCEPT !.at = "sent", !.on = "inner", !.resent = TRUE]
      <4> DEFINE aborted == CallsMove(Of(OwnerOf[c], {"sent", "running"}), AfterAbort)
      <4>1. /\ aborted \in [Calls -> CallRecord]
            /\ aborted[d] \in {call[d], Fresh("done")}
            /\ call[c].at = "lost" => aborted[c] = call[c]
        <5>1. aborted \in [Calls -> CallRecord]
          BY MovedCall DEF AfterAbort, CallsMove
        <5> QED
          BY <5>1, MovedCall DEF AfterAbort, Of
      <4> HIDE DEF aborted
      <4>2. CASE call' = [aborted EXCEPT ![c].at = "parked"] /\ ~call[c].resent
        BY <2>6, <4>1, <4>2 DEF OnLost
      <4>5. CASE call' = CallsMove({c}, "done")
        BY <2>6, <4>5, OneMoves DEF OnLost
      <4>3. CASE call' = CallsMove({c}, "parked") /\ ~call[c].resent
        <5>1. call'[d] = IF d = c THEN [call[c] EXCEPT !.at = "parked"] ELSE call[d]
          BY <4>3, OneMoves
        <5> QED
          BY <2>6, <4>3, <5>1 DEF OnLost
      <4>4. CASE ~call[c].resent /\ call' = [call EXCEPT ![c].at = "sent", ![c].on = "inner", ![c].resent = TRUE]
        BY <2>6, <4>4, Typed DEF OnLost
      <4> QED
        BY <2>6, <4>2, <4>3, <4>4, <4>5 DEF OnLost, aborted, AfterAbort
    <3> QED
      BY <2>0, <3>1, FreshIsRight DEF RunsRight, CallRecord
  <2> QED
    BY <1>2, <2>1, <2>2, <2>3, <2>4, <2>5, <2>6 DEF CallStep
<1>3. CASE BrokerEnds
  <2> SUFFICES ASSUME NEW c \in Calls PROVE RunsRight(call'[c])
    BY DEF RunsInv, RunsRight
  <2>1. call'[c] = IF call[c].at = "running"
                   THEN [call[c] EXCEPT !.at = "lost", !.cut = @ + 1] ELSE call[c]
    BY <1>3 DEF BrokerEnds
  <2>2. RunsRight(call[c]) /\ call[c] \in CallRecord
    BY CallFields DEF RunsInv
  <2> QED
    BY <2>1, <2>2 DEF RunsRight, CallRecord
<1>4. CASE (\E s \in Sessions : TableStep(s) \/ Reap(s)) \/ (LiveUpdate \/ BrokerStarts)
  BY <1>4, <1>0 DEF TableStep, Reap, LiveUpdate, BrokerStarts
<1>5. CASE UNCHANGED vars
  BY <1>5, <1>0 DEF vars
<1> QED
  BY <1>1, <1>2, <1>3, <1>4, <1>5 DEF Next

----------------------------------------------------------------------------
(* Calls and the sessions they run in.                                      *)

LEMMA CallSets ==
  ASSUME NEW C \in SUBSET Calls
  PROVE  IsFiniteSet(C) /\ Cardinality(C) \in Nat /\ (Cardinality(C) = 0 <=> C = {})
BY CallsAreFinite, FS_Subset, FS_CardinalityType, FS_EmptySet

LEMMA Busy ==
  ASSUME SInv, NEW c \in Calls, call[c].at = "running"
  PROVE  LET s == adapter[OwnerOf[c]].inner
         IN s \in Sessions /\ sess[s].at = "ready" /\ sess[s].inFlight > 0 /\ c \in RunIn(s)
<1> DEFINE s == adapter[OwnerOf[c]].inner
<1>1. OwnerOf[c] \in Adapters /\ s \in Refs /\ s # Gone
  BY CallFields, AdapterFields DEF SInv, CallsInv, Placed
<1>2. s \in Sessions /\ sess[s].at = "ready" /\ c \in RunIn(s)
  BY <1>1 DEF SInv, HolderInv, Holds, Refs, RunIn
<1>3. sess[s].inFlight = Cardinality(RunIn(s)) /\ RunIn(s) \in SUBSET Calls
  BY <1>2 DEF SInv, Counts, RunIn
<1> QED
  BY <1>2, <1>3, CallSets

LEMMA Idle ==
  ASSUME SInv, NEW s \in Sessions
  PROVE  /\ sess[s].inFlight = 0 => \A c \in Calls : call[c].at = "running" => adapter[OwnerOf[c]].inner # s
         /\ sess[s].at # "ready" => sess[s].inFlight = 0
<1>1. ASSUME NEW c \in Calls, call[c].at = "running", adapter[OwnerOf[c]].inner = s
      PROVE  sess[s].inFlight > 0 /\ sess[s].at = "ready"
  BY <1>1, Busy
<1>2. sess[s].inFlight = Cardinality(RunIn(s)) /\ RunIn(s) \in SUBSET Calls
  BY DEF SInv, Counts, RunIn
<1>3. sess[s].at # "ready" => RunIn(s) = {}
  BY <1>1 DEF RunIn
<1> QED
  BY <1>1, <1>2, <1>3, CallSets

LEMMA CountsKept ==
  ASSUME SInv, NEW s \in Sessions, sess'[s].inFlight = sess[s].inFlight,
         \A c \in Calls : (call'[c].at = "running" /\ adapter'[OwnerOf[c]].inner = s)
                            <=> (call[c].at = "running" /\ adapter[OwnerOf[c]].inner = s)
  PROVE  sess'[s].inFlight = Cardinality(RunIn(s)')
<1>1. RunIn(s)' = RunIn(s)
  BY DEF RunIn
<1> QED
  BY <1>1 DEF SInv, Counts

----------------------------------------------------------------------------
(* What a step of the table leaves known.                                   *)

LEMMA KnownCases ==
  ASSUME NEW r
  PROVE  /\ Known(r) \in {r, Gone}
         /\ Known(r) # Gone => Known(r) = r /\ sess'[r].at \notin {"free", "closing"}
         /\ r # Gone /\ sess'[r].at \notin {"free", "closing"} => Known(r) = r
BY DEF Known

LEMMA Erased ==
  ASSUME NEW record \in [Adapters -> AdapterRecord], AdapterBecomes(record)
  PROVE  /\ adapter' \in [Adapters -> AdapterRecord]
         /\ \A a \in Adapters :
              /\ adapter'[a].pc = record[a].pc /\ adapter'[a].closed = record[a].closed
              /\ adapter'[a].shake = record[a].shake /\ adapter'[a].tries = record[a].tries
              /\ adapter'[a].inner = Known(record[a].inner)
              /\ adapter'[a].next = Known(record[a].next)
<1>1. \A a \in Adapters : adapter'[a] = [record[a] EXCEPT !.inner = Known(@), !.next = Known(@)]
  BY DEF AdapterBecomes
<1>2. \A a \in Adapters : Known(record[a].inner) \in Refs /\ Known(record[a].next) \in Refs
  BY KnownCases DEF AdapterRecord, Refs
<1>3. \A a \in Adapters : record[a] \in AdapterRecord
  OBVIOUS
<1>4. \A a \in Adapters :
        /\ adapter'[a] \in AdapterRecord
        /\ adapter'[a].pc = record[a].pc /\ adapter'[a].closed = record[a].closed
        /\ adapter'[a].shake = record[a].shake /\ adapter'[a].tries = record[a].tries
        /\ adapter'[a].inner = Known(record[a].inner)
        /\ adapter'[a].next = Known(record[a].next)
  <2> SUFFICES ASSUME NEW a \in Adapters
      PROVE /\ adapter'[a] \in AdapterRecord
            /\ adapter'[a].pc = record[a].pc /\ adapter'[a].closed = record[a].closed
            /\ adapter'[a].shake = record[a].shake /\ adapter'[a].tries = record[a].tries
            /\ adapter'[a].inner = Known(record[a].inner)
            /\ adapter'[a].next = Known(record[a].next)
    OBVIOUS
  <2>1. PICK i \in Refs : i = Known(record[a].inner)
    BY <1>2
  <2>2. PICK n \in Refs : n = Known(record[a].next)
    BY <1>2
  <2>3. adapter'[a] = [record[a] EXCEPT !.inner = Known(record[a].inner), !.next = Known(record[a].next)]
    BY <1>1, <1>3 DEF AdapterRecord
  <2>4. adapter'[a] = [record[a] EXCEPT !.inner = i, !.next = n]
    BY <2>1, <2>2, <2>3
  <2>5. record[a] \in AdapterRecord
    BY <1>3
  <2> QED
    BY <2>1, <2>2, <2>4, <2>5 DEF AdapterRecord
<1>5. adapter' \in [Adapters -> AdapterRecord]
  BY <1>4 DEF AdapterBecomes
<1> QED
  BY <1>4, <1>5

LEMMA LeftKept ==
  ASSUME NEW S \in SUBSET Sessions, LeftBecomes(S)
  PROVE  /\ left' \subseteq S
         /\ \A s \in S : sess'[s].at \notin {"free", "closing"} => s \in left'
BY KnownCases, GoneIsNoSession DEF LeftBecomes

(* A session is counted, in the words of EverySessionHeld.                  *)
InUse == {"open", "ready", "room", "starting"}

Held(s) ==
  \/ s \in left
  \/ \E a \in Adapters :
       \/ adapter[a].next = s /\ adapter[a].shake # "none"
       \/ adapter[a].inner = s /\ adapter[a].pc = "serving"

LEMMA HeldMeans ==
  /\ EverySessionHeld <=> \A s \in Sessions : sess[s].at \in InUse => Held(s)
  /\ EverySessionHeld' <=> \A s \in Sessions : sess'[s].at \in InUse => Held(s)'
BY DEF EverySessionHeld, Counted, SessionAt, InUse, Held

----------------------------------------------------------------------------
(* A step in which sessions only move on or end, and nobody runs in those   *)
(* that end.                                                                *)

Moves(s) ==
  /\ sess'[s].inFlight = sess[s].inFlight
  /\ sess[s].at = "ready" =>
       \/ sess'[s].at = "ready"
       \/ sess'[s].at \in {"free", "closing"} /\ sess[s].inFlight = 0
  /\ sess[s].at \in {"room", "starting", "open"} =>
       sess'[s].at \in {"room", "starting", "open", "free", "closing"}
  /\ sess[s].at \in {"free", "closing"} => sess'[s].at \in {"free", "closing"}

LEMMA TableMoves ==
  ASSUME SInv, AdapterBecomes(adapter), LeftBecomes(left), call' = call,
         \A s \in Sessions : Moves(s), sess' \in [Sessions -> SessionRecord]
  PROVE  /\ adapter' \in [Adapters -> AdapterRecord] /\ left' \subseteq Sessions
         /\ HolderInv' /\ RefsApart' /\ CallsInv' /\ Counts' /\ EverySessionHeld'
<1>1. TypeOK /\ RoomInv /\ HolderInv /\ RefsApart /\ CallsInv /\ Counts /\ EverySessionHeld
  BY DEF SInv
<1>2. /\ adapter' \in [Adapters -> AdapterRecord]
      /\ \A a \in Adapters :
           /\ adapter'[a].pc = adapter[a].pc /\ adapter'[a].closed = adapter[a].closed
           /\ adapter'[a].shake = adapter[a].shake
           /\ adapter'[a].inner = Known(adapter[a].inner)
           /\ adapter'[a].next = Known(adapter[a].next)
  BY <1>1, Typed, Erased
<1>3. /\ left' \subseteq left
      /\ \A s \in left : sess'[s].at \notin {"free", "closing"} => s \in left'
  BY <1>1, Typed, LeftKept
<1>4. \A c \in Calls : call[c].at = "running" =>
        adapter'[OwnerOf[c]].inner = adapter[OwnerOf[c]].inner
  <2> SUFFICES ASSUME NEW c \in Calls, call[c].at = "running"
               PROVE  adapter'[OwnerOf[c]].inner = adapter[OwnerOf[c]].inner
    OBVIOUS
  <2>1. LET s == adapter[OwnerOf[c]].inner
        IN s \in Sessions /\ sess'[s].at = "ready"
    BY Busy DEF Moves
  <2> QED
    BY <1>1, <1>2, <2>1, CallFields, KnownCases, GoneIsNoSession
<1>5. HolderInv'
  <2> SUFFICES ASSUME NEW a \in Adapters PROVE Holds(a)'
    BY DEF HolderInv
  <2>1. adapter[a].inner \in Refs /\ adapter[a].next \in Refs
    BY <1>1, AdapterFields
  <2>2. /\ adapter'[a].inner # Gone => sess'[adapter'[a].inner].at = "ready"
        /\ adapter'[a].next # Gone =>
             \/ adapter'[a].shake = "opening" /\ sess'[adapter'[a].next].at \in {"room", "starting", "open"}
             \/ adapter'[a].shake = "answered" /\ sess'[adapter'[a].next].at = "ready"
    BY <1>1, <1>2, <2>1, KnownCases DEF HolderInv, Holds, Moves, Refs
  <2> QED
    BY <1>1, <1>2, <2>2 DEF HolderInv, Holds
<1>6. RefsApart'
  BY <1>1, <1>2, KnownCases DEF RefsApart
<1>7. CallsInv'
  BY <1>1, <1>2, <1>4, CallFields DEF CallsInv, Placed
<1>8. Counts'
  <2> SUFFICES ASSUME NEW s \in Sessions PROVE sess'[s].inFlight = Cardinality(RunIn(s)')
    BY DEF Counts
  <2>1. \A c \in Calls : (call'[c].at = "running" /\ adapter'[OwnerOf[c]].inner = s)
                            <=> (call[c].at = "running" /\ adapter[OwnerOf[c]].inner = s)
    BY <1>4
  <2> QED
    BY <2>1, CountsKept DEF Moves
<1>9. EverySessionHeld'
  <2> SUFFICES ASSUME NEW s \in Sessions, sess'[s].at \in InUse PROVE Held(s)'
    BY HeldMeans
  <2>1. Held(s)
    BY <1>1, HeldMeans, SessionFields DEF Moves, InUse, Stages
  <2>2. sess'[s].at \notin {"free", "closing"} /\ s # Gone
    BY GoneIsNoSession DEF InUse
  <2> QED
    BY <1>2, <1>3, <2>1, <2>2, KnownCases DEF Held
<1> QED
  BY <1>1, <1>2, <1>3, <1>5, <1>6, <1>7, <1>8, <1>9, Typed

----------------------------------------------------------------------------
(* The steps of the table.                                                  *)

LEMMA Slots ==
  /\ \A stage \in Stages, w \in Refs :
       /\ Session(stage, w) \in SessionRecord
       /\ Session(stage, w).at = stage /\ Session(stage, w).waits = w
       /\ Session(stage, w).inFlight = 0
  /\ {"free", "room", "starting", "open", "ready", "closing"} = Stages
  /\ Gone \in Refs /\ Sessions \subseteq Refs /\ Gone \notin Sessions
BY GoneIsNoSession DEF Session, SessionRecord, Stages, Refs

(* What a step that changes one slot makes of the table. *)
Becomes(s, stage) ==
  /\ \A t \in Sessions \ {s} : sess'[t] = sess[t]
  /\ sess'[s].at = stage /\ sess'[s].waits = Gone /\ sess'[s].inFlight = sess[s].inFlight

LEMMA OneSlot ==
  ASSUME SInv, NEW s \in Sessions, NEW stage \in Stages, stage # "room", Becomes(s, stage),
         sess[s].at # "closing"
  PROVE  RoomInv'
<1>1. RoomInv /\ \A t \in Sessions : sess[t].waits \in Refs
  BY SessionFields DEF SInv
<1>2. \A t \in Sessions : sess[t].waits # Gone => sess[t].waits \in Sessions \ {s}
  BY <1>1, Slots DEF RoomInv, Refs
<1>3. ASSUME NEW t \in Sessions
      PROVE  /\ sess'[t].at = "room" <=> sess'[t].waits # Gone
             /\ sess'[t].waits # Gone => sess'[sess'[t].waits].at = "closing"
  <2>1. CASE t = s
    BY <2>1 DEF Becomes
  <2>2. CASE t # s
    <3>1. sess'[t] = sess[t]
      BY <2>2 DEF Becomes
    <3>2. sess[t].waits # Gone => sess'[sess[t].waits] = sess[sess[t].waits]
      BY <1>2 DEF Becomes
    <3> QED
      BY <1>1, <3>1, <3>2 DEF RoomInv
  <2> QED
    BY <2>1, <2>2
<1> QED
  BY <1>3 DEF RoomInv

LEMMA StartedTable ==
  ASSUME SInv, NEW s \in Sessions, Started(s) \/ StartFails(s)
  PROVE  /\ sess' \in [Sessions -> SessionRecord] /\ RoomInv'
         /\ \A t \in Sessions : Moves(t)
         /\ lru' \in Seq(Sessions) /\ endpoint' = endpoint
<1>1. TypeOK /\ RoomInv
  BY DEF SInv
<1>2. sess \in [Sessions -> SessionRecord] /\ sess[s].waits = Gone /\ sess[s].inFlight = 0
  BY <1>1, Typed, Idle DEF RoomInv, Started, StartFails
<1>3. PICK stage \in {"open", "free"} :
        sess' = [sess EXCEPT ![s].at = stage] \/ sess' = [sess EXCEPT ![s] = Session(stage, Gone)]
  BY DEF Started, StartFails
<1>4. sess' \in [Sessions -> SessionRecord] /\ Becomes(s, stage)
  BY <1>2, <1>3, Slots DEF Becomes, SessionRecord, Stages
<1>5. sess[s].at = "starting"
  BY DEF Started, StartFails
<1>6. RoomInv'
  BY <1>4, <1>5, OneSlot, Slots
<1>7. \A t \in Sessions : Moves(t)
  BY <1>4, <1>5 DEF Moves, Becomes
<1>8. lru' \in Seq(Sessions) /\ endpoint' = endpoint
  BY <1>1, Typed, LruStays DEF Started, StartFails
<1> QED
  BY <1>4, <1>6, <1>7, <1>8

LEMMA ForgetTable ==
  ASSUME SInv, NEW s \in Sessions, Forget(s)
  PROVE  /\ sess' = [sess EXCEPT ![s] = Session("closing", Gone)]
         /\ sess' \in [Sessions -> SessionRecord] /\ RoomInv'
         /\ sess[s].inFlight = 0 => \A t \in Sessions : Moves(t)
         /\ lru' \in Seq(Sessions) /\ endpoint' = endpoint
<1>1. TypeOK /\ sess[s].at = "ready" /\ sess \in [Sessions -> SessionRecord]
  BY Typed DEF SInv, Forget
<1>2. sess' = [sess EXCEPT ![s] = Session("closing", Gone)]
  BY DEF Forget
<1>3. sess' \in [Sessions -> SessionRecord]
  BY <1>1, <1>2, Slots
<1>4. ASSUME NEW t \in Sessions
      PROVE  /\ t # s => sess'[t] = sess[t]
             /\ t = s => sess'[t] = Session("closing", Gone)
  BY <1>1, <1>2
<1>5. RoomInv'
  <2>1. SUFFICES ASSUME NEW t \in Sessions
        PROVE  /\ sess'[t].at = "room" <=> sess'[t].waits # Gone
               /\ sess'[t].waits # Gone => sess'[sess'[t].waits].at = "closing"
    BY DEF RoomInv
  <2>2. RoomInv /\ sess[t].waits \in Refs
    BY <1>1, SessionFields DEF SInv
  <2> QED
    BY <1>4, <2>2, Slots DEF RoomInv, Refs
<1>6. sess[s].inFlight = 0 => \A t \in Sessions : Moves(t)
  BY <1>1, <1>4, Slots DEF Moves
<1>7. lru' \in Seq(Sessions) /\ endpoint' = endpoint
  BY <1>1, LruStays DEF Forget
<1> QED
  BY <1>2, <1>3, <1>5, <1>6, <1>7

LEMMA ClosedTable ==
  ASSUME SInv, NEW s \in Sessions, Closed(s)
  PROVE  /\ sess' \in [Sessions -> SessionRecord] /\ RoomInv'
         /\ \A t \in Sessions : Moves(t)
         /\ lru' \in Seq(Sessions) /\ endpoint' = endpoint
<1>1. TypeOK /\ RoomInv /\ sess[s].at = "closing"
  BY DEF SInv, Closed
<1>2. ASSUME NEW t \in Sessions
      PROVE  sess'[t] = IF t = s THEN Session("free", Gone)
                        ELSE IF sess[t].waits = s THEN Session("starting", Gone)
                        ELSE sess[t]
  BY DEF Closed
<1>3. \A t \in Sessions : sess[t] \in SessionRecord /\ sess[t].waits \in Refs
  BY <1>1, SessionFields
<1>8. \A stage \in {"free", "starting"} :
        /\ Session(stage, Gone) \in SessionRecord
        /\ Session(stage, Gone).at = stage /\ Session(stage, Gone).waits = Gone
        /\ Session(stage, Gone).inFlight = 0
  BY Slots
<1>4. sess' \in [Sessions -> SessionRecord]
  <2>1. \A t \in Sessions : sess'[t] \in SessionRecord
    BY <1>2, <1>3, <1>8
  <2> QED
    BY <2>1 DEF Closed
<1>5. RoomInv'
  <2>1. SUFFICES ASSUME NEW t \in Sessions
        PROVE  /\ sess'[t].at = "room" <=> sess'[t].waits # Gone
               /\ sess'[t].waits # Gone => sess'[sess'[t].waits].at = "closing"
    BY DEF RoomInv
  <2>2. CASE t = s \/ sess[t].waits = s
    BY <1>2, <2>2, Slots
  <2>3. CASE t # s /\ sess[t].waits # s
    <3>1. sess'[t] = sess[t]
      BY <1>2, <2>3
    <3>2. ASSUME sess[t].waits # Gone PROVE sess'[sess[t].waits].at = "closing"
      <4> DEFINE w == sess[t].waits
      <4>1. w \in Sessions /\ w # s /\ sess[w].at = "closing"
        BY <1>1, <1>3, <2>3, <3>2 DEF RoomInv, Refs
      <4>2. sess[w].waits = Gone
        BY <1>1, <4>1 DEF RoomInv
      <4>3. sess'[w] = sess[w]
        BY <1>2, <4>1, <4>2, Slots
      <4> QED
        BY <4>1, <4>3
    <3> QED
      BY <1>1, <3>1, <3>2 DEF RoomInv
  <2> QED
    BY <2>2, <2>3
<1>6. ASSUME NEW t \in Sessions PROVE Moves(t)
  <2>1. CASE t = s \/ sess[t].waits = s
    <3>1. sess[t].at \in {"room", "closing"} /\ sess[t].inFlight = 0 /\ (t # s => sess[t].at = "room")
      BY <1>1, <2>1, Slots, Idle DEF RoomInv
    <3>2. CASE t = s
      BY <1>1, <1>2, <1>8, <3>1, <3>2 DEF Moves
    <3>3. CASE t # s
      <4>1. sess'[t] = Session("starting", Gone)
        BY <1>2, <2>1, <3>3
      <4> QED
        BY <1>1, <1>8, <3>1, <3>3, <4>1 DEF Moves
    <3> QED
      BY <3>2, <3>3
  <2>2. CASE t # s /\ sess[t].waits # s
    BY <1>2, <2>2 DEF Moves
  <2> QED
    BY <2>1, <2>2
<1>7. lru' \in Seq(Sessions) /\ endpoint' = endpoint
  BY <1>1, Typed DEF Closed
<1> QED
  BY <1>4, <1>5, <1>6, <1>7

LEMMA ReapInv ==
  ASSUME SInv, NEW s \in Sessions, Reap(s)
  PROVE  SInv'
<1>1. /\ sess' \in [Sessions -> SessionRecord] /\ RoomInv'
      /\ \A t \in Sessions : Moves(t)
      /\ lru' \in Seq(Sessions) /\ endpoint' = endpoint
  BY ForgetTable DEF Reap
<1>2. AdapterBecomes(adapter) /\ LeftBecomes(left) /\ UNCHANGED <<broker, lives, call>>
  BY DEF Reap
<1>3. /\ adapter' \in [Adapters -> AdapterRecord] /\ left' \subseteq Sessions
      /\ HolderInv' /\ RefsApart' /\ CallsInv' /\ Counts' /\ EverySessionHeld'
  BY <1>1, <1>2, TableMoves
<1>4. TypeOK'
  BY <1>1, <1>2, <1>3, Typed, TypedNext DEF SInv
<1> QED
  BY <1>1, <1>3, <1>4 DEF SInv

LEMMA IdentifiedInv ==
  ASSUME SInv, NEW s \in Sessions, TableStep(s), Identified(s)
  PROVE  SInv'
<1> DEFINE record == [a \in Adapters |->
             IF adapter[a].shake = "opening" /\ adapter[a].next = s
             THEN [adapter[a] EXCEPT !.shake = "answered"] ELSE adapter[a]]
<1>1. TypeOK /\ RoomInv /\ HolderInv /\ RefsApart /\ CallsInv /\ EverySessionHeld
  BY DEF SInv
<1>2. /\ sess[s].at = "open" /\ sess' = [sess EXCEPT ![s].at = "ready"]
      /\ UNCHANGED <<endpoint, lru>>
  BY DEF Identified
<1>3. AdapterBecomes(record) /\ LeftBecomes(left) /\ UNCHANGED <<broker, lives, call>>
  BY <1>2 DEF TableStep, Started, StartFails, Closed
<1>4. /\ \A t \in Sessions \ {s} : sess'[t] = sess[t]
      /\ sess'[s].at = "ready" /\ sess'[s].inFlight = sess[s].inFlight
      /\ sess'[s].waits = sess[s].waits
      /\ sess' \in [Sessions -> SessionRecord]
  BY <1>1, <1>2, Typed, Slots DEF SessionRecord
<1>5. record \in [Adapters -> AdapterRecord]
  BY <1>1, AdapterFields DEF AdapterRecord
<1>6. \A a \in Adapters :
        /\ record[a].pc = adapter[a].pc /\ record[a].closed = adapter[a].closed
        /\ record[a].inner = adapter[a].inner /\ record[a].next = adapter[a].next
        /\ record[a].shake = IF adapter[a].shake = "opening" /\ adapter[a].next = s
                             THEN "answered" ELSE adapter[a].shake
  BY <1>1, AdapterFields DEF AdapterRecord
<1> HIDE DEF record
<1>7. /\ adapter' \in [Adapters -> AdapterRecord]
      /\ \A a \in Adapters :
           /\ adapter'[a].pc = adapter[a].pc /\ adapter'[a].closed = adapter[a].closed
           /\ adapter'[a].shake = IF adapter[a].shake = "opening" /\ adapter[a].next = s
                                  THEN "answered" ELSE adapter[a].shake
           /\ adapter'[a].inner = adapter[a].inner /\ adapter'[a].next = adapter[a].next
  <2>1. /\ adapter' \in [Adapters -> AdapterRecord]
        /\ \A a \in Adapters :
             /\ adapter'[a].pc = record[a].pc /\ adapter'[a].closed = record[a].closed
             /\ adapter'[a].shake = record[a].shake
             /\ adapter'[a].inner = Known(record[a].inner)
             /\ adapter'[a].next = Known(record[a].next)
    BY <1>3, <1>5, Erased
  <2>2. ASSUME NEW a \in Adapters
        PROVE  Known(adapter[a].inner) = adapter[a].inner /\ Known(adapter[a].next) = adapter[a].next
    <3>1. adapter[a].inner \in Refs /\ adapter[a].next \in Refs
      BY <1>1, AdapterFields
    <3>2. \A t \in Sessions : sess[t].at \in InUse => sess'[t].at \in InUse
      BY <1>4 DEF InUse
    <3>3. \A r \in Refs : r # Gone /\ sess[r].at \in InUse => Known(r) = r
      BY <3>2, KnownCases DEF Refs, InUse
    <3>4. Known(Gone) = Gone
      BY DEF Known
    <3> QED
      BY <1>1, <3>1, <3>3, <3>4 DEF HolderInv, Holds, InUse
  <2> QED
    BY <1>6, <2>1, <2>2
<1>8. /\ left' \subseteq left
      /\ \A t \in left : sess'[t].at \notin {"free", "closing"} => t \in left'
  BY <1>1, <1>3, Typed, LeftKept
<1>9. HolderInv'
  <2> SUFFICES ASSUME NEW a \in Adapters PROVE Holds(a)'
    BY DEF HolderInv
  <2>1. adapter[a].inner \in Refs /\ adapter[a].next \in Refs
    BY <1>1, AdapterFields
  <2> QED
    BY <1>1, <1>2, <1>4, <1>7, <2>1 DEF HolderInv, Holds, Refs
<1>10. RefsApart'
  BY <1>1, <1>7 DEF RefsApart
<1>11. CallsInv'
  BY <1>1, <1>3, <1>7, CallFields DEF CallsInv, Placed
<1>12. Counts'
  <2> SUFFICES ASSUME NEW t \in Sessions PROVE sess'[t].inFlight = Cardinality(RunIn(t)')
    BY DEF Counts
  <2>1. \A c \in Calls : (call'[c].at = "running" /\ adapter'[OwnerOf[c]].inner = t)
                            <=> (call[c].at = "running" /\ adapter[OwnerOf[c]].inner = t)
    BY <1>1, <1>3, <1>7, CallFields
  <2> QED
    BY <1>4, <2>1, CountsKept
<1>13. EverySessionHeld'
  <2> SUFFICES ASSUME NEW t \in Sessions, sess'[t].at \in InUse PROVE Held(t)'
    BY HeldMeans
  <2>1. Held(t)
    BY <1>1, <1>2, <1>4, HeldMeans DEF InUse
  <2>2. sess'[t].at \notin {"free", "closing"} /\ t # Gone
    BY GoneIsNoSession DEF InUse
  <2> QED
    BY <1>7, <1>8, <2>1, <2>2 DEF Held
<1>14. RoomInv'
  BY <1>1, <1>2, <1>4, SessionFields DEF RoomInv, Refs
<1>15. TypeOK'
  BY <1>1, <1>2, <1>3, <1>4, <1>7, <1>8, Typed, TypedNext
<1> QED
  BY <1>9, <1>10, <1>11, <1>12, <1>13, <1>14, <1>15 DEF SInv

LEMMA TableStepInv ==
  ASSUME SInv, NEW s \in Sessions, TableStep(s)
  PROVE  SInv'
<1>1. CASE Identified(s)
  BY <1>1, IdentifiedInv
<1>2. CASE ~Identified(s)
  <2>1. /\ Started(s) \/ StartFails(s) \/ Closed(s)
        /\ AdapterBecomes(adapter) /\ LeftBecomes(left) /\ UNCHANGED <<broker, lives, call>>
    BY <1>2 DEF TableStep
  <2>2. /\ sess' \in [Sessions -> SessionRecord] /\ RoomInv'
        /\ \A t \in Sessions : Moves(t)
        /\ lru' \in Seq(Sessions) /\ endpoint' = endpoint
    BY <2>1, StartedTable, ClosedTable
  <2>3. /\ adapter' \in [Adapters -> AdapterRecord] /\ left' \subseteq Sessions
        /\ HolderInv' /\ RefsApart' /\ CallsInv' /\ Counts' /\ EverySessionHeld'
    BY <2>1, <2>2, TableMoves
  <2>4. TypeOK'
    BY <2>1, <2>2, <2>3, Typed, TypedNext DEF SInv
  <2> QED
    BY <2>2, <2>3, <2>4 DEF SInv
<1> QED
  BY <1>1, <1>2

----------------------------------------------------------------------------
(* A newcomer: the slot it takes was free, and known to nobody.             *)

LEMMA ReserveTable ==
  ASSUME SInv, NEW s \in Sessions, Reserve(s)
  PROVE  /\ sess' \in [Sessions -> SessionRecord] /\ RoomInv'
         /\ sess[s].at = "free" /\ sess[s].inFlight = 0
         /\ sess'[s].at \in {"starting", "room"} /\ sess'[s].inFlight = 0
         /\ \A t \in Sessions \ {s} : Moves(t)
         /\ lru' \in Seq(Sessions) /\ endpoint' = endpoint
<1>1. /\ TypeOK /\ RoomInv /\ sess \in [Sessions -> SessionRecord]
      /\ sess[s].at = "free" /\ sess[s].inFlight = 0
  BY Typed, Idle DEF SInv, Reserve
<1>2. endpoint' = endpoint
  BY DEF Reserve
<1>3. \A t \in Sessions : sess[t].waits \in Refs
  BY <1>1, SessionFields
<1>4. CASE /\ sess' = [sess EXCEPT ![s] = Session("starting", Gone)]
           /\ lru' = Touched(s)
  <2>0. /\ Session("starting", Gone) \in SessionRecord
        /\ Session("starting", Gone).at = "starting" /\ Session("starting", Gone).waits = Gone
        /\ Session("starting", Gone).inFlight = 0
    BY Slots
  <2>1. /\ sess' \in [Sessions -> SessionRecord]
        /\ sess'[s].at = "starting" /\ sess'[s].waits = Gone /\ sess'[s].inFlight = 0
        /\ \A t \in Sessions \ {s} : sess'[t] = sess[t]
    BY <1>1, <1>4, <2>0
  <2>2. RoomInv'
    BY <1>1, <2>1, OneSlot, Slots DEF Becomes
  <2>3. \A t \in Sessions \ {s} : Moves(t)
    BY <2>1 DEF Moves
  <2>4. lru' \in Seq(Sessions)
    BY <1>1, <1>4, LruStays DEF Touched
  <2> QED
    BY <1>1, <1>2, <2>1, <2>2, <2>3, <2>4
<1>5. ASSUME NEW victim \in Sessions, EvictionCandidate(victim),
             sess' = [sess EXCEPT ![victim] = Session("closing", Gone),
                                  ![s] = Session("room", victim)],
             lru' = Append(Without(victim), s)
      PROVE  /\ sess' \in [Sessions -> SessionRecord] /\ RoomInv'
             /\ sess'[s].at \in {"starting", "room"} /\ sess'[s].inFlight = 0
             /\ \A t \in Sessions \ {s} : Moves(t)
             /\ lru' \in Seq(Sessions)
  <2>1. sess[victim].at = "ready" /\ sess[victim].inFlight = 0 /\ victim # s
    BY <1>1, <1>5 DEF EvictionCandidate, Evictable, SessionAt
  <2>2. /\ Session("closing", Gone) \in SessionRecord /\ Session("room", victim) \in SessionRecord
        /\ Session("closing", Gone).at = "closing" /\ Session("room", victim).at = "room"
        /\ Session("closing", Gone).waits = Gone /\ Session("room", victim).waits = victim
        /\ Session("closing", Gone).inFlight = 0 /\ Session("room", victim).inFlight = 0
    BY Slots
  <2>3. sess' \in [Sessions -> SessionRecord]
    BY <1>1, <1>5, <2>2
  <2>4. /\ sess'[s] = Session("room", victim)
        /\ sess'[victim] = Session("closing", Gone)
        /\ \A t \in Sessions \ {s, victim} : sess'[t] = sess[t]
    BY <1>1, <1>5, <2>1
  <2>5. RoomInv'
    <3> SUFFICES ASSUME NEW t \in Sessions
        PROVE  /\ sess'[t].at = "room" <=> sess'[t].waits # Gone
               /\ sess'[t].waits # Gone => sess'[sess'[t].waits].at = "closing"
      BY DEF RoomInv
    <3>1. CASE t \in {s, victim}
      BY <2>1, <2>2, <2>4, <3>1, Slots
    <3>2. CASE t \notin {s, victim}
      <4>1. sess'[t] = sess[t]
        BY <2>4, <3>2
      <4>2. ASSUME sess[t].waits # Gone PROVE sess'[sess[t].waits] = sess[sess[t].waits]
        <5>1. sess[t].waits \in Sessions /\ sess[sess[t].waits].at = "closing"
          BY <1>1, <1>3, <4>2 DEF RoomInv, Refs
        <5> QED
          BY <1>1, <2>1, <2>4, <5>1
      <4> QED
        BY <1>1, <4>1, <4>2 DEF RoomInv
    <3> QED
      BY <3>1, <3>2
  <2>6. \A t \in Sessions \ {s} : Moves(t)
    BY <2>1, <2>2, <2>4 DEF Moves
  <2>7. lru' \in Seq(Sessions)
    BY <1>1, <1>5, LruStays
  <2> QED
    BY <2>2, <2>3, <2>4, <2>5, <2>6, <2>7
<1> QED
  BY <1>1, <1>2, <1>4, <1>5 DEF Reserve

LEMMA AdmittedInv ==
  ASSUME SInv, NEW a \in Adapters, Admitted(a)
  PROVE  SInv'
<1> DEFINE record(s) == Shake(a, "opening", s)
<1>1. TypeOK /\ RoomInv /\ HolderInv /\ RefsApart /\ CallsInv /\ EverySessionHeld
  BY DEF SInv
<1>2. PICK s \in Sessions : Reserve(s) /\ AdapterBecomes(record(s))
  BY DEF Admitted
<1>3. /\ adapter[a].shake = "trying" /\ adapter[a].next = Gone
      /\ LeftBecomes(left) /\ UNCHANGED <<broker, lives, call>>
  <2>1. /\ adapter[a].shake = "trying"
        /\ LeftBecomes(left) /\ UNCHANGED <<broker, lives, call>>
    BY DEF Admitted, MayTry
  <2>2. adapter[a].next = Gone
    BY <1>1, <2>1 DEF HolderInv, Holds
  <2> QED
    BY <2>1, <2>2
<1>4. /\ sess' \in [Sessions -> SessionRecord] /\ RoomInv'
      /\ sess[s].at = "free" /\ sess[s].inFlight = 0
      /\ sess'[s].at \in {"starting", "room"} /\ sess'[s].inFlight = 0
      /\ \A t \in Sessions \ {s} : Moves(t)
      /\ lru' \in Seq(Sessions) /\ endpoint' = endpoint
  BY <1>2, ReserveTable
<1>5. s # Gone /\ \A b \in Adapters : adapter[b].inner # s /\ adapter[b].next # s
  BY <1>1, <1>4, GoneIsNoSession DEF HolderInv, Holds
<1>6. /\ record(s) \in [Adapters -> AdapterRecord]
      /\ \A b \in Adapters :
           /\ record(s)[b].pc = adapter[b].pc /\ record(s)[b].closed = adapter[b].closed
           /\ record(s)[b].inner = adapter[b].inner
           /\ record(s)[b].shake = IF b = a THEN "opening" ELSE adapter[b].shake
           /\ record(s)[b].next = IF b = a THEN s ELSE adapter[b].next
  <2>1. record(s) = [adapter EXCEPT ![a].shake = "opening", ![a].next = s]
    BY DEF Shake
  <2>2. adapter \in [Adapters -> AdapterRecord] /\ s \in Refs
    BY <1>1, Typed, Slots
  <2> HIDE DEF record
  <2>3. record(s) \in [Adapters -> AdapterRecord]
    BY <2>1, <2>2 DEF AdapterRecord
  <2>4. ASSUME NEW b \in Adapters
        PROVE  /\ record(s)[b].pc = adapter[b].pc /\ record(s)[b].closed = adapter[b].closed
               /\ record(s)[b].inner = adapter[b].inner
               /\ record(s)[b].shake = IF b = a THEN "opening" ELSE adapter[b].shake
               /\ record(s)[b].next = IF b = a THEN s ELSE adapter[b].next
    BY <2>1, <2>2 DEF AdapterRecord
  <2> QED
    BY <2>3, <2>4
<1> HIDE DEF record
<1>7. /\ adapter' \in [Adapters -> AdapterRecord]
      /\ \A b \in Adapters :
           /\ adapter'[b].pc = adapter[b].pc /\ adapter'[b].closed = adapter[b].closed
           /\ adapter'[b].inner = Known(adapter[b].inner)
           /\ adapter'[b].shake = IF b = a THEN "opening" ELSE adapter[b].shake
           /\ adapter'[b].next = IF b = a THEN s ELSE Known(adapter[b].next)
  <2>1. Known(s) = s
    BY <1>4, <1>5, KnownCases
  <2>2. /\ adapter' \in [Adapters -> AdapterRecord]
        /\ \A b \in Adapters :
             /\ adapter'[b].pc = record(s)[b].pc /\ adapter'[b].closed = record(s)[b].closed
             /\ adapter'[b].shake = record(s)[b].shake
             /\ adapter'[b].inner = Known(record(s)[b].inner)
             /\ adapter'[b].next = Known(record(s)[b].next)
    BY <1>2, <1>6, Erased
  <2> QED
    BY <1>6, <2>1, <2>2
<1>8. /\ left' \subseteq left
      /\ \A t \in left : sess'[t].at \notin {"free", "closing"} => t \in left'
  BY <1>1, <1>3, Typed, LeftKept
<1>9. \A c \in Calls : call[c].at = "running" =>
        adapter'[OwnerOf[c]].inner = adapter[OwnerOf[c]].inner
  <2> SUFFICES ASSUME NEW c \in Calls, call[c].at = "running"
               PROVE  adapter'[OwnerOf[c]].inner = adapter[OwnerOf[c]].inner
    OBVIOUS
  <2>1. LET t == adapter[OwnerOf[c]].inner
        IN t \in Sessions /\ sess'[t].at = "ready"
    BY <1>4, <1>5, Busy DEF Moves
  <2> QED
    BY <1>1, <1>7, <2>1, CallFields, KnownCases, GoneIsNoSession
<1>10. HolderInv'
  <2> SUFFICES ASSUME NEW b \in Adapters PROVE Holds(b)'
    BY DEF HolderInv
  <2>1. /\ adapter[b].inner \in Refs /\ adapter[b].next \in Refs
        /\ adapter[b].inner # s /\ adapter[b].next # s
    BY <1>1, <1>5, AdapterFields
  <2>2. adapter'[b].inner # Gone => sess'[adapter'[b].inner].at = "ready"
    BY <1>1, <1>4, <1>7, <2>1, KnownCases DEF HolderInv, Holds, Moves, Refs
  <2>3. adapter'[b].next # Gone =>
             \/ adapter'[b].shake = "opening" /\ sess'[adapter'[b].next].at \in {"room", "starting", "open"}
             \/ adapter'[b].shake = "answered" /\ sess'[adapter'[b].next].at = "ready"
    <3>1. CASE b = a
      BY <1>4, <1>7, <3>1
    <3>2. CASE b # a
      BY <1>1, <1>4, <1>7, <2>1, <3>2, KnownCases DEF HolderInv, Holds, Moves, Refs
    <3> QED
      BY <3>1, <3>2
  <2> QED
    BY <1>1, <1>3, <1>7, <2>2, <2>3 DEF HolderInv, Holds
<1>11. RefsApart'
  BY <1>1, <1>5, <1>7, KnownCases DEF RefsApart
<1>12. CallsInv'
  BY <1>1, <1>3, <1>7, <1>9, CallFields DEF CallsInv, Placed
<1>13. Counts'
  <2> SUFFICES ASSUME NEW t \in Sessions PROVE sess'[t].inFlight = Cardinality(RunIn(t)')
    BY DEF Counts
  <2>1. \A c \in Calls : (call'[c].at = "running" /\ adapter'[OwnerOf[c]].inner = t)
                            <=> (call[c].at = "running" /\ adapter[OwnerOf[c]].inner = t)
    BY <1>3, <1>9
  <2>2. sess'[t].inFlight = sess[t].inFlight
    BY <1>4 DEF Moves
  <2> QED
    BY <2>1, <2>2, CountsKept
<1>14. EverySessionHeld'
  <2> SUFFICES ASSUME NEW t \in Sessions, sess'[t].at \in InUse PROVE Held(t)'
    BY HeldMeans
  <2>1. CASE t = s
    BY <1>7, <2>1 DEF Held
  <2>2. CASE t # s
    <3>1. Held(t)
      BY <1>1, <1>4, <2>2, HeldMeans, SessionFields DEF Moves, InUse, Stages
    <3>2. sess'[t].at \notin {"free", "closing"} /\ t # Gone
      BY GoneIsNoSession DEF InUse
    <3> QED
      BY <1>3, <1>7, <1>8, <3>1, <3>2, KnownCases, GoneIsNoSession DEF Held
  <2> QED
    BY <2>1, <2>2
<1>15. TypeOK'
  BY <1>1, <1>3, <1>4, <1>7, <1>8, Typed, TypedNext
<1> QED
  BY <1>4, <1>10, <1>11, <1>12, <1>13, <1>14, <1>15 DEF SInv

----------------------------------------------------------------------------
(* Steps of one adapter and its calls, in which every session stays where   *)
(* it is.                                                                   *)

StagesStay == \A s \in Sessions : sess'[s].at = sess[s].at /\ sess'[s].waits = sess[s].waits

OthersStay(a) == \A b \in Adapters \ {a} : adapter'[b] = adapter[b]

LEMMA RoomsStay == ASSUME SInv, StagesStay PROVE RoomInv'
BY SessionFields DEF SInv, RoomInv, StagesStay, Refs

(* An adapter may let go of a session, or take the one it opened.           *)
LEMMA OneAdapter ==
  ASSUME SInv, StagesStay, NEW a \in Adapters, OthersStay(a), Holds(a)',
         adapter'[a].inner \in {Gone, adapter[a].inner, adapter[a].next},
         adapter'[a].next \in {Gone, adapter[a].next},
         adapter'[a].inner # Gone => adapter'[a].inner # adapter'[a].next
  PROVE  HolderInv' /\ RefsApart'
<1>1. TypeOK /\ HolderInv /\ RefsApart
  BY DEF SInv
<1>2. ASSUME NEW b \in Adapters PROVE Holds(b)'
  <2>1. CASE b = a
    BY <2>1
  <2>2. CASE b # a
    <3>1. adapter[b].inner \in Refs /\ adapter[b].next \in Refs /\ Holds(b)
      BY <1>1, AdapterFields DEF HolderInv
    <3>2. adapter'[b] = adapter[b]
      BY <2>2 DEF OthersStay
    <3> QED
      BY <3>1, <3>2 DEF Holds, StagesStay, Refs
  <2> QED
    BY <2>1, <2>2
<1>3. RefsApart'
  BY <1>1 DEF RefsApart, OthersStay
<1> QED
  BY <1>2, <1>3 DEF HolderInv

(* The calls of the others stay where they are placed.                      *)
LEMMA OtherCalls ==
  ASSUME SInv, NEW a \in Adapters, OthersStay(a), NEW c \in Calls, OwnerOf[c] # a,
         call'[c].at = call[c].at
  PROVE  Placed(c)'
BY CallFields DEF SInv, CallsInv, Placed, OthersStay

LEMMA HeldStays ==
  ASSUME SInv, StagesStay,
         \A s \in Sessions : Held(s) => Held(s)'
  PROVE  EverySessionHeld'
BY HeldMeans DEF SInv, StagesStay

(* Nobody starts or ends running.                                           *)
LEMMA CountsStay ==
  ASSUME SInv, \A s \in Sessions : sess'[s].inFlight = sess[s].inFlight,
         \A c \in Calls : /\ call'[c].at = "running" <=> call[c].at = "running"
                          /\ call[c].at = "running" =>
                               adapter'[OwnerOf[c]].inner = adapter[OwnerOf[c]].inner
  PROVE  Counts'
BY CountsKept DEF Counts

LEMMA TableStays ==
  ASSUME SInv, UNCHANGED <<sess>>
  PROVE  /\ StagesStay /\ RoomInv'
         /\ \A s \in Sessions : sess'[s].inFlight = sess[s].inFlight
BY RoomsStay DEF StagesStay

----------------------------------------------------------------------------
(* Opening a session.                                                       *)

LEMMA AttemptFails ==
  ASSUME SInv, NEW a \in Adapters, adapter[a].shake # "none", adapter' = Unreachable(a)
  PROVE  /\ adapter' \in [Adapters -> AdapterRecord]
         /\ OthersStay(a)
         /\ adapter'[a].pc = adapter[a].pc /\ adapter'[a].closed = adapter[a].closed
         /\ adapter'[a].inner = adapter[a].inner
         /\ adapter'[a].shake = "trying" /\ adapter'[a].next = Gone
BY Typed, Slots DEF SInv, Unreachable, AdapterRecord, OthersStay

LEMMA UnreachableInv ==
  ASSUME SInv, NEW a \in Adapters, adapter[a].shake # "none", adapter' = Unreachable(a),
         left' = left \cup ({adapter[a].next} \ {Gone}),
         UNCHANGED <<tableVars, broker, lives, call>>
  PROVE  SInv'
<1>1. TypeOK /\ HolderInv /\ CallsInv /\ EverySessionHeld
  BY DEF SInv
<1>2. /\ adapter' \in [Adapters -> AdapterRecord]
      /\ OthersStay(a)
      /\ adapter'[a].pc = adapter[a].pc /\ adapter'[a].closed = adapter[a].closed
      /\ adapter'[a].inner = adapter[a].inner
      /\ adapter'[a].shake = "trying" /\ adapter'[a].next = Gone
  BY AttemptFails
<1>3. /\ StagesStay /\ RoomInv' /\ UNCHANGED sess
      /\ \A s \in Sessions : sess'[s].inFlight = sess[s].inFlight
  BY TableStays DEF tableVars
<1>4. HolderInv' /\ RefsApart'
  <2>1. Holds(a)'
    BY <1>1, <1>2, <1>3, AdapterFields DEF HolderInv, Holds
  <2> QED
    BY <1>2, <1>3, <2>1, OneAdapter
<1>5. CallsInv'
  <2> SUFFICES ASSUME NEW c \in Calls PROVE Placed(c)'
    BY DEF CallsInv
  <2>1. CASE OwnerOf[c] = a
    BY <1>1, <1>2, <2>1, CallFields DEF CallsInv, Placed
  <2>2. CASE OwnerOf[c] # a
    BY <1>2, <2>2, OtherCalls
  <2> QED
    BY <2>1, <2>2
<1>6. \A b \in Adapters : adapter'[b].inner = adapter[b].inner
  BY <1>2 DEF OthersStay
<1>7. Counts'
  BY <1>1, <1>3, <1>6, CallFields, CountsStay
<1>8. EverySessionHeld'
  <2>1. ASSUME NEW s \in Sessions, Held(s) PROVE Held(s)'
    BY <1>2, <2>1, Slots DEF Held, OthersStay
  <2> QED
    BY <1>3, <2>1, HeldStays
<1>9. TypeOK'
  <2>1. left' \subseteq Sessions
    BY <1>1, Typed, AdapterFields DEF Refs
  <2> QED
    BY <1>1, <1>2, <2>1, Typed, TypedNext DEF tableVars
<1> QED
  BY <1>3, <1>4, <1>5, <1>7, <1>8, <1>9 DEF SInv

LEMMA AttemptInv ==
  ASSUME SInv, NEW a \in Adapters, Refused(a) \/ OpeningFails(a) \/ OpeningTimesOut(a)
  PROVE  SInv'
<1>1. CASE Refused(a)
  <2>1. adapter[a].next = Gone
    BY <1>1 DEF Refused, MayTry, SInv, HolderInv, Holds
  <2> QED
    BY <1>1, <2>1, UnreachableInv DEF Refused, MayTry
<1>2. CASE OpeningFails(a)
  BY <1>2, UnreachableInv DEF OpeningFails
<1>3. CASE OpeningTimesOut(a)
  BY <1>3, UnreachableInv DEF OpeningTimesOut
<1> QED
  BY <1>1, <1>2, <1>3

(* The attempts end without a session; so do the calls that waited for it.  *)
LEMMA ThrowsInv ==
  ASSUME SInv, NEW a \in Adapters, adapter[a].shake # "none", adapter[a].next = Gone,
         Throws(a), left' = left, UNCHANGED <<tableVars, broker, lives>>
  PROVE  SInv'
<1>1. TypeOK /\ HolderInv /\ CallsInv /\ EverySessionHeld
  BY DEF SInv
<1>2. /\ adapter' \in [Adapters -> AdapterRecord]
      /\ OthersStay(a)
      /\ adapter'[a].pc = (IF adapter[a].pc = "connecting" THEN "gone" ELSE adapter[a].pc)
      /\ adapter'[a].closed = adapter[a].closed
      /\ adapter'[a].inner = adapter[a].inner
      /\ adapter'[a].shake = "none" /\ adapter'[a].next = Gone
  <2> DEFINE pc == IF adapter[a].pc = "connecting" THEN "gone" ELSE adapter[a].pc
  <2>1. pc \in {"connecting", "serving", "ended", "gone"} /\ Gone \in Refs
    BY <1>1, AdapterFields, Slots
  <2>2. adapter \in [Adapters -> AdapterRecord]
    BY <1>1, Typed
  <2>3. adapter' = [adapter EXCEPT ![a].shake = "none", ![a].next = Gone, ![a].tries = 0,
                                   ![a].pc = pc]
    BY <2>2 DEF Throws, AdapterRecord
  <2> HIDE DEF pc
  <2>7. /\ DOMAIN adapter' = Adapters /\ adapter' = [b \in Adapters |-> adapter'[b]]
        /\ \A b \in Adapters \ {a} : adapter'[b] = adapter[b]
        /\ adapter'[a] = [adapter[a] EXCEPT !.shake = "none", !.next = Gone, !.tries = 0, !.pc = pc]
    BY <2>2, <2>3
  <2>8. adapter'[a] \in AdapterRecord
    <3>1. adapter[a] \in AdapterRecord
      BY <2>2
    <3>2. [adapter[a] EXCEPT !.shake = "none", !.next = Gone, !.tries = 0, !.pc = pc] \in AdapterRecord
      BY <2>1, <3>1, FourFields
    <3> QED
      BY <2>7, <3>2
  <2>4. adapter' \in [Adapters -> AdapterRecord]
    BY <2>2, <2>7, <2>8
  <2>5. OthersStay(a)
    BY <2>2, <2>3 DEF OthersStay
  <2>6. /\ adapter'[a].pc = pc /\ adapter'[a].closed = adapter[a].closed
        /\ adapter'[a].inner = adapter[a].inner
        /\ adapter'[a].shake = "none" /\ adapter'[a].next = Gone
    BY <2>1, <2>2, <2>3 DEF AdapterRecord
  <2> QED
    BY <2>4, <2>5, <2>6 DEF pc
<1>3. /\ StagesStay /\ RoomInv' /\ UNCHANGED sess
      /\ \A s \in Sessions : sess'[s].inFlight = sess[s].inFlight
  BY TableStays DEF tableVars
<1>4. HolderInv' /\ RefsApart'
  <2>1. Holds(a)'
    BY <1>1, <1>2, <1>3, AdapterFields DEF HolderInv, Holds
  <2> QED
    BY <1>2, <1>3, <2>1, OneAdapter
<1>5. ASSUME NEW c \in Calls
      PROVE  /\ call'[c] \in CallRecord
             /\ call'[c].at = IF OwnerOf[c] = a /\ call[c].at = "parked" THEN "done" ELSE call[c].at
  BY <1>1, MovedCall DEF Throws, Of
<1>6. CallsInv'
  <2> SUFFICES ASSUME NEW c \in Calls PROVE Placed(c)'
    BY DEF CallsInv
  <2>1. CASE OwnerOf[c] = a
    BY <1>1, <1>2, <1>5, <2>1, CallFields DEF CallsInv, Placed
  <2>2. CASE OwnerOf[c] # a
    BY <1>2, <1>5, <2>2, OtherCalls
  <2> QED
    BY <2>1, <2>2
<1>7. Counts'
  <2>1. \A b \in Adapters : adapter'[b].inner = adapter[b].inner
    BY <1>2 DEF OthersStay
  <2> QED
    BY <1>1, <1>3, <1>5, <2>1, CallFields, CountsStay
<1>8. EverySessionHeld'
  <2>1. ASSUME NEW s \in Sessions, Held(s) PROVE Held(s)'
    BY <1>2, <2>1, Slots DEF Held, OthersStay
  <2> QED
    BY <1>3, <2>1, HeldStays
<1>9. TypeOK'
  <2>1. call' \in [Calls -> CallRecord]
    BY <1>5 DEF Throws, CallsMove
  <2> QED
    BY <1>1, <1>2, <2>1, Typed, TypedNext DEF tableVars
<1> QED
  BY <1>3, <1>4, <1>6, <1>7, <1>8, <1>9 DEF SInv

LEMMA GivingUpInv ==
  ASSUME SInv, NEW a \in Adapters, InitializedFails(a) \/ GiveUp(a)
  PROVE  SInv'
<1>1. CASE GiveUp(a)
  <2>1. adapter[a].next = Gone
    BY <1>1 DEF GiveUp, SInv, HolderInv, Holds
  <2> QED
    BY <1>1, <2>1, ThrowsInv DEF GiveUp
<1>2. CASE InitializedFails(a)
  <2>1. CASE adapter' = Unreachable(a) /\ UNCHANGED call
    BY <1>2, <2>1, UnreachableInv DEF InitializedFails
  <2>2. CASE adapter[a].next = Gone /\ Throws(a)
    BY <1>2, <2>2, ThrowsInv DEF InitializedFails
  <2> QED
    BY <1>2, <2>1, <2>2 DEF InitializedFails
<1> QED
  BY <1>1, <1>2

LEMMA InitializedInv ==
  ASSUME SInv, NEW a \in Adapters, Initialized(a)
  PROVE  SInv'
<1> DEFINE s == adapter[a].next
           pc == IF adapter[a].pc = "connecting" THEN "serving" ELSE adapter[a].pc
<1>1. TypeOK /\ HolderInv /\ RefsApart /\ CallsInv /\ EverySessionHeld
  BY DEF SInv
<1>2. /\ adapter[a].shake = "answered" /\ s # Gone /\ lru' = Touched(s)
      /\ left' = left \cup ({adapter[a].inner} \ {Gone})
                      \cup (IF adapter[a].pc = "ended" THEN {s} ELSE {})
      /\ UNCHANGED <<endpoint, sess, broker, lives>>
  BY DEF Initialized
<1>3. /\ s \in Sessions /\ sess[s].at = "ready" /\ s # adapter[a].inner
      /\ adapter[a].pc \in {"connecting", "serving", "ended"}
      /\ adapter[a].pc = "connecting" \/ adapter[a].closed
  BY <1>1, <1>2, AdapterFields DEF HolderInv, Holds, RefsApart, Refs
<1>4. /\ adapter' \in [Adapters -> AdapterRecord]
      /\ OthersStay(a)
      /\ adapter'[a].pc = pc /\ adapter'[a].closed = FALSE
      /\ adapter'[a].inner = s
      /\ adapter'[a].shake = "none" /\ adapter'[a].next = Gone
  <2>1. pc \in {"connecting", "serving", "ended", "gone"} /\ Gone \in Refs /\ s \in Refs
    BY <1>1, AdapterFields, Slots
  <2>2. adapter \in [Adapters -> AdapterRecord] /\ adapter[a] \in AdapterRecord
    BY <1>1, Typed
  <2>3. adapter' = [adapter EXCEPT ![a].shake = "none", ![a].next = Gone, ![a].tries = 0,
                                   ![a].pc = pc, ![a].inner = s, ![a].closed = FALSE]
    BY <2>2 DEF Initialized, AdapterRecord
  <2> HIDE DEF pc, s
  <2>4. /\ adapter' = [b \in Adapters |-> adapter'[b]]
        /\ \A b \in Adapters \ {a} : adapter'[b] = adapter[b]
        /\ adapter'[a] = [adapter[a] EXCEPT !.shake = "none", !.next = Gone, !.tries = 0, !.pc = pc,
                                           !.inner = s, !.closed = FALSE]
    BY <2>2, <2>3
  <2> DEFINE q == [adapter[a] EXCEPT !.shake = "none", !.next = Gone, !.tries = 0, !.pc = pc]
  <2>5. q \in AdapterRecord
    BY <2>1, <2>2, FourFields
  <2>6. q.shake = "none" /\ q.next = Gone /\ q.pc = pc
    BY <2>1, <2>2 DEF AdapterRecord
  <2>7. adapter'[a] = [q EXCEPT !.inner = s, !.closed = FALSE]
    BY <2>4
  <2> HIDE DEF q
  <2>8. /\ adapter'[a] \in AdapterRecord
        /\ adapter'[a].pc = pc /\ adapter'[a].closed = FALSE
        /\ adapter'[a].inner = s
        /\ adapter'[a].shake = "none" /\ adapter'[a].next = Gone
    BY <2>1, <2>5, <2>6, <2>7 DEF AdapterRecord
  <2>9. adapter' \in [Adapters -> AdapterRecord]
    BY <2>2, <2>4, <2>8
  <2> QED
    BY <2>4, <2>8, <2>9 DEF OthersStay
<1>5. /\ StagesStay /\ RoomInv'
      /\ \A t \in Sessions : sess'[t].inFlight = sess[t].inFlight
  BY <1>2, TableStays
<1>6. HolderInv' /\ RefsApart'
  <2>1. Holds(a)'
    BY <1>2, <1>3, <1>4 DEF Holds
  <2> QED
    BY <1>3, <1>4, <1>5, <2>1, OneAdapter
<1>7. ASSUME NEW c \in Calls
      PROVE  /\ call'[c] \in CallRecord
             /\ call'[c].at = IF OwnerOf[c] = a /\ call[c].at = "parked" THEN "sent" ELSE call[c].at
  <2>1. /\ call[c] \in CallRecord
        /\ c \in Of(a, {"parked"}) <=> OwnerOf[c] = a /\ call[c].at = "parked"
        /\ c \in Of(a, {"lost"}) <=> OwnerOf[c] = a /\ call[c].at = "lost"
    BY <1>1, CallFields DEF Of
  <2>2. call'[c] = IF c \in Of(a, {"parked"}) THEN [call[c] EXCEPT !.at = "sent", !.resent = TRUE]
                   ELSE IF c \in Of(a, {"lost"}) THEN [call[c] EXCEPT !.on = "old"]
                   ELSE call[c]
    BY DEF Initialized
  <2> QED
    BY <2>1, <2>2 DEF CallRecord
<1>8. ASSUME NEW c \in Calls, OwnerOf[c] = a PROVE call[c].at # "running" /\ call'[c].at # "running"
  BY <1>1, <1>3, <1>7, <1>8, CallFields DEF CallsInv, Placed
<1>9. CallsInv'
  <2> SUFFICES ASSUME NEW c \in Calls PROVE Placed(c)'
    BY DEF CallsInv
  <2>1. CASE OwnerOf[c] = a
    BY <1>1, <1>3, <1>4, <1>7, <1>8, <2>1, CallFields DEF CallsInv, Placed
  <2>2. CASE OwnerOf[c] # a
    BY <1>4, <1>7, <2>2, OtherCalls
  <2> QED
    BY <2>1, <2>2
<1>10. Counts'
  <2>1. \A b \in Adapters \ {a} : adapter'[b].inner = adapter[b].inner
    BY <1>4 DEF OthersStay
  <2>2. \A c \in Calls : /\ call'[c].at = "running" <=> call[c].at = "running"
                         /\ call[c].at = "running" =>
                              adapter'[OwnerOf[c]].inner = adapter[OwnerOf[c]].inner
    BY <1>1, <1>7, <1>8, <2>1, CallFields
  <2> QED
    BY <1>5, <2>2, CountsStay
<1>11. EverySessionHeld'
  <2>1. ASSUME NEW t \in Sessions, Held(t) PROVE Held(t)'
    BY <1>2, <1>3, <1>4, <2>1, Slots DEF Held, OthersStay
  <2> QED
    BY <1>5, <2>1, HeldStays
<1>12. TypeOK'
  <2>1. left' \subseteq Sessions
    BY <1>1, <1>2, <1>3, Typed, AdapterFields DEF Refs
  <2>2. call' \in [Calls -> CallRecord]
    BY <1>7 DEF Initialized
  <2>3. lru' \in Seq(Sessions)
    BY <1>1, <1>2, <1>3, LruStays DEF Touched
  <2>4. TypeOK
    BY <1>1
  <2> QED
    BY <1>2, <1>4, <2>1, <2>2, <2>3, <2>4, Typed, TypedNext
<1> QED
  BY <1>5, <1>6, <1>9, <1>10, <1>11, <1>12 DEF SInv

----------------------------------------------------------------------------
(* A call goes on.                                                          *)

LEMMA CallsOnly ==
  ASSUME SInv, StagesStay, UNCHANGED <<adapter, left>>
  PROVE  RoomInv' /\ HolderInv' /\ RefsApart' /\ EverySessionHeld'
<1>1. TypeOK /\ HolderInv /\ RefsApart
  BY DEF SInv
<1>2. RoomInv'
  BY RoomsStay
<1>3. HolderInv'
  BY <1>1, AdapterFields DEF HolderInv, Holds, StagesStay, Refs
<1>4. RefsApart'
  BY <1>1 DEF RefsApart
<1>5. EverySessionHeld'
  BY HeldStays DEF Held
<1> QED
  BY <1>2, <1>3, <1>4, <1>5

(* One call moves, none starts or ends running: the rest of the invariant.  *)
LEMMA OneCallMoves ==
  ASSUME SInv, NEW c \in Calls, call' \in [Calls -> CallRecord],
         \A d \in Calls \ {c} : call'[d] = call[d],
         Placed(c)', call[c].at # "running", call'[c].at # "running",
         UNCHANGED <<tableVars, broker, lives, adapter, left>>
  PROVE  SInv'
<1>1. TypeOK /\ CallsInv
  BY DEF SInv
<1>2. StagesStay /\ \A s \in Sessions : sess'[s].inFlight = sess[s].inFlight
  BY TableStays DEF tableVars
<1>3. RoomInv' /\ HolderInv' /\ RefsApart' /\ EverySessionHeld'
  BY <1>2, CallsOnly
<1>4. CallsInv'
  <2>1. \A d \in Calls \ {c} : Placed(d)'
    BY <1>1 DEF CallsInv, Placed
  <2> QED
    BY <2>1 DEF CallsInv
<1>5. Counts'
  <2>1. \A d \in Calls : /\ call'[d].at = "running" <=> call[d].at = "running"
                         /\ adapter'[OwnerOf[d]].inner = adapter[OwnerOf[d]].inner
    OBVIOUS
  <2> QED
    BY <1>2, <2>1, CountsStay
<1>6. TypeOK'
  BY <1>1, Typed, TypedNext DEF tableVars
<1> QED
  BY <1>3, <1>4, <1>5, <1>6 DEF SInv

LEMMA OneCall ==
  ASSUME SInv, NEW c \in Calls, NEW stage \in {"sent", "lost", "parked", "done"},
         call' = CallsMove({c}, stage)
  PROVE  /\ call' \in [Calls -> CallRecord]
         /\ \A d \in Calls \ {c} : call'[d] = call[d]
         /\ call'[c].at = stage
<1>1. TypeOK
  BY DEF SInv
<1>2. \A d \in Calls : call'[d] \in CallRecord
  BY <1>1, MovedCall
<1>3. call' \in [Calls -> CallRecord]
  BY <1>2 DEF CallsMove
<1>4. call'[c].at = stage
  <2>1. call'[c] = IF stage = "done" THEN Fresh("done") ELSE [call[c] EXCEPT !.at = stage]
    BY <1>1, OneMoves
  <2> QED
    BY <1>1, <2>1, CallFields DEF Fresh, CallRecord
<1> QED
  BY <1>1, <1>3, <1>4, OneMoves

LEMMA SendInv ==
  ASSUME SInv, NEW c \in Calls, Send(c) \/ CallRefused(c)
  PROVE  SInv'
<1>1. TypeOK /\ CallsInv
  BY DEF SInv
<1>2. PICK stage \in {"sent", "lost", "done"} :
        /\ call' = CallsMove({c}, stage)
        /\ call[c].at \in {"new", "sent"}
        /\ stage = "sent" => adapter[OwnerOf[c]].pc = "serving" /\ ~adapter[OwnerOf[c]].closed
        /\ stage = "lost" => call[c].at = "sent"
        /\ UNCHANGED <<tableVars, broker, lives, adapter, left>>
  <2>1. CASE Send(c)
    BY <2>1 DEF Send, AfterAbort
  <2>2. CASE CallRefused(c)
    BY <2>2 DEF CallRefused
  <2> QED
    BY <2>1, <2>2
<1>3. /\ call' \in [Calls -> CallRecord]
      /\ \A d \in Calls \ {c} : call'[d] = call[d]
      /\ call'[c].at = stage
  BY <1>2, OneCall
<1>4. Placed(c)'
  BY <1>1, <1>2, <1>3, CallFields, AdapterFields DEF CallsInv, Placed
<1> QED
  BY <1>2, <1>3, <1>4, OneCallMoves

(* The counts of the table and the calls change together.                   *)
LEMMA TrackedTable ==
  ASSUME SInv, NEW s \in Sessions, NEW k \in Nat,
         sess' = [sess EXCEPT ![s].inFlight = k], lru' = Touched(s)
  PROVE  /\ sess' \in [Sessions -> SessionRecord] /\ StagesStay
         /\ sess'[s].inFlight = k
         /\ \A t \in Sessions \ {s} : sess'[t].inFlight = sess[t].inFlight
         /\ lru' \in Seq(Sessions)
BY Typed, LruStays DEF SInv, StagesStay, SessionRecord, Touched

LEMMA ForwardInv ==
  ASSUME SInv, NEW c \in Calls, Forward(c)
  PROVE  SInv'
<1> DEFINE s == adapter[OwnerOf[c]].inner
<1>1. TypeOK /\ CallsInv /\ Counts
  BY DEF SInv
<1>2. /\ call[c].at = "sent" /\ s # Gone
      /\ sess' = [sess EXCEPT ![s].inFlight = @ + 1] /\ lru' = Touched(s) /\ endpoint' = endpoint
      /\ call' = [call EXCEPT ![c].at = "running", ![c].runs = @ + 1]
      /\ UNCHANGED <<broker, lives, adapter, left>>
  BY DEF Forward, TrackRequest
<1>3. s \in Sessions /\ sess[s].inFlight \in Nat
  BY <1>1, <1>2, CallFields, AdapterFields, SessionFields DEF Refs
<1>4. /\ sess' \in [Sessions -> SessionRecord] /\ StagesStay
      /\ sess'[s].inFlight = sess[s].inFlight + 1
      /\ \A t \in Sessions \ {s} : sess'[t].inFlight = sess[t].inFlight
      /\ lru' \in Seq(Sessions)
  <2>1. sess' = [sess EXCEPT ![s].inFlight = sess[s].inFlight + 1]
    BY <1>1, <1>2, <1>3, Typed
  <2>2. sess[s].inFlight + 1 \in Nat
    BY <1>3
  <2> QED
    BY <1>2, <1>3, <2>1, <2>2, TrackedTable
<1>5. /\ call' \in [Calls -> CallRecord] /\ call'[c].at = "running"
      /\ \A d \in Calls \ {c} : call'[d] = call[d]
  <2>1. call \in [Calls -> CallRecord] /\ call[c].runs + 1 \in Nat
    BY <1>1, Typed, CallFields
  <2>2. call' = [call EXCEPT ![c].at = "running", ![c].runs = call[c].runs + 1]
    BY <1>2, <2>1 DEF CallRecord
  <2> QED
    BY <2>1, <2>2 DEF CallRecord
<1>6. RoomInv' /\ HolderInv' /\ RefsApart' /\ EverySessionHeld'
  BY <1>2, <1>4, CallsOnly
<1>7. CallsInv'
  <2>1. \A d \in Calls \ {c} : Placed(d)'
    BY <1>1, <1>2, <1>5 DEF CallsInv, Placed
  <2>2. Placed(c)'
    BY <1>1, <1>2, <1>5 DEF CallsInv, Placed
  <2> QED
    BY <2>1, <2>2 DEF CallsInv
<1>8. Counts'
  <2> SUFFICES ASSUME NEW t \in Sessions PROVE sess'[t].inFlight = Cardinality(RunIn(t)')
    BY DEF Counts
  <2>1. CASE t = s
    <3>1. RunIn(t)' = RunIn(t) \cup {c} /\ c \notin RunIn(t)
      BY <1>2, <1>5, <2>1 DEF RunIn
    <3>2. IsFiniteSet(RunIn(t)) /\ sess[t].inFlight = Cardinality(RunIn(t))
      BY <1>1, CallSets DEF RunIn, Counts
    <3> QED
      BY <1>4, <2>1, <3>1, <3>2, FS_AddElement
  <2>2. CASE t # s
    <3>1. \A d \in Calls : (call'[d].at = "running" /\ adapter'[OwnerOf[d]].inner = t)
                            <=> (call[d].at = "running" /\ adapter[OwnerOf[d]].inner = t)
      BY <1>2, <1>5, <2>2
    <3> QED
      BY <1>4, <2>2, <3>1, CountsKept
  <2> QED
    BY <2>1, <2>2
<1>9. TypeOK'
  BY <1>1, <1>2, <1>4, <1>5, Typed, TypedNext
<1> QED
  BY <1>6, <1>7, <1>8, <1>9 DEF SInv

LEMMA EndedInv ==
  ASSUME SInv, NEW c \in Calls, Answer(c) \/ RouteTimesOut(c)
  PROVE  SInv'
<1> DEFINE s == adapter[OwnerOf[c]].inner
<1>1. TypeOK /\ CallsInv /\ Counts
  BY DEF SInv
<1>2. /\ call[c].at = "running"
      /\ sess' = [sess EXCEPT ![s].inFlight = @ - 1] /\ lru' = Touched(s) /\ endpoint' = endpoint
      /\ UNCHANGED <<broker, lives, adapter, left>>
  BY DEF Answer, RouteTimesOut, Ended
<1>3. s \in Sessions /\ sess[s].inFlight > 0 /\ sess[s].inFlight \in Nat /\ c \in RunIn(s)
  BY <1>1, <1>2, Busy, SessionFields
<1>4. /\ sess' \in [Sessions -> SessionRecord] /\ StagesStay
      /\ sess'[s].inFlight = sess[s].inFlight - 1
      /\ \A t \in Sessions \ {s} : sess'[t].inFlight = sess[t].inFlight
      /\ lru' \in Seq(Sessions)
  <2>1. sess' = [sess EXCEPT ![s].inFlight = sess[s].inFlight - 1]
    BY <1>1, <1>2, <1>3, Typed
  <2>2. sess[s].inFlight - 1 \in Nat
    BY <1>3
  <2> QED
    BY <1>2, <1>3, <2>1, <2>2, TrackedTable
<1>5. /\ call' \in [Calls -> CallRecord] /\ call'[c].at \in {"done", "lost"}
      /\ \A d \in Calls \ {c} : call'[d] = call[d]
  <2>1. CASE Answer(c)
    BY <2>1, OneCall DEF Answer
  <2>2. CASE RouteTimesOut(c)
    BY <1>1, <2>2, Typed DEF RouteTimesOut, CallRecord
  <2> QED
    BY <2>1, <2>2
<1>6. RoomInv' /\ HolderInv' /\ RefsApart' /\ EverySessionHeld'
  BY <1>2, <1>4, CallsOnly
<1>7. CallsInv'
  <2>1. \A d \in Calls \ {c} : Placed(d)'
    BY <1>1, <1>2, <1>5 DEF CallsInv, Placed
  <2>2. Placed(c)'
    BY <1>1, <1>2, <1>5 DEF CallsInv, Placed
  <2> QED
    BY <2>1, <2>2 DEF CallsInv
<1>8. Counts'
  <2> SUFFICES ASSUME NEW t \in Sessions PROVE sess'[t].inFlight = Cardinality(RunIn(t)')
    BY DEF Counts
  <2>1. CASE t = s
    <3>1. RunIn(t)' = RunIn(t) \ {c} /\ c \in RunIn(t)
      BY <1>2, <1>3, <1>5, <2>1 DEF RunIn
    <3>2. IsFiniteSet(RunIn(t)) /\ sess[t].inFlight = Cardinality(RunIn(t))
      BY <1>1, CallSets DEF RunIn, Counts
    <3> QED
      BY <1>4, <2>1, <3>1, <3>2, FS_RemoveElement
  <2>2. CASE t # s
    <3>1. \A d \in Calls : (call'[d].at = "running" /\ adapter'[OwnerOf[d]].inner = t)
                            <=> (call[d].at = "running" /\ adapter[OwnerOf[d]].inner = t)
      BY <1>2, <1>5, <2>2
    <3> QED
      BY <1>4, <2>2, <3>1, CountsKept
  <2> QED
    BY <2>1, <2>2
<1>9. TypeOK'
  BY <1>1, <1>2, <1>4, <1>5, Typed, TypedNext
<1> QED
  BY <1>6, <1>7, <1>8, <1>9 DEF SInv

----------------------------------------------------------------------------
(* The requests of one adapter end together: nobody else runs in its        *)
(* session.                                                                 *)

LEMMA UntrackTable ==
  ASSUME SInv, NEW a \in Adapters, Untrack(a)
  PROVE  /\ sess' \in [Sessions -> SessionRecord] /\ StagesStay
         /\ lru' \in Seq(Sessions) /\ endpoint' = endpoint
         /\ \A t \in Sessions : sess'[t].inFlight =
               IF t = adapter[a].inner THEN 0 ELSE sess[t].inFlight
<1> DEFINE s == adapter[a].inner
           n == Cardinality(Of(a, {"running"}))
<1>1. TypeOK /\ RefsApart /\ Counts /\ s \in Refs /\ sess \in [Sessions -> SessionRecord]
  BY Typed, AdapterFields DEF SInv
<1>2. s # Gone => s \in Sessions /\ RunIn(s) = Of(a, {"running"}) /\ sess[s].inFlight = n
  <2> SUFFICES ASSUME s # Gone
               PROVE  s \in Sessions /\ RunIn(s) = Of(a, {"running"}) /\ sess[s].inFlight = n
    OBVIOUS
  <2>1. s \in Sessions
    BY <1>1 DEF Refs
  <2>2. RunIn(s) = Of(a, {"running"})
    BY <1>1, CallFields DEF RunIn, Of, RefsApart
  <2> QED
    BY <1>1, <2>1, <2>2 DEF Counts
<1>3. n \in Nat
  <2>1. Of(a, {"running"}) \in SUBSET Calls
    BY DEF Of
  <2> QED
    BY <2>1, CallSets
<1>4. CASE n > 0 /\ s # Gone
  <2>1. Ended(s, n)
    BY <1>4 DEF Untrack
  <2>2. s \in Sessions /\ sess[s].inFlight - n = 0
    BY <1>2, <1>3, <1>4
  <2>3. sess' = [sess EXCEPT ![s].inFlight = sess[s].inFlight - n] /\ lru' = Touched(s) /\ endpoint' = endpoint
    BY <1>1, <2>1, <2>2 DEF Ended
  <2>4. sess' = [sess EXCEPT ![s].inFlight = 0]
    BY <2>2, <2>3
  <2> HIDE DEF s
  <2>5. /\ sess' \in [Sessions -> SessionRecord] /\ StagesStay
        /\ sess'[s].inFlight = 0
        /\ \A t \in Sessions \ {s} : sess'[t].inFlight = sess[t].inFlight
        /\ lru' \in Seq(Sessions)
    <3>1. PICK k \in Nat : k = 0
      OBVIOUS
    <3>2. sess' = [sess EXCEPT ![s].inFlight = k]
      BY <2>4, <3>1
    <3> QED
      BY <2>2, <2>3, <3>1, <3>2, TrackedTable
  <2> QED
    BY <2>3, <2>5 DEF s
<1>5. CASE ~(n > 0 /\ s # Gone)
  <2>1. UNCHANGED tableVars
    BY <1>5 DEF Untrack
  <2>2. \A t \in Sessions : t = s => sess[t].inFlight = 0
    BY <1>2, <1>3, <1>5, Slots
  <2> QED
    BY <1>1, <2>1, <2>2, Typed DEF tableVars, StagesStay
<1> QED
  BY <1>4, <1>5

LEMMA UntrackCounts ==
  ASSUME SInv, NEW a \in Adapters, OthersStay(a),
         \A t \in Sessions : sess'[t].inFlight =
               IF t = adapter[a].inner THEN 0 ELSE sess[t].inFlight,
         \A c \in Calls : IF OwnerOf[c] = a THEN call'[c].at # "running"
                          ELSE call'[c].at = call[c].at
  PROVE  Counts'
<1>1. TypeOK /\ RefsApart /\ Counts
  BY DEF SInv
<1> SUFFICES ASSUME NEW t \in Sessions PROVE sess'[t].inFlight = Cardinality(RunIn(t)')
  BY DEF Counts
<1>2. CASE t = adapter[a].inner
  <2>1. RunIn(t)' = {}
    BY <1>1, <1>2, CallFields, GoneIsNoSession DEF RunIn, RefsApart, OthersStay
  <2>2. sess'[t].inFlight = 0
    BY <1>2
  <2> QED
    BY <2>1, <2>2, FS_EmptySet
<1>3. CASE t # adapter[a].inner
  <2>1. \A c \in Calls : (call'[c].at = "running" /\ adapter'[OwnerOf[c]].inner = t)
                          <=> (call[c].at = "running" /\ adapter[OwnerOf[c]].inner = t)
    BY <1>1, <1>3, CallFields DEF OthersStay
  <2>2. sess'[t].inFlight = sess[t].inFlight
    BY <1>3
  <2> QED
    BY <2>1, <2>2, CountsKept
<1> QED
  BY <1>2, <1>3

(* The session is replaced: the old transport is closed under its calls.    *)
LEMMA ReplaceInv ==
  ASSUME SInv, NEW c \in Calls, NEW a \in Adapters, a = OwnerOf[c],
         call[c].at = "lost", adapter[a].shake = "none", Untrack(a),
         call' = [CallsMove(Of(a, {"sent", "running"}), AfterAbort) EXCEPT ![c].at = "parked"],
         adapter' = [adapter EXCEPT ![a].closed = TRUE, ![a].shake = "trying"],
         UNCHANGED <<broker, lives, left>>
  PROVE  SInv'
<1>1. TypeOK /\ HolderInv /\ CallsInv /\ EverySessionHeld
  BY DEF SInv
<1>2. /\ sess' \in [Sessions -> SessionRecord] /\ StagesStay /\ RoomInv'
      /\ lru' \in Seq(Sessions) /\ endpoint' = endpoint
      /\ \A t \in Sessions : sess'[t].inFlight =
            IF t = adapter[a].inner THEN 0 ELSE sess[t].inFlight
  BY UntrackTable, RoomsStay
<1>3. /\ adapter' \in [Adapters -> AdapterRecord]
      /\ OthersStay(a)
      /\ adapter'[a].pc = adapter[a].pc /\ adapter'[a].closed = TRUE
      /\ adapter'[a].inner = adapter[a].inner
      /\ adapter'[a].shake = "trying" /\ adapter'[a].next = adapter[a].next
  <2>1. adapter \in [Adapters -> AdapterRecord] /\ adapter[a] \in AdapterRecord
    BY <1>1, Typed
  <2>2. adapter'[a] = [adapter[a] EXCEPT !.closed = TRUE, !.shake = "trying"]
    BY <2>1
  <2>3. /\ adapter'[a] \in AdapterRecord
        /\ adapter'[a].pc = adapter[a].pc /\ adapter'[a].closed = TRUE
        /\ adapter'[a].inner = adapter[a].inner
        /\ adapter'[a].shake = "trying" /\ adapter'[a].next = adapter[a].next
    BY <2>1, <2>2 DEF AdapterRecord
  <2>4. OthersStay(a) /\ adapter' \in [Adapters -> AdapterRecord]
    BY <2>1, <2>3 DEF OthersStay
  <2> QED
    BY <2>3, <2>4
<1>4. ASSUME NEW d \in Calls
      PROVE  /\ call'[d] \in CallRecord
             /\ call'[d].at = IF d = c THEN "parked"
                              ELSE IF OwnerOf[d] = a /\ call[d].at \in {"sent", "running"} THEN "done"
                              ELSE call[d].at
  <2> DEFINE moved == CallsMove(Of(a, {"sent", "running"}), AfterAbort)
  <2>1. /\ moved \in [Calls -> CallRecord]
        /\ \A e \in Calls : moved[e].at =
              IF OwnerOf[e] = a /\ call[e].at \in {"sent", "running"} THEN "done" ELSE call[e].at
    <3>1. \A e \in Calls : moved[e] \in CallRecord /\ moved[e].at =
              IF OwnerOf[e] = a /\ call[e].at \in {"sent", "running"} THEN "done" ELSE call[e].at
      BY <1>1, MovedCall DEF AfterAbort, Of
    <3>2. moved = [e \in Calls |-> moved[e]]
      BY DEF CallsMove
    <3> QED
      BY <3>1, <3>2
  <2>2. call' = [moved EXCEPT ![c].at = "parked"]
    OBVIOUS
  <2> HIDE DEF moved
  <2> QED
    BY <2>1, <2>2 DEF CallRecord
<1>5. HolderInv' /\ RefsApart'
  <2>1. adapter[a].pc \notin {"connecting", "gone"} /\ adapter[a].next = Gone
    BY <1>1 DEF HolderInv, Holds, CallsInv, Placed
  <2>2. Holds(a)'
    BY <1>1, <1>2, <1>3, <2>1, AdapterFields DEF HolderInv, Holds, StagesStay, Refs
  <2> QED
    BY <1>2, <1>3, <2>1, <2>2, OneAdapter
<1>6. CallsInv'
  <2> SUFFICES ASSUME NEW d \in Calls PROVE Placed(d)'
    BY DEF CallsInv
  <2>1. CASE OwnerOf[d] = a
    BY <1>1, <1>3, <1>4, <2>1, CallFields DEF CallsInv, Placed
  <2>2. CASE OwnerOf[d] # a
    BY <1>3, <1>4, <2>2, OtherCalls
  <2> QED
    BY <2>1, <2>2
<1>7. Counts'
  <2>1. \A d \in Calls : IF OwnerOf[d] = a THEN call'[d].at # "running"
                         ELSE call'[d].at = call[d].at
    BY <1>4
  <2> QED
    BY <1>2, <1>3, <2>1, UntrackCounts
<1>8. EverySessionHeld'
  <2>1. ASSUME NEW s \in Sessions, Held(s) PROVE Held(s)'
    BY <1>3, <2>1 DEF Held, OthersStay
  <2> QED
    BY <1>2, <2>1, HeldStays
<1>9. TypeOK'
  <2>1. call' \in [Calls -> CallRecord]
    BY <1>4 DEF CallsMove
  <2> QED
    BY <1>1, <1>2, <1>3, <2>1, Typed, TypedNext
<1> QED
  BY <1>2, <1>5, <1>6, <1>7, <1>8, <1>9 DEF SInv

LEMMA OnLostInv ==
  ASSUME SInv, NEW c \in Calls, OnLost(c)
  PROVE  SInv'
<1> DEFINE a == OwnerOf[c]
<1>1. /\ TypeOK /\ CallsInv /\ a \in Adapters
      /\ call[c].at = "lost" /\ UNCHANGED <<broker, lives, left>>
  BY CallFields DEF SInv, OnLost
<1>2. CASE Untrack(a) /\ adapter[a].shake = "none"
           /\ call' = [CallsMove(Of(a, {"sent", "running"}), AfterAbort) EXCEPT ![c].at = "parked"]
           /\ adapter' = [adapter EXCEPT ![a].closed = TRUE, ![a].shake = "trying"]
  BY <1>1, <1>2, ReplaceInv
<1>3. ASSUME UNCHANGED <<tableVars, adapter>>, NEW stage \in {"done", "parked"},
             call' = CallsMove({c}, stage), stage = "parked" => adapter[a].shake # "none"
      PROVE  SInv'
  <2>1. /\ call' \in [Calls -> CallRecord]
        /\ \A d \in Calls \ {c} : call'[d] = call[d]
        /\ call'[c].at = stage
    BY <1>3, OneCall
  <2>2. Placed(c)'
    BY <1>1, <1>3, <2>1 DEF CallsInv, Placed
  <2> QED
    BY <1>1, <1>3, <2>1, <2>2, OneCallMoves
<1>4. CASE /\ UNCHANGED <<tableVars, adapter>> /\ ~adapter[a].closed
           /\ call' = [call EXCEPT ![c].at = "sent", ![c].on = "inner", ![c].resent = TRUE]
  <2>1. /\ call' \in [Calls -> CallRecord]
        /\ \A d \in Calls \ {c} : call'[d] = call[d]
        /\ call'[c].at = "sent"
    <3>1. call \in [Calls -> CallRecord] /\ call[c] \in CallRecord
      BY <1>1, Typed
    <3>2. /\ call'[c] = [call[c] EXCEPT !.at = "sent", !.on = "inner", !.resent = TRUE]
          /\ \A d \in Calls \ {c} : call'[d] = call[d]
          /\ call' = [d \in Calls |-> call'[d]]
      BY <1>4, <3>1
    <3>3. call'[c] \in CallRecord /\ call'[c].at = "sent"
      BY <3>1, <3>2 DEF CallRecord
    <3>4. \A d \in Calls : call'[d] \in CallRecord
      BY <3>1, <3>2, <3>3
    <3> QED
      BY <3>2, <3>3, <3>4
  <2>2. Placed(c)'
    BY <1>1, <1>4, <2>1, AdapterFields DEF CallsInv, Placed
  <2> QED
    BY <1>1, <1>4, <2>1, <2>2, OneCallMoves
<1> QED
  BY <1>2, <1>3, <1>4 DEF OnLost, AfterAbort

----------------------------------------------------------------------------
(* The end of an adapter, and of the broker.                                *)

LEMMA KillInv ==
  ASSUME SInv, NEW a \in Adapters, Kill(a)
  PROVE  SInv'
<1> DEFINE dead == [pc |-> "gone", inner |-> Gone, closed |-> TRUE,
                    shake |-> "none", next |-> Gone, tries |-> 0]
<1>1. TypeOK /\ HolderInv /\ CallsInv /\ EverySessionHeld
  BY DEF SInv
<1>2. /\ adapter' = [adapter EXCEPT ![a] = dead]
      /\ call' = CallsMove(Of(a, {"new", "sent", "running", "lost", "parked"}), "done")
      /\ left' = left \cup ({adapter[a].inner, adapter[a].next} \ {Gone})
      /\ Untrack(a) /\ UNCHANGED <<broker, lives>>
  BY DEF Kill
<1>3. /\ sess' \in [Sessions -> SessionRecord] /\ StagesStay /\ RoomInv'
      /\ lru' \in Seq(Sessions) /\ endpoint' = endpoint
      /\ \A t \in Sessions : sess'[t].inFlight =
            IF t = adapter[a].inner THEN 0 ELSE sess[t].inFlight
  BY <1>2, UntrackTable, RoomsStay
<1>4. /\ adapter' \in [Adapters -> AdapterRecord]
      /\ OthersStay(a) /\ adapter'[a] = dead
  <2>1. dead \in AdapterRecord
    BY Slots DEF AdapterRecord
  <2> HIDE DEF dead
  <2> QED
    BY <1>1, <1>2, <2>1, Typed DEF OthersStay
<1>5. ASSUME NEW d \in Calls
      PROVE  /\ call'[d] \in CallRecord
             /\ call'[d].at = IF OwnerOf[d] = a THEN "done" ELSE call[d].at
  <2>1. d \in Of(a, {"new", "sent", "running", "lost", "parked"})
          <=> OwnerOf[d] = a /\ call[d].at # "done"
    BY <1>1, CallFields DEF Of
  <2>2. /\ call'[d] \in CallRecord
        /\ call'[d].at = IF d \in Of(a, {"new", "sent", "running", "lost", "parked"})
                         THEN "done" ELSE call[d].at
    BY <1>1, <1>2, MovedCall
  <2> QED
    BY <2>1, <2>2
<1>6. HolderInv' /\ RefsApart'
  <2>1. Holds(a)'
    BY <1>4 DEF Holds
  <2> QED
    BY <1>3, <1>4, <2>1, OneAdapter
<1>7. CallsInv'
  <2> SUFFICES ASSUME NEW d \in Calls PROVE Placed(d)'
    BY DEF CallsInv
  <2>1. CASE OwnerOf[d] = a
    BY <1>5, <2>1 DEF Placed
  <2>2. CASE OwnerOf[d] # a
    BY <1>4, <1>5, <2>2, OtherCalls
  <2> QED
    BY <2>1, <2>2
<1>8. Counts'
  <2>1. \A d \in Calls : IF OwnerOf[d] = a THEN call'[d].at # "running"
                         ELSE call'[d].at = call[d].at
    BY <1>5
  <2> QED
    BY <1>3, <1>4, <2>1, UntrackCounts
<1>9. EverySessionHeld'
  <2>1. ASSUME NEW s \in Sessions, Held(s) PROVE Held(s)'
    BY <1>2, <1>4, <2>1, Slots DEF Held, OthersStay
  <2> QED
    BY <1>3, <2>1, HeldStays
<1>10. TypeOK'
  <2>1. call' \in [Calls -> CallRecord]
    BY <1>2, <1>5 DEF CallsMove
  <2>2. left' \subseteq Sessions
    BY <1>1, <1>2, Typed, AdapterFields DEF Refs
  <2> QED
    BY <1>1, <1>2, <1>3, <1>4, <2>1, <2>2, Typed, TypedNext
<1> QED
  BY <1>3, <1>6, <1>7, <1>8, <1>9, <1>10 DEF SInv

LEMMA SameRecord ==
  ASSUME NEW r \in AdapterRecord
  PROVE  [r EXCEPT !.inner = r.inner, !.next = r.next] = r
BY DEF AdapterRecord

LEMMA EndSessionInv ==
  ASSUME SInv, NEW a \in Adapters, EndSession(a)
  PROVE  SInv'
<1> DEFINE s == adapter[a].inner
           mine == [adapter EXCEPT ![a].pc = "ended", ![a].closed = TRUE, ![a].inner = Gone]
<1>1. /\ TypeOK /\ HolderInv /\ RefsApart /\ CallsInv /\ EverySessionHeld
      /\ s \in Refs
  BY AdapterFields DEF SInv
<1>2. /\ call' = CallsMove(Of(a, {"new", "sent", "running"}), AfterAbort)
      /\ AdapterBecomes(mine) /\ adapter[a].pc = "serving"
      /\ UNCHANGED <<broker, lives>>
  BY DEF EndSession
<1>3. /\ sess' \in [Sessions -> SessionRecord] /\ RoomInv'
      /\ \A t \in Sessions \ {s} : sess'[t].at = sess[t].at
      /\ lru' \in Seq(Sessions) /\ endpoint' = endpoint
      /\ \A t \in Sessions : sess'[t].inFlight = IF t = s THEN 0 ELSE sess[t].inFlight
      /\ left' \subseteq Sessions
      /\ \A t \in Sessions : sess'[t].at \in InUse =>
            /\ t \in left => t \in left'
            /\ t = s => t \in left'
            /\ sess[t].at \in InUse
  <2>1. CASE s # Gone /\ Forget(s) /\ LeftBecomes(left)
    <3>1. /\ s \in Sessions
          /\ sess' = [sess EXCEPT ![s] = Session("closing", Gone)]
          /\ sess' \in [Sessions -> SessionRecord] /\ RoomInv'
          /\ lru' \in Seq(Sessions) /\ endpoint' = endpoint
      BY <1>1, <2>1, ForgetTable DEF Refs
    <3>2. /\ sess'[s] = Session("closing", Gone)
          /\ \A t \in Sessions \ {s} : sess'[t] = sess[t]
      BY <1>1, <3>1, Typed
    <3>3. Session("closing", Gone).at = "closing" /\ Session("closing", Gone).inFlight = 0
      BY Slots
    <3>4. /\ left' \subseteq left
          /\ \A t \in left : sess'[t].at \notin {"free", "closing"} => t \in left'
          /\ left \subseteq Sessions
      BY <1>1, <2>1, Typed, LeftKept
    <3>5. ASSUME NEW t \in Sessions, sess'[t].at \in InUse
          PROVE  t # s /\ sess[t].at \in InUse /\ (t \in left => t \in left')
      BY <3>2, <3>3, <3>4, <3>5 DEF InUse
    <3> QED
      BY <3>1, <3>2, <3>3, <3>4, <3>5
  <2>2. CASE Untrack(a) /\ LeftBecomes(left \cup ({s} \ {Gone}))
    <3>1. /\ sess' \in [Sessions -> SessionRecord] /\ StagesStay /\ RoomInv'
          /\ lru' \in Seq(Sessions) /\ endpoint' = endpoint
          /\ \A t \in Sessions : sess'[t].inFlight = IF t = s THEN 0 ELSE sess[t].inFlight
      BY <2>2, UntrackTable, RoomsStay
    <3>2. left \cup ({s} \ {Gone}) \in SUBSET Sessions
      BY <1>1, Typed DEF Refs
    <3>3. /\ left' \subseteq left \cup ({s} \ {Gone})
          /\ \A t \in left \cup ({s} \ {Gone}) : sess'[t].at \notin {"free", "closing"} => t \in left'
      BY <2>2, <3>2, LeftKept
    <3>4. ASSUME NEW t \in Sessions, sess'[t].at \in InUse
          PROVE  sess[t].at \in InUse /\ (t \in left \/ t = s => t \in left')
      BY <3>1, <3>3, <3>4, GoneIsNoSession DEF InUse, StagesStay
    <3> QED
      BY <3>1, <3>2, <3>3, <3>4 DEF StagesStay
  <2> QED
    BY <2>1, <2>2 DEF EndSession
<1>4. /\ mine \in [Adapters -> AdapterRecord]
      /\ \A b \in Adapters \ {a} : mine[b] = adapter[b]
      /\ mine[a].pc = "ended" /\ mine[a].closed = TRUE /\ mine[a].inner = Gone
      /\ mine[a].shake = adapter[a].shake /\ mine[a].next = adapter[a].next
  <2>1. adapter \in [Adapters -> AdapterRecord] /\ adapter[a] \in AdapterRecord
    BY <1>1, Typed
  <2>2. /\ mine[a] = [adapter[a] EXCEPT !.pc = "ended", !.closed = TRUE, !.inner = Gone]
        /\ \A b \in Adapters \ {a} : mine[b] = adapter[b]
        /\ mine = [b \in Adapters |-> mine[b]]
    BY <2>1
  <2>3. /\ mine[a] \in AdapterRecord
        /\ mine[a].pc = "ended" /\ mine[a].closed = TRUE /\ mine[a].inner = Gone
        /\ mine[a].shake = adapter[a].shake /\ mine[a].next = adapter[a].next
    BY <2>1, <2>2, Slots DEF AdapterRecord
  <2>4. \A b \in Adapters : mine[b] \in AdapterRecord
    BY <2>1, <2>2, <2>3
  <2> HIDE DEF mine
  <2> QED
    BY <2>2, <2>3, <2>4
<1> HIDE DEF mine
<1>5. /\ adapter' \in [Adapters -> AdapterRecord]
      /\ OthersStay(a)
      /\ adapter'[a].pc = "ended" /\ adapter'[a].closed = TRUE /\ adapter'[a].inner = Gone
      /\ adapter'[a].shake = adapter[a].shake /\ adapter'[a].next = adapter[a].next
  <2>1. Known(Gone) = Gone
    BY DEF Known
  <2>2. \A t \in Sessions \ {s} : sess[t].at \in InUse => Known(t) = t
    BY <1>3, KnownCases, GoneIsNoSession DEF InUse
  <2>3. ASSUME NEW b \in Adapters
        PROVE  /\ b # a => Known(adapter[b].inner) = adapter[b].inner
               /\ Known(adapter[b].next) = adapter[b].next
    <3>1. adapter[b].inner \in Refs /\ adapter[b].next \in Refs /\ Holds(b)
      BY <1>1, AdapterFields DEF HolderInv
    <3>2. /\ s # Gone => adapter[b].next # s
          /\ s # Gone /\ b # a => adapter[b].inner # s
      BY <1>1 DEF RefsApart
    <3> QED
      BY <2>1, <2>2, <3>1, <3>2 DEF Holds, Refs, InUse
  <2>4. /\ adapter' \in [Adapters -> AdapterRecord]
        /\ \A b \in Adapters :
             /\ adapter'[b].pc = mine[b].pc /\ adapter'[b].closed = mine[b].closed
             /\ adapter'[b].shake = mine[b].shake /\ adapter'[b].tries = mine[b].tries
             /\ adapter'[b].inner = Known(mine[b].inner)
             /\ adapter'[b].next = Known(mine[b].next)
    BY <1>2, <1>4, Erased
  <2>5. OthersStay(a)
    <3> SUFFICES ASSUME NEW b \in Adapters \ {a} PROVE adapter'[b] = adapter[b]
      BY DEF OthersStay
    <3>1. adapter[b] \in AdapterRecord
      BY <1>1, AdapterFields
    <3>2. adapter'[b] = [adapter[b] EXCEPT !.inner = Known(adapter[b].inner), !.next = Known(adapter[b].next)]
      BY <1>2, <1>4, <3>1 DEF AdapterBecomes, AdapterRecord
    <3>3. adapter'[b] = [adapter[b] EXCEPT !.inner = adapter[b].inner, !.next = adapter[b].next]
      BY <2>3, <3>2
    <3> QED
      BY <3>1, <3>3, SameRecord
  <2> QED
    BY <1>4, <2>1, <2>3, <2>4, <2>5
<1>6. ASSUME NEW d \in Calls
      PROVE  /\ call'[d] \in CallRecord
             /\ call'[d].at = IF OwnerOf[d] = a /\ call[d].at \in {"new", "sent", "running"}
                              THEN "done" ELSE call[d].at
  BY <1>1, <1>2, MovedCall DEF AfterAbort, Of
<1>7. HolderInv'
  <2> SUFFICES ASSUME NEW b \in Adapters PROVE Holds(b)'
    BY DEF HolderInv
  <2>1. /\ adapter[b].inner \in Refs /\ adapter[b].next \in Refs /\ Holds(b)
        /\ s # Gone => adapter[b].next # s
        /\ s # Gone /\ b # a => adapter[b].inner # s
    BY <1>1, AdapterFields DEF HolderInv, RefsApart
  <2>2. CASE b = a
    BY <1>2, <1>3, <1>5, <2>1, <2>2 DEF Holds, Refs
  <2>3. CASE b # a
    BY <1>3, <1>5, <2>1, <2>3, Slots DEF Holds, Refs, OthersStay
  <2> QED
    BY <2>2, <2>3
<1>8. RefsApart'
  BY <1>1, <1>5 DEF RefsApart, OthersStay
<1>9. CallsInv'
  <2> SUFFICES ASSUME NEW d \in Calls PROVE Placed(d)'
    BY DEF CallsInv
  <2>1. CASE OwnerOf[d] = a
    BY <1>1, <1>5, <1>6, <2>1, CallFields DEF CallsInv, Placed
  <2>2. CASE OwnerOf[d] # a
    BY <1>5, <1>6, <2>2, OtherCalls
  <2> QED
    BY <2>1, <2>2
<1>10. Counts'
  <2>1. \A d \in Calls : IF OwnerOf[d] = a THEN call'[d].at # "running"
                         ELSE call'[d].at = call[d].at
    BY <1>6
  <2> QED
    BY <1>3, <1>5, <2>1, UntrackCounts
<1>11. EverySessionHeld'
  <2> SUFFICES ASSUME NEW t \in Sessions, sess'[t].at \in InUse PROVE Held(t)'
    BY HeldMeans
  <2>1. Held(t)
    BY <1>1, <1>3, HeldMeans
  <2> QED
    BY <1>3, <1>5, <2>1 DEF Held, OthersStay
<1>12. TypeOK'
  <2>1. call' \in [Calls -> CallRecord]
    BY <1>2, <1>6 DEF CallsMove
  <2> QED
    BY <1>1, <1>2, <1>3, <1>5, <2>1, Typed, TypedNext
<1> QED
  BY <1>3, <1>7, <1>8, <1>9, <1>10, <1>11, <1>12 DEF SInv

LEMMA BrokerEndsInv ==
  ASSUME SInv, BrokerEnds
  PROVE  SInv'
<1>1. TypeOK /\ HolderInv /\ CallsInv
  BY DEF SInv
<1>2. /\ broker' = "down" /\ lives' = lives + 1 /\ lives < MaxLives
      /\ sess' = [s \in Sessions |-> Session("free", Gone)] /\ lru' = <<>> /\ endpoint' = endpoint
      /\ AdapterBecomes(adapter) /\ LeftBecomes(left)
  BY DEF BrokerEnds, CloseAll
<1>3. /\ Session("free", Gone) \in SessionRecord
      /\ Session("free", Gone).at = "free" /\ Session("free", Gone).waits = Gone
      /\ Session("free", Gone).inFlight = 0
  BY Slots
<1>4. /\ sess' \in [Sessions -> SessionRecord]
      /\ \A s \in Sessions : sess'[s].at = "free" /\ sess'[s].waits = Gone /\ sess'[s].inFlight = 0
  BY <1>2, <1>3
<1>5. /\ adapter' \in [Adapters -> AdapterRecord]
      /\ \A a \in Adapters :
           /\ adapter'[a].pc = adapter[a].pc /\ adapter'[a].closed = adapter[a].closed
           /\ adapter'[a].shake = adapter[a].shake
           /\ adapter'[a].inner = Gone /\ adapter'[a].next = Gone
  <2>1. \A r \in Refs : Known(r) = Gone
    BY <1>4, KnownCases DEF Refs
  <2>2. /\ adapter' \in [Adapters -> AdapterRecord]
        /\ \A a \in Adapters :
             /\ adapter'[a].pc = adapter[a].pc /\ adapter'[a].closed = adapter[a].closed
             /\ adapter'[a].shake = adapter[a].shake
             /\ adapter'[a].inner = Known(adapter[a].inner)
             /\ adapter'[a].next = Known(adapter[a].next)
    BY <1>1, <1>2, Typed, Erased
  <2> QED
    BY <1>1, <2>1, <2>2, AdapterFields
<1>6. ASSUME NEW c \in Calls
      PROVE  /\ call'[c] \in CallRecord
             /\ call'[c].at = IF call[c].at = "running" THEN "lost" ELSE call[c].at
  <2>1. call'[c] = IF call[c].at = "running"
                   THEN [call[c] EXCEPT !.at = "lost", !.cut = @ + 1] ELSE call[c]
    BY DEF BrokerEnds
  <2>2. call[c] \in CallRecord /\ call[c].cut + 1 \in Nat
    BY <1>1, CallFields
  <2>3. CASE call[c].at = "running"
    <3>1. call'[c] = [call[c] EXCEPT !.at = "lost", !.cut = call[c].cut + 1]
      BY <2>1, <2>2, <2>3 DEF CallRecord
    <3> QED
      BY <2>2, <2>3, <3>1 DEF CallRecord
  <2>4. CASE call[c].at # "running"
    BY <2>1, <2>2, <2>4
  <2> QED
    BY <2>3, <2>4
<1>7. HolderInv' /\ RefsApart'
  BY <1>1, <1>5 DEF HolderInv, Holds, RefsApart
<1>8. CallsInv'
  BY <1>1, <1>5, <1>6, CallFields DEF CallsInv, Placed
<1>9. Counts'
  <2> SUFFICES ASSUME NEW s \in Sessions PROVE sess'[s].inFlight = Cardinality(RunIn(s)')
    BY DEF Counts
  <2>1. RunIn(s)' = {}
    BY <1>6 DEF RunIn
  <2> QED
    BY <1>4, <2>1, FS_EmptySet
<1>10. EverySessionHeld' /\ RoomInv'
  BY <1>4, HeldMeans DEF InUse, RoomInv
<1>11. TypeOK'
  <2>1. call' \in [Calls -> CallRecord]
    BY <1>6 DEF BrokerEnds
  <2>2. left' \subseteq Sessions
    BY <1>1, <1>2, Typed, LeftKept
  <2>3. lives' \in 1 .. MaxLives
    BY <1>1, <1>2, Typed, BoundsAreNumbers
  <2>4. lru' \in Seq(Sessions)
    BY <1>2, EmptySeq
  <2> QED
    BY <1>1, <1>2, <1>4, <1>5, <2>1, <2>2, <2>3, <2>4, Typed, TypedNext
<1> QED
  BY <1>7, <1>8, <1>9, <1>10, <1>11 DEF SInv

LEMMA NothingMovesInv ==
  ASSUME SInv, UNCHANGED <<sess, lru, adapter, call, left>>,
         endpoint' \in Limits, broker' \in {"up", "down"}, lives' = lives
  PROVE  SInv'
<1>1. TypeOK'
  BY Typed, TypedNext DEF SInv
<1>2. StagesStay /\ \A s \in Sessions : sess'[s].inFlight = sess[s].inFlight
  BY TableStays
<1>3. RoomInv' /\ HolderInv' /\ RefsApart' /\ EverySessionHeld'
  BY <1>2, CallsOnly
<1>4. CallsInv' /\ Counts'
  BY <1>2, CountsStay DEF SInv, CallsInv, Placed
<1> QED
  BY <1>1, <1>3, <1>4 DEF SInv

----------------------------------------------------------------------------
(* SInv holds at first and no step breaks it.                               *)

LEMMA InitSInv == Init => SInv /\ RunsInv
<1> SUFFICES ASSUME Init PROVE SInv /\ RunsInv
  OBVIOUS
<1>1. /\ endpoint \in Limits /\ lru = <<>> /\ broker = "up" /\ lives = 1 /\ left = {}
      /\ sess = [s \in Sessions |-> Session("free", Gone)]
      /\ adapter = [a \in Adapters |->
            [pc |-> "connecting", inner |-> Gone, closed |-> FALSE,
             shake |-> "trying", next |-> Gone, tries |-> 0]]
      /\ call = [c \in Calls |-> Fresh("new")]
  BY DEF Init, TableInit
<1>2. /\ Session("free", Gone) \in SessionRecord
      /\ Session("free", Gone).at = "free" /\ Session("free", Gone).waits = Gone
      /\ Session("free", Gone).inFlight = 0
  BY Slots
<1>3. \A c \in Calls : call[c].at = "new"
  BY <1>1 DEF Fresh
<1>4. TypeOK
  <2>1. lru \in Seq(Sessions) /\ lives \in 1 .. MaxLives
    BY <1>1, BoundsAreNumbers, EmptySeq
  <2>2. sess \in [Sessions -> SessionRecord]
    BY <1>1, <1>2
  <2>3. /\ adapter \in [Adapters -> AdapterRecord]
        /\ call \in [Calls -> CallRecord]
    BY <1>1, Slots DEF AdapterRecord, CallRecord, Fresh
  <2> QED
    BY <1>1, <2>1, <2>2, <2>3 DEF TypeOK, TableTypeOK, AdapterRecord, CallRecord, SessionRecord, Refs
<1>5. RoomInv /\ HolderInv /\ RefsApart
  BY <1>1, <1>2 DEF RoomInv, HolderInv, Holds, RefsApart
<1>6. CallsInv
  BY <1>1, <1>3, OwnersAreAdapters DEF CallsInv, Placed
<1>7. Counts
  <2> SUFFICES ASSUME NEW s \in Sessions PROVE sess[s].inFlight = Cardinality(RunIn(s))
    BY DEF Counts
  <2>1. RunIn(s) = {}
    BY <1>3 DEF RunIn
  <2> QED
    BY <1>1, <1>2, <2>1, FS_EmptySet
<1>8. EverySessionHeld
  BY <1>1, <1>2, HeldMeans DEF InUse
<1>9. RunsInv
  BY <1>1, FreshIsRight DEF RunsInv
<1> QED
  BY <1>4, <1>5, <1>6, <1>7, <1>8, <1>9 DEF SInv

LEMMA NextSInv == SInv /\ [Next]_vars => SInv'
<1> SUFFICES ASSUME SInv, [Next]_vars PROVE SInv'
  OBVIOUS
<1>1. ASSUME NEW a \in Adapters, Handshake(a) \/ EndSession(a) \/ Kill(a) PROVE SInv'
  BY <1>1, AttemptInv, AdmittedInv, InitializedInv, GivingUpInv, EndSessionInv, KillInv DEF Handshake
<1>2. ASSUME NEW c \in Calls, Send(c) \/ CallStep(c) PROVE SInv'
  BY <1>2, SendInv, ForwardInv, EndedInv, OnLostInv DEF CallStep
<1>3. ASSUME NEW s \in Sessions, TableStep(s) \/ Reap(s) PROVE SInv'
  BY <1>3, TableStepInv, ReapInv
<1>4. CASE LiveUpdate \/ BrokerStarts
  BY <1>4, NothingMovesInv, Typed DEF LiveUpdate, BrokerStarts, Update, tableVars, SInv
<1>5. CASE BrokerEnds
  BY <1>5, BrokerEndsInv
<1>6. CASE UNCHANGED vars
  BY <1>6, NothingMovesInv, Typed DEF vars, SInv
<1> QED
  BY <1>1, <1>2, <1>3, <1>4, <1>5, <1>6 DEF Next

LEMMA SInvSuffices == SInv => AdapterInvariant
<1> SUFFICES ASSUME SInv PROVE AdapterInvariant
  OBVIOUS
<1>1. TypeOK /\ RoomInv /\ HolderInv /\ CallsInv /\ Counts /\ EverySessionHeld
  BY DEF SInv
<1>2. RunningHasSession
  <2>1. \A c \in Calls : call[c].at = "running" =>
          adapter[OwnerOf[c]].inner \in SessionAt({"ready"})
    BY Busy DEF SessionAt
  <2>2. \A s \in Sessions : sess[s].inFlight =
          Cardinality({c \in Calls : call[c].at = "running" /\ adapter[OwnerOf[c]].inner = s})
    BY <1>1 DEF Counts, RunIn
  <2> QED
    BY <2>1, <2>2 DEF RunningHasSession
<1>3. NobodyWaitsInVain
  <2>1. \A c \in Calls : call[c].at = "parked" => adapter[OwnerOf[c]].shake # "none"
    BY <1>1 DEF CallsInv, Placed
  <2>2. \A a \in Adapters : adapter[a].shake = "opening" /\ adapter[a].next # Gone =>
          sess[adapter[a].next].at \in {"room", "starting", "open"}
    BY <1>1 DEF HolderInv, Holds
  <2>3. \A s \in SessionAt({"room"}) :
          sess[s].waits # Gone /\ sess[sess[s].waits].at = "closing"
    BY <1>1 DEF RoomInv, SessionAt
  <2> QED
    BY <2>1, <2>2, <2>3 DEF NobodyWaitsInVain
<1> QED
  BY <1>1, <1>2, <1>3 DEF AdapterInvariant

----------------------------------------------------------------------------
(* Only a reservation adds to what the limit counts.                        *)

LEMMA CountedSets ==
  /\ Counted = {s \in Sessions : sess[s].at \in InUse}
  /\ Counted' = {s \in Sessions : sess'[s].at \in InUse}
  /\ IsFiniteSet(Counted) /\ Cardinality(Counted) \in Nat
<1>1. /\ Counted = {s \in Sessions : sess[s].at \in InUse}
      /\ Counted' = {s \in Sessions : sess'[s].at \in InUse}
  BY DEF Counted, SessionAt, InUse
<1> QED
  BY <1>1, SlotsAreFinite, FS_Subset, FS_CardinalityType

(* What a step that reserves no slot does to the stages.                    *)
NoneAdded == \A s \in Sessions : sess'[s].at \in InUse => sess[s].at \in InUse

LimitStep == Cardinality(Counted') > Cardinality(Counted) => Cardinality(Counted') <= endpoint

LEMMA NoneAddedKeeps == ASSUME NoneAdded PROVE LimitStep
<1>1. Counted' \in SUBSET Counted
  BY CountedSets DEF NoneAdded
<1>2. Cardinality(Counted') <= Cardinality(Counted) /\ IsFiniteSet(Counted')
  BY <1>1, CountedSets, FS_Subset
<1>3. Cardinality(Counted') \in Nat /\ Cardinality(Counted) \in Nat
  BY <1>2, CountedSets, FS_CardinalityType
<1> QED
  BY <1>2, <1>3 DEF LimitStep

LEMMA MovesAddNone ==
  ASSUME SInv, \A s \in Sessions : Moves(s)
  PROVE  NoneAdded
BY SessionFields DEF SInv, Moves, NoneAdded, InUse, Stages

LEMMA StagesStayAddNone == ASSUME StagesStay PROVE NoneAdded
BY DEF StagesStay, NoneAdded

LEMMA ReserveKeepsLimit ==
  ASSUME SInv, NEW s \in Sessions, Reserve(s)
  PROVE  LimitStep
<1>1. /\ sess \in [Sessions -> SessionRecord] /\ sess[s].at = "free" /\ endpoint \in Nat
  BY Typed, LimitsAreSizes DEF SInv, Reserve
<1>2. /\ IsFiniteSet(Counted) /\ Cardinality(Counted) \in Nat /\ s \notin Counted
  BY <1>1, CountedSets DEF InUse
<1>3. Session("starting", Gone).at = "starting" /\ Session("closing", Gone).at = "closing"
      /\ \A v \in Sessions : Session("room", v).at = "room"
  BY DEF Session
<1>4. CASE ~Full /\ sess' = [sess EXCEPT ![s] = Session("starting", Gone)]
  <2>1. Counted' = Counted \cup {s}
    BY <1>1, <1>3, <1>4, CountedSets DEF InUse
  <2>2. Cardinality(Counted') = Cardinality(Counted) + 1
    BY <1>2, <2>1, FS_AddElement
  <2> QED
    BY <1>1, <1>2, <1>4, <2>2 DEF Full, LimitStep
<1>5. ASSUME NEW victim \in Sessions, EvictionCandidate(victim),
             sess' = [sess EXCEPT ![victim] = Session("closing", Gone),
                                  ![s] = Session("room", victim)]
      PROVE  LimitStep
  <2>1. sess[victim].at = "ready" /\ victim # s
    BY <1>1, <1>5 DEF EvictionCandidate, Evictable, SessionAt
  <2>2. victim \in Counted
    BY <2>1, CountedSets DEF InUse
  <2>3. Counted' = (Counted \ {victim}) \cup {s}
    <3>1. /\ sess'[s] = Session("room", victim)
          /\ sess'[victim] = Session("closing", Gone)
          /\ \A t \in Sessions \ {s, victim} : sess'[t] = sess[t]
      BY <1>1, <1>5, <2>1
    <3> QED
      BY <1>3, <2>1, <3>1, CountedSets DEF InUse
  <2>4. /\ IsFiniteSet(Counted \ {victim})
        /\ Cardinality(Counted \ {victim}) = Cardinality(Counted) - 1
    BY <1>2, <2>2, FS_RemoveElement
  <2>5. Cardinality(Counted') = Cardinality(Counted \ {victim}) + 1
    BY <1>2, <2>3, <2>4, FS_AddElement
  <2> QED
    BY <1>2, <2>4, <2>5 DEF LimitStep
<1> QED
  BY <1>4, <1>5 DEF Reserve

LEMMA NextKeepsLimit == SInv /\ [Next]_vars => LimitStep
<1> SUFFICES ASSUME SInv, [Next]_vars PROVE LimitStep
  OBVIOUS
<1>1. ASSUME UNCHANGED sess PROVE LimitStep
  BY <1>1, NoneAddedKeeps DEF NoneAdded
<1>2. ASSUME NEW a \in Adapters, Handshake(a) PROVE LimitStep
  <2>1. CASE Admitted(a)
    BY <2>1, ReserveKeepsLimit DEF Admitted
  <2>2. CASE Refused(a) \/ OpeningFails(a) \/ OpeningTimesOut(a)
             \/ Initialized(a) \/ InitializedFails(a) \/ GiveUp(a)
    BY <1>1, <2>2 DEF Refused, OpeningFails, OpeningTimesOut, Initialized, InitializedFails,
                      GiveUp, tableVars
  <2> QED
    BY <1>2, <2>1, <2>2 DEF Handshake
<1>3. ASSUME NEW a \in Adapters, Untrack(a) PROVE LimitStep
  BY <1>3, UntrackTable, StagesStayAddNone, NoneAddedKeeps
<1>4. ASSUME NEW s \in Sessions, Forget(s) PROVE LimitStep
  <2>1. sess' = [sess EXCEPT ![s] = Session("closing", Gone)] /\ Session("closing", Gone).at = "closing"
    BY <1>4 DEF Forget, Session
  <2>2. NoneAdded
    BY <2>1, Typed DEF SInv, NoneAdded, InUse
  <2> QED
    BY <2>2, NoneAddedKeeps
<1>5. ASSUME NEW a \in Adapters, EndSession(a) \/ Kill(a) PROVE LimitStep
  <2>1. adapter[a].inner # Gone => adapter[a].inner \in Sessions
    BY AdapterFields DEF SInv, Refs
  <2> QED
    BY <1>3, <1>4, <1>5, <2>1 DEF EndSession, Kill
<1>6. ASSUME NEW c \in Calls, Send(c) \/ CallStep(c) PROVE LimitStep
  <2>3. CASE Forward(c)
    <3> DEFINE s == adapter[OwnerOf[c]].inner
    <3>1. sess' = [sess EXCEPT ![s].inFlight = @ + 1]
      BY <2>3 DEF Forward, TrackRequest
    <3>2. NoneAdded
      BY <3>1, Typed DEF SInv, SessionRecord, NoneAdded
    <3> QED
      BY <3>2, NoneAddedKeeps
  <2>4. CASE Answer(c) \/ RouteTimesOut(c)
    <3> DEFINE s == adapter[OwnerOf[c]].inner
    <3>1. sess' = [sess EXCEPT ![s].inFlight = @ - 1]
      BY <2>4 DEF Answer, RouteTimesOut, Ended
    <3>2. NoneAdded
      BY <3>1, Typed DEF SInv, SessionRecord, NoneAdded
    <3> QED
      BY <3>2, NoneAddedKeeps
  <2>5. CASE OnLost(c)
    BY <1>1, <1>3, <2>5, CallFields DEF OnLost, tableVars, SInv
  <2>6. CASE Send(c) \/ CallRefused(c)
    BY <1>1, <2>6 DEF Send, CallRefused, tableVars
  <2> QED
    BY <1>6, <2>3, <2>4, <2>5, <2>6 DEF CallStep
<1>7. ASSUME NEW s \in Sessions, TableStep(s) \/ Reap(s) PROVE LimitStep
  <2>1. CASE Started(s) \/ StartFails(s) \/ Closed(s)
    BY <2>1, StartedTable, ClosedTable, MovesAddNone, NoneAddedKeeps
  <2>2. CASE Identified(s)
    <3>1. NoneAdded
      BY <2>2, Typed DEF SInv, Identified, SessionRecord, NoneAdded, InUse
    <3> QED
      BY <3>1, NoneAddedKeeps
  <2>3. CASE Reap(s)
    BY <1>4, <2>3 DEF Reap
  <2> QED
    BY <1>7, <2>1, <2>2, <2>3 DEF TableStep
<1>8. CASE BrokerEnds
  <2>1. \A s \in Sessions : sess'[s].at = "free"
    BY <1>8 DEF BrokerEnds, CloseAll, Session
  <2>2. NoneAdded
    BY <2>1 DEF NoneAdded, InUse
  <2> QED
    BY <2>2, NoneAddedKeeps
<1>9. CASE LiveUpdate \/ BrokerStarts \/ UNCHANGED vars
  BY <1>1, <1>9 DEF LiveUpdate, BrokerStarts, Update, tableVars, vars
<1> QED
  BY <1>2, <1>5, <1>6, <1>7, <1>8, <1>9 DEF Next

----------------------------------------------------------------------------
LEMMA SInvAlways == Spec => [](SInv /\ RunsInv)
<1>1. SInv /\ RunsInv /\ [Next]_vars => (SInv /\ RunsInv)'
  <2>1. SInv => TypeOK
    BY DEF SInv
  <2> QED
    BY <2>1, NextSInv, RunsStep
<1> QED
  BY InitSInv, <1>1, PTL DEF Spec

(* Every session of a broker has an owner who can end it or was let go of   *)
(* where the code says so; a call that runs has its session, and the        *)
(* session's count of requests is right, so that eviction never takes a     *)
(* server from a call; and no call, opening or newcomer waits for something *)
(* that will not come.                                                      *)
THEOREM SessionsAreHeld == Spec => []AdapterInvariant
<1>1. SInv /\ RunsInv => AdapterInvariant
  BY SInvSuffices
<1> QED
  BY <1>1, SInvAlways, PTL

(* No session is added past the limit of the moment, in any interleaving of *)
(* openings, closings, evictions and updates.                               *)
THEOREM LimitIsKept == Spec => LimitHolds
<1>1. SInv /\ RunsInv /\ [Next]_vars =>
        [Cardinality(Counted') > Cardinality(Counted) => Cardinality(Counted') <= endpoint]_vars
  BY NextKeepsLimit DEF LimitStep
<1> QED
  BY <1>1, SInvAlways, PTL DEF Spec, LimitHolds

(* A server runs a call again only if the call was cut off while it ran,    *)
(* and no call runs more than twice, however often sessions, the broker or  *)
(* the route fail.                                                          *)
THEOREM ResentCallsWereCut == Spec => []ResentOnlyWhenCut
<1>1. SInv /\ RunsInv => ResentOnlyWhenCut
  BY CallFields DEF SInv, RunsInv, RunsRight, ResentOnlyWhenCut
<1> QED
  BY <1>1, SInvAlways, PTL

=============================================================================
