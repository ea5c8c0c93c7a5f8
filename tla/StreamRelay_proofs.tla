--------------------------- MODULE StreamRelay_proofs ---------------------------
(***************************************************************************)
(* For any number of chunks, calls, items and parts, whatever the upstream *)
(* says and wherever pings fall: each flow is one message stream, every    *)
(* fragment of content reaches the client once, and no ping cuts into it.  *)
(*                                                                         *)
(* What a translator writes is right only if the client is where the       *)
(* translator's state says.  So RelayInv follows the events that are still *)
(* to be written (Ways): from the client's place, with the fragments owed  *)
(* to it, they lead by legal steps to a place that the translator's state  *)
(* and the upstream stand for, and there no fragment is owed (Heads).      *)
(* ChatAt and RespAt say which places those are: the block that is open is *)
(* the last one begun, and its key, call or part knows it.  Beats says     *)
(* that the keep-alive knows how far the client is, on which it depends    *)
(* whether a ping may go out.                                              *)
(*                                                                         *)
(* A translator is then right if each of its functions leads from the      *)
(* place of the state it was given to the place of the one it returns,     *)
(* with as many fragments as it was told: one lemma for each.              *)
(***************************************************************************)
EXTENDS StreamRelay, SequenceTheorems, FiniteSetTheorems, TLAPS
-----------------------------------------------------------------------------
(* What a client knows, and how an event changes it.                       *)

\* The events of a stream, and the places a client can be in
Events ==
  {MessageStart, MessageDelta, MessageStop, ErrorEvent, PingEvent, [type |-> "none"]}
    \cup [type : {"content_block_start"}, index : Nat, kind : Kinds]
    \cup [type : {"content_block_delta"}, index : Nat, kind : Kinds, payload : Payloads]
    \cup [type : {"content_block_stop"}, index : Nat]

Opens == [index : Nat, kind : Kinds] \cup {NoBlock}

Clients ==
  [phase : Phases, blocks : Nat, open : Opens,
   blanks : Nat, last : Events, tick : BOOLEAN]

\* e is what a client at c may be told next.
Legal(c, e) ==
  \/ c.phase = "none" /\ e = MessageStart
  \/ c.phase = "started" /\ c.open = NoBlock /\ \E k \in Kinds : e = BlockStart(c.blocks, k)
  \/ /\ c.phase = "started" /\ c.open # NoBlock
     /\ \E p \in Payloads : e = BlockDelta(c.open.index, c.open.kind, p)
  \/ c.phase = "started" /\ c.open # NoBlock /\ e = BlockStop(c.open.index)
  \/ c.phase = "started" /\ c.open = NoBlock /\ e = MessageDelta
  \/ c.phase = "finishing" /\ e = MessageStop
  \/ e = ErrorEvent
  \/ c.phase \in {"started", "finishing"} /\ e = PingEvent

\* All of d but its phase, block and run of blanks is c after the event e.
Follows(d, c, e) == d \in Clients /\ d.last = e /\ d.tick = ~c.tick

LEMMA HearPhase ==
  ASSUME NEW c \in Clients, NEW e \in Events, NEW p \in Phases,
         \/ e.type = "message_start" /\ p = "started"
         \/ e.type = "message_delta" /\ p = "finishing"
         \/ e.type = "message_stop" /\ p = "stopped"
         \/ e.type = "error" /\ p = "failed"
         \/ e.type = "ping" /\ p = c.phase
  PROVE  /\ Follows(Hear(c, e), c, e)
         /\ Hear(c, e).phase = p
         /\ Hear(c, e).blocks = c.blocks /\ Hear(c, e).open = c.open
         /\ Hear(c, e).blanks = c.blanks
<1> DEFINE at == [c EXCEPT !.last = e, !.tick = ~@]
<1>1. Hear(c, e) = [at EXCEPT !.phase = p] \/ (Hear(c, e) = at /\ p = c.phase)
  <2>1. CASE e.type = "message_start"
    BY <2>1, Zenon DEF Hear
  <2>2. CASE e.type = "message_delta"
    BY <2>2, Zenon DEF Hear
  <2>3. CASE e.type = "message_stop"
    BY <2>3, Zenon DEF Hear
  <2>4. CASE e.type = "error"
    BY <2>4, Zenon DEF Hear
  <2>5. CASE e.type = "ping"
    BY <2>5, Zenon DEF Hear
  <2> QED
    BY <2>1, <2>2, <2>3, <2>4, <2>5
<1>2. at \in Clients /\ at.last = e /\ at.tick = ~c.tick /\ at.blocks = c.blocks
      /\ at.open = c.open /\ at.blanks = c.blanks /\ at.phase = c.phase
  BY DEF Clients
<1> QED
  BY <1>1, <1>2 DEF Follows, Clients

LEMMA HearBlockStart ==
  ASSUME NEW c \in Clients, NEW i \in Nat, NEW k \in Kinds
  PROVE  /\ BlockStart(i, k) \in Events
         /\ Follows(Hear(c, BlockStart(i, k)), c, BlockStart(i, k))
         /\ Hear(c, BlockStart(i, k)).phase = c.phase
         /\ Hear(c, BlockStart(i, k)).blocks = i + 1
         /\ Hear(c, BlockStart(i, k)).open = [index |-> i, kind |-> k]
         /\ Hear(c, BlockStart(i, k)).blanks = 0
<1> DEFINE e == BlockStart(i, k)
           at == [c EXCEPT !.last = e, !.tick = ~@]
<1>1. e \in Events /\ e.type = "content_block_start" /\ e.index = i /\ e.kind = k
  BY DEF Events, BlockStart
<1>2. Hear(c, e) = [at EXCEPT !.open = [index |-> e.index, kind |-> e.kind],
                              !.blocks = e.index + 1, !.blanks = 0]
  <2> HIDE DEF e
  <2> QED
    BY <1>1, Zenon DEF Hear
<1>3. at \in Clients /\ at.last = e /\ at.tick = ~c.tick /\ at.phase = c.phase
  BY <1>1 DEF Clients
<1>4. Hear(c, e) = [at EXCEPT !.open = [index |-> i, kind |-> k], !.blocks = i + 1, !.blanks = 0]
  BY <1>1, <1>2
<1> DEFINE o == [index |-> i, kind |-> k]
           n == i + 1
<1>5. o \in Opens /\ n \in Nat
  BY DEF Opens
<1> HIDE DEF e, at, o, n
<1>6. Hear(c, e) = [at EXCEPT !.open = o, !.blocks = n, !.blanks = 0]
  BY <1>4 DEF o, n
<1>7. Hear(c, e) = [phase |-> at.phase, blocks |-> n, open |-> o, blanks |-> 0,
                    last |-> at.last, tick |-> at.tick]
  BY <1>3, <1>6 DEF Clients
<1>8. Hear(c, e) \in Clients
  BY <1>3, <1>5, <1>7 DEF Clients
<1>9. /\ Hear(c, e).last = e /\ Hear(c, e).tick = ~c.tick /\ Hear(c, e).phase = c.phase
      /\ Hear(c, e).blocks = n /\ Hear(c, e).open = o /\ Hear(c, e).blanks = 0
  BY <1>3, <1>6 DEF Clients
<1> QED
  BY <1>1, <1>8, <1>9 DEF Follows, e, o, n

LEMMA HearBlockDelta ==
  ASSUME NEW c \in Clients, NEW i \in Nat, NEW k \in Kinds, NEW p \in Payloads
  PROVE  /\ BlockDelta(i, k, p) \in Events
         /\ Follows(Hear(c, BlockDelta(i, k, p)), c, BlockDelta(i, k, p))
         /\ Hear(c, BlockDelta(i, k, p)).phase = c.phase
         /\ Hear(c, BlockDelta(i, k, p)).blocks = c.blocks
         /\ Hear(c, BlockDelta(i, k, p)).open = c.open
         /\ Hear(c, BlockDelta(i, k, p)).blanks = IF p = "blank" THEN c.blanks + 1 ELSE 0
<1> DEFINE e == BlockDelta(i, k, p)
           at == [c EXCEPT !.last = e, !.tick = ~@]
<1>1. e \in Events /\ e.type = "content_block_delta" /\ e.payload = p
  BY DEF Events, BlockDelta
<1>2. Hear(c, e) = [at EXCEPT !.blanks = IF e.payload = "blank" THEN @ + 1 ELSE 0]
  <2> HIDE DEF e
  <2> QED
    BY <1>1, Zenon DEF Hear
<1>3. at \in Clients /\ at.last = e /\ at.tick = ~c.tick /\ at.blocks = c.blocks
      /\ at.open = c.open /\ at.blanks = c.blanks /\ at.phase = c.phase
  BY <1>1 DEF Clients
<1>4. Hear(c, e) = [at EXCEPT !.blanks = IF p = "blank" THEN @ + 1 ELSE 0]
  BY <1>1, <1>2
<1> HIDE DEF e, at
<1>5. /\ Follows(Hear(c, e), c, e) /\ Hear(c, e).phase = c.phase
      /\ Hear(c, e).blocks = c.blocks /\ Hear(c, e).open = c.open
      /\ Hear(c, e).blanks = IF p = "blank" THEN c.blanks + 1 ELSE 0
  BY <1>3, <1>4 DEF Follows, Clients
<1> QED
  BY <1>1, <1>5 DEF e

LEMMA HearBlockStop ==
  ASSUME NEW c \in Clients, NEW i \in Nat
  PROVE  /\ BlockStop(i) \in Events
         /\ Follows(Hear(c, BlockStop(i)), c, BlockStop(i))
         /\ Hear(c, BlockStop(i)).phase = c.phase
         /\ Hear(c, BlockStop(i)).blocks = c.blocks
         /\ Hear(c, BlockStop(i)).open = NoBlock
         /\ Hear(c, BlockStop(i)).blanks = c.blanks
<1> DEFINE e == BlockStop(i)
           at == [c EXCEPT !.last = e, !.tick = ~@]
<1>1. e \in Events /\ e.type = "content_block_stop"
  BY DEF Events, BlockStop
<1>2. Hear(c, e) = [at EXCEPT !.open = NoBlock]
  <2> HIDE DEF e
  <2> QED
    BY <1>1, Zenon DEF Hear
<1>3. at \in Clients /\ at.last = e /\ at.tick = ~c.tick /\ at.blocks = c.blocks
      /\ at.open = c.open /\ at.blanks = c.blanks /\ at.phase = c.phase
  BY <1>1 DEF Clients
<1> QED
  BY <1>1, <1>2, <1>3 DEF Follows, Clients, Opens

\* The plain events, one by one
LEMMA HearPlain ==
  ASSUME NEW c \in Clients
  PROVE  /\ {MessageStart, MessageDelta, MessageStop, ErrorEvent, PingEvent} \subseteq Events
         /\ \A e \in {MessageStart, MessageDelta, MessageStop, ErrorEvent, PingEvent} :
              /\ Follows(Hear(c, e), c, e)
              /\ Hear(c, e).blocks = c.blocks /\ Hear(c, e).open = c.open
              /\ Hear(c, e).blanks = c.blanks
         /\ Hear(c, MessageStart).phase = "started"
         /\ Hear(c, MessageDelta).phase = "finishing"
         /\ Hear(c, MessageStop).phase = "stopped"
         /\ Hear(c, ErrorEvent).phase = "failed"
         /\ Hear(c, PingEvent).phase = c.phase
<1>1. /\ {MessageStart, MessageDelta, MessageStop, ErrorEvent, PingEvent} \subseteq Events
      /\ MessageStart.type = "message_start" /\ MessageDelta.type = "message_delta"
      /\ MessageStop.type = "message_stop" /\ ErrorEvent.type = "error"
      /\ PingEvent.type = "ping"
  BY DEF Events, MessageStart, MessageDelta, MessageStop, ErrorEvent, PingEvent
<1>2. {"started", "finishing", "stopped", "failed", c.phase} \subseteq Phases
  BY DEF Phases, Clients
<1> QED
  BY <1>1, <1>2, HearPhase

LEMMA NewClientIsOne == NewClient \in Clients
  BY DEF NewClient, Clients, Phases, Events, Opens

-----------------------------------------------------------------------------
(* A place in the stream, with the fragments of content still to come, and *)
(* the sequences of events that lead from one place to another.            *)

Places ==
  [phase : Phases, blocks : Nat, open : Opens, blanks : 0 .. MaxWhitespace, owed : Int]

At(c, n) ==
  [phase |-> c.phase, blocks |-> c.blocks, open |-> c.open, blanks |-> c.blanks, owed |-> n]

\* Hear, as far as places go
After(p, e) ==
  [phase  |-> IF e.type = "message_start" THEN "started"
              ELSE IF e.type = "message_delta" THEN "finishing"
              ELSE IF e.type = "message_stop" THEN "stopped"
              ELSE IF e.type = "error" THEN "failed" ELSE p.phase,
   blocks |-> IF e.type = "content_block_start" THEN e.index + 1 ELSE p.blocks,
   open   |-> IF e.type = "content_block_start" THEN [index |-> e.index, kind |-> e.kind]
              ELSE IF e.type = "content_block_stop" THEN NoBlock ELSE p.open,
   blanks |-> IF e.type = "content_block_start" THEN 0
              ELSE IF e.type = "content_block_delta"
                THEN IF e.payload = "blank" THEN p.blanks + 1 ELSE 0
              ELSE p.blanks,
   owed   |-> p.owed - Carries(e)]

\* e may come at p: as Legal says, but for a ping, that may also come too early.
Fits(p, e) ==
  \/ e # PingEvent /\ Legal(p, e)
  \/ e = PingEvent /\ p.phase \in {"none", "started"}

Step(p, e, q) == e \in Events /\ Fits(p, e) /\ q = After(p, e)

Trail(t, es) == \A i \in 1 .. Len(es) : Step(t[i], es[i], t[i + 1])

\* The events es, each where it may come, lead from p to q.
Leads(p, es, q) ==
  \E t \in [1 .. Len(es) + 1 -> Places] :
    t[1] = p /\ t[Len(es) + 1] = q /\ Trail(t, es)

LEMMA LeadsNowhere ==
  ASSUME NEW p \in Places
  PROVE  Leads(p, <<>>, p)
<1> DEFINE t == [i \in 1 .. 1 |-> p]
<1>1. t \in [1 .. Len(<<>>) + 1 -> Places] /\ t[1] = p /\ t[Len(<<>>) + 1] = p
  OBVIOUS
<1>2. Trail(t, <<>>)
  BY DEF Trail
<1> HIDE DEF t
<1> QED
  BY <1>1, <1>2 DEF Leads

LEMMA LeadsStep ==
  ASSUME NEW p \in Places, NEW e, NEW q \in Places, Step(p, e, q)
  PROVE  Leads(p, <<e>>, q)
<1> DEFINE t == [i \in 1 .. 2 |-> IF i = 1 THEN p ELSE q]
<1>1. /\ Len(<<e>>) = 1 /\ <<e>>[1] = e /\ t[1] = p /\ t[2] = q /\ t \in [1 .. 2 -> Places]
  OBVIOUS
<1> HIDE DEF t
<1>2. Trail(t, <<e>>)
  <2> SUFFICES ASSUME NEW i \in 1 .. Len(<<e>>)
               PROVE  Step(t[i], <<e>>[i], t[i + 1])
    BY DEF Trail
  <2>1. i = 1 /\ i + 1 = 2
    BY <1>1
  <2> QED
    BY <1>1, <2>1
<1> QED
  BY <1>1, <1>2 DEF Leads

LEMMA LeadsPlaces ==
  ASSUME NEW p, NEW es \in Seq(Events), NEW q, Leads(p, es, q)
  PROVE  p \in Places /\ q \in Places
<1> PICK t \in [1 .. Len(es) + 1 -> Places] : t[1] = p /\ t[Len(es) + 1] = q
  BY DEF Leads
<1>1. 1 \in 1 .. Len(es) + 1 /\ Len(es) + 1 \in 1 .. Len(es) + 1
  OBVIOUS
<1> QED
  BY <1>1

\* One way after the other
LEMMA LeadsOn ==
  ASSUME NEW p, NEW es \in Seq(Events), NEW q, NEW fs \in Seq(Events), NEW r,
         Leads(p, es, q), Leads(q, fs, r)
  PROVE  Leads(p, es \o fs, r)
<1> PICK t \in [1 .. Len(es) + 1 -> Places] : t[1] = p /\ t[Len(es) + 1] = q /\ Trail(t, es)
  BY DEF Leads
<1> PICK u \in [1 .. Len(fs) + 1 -> Places] : u[1] = q /\ u[Len(fs) + 1] = r /\ Trail(u, fs)
  BY DEF Leads
<1> DEFINE n == Len(es)
           m == Len(fs)
           v == [i \in 1 .. n + m + 1 |-> IF i <= n THEN t[i] ELSE u[i - n]]
<1>1. n \in Nat /\ m \in Nat /\ Len(es \o fs) = n + m
  OBVIOUS
<1>2. \A i \in 1 .. n + m : (es \o fs)[i] = IF i <= n THEN es[i] ELSE fs[i - n]
  OBVIOUS
<1> HIDE DEF n, m
<1>3. v \in [1 .. n + m + 1 -> Places]
  <2> SUFFICES ASSUME NEW i \in 1 .. n + m + 1
               PROVE  (IF i <= n THEN t[i] ELSE u[i - n]) \in Places
    OBVIOUS
  <2>1. CASE i <= n
    BY <1>1, <2>1 DEF n
  <2>2. CASE ~(i <= n)
    <3>1. i - n \in 1 .. m + 1
      BY <1>1, <2>2
    <3> QED
      BY <2>2, <3>1 DEF m
  <2> QED
    BY <2>1, <2>2
<1>4. v[1] = p
  <2>1. CASE n = 0
    BY <1>1, <2>1 DEF n
  <2>2. CASE n # 0
    BY <1>1, <2>2
  <2> QED
    BY <2>1, <2>2
<1>5. v[n + m + 1] = r
  <2>1. n + m + 1 \in 1 .. n + m + 1 /\ ~(n + m + 1 <= n) /\ (n + m + 1) - n = m + 1
    BY <1>1
  <2> QED
    BY <2>1 DEF m
<1>6. Trail(v, es \o fs)
  <2> SUFFICES ASSUME NEW i \in 1 .. n + m
               PROVE  Step(v[i], (es \o fs)[i], v[i + 1])
    BY <1>1 DEF Trail
  <2>1. CASE i < n
    <3>1. i \in 1 .. n /\ i + 1 <= n /\ i <= n /\ i \in 1 .. n + m + 1 /\ i + 1 \in 1 .. n + m + 1
      BY <1>1, <2>1
    <3>2. v[i] = t[i] /\ v[i + 1] = t[i + 1] /\ (es \o fs)[i] = es[i]
      BY <1>2, <3>1
    <3> QED
      BY <3>1, <3>2 DEF Trail, n
  <2>2. CASE i = n
    <3>1. i \in 1 .. n /\ i <= n /\ ~(i + 1 <= n) /\ (i + 1) - n = 1
          /\ i \in 1 .. n + m + 1 /\ i + 1 \in 1 .. n + m + 1
      BY <1>1, <2>2
    <3>2. v[i] = t[i] /\ v[i + 1] = u[1] /\ (es \o fs)[i] = es[i]
      BY <1>2, <3>1
    <3>3. u[1] = t[i + 1]
      BY <2>2 DEF n
    <3> QED
      BY <3>1, <3>2, <3>3 DEF Trail, n
  <2>3. CASE i > n
    <3>1. /\ i - n \in 1 .. m /\ ~(i <= n) /\ ~(i + 1 <= n) /\ (i + 1) - n = (i - n) + 1
          /\ i \in 1 .. n + m + 1 /\ i + 1 \in 1 .. n + m + 1
      BY <1>1, <2>3
    <3>2. v[i] = u[i - n] /\ v[i + 1] = u[(i - n) + 1] /\ (es \o fs)[i] = fs[i - n]
      BY <1>2, <3>1
    <3> QED
      BY <3>1, <3>2 DEF Trail, m
  <2> QED
    BY <1>1, <2>1, <2>2, <2>3
<1> HIDE DEF v
<1> QED
  BY <1>1, <1>3, <1>4, <1>5, <1>6 DEF Leads

\* The first of the events may come, and the others lead on from where it leads.
LEMMA LeadsFrom ==
  ASSUME NEW p, NEW es \in Seq(Events), NEW q, Leads(p, es, q), es # <<>>
  PROVE  /\ Fits(p, Head(es)) /\ Head(es) \in Events
         /\ After(p, Head(es)) \in Places
         /\ Leads(After(p, Head(es)), Tail(es), q)
<1> PICK t \in [1 .. Len(es) + 1 -> Places] : t[1] = p /\ t[Len(es) + 1] = q /\ Trail(t, es)
  BY DEF Leads
<1> DEFINE n == Len(es)
           u == [i \in 1 .. n |-> t[i + 1]]
<1>1. n \in Nat /\ n > 0 /\ Head(es) = es[1] /\ Len(Tail(es)) = n - 1
  OBVIOUS
<1>2. \A i \in 1 .. n - 1 : Tail(es)[i] = es[i + 1]
  OBVIOUS
<1>3. Step(p, Head(es), t[2])
  <2>1. 1 \in 1 .. Len(es) /\ 1 + 1 = 2
    BY <1>1
  <2> QED
    BY <1>1, <2>1 DEF Trail
<1>4. t[2] \in Places
  <2>1. 2 \in 1 .. Len(es) + 1
    BY <1>1
  <2> QED
    BY <2>1
<1> HIDE DEF n
<1>5. u \in [1 .. n -> Places]
  <2>1. \A i \in 1 .. n : i + 1 \in 1 .. Len(es) + 1
    BY <1>1 DEF n
  <2> QED
    BY <2>1
<1>6. u[1] = t[2] /\ u[n] = q
  <2>1. 1 \in 1 .. n /\ n \in 1 .. n /\ 1 + 1 = 2
    BY <1>1
  <2> QED
    BY <2>1 DEF n
<1>7. Trail(u, Tail(es))
  <2> SUFFICES ASSUME NEW i \in 1 .. n - 1
               PROVE  Step(u[i], Tail(es)[i], u[i + 1])
    BY <1>1 DEF Trail
  <2>1. i \in 1 .. n /\ i + 1 \in 1 .. n
    BY <1>1
  <2>2. Step(t[i + 1], es[i + 1], t[(i + 1) + 1])
    BY <2>1 DEF Trail, n
  <2>3. u[i] = t[i + 1] /\ u[i + 1] = t[(i + 1) + 1] /\ Tail(es)[i] = es[i + 1]
    BY <1>2, <2>1
  <2> QED
    BY <2>2, <2>3
<1> HIDE DEF u
<1>8. Len(Tail(es)) + 1 = n
  BY <1>1
<1>9. Leads(t[2], Tail(es), q)
  BY <1>5, <1>6, <1>7, <1>8 DEF Leads
<1> QED
  BY <1>3, <1>4, <1>9 DEF Step

-----------------------------------------------------------------------------
(* Where each event leads.                                                 *)

LEMMA AfterIsHear ==
  ASSUME NEW c \in Clients, NEW e \in Events, NEW n \in Int
  PROVE  At(Hear(c, e), n - Carries(e)) = After(At(c, n), e)
<1> DEFINE d == Hear(c, e)
<1>1. CASE e.type \in {"message_start", "message_delta", "message_stop", "error", "ping"}
  <2>1. \E x \in Phases :
          /\ \/ e.type = "message_start" /\ x = "started"
             \/ e.type = "message_delta" /\ x = "finishing"
             \/ e.type = "message_stop" /\ x = "stopped"
             \/ e.type = "error" /\ x = "failed"
             \/ e.type = "ping" /\ x = c.phase
          /\ d.phase = x /\ d.blocks = c.blocks /\ d.open = c.open /\ d.blanks = c.blanks
    <3>1. {"started", "finishing", "stopped", "failed", c.phase} \subseteq Phases
      BY DEF Phases, Clients
    <3> DEFINE x == IF e.type = "message_start" THEN "started"
                    ELSE IF e.type = "message_delta" THEN "finishing"
                    ELSE IF e.type = "message_stop" THEN "stopped"
                    ELSE IF e.type = "error" THEN "failed" ELSE c.phase
    <3>2. x \in Phases /\ \/ e.type = "message_start" /\ x = "started"
                          \/ e.type = "message_delta" /\ x = "finishing"
                          \/ e.type = "message_stop" /\ x = "stopped"
                          \/ e.type = "error" /\ x = "failed"
                          \/ e.type = "ping" /\ x = c.phase
      BY <1>1, <3>1
    <3> HIDE DEF x
    <3> QED
      BY <3>2, HearPhase
  <2> HIDE DEF d
  <2> QED
    BY <1>1, <2>1 DEF At, After, d
<1>2. CASE e \in [type : {"content_block_start"}, index : Nat, kind : Kinds]
  <2>1. e = BlockStart(e.index, e.kind) /\ e.index \in Nat /\ e.kind \in Kinds
        /\ e.type = "content_block_start"
    BY <1>2 DEF BlockStart
  <2>2. /\ d.phase = c.phase /\ d.blocks = e.index + 1 /\ d.blanks = 0
        /\ d.open = [index |-> e.index, kind |-> e.kind]
    <3> PICK i \in Nat, k \in Kinds : i = e.index /\ k = e.kind
      BY <2>1
    <3> QED
      BY <2>1, HearBlockStart
  <2> HIDE DEF d
  <2> QED
    BY <2>1, <2>2 DEF At, After, d
<1>3. CASE e \in [type : {"content_block_delta"}, index : Nat, kind : Kinds, payload : Payloads]
  <2>1. /\ e = BlockDelta(e.index, e.kind, e.payload) /\ e.index \in Nat /\ e.kind \in Kinds
        /\ e.payload \in Payloads /\ e.type = "content_block_delta"
    BY <1>3 DEF BlockDelta
  <2>2. /\ d.phase = c.phase /\ d.blocks = c.blocks /\ d.open = c.open
        /\ d.blanks = IF e.payload = "blank" THEN c.blanks + 1 ELSE 0
    <3> PICK i \in Nat, k \in Kinds, x \in Payloads : i = e.index /\ k = e.kind /\ x = e.payload
      BY <2>1
    <3> QED
      BY <2>1, HearBlockDelta
  <2> HIDE DEF d
  <2> QED
    BY <2>1, <2>2 DEF At, After, d
<1>4. CASE e \in [type : {"content_block_stop"}, index : Nat]
  <2>1. e = BlockStop(e.index) /\ e.index \in Nat /\ e.type = "content_block_stop"
    BY <1>4 DEF BlockStop
  <2>2. /\ d.phase = c.phase /\ d.blocks = c.blocks /\ d.open = NoBlock /\ d.blanks = c.blanks
    <3> PICK i \in Nat : i = e.index
      BY <2>1
    <3> QED
      BY <2>1, HearBlockStop
  <2> HIDE DEF d
  <2> QED
    BY <2>1, <2>2 DEF At, After, d
<1>5. CASE e = [type |-> "none"]
  <2>1. e.type = "none"
    BY <1>5
  <2>2. d = [c EXCEPT !.last = e, !.tick = ~@]
    <3> HIDE <1>5
    <3> QED
      BY <2>1, Zenon DEF Hear
  <2>3. /\ d.phase = c.phase /\ d.blocks = c.blocks /\ d.open = c.open /\ d.blanks = c.blanks
    BY <2>2 DEF Clients
  <2> HIDE DEF d
  <2> QED
    BY <2>1, <2>3 DEF At, After, d
<1> QED
  BY <1>1, <1>2, <1>3, <1>4, <1>5
     DEF Events, MessageStart, MessageDelta, MessageStop, ErrorEvent, PingEvent

LEMMA AtPlace ==
  ASSUME NEW c \in Clients, NEW n \in Int, c.blanks <= MaxWhitespace
  PROVE  At(c, n) \in Places
  BY SizesAssumption DEF At, Places, Clients

LEMMA StepPlain ==
  ASSUME NEW p \in Places,
         NEW e \in {MessageStart, MessageDelta, MessageStop, ErrorEvent, PingEvent}, Fits(p, e)
  PROVE  /\ Step(p, e, After(p, e)) /\ After(p, e) \in Places
         /\ After(p, e).blocks = p.blocks /\ After(p, e).open = p.open
         /\ After(p, e).blanks = p.blanks /\ After(p, e).owed = p.owed
         /\ e = MessageStart => After(p, e).phase = "started"
         /\ e = MessageDelta => After(p, e).phase = "finishing"
         /\ e = MessageStop => After(p, e).phase = "stopped"
         /\ e = ErrorEvent => After(p, e).phase = "failed"
         /\ e = PingEvent => After(p, e).phase = p.phase
<1>1. e \in Events
  BY DEF Events
<1>2. Carries(e) = 0 /\ e.type \notin {"content_block_start", "content_block_delta", "content_block_stop"}
  BY DEF Carries, MessageStart, MessageDelta, MessageStop, ErrorEvent, PingEvent
<1>3. /\ After(p, e).blocks = p.blocks /\ After(p, e).open = p.open
      /\ After(p, e).blanks = p.blanks /\ After(p, e).owed = p.owed - 0
  BY <1>2 DEF After
<1>4. /\ e = MessageStart => After(p, e).phase = "started"
      /\ e = MessageDelta => After(p, e).phase = "finishing"
      /\ e = MessageStop => After(p, e).phase = "stopped"
      /\ e = ErrorEvent => After(p, e).phase = "failed"
      /\ e = PingEvent => After(p, e).phase = p.phase
  BY DEF After, MessageStart, MessageDelta, MessageStop, ErrorEvent, PingEvent
<1>5. After(p, e).owed = p.owed /\ After(p, e).phase \in Phases
  BY <1>3, <1>4 DEF Places, Phases
<1>6. After(p, e) \in Places
  BY <1>3, <1>5 DEF Places, After
<1> QED
  BY <1>1, <1>3, <1>4, <1>5, <1>6 DEF Step

LEMMA StepBlockStart ==
  ASSUME NEW p \in Places, NEW k \in Kinds, p.phase = "started", p.open = NoBlock
  PROVE  LET e == BlockStart(p.blocks, k)
             q == After(p, e)
         IN  /\ Step(p, e, q) /\ q \in Places
             /\ q.phase = "started" /\ q.blocks = p.blocks + 1
             /\ q.open = [index |-> p.blocks, kind |-> k]
             /\ q.blanks = 0 /\ q.owed = p.owed
<1> DEFINE e == BlockStart(p.blocks, k)
           q == After(p, e)
           o == [index |-> p.blocks, kind |-> k]
<1>1. p.blocks \in Nat /\ p.owed \in Int /\ 0 \in 0 .. MaxWhitespace
  BY SizesAssumption DEF Places
<1>2. /\ e \in Events /\ e # PingEvent /\ e.type = "content_block_start" /\ e.index = p.blocks
      /\ e.kind = k /\ Carries(e) = 0
  BY <1>1 DEF Events, BlockStart, PingEvent, Carries
<1>3. Fits(p, e)
  BY <1>2 DEF Fits, Legal
<1>4. o \in Opens
  BY <1>1 DEF Opens
<1> HIDE DEF e
<1>5. q = [phase |-> p.phase, blocks |-> p.blocks + 1, open |-> o, blanks |-> 0, owed |-> p.owed - 0]
  BY <1>2 DEF After
<1> HIDE DEF q, o
<1>6. q.owed = p.owed /\ q.blocks \in Nat
  BY <1>1, <1>5
<1>7. q \in Places
  BY <1>1, <1>4, <1>5 DEF Places
<1> QED
  BY <1>2, <1>3, <1>5, <1>6, <1>7 DEF Step, e, q, o

LEMMA StepBlockDelta ==
  ASSUME NEW p \in Places, NEW i \in Nat, NEW k \in Kinds, NEW x \in Payloads,
         p.phase = "started", p.open = [index |-> i, kind |-> k], p.open # NoBlock,
         x = "blank" => p.blanks < MaxWhitespace
  PROVE  LET e == BlockDelta(i, k, x)
             q == After(p, e)
         IN  /\ Step(p, e, q) /\ q \in Places
             /\ q.phase = "started" /\ q.blocks = p.blocks /\ q.open = p.open
             /\ q.blanks = IF x = "blank" THEN p.blanks + 1 ELSE 0
             /\ q.owed = p.owed - IF x \in Content THEN 1 ELSE 0
<1> DEFINE e == BlockDelta(i, k, x)
           q == After(p, e)
           run == IF x = "blank" THEN p.blanks + 1 ELSE 0
           left == p.owed - IF x \in Content THEN 1 ELSE 0
<1>1. p.owed \in Int /\ run \in 0 .. MaxWhitespace /\ left \in Int
  BY SizesAssumption DEF Places
<1>2. /\ e \in Events /\ e # PingEvent /\ e.type = "content_block_delta" /\ e.payload = x
      /\ Carries(e) = IF x \in Content THEN 1 ELSE 0
  BY DEF Events, BlockDelta, PingEvent, Carries
<1>3. Fits(p, e)
  BY <1>2 DEF Fits, Legal
<1> HIDE DEF e
<1>4. q = [phase |-> p.phase, blocks |-> p.blocks, open |-> p.open, blanks |-> run, owed |-> left]
  BY <1>2 DEF After
<1> HIDE DEF q, run, left
<1>5. q \in Places
  BY <1>1, <1>4 DEF Places
<1> QED
  BY <1>2, <1>3, <1>4, <1>5 DEF Step, e, q, run, left

LEMMA StepBlockStop ==
  ASSUME NEW p \in Places, p.phase = "started", p.open # NoBlock
  PROVE  LET e == BlockStop(p.open.index)
             q == After(p, e)
         IN  /\ Step(p, e, q) /\ q \in Places
             /\ q.phase = "started" /\ q.blocks = p.blocks /\ q.open = NoBlock
             /\ q.blanks = p.blanks /\ q.owed = p.owed
<1> DEFINE e == BlockStop(p.open.index)
           q == After(p, e)
<1>1. p.open.index \in Nat /\ p.owed \in Int /\ NoBlock \in Opens
  BY DEF Places, Opens
<1>2. e \in Events /\ e # PingEvent /\ e.type = "content_block_stop" /\ Carries(e) = 0
  BY <1>1 DEF Events, BlockStop, PingEvent, Carries
<1>3. Fits(p, e)
  BY <1>2 DEF Fits, Legal
<1> HIDE DEF e
<1>4. q = [phase |-> p.phase, blocks |-> p.blocks, open |-> NoBlock, blanks |-> p.blanks,
           owed |-> p.owed - 0]
  BY <1>2 DEF After
<1> HIDE DEF q
<1>5. q.owed = p.owed
  BY <1>1, <1>4
<1>6. q \in Places
  BY <1>1, <1>4 DEF Places
<1> QED
  BY <1>2, <1>3, <1>4, <1>5, <1>6 DEF Step, e, q

-----------------------------------------------------------------------------
(* Pushing events.                                                         *)

LEMMA PairIsConcat ==
  ASSUME NEW a, NEW b
  PROVE  <<a, b>> = <<a>> \o <<b>>
<1>1. <<a, b>> \in Seq({a, b}) /\ <<a>> \o <<b>> \in Seq({a, b})
  OBVIOUS
<1>2. /\ Len(<<a, b>>) = 2 /\ <<a, b>>[1] = a /\ <<a, b>>[2] = b
      /\ Len(<<a>> \o <<b>>) = 2 /\ (<<a>> \o <<b>>)[1] = a /\ (<<a>> \o <<b>>)[2] = b
  OBVIOUS
<1>3. \A i \in 1 .. 2 : <<a, b>>[i] = (<<a>> \o <<b>>)[i]
  <2> SUFFICES ASSUME NEW i \in 1 .. 2
               PROVE  <<a, b>>[i] = (<<a>> \o <<b>>)[i]
    OBVIOUS
  <2>1. i = 1 \/ i = 2
    OBVIOUS
  <2> QED
    BY <1>2, <2>1, Zenon
<1> QED
  BY <1>1, <1>2, <1>3, SeqEqual

LEMMA PushOne ==
  ASSUME NEW p, NEW es \in Seq(Events), NEW q, Leads(p, es, q),
         NEW e, NEW r \in Places, Step(q, e, r)
  PROVE  Leads(p, es \o <<e>>, r) /\ es \o <<e>> \in Seq(Events)
<1>1. q \in Places
  BY LeadsPlaces
<1>2. <<e>> \in Seq(Events)
  BY DEF Step
<1>3. es \o <<e>> \in Seq(Events)
  BY <1>2
<1>4. Leads(q, <<e>>, r)
  BY <1>1, LeadsStep
<1> QED
  BY <1>2, <1>3, <1>4, LeadsOn

-----------------------------------------------------------------------------
(* Pushing events, one kind at a time.                                     *)

Place(phase, blocks, open, blanks, n) ==
  [phase |-> phase, blocks |-> blocks, open |-> open, blanks |-> blanks, owed |-> n]

Block(i, k) == [index |-> i, kind |-> k]

LEMMA BlockIsOpen ==
  ASSUME NEW i, NEW k \in Kinds
  PROVE  Block(i, k) # NoBlock /\ Block(i, k).index = i
  BY DEF Block, NoBlock, Kinds

LEMMA SayPlain ==
  ASSUME NEW p, NEW es \in Seq(Events), NEW ph, NEW b, NEW o, NEW w, NEW n,
         Leads(p, es, Place(ph, b, o, w, n)),
         NEW e \in {MessageStart, MessageDelta, MessageStop, ErrorEvent}, NEW r,
         \/ e = MessageStart /\ ph = "none" /\ r = "started"
         \/ e = MessageDelta /\ ph = "started" /\ o = NoBlock /\ r = "finishing"
         \/ e = MessageStop /\ ph = "finishing" /\ r = "stopped"
         \/ e = ErrorEvent /\ r = "failed"
  PROVE  es \o <<e>> \in Seq(Events) /\ Leads(p, es \o <<e>>, Place(r, b, o, w, n))
<1> DEFINE q == Place(ph, b, o, w, n)
           t == After(q, e)
<1>1. q \in Places
  BY LeadsPlaces
<1>2. q.phase = ph /\ q.blocks = b /\ q.open = o /\ q.blanks = w /\ q.owed = n
  BY DEF Place
<1>3. e # PingEvent
  BY DEF MessageStart, MessageDelta, MessageStop, ErrorEvent, PingEvent
<1> HIDE DEF q
<1>4. Fits(q, e)
  BY <1>2, <1>3 DEF Fits, Legal
<1>5. MessageStart # MessageDelta /\ MessageStart # MessageStop /\ MessageStart # ErrorEvent
      /\ MessageDelta # MessageStop /\ MessageDelta # ErrorEvent /\ MessageStop # ErrorEvent
  BY DEF MessageStart, MessageDelta, MessageStop, ErrorEvent
<1>6. /\ Step(q, e, t) /\ t \in Places /\ t.phase = r
      /\ t.blocks = b /\ t.open = o /\ t.blanks = w /\ t.owed = n
  BY <1>1, <1>2, <1>4, <1>5, StepPlain
<1> HIDE DEF t
<1>7. t = Place(r, b, o, w, n)
  BY <1>6 DEF Places, Place
<1>8. Leads(p, es \o <<e>>, t) /\ es \o <<e>> \in Seq(Events)
  BY <1>6, PushOne DEF q
<1> QED
  BY <1>7, <1>8

LEMMA SayStart ==
  ASSUME NEW p, NEW es \in Seq(Events), NEW b, NEW w, NEW n,
         Leads(p, es, Place("started", b, NoBlock, w, n)), NEW k \in Kinds
  PROVE  /\ es \o <<BlockStart(b, k)>> \in Seq(Events)
         /\ Leads(p, es \o <<BlockStart(b, k)>>, Place("started", b + 1, Block(b, k), 0, n))
<1> DEFINE q == Place("started", b, NoBlock, w, n)
           e == BlockStart(b, k)
           t == After(q, e)
<1>1. q \in Places
  BY LeadsPlaces
<1>2. q.phase = "started" /\ q.blocks = b /\ q.open = NoBlock /\ q.blanks = w /\ q.owed = n
  BY DEF Place
<1> HIDE DEF q
<1>3. /\ Step(q, e, t) /\ t \in Places
      /\ t.phase = "started" /\ t.blocks = b + 1 /\ t.open = Block(b, k) /\ t.blanks = 0
      /\ t.owed = n
  BY <1>1, <1>2, StepBlockStart DEF Block
<1> HIDE DEF t, e
<1>4. t = Place("started", b + 1, Block(b, k), 0, n)
  BY <1>3 DEF Places, Place
<1>5. Leads(p, es \o <<e>>, t) /\ es \o <<e>> \in Seq(Events)
  BY <1>3, PushOne DEF q
<1> QED
  BY <1>4, <1>5 DEF e

LEMMA SayDelta ==
  ASSUME NEW p, NEW es \in Seq(Events), NEW b, NEW i \in Nat, NEW w, NEW n,
         NEW k \in Kinds, NEW x \in Payloads,
         Leads(p, es, Place("started", b, Block(i, k), w, n)),
         x = "blank" => w < MaxWhitespace
  PROVE  /\ es \o <<BlockDelta(i, k, x)>> \in Seq(Events)
         /\ Leads(p, es \o <<BlockDelta(i, k, x)>>,
                  Place("started", b, Block(i, k), IF x = "blank" THEN w + 1 ELSE 0,
                        n - IF x \in Content THEN 1 ELSE 0))
<1> DEFINE q == Place("started", b, Block(i, k), w, n)
           e == BlockDelta(i, k, x)
           t == After(q, e)
           run == IF x = "blank" THEN w + 1 ELSE 0
           left == n - IF x \in Content THEN 1 ELSE 0
<1>1. q \in Places
  BY LeadsPlaces
<1>2. q.phase = "started" /\ q.blocks = b /\ q.open = Block(i, k) /\ q.blanks = w /\ q.owed = n
  BY DEF Place
<1>3. Block(i, k) = [index |-> i, kind |-> k] /\ Block(i, k) # NoBlock
  BY BlockIsOpen DEF Block
<1> HIDE DEF q
<1>4. /\ Step(q, e, t) /\ t \in Places
      /\ t.phase = "started" /\ t.blocks = b /\ t.open = Block(i, k) /\ t.blanks = run
      /\ t.owed = left
  BY <1>1, <1>2, <1>3, StepBlockDelta
<1> HIDE DEF t, e, run, left
<1>5. t = Place("started", b, Block(i, k), run, left)
  BY <1>4 DEF Places, Place
<1>6. Leads(p, es \o <<e>>, t) /\ es \o <<e>> \in Seq(Events)
  BY <1>4, PushOne DEF q
<1> QED
  BY <1>5, <1>6 DEF e, run, left

LEMMA SayStop ==
  ASSUME NEW p, NEW es \in Seq(Events), NEW b, NEW i, NEW w, NEW n, NEW k \in Kinds,
         Leads(p, es, Place("started", b, Block(i, k), w, n))
  PROVE  /\ es \o <<BlockStop(i)>> \in Seq(Events)
         /\ Leads(p, es \o <<BlockStop(i)>>, Place("started", b, NoBlock, w, n))
<1> DEFINE q == Place("started", b, Block(i, k), w, n)
           e == BlockStop(i)
           t == After(q, e)
<1>1. q \in Places
  BY LeadsPlaces
<1>2. q.phase = "started" /\ q.blocks = b /\ q.open = Block(i, k) /\ q.blanks = w /\ q.owed = n
  BY DEF Place
<1>3. q.open # NoBlock /\ q.open.index = i
  BY <1>2, BlockIsOpen
<1> HIDE DEF q
<1>4. /\ Step(q, e, t) /\ t \in Places
      /\ t.phase = "started" /\ t.blocks = b /\ t.open = NoBlock /\ t.blanks = w /\ t.owed = n
  BY <1>1, <1>2, <1>3, StepBlockStop
<1> HIDE DEF t, e
<1>5. t = Place("started", b, NoBlock, w, n)
  BY <1>4 DEF Places, Place
<1>6. Leads(p, es \o <<e>>, t) /\ es \o <<e>> \in Seq(Events)
  BY <1>4, PushOne DEF q
<1> QED
  BY <1>5, <1>6 DEF e

\* Two events pushed at once are pushed one by one.
LEMMA PushedApart ==
  ASSUME NEW es \in Seq(Events), NEW e \in Events, NEW f \in Events
  PROVE  es \o <<e, f>> = (es \o <<e>>) \o <<f>>
<1>1. <<e, f>> = <<e>> \o <<f>>
  BY PairIsConcat
<1>2. <<e>> \in Seq(Events) /\ <<f>> \in Seq(Events)
  OBVIOUS
<1>3. es \o (<<e>> \o <<f>>) = (es \o <<e>>) \o <<f>>
  BY <1>2, ConcatAssociative
<1> QED
  BY <1>1, <1>3

LEMMA EventsAreSome ==
  /\ MessageStart \in Events /\ MessageDelta \in Events /\ MessageStop \in Events
  /\ ErrorEvent \in Events /\ PingEvent \in Events
  /\ \A i \in Nat : BlockStop(i) \in Events
  /\ \A i \in Nat, k \in Kinds : BlockStart(i, k) \in Events
  /\ \A i \in Nat, k \in Kinds, x \in Payloads : BlockDelta(i, k, x) \in Events
  BY DEF Events, BlockStop, BlockStart, BlockDelta

LEMMA SomeKinds ==
  /\ {"text", "thinking", "tool_use"} \subseteq Kinds
  /\ Content \subseteq Payloads /\ {"filler", "signature"} \subseteq Payloads
  /\ {"piece", "blank", "whole"} = Content
  /\ {"filler", "signature"} \cap Content = {}
  /\ "blank" \notin {"piece", "whole", "filler", "signature"}
  BY DEF Kinds, Payloads, Content

\* What is owed at a place is a number.
LEMMA OwedIsNumber ==
  ASSUME NEW p, NEW es \in Seq(Events), NEW ph, NEW b, NEW o, NEW w, NEW n,
         Leads(p, es, Place(ph, b, o, w, n))
  PROVE  n \in Int /\ w \in 0 .. MaxWhitespace /\ b \in Nat
<1>1. Place(ph, b, o, w, n) \in Places
  BY LeadsPlaces
<1> QED
  BY <1>1 DEF Place, Places

\* A delta that carries no content, and one that carries some
LEMMA SayQuiet ==
  ASSUME NEW p, NEW es \in Seq(Events), NEW b, NEW i \in Nat, NEW w, NEW n,
         NEW k \in Kinds, NEW x \in {"filler", "signature"},
         Leads(p, es, Place("started", b, Block(i, k), w, n))
  PROVE  /\ BlockDelta(i, k, x) \in Events
         /\ es \o <<BlockDelta(i, k, x)>> \in Seq(Events)
         /\ Leads(p, es \o <<BlockDelta(i, k, x)>>, Place("started", b, Block(i, k), 0, n))
<1> DEFINE run == IF x = "blank" THEN w + 1 ELSE 0
           left == n - IF x \in Content THEN 1 ELSE 0
<1>1. x \in Payloads /\ x \notin Content /\ x # "blank"
  BY SomeKinds
<1>2. n \in Int
  BY OwedIsNumber
<1>3. run = 0 /\ left = n
  BY <1>1, <1>2
<1>4. /\ es \o <<BlockDelta(i, k, x)>> \in Seq(Events)
      /\ Leads(p, es \o <<BlockDelta(i, k, x)>>, Place("started", b, Block(i, k), run, left))
  BY <1>1, SayDelta
<1> HIDE DEF run, left
<1> QED
  BY <1>1, <1>3, <1>4, EventsAreSome

LEMMA SayContent ==
  ASSUME NEW p, NEW es \in Seq(Events), NEW b, NEW i \in Nat, NEW w, NEW n,
         NEW k \in Kinds, NEW x \in {"piece", "whole"},
         Leads(p, es, Place("started", b, Block(i, k), w, n))
  PROVE  /\ es \o <<BlockDelta(i, k, x)>> \in Seq(Events)
         /\ Leads(p, es \o <<BlockDelta(i, k, x)>>, Place("started", b, Block(i, k), 0, n - 1))
<1> DEFINE run == IF x = "blank" THEN w + 1 ELSE 0
           left == n - IF x \in Content THEN 1 ELSE 0
<1>1. x \in Payloads /\ x \in Content /\ x # "blank"
  BY SomeKinds
<1>2. run = 0 /\ left = n - 1
  BY <1>1
<1>3. /\ es \o <<BlockDelta(i, k, x)>> \in Seq(Events)
      /\ Leads(p, es \o <<BlockDelta(i, k, x)>>, Place("started", b, Block(i, k), run, left))
  BY <1>1, SayDelta
<1> HIDE DEF run, left
<1> QED
  BY <1>2, <1>3

-----------------------------------------------------------------------------
(* The chat translator.                                                    *)

ChatStates ==
  [started : BOOLEAN, index : Nat, content : BOOLEAN, thinking : BOOLEAN,
   tools : [Calls -> Int], out : Seq(Events)]

\* One block at most is open, and the blocks of calls are behind the index or it.
Chats(s) ==
  /\ s \in ChatStates
  /\ ~(s.content /\ s.thinking)
  /\ s.content \/ s.thinking => s.started
  /\ \A c \in Calls : s.tools[c] \in -1 .. s.index /\ (s.tools[c] = s.index => s.content)

ChatOpen(s) ==
  IF s.content
    THEN Block(s.index, IF IsToolBlockOpen(s) THEN "tool_use" ELSE "text")
    ELSE IF s.thinking THEN Block(s.index, "thinking") ELSE NoBlock

\* The place of a client that heard what the translator made
ChatPlace(s, w, n) ==
  Place(IF s.started THEN "started" ELSE "none",
        s.index + (IF s.content \/ s.thinking THEN 1 ELSE 0), ChatOpen(s), w, n)

\* From p, the events in s lead to where s is, with n fragments still to come.
Tells(p, s, n) == \E w \in 0 .. MaxWhitespace : Leads(p, s.out, ChatPlace(s, w, n))

LEMMA CloseContentTells ==
  ASSUME NEW p, NEW s, NEW n, Chats(s), Tells(p, s, n), NEW t, t = CloseContent(s)
  PROVE  /\ Chats(t) /\ Tells(p, t, n) /\ ~t.content
         /\ t.started = s.started /\ t.thinking = s.thinking /\ t.tools = s.tools
         /\ ~s.content => t = s
<1>1. CASE ~s.content
  BY <1>1 DEF CloseContent
<1>2. CASE s.content
  <2> PICK w \in 0 .. MaxWhitespace : Leads(p, s.out, ChatPlace(s, w, n))
    BY DEF Tells
  <2>1. s \in ChatStates /\ s.started /\ ~s.thinking /\ s.index \in Nat /\ s.out \in Seq(Events)
        /\ s.tools \in [Calls -> Int]
    BY <1>2 DEF Chats, ChatStates
  <2>2. PICK k \in Kinds : ChatPlace(s, w, n) = Place("started", s.index + 1, Block(s.index, k), w, n)
    BY <1>2, <2>1, SomeKinds DEF ChatPlace, ChatOpen
  <2> DEFINE o == s.out \o <<BlockStop(s.index)>>
  <2>3. o \in Seq(Events) /\ Leads(p, o, Place("started", s.index + 1, NoBlock, w, n))
    BY <2>1, <2>2, SayStop
  <2> HIDE DEF o
  <2>4. t = [[s EXCEPT !.out = o] EXCEPT !.index = @ + 1, !.content = FALSE]
    BY <1>2 DEF CloseContent, Push, o
  <2>5. t = [started |-> s.started, index |-> s.index + 1, content |-> FALSE,
             thinking |-> s.thinking, tools |-> s.tools, out |-> o]
    BY <2>1, <2>4 DEF ChatStates
  <2>6. s.index + 1 \in Nat /\ s.started \in BOOLEAN /\ s.thinking \in BOOLEAN
    BY <2>1 DEF ChatStates
  <2>7. t \in ChatStates
    BY <2>1, <2>3, <2>5, <2>6 DEF ChatStates
  <2>8. Chats(t)
    BY <2>1, <2>5, <2>7 DEF Chats
  <2>9. ChatPlace(t, w, n) = Place("started", s.index + 1, NoBlock, w, n)
    BY <2>1, <2>5 DEF ChatPlace, ChatOpen
  <2>10. Tells(p, t, n)
    BY <2>3, <2>5, <2>9 DEF Tells
  <2> QED
    BY <1>2, <2>5, <2>8, <2>10
<1> QED
  BY <1>1, <1>2 DEF Chats, ChatStates

LEMMA CloseThinkingTells ==
  ASSUME NEW p, NEW s, NEW n, Chats(s), Tells(p, s, n), NEW t, t = CloseThinking(s)
  PROVE  /\ Chats(t) /\ Tells(p, t, n) /\ ~t.thinking
         /\ t.started = s.started /\ t.content = s.content /\ t.tools = s.tools
         /\ ~s.thinking => t = s
<1>1. CASE ~s.thinking
  BY <1>1 DEF CloseThinking
<1>2. CASE s.thinking
  <2> PICK w \in 0 .. MaxWhitespace : Leads(p, s.out, ChatPlace(s, w, n))
    BY DEF Tells
  <2>1. s \in ChatStates /\ s.started /\ ~s.content /\ s.index \in Nat /\ s.out \in Seq(Events)
        /\ s.tools \in [Calls -> Int]
    BY <1>2 DEF Chats, ChatStates
  <2>2. ChatPlace(s, w, n) = Place("started", s.index + 1, Block(s.index, "thinking"), w, n)
    BY <1>2, <2>1, SomeKinds DEF ChatPlace, ChatOpen
  <2> DEFINE d == BlockDelta(s.index, "thinking", "signature")
             e == BlockStop(s.index)
             o == s.out \o <<d>>
             oo == s.out \o <<d, e>>
  <2>3. "thinking" \in Kinds /\ "signature" \in {"filler", "signature"}
    BY SomeKinds
  <2>4. /\ d \in Events /\ o \in Seq(Events)
        /\ Leads(p, o, Place("started", s.index + 1, Block(s.index, "thinking"), 0, n))
    <3>1. Leads(p, s.out, Place("started", s.index + 1, Block(s.index, "thinking"), w, n))
      BY <2>2
    <3> DEFINE b == s.index + 1
               x == "signature"
               k == "thinking"
    <3> HIDE DEF b, x, k
    <3>2. k \in Kinds /\ x \in {"filler", "signature"}
      BY <2>3 DEF x, k
    <3>3. Leads(p, s.out, Place("started", b, Block(s.index, k), w, n))
      BY <3>1 DEF b, k
    <3>4. /\ BlockDelta(s.index, k, x) \in Events /\ s.out \o <<BlockDelta(s.index, k, x)>> \in Seq(Events)
          /\ Leads(p, s.out \o <<BlockDelta(s.index, k, x)>>, Place("started", b, Block(s.index, k), 0, n))
      BY <2>1, <3>2, <3>3, SayQuiet
    <3> QED
      BY <3>4 DEF b, x, k
  <2>5. oo = o \o <<e>>
    <3>1. e \in Events
      BY <2>1, EventsAreSome
    <3> HIDE DEF d, e
    <3> QED
      BY <2>1, <2>4, <3>1, PushedApart
  <2> HIDE DEF o
  <2>6. oo \in Seq(Events) /\ Leads(p, oo, Place("started", s.index + 1, NoBlock, 0, n))
    <3>1. /\ o \o <<e>> \in Seq(Events)
          /\ Leads(p, o \o <<e>>, Place("started", s.index + 1, NoBlock, 0, n))
      BY <2>3, <2>4, SayStop
    <3> HIDE DEF oo
    <3> QED
      BY <2>5, <3>1
  <2> HIDE DEF oo
  <2>7. t = [[s EXCEPT !.out = oo] EXCEPT !.index = @ + 1, !.thinking = FALSE]
    BY <1>2 DEF CloseThinking, Push, oo
  <2>8. t = [started |-> s.started, index |-> s.index + 1, content |-> s.content,
             thinking |-> FALSE, tools |-> s.tools, out |-> oo]
    BY <2>1, <2>7 DEF ChatStates
  <2>9. s.index + 1 \in Nat /\ s.started \in BOOLEAN /\ s.content \in BOOLEAN
    BY <2>1 DEF ChatStates
  <2>10. t \in ChatStates
    BY <2>1, <2>6, <2>8, <2>9 DEF ChatStates
  <2>11. Chats(t)
    BY <1>2, <2>1, <2>8, <2>10 DEF Chats
  <2>12. ChatPlace(t, 0, n) = Place("started", s.index + 1, NoBlock, 0, n)
    BY <2>1, <2>8 DEF ChatPlace, ChatOpen
  <2>13. Tells(p, t, n)
    BY <2>6, <2>8, <2>12, SizesAssumption DEF Tells
  <2> QED
    BY <1>2, <2>8, <2>11, <2>13
<1> QED
  BY <1>1, <1>2 DEF Chats, ChatStates

LEMMA MessageStartTells ==
  ASSUME NEW p, NEW s, NEW n, Chats(s), Tells(p, s, n), NEW t, t = HandleMessageStart(s)
  PROVE  /\ Chats(t) /\ Tells(p, t, n) /\ t.started
         /\ t.content = s.content /\ t.thinking = s.thinking /\ t.tools = s.tools
         /\ t.index = s.index
<1>1. CASE s.started
  BY <1>1 DEF HandleMessageStart
<1>2. CASE ~s.started
  <2> PICK w \in 0 .. MaxWhitespace : Leads(p, s.out, ChatPlace(s, w, n))
    BY DEF Tells
  <2>1. s \in ChatStates /\ ~s.thinking /\ ~s.content /\ s.index \in Nat /\ s.out \in Seq(Events)
        /\ s.tools \in [Calls -> Int]
    BY <1>2 DEF Chats, ChatStates
  <2>2. ChatPlace(s, w, n) = Place("none", s.index + 0, NoBlock, w, n)
    BY <1>2, <2>1 DEF ChatPlace, ChatOpen
  <2> DEFINE o == s.out \o <<MessageStart>>
  <2>3. o \in Seq(Events) /\ Leads(p, o, Place("started", s.index + 0, NoBlock, w, n))
    BY <2>1, <2>2, SayPlain
  <2> HIDE DEF o
  <2>4. t = [[s EXCEPT !.out = o] EXCEPT !.started = TRUE]
    BY <1>2 DEF HandleMessageStart, Push, o
  <2>5. t = [started |-> TRUE, index |-> s.index, content |-> s.content,
             thinking |-> s.thinking, tools |-> s.tools, out |-> o]
    BY <2>1, <2>4 DEF ChatStates
  <2>6. t \in ChatStates
    BY <2>1, <2>3, <2>5 DEF ChatStates
  <2>7. Chats(t)
    BY <2>1, <2>5, <2>6 DEF Chats
  <2>8. ChatPlace(t, w, n) = Place("started", s.index + 0, NoBlock, w, n)
    BY <2>1, <2>5 DEF ChatPlace, ChatOpen
  <2>9. Tells(p, t, n)
    BY <2>3, <2>5, <2>8 DEF Tells
  <2> QED
    BY <2>5, <2>7, <2>9
<1> QED
  BY <1>1, <1>2 DEF Chats, ChatStates

\* All but what was pushed
Alike(t, s) ==
  /\ t.started = s.started /\ t.index = s.index /\ t.content = s.content
  /\ t.thinking = s.thinking /\ t.tools = s.tools

LEMMA AlikeChats ==
  ASSUME NEW s, NEW t, NEW o \in Seq(Events), Chats(s), t = [s EXCEPT !.out = o]
  PROVE  Chats(t) /\ Alike(t, s) /\ t.out = o
<1>1. s \in ChatStates
  BY DEF Chats
<1>2. t \in ChatStates /\ Alike(t, s) /\ t.out = o
  BY <1>1 DEF ChatStates, Alike
<1> QED
  BY <1>2 DEF Chats, Alike

LEMMA AlikePlace ==
  ASSUME NEW s, NEW t, Alike(t, s), NEW w, NEW n
  PROVE  ChatPlace(t, w, n) = ChatPlace(s, w, n) /\ IsToolBlockOpen(t) = IsToolBlockOpen(s)
         /\ ChatOpen(t) = ChatOpen(s)
  BY DEF Alike, ChatPlace, ChatOpen, IsToolBlockOpen

LEMMA PieceTells ==
  ASSUME NEW p, NEW s, NEW n, Chats(s), Tells(p, s, n), s.content \/ s.thinking,
         NEW k \in Kinds, ChatOpen(s) = Block(s.index, k),
         NEW t, t = Push(s, <<BlockDelta(s.index, k, "piece")>>)
  PROVE  Chats(t) /\ Tells(p, t, n - 1) /\ Alike(t, s)
<1> PICK w \in 0 .. MaxWhitespace : Leads(p, s.out, ChatPlace(s, w, n))
  BY DEF Tells
<1> PICK x : x = "piece"
  OBVIOUS
<1>1. s.started /\ s.index \in Nat /\ s.out \in Seq(Events) /\ x \in {"piece", "whole"}
  BY DEF Chats, ChatStates
<1> PICK b : b = s.index + 1
  OBVIOUS
<1>2. ChatPlace(s, w, n) = Place("started", b, Block(s.index, k), w, n)
  BY <1>1 DEF ChatPlace
<1> DEFINE o == s.out \o <<BlockDelta(s.index, k, x)>>
<1>3. Leads(p, s.out, Place("started", b, Block(s.index, k), w, n))
  BY <1>2
<1>4. o \in Seq(Events) /\ Leads(p, o, Place("started", b, Block(s.index, k), 0, n - 1))
  BY <1>1, <1>3, SayContent
<1>5. t = [s EXCEPT !.out = o]
  BY DEF Push
<1> HIDE DEF o
<1>6. Chats(t) /\ Alike(t, s) /\ t.out = o
  BY <1>4, <1>5, AlikeChats
<1>7. ChatPlace(t, 0, n - 1) = Place("started", b, Block(s.index, k), 0, n - 1)
  <2>1. ChatPlace(t, 0, n - 1) = ChatPlace(s, 0, n - 1)
    BY <1>6, AlikePlace
  <2>2. ChatPlace(s, 0, n - 1) = Place("started", b, Block(s.index, k), 0, n - 1)
    BY <1>1 DEF ChatPlace
  <2> QED
    BY <2>1, <2>2
<1>8. 0 \in 0 .. MaxWhitespace
  BY SizesAssumption
<1> QED
  BY <1>4, <1>6, <1>7, <1>8 DEF Tells

\* A block begins where none is open.
LEMMA BeginTells ==
  ASSUME NEW p, NEW s, NEW n, Chats(s), Tells(p, s, n), s.started, ~s.content, ~s.thinking,
         NEW k \in Kinds, NEW o, o = s.out \o <<BlockStart(s.index, k)>>
  PROVE  /\ o \in Seq(Events)
         /\ Leads(p, o, Place("started", s.index + 1, Block(s.index, k), 0, n))
<1> PICK w \in 0 .. MaxWhitespace : Leads(p, s.out, ChatPlace(s, w, n))
  BY DEF Tells
<1> PICK i : i = s.index
  OBVIOUS
<1>1. i \in Nat /\ s.out \in Seq(Events) /\ i + 0 = i
  BY DEF Chats, ChatStates
<1>2. ChatPlace(s, w, n) = Place("started", i, NoBlock, w, n)
  BY <1>1 DEF ChatPlace, ChatOpen
<1>3. Leads(p, s.out, Place("started", i, NoBlock, w, n))
  BY <1>2
<1>4. /\ s.out \o <<BlockStart(i, k)>> \in Seq(Events)
      /\ Leads(p, s.out \o <<BlockStart(i, k)>>, Place("started", i + 1, Block(i, k), 0, n))
  BY <1>1, <1>3, SayStart
<1> QED
  BY <1>4

LEMMA OpenThinkingTells ==
  ASSUME NEW p, NEW s, NEW n, Chats(s), Tells(p, s, n), s.started, ~s.content,
         NEW t, t = OpenThinking(s)
  PROVE  /\ Chats(t) /\ Tells(p, t, n) /\ t.thinking
         /\ t.started /\ ~t.content /\ t.tools = s.tools /\ t.index = s.index
<1>1. CASE s.thinking
  BY <1>1 DEF OpenThinking
<1>2. CASE ~s.thinking
  <2> PICK k : k = "thinking"
    OBVIOUS
  <2>1. s \in ChatStates /\ s.index \in Nat /\ s.out \in Seq(Events) /\ s.tools \in [Calls -> Int]
        /\ k \in Kinds
    BY <1>2, SomeKinds DEF Chats, ChatStates
  <2> DEFINE o == s.out \o <<BlockStart(s.index, k)>>
  <2>2. o \in Seq(Events) /\ Leads(p, o, Place("started", s.index + 1, Block(s.index, k), 0, n))
    BY <1>2, <2>1, BeginTells
  <2>3. t = [[s EXCEPT !.out = o] EXCEPT !.thinking = TRUE]
    BY <1>2 DEF OpenThinking, Push
  <2> HIDE DEF o
  <2>4. t = [started |-> s.started, index |-> s.index, content |-> s.content,
             thinking |-> TRUE, tools |-> s.tools, out |-> o]
    BY <2>1, <2>3 DEF ChatStates
  <2>5. t \in ChatStates
    BY <2>1, <2>2, <2>4 DEF ChatStates
  <2>6. Chats(t)
    BY <2>1, <2>4, <2>5 DEF Chats
  <2>7. ChatPlace(t, 0, n) = Place("started", s.index + 1, Block(s.index, k), 0, n)
    BY <2>1, <2>4 DEF ChatPlace, ChatOpen
  <2>8. 0 \in 0 .. MaxWhitespace
    BY SizesAssumption
  <2>9. Tells(p, t, n)
    BY <2>2, <2>4, <2>7, <2>8 DEF Tells
  <2> QED
    BY <2>4, <2>6, <2>9
<1> QED
  BY <1>1, <1>2

\* How many fragments: one or none
One(b) == IF b THEN 1 ELSE 0

LEMMA ThinkingTextTells ==
  ASSUME NEW p, NEW s, NEW n, Chats(s), Tells(p, s, n), s.started,
         NEW c, c.reasoning \in BOOLEAN, c.reasoning => ~s.content,
         NEW t, t = HandleThinkingText(s, c)
  PROVE  /\ Chats(t) /\ Tells(p, t, n - One(c.reasoning)) /\ t.started
         /\ t.content = s.content /\ t.tools = s.tools /\ t.index = s.index
<1>1. CASE ~c.reasoning
  <2>1. t = s /\ One(c.reasoning) = 0
    BY <1>1 DEF HandleThinkingText, One
  <2>2. n \in Int
    BY OwedIsNumber DEF Tells, ChatPlace, Chats, ChatStates
  <2> QED
    BY <2>1, <2>2
<1>2. CASE c.reasoning
  <2> PICK u : u = OpenThinking(s)
    OBVIOUS
  <2> PICK k : k = "thinking"
    OBVIOUS
  <2>1. /\ Chats(u) /\ Tells(p, u, n) /\ u.thinking /\ u.started /\ ~u.content
        /\ u.tools = s.tools /\ u.index = s.index
    BY <1>2, OpenThinkingTells
  <2>2. k \in Kinds /\ ChatOpen(u) = Block(u.index, k)
    BY <2>1, SomeKinds DEF ChatOpen
  <2>3. t = Push(u, <<BlockDelta(u.index, k, "piece")>>) /\ One(c.reasoning) = 1
    BY <1>2, <2>1 DEF HandleThinkingText, One
  <2>4. Chats(t) /\ Tells(p, t, n - 1) /\ Alike(t, u)
    BY <2>1, <2>2, <2>3, PieceTells
  <2> QED
    BY <1>2, <2>1, <2>3, <2>4 DEF Alike, Chats, ChatStates
<1> QED
  BY <1>1, <1>2

LEMMA FourPushed ==
  ASSUME NEW p, NEW q, NEW r, NEW es \in Seq(Events),
         NEW e1 \in Events, NEW e2 \in Events, NEW e3 \in Events, NEW e4 \in Events,
         Leads(p, (((es \o <<e1>>) \o <<e2>>) \o <<e3>>) \o <<e4>>, r)
  PROVE  Leads(p, es \o <<e1, e2, e3, e4>>, r) /\ es \o <<e1, e2, e3, e4>> \in Seq(Events)
<1> DEFINE l == (((es \o <<e1>>) \o <<e2>>) \o <<e3>>) \o <<e4>>
           m == es \o <<e1, e2, e3, e4>>
           n == Len(es)
<1>1. n \in Nat /\ l \in Seq(Events) /\ m \in Seq(Events) /\ Len(l) = n + 4 /\ Len(m) = n + 4
  OBVIOUS
<1>2. \A i \in 1 .. n + 4 : l[i] = m[i]
  <2> SUFFICES ASSUME NEW i \in 1 .. n + 4 PROVE l[i] = m[i]
    OBVIOUS
  <2>1. i \in 1 .. n \/ i = n + 1 \/ i = n + 2 \/ i = n + 3 \/ i = n + 4
    BY <1>1
  <2> QED
    BY <1>1, <2>1
<1> HIDE DEF l, m, n
<1>3. l = m
  BY <1>1, <1>2, SeqEqual
<1>4. Leads(p, l, r)
  BY Zenon DEF l
<1> QED
  BY <1>1, <1>3, <1>4 DEF m

LEMMA OpenTextTells ==
  ASSUME NEW p, NEW s, NEW n, Chats(s), Tells(p, s, n), s.started, ~s.thinking,
         NEW t, t = OpenText(s)
  PROVE  /\ Chats(t) /\ Tells(p, t, n) /\ t.content /\ ~IsToolBlockOpen(t)
         /\ t.started /\ ~t.thinking /\ t.tools = s.tools
<1> PICK u : u = IF IsToolBlockOpen(s) THEN CloseContent(s) ELSE s
  OBVIOUS
<1>1. /\ Chats(u) /\ Tells(p, u, n) /\ u.started /\ ~u.thinking /\ u.tools = s.tools
      /\ u.content => u = s /\ ~IsToolBlockOpen(s)
  <2>1. CASE IsToolBlockOpen(s)
    BY <2>1, CloseContentTells
  <2>2. CASE ~IsToolBlockOpen(s)
    BY <2>2
  <2> QED
    BY <2>1, <2>2
<1>2. CASE u.content
  <2>1. t = u
    BY <1>2 DEF OpenText
  <2> QED
    BY <1>1, <1>2, <2>1
<1>3. CASE ~u.content
  <2> PICK k : k = "text"
    OBVIOUS
  <2>1. u \in ChatStates /\ u.index \in Nat /\ u.out \in Seq(Events) /\ u.tools \in [Calls -> Int]
        /\ k \in Kinds
    BY <1>1, SomeKinds DEF Chats, ChatStates
  <2> DEFINE o == u.out \o <<BlockStart(u.index, k)>>
  <2>2. o \in Seq(Events) /\ Leads(p, o, Place("started", u.index + 1, Block(u.index, k), 0, n))
    BY <1>1, <1>3, <2>1, BeginTells
  <2>3. t = [[u EXCEPT !.out = o] EXCEPT !.content = TRUE]
    BY <1>3 DEF OpenText, Push
  <2> HIDE DEF o
  <2>4. t = [started |-> u.started, index |-> u.index, content |-> TRUE,
             thinking |-> u.thinking, tools |-> u.tools, out |-> o]
    BY <2>1, <2>3 DEF ChatStates
  <2>5. t \in ChatStates
    BY <2>1, <2>2, <2>4 DEF ChatStates
  <2>6. Chats(t)
    BY <1>1, <2>1, <2>4, <2>5 DEF Chats
  <2>7. ~IsToolBlockOpen(t)
    BY <1>1, <1>3, <2>4 DEF Chats, IsToolBlockOpen
  <2>8. ChatPlace(t, 0, n) = Place("started", u.index + 1, Block(u.index, k), 0, n)
    BY <1>1, <2>1, <2>4, <2>7 DEF ChatPlace, ChatOpen
  <2>9. 0 \in 0 .. MaxWhitespace
    BY SizesAssumption
  <2>10. Tells(p, t, n)
    BY <2>2, <2>4, <2>8, <2>9 DEF Tells
  <2> QED
    BY <1>1, <2>4, <2>6, <2>7, <2>10
<1> QED
  BY <1>2, <1>3

LEMMA TextTells ==
  ASSUME NEW p, NEW s, NEW n, Chats(s), Tells(p, s, n), s.started, NEW t, t = HandleText(s)
  PROVE  /\ Chats(t) /\ Tells(p, t, n - 1) /\ t.content /\ ~IsToolBlockOpen(t)
         /\ t.started /\ ~t.thinking /\ t.tools = s.tools
<1> PICK u : u = CloseThinking(s)
  OBVIOUS
<1> PICK v : v = OpenText(u)
  OBVIOUS
<1> PICK k : k = "text"
  OBVIOUS
<1>1. Chats(u) /\ Tells(p, u, n) /\ ~u.thinking /\ u.started /\ u.tools = s.tools
  BY CloseThinkingTells
<1>2. /\ Chats(v) /\ Tells(p, v, n) /\ v.content /\ ~IsToolBlockOpen(v)
      /\ v.started /\ ~v.thinking /\ v.tools = s.tools
  BY <1>1, OpenTextTells
<1>3. k \in Kinds /\ ChatOpen(v) = Block(v.index, k)
  BY <1>2, SomeKinds DEF ChatOpen
<1>4. t = Push(v, <<BlockDelta(v.index, k, "piece")>>)
  BY DEF HandleText
<1>5. Chats(t) /\ Tells(p, t, n - 1) /\ Alike(t, v)
  BY <1>2, <1>3, <1>4, PieceTells
<1>6. IsToolBlockOpen(t) = IsToolBlockOpen(v)
  BY <1>5, AlikePlace
<1> QED
  BY <1>2, <1>5, <1>6 DEF Alike

LEMMA TellsInt ==
  ASSUME NEW p, NEW s, NEW n, Chats(s), Tells(p, s, n)
  PROVE  n \in Int
  BY OwedIsNumber DEF Tells, ChatPlace, Chats, ChatStates

LEMMA ContentTells ==
  ASSUME NEW p, NEW s, NEW n, Chats(s), Tells(p, s, n), s.started,
         NEW c, NEW t, t = HandleContent(s, c)
  PROVE  /\ Chats(t) /\ Tells(p, t, n - One(c.content = "text")) /\ t.started
         /\ t.tools = s.tools
         /\ c.content = "text" => t.content /\ ~IsToolBlockOpen(t)
         /\ c.content # "text" /\ s.content => t = s
         /\ c.content # "text" /\ ~s.content => ~t.content
<1>1. CASE c.content = "text"
  <2>1. t = HandleText(s)
    BY <1>1, Zenon DEF HandleContent
  <2>2. One(c.content = "text") = 1
    BY <1>1 DEF One
  <2> QED
    BY <1>1, <2>1, <2>2, TextTells
<1>2. CASE c.content # "text"
  <2>1. t = s \/ t = CloseThinking(s)
    <3>1. CASE c.content = "empty" /\ c.opaque
      BY <1>2, <3>1, Zenon DEF HandleContent
    <3>2. CASE ~(c.content = "empty" /\ c.opaque)
      BY <1>2, <3>2, Zenon DEF HandleContent
    <3> QED
      BY <3>1, <3>2
  <2>2. n \in Int /\ One(c.content = "text") = 0 /\ n - 0 = n
    BY <1>2, TellsInt DEF One
  <2>3. /\ Chats(t) /\ Tells(p, t, n) /\ t.started = s.started /\ t.content = s.content
        /\ t.tools = s.tools /\ (~s.thinking => t = s)
    <3> PICK u : u = CloseThinking(s)
      OBVIOUS
    <3>1. /\ Chats(u) /\ Tells(p, u, n) /\ u.started = s.started /\ u.content = s.content
          /\ u.tools = s.tools /\ (~s.thinking => u = s)
      <4>1. Chats(u) /\ Tells(p, u, n)
        BY CloseThinkingTells
      <4>2. u.started = s.started /\ u.content = s.content /\ u.tools = s.tools
        <5>1. s \in ChatStates
          BY DEF Chats
        <5>2. CASE s.thinking
          BY <5>1, <5>2 DEF CloseThinking, Push, ChatStates
        <5>3. CASE ~s.thinking
          BY <5>3 DEF CloseThinking
        <5> QED
          BY <5>2, <5>3
      <4>3. ~s.thinking => u = s
        BY DEF CloseThinking
      <4> QED
        BY <4>1, <4>2, <4>3
    <3>2. t = s \/ t = u
      BY <2>1
    <3> QED
      BY <3>1, <3>2
  <2>4. s.content => ~s.thinking
    BY DEF Chats
  <2> QED
    BY <1>2, <2>2, <2>3, <2>4
<1> QED
  BY <1>1, <1>2

LEMMA OpaqueTells ==
  ASSUME NEW p, NEW s, NEW n, Chats(s), Tells(p, s, n), s.started,
         ~s.thinking, NEW c, c.opaque => ~s.content,
         NEW t, t = HandleReasoningOpaque(s, c)
  PROVE  /\ Chats(t) /\ Tells(p, t, n) /\ t.started /\ ~t.thinking
         /\ ~c.opaque => t = s
<1>1. CASE ~c.opaque
  BY <1>1 DEF HandleReasoningOpaque
<1>2. CASE c.opaque
  <2> PICK k : k = "thinking"
    OBVIOUS
  <2> PICK f, x : f = "filler" /\ x = "signature"
    <3>1. "filler" = "filler" /\ "signature" = "signature"
      OBVIOUS
    <3> QED
      BY <3>1
  <2> PICK i : i = s.index
    OBVIOUS
  <2>1. s \in ChatStates /\ i \in Nat /\ s.out \in Seq(Events) /\ s.tools \in [Calls -> Int]
        /\ k \in Kinds /\ f \in {"filler", "signature"} /\ x \in {"filler", "signature"}
        /\ ~s.content /\ ~s.thinking
    BY <1>2, SomeKinds DEF Chats, ChatStates
  <2> DEFINE e1 == BlockStart(i, k)
             e2 == BlockDelta(i, k, f)
             e3 == BlockDelta(i, k, x)
             e4 == BlockStop(i)
             o1 == s.out \o <<e1>>
             o2 == o1 \o <<e2>>
             o3 == o2 \o <<e3>>
             o4 == o3 \o <<e4>>
  <2> HIDE DEF o1, o2, o3, o4
  <2>2. o1 \in Seq(Events) /\ Leads(p, o1, Place("started", i + 1, Block(i, k), 0, n))
    BY <1>2, <2>1, BeginTells DEF o1
  <2>3. o2 \in Seq(Events) /\ Leads(p, o2, Place("started", i + 1, Block(i, k), 0, n)) /\ e2 \in Events
    BY <2>1, <2>2, SayQuiet DEF o2
  <2>4. o3 \in Seq(Events) /\ Leads(p, o3, Place("started", i + 1, Block(i, k), 0, n)) /\ e3 \in Events
    BY <2>1, <2>3, SayQuiet DEF o3
  <2>5. o4 \in Seq(Events) /\ Leads(p, o4, Place("started", i + 1, NoBlock, 0, n))
    BY <2>1, <2>4, SayStop DEF o4
  <2>6. e1 \in Events /\ e4 \in Events
    BY <2>1, EventsAreSome
  <2> HIDE DEF e1, e2, e3, e4
  <2> DEFINE o == s.out \o <<e1, e2, e3, e4>>
  <2>7. Leads(p, o, Place("started", i + 1, NoBlock, 0, n)) /\ o \in Seq(Events)
    <3>1. Leads(p, (((s.out \o <<e1>>) \o <<e2>>) \o <<e3>>) \o <<e4>>, Place("started", i + 1, NoBlock, 0, n))
      BY <2>5, Zenon DEF o1, o2, o3, o4
    <3> QED
      BY <2>1, <2>3, <2>4, <2>6, <3>1, FourPushed
  <2> HIDE DEF o
  <2>8. t = [[s EXCEPT !.out = o] EXCEPT !.index = @ + 1]
    BY <1>2 DEF HandleReasoningOpaque, Push, o, e1, e2, e3, e4
  <2>9. t = [started |-> s.started, index |-> i + 1, content |-> s.content,
             thinking |-> s.thinking, tools |-> s.tools, out |-> o]
    BY <2>1, <2>8 DEF ChatStates
  <2>10. i + 1 \in Nat /\ o \in Seq(Events)
    BY <2>1, <2>7
  <2>11. t \in ChatStates
    BY <2>1, <2>9, <2>10 DEF ChatStates
  <2>12. Chats(t)
    BY <2>1, <2>9, <2>11 DEF Chats
  <2>13. ChatPlace(t, 0, n) = Place("started", i + 1, NoBlock, 0, n)
    BY <2>1, <2>9 DEF ChatPlace, ChatOpen
  <2>14. 0 \in 0 .. MaxWhitespace
    BY SizesAssumption
  <2>15. Tells(p, t, n)
    <3>1. t.out = o
      BY <2>9
    <3>2. Leads(p, t.out, ChatPlace(t, 0, n))
      BY <2>7, <2>13, <3>1
    <3> QED
      BY <2>14, <3>2 DEF Tells
  <2> QED
    BY <1>2, <2>9, <2>12, <2>15
<1> QED
  BY <1>1, <1>2

LEMMA BeginCallTells ==
  ASSUME NEW p, NEW s, NEW n, Chats(s), Tells(p, s, n), s.started, ~s.thinking,
         NEW call, call.index \in Calls, NEW t, t = BeginCall(s, call)
  PROVE  /\ Chats(t) /\ Tells(p, t, n) /\ t.content /\ t.tools[call.index] = t.index
         /\ t.started /\ ~t.thinking
<1> PICK u : u = CloseContent(s)
  OBVIOUS
<1>1. /\ Chats(u) /\ Tells(p, u, n) /\ u.started /\ ~u.thinking /\ ~u.content
  BY CloseContentTells
<1> PICK k : k = "tool_use"
  OBVIOUS
<1>2. u \in ChatStates /\ u.index \in Nat /\ u.out \in Seq(Events) /\ u.tools \in [Calls -> Int]
      /\ k \in Kinds
  BY <1>1, SomeKinds DEF Chats, ChatStates
<1> DEFINE o == u.out \o <<BlockStart(u.index, k)>>
           tools == [u.tools EXCEPT ![call.index] = u.index]
<1>3. o \in Seq(Events) /\ Leads(p, o, Place("started", u.index + 1, Block(u.index, k), 0, n))
  BY <1>1, <1>2, BeginTells
<1>4. t = [[u EXCEPT !.out = o] EXCEPT !.content = TRUE, !.tools[call.index] = u.index]
  BY DEF BeginCall, Push
<1> HIDE DEF o
<1>5. t = [started |-> u.started, index |-> u.index, content |-> TRUE,
           thinking |-> u.thinking, tools |-> tools, out |-> o]
  BY <1>2, <1>4 DEF ChatStates
<1>6. /\ tools \in [Calls -> Int] /\ tools[call.index] = u.index
      /\ \A c \in Calls : tools[c] \in -1 .. u.index
  BY <1>1, <1>2 DEF Chats
<1> HIDE DEF tools
<1>7. t \in ChatStates
  BY <1>2, <1>3, <1>5, <1>6 DEF ChatStates
<1>8. Chats(t)
  BY <1>1, <1>5, <1>6, <1>7 DEF Chats
<1>9. IsToolBlockOpen(t)
  BY <1>5, <1>6 DEF IsToolBlockOpen
<1>10. ChatPlace(t, 0, n) = Place("started", u.index + 1, Block(u.index, k), 0, n)
  BY <1>1, <1>2, <1>5, <1>9 DEF ChatPlace, ChatOpen
<1>11. 0 \in 0 .. MaxWhitespace
  BY SizesAssumption
<1>12. Tells(p, t, n)
  <2>1. t.out = o
    BY <1>5
  <2>2. Leads(p, t.out, ChatPlace(t, 0, n))
    BY <1>3, <1>10, <2>1
  <2> QED
    BY <1>11, <2>2 DEF Tells
<1> QED
  BY <1>1, <1>5, <1>6, <1>8, <1>12

LEMMA ArgumentsTells ==
  ASSUME NEW p, NEW s, NEW n, Chats(s), Tells(p, s, n), s.started,
         NEW call, call.index \in Calls, call.args \in BOOLEAN,
         s.content, s.tools[call.index] = s.index,
         NEW t, t = CallArguments(s, call)
  PROVE  Chats(t) /\ Tells(p, t, n - One(call.args)) /\ Alike(t, s)
<1> PICK k : k = "tool_use"
  OBVIOUS
<1>1. k \in Kinds /\ s.index \in Nat /\ n \in Int
  BY SomeKinds, TellsInt DEF Chats, ChatStates
<1>2. CASE call.args
  <2>1. IsToolBlockOpen(s) /\ s.tools[call.index] # NoIndex
    BY <1>1 DEF IsToolBlockOpen, NoIndex
  <2>2. ChatOpen(s) = Block(s.index, k)
    BY <2>1 DEF ChatOpen
  <2>3. t = Push(s, <<BlockDelta(s.index, k, "piece")>>)
    BY <1>2, <2>1 DEF CallArguments
  <2>4. One(call.args) = 1
    BY <1>2 DEF One
  <2> QED
    <3>1. Chats(t) /\ Tells(p, t, n - 1) /\ Alike(t, s)
      BY <1>1, <2>2, <2>3, PieceTells
    <3> QED
      BY <2>4, <3>1, Zenon
<1>3. CASE ~call.args
  <2>1. t = s
    BY <1>3 DEF CallArguments
  <2>2. n - One(call.args) = n
    BY <1>1, <1>3 DEF One
  <2>3. Alike(t, s)
    BY <2>1 DEF Alike
  <2> QED
    BY <2>1, <2>2, <2>3, Zenon
<1> QED
  BY <1>2, <1>3

LEMMA CallTells ==
  ASSUME NEW p, NEW s, NEW n, Chats(s), Tells(p, s, n), s.started, ~s.thinking,
         NEW call, call.index \in Calls, call.args \in BOOLEAN,
         ~call.new => s.content /\ s.tools[call.index] = s.index,
         NEW t, t = HandleToolCall(s, call)
  PROVE  /\ Chats(t) /\ Tells(p, t, n - One(call.args)) /\ t.started /\ ~t.thinking
         /\ t.content /\ t.tools[call.index] = t.index
<1> PICK u : u = IF call.new THEN BeginCall(s, call) ELSE s
  OBVIOUS
<1>1. /\ Chats(u) /\ Tells(p, u, n) /\ u.content /\ u.tools[call.index] = u.index
      /\ u.started /\ ~u.thinking
  <2>1. CASE call.new
    <3>1. u = BeginCall(s, call)
      BY <2>1
    <3> QED
      BY <3>1, BeginCallTells
  <2>2. CASE ~call.new
    BY <2>2
  <2> QED
    BY <2>1, <2>2
<1>2. t = CallArguments(u, call)
  BY DEF HandleToolCall
<1>3. Chats(t) /\ Tells(p, t, n - One(call.args)) /\ Alike(t, u)
  BY <1>1, <1>2, ArgumentsTells
<1> QED
  BY <1>1, <1>3 DEF Alike

LEMMA CallsHeadTells ==
  ASSUME NEW p, NEW s, NEW n, Chats(s), Tells(p, s, n), s.started,
         NEW c, c.opaque => ~IsToolBlockOpen(s),
         NEW t, t = HandleOpaqueInToolCalls(CloseThinking(s), c)
  PROVE  /\ Chats(t) /\ Tells(p, t, n) /\ t.started /\ ~t.thinking
         /\ IsToolBlockOpen(s) => t = s
<1> PICK u : u = CloseThinking(s)
  OBVIOUS
<1>1. /\ Chats(u) /\ Tells(p, u, n) /\ ~u.thinking /\ u.started
      /\ ~s.thinking => u = s
  BY CloseThinkingTells
<1>2. IsToolBlockOpen(u) => IsToolBlockOpen(s) /\ u = s
  <2>1. CASE s.thinking
    <3>1. ~s.content
      BY <2>1 DEF Chats
    <3>2. ~u.content
      BY <2>1, <3>1 DEF CloseThinking, Push, Chats, ChatStates
    <3> QED
      BY <3>2 DEF IsToolBlockOpen
  <2>2. CASE ~s.thinking
    BY <1>1, <2>2
  <2> QED
    BY <2>1, <2>2
<1> PICK v : v = IF u.content /\ ~IsToolBlockOpen(u) THEN CloseContent(u) ELSE u
  OBVIOUS
<1>3. /\ Chats(v) /\ Tells(p, v, n) /\ ~v.thinking /\ v.started
      /\ IsToolBlockOpen(u) => v = u
      /\ ~IsToolBlockOpen(u) => ~v.content
  <2>1. CASE u.content /\ ~IsToolBlockOpen(u)
    <3>1. v = CloseContent(u)
      BY <2>1
    <3> QED
      BY <1>1, <2>1, <3>1, CloseContentTells
  <2>2. CASE ~(u.content /\ ~IsToolBlockOpen(u))
    BY <1>1, <2>2 DEF IsToolBlockOpen
  <2> QED
    BY <2>1, <2>2
<1>4. t = HandleReasoningOpaque(v, c)
  BY DEF HandleOpaqueInToolCalls
<1>5. c.opaque => ~v.content
  BY <1>2, <1>3
<1>6. /\ Chats(t) /\ Tells(p, t, n) /\ t.started /\ ~t.thinking
      /\ ~c.opaque => t = v
  BY <1>3, <1>4, <1>5, OpaqueTells
<1>7. IsToolBlockOpen(s) => t = s
  <2>1. IsToolBlockOpen(s) => u = s
    BY <1>1 DEF IsToolBlockOpen, Chats
  <2> QED
    BY <1>3, <1>6, <2>1
<1> QED
  BY <1>3, <1>6, <1>7

\* The calls of a chunk are handled one after the other, and there are at most two.
LEMMA CallsUnfold ==
  ASSUME NEW s, NEW c, NEW m \in 1 .. 2, Len(c.calls) = m, c.calls # <<>>,
         NEW h, h = HandleOpaqueInToolCalls(CloseThinking(s), c),
         NEW a, a = HandleToolCall(h, c.calls[1])
  PROVE  /\ m = 1 => HandleToolCalls(s, c) = a
         /\ m = 2 => HandleToolCalls(s, c) = HandleToolCall(a, c.calls[2])
<1> DEFINE body(after, i) ==
             IF i = 0 THEN HandleOpaqueInToolCalls(CloseThinking(s), c)
                      ELSE HandleToolCall(after[i - 1], c.calls[i])
           after == CHOOSE f : f = [i \in 0 .. Len(c.calls) |-> body(f, i)]
           z == HandleToolCall(a, c.calls[2])
           g == [i \in 0 .. m |-> IF i = 0 THEN h ELSE IF i = 1 THEN a ELSE z]
<1>1. HandleToolCalls(s, c) = after[Len(c.calls)]
  BY DEF HandleToolCalls
<1> HIDE DEF z
<1>2. g = [i \in 0 .. m |-> body(g, i)]
  <2>1. g[0] = h /\ g[1] = a
    OBVIOUS
  <2>2. \A i \in 0 .. m : g[i] = body(g, i)
    <3> SUFFICES ASSUME NEW i \in 0 .. m PROVE g[i] = body(g, i)
      OBVIOUS
    <3>1. CASE i = 0
      BY <2>1, <3>1
    <3>2. CASE i = 1
      BY <2>1, <3>2
    <3>3. CASE i = 2
      <4>1. g[i] = z /\ i - 1 = 1
        BY <3>3
      <4> QED
        BY <2>1, <3>3, <4>1 DEF z
    <3> QED
      BY <3>1, <3>2, <3>3
  <2> HIDE DEF body
  <2>3. g = [i \in 0 .. m |-> g[i]]
    OBVIOUS
  <2> HIDE DEF g
  <2> QED
    BY <2>2, <2>3
<1> HIDE DEF body, g
<1>3. after = [i \in 0 .. m |-> body(after, i)]
  BY <1>2
<1> HIDE DEF after
<1>4. after[0] = h
  BY <1>3 DEF body
<1>5. after[1] = a
  <2>1. 1 \in 0 .. m /\ 1 # 0 /\ 1 - 1 = 0
    OBVIOUS
  <2>2. after[1] = body(after, 1)
    BY <1>3, <2>1
  <2> QED
    BY <1>4, <2>1, <2>2 DEF body
<1>6. m = 2 => after[2] = z
  <2> SUFFICES ASSUME m = 2 PROVE after[2] = z
    OBVIOUS
  <2>1. 2 \in 0 .. m /\ 2 # 0 /\ 2 - 1 = 1
    OBVIOUS
  <2>2. after[2] = body(after, 2)
    BY <1>3, <2>1
  <2> QED
    BY <1>5, <2>1, <2>2 DEF body, z
<1> QED
  BY <1>1, <1>5, <1>6 DEF z

LEMMA Counts ==
  ASSUME NEW a, NEW b
  PROVE  /\ Cardinality({}) = 0 /\ Cardinality({a}) = 1
         /\ a # b => Cardinality({a, b}) = 2
<1>1. Cardinality({}) = 0 /\ Cardinality({a}) = 1 /\ IsFiniteSet({a})
  BY FS_EmptySet, FS_Singleton
<1>2. ASSUME a # b PROVE Cardinality({a, b}) = 2
  <2>1. Cardinality({a} \cup {b}) = Cardinality({a}) + 1
    BY <1>1, <1>2, FS_AddElement
  <2>2. {a} \cup {b} = {a, b}
    OBVIOUS
  <2> QED
    BY <1>1, <2>1, <2>2
<1> QED
  BY <1>1, <1>2

\* The calls that have arguments, and those that are new
Args(c) == Cardinality({i \in DOMAIN c.calls : c.calls[i].args})

News(c) == Cardinality({i \in DOMAIN c.calls : c.calls[i].new})

\* The shapes a chunk's list of calls may have after n calls.
Shape(c, n) ==
  \/ c.calls = <<>>
  \/ \E args \in BOOLEAN : c.calls = <<Call(n, TRUE, args)>> /\ n \in Calls
  \/ c.calls = <<Call(n - 1, FALSE, TRUE)>> /\ n - 1 \in Calls
  \/ c.calls = <<Call(n, TRUE, TRUE), Call(n + 1, TRUE, TRUE)>> /\ n \in Calls /\ n + 1 \in Calls

LEMMA CountsOfNone ==
  ASSUME NEW c, c.calls = <<>>
  PROVE  Args(c) = 0 /\ News(c) = 0
<1>1. {i \in DOMAIN c.calls : c.calls[i].args} = {} /\ {i \in DOMAIN c.calls : c.calls[i].new} = {}
  OBVIOUS
<1> QED
  BY <1>1, Counts DEF Args, News

LEMMA CountsOfOne ==
  ASSUME NEW c, NEW e, c.calls = <<e>>
  PROVE  /\ Args(c) = One(e.args) /\ News(c) = One(e.new)
         /\ Len(c.calls) = 1 /\ c.calls # <<>> /\ c.calls[1] = e
<1>1. /\ Len(c.calls) = 1 /\ c.calls # <<>> /\ DOMAIN c.calls = {1} /\ c.calls[1] = e
  OBVIOUS
<1>2. /\ {i \in DOMAIN c.calls : c.calls[i].args} = IF e.args THEN {1} ELSE {}
      /\ {i \in DOMAIN c.calls : c.calls[i].new} = IF e.new THEN {1} ELSE {}
  BY <1>1
<1> QED
  BY <1>1, <1>2, Counts DEF Args, News, One

LEMMA CountsOfTwo ==
  ASSUME NEW c, NEW n, NEW m, c.calls = <<Call(n, TRUE, TRUE), Call(m, TRUE, TRUE)>>
  PROVE  /\ Args(c) = 2 /\ News(c) = 2
         /\ Len(c.calls) = 2 /\ c.calls # <<>>
         /\ c.calls[1].index = n /\ c.calls[1].new /\ c.calls[1].args = TRUE
         /\ c.calls[2].index = m /\ c.calls[2].new /\ c.calls[2].args = TRUE
<1>1. /\ Len(c.calls) = 2 /\ c.calls # <<>> /\ DOMAIN c.calls = {1, 2}
      /\ c.calls[1] = Call(n, TRUE, TRUE) /\ c.calls[2] = Call(m, TRUE, TRUE)
  OBVIOUS
<1>2. /\ c.calls[1].index = n /\ c.calls[1].new /\ c.calls[1].args = TRUE
      /\ c.calls[2].index = m /\ c.calls[2].new /\ c.calls[2].args = TRUE
  BY <1>1 DEF Call
<1>3. /\ {i \in DOMAIN c.calls : c.calls[i].args} = {1, 2}
      /\ {i \in DOMAIN c.calls : c.calls[i].new} = {1, 2}
  BY <1>1, <1>2
<1>4. Cardinality({1, 2}) = 2
  BY Counts
<1> QED
  BY <1>1, <1>2, <1>3, <1>4 DEF Args, News

LEMMA ToolCallsTells ==
  ASSUME NEW p, NEW s, NEW n, Chats(s), Tells(p, s, n), s.started,
         NEW c, NEW m \in Nat, Shape(c, m),
         c.calls # <<>> /\ c.opaque => ~IsToolBlockOpen(s),
         (\E i \in DOMAIN c.calls : ~c.calls[i].new) => s.content /\ s.tools[m - 1] = s.index,
         NEW t, t = HandleToolCalls(s, c)
  PROVE  /\ Chats(t) /\ Tells(p, t, n - Args(c)) /\ t.started
         /\ c.calls = <<>> => t = s
         /\ c.calls # <<>> => /\ t.content /\ m + News(c) - 1 \in Calls
                              /\ t.tools[m + News(c) - 1] = t.index
<1> PICK h : h = HandleOpaqueInToolCalls(CloseThinking(s), c)
  OBVIOUS
<1>0. n \in Int
  BY TellsInt
<1>1. CASE c.calls = <<>>
  <2>1. t = s
    BY <1>1 DEF HandleToolCalls
  <2>2. n - Args(c) = n
    BY <1>0, <1>1, CountsOfNone
  <2> QED
    BY <1>1, <2>1, <2>2, Zenon
<1>2. c.calls # <<>> => /\ Chats(h) /\ Tells(p, h, n) /\ h.started /\ ~h.thinking
                        /\ IsToolBlockOpen(s) => h = s
  BY CallsHeadTells
<1> PICK a : a = HandleToolCall(h, c.calls[1])
  OBVIOUS
<1>3. ASSUME NEW e, c.calls = <<e>>, e.index \in Calls, e.args \in BOOLEAN,
             e.index = IF e.new THEN m ELSE m - 1
      PROVE  /\ Chats(t) /\ Tells(p, t, n - Args(c)) /\ t.started /\ t.content
             /\ m + News(c) - 1 = e.index /\ t.tools[e.index] = t.index
  <2>1. /\ Args(c) = One(e.args) /\ News(c) = One(e.new)
        /\ Len(c.calls) = 1 /\ c.calls # <<>> /\ c.calls[1] = e
    BY <1>3, CountsOfOne
  <2>2. t = HandleToolCall(h, e)
    <3>1. 1 \in 1 .. 2
      OBVIOUS
    <3> QED
      BY <2>1, <3>1, CallsUnfold
  <2>3. ~e.new => h.content /\ h.tools[e.index] = h.index
    <3> SUFFICES ASSUME ~e.new PROVE h.content /\ h.tools[e.index] = h.index
      OBVIOUS
    <3>1. 1 \in DOMAIN c.calls
      BY <1>3
    <3>2. s.content /\ s.tools[e.index] = s.index
      BY <1>3, <2>1, <3>1
    <3>3. IsToolBlockOpen(s)
      BY <1>3, <3>2 DEF IsToolBlockOpen
    <3> QED
      BY <1>2, <2>1, <3>2, <3>3
  <2>4. m + News(c) - 1 = e.index
    BY <1>3, <2>1 DEF One
  <2>5. /\ Chats(t) /\ Tells(p, t, n - One(e.args)) /\ t.started
        /\ t.content /\ t.tools[e.index] = t.index
    BY <1>2, <1>3, <2>1, <2>2, <2>3, CallTells
  <2> QED
    BY <2>1, <2>4, <2>5, Zenon
<1>4. ASSUME m \in Calls, m + 1 \in Calls,
             c.calls = <<Call(m, TRUE, TRUE), Call(m + 1, TRUE, TRUE)>>
      PROVE  /\ Chats(t) /\ Tells(p, t, n - Args(c)) /\ t.started /\ t.content
             /\ m + News(c) - 1 = m + 1 /\ t.tools[m + 1] = t.index
  <2>1. /\ Args(c) = 2 /\ News(c) = 2
        /\ Len(c.calls) = 2 /\ c.calls # <<>>
        /\ c.calls[1].index = m /\ c.calls[1].new /\ c.calls[1].args = TRUE
        /\ c.calls[2].index = m + 1 /\ c.calls[2].new /\ c.calls[2].args = TRUE
    BY <1>4, CountsOfTwo
  <2> PICK one, two : one = c.calls[1] /\ two = c.calls[2]
    <3>1. c.calls[1] = c.calls[1] /\ c.calls[2] = c.calls[2]
      OBVIOUS
    <3> QED
      BY <3>1, Zenon
  <2>2. t = HandleToolCall(a, two)
    <3>1. 2 \in 1 .. 2
      OBVIOUS
    <3> QED
      BY <2>1, <3>1, CallsUnfold
  <2>3. /\ Chats(a) /\ Tells(p, a, n - One(one.args)) /\ a.started /\ ~a.thinking
    BY <1>2, <1>4, <2>1, CallTells
  <2> PICK k : k = n - One(one.args)
    OBVIOUS
  <2>7. two.new /\ two.index \in Calls /\ two.args \in BOOLEAN /\ Tells(p, a, k)
    BY <1>4, <2>1, <2>3
  <2>8. /\ Chats(t) /\ Tells(p, t, k - One(two.args)) /\ t.started
        /\ t.content /\ t.tools[two.index] = t.index
    BY <2>2, <2>3, <2>7, CallTells
  <2>4. /\ Chats(t) /\ Tells(p, t, (n - One(one.args)) - One(two.args)) /\ t.started
        /\ t.content /\ t.tools[two.index] = t.index
    BY <2>8
  <2>5. (n - One(one.args)) - One(two.args) = n - Args(c)
    BY <1>0, <2>1 DEF One
  <2>6. m + News(c) - 1 = m + 1
    BY <2>1
  <2> QED
    BY <2>1, <2>4, <2>5, <2>6, Zenon
<1>6. CASE \E args \in BOOLEAN : c.calls = <<Call(m, TRUE, args)>> /\ m \in Calls
  <2>1. \E e : c.calls = <<e>> /\ e.index = m /\ e.new /\ e.args \in BOOLEAN
    <3> PICK args \in BOOLEAN : c.calls = <<Call(m, TRUE, args)>>
      BY <1>6
    <3>1. LET e == Call(m, TRUE, args) IN c.calls = <<e>> /\ e.index = m /\ e.new /\ e.args \in BOOLEAN
      BY DEF Call
    <3> QED
      BY <3>1
  <2> PICK e : c.calls = <<e>> /\ e.index = m /\ e.new /\ e.args \in BOOLEAN
    BY <2>1
  <2>2. e.index \in Calls /\ c.calls # <<>>
    BY <1>6
  <2> QED
    BY <1>3, <2>2
<1>7. CASE c.calls = <<Call(m - 1, FALSE, TRUE)>> /\ m - 1 \in Calls
  <2> PICK e : e = Call(m - 1, FALSE, TRUE)
    OBVIOUS
  <2>1. e.index = m - 1 /\ ~e.new /\ e.args \in BOOLEAN /\ c.calls = <<e>> /\ c.calls # <<>>
    BY <1>7 DEF Call
  <2> QED
    BY <1>3, <1>7, <2>1
<1>8. CASE c.calls = <<Call(m, TRUE, TRUE), Call(m + 1, TRUE, TRUE)>> /\ m \in Calls /\ m + 1 \in Calls
  BY <1>4, <1>8
<1> QED
  BY <1>1, <1>6, <1>7, <1>8 DEF Shape

LEMMA FinishTells ==
  ASSUME NEW p, NEW s, NEW n, Chats(s), Tells(p, s, n), s.started,
         NEW c, NEW t, t = HandleFinish(s, c)
  PROVE  /\ Chats(t)
         /\ ~c.finish => t = s
         /\ c.finish => \E b \in Nat, w \in 0 .. MaxWhitespace :
                          Leads(p, t.out, Place("stopped", b, NoBlock, w, n))
<1>1. CASE ~c.finish
  <2>1. t = s
    BY <1>1 DEF HandleFinish
  <2> QED
    BY <1>1, <2>1
<1>2. CASE c.finish
  <2> PICK u : u = CloseThinking(s)
    OBVIOUS
  <2> PICK v : v = CloseContent(u)
    OBVIOUS
  <2>1. Chats(u) /\ Tells(p, u, n) /\ ~u.thinking /\ u.started
    BY CloseThinkingTells
  <2>2. Chats(v) /\ Tells(p, v, n) /\ ~v.content /\ v.started /\ ~v.thinking
    BY <2>1, CloseContentTells
  <2> PICK w \in 0 .. MaxWhitespace : Leads(p, v.out, ChatPlace(v, w, n))
    BY <2>2 DEF Tells
  <2> PICK i : i = v.index
    OBVIOUS
  <2>3. v \in ChatStates /\ i \in Nat /\ i + 0 = i /\ v.out \in Seq(Events)
    BY <2>2 DEF Chats, ChatStates
  <2>4. Leads(p, v.out, Place("started", i, NoBlock, w, n))
    BY <2>2, <2>3 DEF ChatPlace, ChatOpen
  <2> DEFINE o1 == v.out \o <<MessageDelta>>
             o2 == o1 \o <<MessageStop>>
             o == v.out \o <<MessageDelta, MessageStop>>
  <2>5. o1 \in Seq(Events) /\ Leads(p, o1, Place("finishing", i, NoBlock, w, n))
    BY <2>3, <2>4, SayPlain
  <2>6. MessageDelta \in Events /\ MessageStop \in Events
    BY EventsAreSome
  <2>7. o = o2
    BY <2>3, <2>6, PushedApart
  <2> HIDE DEF o1
  <2>8. o2 \in Seq(Events) /\ Leads(p, o2, Place("stopped", i, NoBlock, w, n))
    BY <2>5, SayPlain
  <2>9. t = [v EXCEPT !.out = o]
    BY <1>2 DEF HandleFinish, Push
  <2> HIDE DEF o, o2
  <2>10. Chats(t) /\ t.out = o
    BY <2>2, <2>7, <2>8, <2>9, AlikeChats
  <2> QED
    BY <1>2, <2>3, <2>7, <2>8, <2>10
<1> QED
  BY <1>1, <1>2

\* What the translator's blocks have to do with what the upstream said last
ChatLink(s, kind, m) ==
  /\ kind \in {"none", "text", "call"}
  /\ kind = "none" => ~s.content
  /\ kind = "text" => s.content /\ ~IsToolBlockOpen(s)
  /\ kind = "call" => s.content /\ m - 1 \in Calls /\ s.tools[m - 1] = s.index

LEMMA LinkByCall ==
  ASSUME NEW s, NEW m, NEW j, j = m - 1, s.content, j \in Calls, s.tools[j] = s.index
  PROVE  ChatLink(s, "call", m)
  BY DEF ChatLink

Chunk == [reasoning : BOOLEAN, opaque : BOOLEAN, content : {"none", "empty", "text"},
          calls : Seq([index : Int, new : BOOLEAN, args : BOOLEAN]), finish : BOOLEAN]

\* Orderly, after what was said last
InOrder(c, kind) ==
  /\ (\E i \in DOMAIN c.calls : ~c.calls[i].new) =>
       kind = "call" /\ c.content # "text" /\ ~c.reasoning
  /\ c.calls # <<>> /\ c.opaque => kind # "call"
  /\ c.reasoning /\ c.content = "text" => kind = "none"

Pieces(c) == One(c.reasoning) + One(c.content = "text") + Args(c)

KindAfter(c, kind) ==
  IF c.calls # <<>> THEN "call"
  ELSE IF c.content = "text" \/ (c.reasoning /\ kind # "none") THEN "text"
  ELSE kind

LEMMA AsContentIs ==
  ASSUME NEW s, NEW c \in Chunk, NEW kind, InOrder(c, kind), s.content => kind # "none",
         NEW d, d = AsContent(s, c)
  PROVE  /\ d \in Chunk /\ d.calls = c.calls /\ d.opaque = c.opaque /\ d.finish = c.finish
         /\ d.reasoning => ~s.content
         /\ Pieces(d) = Pieces(c)
         /\ ~(c.reasoning /\ s.content) => d = c
         /\ c.reasoning /\ s.content => d.content = "text"
<1>1. CASE c.reasoning /\ s.content
  <2>1. d = [c EXCEPT !.content = "text", !.reasoning = FALSE]
    BY <1>1 DEF AsContent
  <2>2. /\ d \in Chunk /\ d.calls = c.calls /\ d.opaque = c.opaque /\ d.finish = c.finish
        /\ d.content = "text" /\ d.reasoning = FALSE
    BY <2>1 DEF Chunk
  <2>3. c.content # "text"
    BY <1>1 DEF InOrder
  <2>4. One(d.reasoning) = 0 /\ One(d.content = "text") = 1
        /\ One(c.reasoning) = 1 /\ One(c.content = "text") = 0
    BY <1>1, <2>2, <2>3 DEF One
  <2>5. Args(d) = Args(c)
    BY <2>2 DEF Args
  <2>6. One(d.reasoning) + One(d.content = "text") = One(c.reasoning) + One(c.content = "text")
    BY <2>4
  <2>7. Pieces(d) = Pieces(c)
    BY <2>5, <2>6, Zenon DEF Pieces
  <2> QED
    BY <1>1, <2>2, <2>7
<1>2. CASE ~(c.reasoning /\ s.content)
  <2>1. d = c
    BY <1>2 DEF AsContent
  <2>2. d \in Chunk /\ Pieces(d) = Pieces(c)
    BY <2>1, Zenon
  <2>3. d.calls = c.calls /\ d.opaque = c.opaque /\ d.finish = c.finish /\ d.reasoning = c.reasoning
    BY <2>1, Zenon
  <2> QED
    BY <1>2, <2>1, <2>2, <2>3, Zenon
<1> QED
  BY <1>1, <1>2, Zenon

LEMMA CountsAreNumbers ==
  ASSUME NEW c, NEW m, Shape(c, m)
  PROVE  Args(c) \in Int /\ News(c) \in Int
<1>1. \A b : One(b) \in Int
  BY DEF One
<1>2. CASE c.calls = <<>>
  BY <1>2, CountsOfNone
<1>3. CASE c.calls = <<Call(m, TRUE, TRUE), Call(m + 1, TRUE, TRUE)>>
  <2>1. Args(c) = 2 /\ News(c) = 2
    BY <1>3, CountsOfTwo, Zenon
  <2> QED
    BY <2>1
<1>4. ASSUME NEW e, c.calls = <<e>>
      PROVE  Args(c) \in Int /\ News(c) \in Int
  <2>1. Args(c) = One(e.args) /\ News(c) = One(e.new)
    BY <1>4, CountsOfOne
  <2> QED
    BY <1>1, <2>1, Zenon
<1>5. \/ c.calls = <<>>
      \/ \E e : c.calls = <<e>>
      \/ c.calls = <<Call(m, TRUE, TRUE), Call(m + 1, TRUE, TRUE)>>
  BY Zenon DEF Shape
<1> QED
  BY <1>2, <1>3, <1>4, <1>5, Zenon

LEMMA TranslateTells ==
  ASSUME NEW p, NEW s, NEW n, Chats(s), Tells(p, s, n),
         NEW c \in Chunk, NEW kind, NEW m \in Nat, Shape(c, m), InOrder(c, kind), ChatLink(s, kind, m),
         NEW t, t = TranslateChunk(s, c)
  PROVE  /\ Chats(t)
         /\ ~c.finish => /\ Tells(p, t, n - Pieces(c)) /\ t.started
                         /\ ChatLink(t, KindAfter(c, kind), m + News(c))
         /\ c.finish => \E b \in Nat, w \in 0 .. MaxWhitespace :
                          Leads(p, t.out, Place("stopped", b, NoBlock, w, n - Pieces(c)))
<1> PICK s1 : s1 = HandleMessageStart(s)
  OBVIOUS
<1> PICK d : d = AsContent(s1, c)
  OBVIOUS
<1> PICK s2 : s2 = HandleThinkingText(s1, d)
  OBVIOUS
<1> PICK s3 : s3 = HandleContent(s2, d)
  OBVIOUS
<1> PICK s4 : s4 = HandleToolCalls(s3, d)
  OBVIOUS
<1>1. t = HandleFinish(s4, d)
  BY Zenon DEF TranslateChunk
<1>2. /\ Chats(s1) /\ Tells(p, s1, n) /\ s1.started
      /\ ChatLink(s1, kind, m)
  <2>1. /\ Chats(s1) /\ Tells(p, s1, n) /\ s1.started
        /\ (s1.content <=> s.content) /\ s1.tools = s.tools /\ s1.index = s.index
    BY MessageStartTells
  <2>2. IsToolBlockOpen(s1) <=> IsToolBlockOpen(s)
    BY <2>1 DEF IsToolBlockOpen
  <2> QED
    BY <2>1, <2>2 DEF ChatLink
<1>3. /\ d \in Chunk /\ d.calls = c.calls /\ d.opaque = c.opaque /\ d.finish = c.finish
      /\ d.reasoning => ~s1.content
      /\ Pieces(d) = Pieces(c)
      /\ ~(c.reasoning /\ s1.content) => d = c
      /\ c.reasoning /\ s1.content => d.content = "text"
  <2>1. s1.content => kind # "none"
    BY <1>2 DEF ChatLink
  <2> QED
    BY <2>1, AsContentIs
<1>4. d.reasoning \in BOOLEAN
  BY <1>3 DEF Chunk
<1> PICK n2 : n2 = n - One(d.reasoning)
  OBVIOUS
<1> PICK n3 : n3 = n2 - One(d.content = "text")
  OBVIOUS
<1>5. /\ Chats(s2) /\ Tells(p, s2, n2) /\ s2.started
      /\ s2.content = s1.content /\ s2.tools = s1.tools /\ s2.index = s1.index
  BY <1>2, <1>3, <1>4, ThinkingTextTells
<1>6. ChatLink(s2, kind, m)
  <2>1. IsToolBlockOpen(s2) <=> IsToolBlockOpen(s1)
    BY <1>5 DEF IsToolBlockOpen
  <2> QED
    BY <1>2, <1>5, <2>1 DEF ChatLink
<1>7. /\ Chats(s3) /\ Tells(p, s3, n3) /\ s3.started
      /\ s3.tools = s2.tools
      /\ d.content = "text" => s3.content /\ ~IsToolBlockOpen(s3)
      /\ d.content # "text" /\ s2.content => s3 = s2
      /\ d.content # "text" /\ ~s2.content => ~s3.content
  BY <1>5, ContentTells
<1>8. ChatLink(s3, IF d.content = "text" THEN "text" ELSE kind, m)
  <2>1. CASE d.content = "text"
    BY <1>7, <2>1 DEF ChatLink
  <2>2. CASE d.content # "text" /\ s2.content
    BY <1>6, <1>7, <2>2
  <2>3. CASE d.content # "text" /\ ~s2.content
    BY <1>6, <1>7, <2>3 DEF ChatLink
  <2> QED
    BY <2>1, <2>2, <2>3
<1>9. Shape(d, m)
  BY <1>3 DEF Shape
<1>10. d.calls # <<>> /\ d.opaque => ~IsToolBlockOpen(s3)
  <2> SUFFICES ASSUME d.calls # <<>>, d.opaque PROVE ~IsToolBlockOpen(s3)
    OBVIOUS
  <2>1. kind # "call"
    BY <1>3 DEF InOrder
  <2> QED
    BY <1>8, <2>1 DEF ChatLink, IsToolBlockOpen
<1>11. (\E i \in DOMAIN d.calls : ~d.calls[i].new) => s3.content /\ s3.tools[m - 1] = s3.index
  <2> SUFFICES ASSUME \E i \in DOMAIN d.calls : ~d.calls[i].new
               PROVE  s3.content /\ s3.tools[m - 1] = s3.index
    OBVIOUS
  <2>1. kind = "call" /\ c.content # "text" /\ ~c.reasoning
    BY <1>3 DEF InOrder
  <2>2. d = c
    BY <1>3, <2>1
  <2> QED
    BY <1>8, <2>1, <2>2 DEF ChatLink
<1> PICK n4 : n4 = n3 - Args(d)
  OBVIOUS
<1>12. /\ Chats(s4) /\ Tells(p, s4, n4) /\ s4.started
       /\ d.calls = <<>> => s4 = s3
       /\ d.calls # <<>> => /\ s4.content /\ m + News(d) - 1 \in Calls
                            /\ s4.tools[m + News(d) - 1] = s4.index
  BY <1>7, <1>9, <1>10, <1>11, ToolCallsTells
<1>13. n4 = n - Pieces(c)
  <2>1. n \in Int /\ n4 \in Int
    BY <1>12, TellsInt
  <2>2. One(d.reasoning) \in Int /\ One(d.content = "text") \in Int
    BY DEF One
  <2>3. Args(d) \in Int
    BY <1>9, CountsAreNumbers
  <2>4. n4 = ((n - One(d.reasoning)) - One(d.content = "text")) - Args(d)
    OBVIOUS
  <2>5. n4 = n - (One(d.reasoning) + One(d.content = "text") + Args(d))
    BY <2>1, <2>2, <2>3, <2>4
  <2> QED
    BY <1>3, <2>5, Zenon DEF Pieces
<1>14. News(d) = News(c)
  BY <1>3 DEF News
<1>15. ChatLink(s4, KindAfter(c, kind), m + News(c))
  <2>1. CASE c.calls # <<>>
    <3>1. KindAfter(c, kind) = "call"
      BY <2>1 DEF KindAfter
    <3>2. d.calls # <<>>
      BY <1>3, <2>1, Zenon
    <3>3. s4.content /\ m + News(c) - 1 \in Calls /\ s4.tools[m + News(c) - 1] = s4.index
      BY <1>12, <1>14, <3>2, Zenon
    <3> PICK k : k = News(c)
      OBVIOUS
    <3>4. k \in Int
      BY <1>9, <1>14, CountsAreNumbers
    <3>5. m + k - 1 = (m + k) - 1
      BY <3>4
    <3>6. ChatLink(s4, "call", m + k)
      BY <3>3, <3>5, LinkByCall, Zenon
    <3> QED
      BY <3>1, <3>6, Zenon
  <2>2. CASE c.calls = <<>>
    <3>1. s4 = s3
      BY <1>3, <1>12, <2>2
    <3>2. News(c) = 0
      BY <2>2, CountsOfNone
    <3>3. m + News(c) = m
      BY <3>2
    <3>4. KindAfter(c, kind) = IF c.content = "text" \/ (c.reasoning /\ kind # "none") THEN "text" ELSE kind
      BY <2>2 DEF KindAfter
    <3>5. (IF d.content = "text" THEN "text" ELSE kind) = KindAfter(c, kind)
      <4>1. CASE kind = "none"
        <5>1. ~s1.content
          BY <1>2, <4>1 DEF ChatLink
        <5> QED
          BY <1>3, <3>4, <4>1, <5>1
      <4>2. CASE kind # "none"
        <5>1. s1.content
          BY <1>2, <4>2 DEF ChatLink
        <5> QED
          BY <1>3, <3>4, <4>2, <5>1
      <4> QED
        BY <4>1, <4>2
    <3> QED
      BY <1>8, <3>1, <3>3, <3>5
  <2> QED
    BY <2>1, <2>2
<1>16. /\ Chats(t)
       /\ ~d.finish => t = s4
       /\ d.finish => \E b \in Nat, w \in 0 .. MaxWhitespace :
                        Leads(p, t.out, Place("stopped", b, NoBlock, w, n4))
  BY <1>1, <1>12, FinishTells
<1> QED
  BY <1>3, <1>12, <1>13, <1>15, <1>16

-----------------------------------------------------------------------------
(* The Responses translator.                                               *)

RespStates ==
  [completed : BOOLEAN, next : Nat, keys : [Items \X Parts -> Int],
   open : SUBSET Nat, hasDelta : SUBSET Nat,
   calls : [Items -> [block : Int, blanks : Nat]], out : Seq(Events)]

\* One block at most is open, the last one.
Resps(s) ==
  /\ s \in RespStates
  /\ s.open = {} \/ (s.next > 0 /\ s.open = {s.next - 1})
  /\ s.hasDelta \subseteq s.open

RespOpen(s, k) == IF s.open = {} THEN NoBlock ELSE Block(s.next - 1, k)

\* From p, the events in s lead to where s is, with a block of kind k if any.
Reports(p, s, k, w, n) ==
  Leads(p, s.out, Place("started", s.next, RespOpen(s, k), w, n))

\* All but what concerns the blocks and what was pushed
Same(t, s) ==
  /\ t.completed = s.completed /\ t.next = s.next /\ t.keys = s.keys /\ t.calls = s.calls

LEMMA CloseOpenReports ==
  ASSUME NEW p, NEW s, Resps(s), NEW k \in Kinds, NEW w, NEW n, Reports(p, s, k, w, n),
         NEW t, t = CloseOpenBlocks(s)
  PROVE  /\ Resps(t) /\ Reports(p, t, k, w, n) /\ Same(t, s)
         /\ t.open = {} /\ t.hasDelta = {}
<1>1. CASE s.open = {}
  <2>1. t = s
    BY <1>1 DEF CloseOpenBlocks
  <2>2. s.hasDelta = {}
    BY <1>1 DEF Resps
  <2> QED
    BY <1>1, <2>1, <2>2, Zenon DEF Same
<1>2. CASE s.open # {}
  <2> PICK i : i = s.next - 1
    OBVIOUS
  <2>1. s.next \in Nat /\ i \in Nat /\ s.open = {i} /\ s.hasDelta \subseteq {i} /\ s.out \in Seq(Events)
    BY <1>2 DEF Resps, RespStates
  <2> DEFINE o == s.out \o <<BlockStop(i)>>
  <2>2. Leads(p, s.out, Place("started", s.next, Block(i, k), w, n))
    BY <1>2, Zenon DEF Reports, RespOpen
  <2>3. o \in Seq(Events) /\ Leads(p, o, Place("started", s.next, NoBlock, w, n))
    BY <2>1, <2>2, SayStop
  <2>4. (CHOOSE b \in s.open : TRUE) = i
    BY <2>1
  <2>5. t = [Push(s, <<BlockStop(i)>>) EXCEPT !.open = @ \ {i}, !.hasDelta = @ \ {i}]
    BY <1>2, <2>4 DEF CloseOpenBlocks
  <2>6. t = [[s EXCEPT !.out = o] EXCEPT !.open = @ \ {i}, !.hasDelta = @ \ {i}]
    BY <2>5 DEF Push
  <2> HIDE DEF o
  <2>7. t = [completed |-> s.completed, next |-> s.next, keys |-> s.keys, open |-> s.open \ {i},
             hasDelta |-> s.hasDelta \ {i}, calls |-> s.calls, out |-> o]
    BY <2>6 DEF Resps, RespStates
  <2>8. s.open \ {i} = {} /\ s.hasDelta \ {i} = {}
    BY <2>1
  <2>9. t.open = {} /\ t.hasDelta = {} /\ t.out = o
    BY <2>7, <2>8
  <2>10. Same(t, s)
    BY <2>7 DEF Same
  <2>11. t \in RespStates
    BY <2>3, <2>7, <2>8 DEF Resps, RespStates
  <2>12. Resps(t)
    BY <2>9, <2>11 DEF Resps
  <2>13. Reports(p, t, k, w, n)
    <3>1. t.next = s.next
      BY <2>10 DEF Same
    <3> QED
      BY <2>3, <2>9, <3>1, Zenon DEF Reports, RespOpen
  <2> QED
    BY <2>9, <2>10, <2>12, <2>13
<1> QED
  BY <1>1, <1>2

\* r is s, with one more block that has its number.
Numbered(r, s) ==
  /\ r.completed = s.completed /\ r.next = s.next + 1
  /\ r.open = s.open /\ r.hasDelta = s.hasDelta /\ r.out = s.out

\* Block b has just been opened.
Begun(t, b) == t.next = b + 1 /\ t.open = {b} /\ t.hasDelta = {}

\* A new block takes the place of the open one.
LEMMA FreshReports ==
  ASSUME NEW p, NEW s, Resps(s), NEW k \in Kinds, NEW w, NEW n, Reports(p, s, k, w, n),
         NEW r \in RespStates, Numbered(r, s),
         NEW kind \in Kinds
  PROVE  LET t == Reopen(r, s.next, kind)
         IN  /\ Resps(t) /\ Reports(p, t, kind, 0, n) /\ Same(t, r)
             /\ Begun(t, s.next)
<1> PICK b : b = s.next
  OBVIOUS
<1> PICK t : t = Reopen(r, b, kind)
  OBVIOUS
<1>1. b \in Nat /\ r.next = b + 1 /\ b \notin s.open
  BY DEF Resps, RespStates, Numbered
<1> PICK q : q = CloseOpenBlocks(s)
  OBVIOUS
<1>2. /\ Resps(q) /\ Reports(p, q, k, w, n) /\ Same(q, s)
      /\ q.open = {} /\ q.hasDelta = {}
  BY CloseOpenReports
<1> PICK v : v = CloseOpenBlocks(r)
  OBVIOUS
<1>3. v.open = {} /\ v.hasDelta = {} /\ v.out = q.out /\ v \in RespStates /\ Same(v, r)
  <2>1. CASE s.open = {}
    <3>1. v = r /\ q = s
      BY <2>1 DEF CloseOpenBlocks, Numbered
    <3>2. s.hasDelta = {}
      BY <2>1 DEF Resps
    <3> QED
      BY <2>1, <3>1, <3>2, Zenon DEF Same, Numbered
  <2>2. CASE s.open # {}
    <3> PICK i : i = s.next - 1
      OBVIOUS
    <3>1. s.open = {i} /\ s.hasDelta \subseteq {i} /\ s.out \in Seq(Events) /\ i \in Nat
      BY <2>2 DEF Resps, RespStates
    <3>2. (CHOOSE x \in s.open : TRUE) = i /\ (CHOOSE x \in r.open : TRUE) = i
      BY <3>1 DEF Numbered
    <3> DEFINE o == s.out \o <<BlockStop(i)>>
    <3>3. o \in Seq(Events)
      BY <3>1, EventsAreSome
    <3>4. q = [[s EXCEPT !.out = o] EXCEPT !.open = @ \ {i}, !.hasDelta = @ \ {i}]
      BY <2>2, <3>2 DEF CloseOpenBlocks, Push, Numbered
    <3>5. v = [[r EXCEPT !.out = o] EXCEPT !.open = @ \ {i}, !.hasDelta = @ \ {i}]
      BY <2>2, <3>2 DEF CloseOpenBlocks, Push, Numbered
    <3> HIDE DEF o
    <3>6. q.out = o
      BY <3>4 DEF Resps, RespStates
    <3>7. v = [completed |-> r.completed, next |-> r.next, keys |-> r.keys, open |-> r.open \ {i},
               hasDelta |-> r.hasDelta \ {i}, calls |-> r.calls, out |-> o]
      BY <3>5 DEF RespStates
    <3>8. r.open \ {i} = {} /\ r.hasDelta \ {i} = {}
      BY <3>1 DEF Numbered
    <3>9. v \in RespStates
      BY <3>3, <3>7, <3>8 DEF RespStates
    <3>10. v.open = {} /\ v.hasDelta = {} /\ v.out = o
      BY <3>7, <3>8
    <3>11. Same(v, r)
      BY <3>7 DEF Same
    <3> QED
      BY <3>6, <3>9, <3>10, <3>11
  <2> QED
    BY <2>1, <2>2
<1>4. Leads(p, q.out, Place("started", b, NoBlock, w, n))
  BY <1>2, Zenon DEF Reports, RespOpen, Same
<1> DEFINE o == q.out \o <<BlockStart(b, kind)>>
<1>5. q.out \in Seq(Events)
  BY <1>2 DEF Resps, RespStates
<1>6. o \in Seq(Events) /\ Leads(p, o, Place("started", b + 1, Block(b, kind), 0, n))
  BY <1>4, <1>5, SayStart
<1>7. t = [[v EXCEPT !.out = o] EXCEPT !.open = @ \cup {b}]
  BY <1>1, <1>3 DEF Reopen, Push, Numbered
<1> HIDE DEF o
<1>8. t = [completed |-> v.completed, next |-> v.next, keys |-> v.keys, open |-> v.open \cup {b},
           hasDelta |-> v.hasDelta, calls |-> v.calls, out |-> o]
  BY <1>3, <1>7 DEF RespStates
<1>9. v.open \cup {b} = {b}
  BY <1>3
<1>10. t.open = {b} /\ t.hasDelta = {} /\ t.out = o
  BY <1>3, <1>8, <1>9
<1>11. Same(t, r)
  BY <1>3, <1>8 DEF Same
<1>12. t \in RespStates
  BY <1>1, <1>3, <1>6, <1>8, <1>9 DEF RespStates
<1>13. t.next = b + 1
  BY <1>1, <1>11 DEF Same
<1>14. Resps(t)
  BY <1>1, <1>10, <1>12, <1>13 DEF Resps
<1>15. Reports(p, t, kind, 0, n)
  <2>1. t.next - 1 = b /\ t.open # {}
    BY <1>1, <1>10, <1>13
  <2> QED
    BY <1>6, <1>10, <1>13, <2>1, Zenon DEF Reports, RespOpen
<1>16. Begun(t, s.next)
  BY <1>10, <1>13 DEF Begun
<1>17. /\ Resps(t) /\ Reports(p, t, kind, 0, n) /\ Same(t, r)
       /\ Begun(t, s.next) /\ t = Reopen(r, s.next, kind)
  BY <1>11, <1>14, <1>15, <1>16
<1> QED
  BY <1>17, Zenon

\* What a delta makes of the run of blanks and of the fragments to come
Weighs(x, w, n, v, m) ==
  \/ x \in {"piece", "whole"} /\ v = 0 /\ m = n - 1
  \/ x \in {"filler", "signature"} /\ v = 0 /\ m = n
  \/ x = "blank" /\ w < MaxWhitespace /\ v = w + 1 /\ m = n - 1

\* Block b, the last one, is open; and it had a delta.
Current(s, b) == b = s.next - 1 /\ s.open = {b}

Streamed(s, b) == s.hasDelta = {b}

\* A delta goes to the open block.
LEMMA DeltaReports ==
  ASSUME NEW p, NEW s, Resps(s), NEW k \in Kinds, NEW w, NEW n, Reports(p, s, k, w, n),
         NEW b, Current(s, b), NEW x \in Payloads, NEW v, NEW m,
         Weighs(x, w, n, v, m),
         NEW o, o = s.out \o <<BlockDelta(b, k, x)>>
  PROVE  o \in Seq(Events) /\ Leads(p, o, Place("started", s.next, Block(b, k), v, m))
<1>1. b \in Nat /\ b = s.next - 1 /\ s.out \in Seq(Events) /\ s.open # {}
  BY DEF Resps, RespStates, Current
<1>2. Leads(p, s.out, Place("started", s.next, Block(b, k), w, n))
  BY <1>1, Zenon DEF Reports, RespOpen
<1>3. CASE x \in {"piece", "whole"}
  <2>1. v = 0 /\ m = n - 1
    BY <1>3 DEF Weighs
  <2> QED
    BY <1>1, <1>2, <1>3, <2>1, SayContent
<1>4. CASE x \in {"filler", "signature"}
  <2>1. v = 0 /\ m = n
    BY <1>4 DEF Weighs
  <2> QED
    BY <1>1, <1>2, <1>4, <2>1, SayQuiet
<1>5. CASE x = "blank"
  <2>1. w < MaxWhitespace /\ v = w + 1 /\ m = n - 1
    BY <1>5 DEF Weighs
  <2>2. x \in Content
    BY <1>5 DEF Content
  <2>3. /\ o \in Seq(Events)
        /\ Leads(p, o, Place("started", s.next, Block(b, k), IF x = "blank" THEN w + 1 ELSE 0,
                             n - IF x \in Content THEN 1 ELSE 0))
    BY <1>1, <1>2, <2>1, SayDelta
  <2>4. (IF x = "blank" THEN w + 1 ELSE 0) = v /\ n - (IF x \in Content THEN 1 ELSE 0) = m
    BY <1>5, <2>1, <2>2
  <2> QED
    BY <2>3, <2>4, Zenon
<1> QED
  BY <1>3, <1>4, <1>5 DEF Weighs

\* The same, with the event in the translator's state
LEMMA PushReports ==
  ASSUME NEW p, NEW s, Resps(s), NEW k \in Kinds, NEW w, NEW n, Reports(p, s, k, w, n),
         NEW b, Current(s, b), NEW x \in Payloads, NEW v, NEW m,
         Weighs(x, w, n, v, m), NEW t, t = Push(s, <<BlockDelta(b, k, x)>>)
  PROVE  /\ Resps(t) /\ Reports(p, t, k, v, m) /\ Same(t, s)
         /\ Current(t, b)
<1> DEFINE o == s.out \o <<BlockDelta(b, k, x)>>
<1>1. o \in Seq(Events) /\ Leads(p, o, Place("started", s.next, Block(b, k), v, m))
  BY DeltaReports
<1>2. b \in Nat /\ s.hasDelta \subseteq {b} /\ s \in RespStates /\ b = s.next - 1 /\ s.open = {b}
  BY DEF Resps, RespStates, Current
<1>3. t = [s EXCEPT !.out = o]
  BY DEF Push
<1> HIDE DEF o
<1>4. t = [completed |-> s.completed, next |-> s.next, keys |-> s.keys, open |-> s.open,
           hasDelta |-> s.hasDelta, calls |-> s.calls, out |-> o]
  BY <1>2, <1>3 DEF RespStates
<1>5. t.hasDelta = s.hasDelta /\ t.open = {b} /\ t.out = o
  BY <1>2, <1>4
<1>6. Same(t, s)
  BY <1>4 DEF Same
<1>7. t \in RespStates
  BY <1>1, <1>2, <1>3 DEF RespStates
<1>8. t.next = s.next
  BY <1>6 DEF Same
<1>9. Resps(t)
  BY <1>2, <1>5, <1>7, <1>8 DEF Resps
<1>10. RespOpen(t, k) = Block(b, k)
  BY <1>2, <1>5, <1>8 DEF RespOpen
<1>11. Reports(p, t, k, v, m)
  BY <1>1, <1>5, <1>8, <1>10, Zenon DEF Reports
<1>12. Current(t, b)
  BY <1>2, <1>5, <1>8 DEF Current
<1> QED
  BY <1>6, <1>9, <1>11, <1>12

\* The same, and the state keeps that the block had a delta.
LEMMA PushDeltaReports ==
  ASSUME NEW p, NEW s, Resps(s), NEW k \in Kinds, NEW w, NEW n, Reports(p, s, k, w, n),
         NEW b, Current(s, b), NEW x \in Payloads, NEW v, NEW m,
         Weighs(x, w, n, v, m), NEW t, t = PushDelta(s, b, k, x)
  PROVE  /\ Resps(t) /\ Reports(p, t, k, v, m) /\ Same(t, s)
         /\ Current(t, b) /\ Streamed(t, b)
<1> DEFINE o == s.out \o <<BlockDelta(b, k, x)>>
<1>1. o \in Seq(Events) /\ Leads(p, o, Place("started", s.next, Block(b, k), v, m))
  BY DeltaReports
<1>2. b \in Nat /\ s.hasDelta \subseteq {b} /\ s \in RespStates /\ b = s.next - 1 /\ s.open = {b}
  BY DEF Resps, RespStates, Current
<1>3. t = [[s EXCEPT !.out = o] EXCEPT !.hasDelta = @ \cup {b}]
  BY DEF PushDelta, Push
<1> HIDE DEF o
<1>4. t = [completed |-> s.completed, next |-> s.next, keys |-> s.keys, open |-> s.open,
           hasDelta |-> s.hasDelta \cup {b}, calls |-> s.calls, out |-> o]
  BY <1>2, <1>3 DEF RespStates
<1>5. t.hasDelta = {b} /\ t.open = {b} /\ t.out = o
  BY <1>2, <1>4
<1>6. Same(t, s)
  BY <1>4 DEF Same
<1>7. t \in RespStates
  BY <1>1, <1>2, <1>4 DEF RespStates
<1>8. t.next = s.next
  BY <1>6 DEF Same
<1>9. Resps(t)
  BY <1>2, <1>5, <1>7, <1>8 DEF Resps
<1>10. RespOpen(t, k) = Block(b, k)
  BY <1>2, <1>5, <1>8 DEF RespOpen
<1>11. Reports(p, t, k, v, m)
  BY <1>1, <1>5, <1>8, <1>10, Zenon DEF Reports
<1>12. Current(t, b) /\ Streamed(t, b)
  BY <1>2, <1>5, <1>8 DEF Current, Streamed
<1> QED
  BY <1>6, <1>9, <1>11, <1>12

\* OpenTextBlock and OpenThinkingBlock
OpenBlock(s, i, j, kind) ==
  LET r == KnownBlock(s, i, j) IN Reopen(r, r.keys[<<i, j>>], kind)

\* Block j of item i has the next number, and nothing else has changed.
Keyed(t, s, i, j) ==
  /\ t.next = s.next + 1 /\ t.calls = s.calls /\ t.keys[<<i, j>>] = s.next
  /\ \A x \in Items, y \in Parts :
       x # i \/ y # j => t.keys[<<x, y>>] = s.keys[<<x, y>>]

LEMMA NewKey ==
  ASSUME NEW s, Resps(s), NEW i \in Items, NEW j \in Parts, s.keys[<<i, j>>] = NoBlockIndex,
         NEW r, r = KnownBlock(s, i, j)
  PROVE  /\ r \in RespStates /\ Numbered(r, s) /\ (~s.completed => ~r.completed)
         /\ Keyed(r, s, i, j)
<1> PICK b : b = s.next
  OBVIOUS
<1> DEFINE K == [s.keys EXCEPT ![<<i, j>>] = b]
<1>1. s \in RespStates /\ b \in Nat /\ <<i, j>> \in Items \X Parts
  BY DEF Resps, RespStates
<1>2. r = [s EXCEPT !.keys[<<i, j>>] = b, !.next = @ + 1]
  BY DEF KnownBlock
<1>3. K \in [Items \X Parts -> Int] /\ K[<<i, j>>] = b
  BY <1>1 DEF RespStates
<1>4. r = [completed |-> s.completed, next |-> b + 1, keys |-> K, open |-> s.open,
           hasDelta |-> s.hasDelta, calls |-> s.calls, out |-> s.out]
  BY <1>1, <1>2 DEF RespStates
<1> HIDE DEF K
<1>5. r \in RespStates
  BY <1>1, <1>3, <1>4 DEF RespStates
<1>6. Numbered(r, s) /\ (~s.completed => ~r.completed) /\ r.next = b + 1
      /\ r.keys = K /\ r.calls = s.calls
  BY <1>4 DEF Numbered
<1>7. ASSUME NEW x \in Items, NEW y \in Parts, x # i \/ y # j
      PROVE  r.keys[<<x, y>>] = s.keys[<<x, y>>]
  <2>1. <<x, y>> \in Items \X Parts /\ <<x, y>> # <<i, j>>
    BY <1>7
  <2>2. s.keys \in [Items \X Parts -> Int]
    BY <1>1 DEF RespStates
  <2> QED
    BY <1>6, <2>1, <2>2 DEF K
<1>8. Keyed(r, s, i, j)
  BY <1>3, <1>6, <1>7 DEF Keyed
<1> QED
  BY <1>5, <1>6, <1>8

\* A text or thinking block seen for the first time
LEMMA FreshBlock ==
  ASSUME NEW p, NEW s, Resps(s), NEW k \in Kinds, NEW w, NEW n, Reports(p, s, k, w, n),
         NEW i \in Items, NEW j \in Parts, s.keys[<<i, j>>] = NoBlockIndex, NEW kind \in Kinds,
         NEW z, z = OpenBlock(s, i, j, kind)
  PROVE  /\ Resps(z) /\ Reports(p, z, kind, 0, n) /\ (~s.completed => ~z.completed)
         /\ Keyed(z, s, i, j) /\ Begun(z, s.next)
<1> DEFINE r == KnownBlock(s, i, j)
           t == Reopen(r, s.next, kind)
<1>1. /\ r \in RespStates /\ Numbered(r, s) /\ (~s.completed => ~r.completed)
      /\ Keyed(r, s, i, j)
  BY NewKey
<1>2. OpenBlock(s, i, j, kind) = t
  BY <1>1, Zenon DEF OpenBlock, Keyed
<1> HIDE DEF r
<1>3. /\ Resps(t) /\ Reports(p, t, kind, 0, n) /\ Same(t, r)
      /\ Begun(t, s.next)
  BY <1>1, FreshReports
<1> HIDE DEF t
<1>4. (~r.completed => ~t.completed) /\ (Keyed(r, s, i, j) => Keyed(t, s, i, j))
  BY <1>3 DEF Same, Keyed
<1>5. /\ Resps(t) /\ Reports(p, t, kind, 0, n) /\ (~s.completed => ~t.completed)
      /\ Keyed(t, s, i, j) /\ Begun(t, s.next)
  BY <1>1, <1>3, <1>4
<1> QED
  BY <1>2, <1>5, Zenon

\* One that is open is found again.
LEMMA KnownBlockStays ==
  ASSUME NEW s, Resps(s), NEW i, NEW j, s.keys[<<i, j>>] \in s.open, NEW kind,
         NEW t, t = OpenBlock(s, i, j, kind)
  PROVE  t = s
<1> PICK b : b = s.keys[<<i, j>>]
  OBVIOUS
<1>1. b # NoBlockIndex
  BY DEF Resps, RespStates, NoBlockIndex
<1>2. KnownBlock(s, i, j) = s
  BY <1>1 DEF KnownBlock
<1> QED
  BY <1>2 DEF Reopen, OpenBlock

WithCall(s, i, b) ==
  [s EXCEPT !.calls[i] = [block |-> b, blanks |-> 0], !.next = @ + 1]

\* A call's block seen for the first time
LEMMA FreshCall ==
  ASSUME NEW p, NEW s, Resps(s), NEW k \in Kinds, NEW w, NEW n, Reports(p, s, k, w, n),
         NEW i \in Items, s.calls[i] = NoCall, NEW t, t = OpenFunctionCallBlock(s, i)
  PROVE  /\ Resps(t) /\ Reports(p, t, "tool_use", 0, n) /\ (~s.completed => ~t.completed)
         /\ Begun(t, s.next)
         /\ t.keys = s.keys /\ t.calls[i].block = s.next /\ t.calls[i].blanks = 0
         /\ \A l \in Items \ {i} : t.calls[l] = s.calls[l]
<1> PICK b : b = s.next
  OBVIOUS
<1> DEFINE C == [s.calls EXCEPT ![i] = [block |-> b, blanks |-> 0]]
<1>1. s \in RespStates /\ b \in Nat
  BY DEF Resps, RespStates
<1> PICK r : r = WithCall(s, i, b)
  OBVIOUS
<1>2. t = Reopen(r, r.calls[i].block, "tool_use")
  BY DEF OpenFunctionCallBlock, WithCall
<1>3. /\ C \in [Items -> [block : Int, blanks : Nat]]
      /\ C[i].block = b /\ C[i].blanks = 0 /\ \A l \in Items \ {i} : C[l] = s.calls[l]
  BY <1>1 DEF RespStates
<1>4. r = [completed |-> s.completed, next |-> b + 1, keys |-> s.keys, open |-> s.open,
           hasDelta |-> s.hasDelta, calls |-> C, out |-> s.out]
  BY <1>1 DEF RespStates, WithCall
<1> HIDE DEF C
<1>5. r \in RespStates
  BY <1>1, <1>3, <1>4 DEF RespStates
<1>6. Numbered(r, s) /\ (~s.completed => ~r.completed) /\ r.next = b + 1
      /\ r.keys = s.keys /\ r.calls = C
  BY <1>4 DEF Numbered
<1> PICK kind : kind = "tool_use"
  OBVIOUS
<1>7. t = Reopen(r, s.next, kind)
  BY <1>2, <1>3, <1>6, Zenon
<1>8. kind \in Kinds
  BY DEF Kinds
<1>9. /\ Resps(t) /\ Reports(p, t, kind, 0, n) /\ Same(t, r)
      /\ Begun(t, s.next)
  BY <1>5, <1>6, <1>7, <1>8, FreshReports
<1>10. (~r.completed => ~t.completed) /\ t.next = r.next /\ t.keys = r.keys /\ t.calls = r.calls
  BY <1>9 DEF Same
<1> QED
  BY <1>1, <1>3, <1>6, <1>9, <1>10

LEMMA KnownCallStays ==
  ASSUME NEW s, Resps(s), NEW i, s.calls[i] # NoCall, s.calls[i].block \in s.open,
         NEW t, t = OpenFunctionCallBlock(s, i)
  PROVE  t = s
  BY DEF OpenFunctionCallBlock, Reopen

InText(u) == u.kind \in {"text", "text_over"}

\* Only what the upstream has begun has a block, and only the call that it is
\* at is kept as one.
KeysFit(s, u) ==
  \A i \in Items, j \in Parts :
    s.keys[<<i, j>>] # NoBlockIndex =>
      /\ i < u.items
      /\ i = u.items - 1 /\ InText(u) => j <= u.part

CallsFit(s, u) ==
  \A i \in Items : s.calls[i] # NoCall => u.kind = "call" /\ i = u.items - 1

\* What the upstream is at is the open block.
BlockFits(s, u, k, w) ==
  LET i == u.items - 1
      b == s.next - 1
  IN  /\ u.kind = "call" =>
           /\ k = "tool_use" /\ Current(s, b) /\ s.calls[i].block = b
           /\ w = s.calls[i].blanks /\ (u.said <=> Streamed(s, b))
      /\ u.kind = "text" =>
           k = "text" /\ Current(s, b) /\ s.keys[<<i, u.part>>] = b /\ Streamed(s, b)
      /\ u.kind = "thinking" =>
           k = "thinking" /\ Current(s, b) /\ s.keys[<<i, 0>>] = b /\ Streamed(s, b)
      /\ u.kind = "thinking_over" =>
           k = "thinking" /\ Current(s, b) /\ s.keys[<<i, 0>>] = b

\* What the translator has made goes with what the upstream has said: u.
Standing(p, s, u, k, w, n) ==
  /\ Resps(s) /\ ~s.completed /\ KeysFit(s, u) /\ CallsFit(s, u)
  /\ k \in Kinds /\ Reports(p, s, k, w, n)

Linked(p, s, u, n) == \E k, w : Standing(p, s, u, k, w, n) /\ BlockFits(s, u, k, w)

\* Block j of item i is the open one.
Placed(s, i, j) == Current(s, s.next - 1) /\ s.keys[<<i, j>>] = s.next - 1

\* From u the upstream has gone on, in v, to part j of item i.
Onward(u, v, i, j) ==
  /\ v.items = i + 1
  /\ InText(v) => v.part = j
  /\ i = u.items \/ (i = u.items - 1 /\ InText(u) /\ j = u.part + 1)

Numbers(u) == u.items \in Nat /\ u.part \in Nat

LEMMA ItemsAreNumbers ==
  Items \subseteq Nat /\ Parts \subseteq Nat /\ Cardinality(Items) \in Nat
  BY FS_CardinalityType, SizesAssumption

LEMMA SameFits ==
  ASSUME NEW s, NEW t, Same(t, s), NEW u
  PROVE  /\ KeysFit(s, u) => KeysFit(t, u)
         /\ CallsFit(s, u) => CallsFit(t, u)
         /\ t.next = s.next /\ t.keys = s.keys /\ t.calls = s.calls
         /\ t.completed = s.completed
  BY DEF Same, KeysFit, CallsFit

\* A text or thinking block that the upstream begins
LEMMA NewBlockLinked ==
  ASSUME NEW p, NEW s, NEW u, NEW n, Linked(p, s, u, n), Numbers(u), u.kind # "call",
         NEW v, NEW i \in Items, NEW j \in Parts, Onward(u, v, i, j),
         NEW kind \in Kinds,
         NEW t, t = OpenBlock(s, i, j, kind)
  PROVE  Standing(p, t, v, kind, 0, n) /\ Placed(t, i, j) /\ Begun(t, s.next)
<1> PICK k, w : Standing(p, s, u, k, w, n)
  BY DEF Linked
<1>1. Resps(s) /\ KeysFit(s, u) /\ CallsFit(s, u) /\ k \in Kinds /\ Reports(p, s, k, w, n)
  BY DEF Standing
<1>2. i \in Nat /\ j \in Nat /\ u.items \in Nat /\ u.part \in Nat
  BY ItemsAreNumbers DEF Numbers
<1>3. s.keys[<<i, j>>] = NoBlockIndex
  <2> SUFFICES ASSUME s.keys[<<i, j>>] # NoBlockIndex PROVE FALSE
    OBVIOUS
  <2>1. /\ i < u.items
        /\ i = u.items - 1 /\ InText(u) => j <= u.part
    BY <1>1 DEF KeysFit
  <2>2. i = u.items - 1 /\ InText(u) /\ j = u.part + 1
    BY <1>2, <2>1 DEF Onward
  <2> QED
    BY <1>2, <2>1, <2>2
<1>4. /\ Resps(t) /\ Reports(p, t, kind, 0, n) /\ (~s.completed => ~t.completed)
      /\ Keyed(t, s, i, j) /\ Begun(t, s.next)
  BY <1>1, <1>3, FreshBlock
<1>5. t.keys[<<i, j>>] = s.next /\ s.next \in Nat /\ t.next = s.next + 1 /\ t.calls = s.calls
  BY <1>1, <1>4 DEF Keyed, Resps, RespStates
<1>6. KeysFit(t, v)
  <2> SUFFICES ASSUME NEW x \in Items, NEW y \in Parts, t.keys[<<x, y>>] # NoBlockIndex
               PROVE  /\ x < v.items
                      /\ x = v.items - 1 /\ InText(v) => y <= v.part
    BY DEF KeysFit
  <2>1. x \in Nat /\ y \in Nat /\ v.items = i + 1
    BY ItemsAreNumbers DEF Onward
  <2>2. CASE x = i /\ y = j
    BY <1>2, <2>1, <2>2 DEF Onward
  <2>3. CASE ~(x = i /\ y = j)
    <3>1. s.keys[<<x, y>>] # NoBlockIndex
      BY <1>4, <2>3 DEF Keyed
    <3>2. /\ x < u.items
          /\ x = u.items - 1 /\ InText(u) => y <= u.part
      BY <1>1, <3>1 DEF KeysFit
    <3>3. CASE i = u.items
      BY <1>2, <2>1, <3>2, <3>3
    <3>4. CASE i = u.items - 1 /\ InText(u) /\ j = u.part + 1
      BY <1>2, <2>1, <3>2, <3>4 DEF Onward
    <3> QED
      BY <3>3, <3>4 DEF Onward
  <2> QED
    BY <2>2, <2>3
<1>7. CallsFit(t, v)
  BY <1>1, <1>5 DEF CallsFit
<1>8. ~t.completed
  BY <1>4 DEF Standing
<1>9. Placed(t, i, j)
  <2>1. t.next = s.next + 1 /\ t.open = {s.next}
    BY <1>4 DEF Begun
  <2>2. t.next - 1 = s.next
    BY <1>5
  <2> QED
    BY <1>5, <2>1, <2>2 DEF Placed, Current
<1>10. Standing(p, t, v, kind, 0, n)
  BY <1>4, <1>6, <1>7, <1>8 DEF Standing
<1> QED
  BY <1>4, <1>9, <1>10

\* A call that the upstream begins
Called(s, i) == Current(s, s.next - 1) /\ s.calls[i].block = s.next - 1

LEMMA NewCallLinked ==
  ASSUME NEW p, NEW s, NEW u, NEW n, Linked(p, s, u, n), Numbers(u), u.kind # "call",
         NEW v, NEW i \in Items, i = u.items, v.items = i + 1, v.kind = "call",
         NEW t, t = OpenFunctionCallBlock(s, i)
  PROVE  /\ Standing(p, t, v, "tool_use", 0, n) /\ Called(t, i) /\ Begun(t, s.next)
         /\ t.calls[i].blanks = 0
<1> PICK k, w : Standing(p, s, u, k, w, n)
  BY DEF Linked
<1>1. Resps(s) /\ KeysFit(s, u) /\ CallsFit(s, u) /\ k \in Kinds /\ Reports(p, s, k, w, n)
  BY DEF Standing
<1>2. s.calls[i] = NoCall
  BY <1>1 DEF CallsFit
<1>3. /\ Resps(t) /\ Reports(p, t, "tool_use", 0, n) /\ (~s.completed => ~t.completed)
      /\ Begun(t, s.next)
      /\ t.keys = s.keys /\ t.calls[i].block = s.next /\ t.calls[i].blanks = 0
      /\ \A l \in Items \ {i} : t.calls[l] = s.calls[l]
  BY <1>1, <1>2, FreshCall
<1>4. KeysFit(t, v)
  <2> SUFFICES ASSUME NEW x \in Items, NEW y \in Parts, t.keys[<<x, y>>] # NoBlockIndex
               PROVE  x < v.items /\ x # v.items - 1
    BY DEF KeysFit
  <2>1. s.keys[<<x, y>>] # NoBlockIndex
    BY <1>3, Zenon
  <2>2. x < u.items
    BY <1>1, <2>1 DEF KeysFit
  <2>3. x \in Nat /\ u.items \in Nat
    BY ItemsAreNumbers DEF Numbers
  <2> QED
    BY <2>2, <2>3
<1>5. CallsFit(t, v)
  <2> SUFFICES ASSUME NEW x \in Items, t.calls[x] # NoCall PROVE x = v.items - 1
    BY DEF CallsFit
  <2>1. CASE x = i
    <3>1. i \in Nat
      BY ItemsAreNumbers
    <3> QED
      BY <2>1, <3>1
  <2>2. CASE x # i
    BY <1>1, <1>3, <2>2 DEF CallsFit
  <2> QED
    BY <2>1, <2>2
<1>6. ~t.completed
  BY <1>3 DEF Standing
<1>7. s.next \in Nat
  BY <1>1 DEF Resps, RespStates
<1>8. Called(t, i)
  <2>1. t.next = s.next + 1 /\ t.open = {s.next}
    BY <1>3 DEF Begun
  <2>2. t.next - 1 = s.next
    BY <1>7, <2>1
  <2> QED
    BY <1>3, <2>1, <2>2 DEF Called, Current
<1>9. "tool_use" \in Kinds
  BY DEF Kinds
<1>10. Standing(p, t, v, "tool_use", 0, n)
  BY <1>3, <1>4, <1>5, <1>6, <1>9 DEF Standing
<1> QED
  BY <1>3, <1>8, <1>10

\* A delta to the open block
LEMMA StandingPush ==
  ASSUME NEW p, NEW s, NEW u, NEW k, NEW w, NEW n, Standing(p, s, u, k, w, n),
         NEW b, Current(s, b), NEW x \in Payloads, NEW y, NEW m, Weighs(x, w, n, y, m),
         NEW t, t = Push(s, <<BlockDelta(b, k, x)>>)
  PROVE  /\ Standing(p, t, u, k, y, m) /\ Current(t, b)
         /\ t.next = s.next /\ t.keys = s.keys /\ t.calls = s.calls
<1>1. /\ Resps(s) /\ ~s.completed /\ KeysFit(s, u) /\ CallsFit(s, u) /\ k \in Kinds
      /\ Reports(p, s, k, w, n)
  BY DEF Standing
<1>2. Resps(t) /\ Reports(p, t, k, y, m) /\ Same(t, s) /\ Current(t, b)
  BY <1>1, PushReports
<1>3. t.next = s.next /\ t.keys = s.keys /\ t.calls = s.calls /\ KeysFit(t, u) /\ CallsFit(t, u)
  BY <1>1, <1>2, SameFits
<1>4. ~t.completed
  BY <1>1, <1>2 DEF Same
<1> QED
  BY <1>1, <1>2, <1>3, <1>4 DEF Standing

LEMMA StandingPushDelta ==
  ASSUME NEW p, NEW s, NEW u, NEW k, NEW w, NEW n, Standing(p, s, u, k, w, n),
         NEW b, Current(s, b), NEW x \in Payloads, NEW y, NEW m, Weighs(x, w, n, y, m),
         NEW t, t = PushDelta(s, b, k, x)
  PROVE  /\ Standing(p, t, u, k, y, m) /\ Current(t, b) /\ Streamed(t, b)
         /\ t.next = s.next /\ t.keys = s.keys /\ t.calls = s.calls
<1>1. /\ Resps(s) /\ ~s.completed /\ KeysFit(s, u) /\ CallsFit(s, u) /\ k \in Kinds
      /\ Reports(p, s, k, w, n)
  BY DEF Standing
<1>2. Resps(t) /\ Reports(p, t, k, y, m) /\ Same(t, s) /\ Current(t, b) /\ Streamed(t, b)
  BY <1>1, PushDeltaReports
<1>3. t.next = s.next /\ t.keys = s.keys /\ t.calls = s.calls /\ KeysFit(t, u) /\ CallsFit(t, u)
  BY <1>1, <1>2, SameFits
<1>4. ~t.completed
  BY <1>1, <1>2 DEF Same
<1> QED
  BY <1>1, <1>2, <1>3, <1>4 DEF Standing

\* Deltas of the kinds there are
LEMMA Weights ==
  /\ \A w, n : /\ Weighs("piece", w, n, 0, n - 1) /\ Weighs("whole", w, n, 0, n - 1)
               /\ Weighs("filler", w, n, 0, n) /\ Weighs("signature", w, n, 0, n)
  /\ \A w, n : w < MaxWhitespace => Weighs("blank", w, n, w + 1, n - 1)
  /\ {"piece", "whole", "filler", "signature", "blank"} \subseteq Payloads
  BY DEF Weighs, Payloads, Content

LEMMA OneLess == \A i \in Nat : \A x : x = i + 1 => x - 1 = i
  OBVIOUS

\* How the upstream's place is met
LEMMA FitsText ==
  ASSUME NEW s, NEW u, NEW i \in Nat, u.items = i + 1, u.kind = "text", NEW j, u.part = j,
         Placed(s, i, j), Streamed(s, s.next - 1), NEW w
  PROVE  BlockFits(s, u, "text", w)
<1>1. u.items - 1 = i
  BY OneLess, Zenon
<1>2. Current(s, s.next - 1) /\ s.keys[<<u.items - 1, u.part>>] = s.next - 1
  BY <1>1 DEF Placed
<1>3. u.kind # "call" /\ u.kind # "thinking" /\ u.kind # "thinking_over"
  OBVIOUS
<1> QED
  BY <1>2, <1>3, Zenon DEF BlockFits

LEMMA FitsThinking ==
  ASSUME NEW s, NEW u, NEW i \in Nat, u.items = i + 1, Placed(s, i, 0), NEW w,
         \/ u.kind = "thinking" /\ Streamed(s, s.next - 1)
         \/ u.kind = "thinking_over"
  PROVE  BlockFits(s, u, "thinking", w)
<1>1. u.items - 1 = i
  BY OneLess, Zenon
<1>2. Current(s, s.next - 1) /\ s.keys[<<u.items - 1, 0>>] = s.next - 1
  BY <1>1 DEF Placed
<1>3. u.kind # "call" /\ u.kind # "text"
  OBVIOUS
<1>4. u.kind = "thinking" => Streamed(s, s.next - 1)
  OBVIOUS
<1> QED
  BY <1>2, <1>3, <1>4, Zenon DEF BlockFits

LEMMA FitsCall ==
  ASSUME NEW s, NEW u, NEW i \in Nat, u.items = i + 1, u.kind = "call", Called(s, i),
         NEW w, w = s.calls[i].blanks, u.said <=> Streamed(s, s.next - 1)
  PROVE  BlockFits(s, u, "tool_use", w)
<1>1. u.items - 1 = i
  BY OneLess, Zenon
<1>2. /\ Current(s, s.next - 1) /\ s.calls[u.items - 1].block = s.next - 1
      /\ w = s.calls[u.items - 1].blanks
  BY <1>1 DEF Called
<1>3. u.kind # "text" /\ u.kind # "thinking" /\ u.kind # "thinking_over"
  OBVIOUS
<1> QED
  BY <1>2, <1>3, Zenon DEF BlockFits

LEMMA FitsNothing ==
  ASSUME NEW s, NEW u, u.kind = "none" \/ u.kind = "text_over", NEW k, NEW w
  PROVE  BlockFits(s, u, k, w)
<1>1. u.kind # "call" /\ u.kind # "text" /\ u.kind # "thinking" /\ u.kind # "thinking_over"
  OBVIOUS
<1> QED
  BY <1>1, Zenon DEF BlockFits

LEMMA OpensAreBlocks ==
  ASSUME NEW s, NEW i, NEW j
  PROVE  /\ OpenTextBlock(s, i, j) = OpenBlock(s, i, j, "text")
         /\ OpenThinkingBlock(s, i) = OpenBlock(s, i, 0, "thinking")
  BY Zenon DEF OpenTextBlock, OpenThinkingBlock, OpenBlock

LEMMA SaidDelta ==
  ASSUME NEW p, NEW r, NEW v, NEW k, NEW w, NEW n, Standing(p, r, v, k, w, n),
         NEW i, NEW j, Placed(r, i, j), NEW x \in Payloads, NEW y, NEW m, Weighs(x, w, n, y, m),
         NEW t, t = PushDelta(r, r.keys[<<i, j>>], k, x)
  PROVE  Standing(p, t, v, k, y, m) /\ Placed(t, i, j) /\ Streamed(t, t.next - 1)
<1> PICK b : b = r.next - 1
  OBVIOUS
<1>1. Current(r, b) /\ r.keys[<<i, j>>] = b
  BY DEF Placed
<1>2. t = PushDelta(r, b, k, x)
  BY <1>1, Zenon
<1>3. /\ Standing(p, t, v, k, y, m) /\ Current(t, b) /\ Streamed(t, b)
      /\ t.next = r.next /\ t.keys = r.keys
  BY <1>1, <1>2, StandingPushDelta
<1> QED
  BY <1>1, <1>3, Zenon DEF Placed

\* The handlers that do not keep that a block had a delta push it so.
PushOnly(s, b, k, x) == Push(s, <<BlockDelta(b, k, x)>>)

LEMMA Said ==
  ASSUME NEW p, NEW r, NEW v, NEW k, NEW w, NEW n, Standing(p, r, v, k, w, n),
         NEW i, NEW j, Placed(r, i, j), NEW x \in Payloads, NEW y, NEW m, Weighs(x, w, n, y, m),
         NEW t, t = PushOnly(r, r.keys[<<i, j>>], k, x)
  PROVE  Standing(p, t, v, k, y, m) /\ Placed(t, i, j)
<1> PICK b : b = r.next - 1
  OBVIOUS
<1>1. Current(r, b) /\ r.keys[<<i, j>>] = b
  BY DEF Placed
<1>2. t = Push(r, <<BlockDelta(b, k, x)>>)
  BY <1>1, Zenon DEF PushOnly
<1>3. /\ Standing(p, t, v, k, y, m) /\ Current(t, b)
      /\ t.next = r.next /\ t.keys = r.keys
  BY <1>1, <1>2, StandingPush
<1> QED
  BY <1>1, <1>3, Zenon DEF Placed

\* A block that begins with some content
LEMMA NewBlockDelta ==
  ASSUME NEW p, NEW s, NEW u, NEW n, Linked(p, s, u, n), Numbers(u), u.kind # "call",
         NEW v, NEW i \in Items, NEW j \in Parts, Onward(u, v, i, j), NEW k \in Kinds,
         NEW x \in {"piece", "whole"}, NEW r, r = OpenBlock(s, i, j, k),
         NEW t, t = PushDelta(r, r.keys[<<i, j>>], k, x)
  PROVE  Standing(p, t, v, k, 0, n - 1) /\ Placed(t, i, j) /\ Streamed(t, t.next - 1)
<1>1. Standing(p, r, v, k, 0, n) /\ Placed(r, i, j)
  BY NewBlockLinked
<1>2. x \in Payloads /\ Weighs(x, 0, n, 0, n - 1)
  BY Weights
<1> QED
  BY <1>1, <1>2, SaidDelta

LEMMA NewBlockPush ==
  ASSUME NEW p, NEW s, NEW u, NEW n, Linked(p, s, u, n), Numbers(u), u.kind # "call",
         NEW v, NEW i \in Items, NEW j \in Parts, Onward(u, v, i, j), NEW k \in Kinds,
         NEW x \in {"piece", "whole"}, NEW r, r = OpenBlock(s, i, j, k),
         NEW t, t = PushOnly(r, r.keys[<<i, j>>], k, x)
  PROVE  Standing(p, t, v, k, 0, n - 1) /\ Placed(t, i, j)
<1>1. Standing(p, r, v, k, 0, n) /\ Placed(r, i, j)
  BY NewBlockLinked
<1>2. x \in Payloads /\ Weighs(x, 0, n, 0, n - 1)
  BY Weights
<1> QED
  BY <1>1, <1>2, Said

LEMMA NewTextDelta ==
  ASSUME NEW p, NEW s, NEW u, NEW n, Linked(p, s, u, n), Numbers(u), u.kind # "call",
         NEW v, NEW i \in Items, NEW j \in Parts, Onward(u, v, i, j), v.kind = "text",
         NEW e, e.item = i, e.part = j, e.data = "piece", NEW t, t = HandleTextDelta(s, e)
  PROVE  Linked(p, t, v, n - 1)
<1> PICK k : k = "text"
  OBVIOUS
<1> PICK x : x = "piece"
  OBVIOUS
<1> PICK r : r = OpenBlock(s, i, j, k)
  OBVIOUS
<1>1. k \in Kinds /\ x \in {"piece", "whole"}
  BY DEF Kinds
<1>2. t = PushDelta(r, r.keys[<<i, j>>], k, x)
  BY OpensAreBlocks, Zenon DEF HandleTextDelta
<1>3. Standing(p, t, v, k, 0, n - 1) /\ Placed(t, i, j) /\ Streamed(t, t.next - 1)
  BY <1>1, <1>2, NewBlockDelta
<1>4. v.items = i + 1 /\ i \in Nat /\ v.part = j
  BY ItemsAreNumbers DEF Onward, InText
<1>5. BlockFits(t, v, k, 0)
  BY <1>3, <1>4, FitsText, Zenon
<1> QED
  BY <1>3, <1>5, Zenon DEF Linked

LEMMA NewTextDone ==
  ASSUME NEW p, NEW s, NEW u, NEW n, Linked(p, s, u, n), Numbers(u), u.kind # "call",
         NEW v, NEW i \in Items, NEW j \in Parts, Onward(u, v, i, j), v.kind = "text_over",
         NEW e, e.item = i, e.part = j, e.data = "whole", NEW t, t = HandleTextDone(s, e)
  PROVE  Linked(p, t, v, n - 1)
<1> PICK k : k = "text"
  OBVIOUS
<1> PICK x : x = "whole"
  OBVIOUS
<1> PICK r : r = OpenBlock(s, i, j, k)
  OBVIOUS
<1>1. k \in Kinds /\ x \in {"piece", "whole"}
  BY DEF Kinds
<1>2. t = PushOnly(r, r.keys[<<i, j>>], k, x)
  <2>1. Begun(r, s.next)
    BY <1>1, NewBlockLinked
  <2>2. r.keys[<<i, j>>] \notin r.hasDelta
    BY <2>1 DEF Begun
  <2>3. t = WholeIfNew(r, r.keys[<<i, j>>], k, x)
    BY OpensAreBlocks, Zenon DEF HandleTextDone
  <2> QED
    BY <2>2, <2>3 DEF WholeIfNew, PushOnly
<1>3. Standing(p, t, v, k, 0, n - 1) /\ Placed(t, i, j)
  BY <1>1, <1>2, NewBlockPush
<1>4. v.items = i + 1 /\ i \in Nat
  BY ItemsAreNumbers DEF Onward, InText
<1>5. BlockFits(t, v, k, 0)
  BY <1>3, <1>4, FitsNothing, Zenon
<1> QED
  BY <1>3, <1>5, Zenon DEF Linked

LEMMA NewThinkingDelta ==
  ASSUME NEW p, NEW s, NEW u, NEW n, Linked(p, s, u, n), Numbers(u), u.kind # "call",
         NEW v, NEW i \in Items, Onward(u, v, i, 0), v.kind = "thinking",
         NEW e, e.item = i, e.data = "piece", NEW t, t = HandleThinkingDelta(s, e)
  PROVE  Linked(p, t, v, n - 1)
<1> PICK k : k = "thinking"
  OBVIOUS
<1> PICK x : x = "piece"
  OBVIOUS
<1> PICK r : r = OpenBlock(s, i, 0, k)
  OBVIOUS
<1>1. k \in Kinds /\ x \in {"piece", "whole"}
  BY DEF Kinds
<1>2. t = PushDelta(r, r.keys[<<i, 0>>], k, x)
  BY OpensAreBlocks, Zenon DEF HandleThinkingDelta
<1>3. Standing(p, t, v, k, 0, n - 1) /\ Placed(t, i, 0) /\ Streamed(t, t.next - 1)
  BY <1>1, <1>2, PartsAssumption, NewBlockDelta
<1>4. v.items = i + 1 /\ i \in Nat
  BY ItemsAreNumbers DEF Onward, InText
<1>5. BlockFits(t, v, k, 0)
  BY <1>3, <1>4, FitsThinking, Zenon
<1> QED
  BY <1>3, <1>5, Zenon DEF Linked

LEMMA NewThinkingDone ==
  ASSUME NEW p, NEW s, NEW u, NEW n, Linked(p, s, u, n), Numbers(u), u.kind # "call",
         NEW v, NEW i \in Items, Onward(u, v, i, 0), v.kind = "thinking_over",
         NEW e, e.item = i, e.data = "whole", NEW t, t = HandleThinkingDone(s, e)
  PROVE  Linked(p, t, v, n - 1)
<1> PICK k : k = "thinking"
  OBVIOUS
<1> PICK x : x = "whole"
  OBVIOUS
<1> PICK r : r = OpenBlock(s, i, 0, k)
  OBVIOUS
<1>1. k \in Kinds /\ x \in {"piece", "whole"}
  BY DEF Kinds
<1>2. t = PushOnly(r, r.keys[<<i, 0>>], k, x)
  <2>1. Begun(r, s.next)
    BY <1>1, PartsAssumption, NewBlockLinked
  <2>2. r.keys[<<i, 0>>] \notin r.hasDelta
    BY <2>1 DEF Begun
  <2>3. t = WholeIfNew(r, r.keys[<<i, 0>>], k, x)
    BY OpensAreBlocks, Zenon DEF HandleThinkingDone
  <2> QED
    BY <2>2, <2>3 DEF WholeIfNew, PushOnly
<1>3. Standing(p, t, v, k, 0, n - 1) /\ Placed(t, i, 0)
  BY <1>1, <1>2, PartsAssumption, NewBlockPush
<1>4. v.items = i + 1 /\ i \in Nat
  BY ItemsAreNumbers DEF Onward, InText
<1>5. BlockFits(t, v, k, 0)
  BY <1>3, <1>4, FitsThinking, Zenon
<1> QED
  BY <1>3, <1>5, Zenon DEF Linked


\* A signature, after the filler or not
LEMMA SignatureStands ==
  ASSUME NEW p, NEW r, NEW v, NEW k, NEW w, NEW n, Standing(p, r, v, k, w, n),
         NEW i, NEW j, Placed(r, i, j), NEW f, f = "filler", NEW x, x = "signature",
         NEW q, q = r \/ q = PushOnly(r, r.keys[<<i, j>>], k, f),
         NEW t, t = PushDelta(q, r.keys[<<i, j>>], k, x)
  PROVE  \E y : Standing(p, t, v, k, y, n)
<1> PICK y : Standing(p, q, v, k, y, n) /\ Placed(q, i, j) /\ q.keys = r.keys
  <2>1. CASE q = r
    BY <2>1, Zenon
  <2>2. CASE q = PushOnly(r, r.keys[<<i, j>>], k, f)
    <3>1. f \in Payloads /\ Weighs(f, w, n, 0, n)
      BY Weights, Zenon
    <3>2. Standing(p, q, v, k, 0, n) /\ Placed(q, i, j)
      BY <2>2, <3>1, Said
    <3>3. q.keys = r.keys
      BY <2>2 DEF PushOnly, Push, Standing, Resps, RespStates
    <3> QED
      BY <3>2, <3>3
  <2> QED
    BY <2>1, <2>2
<1>1. t = PushDelta(q, q.keys[<<i, j>>], k, x)
  BY Zenon
<1>2. x \in Payloads /\ Weighs(x, y, n, 0, n)
  BY Weights, Zenon
<1>3. Standing(p, t, v, k, 0, n)
  BY <1>1, <1>2, SaidDelta
<1> QED
  BY <1>3

LEMMA NewReasoningDone ==
  ASSUME NEW p, NEW s, NEW u, NEW n, Linked(p, s, u, n), Numbers(u), u.kind # "call",
         NEW v, NEW i \in Items, Onward(u, v, i, 0), v.kind = "none", NEW e, e.item = i,
         NEW t, t \in {HandleReasoningDone(s, e), HandleCompactionDone(s, e)}
  PROVE  Linked(p, t, v, n)
<1> PICK k : k = "thinking"
  OBVIOUS
<1> PICK f : f = "filler"
  OBVIOUS
<1> PICK x : x = "signature"
  OBVIOUS
<1> PICK r : r = OpenBlock(s, i, 0, k)
  OBVIOUS
<1>1. k \in Kinds
  BY DEF Kinds
<1>2. Standing(p, r, v, k, 0, n) /\ Placed(r, i, 0)
  BY <1>1, PartsAssumption, NewBlockLinked
<1> PICK q : /\ q = r \/ q = PushOnly(r, r.keys[<<i, 0>>], k, f)
             /\ t = PushDelta(q, r.keys[<<i, 0>>], k, x)
  <2>1. CASE t = HandleReasoningDone(s, e)
    <3>1. t = PushDelta(IF e.summary THEN r ELSE PushOnly(r, r.keys[<<i, 0>>], k, f),
                        r.keys[<<i, 0>>], k, x)
      BY <2>1, OpensAreBlocks, Zenon DEF HandleReasoningDone, PushOnly
    <3> QED
      BY <3>1
  <2>2. CASE t = HandleCompactionDone(s, e)
    <3>1. t = PushDelta(IF r.keys[<<i, 0>>] \in r.hasDelta
                          THEN r ELSE PushOnly(r, r.keys[<<i, 0>>], k, f),
                        r.keys[<<i, 0>>], k, x)
      BY <2>2, OpensAreBlocks, Zenon DEF HandleCompactionDone, PushOnly
    <3> QED
      BY <3>1
  <2> QED
    BY <2>1, <2>2
<1> PICK y : Standing(p, t, v, k, y, n)
  BY <1>2, SignatureStands
<1>3. BlockFits(t, v, k, y)
  BY FitsNothing, Zenon
<1> QED
  BY <1>3, Zenon DEF Linked

\* The upstream goes on with what it is at.
LEMMA StandingOn ==
  ASSUME NEW p, NEW s, NEW u, NEW k, NEW w, NEW n, Standing(p, s, u, k, w, n),
         NEW v, v.items = u.items, InText(v) => InText(u) /\ v.part = u.part,
         u.kind = "call" => v.kind = "call"
  PROVE  Standing(p, s, v, k, w, n)
  BY DEF Standing, KeysFit, CallsFit

\* The block it is at is found again.
LEMMA PlacedStays ==
  ASSUME NEW p, NEW s, NEW u, NEW k, NEW w, NEW n, Standing(p, s, u, k, w, n),
         NEW i, NEW j, Placed(s, i, j)
  PROVE  OpenBlock(s, i, j, k) = s
<1>1. Resps(s)
  BY DEF Standing
<1>2. s.keys[<<i, j>>] \in s.open
  BY DEF Placed, Current
<1> QED
  BY <1>1, <1>2, KnownBlockStays

LEMMA WholeIsOld ==
  ASSUME NEW s, NEW i, NEW j, Placed(s, i, j), Streamed(s, s.next - 1), NEW k, NEW x,
         NEW t, t = WholeIfNew(s, s.keys[<<i, j>>], k, x)
  PROVE  t = s
  BY DEF WholeIfNew, Placed, Streamed

\* What the upstream is at, read off the state
LEMMA AtText ==
  ASSUME NEW p, NEW s, NEW u, NEW n, Linked(p, s, u, n), u.kind = "text",
         NEW i, i = u.items - 1, NEW k, k = "text"
  PROVE  \E w : Standing(p, s, u, k, w, n) /\ Placed(s, i, u.part) /\ Streamed(s, s.next - 1)
<1> PICK l, w : Standing(p, s, u, l, w, n) /\ BlockFits(s, u, l, w)
  BY DEF Linked
<1>1. l = k /\ Placed(s, i, u.part) /\ Streamed(s, s.next - 1)
  BY Zenon DEF BlockFits, Placed
<1> QED
  BY <1>1, Zenon

LEMMA AtThinking ==
  ASSUME NEW p, NEW s, NEW u, NEW n, Linked(p, s, u, n),
         u.kind = "thinking" \/ u.kind = "thinking_over",
         NEW i, i = u.items - 1, NEW k, k = "thinking"
  PROVE  \E w : /\ Standing(p, s, u, k, w, n) /\ Placed(s, i, 0)
                /\ u.kind = "thinking" => Streamed(s, s.next - 1)
<1> PICK l, w : Standing(p, s, u, l, w, n) /\ BlockFits(s, u, l, w)
  BY DEF Linked
<1>1. l = k /\ Placed(s, i, 0) /\ (u.kind = "thinking" => Streamed(s, s.next - 1))
  BY Zenon DEF BlockFits, Placed
<1> QED
  BY <1>1, Zenon

LEMMA TextDeltaGoesOn ==
  ASSUME NEW p, NEW s, NEW u, NEW n, Linked(p, s, u, n), u.kind = "text",
         NEW i \in Items, i = u.items - 1,
         NEW v, v.items = u.items, v.part = u.part, v.kind = "text", v.items = i + 1,
         NEW e, e.item = i, e.part = u.part, e.data = "piece", NEW t, t = HandleTextDelta(s, e)
  PROVE  Linked(p, t, v, n - 1)
<1> PICK k : k = "text"
  OBVIOUS
<1> PICK x : x = "piece"
  OBVIOUS
<1> PICK j : j = u.part
  OBVIOUS
<1> PICK w : Standing(p, s, u, k, w, n) /\ Placed(s, i, j) /\ Streamed(s, s.next - 1)
  BY AtText
<1>1. s = OpenBlock(s, i, j, k)
  BY PlacedStays
<1>2. t = PushDelta(s, s.keys[<<i, j>>], k, x)
  BY <1>1, OpensAreBlocks, Zenon DEF HandleTextDelta
<1>3. Standing(p, s, v, k, w, n)
  <2>1. InText(v) => InText(u) /\ v.part = u.part
    BY DEF InText
  <2> QED
    BY <2>1, StandingOn
<1>4. x \in Payloads /\ Weighs(x, w, n, 0, n - 1)
  BY Weights, Zenon
<1>5. Standing(p, t, v, k, 0, n - 1) /\ Placed(t, i, j) /\ Streamed(t, t.next - 1)
  BY <1>2, <1>3, <1>4, SaidDelta
<1>6. i \in Nat
  BY ItemsAreNumbers
<1>7. BlockFits(t, v, k, 0)
  BY <1>5, <1>6, FitsText, Zenon
<1> QED
  BY <1>5, <1>7, Zenon DEF Linked

LEMMA TextDoneGoesOn ==
  ASSUME NEW p, NEW s, NEW u, NEW n, Linked(p, s, u, n), u.kind = "text",
         NEW i \in Items, i = u.items - 1,
         NEW v, v.items = u.items, v.part = u.part, v.kind = "text_over",
         NEW e, e.item = i, e.part = u.part, e.data = "whole", NEW t, t = HandleTextDone(s, e)
  PROVE  Linked(p, t, v, n)
<1> PICK k : k = "text"
  OBVIOUS
<1> PICK x : x = "whole"
  OBVIOUS
<1> PICK j : j = u.part
  OBVIOUS
<1> PICK w : Standing(p, s, u, k, w, n) /\ Placed(s, i, j) /\ Streamed(s, s.next - 1)
  BY AtText
<1>1. s = OpenBlock(s, i, j, k)
  BY PlacedStays
<1>2. t = WholeIfNew(s, s.keys[<<i, j>>], k, x)
  BY <1>1, OpensAreBlocks, Zenon DEF HandleTextDone
<1>3. t = s
  BY <1>2, WholeIsOld
<1>4. Standing(p, s, v, k, w, n)
  <2>1. InText(v) => InText(u) /\ v.part = u.part
    BY DEF InText
  <2> QED
    BY <2>1, StandingOn
<1>5. BlockFits(s, v, k, w)
  BY FitsNothing, Zenon
<1> QED
  BY <1>3, <1>4, <1>5, Zenon DEF Linked

LEMMA ThinkingDeltaGoesOn ==
  ASSUME NEW p, NEW s, NEW u, NEW n, Linked(p, s, u, n),
         u.kind = "thinking" \/ u.kind = "thinking_over",
         NEW i \in Items, i = u.items - 1,
         NEW v, v.items = u.items, v.kind = "thinking", v.items = i + 1,
         NEW e, e.item = i, e.data = "piece", NEW t, t = HandleThinkingDelta(s, e)
  PROVE  Linked(p, t, v, n - 1)
<1> PICK k : k = "thinking"
  OBVIOUS
<1> PICK x : x = "piece"
  OBVIOUS
<1> PICK w : Standing(p, s, u, k, w, n) /\ Placed(s, i, 0)
  BY AtThinking
<1>1. s = OpenBlock(s, i, 0, k)
  BY PlacedStays
<1>2. t = PushDelta(s, s.keys[<<i, 0>>], k, x)
  BY <1>1, OpensAreBlocks, Zenon DEF HandleThinkingDelta
<1>3. Standing(p, s, v, k, w, n)
  <2>1. ~InText(v) /\ u.kind # "call"
    BY DEF InText
  <2> QED
    BY <2>1, StandingOn
<1>4. x \in Payloads /\ Weighs(x, w, n, 0, n - 1)
  BY Weights, Zenon
<1>5. Standing(p, t, v, k, 0, n - 1) /\ Placed(t, i, 0) /\ Streamed(t, t.next - 1)
  BY <1>2, <1>3, <1>4, SaidDelta
<1>6. i \in Nat
  BY ItemsAreNumbers
<1>7. BlockFits(t, v, k, 0)
  BY <1>5, <1>6, FitsThinking, Zenon
<1> QED
  BY <1>5, <1>7, Zenon DEF Linked

LEMMA ThinkingDoneGoesOn ==
  ASSUME NEW p, NEW s, NEW u, NEW n, Linked(p, s, u, n), u.kind = "thinking",
         NEW i \in Items, i = u.items - 1,
         NEW v, v.items = u.items, v.kind = "thinking_over", v.items = i + 1,
         NEW e, e.item = i, e.data = "whole", NEW t, t = HandleThinkingDone(s, e)
  PROVE  Linked(p, t, v, n)
<1> PICK k : k = "thinking"
  OBVIOUS
<1> PICK x : x = "whole"
  OBVIOUS
<1> PICK j : j = 0
  OBVIOUS
<1> PICK w : Standing(p, s, u, k, w, n) /\ Placed(s, i, j) /\ Streamed(s, s.next - 1)
  BY AtThinking
<1>1. s = OpenBlock(s, i, j, k)
  BY PlacedStays
<1>2. t = WholeIfNew(s, s.keys[<<i, j>>], k, x)
  BY <1>1, OpensAreBlocks, Zenon DEF HandleThinkingDone
<1>3. t = s
  BY <1>2, WholeIsOld
<1>4. Standing(p, s, v, k, w, n)
  <2>1. ~InText(v) /\ u.kind # "call"
    BY DEF InText
  <2> QED
    BY <2>1, StandingOn
<1>5. i \in Nat
  BY ItemsAreNumbers
<1>6. BlockFits(s, v, k, w)
  BY <1>5, FitsThinking, Zenon
<1> QED
  BY <1>3, <1>4, <1>6, Zenon DEF Linked

LEMMA ReasoningDoneEnds ==
  ASSUME NEW p, NEW s, NEW u, NEW n, Linked(p, s, u, n), u.kind = "thinking_over",
         NEW i, i = u.items - 1, NEW v, v.items = u.items, v.kind = "none",
         NEW e, e.item = i, NEW t, t = HandleReasoningDone(s, e)
  PROVE  Linked(p, t, v, n)
<1> PICK k : k = "thinking"
  OBVIOUS
<1> PICK f : f = "filler"
  OBVIOUS
<1> PICK x : x = "signature"
  OBVIOUS
<1> PICK w : Standing(p, s, u, k, w, n) /\ Placed(s, i, 0)
  BY AtThinking
<1>1. s = OpenBlock(s, i, 0, k)
  BY PlacedStays
<1> PICK q : /\ q = s \/ q = PushOnly(s, s.keys[<<i, 0>>], k, f)
             /\ t = PushDelta(q, s.keys[<<i, 0>>], k, x)
  <2>1. t = PushDelta(IF e.summary THEN s ELSE PushOnly(s, s.keys[<<i, 0>>], k, f),
                      s.keys[<<i, 0>>], k, x)
    BY <1>1, OpensAreBlocks, Zenon DEF HandleReasoningDone, PushOnly
  <2> QED
    BY <2>1
<1>2. Standing(p, s, v, k, w, n)
  <2>1. ~InText(v) /\ u.kind # "call"
    BY DEF InText
  <2> QED
    BY <2>1, StandingOn
<1> PICK y : Standing(p, t, v, k, y, n)
  BY <1>2, SignatureStands
<1>3. BlockFits(t, v, k, y)
  BY FitsNothing, Zenon
<1> QED
  BY <1>3, Zenon DEF Linked

LEMMA SaidCall ==
  ASSUME NEW p, NEW r, NEW v, NEW k, NEW w, NEW n, Standing(p, r, v, k, w, n),
         NEW i, Called(r, i), NEW b, b = r.next - 1,
         NEW x \in Payloads, NEW y, NEW m, Weighs(x, w, n, y, m),
         NEW t, t = PushDelta(r, b, k, x)
  PROVE  /\ Standing(p, t, v, k, y, m) /\ Called(t, i) /\ Streamed(t, t.next - 1)
         /\ t.calls = r.calls
<1>1. Current(r, b) /\ r.calls[i].block = b
  BY DEF Called
<1>2. /\ Standing(p, t, v, k, y, m) /\ Current(t, b) /\ Streamed(t, b)
      /\ t.next = r.next /\ t.calls = r.calls
  BY <1>1, StandingPushDelta
<1> QED
  BY <1>1, <1>2, Zenon DEF Called

LEMMA NewCallAdded ==
  ASSUME NEW p, NEW s, NEW u, NEW n, Linked(p, s, u, n), Numbers(u), u.kind # "call",
         NEW v, NEW i \in Items, i = u.items, v.items = i + 1, v.kind = "call",
         NEW e, e.item = i, NEW t, t = HandleOutputItemAdded(s, e), NEW m,
         \/ e.data = "none" /\ ~v.said /\ m = n
         \/ e.data = "piece" /\ v.said = TRUE /\ m = n - 1
  PROVE  Linked(p, t, v, m)
<1> PICK k : k = "tool_use"
  OBVIOUS
<1> PICK r : r = OpenFunctionCallBlock(s, i)
  OBVIOUS
<1>1. Standing(p, r, v, k, 0, n) /\ Called(r, i) /\ Begun(r, s.next) /\ r.calls[i].blanks = 0
  BY NewCallLinked
<1>2. i \in Nat
  BY ItemsAreNumbers
<1>3. CASE e.data = "none"
  <2>1. ~v.said /\ m = n
    BY <1>3
  <2>2. t = r
    BY <1>3, Zenon DEF HandleOutputItemAdded
  <2>3. ~Streamed(r, r.next - 1)
    BY <1>1 DEF Begun, Streamed
  <2>4. BlockFits(r, v, k, 0)
    BY <1>1, <1>2, <2>1, <2>3, FitsCall, Zenon
  <2> QED
    BY <1>1, <2>1, <2>2, <2>4, Zenon DEF Linked
<1>4. CASE e.data = "piece"
  <2> PICK x : x = "piece"
    OBVIOUS
  <2>1. v.said = TRUE /\ m = n - 1
    BY <1>4
  <2> PICK b : b = r.next - 1
    OBVIOUS
  <2>2. r.calls[i].block = b
    BY <1>1 DEF Called
  <2>3. t = PushDelta(r, b, k, x)
    <3>1. t = PushDelta(r, r.calls[i].block, k, e.data)
      <4>1. e.data # "none"
        BY <1>4
      <4> QED
        BY <4>1, Zenon DEF HandleOutputItemAdded
    <3> QED
      BY <1>4, <2>2, <3>1, Zenon
  <2>4. x \in Payloads /\ Weighs(x, 0, n, 0, n - 1)
    BY Weights, Zenon
  <2>5. /\ Standing(p, t, v, k, 0, n - 1) /\ Called(t, i) /\ Streamed(t, t.next - 1)
        /\ t.calls = r.calls
    BY <1>1, <2>3, <2>4, SaidCall
  <2>6. t.calls[i].blanks = 0
    BY <1>1, <2>5, Zenon
  <2>7. BlockFits(t, v, k, 0)
    BY <1>2, <2>1, <2>5, <2>6, FitsCall, Zenon
  <2> QED
    BY <2>1, <2>5, <2>7, Zenon DEF Linked
<1> QED
  BY <1>3, <1>4

LEMMA AtCall ==
  ASSUME NEW p, NEW s, NEW u, NEW n, Linked(p, s, u, n), u.kind = "call",
         NEW i, i = u.items - 1, NEW k, k = "tool_use"
  PROVE  \E w : /\ Standing(p, s, u, k, w, n) /\ Called(s, i) /\ w = s.calls[i].blanks
                /\ u.said <=> Streamed(s, s.next - 1)
<1> PICK l, w : Standing(p, s, u, l, w, n) /\ BlockFits(s, u, l, w)
  BY DEF Linked
<1>1. /\ l = k /\ Called(s, i) /\ w = s.calls[i].blanks
      /\ u.said <=> Streamed(s, s.next - 1)
  BY Zenon DEF BlockFits, Called
<1> QED
  BY <1>1, Zenon

LEMMA CalledStays ==
  ASSUME NEW p, NEW s, NEW u, NEW k, NEW w, NEW n, Standing(p, s, u, k, w, n),
         NEW i, Called(s, i)
  PROVE  OpenFunctionCallBlock(s, i) = s
<1>1. Resps(s)
  BY DEF Standing
<1>2. s.calls[i].block \in s.open
  BY DEF Called, Current
<1>3. s.calls[i] # NoCall
  <2>1. s.open \subseteq Nat
    BY <1>1 DEF Resps, RespStates
  <2>2. NoCall.block \notin Nat
    BY DEF NoCall, NoBlockIndex
  <2> QED
    BY <1>2, <2>1, <2>2
<1> QED
  BY <1>1, <1>2, <1>3, KnownCallStays

\* The run of blanks is kept with the call.
Run(s, i, run) == [s EXCEPT !.calls[i].blanks = run]

\* i is the last item.
LastItem(u, i) == i = u.items - 1 /\ u.items = i + 1

Ran(q, s, i, run) == q.calls[i].blanks = run /\ q.next = s.next

LEMMA RunStands ==
  ASSUME NEW p, NEW s, NEW u, NEW k, NEW w, NEW n, Standing(p, s, u, k, w, n),
         NEW v, v.items = u.items, v.kind = "call", u.kind = "call",
         NEW i \in Items, LastItem(v, i), Called(s, i), NEW run \in Nat,
         NEW q, q = Run(s, i, run)
  PROVE  Standing(p, q, v, k, w, n) /\ Called(q, i) /\ Ran(q, s, i, run)
<1>1. /\ Resps(s) /\ ~s.completed /\ KeysFit(s, u) /\ CallsFit(s, u) /\ k \in Kinds
      /\ Reports(p, s, k, w, n)
  BY DEF Standing
<1>2. s \in RespStates
  BY <1>1 DEF Resps
<1> DEFINE C == [s.calls EXCEPT ![i].blanks = run]
<1>3. /\ C \in [Items -> [block : Int, blanks : Nat]]
      /\ C[i].blanks = run /\ C[i].block = s.calls[i].block
      /\ \A l \in Items \ {i} : C[l] = s.calls[l]
  BY <1>2 DEF RespStates
<1>4. q = [completed |-> s.completed, next |-> s.next, keys |-> s.keys, open |-> s.open,
           hasDelta |-> s.hasDelta, calls |-> C, out |-> s.out]
  BY <1>2 DEF RespStates, Run
<1> HIDE DEF C
<1>5. q \in RespStates
  BY <1>2, <1>3, <1>4 DEF RespStates
<1>6. /\ ~q.completed /\ q.next = s.next /\ q.keys = s.keys /\ q.open = s.open
      /\ q.hasDelta = s.hasDelta /\ q.calls = C /\ q.out = s.out
  BY <1>1, <1>4
<1>7. Resps(q) /\ Reports(p, q, k, w, n)
  BY <1>1, <1>5, <1>6 DEF Resps, Reports, RespOpen
<1>8. KeysFit(q, v)
  <2>1. ~InText(v)
    BY DEF InText
  <2> QED
    BY <1>1, <1>6, <2>1 DEF KeysFit
<1>9. CallsFit(q, v)
  <2>1. ASSUME NEW l \in Items, q.calls[l] # NoCall
        PROVE  l = v.items - 1
    <3>1. CASE l = i
      BY <3>1 DEF LastItem
    <3>2. CASE l # i
      <4>1. s.calls[l] # NoCall
        BY <1>3, <1>6, <2>1, <3>2
      <4> QED
        BY <1>1, <4>1 DEF CallsFit
    <3> QED
      BY <3>1, <3>2
  <2> QED
    BY <2>1 DEF CallsFit
<1>10. Called(q, i) /\ q.calls[i].blanks = run
  BY <1>3, <1>6 DEF Called, Current
<1> QED
  BY <1>1, <1>6, <1>7, <1>8, <1>9, <1>10 DEF Standing, Ran

\* The call is over.
NoMore(s, i) == [s EXCEPT !.calls[i] = NoCall]

LEMMA CallEnds ==
  ASSUME NEW p, NEW s, NEW u, NEW k, NEW w, NEW n, Standing(p, s, u, k, w, n),
         NEW v, v.items = u.items, v.kind = "none",
         NEW i \in Items, u.items - 1 = i, NEW q, q = NoMore(s, i)
  PROVE  Standing(p, q, v, k, w, n)
<1>1. /\ Resps(s) /\ ~s.completed /\ KeysFit(s, u) /\ CallsFit(s, u) /\ k \in Kinds
      /\ Reports(p, s, k, w, n)
  BY DEF Standing
<1>2. s \in RespStates
  BY <1>1 DEF Resps
<1> DEFINE C == [s.calls EXCEPT ![i] = NoCall]
<1>3. /\ C \in [Items -> [block : Int, blanks : Nat]]
      /\ C[i] = NoCall /\ \A l \in Items \ {i} : C[l] = s.calls[l]
  BY <1>2 DEF RespStates, NoCall, NoBlockIndex
<1>4. q = [completed |-> s.completed, next |-> s.next, keys |-> s.keys, open |-> s.open,
           hasDelta |-> s.hasDelta, calls |-> C, out |-> s.out]
  BY <1>2 DEF RespStates, NoMore
<1> HIDE DEF C
<1>5. q \in RespStates
  BY <1>2, <1>3, <1>4 DEF RespStates
<1>6. /\ ~q.completed /\ q.next = s.next /\ q.keys = s.keys /\ q.open = s.open
      /\ q.hasDelta = s.hasDelta /\ q.calls = C /\ q.out = s.out
  BY <1>1, <1>4
<1>7. Resps(q) /\ Reports(p, q, k, w, n)
  BY <1>1, <1>5, <1>6 DEF Resps, Reports, RespOpen
<1>8. KeysFit(q, v)
  <2>1. ~InText(v)
    BY DEF InText
  <2> QED
    BY <1>1, <1>6, <2>1 DEF KeysFit
<1>9. CallsFit(q, v)
  BY <1>1, <1>3, <1>6 DEF CallsFit
<1> QED
  BY <1>1, <1>7, <1>6, <1>8, <1>9 DEF Standing

LEMMA ArgumentsDoneEnds ==
  ASSUME NEW p, NEW s, NEW u, NEW n, Linked(p, s, u, n), u.kind = "call",
         NEW i \in Items, i = u.items - 1, NEW v, v.items = u.items, v.kind = "none",
         NEW e, e.item = i, e.data = "whole", NEW t, t = HandleArgumentsDone(s, e), NEW m,
         \/ u.said = TRUE /\ m = n
         \/ ~u.said /\ m = n - 1
  PROVE  Linked(p, t, v, m)
<1> PICK k : k = "tool_use"
  OBVIOUS
<1> PICK x : x = "whole"
  OBVIOUS
<1> PICK b : b = s.next - 1
  OBVIOUS
<1> PICK w : /\ Standing(p, s, u, k, w, n) /\ Called(s, i)
             /\ u.said <=> Streamed(s, s.next - 1)
  BY AtCall
<1>1. s = OpenFunctionCallBlock(s, i)
  BY CalledStays
<1>2. s.calls[i].block = b /\ Current(s, b)
  BY DEF Called
<1>3. Resps(s)
  BY DEF Standing
<1>4. b \in s.hasDelta <=> u.said
  <2>1. s.hasDelta \subseteq {b}
    BY <1>2, <1>3 DEF Resps, Current
  <2>2. b \in s.hasDelta <=> s.hasDelta = {b}
    BY <2>1
  <2> QED
    BY <2>2 DEF Streamed
<1> PICK q : /\ (u.said /\ q = s) \/ (~u.said /\ q = PushDelta(s, b, k, x))
             /\ t = NoMore(q, i)
  <2>1. t = NoMore(IF x = "none" \/ b \in s.hasDelta THEN s ELSE PushDelta(s, b, k, x), i)
    BY <1>1, <1>2, Zenon DEF HandleArgumentsDone, NoMore
  <2> QED
    BY <1>4, <2>1
<1>5. \E y : Standing(p, q, u, k, y, m)
  <2>1. CASE u.said
    BY <2>1
  <2>2. CASE ~u.said
    <3>1. x \in Payloads /\ Weighs(x, w, n, 0, n - 1)
      BY Weights, Zenon
    <3>2. m = n - 1 /\ q = PushDelta(s, b, k, x)
      BY <2>2
    <3> QED
      BY <1>2, <3>1, <3>2, SaidCall
  <2> QED
    BY <2>1, <2>2
<1> PICK y : Standing(p, q, u, k, y, m)
  BY <1>5
<1>6. Standing(p, t, v, k, y, m)
  BY CallEnds
<1>7. BlockFits(t, v, k, y)
  BY FitsNothing, Zenon
<1> QED
  BY <1>6, <1>7, Zenon DEF Linked

(* The end of a response.                                                  *)
\* The message is over: an error ends it, or it is complete but for n fragments.
Over(p, t, n) ==
  /\ Resps(t) /\ t.completed
  /\ \E ph, b, o, w, m :
       /\ Leads(p, t.out, Place(ph, b, o, w, m))
       /\ ph = "failed" \/ (ph = "stopped" /\ m = n)

\* The state s with the events o and the calls c, and with the end marked
Put(s, o, c) == [s EXCEPT !.out = o, !.calls = c]

PutLast(s, o) == [s EXCEPT !.out = o, !.completed = TRUE]

LEMMA PutStays ==
  ASSUME NEW s, Resps(s), NEW o \in Seq(Events), NEW c \in [Items -> [block : Int, blanks : Nat]],
         NEW t, t = Put(s, o, c)
  PROVE  Resps(t) /\ t.out = o
<1>1. s \in RespStates
  BY DEF Resps
<1>2. t = [completed |-> s.completed, next |-> s.next, keys |-> s.keys, open |-> s.open,
           hasDelta |-> s.hasDelta, calls |-> c, out |-> o]
  BY <1>1 DEF RespStates, Put
<1>3. t \in RespStates
  BY <1>1, <1>2 DEF RespStates
<1>4. t.out = o /\ t.next = s.next /\ t.open = s.open /\ t.hasDelta = s.hasDelta
  BY <1>2
<1> QED
  BY <1>3, <1>4 DEF Resps

LEMMA PutLastStays ==
  ASSUME NEW s, Resps(s), NEW o \in Seq(Events), NEW t, t = PutLast(s, o)
  PROVE  Resps(t) /\ t.out = o /\ t.completed
<1>1. s \in RespStates
  BY DEF Resps
<1>2. t = [completed |-> TRUE, next |-> s.next, keys |-> s.keys, open |-> s.open,
           hasDelta |-> s.hasDelta, calls |-> s.calls, out |-> o]
  BY <1>1 DEF RespStates, PutLast
<1>3. t \in RespStates
  BY <1>1, <1>2 DEF RespStates
<1>4. t.out = o /\ t.completed /\ t.next = s.next /\ t.open = s.open /\ t.hasDelta = s.hasDelta
  BY <1>2
<1> QED
  BY <1>3, <1>4 DEF Resps

LEMMA Abandoned ==
  ASSUME NEW p, NEW s, Resps(s), NEW ph, NEW b, NEW o, NEW w, NEW m,
         Leads(p, s.out, Place(ph, b, o, w, m)), NEW n, NEW t, t = Abandon(s)
  PROVE  Over(p, t, n)
<1> PICK d : d = "failed"
  OBVIOUS
<1> PICK f : f = s.out \o <<ErrorEvent>>
  OBVIOUS
<1>1. s \in RespStates /\ s.out \in Seq(Events)
  BY DEF Resps, RespStates
<1>2. f \in Seq(Events) /\ Leads(p, f, Place(d, b, o, w, m))
  BY <1>1, SayPlain
<1>3. t = PutLast(s, f)
  <2>1. t = [[s EXCEPT !.out = f] EXCEPT !.completed = TRUE]
    BY DEF Abandon, Push
  <2> QED
    BY <1>1, <2>1 DEF PutLast, RespStates
<1>4. Resps(t) /\ t.out = f /\ t.completed
  BY <1>2, <1>3, PutLastStays
<1> QED
  BY <1>2, <1>4, Zenon DEF Over

LEMMA ClosedAll ==
  ASSUME NEW p, NEW s, NEW u, NEW k, NEW w, NEW n, Standing(p, s, u, k, w, n),
         NEW t, t = CloseAllOpenBlocks(s)
  PROVE  Resps(t) /\ Leads(p, t.out, Place("started", s.next, NoBlock, w, n))
<1>1. Resps(s) /\ k \in Kinds /\ Reports(p, s, k, w, n)
  BY DEF Standing
<1> PICK r : r = CloseOpenBlocks(s)
  OBVIOUS
<1>2. Resps(r) /\ Reports(p, r, k, w, n) /\ Same(r, s) /\ r.open = {}
  BY <1>1, CloseOpenReports
<1>3. Leads(p, r.out, Place("started", s.next, NoBlock, w, n))
  BY <1>2, Zenon DEF Reports, RespOpen, Same
<1> DEFINE c == [i \in Items |-> NoCall]
<1>4. c \in [Items -> [block : Int, blanks : Nat]]
  BY DEF NoCall, NoBlockIndex
<1>5. t = [r EXCEPT !.calls = c]
  BY Zenon DEF CloseAllOpenBlocks
<1> HIDE DEF c
<1>6. r \in RespStates
  BY <1>2 DEF Resps
<1>7. t = Put(r, r.out, c) /\ r.out \in Seq(Events)
  BY <1>5, <1>6 DEF Put, RespStates
<1>8. Resps(t) /\ t.out = r.out
  BY <1>2, <1>4, <1>7, PutStays
<1> QED
  BY <1>3, <1>8

LEMMA CutOff ==
  ASSUME NEW p, NEW s, NEW u, NEW k, NEW w, NEW n, Standing(p, s, u, k, w, n),
         NEW m, NEW t, t = Abandon(CloseAllOpenBlocks(s))
  PROVE  Over(p, t, m)
<1> PICK r : r = CloseAllOpenBlocks(s)
  OBVIOUS
<1>1. Resps(r) /\ Leads(p, r.out, Place("started", s.next, NoBlock, w, n))
  BY ClosedAll
<1> QED
  BY <1>1, Abandoned

LEMMA ResponseCompleted ==
  ASSUME NEW p, NEW s, NEW u, NEW n, Linked(p, s, u, n), NEW e,
         NEW t, t = HandleResponseCompleted(s, e)
  PROVE  Over(p, t, n)
<1> PICK k, w : Standing(p, s, u, k, w, n)
  BY DEF Linked
<1> PICK r : r = CloseAllOpenBlocks(s)
  OBVIOUS
<1>1. CASE ~e.body
  <2>1. t = Abandon(CloseAllOpenBlocks(s))
    BY <1>1, Zenon DEF HandleResponseCompleted
  <2> QED
    BY <2>1, CutOff
<1>2. CASE e.body
  <2>1. Resps(r) /\ Leads(p, r.out, Place("started", s.next, NoBlock, w, n))
    BY ClosedAll
  <2>2. r \in RespStates /\ r.out \in Seq(Events)
    BY <2>1 DEF Resps, RespStates
  <2> DEFINE f == r.out \o <<MessageDelta>>
             g == f \o <<MessageStop>>
  <2>3. f \in Seq(Events) /\ Leads(p, f, Place("finishing", s.next, NoBlock, w, n))
    BY <2>1, <2>2, SayPlain
  <2> HIDE DEF f
  <2>4. g \in Seq(Events) /\ Leads(p, g, Place("stopped", s.next, NoBlock, w, n))
    BY <2>3, SayPlain
  <2>5. r.out \o <<MessageDelta, MessageStop>> = g
    BY <2>2, EventsAreSome, PushedApart DEF f
  <2> HIDE DEF g
  <2>6. t = [[r EXCEPT !.out = g] EXCEPT !.completed = TRUE]
    BY <1>2, <2>5, Zenon DEF HandleResponseCompleted, Push
  <2>7. t = PutLast(r, g)
    BY <2>2, <2>6 DEF PutLast, RespStates
  <2>8. Resps(t) /\ t.out = g /\ t.completed
    BY <2>1, <2>4, <2>7, PutLastStays
  <2> QED
    BY <2>4, <2>8, Zenon DEF Over
<1> QED
  BY <1>1, <1>2

LEMMA RunGoesOn ==
  ASSUME NEW p, NEW s, NEW u, NEW k, NEW w, NEW n, Standing(p, s, u, k, w, n), u.kind = "call",
         NEW i \in Items, Called(s, i), NEW v, v.items = u.items, v.kind = "call",
         LastItem(v, i), NEW run \in Nat, NEW x \in Payloads, Weighs(x, w, n, run, n - 1),
         NEW b, b = s.next - 1, NEW t, t = PushDelta(Run(s, i, run), b, k, x)
  PROVE  /\ Standing(p, t, v, k, run, n - 1) /\ Called(t, i) /\ Streamed(t, t.next - 1)
         /\ t.calls[i].blanks = run
<1> PICK q : q = Run(s, i, run)
  OBVIOUS
<1>1. Standing(p, q, v, k, w, n) /\ Called(q, i) /\ Ran(q, s, i, run)
  BY RunStands
<1>2. b = q.next - 1 /\ t = PushDelta(q, b, k, x)
  BY <1>1 DEF Ran
<1>3. /\ Standing(p, t, v, k, run, n - 1) /\ Called(t, i) /\ Streamed(t, t.next - 1)
      /\ t.calls = q.calls
  BY <1>1, <1>2, SaidCall
<1> QED
  BY <1>1, <1>3, Zenon DEF Ran

LEMMA ArgumentsDeltaGoesOn ==
  ASSUME NEW p, NEW s, NEW u, NEW n, Linked(p, s, u, n), u.kind = "call",
         NEW i \in Items, LastItem(u, i),
         NEW v, v.items = u.items, v.kind = "call", v.said = TRUE,
         NEW e, e.item = i, e.data \in {"piece", "blank"},
         NEW t, t = HandleArgumentsDelta(s, e)
  PROVE  Linked(p, t, v, n - 1) \/ Over(p, t, n - 1)
<1> PICK k : k = "tool_use"
  OBVIOUS
<1> PICK x : x = e.data
  OBVIOUS
<1> PICK b : b = s.next - 1
  OBVIOUS
<1> PICK w : /\ Standing(p, s, u, k, w, n) /\ Called(s, i) /\ w = s.calls[i].blanks
             /\ u.said <=> Streamed(s, s.next - 1)
  BY AtCall DEF LastItem
<1>1. s = OpenFunctionCallBlock(s, i)
  BY CalledStays
<1>2. s.calls[i].block = b
  BY DEF Called
<1> PICK run : run = BlankRun(s.calls[i], x)
  OBVIOUS
<1>3. run > MaxWhitespace => t = Abandon(CloseAllOpenBlocks(s))
  BY <1>1, Zenon DEF HandleArgumentsDelta
<1>4. ~(run > MaxWhitespace) => t = PushDelta(Run(s, i, run), b, k, x)
  BY <1>1, <1>2, Zenon DEF HandleArgumentsDelta, Run
<1>5. CASE run > MaxWhitespace
  BY <1>3, <1>5, CutOff, Zenon
<1>6. CASE ~(run > MaxWhitespace)
  <2>1. w \in Nat
    BY DEF Standing, Resps, RespStates
  <2>2. (x = "piece" /\ run = 0) \/ (x = "blank" /\ run = w + 1)
    BY DEF BlankRun
  <2>3. run \in Nat
    BY <2>1, <2>2
  <2>4. run = w + 1 => w < MaxWhitespace
    BY <1>6, <2>1, SizesAssumption
  <2>5. x \in Payloads /\ Weighs(x, w, n, run, n - 1)
    BY <2>2, <2>4, Weights, Zenon
  <2>6. LastItem(v, i)
    BY DEF LastItem
  <2>7. t = PushDelta(Run(s, i, run), b, k, x)
    BY <1>4, <1>6
  <2>8. /\ Standing(p, t, v, k, run, n - 1) /\ Called(t, i) /\ Streamed(t, t.next - 1)
        /\ t.calls[i].blanks = run
    BY <2>3, <2>5, <2>6, <2>7, RunGoesOn
  <2>9. run = t.calls[i].blanks /\ i \in Nat /\ v.items = i + 1
    BY <2>8, ItemsAreNumbers DEF LastItem
  <2>10. BlockFits(t, v, k, run)
    BY <2>8, <2>9, FitsCall, Zenon
  <2> QED
    BY <2>8, <2>10, Zenon DEF Linked
<1> QED
  BY <1>5, <1>6

(* What the upstream of the Responses flow says.                           *)
UpKinds == {"none", "call", "text", "text_over", "thinking", "thinking_over", "finished"}

Ups ==
  [count : Nat, state : {"flowing", "ended", "threw"}, begun : BOOLEAN, items : Nat,
   kind : UpKinds, part : Nat, said : BOOLEAN]

\* An event of the type and with the data, said about item i and its part j,
\* with new fragments of content
Meant(says, i, j, type, data, new) ==
  /\ says.event.item = i /\ says.event.part = j
  /\ says.event.type = type /\ says.event.data = data /\ says.new = new

\* Where the upstream is afterwards
Now(v, items, kind, part, said) ==
  v.items = items /\ v.kind = kind /\ v.part = part /\ (v.said <=> said)

\* One more event was said, and the stream goes on as before.
Further(v) ==
  v \in Ups /\ v.begun = up.begun /\ v.count = up.count + 1 /\ v.state = up.state

\* up, at another place
Then(items, kind, part, said) ==
  [count |-> up.count, state |-> up.state, begun |-> up.begun, items |-> items,
   kind |-> kind, part |-> part, said |-> said]

LEMMA Thens ==
  ASSUME up \in Ups
  PROVE  /\ up = Then(up.items, up.kind, up.part, up.said)
         /\ Ended = Then(up.items, "none", 0, FALSE)
         /\ \A kind, said : Begin(kind, said) = Then(up.items + 1, kind, 0, said)
         /\ \A said : [up EXCEPT !.said = said] = Then(up.items, up.kind, up.part, said)
         /\ \A kind : [up EXCEPT !.kind = kind] = Then(up.items, kind, up.part, up.said)
         /\ \A kind, said : [up EXCEPT !.kind = kind, !.said = said]
                              = Then(up.items, kind, up.part, said)
         /\ \A kind : [up EXCEPT !.part = @ + 1, !.kind = kind]
                        = Then(up.items, kind, up.part + 1, up.said)
<1>1. up = Then(up.items, up.kind, up.part, up.said)
  BY DEF Ups, Then
<1>2. Ended = Then(up.items, "none", 0, FALSE)
  <2>1. ASSUME NEW v, v = Ended PROVE v = Then(up.items, "none", 0, FALSE)
    BY <2>1 DEF Ups, Then, Ended
  <2> QED
    BY <2>1, Zenon
<1>3. ASSUME NEW kind, NEW said PROVE Begin(kind, said) = Then(up.items + 1, kind, 0, said)
  <2>1. ASSUME NEW v, v = Begin(kind, said) PROVE v = Then(up.items + 1, kind, 0, said)
    BY <2>1 DEF Ups, Then, Begin
  <2> QED
    BY <2>1, Zenon
<1>4. ASSUME NEW said
      PROVE  [up EXCEPT !.said = said] = Then(up.items, up.kind, up.part, said)
  BY DEF Ups, Then
<1>5. ASSUME NEW kind
      PROVE  [up EXCEPT !.kind = kind] = Then(up.items, kind, up.part, up.said)
  BY DEF Ups, Then
<1>6. ASSUME NEW kind, NEW said
      PROVE  [up EXCEPT !.kind = kind, !.said = said] = Then(up.items, kind, up.part, said)
  <2>1. ASSUME NEW v, v = [up EXCEPT !.kind = kind, !.said = said]
        PROVE  v = Then(up.items, kind, up.part, said)
    BY <2>1 DEF Ups, Then
  <2> QED
    BY <2>1, Zenon
<1>7. ASSUME NEW kind
      PROVE  [up EXCEPT !.part = @ + 1, !.kind = kind] = Then(up.items, kind, up.part + 1, up.said)
  <2>1. ASSUME NEW v, v = [up EXCEPT !.part = @ + 1, !.kind = kind]
        PROVE  v = Then(up.items, kind, up.part + 1, up.said)
    BY <2>1 DEF Ups, Then
  <2> QED
    BY <2>1, Zenon
<1> QED
  BY <1>1, <1>2, <1>3, <1>4, <1>5, <1>6, <1>7, Zenon

LEMMA SaysMeans ==
  ASSUME up \in Ups, NEW i, NEW j, NEW type, NEW data, NEW new,
         NEW items \in Nat, NEW kind \in UpKinds, NEW part \in Nat, NEW said \in BOOLEAN,
         NEW says, says = SaysOf(i, j, type, data, new, Then(items, kind, part, said))
  PROVE  /\ Meant(says, i, j, type, data, new)
         /\ Now(says.next, items, kind, part, said) /\ Further(says.next)
<1> DEFINE v == [count |-> up.count + 1, state |-> up.state, begun |-> up.begun,
                 items |-> items, kind |-> kind, part |-> part, said |-> said]
<1>1. says.event = Event(i, j, type, data) /\ says.new = new /\ says.next = v
  BY DEF SaysOf, Then
<1>2. Meant(says, i, j, type, data, new)
  BY <1>1 DEF Meant, Event
<1>3. v \in Ups
  BY DEF Ups
<1> QED
  BY <1>1, <1>2, <1>3 DEF Now, Further

(* The events, one type after the other.                                   *)
LEMMA Translations ==
  ASSUME NEW s, NEW e
  PROVE  /\ e.type = "created" => TranslateEvent(s, e) = Push(s, <<MessageStart>>)
         /\ e.type = "call_added" => TranslateEvent(s, e) = HandleOutputItemAdded(s, e)
         /\ e.type = "text_delta" => TranslateEvent(s, e) = HandleTextDelta(s, e)
         /\ e.type = "text_done" => TranslateEvent(s, e) = HandleTextDone(s, e)
         /\ e.type = "thinking_delta" => TranslateEvent(s, e) = HandleThinkingDelta(s, e)
         /\ e.type = "thinking_done" => TranslateEvent(s, e) = HandleThinkingDone(s, e)
         /\ e.type = "reasoning_done" => TranslateEvent(s, e) = HandleReasoningDone(s, e)
         /\ e.type = "compaction_done" => TranslateEvent(s, e) = HandleCompactionDone(s, e)
         /\ e.type = "arguments_delta" => TranslateEvent(s, e) = HandleArgumentsDelta(s, e)
         /\ e.type = "arguments_done" => TranslateEvent(s, e) = HandleArgumentsDone(s, e)
         /\ e.type = "completed" => TranslateEvent(s, e) = HandleResponseCompleted(s, e)
         /\ e.type = "failed" => TranslateEvent(s, e) = Abandon(CloseAllOpenBlocks(s))
         /\ e.type = "error" => TranslateEvent(s, e) = Abandon(s)
         /\ e.type = "ping" => TranslateEvent(s, e) = s
  BY Zenon DEF TranslateEvent

LEMMA HeardTextDelta ==
  ASSUME NEW p, NEW s, NEW u, NEW n, Linked(p, s, u, n), Numbers(u), u.kind # "call",
         NEW says, NEW i \in Items, NEW j \in Parts, Onward(u, says.next, i, j),
         Meant(says, i, j, "text_delta", "piece", 1), says.next.kind = "text",
         NEW t, t = TranslateEvent(s, says.event)
  PROVE  Linked(p, t, says.next, n - says.new)
<1> PICK e : e = says.event
  OBVIOUS
<1>1. e.item = i /\ e.part = j /\ e.type = "text_delta" /\ e.data = "piece" /\ says.new = 1
  BY DEF Meant
<1>2. t = HandleTextDelta(s, e)
  BY <1>1, Translations, Zenon
<1>3. Linked(p, t, says.next, n - 1)
  BY <1>1, <1>2, NewTextDelta
<1> QED
  BY <1>1, <1>3

LEMMA HeardTextDone ==
  ASSUME NEW p, NEW s, NEW u, NEW n, Linked(p, s, u, n), Numbers(u), u.kind # "call",
         NEW says, NEW i \in Items, NEW j \in Parts, Onward(u, says.next, i, j),
         Meant(says, i, j, "text_done", "whole", 1), says.next.kind = "text_over",
         NEW t, t = TranslateEvent(s, says.event)
  PROVE  Linked(p, t, says.next, n - says.new)
<1> PICK e : e = says.event
  OBVIOUS
<1>1. e.item = i /\ e.part = j /\ e.type = "text_done" /\ e.data = "whole" /\ says.new = 1
  BY DEF Meant
<1>2. t = HandleTextDone(s, e)
  BY <1>1, Translations, Zenon
<1>3. Linked(p, t, says.next, n - 1)
  BY <1>1, <1>2, NewTextDone
<1> QED
  BY <1>1, <1>3

LEMMA HeardThinkingDelta ==
  ASSUME NEW p, NEW s, NEW u, NEW n, Linked(p, s, u, n), Numbers(u), u.kind # "call",
         NEW says, NEW i \in Items, Onward(u, says.next, i, 0), NEW j,
         Meant(says, i, j, "thinking_delta", "piece", 1), says.next.kind = "thinking",
         NEW t, t = TranslateEvent(s, says.event)
  PROVE  Linked(p, t, says.next, n - says.new)
<1> PICK e : e = says.event
  OBVIOUS
<1>1. e.item = i /\ e.type = "thinking_delta" /\ e.data = "piece" /\ says.new = 1
  BY DEF Meant
<1>2. t = HandleThinkingDelta(s, e)
  BY <1>1, Translations, Zenon
<1>3. Linked(p, t, says.next, n - 1)
  BY <1>1, <1>2, NewThinkingDelta
<1> QED
  BY <1>1, <1>3

LEMMA HeardThinkingDone ==
  ASSUME NEW p, NEW s, NEW u, NEW n, Linked(p, s, u, n), Numbers(u), u.kind # "call",
         NEW says, NEW i \in Items, Onward(u, says.next, i, 0), NEW j,
         Meant(says, i, j, "thinking_done", "whole", 1), says.next.kind = "thinking_over",
         NEW t, t = TranslateEvent(s, says.event)
  PROVE  Linked(p, t, says.next, n - says.new)
<1> PICK e : e = says.event
  OBVIOUS
<1>1. e.item = i /\ e.type = "thinking_done" /\ e.data = "whole" /\ says.new = 1
  BY DEF Meant
<1>2. t = HandleThinkingDone(s, e)
  BY <1>1, Translations, Zenon
<1>3. Linked(p, t, says.next, n - 1)
  BY <1>1, <1>2, NewThinkingDone
<1> QED
  BY <1>1, <1>3

LEMMA NothingLess == \A p, t, v, n : Linked(p, t, v, n) => n \in Int /\ n - 0 = n
<1> TAKE p, t, v, n
<1> HAVE Linked(p, t, v, n)
<1> PICK k, w : Standing(p, t, v, k, w, n)
  BY DEF Linked
<1>1. Resps(t) /\ Leads(p, t.out, Place("started", t.next, RespOpen(t, k), w, n))
  BY DEF Standing, Reports
<1>2. n \in Int
  BY <1>1, OwedIsNumber DEF Resps, RespStates
<1> QED
  BY <1>2

LEMMA HeardReasoningDone ==
  ASSUME NEW p, NEW s, NEW u, NEW n, Linked(p, s, u, n), Numbers(u), u.kind # "call",
         NEW says, NEW i \in Items, Onward(u, says.next, i, 0), NEW j,
         \/ Meant(says, i, j, "reasoning_done", "none", 0)
         \/ Meant(says, i, j, "compaction_done", "none", 0),
         says.next.kind = "none",
         NEW t, t = TranslateEvent(s, says.event)
  PROVE  Linked(p, t, says.next, n - says.new)
<1> PICK e : e = says.event
  OBVIOUS
<1>1. e.item = i /\ e.type \in {"reasoning_done", "compaction_done"} /\ says.new = 0
  BY DEF Meant
<1>2. t \in {HandleReasoningDone(s, e), HandleCompactionDone(s, e)}
  BY <1>1, Translations, Zenon
<1>3. Linked(p, t, says.next, n)
  BY <1>1, <1>2, NewReasoningDone
<1> QED
  BY <1>1, <1>3, NothingLess

LEMMA HeardCallAdded ==
  ASSUME NEW p, NEW s, NEW u, NEW n, Linked(p, s, u, n), Numbers(u), u.kind # "call",
         NEW says, NEW i \in Items, Onward(u, says.next, i, 0), i = u.items, NEW j,
         says.next.kind = "call",
         \/ Meant(says, i, j, "call_added", "none", 0) /\ ~says.next.said
         \/ Meant(says, i, j, "call_added", "piece", 1) /\ says.next.said,
         says.next.said \in BOOLEAN,
         NEW t, t = TranslateEvent(s, says.event)
  PROVE  Linked(p, t, says.next, n - says.new)
<1> PICK e : e = says.event
  OBVIOUS
<1> PICK v : v = says.next
  OBVIOUS
<1> PICK m : m = n - says.new
  OBVIOUS
<1>1. e.item = i /\ e.type = "call_added"
  BY DEF Meant
<1>2. t = HandleOutputItemAdded(s, e)
  BY <1>1, Translations, Zenon
<1>3. \/ e.data = "none" /\ ~v.said /\ m = n
      \/ e.data = "piece" /\ v.said = TRUE /\ m = n - 1
  BY NothingLess DEF Meant
<1>4. v.items = i + 1
  BY DEF Onward
<1>5. Linked(p, t, v, m)
  BY <1>1, <1>2, <1>3, <1>4, NewCallAdded
<1> QED
  BY <1>5

\* What holds of the upstream of the Responses flow
RespUp(u) ==
  /\ u \in Ups /\ u.items <= Cardinality(Items) /\ u.part \in Parts
  /\ u.kind # "finished" /\ (u.kind # "none" => u.items > 0)

LEMMA RespNumbers ==
  ASSUME NEW u, RespUp(u)
  PROVE  Numbers(u) /\ u \in Ups /\ (u.kind # "none" => u.items - 1 \in Items)
<1>1. u.items \in Nat /\ u.part \in Nat
  BY DEF RespUp, Ups
<1>2. u.kind # "none" => u.items - 1 \in 0 .. Cardinality(Items) - 1
  BY <1>1, ItemsAreNumbers DEF RespUp
<1>3. Items = 0 .. Cardinality(Items) - 1
  BY SizesAssumption
<1> QED
  BY <1>1, <1>2, <1>3 DEF Numbers, RespUp

\* The first event of the next item
FirstAs(says, type, data, new, kind, said) ==
  says = SaysOf(up.items, 0, type, data, new, Then(up.items + 1, kind, 0, said))

LEMMA FirstIsSaid ==
  ASSUME up \in Ups, NEW says \in FirstOfItem
  PROVE  /\ up.items # Cardinality(Items)
         /\ \/ FirstAs(says, "call_added", "none", 0, "call", FALSE)
            \/ FirstAs(says, "call_added", "piece", 1, "call", TRUE)
            \/ FirstAs(says, "text_delta", "piece", 1, "text", TRUE)
            \/ FirstAs(says, "text_done", "whole", 1, "text_over", FALSE)
            \/ FirstAs(says, "thinking_delta", "piece", 1, "thinking", TRUE)
            \/ FirstAs(says, "thinking_done", "whole", 1, "thinking_over", FALSE)
            \/ FirstAs(says, "reasoning_done", "none", 0, "none", FALSE)
            \/ FirstAs(says, "compaction_done", "none", 0, "none", FALSE)
<1>1. up.items # Cardinality(Items)
  BY DEF FirstOfItem
<1>2. \/ \E data \in {"none", "piece"} :
           says = FirstSays("call_added", data, New(data), Begin("call", data # "none"))
      \/ says \in {FirstSays("text_delta", "piece", 1, Begin("text", TRUE)),
                   FirstSays("text_done", "whole", 1, Begin("text_over", FALSE)),
                   FirstSays("thinking_delta", "piece", 1, Begin("thinking", TRUE)),
                   FirstSays("thinking_done", "whole", 1, Begin("thinking_over", FALSE)),
                   FirstSays("reasoning_done", "none", 0, Begin("none", FALSE)),
                   FirstSays("compaction_done", "none", 0, Begin("none", FALSE))}
  BY <1>1, Zenon DEF FirstOfItem
<1>3. \A kind, said : Begin(kind, said) = Then(up.items + 1, kind, 0, said)
  BY Thens
<1>4. ASSUME NEW type, NEW data, NEW new, NEW kind, NEW said,
             says = FirstSays(type, data, new, Begin(kind, said))
      PROVE  FirstAs(says, type, data, new, kind, said)
  BY <1>3, <1>4, Zenon DEF FirstSays, FirstAs
<1>5. /\ New("none") = 0 /\ ("none" # "none") = FALSE
      /\ New("piece") = 1 /\ ("piece" # "none") = TRUE
  BY DEF New, Content
<1>6. ASSUME NEW data \in {"none", "piece"},
             says = FirstSays("call_added", data, New(data), Begin("call", data # "none"))
      PROVE  \/ says = FirstSays("call_added", "none", 0, Begin("call", FALSE))
             \/ says = FirstSays("call_added", "piece", 1, Begin("call", TRUE))
  BY <1>5, <1>6, Zenon
<1>7. \/ says = FirstSays("call_added", "none", 0, Begin("call", FALSE))
      \/ says = FirstSays("call_added", "piece", 1, Begin("call", TRUE))
      \/ says = FirstSays("text_delta", "piece", 1, Begin("text", TRUE))
      \/ says = FirstSays("text_done", "whole", 1, Begin("text_over", FALSE))
      \/ says = FirstSays("thinking_delta", "piece", 1, Begin("thinking", TRUE))
      \/ says = FirstSays("thinking_done", "whole", 1, Begin("thinking_over", FALSE))
      \/ says = FirstSays("reasoning_done", "none", 0, Begin("none", FALSE))
      \/ says = FirstSays("compaction_done", "none", 0, Begin("none", FALSE))
  BY <1>2, <1>6, Zenon
<1> QED
  BY <1>1, <1>4, <1>7, Zenon

Arrives(v, kind, said) == v.kind = kind /\ (v.said <=> said) /\ v.said \in BOOLEAN

LEMMA FirstMeans ==
  ASSUME RespUp(up), NEW type, NEW data, NEW new, NEW kind \in UpKinds \ {"finished"},
         NEW said \in BOOLEAN, NEW says, FirstAs(says, type, data, new, kind, said),
         up.items # Cardinality(Items), NEW i, i = up.items
  PROVE  /\ Meant(says, i, 0, type, data, new) /\ Onward(up, says.next, i, 0)
         /\ Arrives(says.next, kind, said) /\ RespUp(says.next) /\ Further(says.next)
<1>1. up \in Ups /\ i \in Nat
  BY DEF RespUp, Ups
<1>2. says = SaysOf(i, 0, type, data, new, Then(i + 1, kind, 0, said))
  BY DEF FirstAs
<1>3. /\ Meant(says, i, 0, type, data, new)
      /\ Now(says.next, i + 1, kind, 0, said) /\ Further(says.next)
  BY <1>1, <1>2, SaysMeans
<1>4. Onward(up, says.next, i, 0)
  BY <1>3 DEF Onward, Now
<1>5. RespUp(says.next)
  <2>1. i + 1 <= Cardinality(Items) /\ i + 1 > 0
    BY <1>1, ItemsAreNumbers DEF RespUp
  <2> QED
    BY <1>3, <2>1, PartsAssumption DEF RespUp, Now, Further
<1>6. says.next.said \in BOOLEAN
  BY <1>3 DEF Further, Ups
<1> QED
  BY <1>3, <1>4, <1>5, <1>6 DEF Now, Arrives

\* What a response's upstream says is met by what the translator makes of it.
Met(p, t, says, n) ==
  /\ Linked(p, t, says.next, n - says.new) \/ Over(p, t, n - says.new)
  /\ RespUp(says.next) /\ Further(says.next)

LEMMA FirstLeads ==
  ASSUME RespUp(up), up.kind \in {"none", "text_over"}, NEW p, NEW s, NEW n, Linked(p, s, up, n),
         NEW says \in FirstOfItem, NEW t, t = TranslateEvent(s, says.event)
  PROVE  Met(p, t, says, n)
<1> PICK i : i = up.items
  OBVIOUS
<1>0. /\ {"none", "call", "text", "text_over", "thinking", "thinking_over"} \subseteq
           UpKinds \ {"finished"}
      /\ {TRUE, FALSE} \subseteq BOOLEAN
  BY DEF UpKinds
<1>1. up \in Ups /\ Numbers(up) /\ up.kind # "call"
  BY RespNumbers
<1>2. up.items # Cardinality(Items)
  BY <1>1, FirstIsSaid
<1>3. i \in Items /\ 0 \in Parts
  <2>1. i \in 0 .. Cardinality(Items) - 1
    BY <1>1, <1>2, ItemsAreNumbers DEF RespUp, Ups
  <2> QED
    BY <2>1, SizesAssumption, PartsAssumption
<1>4. CASE FirstAs(says, "call_added", "none", 0, "call", FALSE)
  <2>1. /\ Meant(says, i, 0, "call_added", "none", 0) /\ Onward(up, says.next, i, 0)
        /\ Arrives(says.next, "call", FALSE) /\ RespUp(says.next) /\ Further(says.next)
    BY <1>2, <1>4, <1>0, FirstMeans, Zenon
  <2>2. Linked(p, t, says.next, n - says.new)
    BY <1>1, <1>3, <2>1, HeardCallAdded DEF Arrives
  <2> QED
    BY <2>1, <2>2, Zenon DEF Met
<1>5. CASE FirstAs(says, "call_added", "piece", 1, "call", TRUE)
  <2>1. /\ Meant(says, i, 0, "call_added", "piece", 1) /\ Onward(up, says.next, i, 0)
        /\ Arrives(says.next, "call", TRUE) /\ RespUp(says.next) /\ Further(says.next)
    BY <1>2, <1>5, <1>0, FirstMeans, Zenon
  <2>2. Linked(p, t, says.next, n - says.new)
    BY <1>1, <1>3, <2>1, HeardCallAdded DEF Arrives
  <2> QED
    BY <2>1, <2>2, Zenon DEF Met
<1>6. CASE FirstAs(says, "text_delta", "piece", 1, "text", TRUE)
  <2>1. /\ Meant(says, i, 0, "text_delta", "piece", 1) /\ Onward(up, says.next, i, 0)
        /\ Arrives(says.next, "text", TRUE) /\ RespUp(says.next) /\ Further(says.next)
    BY <1>2, <1>6, <1>0, FirstMeans, Zenon
  <2>2. Linked(p, t, says.next, n - says.new)
    BY <1>1, <1>3, <2>1, HeardTextDelta DEF Arrives
  <2> QED
    BY <2>1, <2>2, Zenon DEF Met
<1>7. CASE FirstAs(says, "text_done", "whole", 1, "text_over", FALSE)
  <2>1. /\ Meant(says, i, 0, "text_done", "whole", 1) /\ Onward(up, says.next, i, 0)
        /\ Arrives(says.next, "text_over", FALSE) /\ RespUp(says.next) /\ Further(says.next)
    BY <1>2, <1>7, <1>0, FirstMeans, Zenon
  <2>2. Linked(p, t, says.next, n - says.new)
    BY <1>1, <1>3, <2>1, HeardTextDone DEF Arrives
  <2> QED
    BY <2>1, <2>2, Zenon DEF Met
<1>8. CASE FirstAs(says, "thinking_delta", "piece", 1, "thinking", TRUE)
  <2>1. /\ Meant(says, i, 0, "thinking_delta", "piece", 1) /\ Onward(up, says.next, i, 0)
        /\ Arrives(says.next, "thinking", TRUE) /\ RespUp(says.next) /\ Further(says.next)
    BY <1>2, <1>8, <1>0, FirstMeans, Zenon
  <2>2. Linked(p, t, says.next, n - says.new)
    BY <1>1, <1>3, <2>1, HeardThinkingDelta DEF Arrives
  <2> QED
    BY <2>1, <2>2, Zenon DEF Met
<1>9. CASE FirstAs(says, "thinking_done", "whole", 1, "thinking_over", FALSE)
  <2>1. /\ Meant(says, i, 0, "thinking_done", "whole", 1) /\ Onward(up, says.next, i, 0)
        /\ Arrives(says.next, "thinking_over", FALSE) /\ RespUp(says.next) /\ Further(says.next)
    BY <1>2, <1>9, <1>0, FirstMeans, Zenon
  <2>2. Linked(p, t, says.next, n - says.new)
    BY <1>1, <1>3, <2>1, HeardThinkingDone DEF Arrives
  <2> QED
    BY <2>1, <2>2, Zenon DEF Met
<1>10. CASE FirstAs(says, "reasoning_done", "none", 0, "none", FALSE)
  <2>1. /\ Meant(says, i, 0, "reasoning_done", "none", 0) /\ Onward(up, says.next, i, 0)
        /\ Arrives(says.next, "none", FALSE) /\ RespUp(says.next) /\ Further(says.next)
    BY <1>2, <1>10, <1>0, FirstMeans, Zenon
  <2>2. Linked(p, t, says.next, n - says.new)
    BY <1>1, <1>3, <2>1, HeardReasoningDone DEF Arrives
  <2> QED
    BY <2>1, <2>2, Zenon DEF Met
<1>11. CASE FirstAs(says, "compaction_done", "none", 0, "none", FALSE)
  <2>1. /\ Meant(says, i, 0, "compaction_done", "none", 0) /\ Onward(up, says.next, i, 0)
        /\ Arrives(says.next, "none", FALSE) /\ RespUp(says.next) /\ Further(says.next)
    BY <1>2, <1>11, <1>0, FirstMeans, Zenon
  <2>2. Linked(p, t, says.next, n - says.new)
    BY <1>1, <1>3, <2>1, HeardReasoningDone DEF Arrives
  <2> QED
    BY <2>1, <2>2, Zenon DEF Met
<1> QED
  BY <1>1, <1>4, <1>5, <1>6, <1>7, <1>8, <1>9, <1>10, <1>11, FirstIsSaid, Zenon

\* More about the item that is under way
SaysAs(says, j, type, data, new, kind, part, said) ==
  says = SaysOf(up.items - 1, j, type, data, new, Then(up.items, kind, part, said))

Stays(v, i, part) == v.items = up.items /\ v.part = part /\ LastItem(v, i) /\ LastItem(up, i)

LEMMA HereMeans ==
  ASSUME RespUp(up), up.kind # "none", NEW j, NEW type, NEW data, NEW new,
         NEW kind \in UpKinds \ {"finished"}, NEW part \in Parts, NEW said \in BOOLEAN,
         NEW says, SaysAs(says, j, type, data, new, kind, part, said), NEW i, i = up.items - 1
  PROVE  /\ Meant(says, i, j, type, data, new)
         /\ Arrives(says.next, kind, said) /\ Stays(says.next, i, part)
         /\ RespUp(says.next) /\ Further(says.next)
<1>1. up \in Ups /\ up.items \in Nat /\ part \in Nat
  BY ItemsAreNumbers DEF RespUp, Ups
<1>2. says = SaysOf(i, j, type, data, new, Then(up.items, kind, part, said))
  BY DEF SaysAs
<1>3. /\ Meant(says, i, j, type, data, new)
      /\ Now(says.next, up.items, kind, part, said) /\ Further(says.next)
  BY <1>1, <1>2, SaysMeans
<1>4. RespUp(says.next)
  BY <1>3 DEF RespUp, Now, Further
<1>5. says.next.said \in BOOLEAN
  BY <1>3 DEF Further, Ups
<1>6. up.items = i + 1
  BY <1>1
<1>7. Stays(says.next, i, part)
  BY <1>3, <1>6 DEF Stays, Now, LastItem
<1> QED
  BY <1>3, <1>4, <1>5, <1>7 DEF Now, Arrives

LEMMA SaidKinds ==
  /\ {"none", "call", "text", "text_over", "thinking", "thinking_over"} \subseteq
       UpKinds \ {"finished"}
  /\ {TRUE, FALSE} \subseteq BOOLEAN
  BY DEF UpKinds

LEMMA CallLeads ==
  ASSUME RespUp(up), up.kind = "call", NEW p, NEW s, NEW n, Linked(p, s, up, n),
         NEW says \in CallSays, NEW t, t = TranslateEvent(s, says.event)
  PROVE  Met(p, t, says, n)
<1> PICK i : i = up.items - 1
  OBVIOUS
<1> PICK e : e = says.event
  OBVIOUS
<1> PICK v : v = says.next
  OBVIOUS
<1> PICK j : j = up.part
  OBVIOUS
<1>1. up \in Ups /\ i \in Items /\ up.kind # "none" /\ j \in Parts
  BY RespNumbers DEF RespUp
<1>2. up.said \in BOOLEAN
  BY <1>1 DEF Ups
<1>3. \/ \E data \in {"piece", "blank"} : SaysAs(says, j, "arguments_delta", data, 1, "call", j, TRUE)
      \/ SaysAs(says, j, "arguments_done", "whole", IF up.said THEN 0 ELSE 1, "none", 0, FALSE)
  <2>1. /\ Ended = Then(up.items, "none", 0, FALSE)
        /\ [up EXCEPT !.said = TRUE] = Then(up.items, up.kind, up.part, TRUE)
    BY <1>1, Thens, Zenon
  <2> QED
    BY <2>1, Zenon DEF CallSays, Says, SaysAs
<1>4. ASSUME NEW data \in {"piece", "blank"},
             SaysAs(says, j, "arguments_delta", data, 1, "call", j, TRUE)
      PROVE  Met(p, t, says, n)
  <2>1. /\ Meant(says, i, j, "arguments_delta", data, 1)
        /\ Arrives(v, "call", TRUE) /\ Stays(v, i, j) /\ RespUp(v) /\ Further(v)
    BY <1>1, <1>4, HereMeans, SaidKinds, Zenon
  <2>2. e.item = i /\ e.type = "arguments_delta" /\ e.data \in {"piece", "blank"} /\ says.new = 1
    BY <2>1 DEF Meant
  <2>3. t = HandleArgumentsDelta(s, e)
    BY <2>2, Translations, Zenon
  <2>4. v.kind = "call" /\ v.said = TRUE /\ v.items = up.items /\ LastItem(up, i)
    BY <2>1 DEF Arrives, Stays
  <2>5. Linked(p, t, v, n - 1) \/ Over(p, t, n - 1)
    BY <1>1, <2>2, <2>3, <2>4, ArgumentsDeltaGoesOn
  <2> QED
    BY <2>1, <2>2, <2>5, Zenon DEF Met
<1>5. CASE SaysAs(says, j, "arguments_done", "whole", IF up.said THEN 0 ELSE 1, "none", 0, FALSE)
  <2> PICK new : new = IF up.said THEN 0 ELSE 1
    OBVIOUS
  <2> PICK m : m = n - new
    OBVIOUS
  <2>1. /\ Meant(says, i, j, "arguments_done", "whole", new)
        /\ Arrives(v, "none", FALSE) /\ Stays(v, i, 0) /\ RespUp(v) /\ Further(v)
    BY <1>1, <1>5, HereMeans, SaidKinds, PartsAssumption, Zenon
  <2>2. e.item = i /\ e.type = "arguments_done" /\ e.data = "whole" /\ says.new = new
    BY <2>1 DEF Meant
  <2>3. t = HandleArgumentsDone(s, e)
    BY <2>2, Translations, Zenon
  <2>4. v.kind = "none" /\ v.items = up.items
    BY <2>1 DEF Arrives, Stays
  <2>5. \/ up.said = TRUE /\ m = n
        \/ ~up.said /\ m = n - 1
    <3>1. n \in Int
      BY NothingLess
    <3> QED
      BY <1>2, <3>1
  <2>6. Linked(p, t, v, m)
    BY <1>1, <2>2, <2>3, <2>4, <2>5, ArgumentsDoneEnds
  <2> QED
    BY <2>1, <2>2, <2>6, Zenon DEF Met
<1> QED
  BY <1>3, <1>4, <1>5, Zenon

LEMMA TextLeads ==
  ASSUME RespUp(up), up.kind = "text", NEW p, NEW s, NEW n, Linked(p, s, up, n),
         NEW says \in TextSays, NEW t, t = TranslateEvent(s, says.event)
  PROVE  Met(p, t, says, n)
<1> PICK i : i = up.items - 1
  OBVIOUS
<1> PICK e : e = says.event
  OBVIOUS
<1> PICK v : v = says.next
  OBVIOUS
<1> PICK j : j = up.part
  OBVIOUS
<1>1. up \in Ups /\ i \in Items /\ up.kind # "none" /\ j \in Parts
  BY RespNumbers DEF RespUp
<1>2. up.said \in BOOLEAN
  BY <1>1 DEF Ups
<1>3. \/ SaysAs(says, j, "text_delta", "piece", 1, "text", j, up.said)
      \/ SaysAs(says, j, "text_done", "whole", 0, "text_over", j, up.said)
  <2>1. /\ up = Then(up.items, up.kind, up.part, up.said)
        /\ [up EXCEPT !.kind = "text_over"] = Then(up.items, "text_over", up.part, up.said)
    BY <1>1, Thens, Zenon
  <2>2. CASE says = Says("text_delta", "piece", 1, up)
    BY <2>1, <2>2, Zenon DEF Says, SaysAs
  <2>3. CASE says = Says("text_done", "whole", 0, [up EXCEPT !.kind = "text_over"])
    BY <2>1, <2>3, Zenon DEF Says, SaysAs
  <2> QED
    BY <2>2, <2>3 DEF TextSays
<1>4. CASE SaysAs(says, j, "text_delta", "piece", 1, "text", j, up.said)
  <2>1. /\ Meant(says, i, j, "text_delta", "piece", 1)
        /\ Arrives(v, "text", up.said) /\ Stays(v, i, j) /\ RespUp(v) /\ Further(v)
    BY <1>1, <1>2, <1>4, HereMeans, SaidKinds, Zenon
  <2>2. /\ e.item = i /\ e.type = "text_delta" /\ e.data = "piece" /\ e.part = up.part
        /\ says.new = 1
    BY <2>1 DEF Meant
  <2>3. t = HandleTextDelta(s, e)
    BY <2>2, Translations, Zenon
  <2>4. v.kind = "text" /\ v.items = up.items /\ v.part = up.part /\ v.items = i + 1
    BY <2>1 DEF Arrives, Stays, LastItem
  <2>5. Linked(p, t, v, n - 1)
    BY <1>1, <2>2, <2>3, <2>4, TextDeltaGoesOn
  <2> QED
    BY <2>1, <2>2, <2>5, Zenon DEF Met
<1>5. CASE SaysAs(says, j, "text_done", "whole", 0, "text_over", j, up.said)
  <2>1. /\ Meant(says, i, j, "text_done", "whole", 0)
        /\ Arrives(v, "text_over", up.said) /\ Stays(v, i, j) /\ RespUp(v) /\ Further(v)
    BY <1>1, <1>2, <1>5, HereMeans, SaidKinds, Zenon
  <2>2. /\ e.item = i /\ e.type = "text_done" /\ e.data = "whole" /\ e.part = up.part
        /\ says.new = 0
    BY <2>1 DEF Meant
  <2>3. t = HandleTextDone(s, e)
    BY <2>2, Translations, Zenon
  <2>4. v.kind = "text_over" /\ v.items = up.items /\ v.part = up.part
    BY <2>1 DEF Arrives, Stays
  <2>5. Linked(p, t, v, n) /\ n - 0 = n
    BY <1>1, <2>2, <2>3, <2>4, TextDoneGoesOn, NothingLess
  <2> QED
    BY <2>1, <2>2, <2>5, Zenon DEF Met
<1> QED
  BY <1>3, <1>4, <1>5, Zenon

LEMMA NextPartLeads ==
  ASSUME RespUp(up), up.kind = "text_over", up.part + 1 \in Parts,
         NEW p, NEW s, NEW n, Linked(p, s, up, n),
         NEW says \in NextPartSays, NEW t, t = TranslateEvent(s, says.event)
  PROVE  Met(p, t, says, n)
<1> PICK i : i = up.items - 1
  OBVIOUS
<1> PICK v : v = says.next
  OBVIOUS
<1> PICK j \in Parts : j = up.part + 1
  OBVIOUS
<1>1. up \in Ups /\ i \in Items /\ up.kind # "none" /\ up.kind # "call" /\ Numbers(up)
  BY RespNumbers
<1>2. up.said \in BOOLEAN
  BY <1>1 DEF Ups
<1>3. \/ SaysAs(says, j, "text_delta", "piece", 1, "text", j, up.said)
      \/ SaysAs(says, j, "text_done", "whole", 1, "text_over", j, up.said)
  <2>1. \A kind : [up EXCEPT !.part = @ + 1, !.kind = kind]
                    = Then(up.items, kind, up.part + 1, up.said)
    BY <1>1, Thens, Zenon
  <2>2. CASE says = PartSays("text_delta", "piece", "text")
    BY <2>1, <2>2, Zenon DEF PartSays, SaysAs
  <2>3. CASE says = PartSays("text_done", "whole", "text_over")
    BY <2>1, <2>3, Zenon DEF PartSays, SaysAs
  <2> QED
    BY <2>2, <2>3 DEF NextPartSays
<1>4. CASE SaysAs(says, j, "text_delta", "piece", 1, "text", j, up.said)
  <2>1. /\ Meant(says, i, j, "text_delta", "piece", 1)
        /\ Arrives(v, "text", up.said) /\ Stays(v, i, j) /\ RespUp(v) /\ Further(v)
    BY <1>1, <1>2, <1>4, HereMeans, SaidKinds, Zenon
  <2>2. Onward(up, v, i, j) /\ v.kind = "text"
    BY <2>1 DEF Arrives, Stays, LastItem, Onward, InText
  <2>3. Linked(p, t, v, n - says.new)
    BY <1>1, <2>1, <2>2, HeardTextDelta
  <2> QED
    BY <2>1, <2>3, Zenon DEF Met
<1>5. CASE SaysAs(says, j, "text_done", "whole", 1, "text_over", j, up.said)
  <2>1. /\ Meant(says, i, j, "text_done", "whole", 1)
        /\ Arrives(v, "text_over", up.said) /\ Stays(v, i, j) /\ RespUp(v) /\ Further(v)
    BY <1>1, <1>2, <1>5, HereMeans, SaidKinds, Zenon
  <2>2. Onward(up, v, i, j) /\ v.kind = "text_over"
    BY <2>1 DEF Arrives, Stays, LastItem, Onward, InText
  <2>3. Linked(p, t, v, n - says.new)
    BY <1>1, <2>1, <2>2, HeardTextDone
  <2> QED
    BY <2>1, <2>3, Zenon DEF Met
<1> QED
  BY <1>3, <1>4, <1>5, Zenon

LEMMA ThinkingDeltaLeads ==
  ASSUME RespUp(up), up.kind = "thinking" \/ up.kind = "thinking_over",
         NEW p, NEW s, NEW n, Linked(p, s, up, n), NEW said \in BOOLEAN, NEW j, j = up.part,
         NEW says, SaysAs(says, j, "thinking_delta", "piece", 1, "thinking", j, said),
         NEW t, t = TranslateEvent(s, says.event)
  PROVE  Met(p, t, says, n)
<1> PICK i : i = up.items - 1
  OBVIOUS
<1> PICK e : e = says.event
  OBVIOUS
<1> PICK v : v = says.next
  OBVIOUS
<1>1. up \in Ups /\ i \in Items /\ up.kind # "none" /\ j \in Parts
  BY RespNumbers DEF RespUp
<1>2. /\ Meant(says, i, j, "thinking_delta", "piece", 1)
      /\ Arrives(v, "thinking", said) /\ Stays(v, i, j) /\ RespUp(v) /\ Further(v)
  BY <1>1, HereMeans, SaidKinds, Zenon
<1>3. e.item = i /\ e.type = "thinking_delta" /\ e.data = "piece" /\ says.new = 1
  BY <1>2 DEF Meant
<1>4. t = HandleThinkingDelta(s, e)
  BY <1>3, Translations, Zenon
<1>5. v.kind = "thinking" /\ v.items = up.items /\ v.items = i + 1
  BY <1>2 DEF Arrives, Stays, LastItem
<1>6. Linked(p, t, v, n - 1)
  BY <1>1, <1>3, <1>4, <1>5, ThinkingDeltaGoesOn
<1> QED
  BY <1>2, <1>3, <1>6, Zenon DEF Met

LEMMA ThinkingLeads ==
  ASSUME RespUp(up), up.kind = "thinking", NEW p, NEW s, NEW n, Linked(p, s, up, n),
         NEW says \in ThinkingSays, NEW t, t = TranslateEvent(s, says.event)
  PROVE  Met(p, t, says, n)
<1> PICK i : i = up.items - 1
  OBVIOUS
<1> PICK e : e = says.event
  OBVIOUS
<1> PICK v : v = says.next
  OBVIOUS
<1> PICK j : j = up.part
  OBVIOUS
<1>1. up \in Ups /\ i \in Items /\ up.kind # "none" /\ j \in Parts
  BY RespNumbers DEF RespUp
<1>2. up.said \in BOOLEAN
  BY <1>1 DEF Ups
<1>3. \/ SaysAs(says, j, "thinking_delta", "piece", 1, "thinking", j, up.said)
      \/ SaysAs(says, j, "thinking_done", "whole", 0, "thinking_over", j, up.said)
  <2>1. /\ up = Then(up.items, up.kind, up.part, up.said)
        /\ [up EXCEPT !.kind = "thinking_over"]
             = Then(up.items, "thinking_over", up.part, up.said)
    BY <1>1, Thens, Zenon
  <2>2. CASE says = Says("thinking_delta", "piece", 1, up)
    BY <2>1, <2>2, Zenon DEF Says, SaysAs
  <2>3. CASE says = Says("thinking_done", "whole", 0, [up EXCEPT !.kind = "thinking_over"])
    BY <2>1, <2>3, Zenon DEF Says, SaysAs
  <2> QED
    BY <2>2, <2>3 DEF ThinkingSays
<1>4. CASE SaysAs(says, j, "thinking_delta", "piece", 1, "thinking", j, up.said)
  BY <1>2, <1>4, ThinkingDeltaLeads
<1>5. CASE SaysAs(says, j, "thinking_done", "whole", 0, "thinking_over", j, up.said)
  <2>1. /\ Meant(says, i, j, "thinking_done", "whole", 0)
        /\ Arrives(v, "thinking_over", up.said) /\ Stays(v, i, j) /\ RespUp(v) /\ Further(v)
    BY <1>1, <1>2, <1>5, HereMeans, SaidKinds, Zenon
  <2>2. e.item = i /\ e.type = "thinking_done" /\ e.data = "whole" /\ says.new = 0
    BY <2>1 DEF Meant
  <2>3. t = HandleThinkingDone(s, e)
    BY <2>2, Translations, Zenon
  <2>4. v.kind = "thinking_over" /\ v.items = up.items /\ v.items = i + 1
    BY <2>1 DEF Arrives, Stays, LastItem
  <2>5. Linked(p, t, v, n)
    BY <1>1, <2>2, <2>3, <2>4, ThinkingDoneGoesOn
  <2>6. n - 0 = n
    BY NothingLess
  <2> QED
    BY <2>1, <2>2, <2>5, <2>6, Zenon DEF Met
<1> QED
  BY <1>3, <1>4, <1>5, Zenon

LEMMA ThoughtLeads ==
  ASSUME RespUp(up), up.kind = "thinking_over", NEW p, NEW s, NEW n, Linked(p, s, up, n),
         NEW says \in ThoughtSays, NEW t, t = TranslateEvent(s, says.event)
  PROVE  Met(p, t, says, n)
<1> PICK i : i = up.items - 1
  OBVIOUS
<1> PICK e : e = says.event
  OBVIOUS
<1> PICK v : v = says.next
  OBVIOUS
<1> PICK j : j = up.part
  OBVIOUS
<1>1. up \in Ups /\ i \in Items /\ up.kind # "none" /\ j \in Parts
  BY RespNumbers DEF RespUp
<1>2. \/ SaysAs(says, j, "thinking_delta", "piece", 1, "thinking", j, TRUE)
      \/ SaysAs(says, j, "reasoning_done", "none", 0, "none", 0, FALSE)
  <2>1. /\ Ended = Then(up.items, "none", 0, FALSE)
        /\ [up EXCEPT !.kind = "thinking", !.said = TRUE]
             = Then(up.items, "thinking", up.part, TRUE)
    BY <1>1, Thens, Zenon
  <2>2. CASE says = Says("thinking_delta", "piece", 1, [up EXCEPT !.kind = "thinking", !.said = TRUE])
    BY <2>1, <2>2, Zenon DEF Says, SaysAs
  <2>3. CASE says = Says("reasoning_done", "none", 0, Ended)
    BY <2>1, <2>3, Zenon DEF Says, SaysAs
  <2> QED
    BY <2>2, <2>3, Zenon DEF ThoughtSays
<1>3. CASE SaysAs(says, j, "thinking_delta", "piece", 1, "thinking", j, TRUE)
  BY <1>3, ThinkingDeltaLeads, SaidKinds, Zenon
<1>4. CASE SaysAs(says, j, "reasoning_done", "none", 0, "none", 0, FALSE)
  <2>1. /\ Meant(says, i, j, "reasoning_done", "none", 0)
        /\ Arrives(v, "none", FALSE) /\ Stays(v, i, 0) /\ RespUp(v) /\ Further(v)
    BY <1>1, <1>4, HereMeans, SaidKinds, PartsAssumption, Zenon
  <2>2. e.item = i /\ e.type = "reasoning_done" /\ says.new = 0
    BY <2>1 DEF Meant
  <2>3. t = HandleReasoningDone(s, e)
    BY <2>2, Translations, Zenon
  <2>4. v.kind = "none" /\ v.items = up.items
    BY <2>1 DEF Arrives, Stays
  <2>5. Linked(p, t, v, n) /\ n - 0 = n
    BY <2>2, <2>3, <2>4, ReasoningDoneEnds, NothingLess
  <2> QED
    BY <2>1, <2>2, <2>5, Zenon DEF Met
<1> QED
  BY <1>2, <1>3, <1>4, Zenon

(* The end, and the beginning, of a response.                              *)
EndsAs(says, type) ==
  says.event.type = type /\ says.new = 0 /\ RespUp(says.next) /\ Further(says.next)

LEMMA EndMeans ==
  ASSUME RespUp(up), NEW i, NEW j, NEW type, NEW says, says = SaysOf(i, j, type, "none", 0, Ended)
  PROVE  EndsAs(says, type)
<1>1. up \in Ups /\ up.items \in Nat
  BY DEF RespUp, Ups
<1>2. Ended = Then(up.items, "none", 0, FALSE)
  BY <1>1, Thens, Zenon
<1>3. /\ Meant(says, i, j, type, "none", 0)
      /\ Now(says.next, up.items, "none", 0, FALSE) /\ Further(says.next)
  BY <1>1, <1>2, SaysMeans, SaidKinds, Zenon
<1>4. RespUp(says.next)
  BY <1>3, PartsAssumption DEF RespUp, Now, Further
<1> QED
  BY <1>3, <1>4 DEF Meant, EndsAs

LEMMA CompletedMeans ==
  ASSUME RespUp(up), NEW i, NEW j, NEW body, NEW r, r = SaysOf(i, j, "completed", "none", 0, Ended),
         NEW says, says = [r EXCEPT !.event.body = body]
  PROVE  EndsAs(says, "completed")
<1>1. RespUp(r.next) /\ Further(r.next)
  BY EndMeans, Zenon DEF EndsAs
<1> PICK v : v = r.next
  OBVIOUS
<1>2. r = [event |-> Event(i, j, "completed", "none"), new |-> 0, next |-> v]
  BY DEF SaysOf
<1>3. says.event.type = "completed" /\ says.new = 0 /\ says.next = v
  BY <1>2 DEF Event
<1> QED
  BY <1>1, <1>3 DEF EndsAs

LEMMA TerminalLeads ==
  ASSUME RespUp(up), NEW p, NEW s, NEW n, Linked(p, s, up, n),
         NEW says \in Terminal, NEW t, t = TranslateEvent(s, says.event)
  PROVE  Met(p, t, says, n)
<1> PICK k, w : Standing(p, s, up, k, w, n)
  BY DEF Linked
<1> PICK i, j : i = up.items - 1 /\ j = up.part
  OBVIOUS
<1>1. n - 0 = n
  BY NothingLess
<1>2. CASE says = Says("failed", "none", 0, Ended)
  <2>1. says = SaysOf(i, j, "failed", "none", 0, Ended)
    BY <1>2 DEF Says
  <2>2. EndsAs(says, "failed")
    BY <2>1, EndMeans, Zenon
  <2>3. t = Abandon(CloseAllOpenBlocks(s))
    BY <2>2, Translations, Zenon DEF EndsAs
  <2>4. Over(p, t, n)
    BY <2>3, CutOff
  <2> QED
    BY <1>1, <2>2, <2>4, Zenon DEF Met, EndsAs
<1>3. CASE says = Says("error", "none", 0, Ended)
  <2>1. says = SaysOf(i, j, "error", "none", 0, Ended)
    BY <1>3 DEF Says
  <2>2. EndsAs(says, "error")
    BY <2>1, EndMeans, Zenon
  <2>3. t = Abandon(s)
    BY <2>2, Translations, Zenon DEF EndsAs
  <2>4. Resps(s) /\ Leads(p, s.out, Place("started", s.next, RespOpen(s, k), w, n))
    BY DEF Standing, Reports
  <2>5. Over(p, t, n)
    BY <2>3, <2>4, Abandoned
  <2> QED
    BY <1>1, <2>2, <2>5, Zenon DEF Met, EndsAs
<1>4. ASSUME NEW body \in BOOLEAN,
             says = [Says("completed", "none", 0, Ended) EXCEPT !.event.body = body]
      PROVE  Met(p, t, says, n)
  <2>1. says = [SaysOf(i, j, "completed", "none", 0, Ended) EXCEPT !.event.body = body]
    BY <1>4, Zenon DEF Says
  <2>2. EndsAs(says, "completed")
    BY <2>1, CompletedMeans, Zenon
  <2>3. t = HandleResponseCompleted(s, says.event)
    BY <2>2, Translations, Zenon DEF EndsAs
  <2>4. Over(p, t, n)
    BY <2>3, ResponseCompleted
  <2> QED
    BY <1>1, <2>2, <2>4, Zenon DEF Met, EndsAs
<1> QED
  BY <1>2, <1>3, <1>4, Zenon DEF Terminal

LEMMA NoResponseYet ==
  /\ Resps(ResponsesState) /\ ~ResponsesState.completed
  /\ ResponsesState.out = <<>> /\ ResponsesState.next = 0 /\ ResponsesState.open = {}
  /\ \A i \in Items, j \in Parts : ResponsesState.keys[<<i, j>>] = NoBlockIndex
  /\ \A i \in Items : ResponsesState.calls[i] = NoCall
<1>1. [k \in Items \X Parts |-> NoBlockIndex] \in [Items \X Parts -> Int]
  BY DEF NoBlockIndex
<1>2. [i \in Items |-> NoCall] \in [Items -> [block : Int, blanks : Nat]]
  BY DEF NoCall, NoBlockIndex
<1>3. ResponsesState \in RespStates
  BY <1>1, <1>2 DEF ResponsesState, RespStates
<1>4. /\ ResponsesState.out = <<>> /\ ResponsesState.next = 0 /\ ResponsesState.open = {}
      /\ ResponsesState.hasDelta = {} /\ ~ResponsesState.completed
  BY DEF ResponsesState
<1>5. \A i \in Items, j \in Parts : ResponsesState.keys[<<i, j>>] = NoBlockIndex
  BY DEF ResponsesState
<1>6. \A i \in Items : ResponsesState.calls[i] = NoCall
  BY DEF ResponsesState
<1> QED
  BY <1>3, <1>4, <1>5, <1>6 DEF Resps

LEMMA CreatedLinks ==
  ASSUME NEW p, NEW w, NEW n, Leads(p, <<>>, Place("none", 0, NoBlock, w, n)),
         NEW v, v.kind = "none", NEW t, t = Push(ResponsesState, <<MessageStart>>)
  PROVE  Linked(p, t, v, n)
<1> PICK s : s = ResponsesState
  OBVIOUS
<1>1. /\ Resps(s) /\ ~s.completed /\ s.out = <<>> /\ s.next = 0 /\ s.open = {}
      /\ \A i \in Items, j \in Parts : s.keys[<<i, j>>] = NoBlockIndex
      /\ \A i \in Items : s.calls[i] = NoCall
  BY NoResponseYet
<1> DEFINE o == s.out \o <<MessageStart>>
<1>2. s.out \in Seq(Events)
  BY <1>1
<1> PICK b, ph : b = 0 /\ ph = "none"
  OBVIOUS
<1>3. o \in Seq(Events) /\ Leads(p, o, Place("started", 0, NoBlock, w, n))
  <2>1. Leads(p, s.out, Place(ph, b, NoBlock, w, n))
    BY <1>1, Zenon
  <2>2. o \in Seq(Events) /\ Leads(p, o, Place("started", b, NoBlock, w, n))
    BY <1>2, <2>1, SayPlain
  <2> QED
    BY <2>2
<1>4. t = Put(s, o, s.calls)
  BY <1>1 DEF Push, Put, Resps, RespStates
<1> HIDE DEF o
<1>5. s.calls \in [Items -> [block : Int, blanks : Nat]]
  BY <1>1 DEF Resps, RespStates
<1>6. Resps(t) /\ t.out = o
  BY <1>1, <1>3, <1>4, <1>5, PutStays
<1>7. ~t.completed /\ t.next = 0 /\ t.open = {} /\ t.keys = s.keys /\ t.calls = s.calls
  BY <1>1, <1>4 DEF Put, Resps, RespStates
<1>8. KeysFit(t, v) /\ CallsFit(t, v)
  BY <1>1, <1>7 DEF KeysFit, CallsFit
<1>9. Reports(p, t, "text", w, n) /\ "text" \in Kinds
  BY <1>3, <1>6, <1>7, Zenon DEF Reports, RespOpen, Kinds
<1>10. Standing(p, t, v, "text", w, n)
  BY <1>6, <1>7, <1>8, <1>9 DEF Standing
<1>11. BlockFits(t, v, "text", w)
  BY FitsNothing, Zenon
<1> QED
  BY <1>10, <1>11, Zenon DEF Linked

\* Anything but a ping
Speaks(says) == says.new \in Int /\ says.event.type # "ping"

LEMMA AllSpeak ==
  ASSUME NEW says \in FirstOfItem \cup InItem \cup Terminal
  PROVE  Speaks(says)
<1>1. \A i, j, type, data, new, next :
        /\ SaysOf(i, j, type, data, new, next).new = new
        /\ SaysOf(i, j, type, data, new, next).event.type = type
  BY DEF SaysOf, Event
<1>2. \A type, data, new, next :
        /\ Says(type, data, new, next).new = new
        /\ Says(type, data, new, next).event.type = type
  BY <1>1 DEF Says
<1>3. \A type, data, new, next :
        /\ FirstSays(type, data, new, next).new = new
        /\ FirstSays(type, data, new, next).event.type = type
  BY <1>1 DEF FirstSays
<1>4. \A data : New(data) \in Int
  BY DEF New
<1>5. ASSUME says \in FirstOfItem PROVE Speaks(says)
  <2>1. says \in FirstOfItem /\ up.items # Cardinality(Items)
    BY <1>5 DEF FirstOfItem
  <2>2. \/ \E data, next : says = FirstSays("call_added", data, New(data), next)
        \/ \E type, data, next : type # "ping" /\ says = FirstSays(type, data, 1, next)
        \/ \E type, data, next : type # "ping" /\ says = FirstSays(type, data, 0, next)
    BY <2>1, Zenon DEF FirstOfItem
  <2> QED
    BY <1>3, <1>4, <2>2 DEF Speaks
<1>6. ASSUME says \in CallSays PROVE Speaks(says)
  BY <1>2, <1>6 DEF CallSays, Speaks
<1>7. ASSUME says \in TextSays \cup ThinkingSays \cup ThoughtSays PROVE Speaks(says)
  BY <1>2, <1>7 DEF TextSays, ThinkingSays, ThoughtSays, Speaks
<1>8. ASSUME says \in NextPartSays PROVE Speaks(says)
  BY <1>1, <1>8 DEF NextPartSays, PartSays, Speaks
<1>9. ASSUME says \in Terminal PROVE Speaks(says)
  <2>1. ASSUME NEW body, says = [Says("completed", "none", 0, Ended) EXCEPT !.event.body = body]
        PROVE  says.new = 0 /\ says.event.type = "completed"
    BY <2>1 DEF Says, SaysOf, Event
  <2> QED
    BY <1>2, <1>9, <2>1 DEF Terminal, Speaks
<1>10. ASSUME says \in InItem PROVE Speaks(says)
  <2>1. InItem \in {CallSays, TextSays, NextPartSays, ThinkingSays, ThoughtSays, {}}
    BY Zenon DEF InItem
  <2> QED
    BY <1>6, <1>7, <1>8, <1>10, <2>1
<1> QED
  BY <1>5, <1>9, <1>10

(* One event of a response is read.                                        *)
\* Where the translator s and the upstream u are when the client is at q
Kept(s, u, k, w) ==
  /\ KeysFit(s, u) /\ CallsFit(s, u) /\ BlockFits(s, u, k, w) /\ k \in Kinds

RespAt(s, u, q) ==
  /\ RespUp(u) /\ Resps(s)
  /\ \/ s.completed /\ (q.phase = "failed" \/ (q.phase = "stopped" /\ q.owed = 0))
     \/ /\ ~s.completed /\ u.begun
        /\ \E k, w : Kept(s, u, k, w) /\ q = Place("started", s.next, RespOpen(s, k), w, 0)
     \/ /\ s = ResponsesState /\ ~u.begun /\ u.kind = "none"
        /\ \E w : q = Place("none", 0, NoBlock, w, 0)

Written(s) == [s EXCEPT !.out = <<>>]

LEMMA WrittenStays ==
  ASSUME NEW s, Resps(s), NEW t, t = Written(s)
  PROVE  /\ Resps(t) /\ Same(t, s) /\ t.open = s.open /\ t.hasDelta = s.hasDelta
         /\ (t.completed <=> s.completed)
<1>1. s \in RespStates
  BY DEF Resps
<1>2. t = [completed |-> s.completed, next |-> s.next, keys |-> s.keys, open |-> s.open,
           hasDelta |-> s.hasDelta, calls |-> s.calls, out |-> <<>>]
  BY <1>1 DEF RespStates, Written
<1>3. t \in RespStates
  BY <1>1, <1>2 DEF RespStates
<1>4. /\ t.completed = s.completed /\ t.next = s.next /\ t.open = s.open
      /\ t.hasDelta = s.hasDelta /\ t.keys = s.keys /\ t.calls = s.calls
  BY <1>2
<1> QED
  BY <1>3, <1>4 DEF Resps, Same

LEMMA LinkedIsAt ==
  ASSUME NEW p, NEW t, NEW v, RespUp(v), v.begun, NEW k, NEW w,
         Standing(p, t, v, k, w, 0), BlockFits(t, v, k, w), NEW s, s = Written(t)
  PROVE  t.out \in Seq(Events) /\ \E q : Leads(p, t.out, q) /\ RespAt(s, v, q)
<1>1. /\ Resps(t) /\ ~t.completed /\ KeysFit(t, v) /\ CallsFit(t, v) /\ k \in Kinds
      /\ Leads(p, t.out, Place("started", t.next, RespOpen(t, k), w, 0))
  BY DEF Standing, Reports
<1>2. /\ Resps(s) /\ Same(s, t) /\ s.open = t.open /\ s.hasDelta = t.hasDelta
      /\ ~s.completed
  BY <1>1, WrittenStays
<1>3. KeysFit(s, v) /\ CallsFit(s, v) /\ RespOpen(s, k) = RespOpen(t, k) /\ s.next = t.next
  BY <1>1, <1>2, SameFits DEF RespOpen
<1>4. BlockFits(s, v, k, w)
  BY <1>2, Zenon DEF BlockFits, Current, Streamed, Same
<1>5. RespAt(s, v, Place("started", s.next, RespOpen(s, k), w, 0))
  BY <1>1, <1>2, <1>3, <1>4, Zenon DEF RespAt, Kept
<1>6. t.out \in Seq(Events)
  BY <1>1 DEF Resps, RespStates
<1> QED
  BY <1>1, <1>3, <1>5, <1>6, Zenon

LEMMA MetIsAt ==
  ASSUME NEW p, NEW t, NEW says, NEW n, Met(p, t, says, n), n - says.new = 0, says.next.begun,
         NEW s, s = Written(t)
  PROVE  t.out \in Seq(Events) /\ \E q : Leads(p, t.out, q) /\ RespAt(s, says.next, q)
<1> PICK v : v = says.next
  OBVIOUS
<1>1. RespUp(v) /\ v.begun /\ (Linked(p, t, v, 0) \/ Over(p, t, 0))
  BY Zenon DEF Met
<1>2. CASE Linked(p, t, v, 0)
  <2> PICK k, w : Standing(p, t, v, k, w, 0) /\ BlockFits(t, v, k, w)
    BY <1>2 DEF Linked
  <2> QED
    BY <1>1, LinkedIsAt
<1>3. CASE Over(p, t, 0)
  <2> PICK ph, b, o, w, m :
        /\ Leads(p, t.out, Place(ph, b, o, w, m))
        /\ ph = "failed" \/ (ph = "stopped" /\ m = 0)
    BY <1>3, Zenon DEF Over
  <2>1. Resps(t) /\ t.completed
    BY <1>3 DEF Over
  <2>2. Resps(s) /\ s.completed
    BY <2>1, WrittenStays
  <2>3. Place(ph, b, o, w, m).phase = ph /\ Place(ph, b, o, w, m).owed = m
    BY DEF Place
  <2>4. RespAt(s, v, Place(ph, b, o, w, m))
    BY <1>1, <2>2, <2>3, Zenon DEF RespAt
  <2>5. t.out \in Seq(Events)
    BY <2>1 DEF Resps, RespStates
  <2> QED
    BY <2>4, <2>5, Zenon
<1> QED
  BY <1>1, <1>2, <1>3

LEMMA InItemLeads ==
  ASSUME RespUp(up), NEW p, NEW s, NEW n, Linked(p, s, up, n),
         NEW says \in InItem, NEW t, t = TranslateEvent(s, says.event)
  PROVE  Met(p, t, says, n)
<1>1. \/ up.kind = "call" /\ InItem = CallSays
      \/ up.kind = "text" /\ InItem = TextSays
      \/ up.kind = "text_over" /\ up.part + 1 \in Parts /\ InItem = NextPartSays
      \/ up.kind = "thinking" /\ InItem = ThinkingSays
      \/ up.kind = "thinking_over" /\ InItem = ThoughtSays
      \/ InItem = {}
  BY Zenon DEF InItem
<1>2. CASE up.kind = "call" /\ InItem = CallSays
  BY <1>2, CallLeads, Zenon
<1>3. CASE up.kind = "text" /\ InItem = TextSays
  BY <1>3, TextLeads, Zenon
<1>4. CASE up.kind = "text_over" /\ up.part + 1 \in Parts /\ InItem = NextPartSays
  BY <1>4, NextPartLeads, Zenon
<1>5. CASE up.kind = "thinking" /\ InItem = ThinkingSays
  BY <1>5, ThinkingLeads, Zenon
<1>6. CASE up.kind = "thinking_over" /\ InItem = ThoughtSays
  BY <1>6, ThoughtLeads, Zenon
<1> QED
  BY <1>1, <1>2, <1>3, <1>4, <1>5, <1>6

\* The events that the flow writes for what was said
WrittenFor(says, t) == IF says.event.type = "ping" THEN <<PingEvent>> ELSE t.out

\* From p, they lead to where the upstream and the translator then are.
Reached(p, t, says) ==
  /\ WrittenFor(says, t) \in Seq(Events)
  /\ \E q : Leads(p, WrittenFor(says, t), q) /\ RespAt(Written(t), says.next, q)

LEMMA MetIsReached ==
  ASSUME NEW p, NEW t, NEW says, NEW n, Met(p, t, says, n), n = says.new, says.next.begun,
         Speaks(says)
  PROVE  Reached(p, t, says)
<1> PICK s : s = Written(t)
  OBVIOUS
<1>1. n - says.new = 0 /\ WrittenFor(says, t) = t.out
  BY DEF Speaks, WrittenFor
<1>2. t.out \in Seq(Events) /\ \E q : Leads(p, t.out, q) /\ RespAt(s, says.next, q)
  BY <1>1, MetIsAt
<1> QED
  BY <1>1, <1>2, Zenon DEF Reached

\* A ping leads nowhere, and leaves everything as it was.
LEMMA PingMeans ==
  ASSUME up \in Ups, NEW says, says = Says("ping", "none", 0, up)
  PROVE  /\ says.event.type = "ping" /\ says.new = 0 /\ Further(says.next)
         /\ Now(says.next, up.items, up.kind, up.part, up.said)
<1>1. up = Then(up.items, up.kind, up.part, up.said)
  BY Thens, Zenon
<1>2. /\ up.items \in Nat /\ up.kind \in UpKinds /\ up.part \in Nat /\ up.said \in BOOLEAN
  BY DEF Ups
<1> PICK i, j : i = up.items - 1 /\ j = up.part
  OBVIOUS
<1>3. says = SaysOf(i, j, "ping", "none", 0, Then(up.items, up.kind, up.part, up.said))
  BY <1>1, Zenon DEF Says
<1>4. /\ Meant(says, i, j, "ping", "none", 0)
      /\ Now(says.next, up.items, up.kind, up.part, up.said) /\ Further(says.next)
  BY <1>2, <1>3, SaysMeans, Zenon
<1> QED
  BY <1>4 DEF Meant

LEMMA PingFits ==
  ASSUME NEW p \in Places, p.phase \in {"none", "started"}
  PROVE  Leads(p, <<PingEvent>>, p) /\ <<PingEvent>> \in Seq(Events)
<1>1. Fits(p, PingEvent)
  BY DEF Fits
<1> DEFINE q == After(p, PingEvent)
<1>2. /\ Step(p, PingEvent, q) /\ q \in Places
      /\ q.blocks = p.blocks /\ q.open = p.open /\ q.blanks = p.blanks /\ q.owed = p.owed
      /\ q.phase = p.phase
  BY <1>1, StepPlain
<1>3. q = p
  BY <1>2 DEF Places
<1>4. PingEvent \in Events
  BY EventsAreSome
<1> QED
  BY <1>2, <1>3, <1>4, LeadsStep

\* The place q, with n fragments to come
Owing(q, n) == Place(q.phase, q.blocks, q.open, q.blanks, n)

LEMMA OwingIsPlace ==
  ASSUME NEW q \in Places, NEW n \in Int
  PROVE  Owing(q, n) \in Places
  BY DEF Places, Owing, Place

Later(v) == v \in Ups /\ v.count = up.count + 1 /\ v.state = up.state

LEMMA NothingWritten ==
  ASSUME NEW s, Resps(s), s.out = <<>>
  PROVE  Written(s) = s
<1>1. s \in RespStates
  BY DEF Resps
<1>2. ASSUME NEW t, t = Written(s) PROVE t = s
  <2>1. t = [completed |-> s.completed, next |-> s.next, keys |-> s.keys, open |-> s.open,
             hasDelta |-> s.hasDelta, calls |-> s.calls, out |-> s.out]
    BY <1>1, <1>2 DEF RespStates, Written
  <2>2. s = [completed |-> s.completed, next |-> s.next, keys |-> s.keys, open |-> s.open,
             hasDelta |-> s.hasDelta, calls |-> s.calls, out |-> s.out]
    BY <1>1 DEF RespStates
  <2> QED
    BY <2>1, <2>2, Zenon
<1> QED
  BY <1>2, Zenon

LEMMA BegunRead ==
  ASSUME RespUp(up), up.begun, NEW s, Resps(s), ~s.completed, s.out = <<>>,
         NEW k, NEW w, Kept(s, up, k, w), NEW n,
         NEW p \in Places, p = Place("started", s.next, RespOpen(s, k), w, n),
         NEW says \in ResponsesSays, n = says.new, NEW t, t = TranslateEvent(s, says.event)
  PROVE  Reached(p, t, says) /\ Later(says.next)
<1>1. Standing(p, s, up, k, w, n)
  <2>1. Leads(p, s.out, Place("started", s.next, RespOpen(s, k), w, n))
    BY LeadsNowhere
  <2> QED
    BY <2>1, Zenon DEF Standing, Reports, Kept
<1>2. Linked(p, s, up, n)
  BY <1>1, Zenon DEF Linked, Kept
<1>3. CASE says = Says("ping", "none", 0, up)
  <2> PICK v : v = says.next
    OBVIOUS
  <2>1. up \in Ups
    BY DEF RespUp
  <2>2. /\ says.event.type = "ping" /\ says.new = 0 /\ Further(v)
        /\ Now(v, up.items, up.kind, up.part, up.said)
    BY <1>3, <2>1, PingMeans
  <2>3. t = s
    BY <2>2, Translations, Zenon
  <2> PICK r : r = Written(t)
    OBVIOUS
  <2>4. /\ Resps(r) /\ Same(r, s) /\ r.open = s.open /\ r.hasDelta = s.hasDelta
        /\ ~r.completed
    BY <2>3, WrittenStays
  <2>5. RespUp(v) /\ v.begun
    BY <2>2 DEF RespUp, Further, Now
  <2>6. KeysFit(r, v) /\ CallsFit(r, v) /\ RespOpen(r, k) = RespOpen(s, k) /\ r.next = s.next
    <3>1. KeysFit(s, v) /\ CallsFit(s, v)
      BY <2>2 DEF Kept, KeysFit, CallsFit, Now, InText
    <3> QED
      BY <2>4, <3>1, SameFits DEF RespOpen
  <2>7. BlockFits(r, v, k, w)
    <3>1. BlockFits(s, v, k, w)
      BY <2>2, Zenon DEF Kept, BlockFits, Now
    <3> QED
      BY <2>4, <3>1, Zenon DEF BlockFits, Current, Streamed, Same
  <2>8. p = Place("started", r.next, RespOpen(r, k), w, 0)
    BY <2>2, <2>6, Zenon
  <2>9. RespAt(r, v, p)
    BY <2>4, <2>5, <2>6, <2>7, <2>8, Zenon DEF RespAt, Kept
  <2>10. p.phase = "started"
    BY DEF Place
  <2>11. Leads(p, <<PingEvent>>, p) /\ <<PingEvent>> \in Seq(Events)
    BY <2>10, PingFits
  <2>12. WrittenFor(says, t) = <<PingEvent>>
    BY <2>2 DEF WrittenFor
  <2>13. Reached(p, t, says)
    BY <2>9, <2>11, <2>12, Zenon DEF Reached
  <2> QED
    BY <2>2, <2>13 DEF Further, Later
<1>4. CASE says \in FirstOfItem \cup InItem \cup Terminal /\ Met(p, t, says, n)
  <2>1. Speaks(says)
    BY <1>4, AllSpeak
  <2>2. says.next.begun /\ Later(says.next)
    BY <1>4 DEF Met, Further, Later
  <2>3. Reached(p, t, says)
    BY <1>4, <2>1, <2>2, MetIsReached
  <2> QED
    BY <2>2, <2>3
<1>5. \/ says = Says("ping", "none", 0, up)
      \/ says \in InItem \/ says \in Terminal
      \/ up.kind \in {"none", "text_over"} /\ says \in FirstOfItem
  BY DEF ResponsesSays
<1>6. says \in InItem \/ says \in Terminal \/ (up.kind \in {"none", "text_over"} /\ says \in FirstOfItem)
        => says \in FirstOfItem \cup InItem \cup Terminal /\ Met(p, t, says, n)
  BY <1>2, InItemLeads, TerminalLeads, FirstLeads
<1> QED
  BY <1>3, <1>4, <1>5, <1>6

LEMMA UnbegunRead ==
  ASSUME RespUp(up), ~up.begun, up.kind = "none", NEW s, s = ResponsesState, NEW w, NEW n,
         NEW p \in Places, p = Place("none", 0, NoBlock, w, n),
         NEW says \in ResponsesSays, n = says.new, NEW t, t = TranslateEvent(s, says.event)
  PROVE  Reached(p, t, says) /\ Later(says.next)
<1> PICK v : v = says.next
  OBVIOUS
<1>1. up \in Ups /\ up.items \in Nat /\ up.part \in Nat /\ up.said \in BOOLEAN
  BY DEF RespUp, Ups
<1>2. Resps(s) /\ ~s.completed /\ s.out = <<>>
  BY NoResponseYet
<1>3. Leads(p, <<>>, Place("none", 0, NoBlock, w, n))
  BY LeadsNowhere
<1>4. CASE says = Says("ping", "none", 0, up)
  <2>1. /\ says.event.type = "ping" /\ says.new = 0 /\ Further(v)
        /\ Now(v, up.items, up.kind, up.part, up.said)
    BY <1>1, <1>4, PingMeans
  <2>2. t = s
    BY <2>1, Translations, Zenon
  <2>3. Written(t) = s
    BY <1>2, <2>2, NothingWritten
  <2>4. RespUp(v) /\ ~v.begun /\ v.kind = "none" /\ Later(v)
    BY <2>1 DEF RespUp, Further, Now, Later
  <2>5. p = Place("none", 0, NoBlock, w, 0)
    BY <2>1
  <2>6. RespAt(s, v, p)
    BY <1>2, <2>4, <2>5, Zenon DEF RespAt
  <2>7. p.phase = "none"
    BY DEF Place
  <2>8. Leads(p, <<PingEvent>>, p) /\ <<PingEvent>> \in Seq(Events)
    BY <2>7, PingFits
  <2>9. WrittenFor(says, t) = <<PingEvent>>
    BY <2>1 DEF WrittenFor
  <2>10. Reached(p, t, says)
    BY <2>3, <2>6, <2>8, <2>9, Zenon DEF Reached
  <2> QED
    BY <2>4, <2>10
<1>5. CASE says = Says("error", "none", 0, up)
  <2>1. says.event.type = "error" /\ says.new = 0
    BY <1>5 DEF Says, SaysOf, Event
  <2>2. RespUp(v) /\ Later(v)
    <3>1. v = [up EXCEPT !.count = @ + 1]
      BY <1>5 DEF Says, SaysOf
    <3>2. v = [count |-> up.count + 1, state |-> up.state, begun |-> up.begun, items |-> up.items,
               kind |-> up.kind, part |-> up.part, said |-> up.said]
      BY <1>1, <3>1 DEF Ups
    <3>3. v \in Ups
      BY <1>1, <3>2 DEF Ups
    <3> QED
      BY <3>2, <3>3 DEF RespUp, Later
  <2>3. t = Abandon(s) /\ WrittenFor(says, t) = t.out
    BY <2>1, Translations, Zenon DEF WrittenFor
  <2>4. Over(p, t, n)
    <3> PICK ph, b : ph = "none" /\ b = 0
      OBVIOUS
    <3>1. Leads(p, s.out, Place(ph, b, NoBlock, w, n))
      BY <1>2, <1>3, Zenon
    <3> QED
      BY <1>2, <2>3, <3>1, Abandoned
  <2> PICK ph, b, o, y, m :
        /\ Leads(p, t.out, Place(ph, b, o, y, m))
        /\ ph = "failed" \/ (ph = "stopped" /\ m = n)
    BY <2>4, Zenon DEF Over
  <2>5. n = 0
    BY <2>1
  <2> DEFINE q == Place(ph, b, o, y, m)
  <2>6. q.phase = ph /\ q.owed = m
    BY DEF Place
  <2> PICK r : r = Written(t)
    OBVIOUS
  <2>7. Resps(t) /\ t.completed /\ t.out \in Seq(Events)
    BY <2>4, Zenon DEF Over, Resps, RespStates
  <2>8. Resps(r) /\ r.completed
    BY <2>7, WrittenStays
  <2> HIDE DEF q
  <2>9. RespAt(r, v, q)
    BY <2>2, <2>5, <2>6, <2>8, Zenon DEF RespAt
  <2>10. Leads(p, t.out, q)
    BY DEF q
  <2>11. Reached(p, t, says)
    BY <2>3, <2>7, <2>9, <2>10, Zenon DEF Reached
  <2> QED
    BY <2>2, <2>11
<1>6. CASE says = Says("created", "none", 0, [up EXCEPT !.begun = TRUE])
  <2>1. says.event.type = "created" /\ says.new = 0
    BY <1>6 DEF Says, SaysOf, Event
  <2>2. RespUp(v) /\ v.begun /\ Later(v) /\ v.kind = "none"
    <3>1. v = [[up EXCEPT !.begun = TRUE] EXCEPT !.count = @ + 1]
      BY <1>6 DEF Says, SaysOf
    <3>2. v = [count |-> up.count + 1, state |-> up.state, begun |-> TRUE, items |-> up.items,
               kind |-> up.kind, part |-> up.part, said |-> up.said]
      BY <1>1, <3>1 DEF Ups
    <3>3. v \in Ups
      BY <1>1, <3>2 DEF Ups
    <3> QED
      BY <3>2, <3>3 DEF RespUp, Later
  <2>3. t = Push(ResponsesState, <<MessageStart>>)
    BY <2>1, Translations, Zenon
  <2>4. Linked(p, t, v, n)
    BY <1>3, <2>2, <2>3, CreatedLinks
  <2>5. n = 0 /\ WrittenFor(says, t) = t.out
    BY <2>1 DEF WrittenFor
  <2> PICK r : r = Written(t)
    OBVIOUS
  <2>6. \E k, y : Standing(p, t, v, k, y, 0) /\ BlockFits(t, v, k, y)
    BY <2>4, <2>5, Zenon DEF Linked
  <2>7. t.out \in Seq(Events) /\ \E q : Leads(p, t.out, q) /\ RespAt(r, v, q)
    BY <2>2, <2>6, LinkedIsAt, Zenon
  <2> QED
    BY <2>2, <2>5, <2>7, Zenon DEF Reached
<1> QED
  BY <1>4, <1>5, <1>6 DEF ResponsesSays

(* One chunk of the chat flow is read.                                     *)
ChatAt(s, u, q) ==
  /\ u \in Ups /\ Chats(s)
  /\ \/ u.kind = "finished" /\ q.phase = "stopped" /\ q.owed = 0
     \/ /\ ChatLink(s, u.kind, u.items)
        /\ \E w \in 0 .. MaxWhitespace : q = ChatPlace(s, w, 0)

LEMMA ChatWritten ==
  ASSUME NEW s, Chats(s), NEW t, t = Written(s)
  PROVE  Chats(t) /\ Alike(t, s)
<1>1. t = [s EXCEPT !.out = <<>>]
  BY DEF Written
<1>2. <<>> \in Seq(Events)
  OBVIOUS
<1> QED
  BY <1>1, <1>2, AlikeChats

LEMMA ChatChunksAreSome ==
  ASSUME up \in Ups, NEW s, ChatLink(s, up.kind, up.items), NEW c \in ChatChunks
  PROVE  /\ c \in Chunk /\ Shape(c, up.items) /\ InOrder(c, up.kind)
         /\ ChatPieces(c) = Pieces(c) /\ Pieces(c) \in Int /\ up.kind # "finished"
<1>1. up.items \in Nat
  BY DEF Ups
<1>2. up.kind # "finished"
  BY DEF ChatChunks
<1>3. /\ c \in [reasoning : BOOLEAN, opaque : BOOLEAN, content : {"none", "empty", "text"},
                calls : CallLists, finish : BOOLEAN]
      /\ Orderly(c)
  BY <1>2 DEF ChatChunks
<1>4. InOrder(c, up.kind)
  BY <1>3 DEF Orderly, InOrder
<1>5. Calls = 0 .. Cardinality(Calls) - 1 /\ Cardinality(Calls) \in Nat
  BY SizesAssumption, FS_CardinalityType
<1>6. \/ c.calls = <<>>
      \/ \E args \in BOOLEAN : c.calls = <<Call(up.items, TRUE, args)>> /\ up.items < Cardinality(Calls)
      \/ c.calls = <<Call(up.items - 1, FALSE, TRUE)>>
      \/ /\ c.calls = <<Call(up.items, TRUE, TRUE), Call(up.items + 1, TRUE, TRUE)>>
         /\ up.items + 1 < Cardinality(Calls)
  <2>1. c.calls \in CallLists
    BY <1>3
  <2> QED
    BY <2>1 DEF CallLists
<1>7. ASSUME c.calls = <<Call(up.items - 1, FALSE, TRUE)>>
      PROVE  up.items - 1 \in Calls
  <2>1. 1 \in DOMAIN c.calls /\ ~c.calls[1].new
    BY <1>7 DEF Call
  <2>2. up.kind = "call"
    BY <1>4, <2>1 DEF InOrder
  <2> QED
    BY <2>2 DEF ChatLink
<1>8. Shape(c, up.items)
  <2>1. up.items < Cardinality(Calls) => up.items \in Calls
    BY <1>1, <1>5
  <2>2. up.items + 1 < Cardinality(Calls) => up.items \in Calls /\ up.items + 1 \in Calls
    BY <1>1, <1>5
  <2> QED
    BY <1>6, <1>7, <2>1, <2>2, Zenon DEF Shape
<1>9. c \in Chunk
  <2>1. \A n \in Int, new \in BOOLEAN, args \in BOOLEAN :
          Call(n, new, args) \in [index : Int, new : BOOLEAN, args : BOOLEAN]
    BY DEF Call
  <2> DEFINE CallSet == [index : Int, new : BOOLEAN, args : BOOLEAN]
  <2>2. \A n \in Int : \A new, args \in BOOLEAN : Call(n, new, args) \in CallSet
    BY <2>1
  <2> HIDE DEF CallSet
  <2>3. /\ up.items \in Int /\ up.items - 1 \in Int /\ up.items + 1 \in Int
        /\ TRUE \in BOOLEAN /\ FALSE \in BOOLEAN
    BY <1>1
  <2>4. \A e, f \in CallSet : <<>> \in Seq(CallSet) /\ <<e>> \in Seq(CallSet) /\ <<e, f>> \in Seq(CallSet)
    OBVIOUS
  <2>5. /\ \A args \in BOOLEAN : Call(up.items, TRUE, args) \in CallSet
        /\ Call(up.items - 1, FALSE, TRUE) \in CallSet
        /\ Call(up.items, TRUE, TRUE) \in CallSet /\ Call(up.items + 1, TRUE, TRUE) \in CallSet
    BY <2>2, <2>3, Zenon
  <2>6. c.calls \in Seq(CallSet)
    BY <1>6, <2>4, <2>5, Zenon
  <2> QED
    BY <1>3, <2>6 DEF Chunk, CallSet
<1>10. ChatPieces(c) = Pieces(c)
  BY Zenon DEF ChatPieces, Pieces, One, Args
<1>11. Pieces(c) \in Int
  BY <1>8, CountsAreNumbers DEF Pieces, One
<1> QED
  BY <1>2, <1>4, <1>8, <1>9, <1>10, <1>11

LEMMA NewsAreSome ==
  ASSUME NEW c, NEW m, Shape(c, m)
  PROVE  News(c) \in Nat
<1>1. \A b : One(b) \in Nat
  BY DEF One
<1>2. CASE c.calls = <<>>
  BY <1>2, CountsOfNone
<1>3. CASE c.calls = <<Call(m, TRUE, TRUE), Call(m + 1, TRUE, TRUE)>>
  <2>1. Args(c) = 2 /\ News(c) = 2
    BY <1>3, CountsOfTwo, Zenon
  <2> QED
    BY <2>1
<1>4. ASSUME NEW e, c.calls = <<e>>
      PROVE  News(c) \in Nat
  <2>1. News(c) = One(e.new)
    BY <1>4, CountsOfOne
  <2> QED
    BY <1>1, <2>1, Zenon
<1>5. \/ c.calls = <<>>
      \/ \E e : c.calls = <<e>>
      \/ c.calls = <<Call(m, TRUE, TRUE), Call(m + 1, TRUE, TRUE)>>
  BY Zenon DEF Shape
<1> QED
  BY <1>2, <1>3, <1>4, <1>5, Zenon

LEMMA AfterChatIs ==
  ASSUME up \in Ups, NEW c, up.items + News(c) \in Nat, NEW u, u = AfterChat(c)
  PROVE  /\ Later(u) /\ u.items = up.items + News(c)
         /\ u.kind = IF c.finish THEN "finished" ELSE KindAfter(c, up.kind)
<1> DEFINE k == IF c.finish THEN "finished" ELSE KindAfter(c, up.kind)
<1>1. u = [up EXCEPT !.count = @ + 1, !.items = @ + News(c), !.kind = k]
  BY Zenon DEF AfterChat, News, KindAfter
<1>2. k \in UpKinds
  BY DEF KindAfter, Ups, UpKinds
<1> HIDE DEF k
<1>3. u = [count |-> up.count + 1, state |-> up.state, begun |-> up.begun,
           items |-> up.items + News(c), kind |-> k, part |-> up.part, said |-> up.said]
  BY <1>1 DEF Ups
<1>4. u \in Ups
  BY <1>2, <1>3 DEF Ups
<1>5. u.items = up.items + News(c) /\ u.kind = k /\ u.count = up.count + 1 /\ u.state = up.state
  BY <1>3
<1> QED
  BY <1>4, <1>5 DEF Later, k

LEMMA ChatRead ==
  ASSUME NEW s, NEW q \in Places, ChatAt(s, up, q), s.out = <<>>, NEW c \in ChatChunks,
         NEW t, t = TranslateChunk(s, c), NEW n, n = ChatPieces(c), NEW p, p = Owing(q, n)
  PROVE  /\ t.out \in Seq(Events) /\ Later(AfterChat(c)) /\ n \in Int
         /\ \E r : Leads(p, t.out, r) /\ ChatAt(Written(t), AfterChat(c), r)
<1>1. up \in Ups /\ up.items \in Nat /\ Chats(s)
  BY DEF ChatAt, Ups
<1>2. up.kind # "finished"
  BY DEF ChatChunks
<1> PICK w \in 0 .. MaxWhitespace : ChatLink(s, up.kind, up.items) /\ q = ChatPlace(s, w, 0)
  BY <1>2 DEF ChatAt
<1>3. /\ c \in Chunk /\ Shape(c, up.items) /\ InOrder(c, up.kind)
      /\ n = Pieces(c) /\ Pieces(c) \in Int
  BY <1>1, ChatChunksAreSome
<1>4. p = ChatPlace(s, w, n)
  BY Zenon DEF Owing, ChatPlace, Place
<1>5. Tells(p, s, n)
  <2>1. p \in Places
    BY <1>3, OwingIsPlace
  <2>2. Leads(p, s.out, ChatPlace(s, w, n))
    BY <1>4, <2>1, LeadsNowhere
  <2> QED
    BY <2>2 DEF Tells
<1> PICK kind : kind = up.kind
  OBVIOUS
<1> PICK m \in Nat : m = up.items
  BY <1>1
<1>6. /\ Chats(t)
      /\ ~c.finish => /\ Tells(p, t, n - Pieces(c)) /\ t.started
                      /\ ChatLink(t, KindAfter(c, kind), m + News(c))
      /\ c.finish => \E b \in Nat, y \in 0 .. MaxWhitespace :
                       Leads(p, t.out, Place("stopped", b, NoBlock, y, n - Pieces(c)))
  BY <1>1, <1>3, <1>5, TranslateTells
<1>7. n - Pieces(c) = 0
  BY <1>3
<1>8. t.out \in Seq(Events)
  BY <1>6 DEF Chats, ChatStates
<1> PICK r : r = Written(t)
  OBVIOUS
<1>9. Chats(r) /\ Alike(r, t)
  BY <1>6, ChatWritten
<1> PICK u : u = AfterChat(c)
  OBVIOUS
<1>10. m + News(c) \in Nat
  <2>1. News(c) \in Nat
    BY <1>3, NewsAreSome
  <2> QED
    BY <2>1
<1>11. /\ Later(u) /\ u.items = m + News(c)
       /\ u.kind = IF c.finish THEN "finished" ELSE KindAfter(c, kind)
  BY <1>1, <1>10, AfterChatIs
<1>12. CASE c.finish
  <2> PICK b \in Nat, y \in 0 .. MaxWhitespace : Leads(p, t.out, Place("stopped", b, NoBlock, y, 0))
    BY <1>6, <1>7, <1>12, Zenon
  <2>1. u.kind = "finished" /\ u \in Ups
    BY <1>11, <1>12 DEF Later
  <2>2. ChatAt(r, u, Place("stopped", b, NoBlock, y, 0))
    BY <1>9, <2>1 DEF ChatAt, Place
  <2> QED
    BY <1>3, <1>8, <1>11, <2>2, Zenon
<1>13. CASE ~c.finish
  <2>1. Tells(p, t, 0) /\ ChatLink(t, KindAfter(c, kind), m + News(c))
    BY <1>6, <1>7, <1>13, Zenon
  <2> PICK y \in 0 .. MaxWhitespace : Leads(p, t.out, ChatPlace(t, y, 0))
    BY <2>1 DEF Tells
  <2>2. ChatPlace(r, y, 0) = ChatPlace(t, y, 0) /\ IsToolBlockOpen(r) = IsToolBlockOpen(t)
    BY <1>9, AlikePlace
  <2>3. ChatLink(r, u.kind, u.items)
    <3>1. u.kind = KindAfter(c, kind) /\ u.items = m + News(c)
      BY <1>11, <1>13
    <3> QED
      BY <1>9, <2>1, <2>2, <3>1, Zenon DEF ChatLink, Alike
  <2>4. ChatAt(r, u, ChatPlace(r, y, 0))
    BY <1>9, <1>11, <2>3, Zenon DEF ChatAt, Later
  <2> QED
    BY <1>3, <1>8, <1>11, <2>2, <2>4, Zenon
<1> QED
  BY <1>12, <1>13

-----------------------------------------------------------------------------
(* One event of the Messages flow is read.                                 *)

LEMMA PlainLeads ==
  ASSUME NEW p \in Places, p.owed = 0,
         NEW e \in {MessageStart, MessageDelta, MessageStop, ErrorEvent, PingEvent}, Fits(p, e)
  PROVE  e \in Events /\ \E q : Leads(p, <<e>>, q) /\ q.owed = 0
<1>1. Step(p, e, After(p, e)) /\ After(p, e) \in Places /\ After(p, e).owed = 0
  BY StepPlain
<1>2. Leads(p, <<e>>, After(p, e))
  BY <1>1, LeadsStep
<1> QED
  BY <1>1, <1>2 DEF Step

LEMMA CarriesNothing ==
  ASSUME NEW e \in {MessageStart, MessageDelta, MessageStop, ErrorEvent, PingEvent}
  PROVE  Carries(e) = 0
  BY DEF Carries, MessageStart, MessageDelta, MessageStop, ErrorEvent, PingEvent

LEMMA StartLeads ==
  ASSUME NEW p \in Places, p.phase = "started", p.open = NoBlock, NEW k \in Kinds,
         NEW e, e = BlockStart(p.blocks, k), p.owed = Carries(e)
  PROVE  e \in Events /\ \E q : Leads(p, <<e>>, q) /\ q.owed = 0
<1> DEFINE t == After(p, e)
<1>1. Step(p, e, t) /\ t \in Places /\ t.owed = p.owed
  BY StepBlockStart
<1>2. Carries(e) = 0
  BY DEF Carries, BlockStart
<1>3. Leads(p, <<e>>, t)
  BY <1>1, LeadsStep
<1>4. t.owed = 0
  BY <1>1, <1>2
<1> HIDE DEF t
<1> QED
  BY <1>1, <1>3, <1>4 DEF Step

LEMMA MessagesLead ==
  ASSUME client \in Clients, client.blanks <= MaxWhitespace, NEW e \in MessagesEvents,
         NEW p, p = At(client, Carries(e))
  PROVE  e \in Events /\ Carries(e) \in Int /\ \E q : Leads(p, <<e>>, q) /\ q.owed = 0
<1>1. Carries(e) \in {0, 1}
  BY DEF Carries
<1>2. /\ p \in Places /\ p.owed = Carries(e)
      /\ p.phase = client.phase /\ p.blocks = client.blocks /\ p.open = client.open
  BY <1>1, AtPlace DEF At
<1>3. ASSUME e \in {MessageStart, MessageDelta, MessageStop, ErrorEvent, PingEvent}, Fits(p, e)
      PROVE  e \in Events /\ \E q : Leads(p, <<e>>, q) /\ q.owed = 0
  BY <1>2, <1>3, CarriesNothing, PlainLeads
<1>4. /\ MessageStart # PingEvent /\ MessageDelta # PingEvent /\ MessageStop # PingEvent
      /\ ErrorEvent # PingEvent
  BY DEF MessageStart, MessageDelta, MessageStop, ErrorEvent, PingEvent
<1>5. Fits(p, ErrorEvent)
  BY <1>4 DEF Fits, Legal
<1>6. CASE client.phase = "none" /\ e \in {MessageStart, ErrorEvent, PingEvent}
  <2>1. Fits(p, MessageStart) /\ Fits(p, PingEvent)
    BY <1>2, <1>4, <1>6 DEF Fits, Legal
  <2> QED
    BY <1>1, <1>3, <1>5, <1>6, <2>1
<1>7. CASE /\ client.phase = "started" /\ client.open = NoBlock
           /\ \/ \E k \in Kinds : e = BlockStart(client.blocks, k)
              \/ e \in {MessageDelta, ErrorEvent, PingEvent}
  <2>1. Fits(p, MessageDelta) /\ Fits(p, PingEvent)
    BY <1>2, <1>4, <1>7 DEF Fits, Legal
  <2>2. ASSUME NEW k \in Kinds, e = BlockStart(client.blocks, k)
        PROVE  e \in Events /\ \E q : Leads(p, <<e>>, q) /\ q.owed = 0
    <3>1. p.phase = "started" /\ p.open = NoBlock /\ e = BlockStart(p.blocks, k)
      BY <1>2, <1>7, <2>2
    <3> QED
      BY <1>2, <3>1, StartLeads
  <2> QED
    BY <1>1, <1>3, <1>5, <1>7, <2>1, <2>2
<1>8. CASE /\ client.phase = "started" /\ client.open # NoBlock
           /\ \/ e = BlockDelta(client.open.index, client.open.kind, "piece")
              \/ e = BlockStop(client.open.index)
              \/ e \in {ErrorEvent, PingEvent}
  <2>1. Fits(p, PingEvent)
    BY <1>2, <1>8 DEF Fits
  <2>2. client.open \in [index : Nat, kind : Kinds]
    BY <1>8 DEF Clients, Opens
  <2> PICK i \in Nat, k \in Kinds : i = client.open.index /\ k = client.open.kind
    BY <2>2
  <2>3. client.open = [index |-> i, kind |-> k]
    BY <2>2
  <2>4. CASE e = BlockDelta(i, k, "piece")
    <3> PICK x : x = "piece"
      OBVIOUS
    <3>1. x \in Payloads /\ x \in Content /\ x # "blank"
      BY DEF Payloads, Content
    <3>2. /\ Step(p, e, After(p, e)) /\ After(p, e) \in Places
          /\ After(p, e).owed = p.owed - IF x \in Content THEN 1 ELSE 0
      BY <1>2, <1>8, <2>3, <2>4, <3>1, StepBlockDelta
    <3>3. Carries(e) = 1
      BY <2>4, <3>1 DEF Carries, BlockDelta
    <3>4. Leads(p, <<e>>, After(p, e))
      BY <1>2, <3>2, LeadsStep
    <3>5. After(p, e).owed = 0
      BY <1>2, <3>1, <3>2, <3>3
    <3> QED
      BY <3>2, <3>4, <3>5, <1>1 DEF Step
  <2>5. CASE e = BlockStop(i)
    <3>1. Step(p, e, After(p, e)) /\ After(p, e) \in Places /\ After(p, e).owed = p.owed
      BY <1>2, <1>8, <2>5, StepBlockStop
    <3>2. Carries(e) = 0
      BY <2>5 DEF Carries, BlockStop
    <3>3. Leads(p, <<e>>, After(p, e))
      BY <1>2, <3>1, LeadsStep
    <3> QED
      BY <1>2, <3>1, <3>2, <3>3 DEF Step
  <2> QED
    BY <1>1, <1>3, <1>5, <1>8, <2>1, <2>4, <2>5
<1>9. CASE client.phase = "finishing" /\ e = MessageStop
  <2>1. Fits(p, MessageStop)
    BY <1>2, <1>4, <1>9 DEF Fits, Legal
  <2> QED
    BY <1>1, <1>3, <1>9, <2>1
<1>10. \/ client.phase = "none" /\ MessagesEvents = {MessageStart, ErrorEvent, PingEvent}
       \/ /\ client.phase = "started" /\ client.open = NoBlock
          /\ MessagesEvents = {BlockStart(client.blocks, kind) : kind \in Kinds}
                                 \cup {MessageDelta, ErrorEvent, PingEvent}
       \/ /\ client.phase = "started" /\ client.open # NoBlock
          /\ MessagesEvents = {BlockDelta(client.open.index, client.open.kind, "piece"),
                                 BlockStop(client.open.index), ErrorEvent, PingEvent}
       \/ client.phase = "finishing" /\ MessagesEvents = {MessageStop}
       \/ MessagesEvents = {}
  BY Zenon DEF MessagesEvents
<1> QED
  BY <1>6, <1>7, <1>8, <1>9, <1>10

LEMMA NowhereIsHere ==
  ASSUME NEW p, NEW q, Leads(p, <<>>, q)
  PROVE  q = p
<1> PICK t \in [1 .. Len(<<>>) + 1 -> Places] : t[1] = p /\ t[Len(<<>>) + 1] = q
  BY DEF Leads
<1>1. Len(<<>>) + 1 = 1
  OBVIOUS
<1> QED
  BY <1>1

LEMMA OwingAt ==
  ASSUME NEW c, NEW n, NEW m
  PROVE  Owing(At(c, n), m) = At(c, m)
  BY Zenon DEF Owing, Place, At

-----------------------------------------------------------------------------
(* The keep-alive, record by record.                                       *)

KeepAlives ==
  [started : BOOLEAN, stopped : BOOLEAN, writing : BOOLEAN, timer : BOOLEAN,
   ping : {"none", "inflight", "adopted"}]

\* All of j but its flags of writing, its timer and its ping is k.
Alive(j, k) == j \in KeepAlives /\ (j.started <=> k.started) /\ (j.stopped <=> k.stopped)

LEMMA AfterWriteIs ==
  ASSUME NEW k \in KeepAlives, NEW e, NEW a, a = AfterWrite(k, e)
  PROVE  /\ a \in KeepAlives /\ a.ping = k.ping
         /\ a.started <=> k.started \/ e.type = "message_start"
         /\ a.stopped <=> k.stopped \/ e.type \in {"message_stop", "error"}
         /\ a.timer <=> a.started /\ ~a.stopped
<1> DEFINE x == k.started \/ e.type = "message_start"
           y == k.stopped \/ e.type \in {"message_stop", "error"}
           b == [k EXCEPT !.writing = FALSE, !.started = @ \/ e.type = "message_start",
                          !.stopped = @ \/ e.type \in {"message_stop", "error"}]
<1>1. /\ b \in KeepAlives /\ b.ping = k.ping
      /\ b.started <=> x
      /\ b.stopped <=> y
  BY DEF KeepAlives
<1>2. a = [b EXCEPT !.timer = b.started /\ ~b.stopped]
  BY Zenon DEF AfterWrite, ScheduleNextPing
<1> HIDE DEF b
<1>3. /\ a \in KeepAlives /\ a.ping = b.ping
      /\ a.started <=> b.started
      /\ a.stopped <=> b.stopped
      /\ a.timer <=> b.started /\ ~b.stopped
  BY <1>1, <1>2 DEF KeepAlives
<1> QED
  BY <1>1, <1>3

LEMMA TakeTurnIs ==
  ASSUME NEW k \in KeepAlives, NEW a, a = TakeTurn(k)
  PROVE  Alive(a, k) /\ ~a.timer /\ a.ping # "inflight"
<1> DEFINE x == IF k.ping = "none" THEN "none" ELSE "adopted"
<1>1. a = [k EXCEPT !.timer = FALSE, !.ping = x] /\ x \in {"none", "adopted"}
  BY DEF TakeTurn
<1> HIDE DEF x
<1> QED
  BY <1>1 DEF KeepAlives, Alive

LEMMA StoppedIs ==
  ASSUME NEW k \in KeepAlives, NEW a, a = StopKeepAlive(k)
  PROVE  a \in KeepAlives /\ a.stopped /\ ~a.timer
  BY DEF StopKeepAlive, KeepAlives

LEMMA ScheduledIs ==
  ASSUME NEW k \in KeepAlives, NEW a, a = ScheduleNextPing(k)
  PROVE  /\ Alive(a, k) /\ a.ping = k.ping
         /\ a.timer <=> k.started /\ ~k.stopped
  BY DEF ScheduleNextPing, KeepAlives, Alive

LEMMA PingOutIs ==
  ASSUME NEW k \in KeepAlives, NEW a, a = PingOut(k)
  PROVE  /\ Alive(a, k) /\ a.ping = "none"
         /\ k.ping = "inflight" => (a.timer <=> k.started /\ ~k.stopped)
         /\ k.ping # "inflight" => (a.timer <=> k.timer)
<1>1. CASE k.ping = "inflight"
  <2> PICK b : b = [[k EXCEPT !.ping = "none"] EXCEPT !.writing = FALSE]
    OBVIOUS
  <2>1. b \in KeepAlives /\ b.ping = "none" /\ (b.started <=> k.started) /\ (b.stopped <=> k.stopped)
    BY DEF KeepAlives
  <2>2. a = ScheduleNextPing(b)
    BY <1>1, Zenon DEF PingOut
  <2> QED
    BY <1>1, <2>1, <2>2, ScheduledIs DEF Alive
<1>2. CASE k.ping # "inflight"
  <2>1. a = [k EXCEPT !.ping = "none"]
    BY <1>2, Zenon DEF PingOut
  <2> QED
    BY <1>2, <2>1 DEF KeepAlives, Alive
<1> QED
  BY <1>1, <1>2

-----------------------------------------------------------------------------
(* What an event that is legal does to the client that hears it.           *)

LEMMA HearIsClient ==
  ASSUME NEW c \in Clients, NEW e, Legal(c, e)
  PROVE  Hear(c, e) \in Clients /\ Hear(c, e).last = e
<1>1. CASE c.phase = "started" /\ c.open = NoBlock /\ \E k \in Kinds : e = BlockStart(c.blocks, k)
  <2> PICK k \in Kinds : e = BlockStart(c.blocks, k)
    BY <1>1
  <2> PICK i \in Nat : i = c.blocks
    BY DEF Clients
  <2>1. e = BlockStart(i, k)
    OBVIOUS
  <2>2. Follows(Hear(c, BlockStart(i, k)), c, BlockStart(i, k))
    BY HearBlockStart
  <2> QED
    BY <2>1, <2>2 DEF Follows
<1>2. CASE /\ c.phase = "started" /\ c.open # NoBlock
           /\ \E p \in Payloads : e = BlockDelta(c.open.index, c.open.kind, p)
  <2>1. c.open.index \in Nat /\ c.open.kind \in Kinds
    BY <1>2 DEF Clients, Opens
  <2> QED
    BY <1>2, <2>1, HearBlockDelta DEF Follows
<1>3. CASE c.phase = "started" /\ c.open # NoBlock /\ e = BlockStop(c.open.index)
  <2>1. c.open.index \in Nat
    BY <1>3 DEF Clients, Opens
  <2> QED
    BY <1>3, <2>1, HearBlockStop DEF Follows
<1>4. CASE e \in {MessageStart, MessageDelta, MessageStop, ErrorEvent, PingEvent}
  BY <1>4, HearPlain DEF Follows
<1> QED
  BY <1>1, <1>2, <1>3, <1>4 DEF Legal

LEMMA HearPhases ==
  ASSUME NEW c \in Clients, NEW e, Legal(c, e), e \in Events, NEW d, d = Hear(c, e)
  PROVE  \/ e.type = "message_start" /\ d.phase = "started"
         \/ e.type = "error" /\ d.phase = "failed"
         \/ e.type = "message_stop" /\ c.phase = "finishing" /\ d.phase = "stopped"
         \/ /\ e.type \notin {"message_start", "error", "message_stop"}
            /\ c.phase \in {"started", "finishing"} /\ d.phase \in {"started", "finishing"}
<1> PICK n \in Int : n = 0
  OBVIOUS
<1>1. At(d, n - Carries(e)) = After(At(c, n), e)
  BY AfterIsHear
<1>2. At(d, n - Carries(e)).phase = d.phase /\ At(c, n).phase = c.phase
  BY DEF At
<1>3. d.phase = IF e.type = "message_start" THEN "started"
                ELSE IF e.type = "message_delta" THEN "finishing"
                ELSE IF e.type = "message_stop" THEN "stopped"
                ELSE IF e.type = "error" THEN "failed" ELSE c.phase
  BY <1>1, <1>2 DEF After
<1>4. \/ e.type = "message_start" \/ e.type = "error"
      \/ e.type = "message_stop" /\ c.phase = "finishing"
      \/ /\ e.type \notin {"message_start", "error", "message_stop"}
         /\ c.phase \in {"started", "finishing"}
  <2>1. /\ MessageStart.type = "message_start" /\ MessageDelta.type = "message_delta"
        /\ MessageStop.type = "message_stop" /\ ErrorEvent.type = "error" /\ PingEvent.type = "ping"
        /\ \A i, k : BlockStart(i, k).type = "content_block_start"
        /\ \A i, k, p : BlockDelta(i, k, p).type = "content_block_delta"
        /\ \A i : BlockStop(i).type = "content_block_stop"
    BY DEF MessageStart, MessageDelta, MessageStop, ErrorEvent, PingEvent, BlockStart, BlockDelta,
           BlockStop
  <2> QED
    BY <2>1 DEF Legal
<1> QED
  BY <1>3, <1>4

LEMMA LegalAt ==
  ASSUME NEW c, NEW n, NEW e
  PROVE  Legal(At(c, n), e) <=> Legal(c, e)
<1>1. At(c, n).phase = c.phase /\ At(c, n).open = c.open /\ At(c, n).blocks = c.blocks
  BY DEF At
<1> QED
  BY <1>1, Zenon DEF Legal

-----------------------------------------------------------------------------
(* The inductive invariant.                                                *)

\* The translator and the upstream fit a client at q.
Bound(f, s, u, q) ==
  /\ f = "chat" => ChatAt(s, u, q)
  /\ f = "responses" => RespAt(s, u, q)
  /\ f = "messages" => q.owed = 0

\* The events es lead the client, with n fragments still to come, to where they do.
Heads(n, es) == \E q : Leads(At(client, n), es, q) /\ Bound(flow, tr, up, q)

Shaped ==
  /\ flow \in Flows /\ ka \in KeepAlives /\ owed \in Int /\ out \in Seq(Events)
  /\ pc \in {"read", "write", "turn", "writing", "erring", "done"}
  /\ client \in Clients /\ client.blanks <= MaxWhitespace
  /\ up \in Ups /\ up.count <= MaxChunks
  /\ flow = "chat" => Chats(tr) /\ tr.out = <<>>
  /\ flow = "responses" => Resps(tr) /\ tr.out = <<>>

\* The keep-alive knows how far the client is.
Living(k, c) ==
  /\ k.started => c.phase # "none"
  /\ c.phase \in {"started", "finishing"} => k.started
  /\ k.stopped <=> c.phase \in {"stopped", "failed"}

Beats ==
  /\ ka.timer => ka.started /\ ~ka.stopped /\ pc \in {"read", "write"}
  /\ pc \in {"read", "write", "turn"} => Living(ka, client)
  /\ pc \in {"read", "write"} =>
       ka.ping # "adopted" /\ (ka.started /\ ~ka.stopped => ka.timer \/ ka.ping = "inflight")
  /\ pc = "turn" => ka.ping # "inflight" /\ (Head(out).type = "ping" => ka.started)
  /\ pc = "writing" => Living(AfterWrite(ka, Head(out)), client) /\ ka.ping = "none"
  /\ pc \in {"erring", "done"} => ka.stopped

Ways ==
  /\ pc \in {"read", "write", "turn"} => Heads(owed, out)
  /\ pc = "writing" => Heads(owed - Carries(Head(out)), Tail(out))
  /\ pc \in {"turn", "writing"} => out # <<>>
  /\ pc = "read" => out = <<>> /\ ~Completed
  /\ pc = "erring" => client.phase = "failed"
  /\ pc = "done" =>
       /\ Told(client) \/ (flow # "responses" /\ up.state = "ended")
       /\ client.phase = "stopped" => owed = 0

RelayInv == Shaped /\ Beats /\ Ways

LEMMA HeadsInt ==
  ASSUME NEW n, NEW es \in Seq(Events), Heads(n, es)
  PROVE  n \in Int
<1> PICK q : Leads(At(client, n), es, q)
  BY DEF Heads
<1>1. At(client, n) \in Places
  BY LeadsPlaces
<1> QED
  BY <1>1 DEF At, Places

LEMMA ChatStarts ==
  ASSUME NEW u, u = Upstream, NEW s, s = ChatState, NEW q, q = Place("none", 0, NoBlock, 0, 0)
  PROVE  Chats(s) /\ s.out = <<>> /\ ChatAt(s, u, q)
<1>1. u \in Ups /\ u.kind = "none"
  BY DEF Upstream, Ups, UpKinds
<1> DEFINE f == [c \in Calls |-> NoIndex]
<1>2. f \in [Calls -> Int] /\ \A c \in Calls : f[c] = -1
  BY DEF NoIndex
<1> HIDE DEF f
<1>3. s = [started |-> FALSE, index |-> 0, content |-> FALSE, thinking |-> FALSE, tools |-> f, out |-> <<>>]
  BY Zenon DEF ChatState, f
<1>4. Chats(s) /\ s.out = <<>>
  BY <1>2, <1>3 DEF Chats, ChatStates
<1>5. ChatLink(s, u.kind, u.items)
  BY <1>1, <1>3 DEF ChatLink
<1>6. q = ChatPlace(s, 0, 0)
  BY <1>3 DEF ChatPlace, ChatOpen
<1>7. 0 \in 0 .. MaxWhitespace
  BY SizesAssumption
<1> QED
  BY <1>1, <1>4, <1>5, <1>6, <1>7, Zenon DEF ChatAt

LEMMA ResponsesStart ==
  ASSUME NEW u, u = Upstream, NEW s, s = ResponsesState, NEW q, q = Place("none", 0, NoBlock, 0, 0)
  PROVE  Resps(s) /\ s.out = <<>> /\ RespAt(s, u, q)
<1>1. u \in Ups /\ u.kind = "none" /\ ~u.begun
  BY DEF Upstream, Ups, UpKinds
<1>2. RespUp(u)
  BY <1>1, SizesAssumption, PartsAssumption, FS_CardinalityType DEF RespUp, Upstream
<1>3. Resps(s) /\ ~s.completed /\ s.out = <<>>
  BY NoResponseYet
<1> QED
  BY <1>1, <1>2, <1>3, Zenon DEF RespAt

LEMMA RelayStarts == Init => RelayInv
<1> SUFFICES ASSUME Init PROVE RelayInv
  OBVIOUS
<1> PICK q : q = Place("none", 0, NoBlock, 0, 0)
  OBVIOUS
<1>1. client \in Clients /\ client.phase = "none" /\ client.blanks = 0 /\ At(client, 0) = q
  BY NewClientIsOne DEF Init, NewClient, At, Place
<1>2. q \in Places /\ q.owed = 0
  BY <1>1, AtPlace, SizesAssumption DEF At
<1>3. up \in Ups /\ up.count = 0
  BY DEF Init, Upstream, Ups, UpKinds
<1>4. /\ flow = "chat" => tr = ChatState
      /\ flow = "responses" => tr = ResponsesState
  BY Zenon DEF Init
<1>5. flow = "chat" => Chats(tr) /\ tr.out = <<>> /\ ChatAt(tr, up, q)
  BY <1>4, ChatStarts DEF Init
<1>6. flow = "responses" => Resps(tr) /\ tr.out = <<>> /\ RespAt(tr, up, q) /\ ~tr.completed
  BY <1>4, ResponsesStart, NoResponseYet DEF Init
<1>7. Bound(flow, tr, up, q)
  BY <1>2, <1>5, <1>6, Zenon DEF Bound
<1>8. Heads(owed, out)
  <2>1. Leads(q, <<>>, q) /\ owed = 0 /\ out = <<>>
    BY <1>2, LeadsNowhere DEF Init
  <2> QED
    BY <1>1, <1>7, <2>1, Zenon DEF Heads
<1>9. /\ ka \in KeepAlives /\ ~ka.started /\ ~ka.stopped /\ ~ka.timer /\ ka.ping = "none"
  BY DEF Init, KeepAlive, KeepAlives
<1>10. Shaped
  BY <1>1, <1>3, <1>5, <1>6, <1>9, SizesAssumption DEF Init, Shaped
<1>11. Beats
  BY <1>1, <1>9 DEF Init, Beats, Living
<1>12. Ways
  BY <1>6, <1>8 DEF Init, Ways, Completed
<1> QED
  BY <1>10, <1>11, <1>12 DEF RelayInv

-----------------------------------------------------------------------------
(* Every step keeps the invariant.                                         *)

\* The upstream is read: what was read leads the client on.
LEMMA ReadKeeps ==
  ASSUME RelayInv, CanRead, pc' = "write", UNCHANGED <<flow, ka, client>>,
         flow = "chat" => Chats(tr') /\ tr'.out = <<>>,
         flow = "responses" => Resps(tr') /\ tr'.out = <<>>,
         up' \in Ups, up'.count = up.count + 1, owed' \in Int, out' \in Seq(Events),
         \E q : Leads(At(client, owed'), out', q) /\ Bound(flow, tr', up', q)
  PROVE  RelayInv'
<1>1. Heads(owed, out)'
  BY Zenon DEF Heads
<1>2. Shaped'
  BY SizesAssumption DEF RelayInv, Shaped, CanRead, Ups
<1>3. Beats'
  BY DEF RelayInv, Beats, CanRead
<1>4. Ways'
  BY <1>1 DEF RelayInv, Ways
<1> QED
  BY <1>2, <1>3, <1>4 DEF RelayInv

\* Where the loop waits for the upstream, everything read was written.
LEMMA AtRead ==
  ASSUME RelayInv, pc = "read"
  PROVE  /\ owed = 0 /\ At(client, owed) \in Places /\ Bound(flow, tr, up, At(client, owed))
         /\ out = <<>> /\ ~Completed /\ flow \in {"chat", "responses", "messages"}
<1>1. out = <<>> /\ ~Completed
  BY DEF RelayInv, Ways
<1>2. \E q : Leads(At(client, owed), <<>>, q) /\ Bound(flow, tr, up, q)
  BY <1>1 DEF RelayInv, Ways, Heads
<1>3. PICK q : Leads(At(client, owed), <<>>, q) /\ Bound(flow, tr, up, q)
  BY <1>2, Zenon
<1>4. q = At(client, owed)
  BY <1>3, NowhereIsHere
<1>5. At(client, owed) \in Places
  <2>1. <<>> \in Seq(Events)
    OBVIOUS
  <2> QED
    BY <1>3, <2>1, LeadsPlaces, Zenon
<1>6. flow \in {"chat", "responses", "messages"}
  BY FlowsAssumption DEF RelayInv, Shaped
<1>7. q.owed = owed
  BY <1>4 DEF At
<1>8. q.owed = 0
  <2>1. CASE flow = "chat"
    <3>1. ChatAt(tr, up, q)
      BY <1>3, <2>1 DEF Bound
    <3> QED
      BY <3>1 DEF ChatAt, ChatPlace, Place
  <2>2. CASE flow = "responses"
    <3>1. RespAt(tr, up, q) /\ ~tr.completed
      BY <1>1, <1>3, <2>2 DEF Bound, Completed
    <3> QED
      BY <3>1 DEF RespAt, Place
  <2>3. CASE flow = "messages"
    BY <1>3, <2>3 DEF Bound
  <2> QED
    BY <1>6, <2>1, <2>2, <2>3
<1> QED
  BY <1>1, <1>3, <1>4, <1>5, <1>6, <1>7, <1>8

LEMMA ReadChatKeeps ==
  ASSUME RelayInv, ReadChat
  PROVE  RelayInv'
<1>1. flow = "chat" /\ CanRead /\ pc' = "write" /\ UNCHANGED <<flow, ka, client>> /\ pc = "read"
  BY DEF ReadChat, CanRead
<1> PICK c \in ChatChunks :
       /\ tr' = [TranslateChunk(tr, c) EXCEPT !.out = <<>>]
       /\ out' = TranslateChunk(tr, c).out
       /\ owed' = owed + ChatPieces(c)
       /\ up' = AfterChat(c)
  BY Zenon DEF ReadChat
<1> PICK t : t = TranslateChunk(tr, c)
  OBVIOUS
<1> PICK n : n = ChatPieces(c)
  OBVIOUS
<1> PICK q : q = At(client, owed)
  OBVIOUS
<1> PICK p : p = Owing(q, n)
  OBVIOUS
<1>2. owed = 0 /\ q \in Places /\ ChatAt(tr, up, q) /\ tr.out = <<>>
  <2>1. owed = 0 /\ q \in Places /\ Bound(flow, tr, up, q)
    BY <1>1, AtRead
  <2>2. tr.out = <<>>
    BY <1>1 DEF RelayInv, Shaped
  <2> QED
    BY <1>1, <2>1, <2>2, Zenon DEF Bound
<1>3. /\ t.out \in Seq(Events) /\ Later(AfterChat(c)) /\ n \in Int
      /\ \E r : Leads(p, t.out, r) /\ ChatAt(Written(t), AfterChat(c), r)
  BY <1>2, ChatRead
<1>4. owed' = n /\ out' = t.out /\ tr' = Written(t)
  BY <1>2, <1>3 DEF Written
<1>5. p = At(client, owed')
  BY <1>4, OwingAt, Zenon
<1> PICK r : Leads(p, t.out, r) /\ ChatAt(Written(t), AfterChat(c), r)
  BY <1>3, Zenon
<1>6. Bound(flow, tr', up', r)
  BY <1>1, <1>4 DEF Bound
<1>7. Chats(tr')
  BY <1>4 DEF ChatAt
<1>8. tr'.out = <<>>
  BY <1>4, <1>7 DEF Chats, ChatStates
<1>9. up' \in Ups /\ up'.count = up.count + 1
  BY <1>3 DEF Later
<1>10. \E x : Leads(At(client, owed'), out', x) /\ Bound(flow, tr', up', x)
  BY <1>4, <1>5, <1>6, Zenon
<1> QED
  BY <1>1, <1>3, <1>4, <1>7, <1>8, <1>9, <1>10, ReadKeeps

LEMMA NewsOfResponses ==
  ASSUME NEW says \in ResponsesSays
  PROVE  says.new \in Int
<1>1. \A type, data, next : Says(type, data, 0, next).new = 0
  BY DEF Says, SaysOf
<1>2. CASE says \in FirstOfItem \cup InItem \cup Terminal
  BY <1>2, AllSpeak DEF Speaks
<1> QED
  BY <1>1, <1>2 DEF ResponsesSays

LEMMA ResponsesLead ==
  ASSUME NEW q \in Places, RespAt(tr, up, q), ~tr.completed, tr.out = <<>>,
         NEW says \in ResponsesSays, NEW n, n = says.new,
         NEW p, p = Owing(q, n), NEW t, t = TranslateEvent(tr, says.event)
  PROVE  Reached(p, t, says) /\ Later(says.next) /\ n \in Int
<1>1. n \in Int
  BY NewsOfResponses
<1>2. p \in Places
  BY <1>1, OwingIsPlace
<1>3. RespUp(up) /\ Resps(tr)
  BY DEF RespAt
<1>4. CASE up.begun /\ \E k, w : Kept(tr, up, k, w) /\ q = Place("started", tr.next, RespOpen(tr, k), w, 0)
  <2> PICK k, w : Kept(tr, up, k, w) /\ q = Place("started", tr.next, RespOpen(tr, k), w, 0)
    BY <1>4
  <2>1. p = Place("started", tr.next, RespOpen(tr, k), w, n)
    BY Zenon DEF Owing, Place
  <2> QED
    BY <1>1, <1>2, <1>3, <1>4, <2>1, BegunRead
<1>5. CASE tr = ResponsesState /\ ~up.begun /\ up.kind = "none" /\ \E w : q = Place("none", 0, NoBlock, w, 0)
  <2> PICK w : q = Place("none", 0, NoBlock, w, 0)
    BY <1>5
  <2>1. p = Place("none", 0, NoBlock, w, n)
    BY Zenon DEF Owing, Place
  <2> QED
    BY <1>1, <1>2, <1>3, <1>5, <2>1, UnbegunRead
<1> QED
  BY <1>4, <1>5, Zenon DEF RespAt

LEMMA ReadResponsesKeeps ==
  ASSUME RelayInv, ReadResponses
  PROVE  RelayInv'
<1>1. flow = "responses" /\ CanRead /\ pc' = "write" /\ UNCHANGED <<flow, ka, client>> /\ pc = "read"
  BY DEF ReadResponses, CanRead
<1> PICK says \in ResponsesSays :
       /\ tr' = [TranslateEvent(tr, says.event) EXCEPT !.out = <<>>]
       /\ out' = IF says.event.type = "ping" THEN <<PingEvent>> ELSE TranslateEvent(tr, says.event).out
       /\ owed' = owed + says.new
       /\ up' = says.next
  BY Zenon DEF ReadResponses
<1> PICK t : t = TranslateEvent(tr, says.event)
  OBVIOUS
<1> PICK n : n = says.new
  OBVIOUS
<1> PICK q : q = At(client, owed)
  OBVIOUS
<1> PICK p : p = Owing(q, n)
  OBVIOUS
<1>2. owed = 0 /\ q \in Places /\ RespAt(tr, up, q) /\ tr.out = <<>> /\ ~tr.completed
  <2>1. owed = 0 /\ q \in Places /\ Bound(flow, tr, up, q) /\ ~Completed
    BY <1>1, AtRead
  <2>2. tr.out = <<>>
    BY <1>1 DEF RelayInv, Shaped
  <2> QED
    BY <1>1, <2>1, <2>2, Zenon DEF Bound, Completed
<1>3. Reached(p, t, says) /\ Later(says.next) /\ n \in Int
  BY <1>2, ResponsesLead
<1>4. owed' = n /\ out' = WrittenFor(says, t) /\ tr' = Written(t)
  BY <1>2, <1>3 DEF Written, WrittenFor
<1>5. p = At(client, owed')
  BY <1>4, OwingAt, Zenon
<1> PICK r : Leads(p, WrittenFor(says, t), r) /\ RespAt(Written(t), says.next, r)
  BY <1>3, Zenon DEF Reached
<1>6. Bound(flow, tr', up', r)
  BY <1>1, <1>4 DEF Bound
<1>7. Resps(tr') /\ tr'.out = <<>>
  <2>1. Resps(tr')
    BY <1>4 DEF RespAt
  <2> QED
    BY <1>4, <2>1 DEF Resps, RespStates
<1>8. up' \in Ups /\ up'.count = up.count + 1
  BY <1>3 DEF Later
<1>9. \E x : Leads(At(client, owed'), out', x) /\ Bound(flow, tr', up', x)
  BY <1>4, <1>5, <1>6, Zenon
<1>10. out' \in Seq(Events)
  BY <1>3, <1>4 DEF Reached
<1> QED
  BY <1>1, <1>3, <1>4, <1>7, <1>8, <1>9, <1>10, ReadKeeps

LEMMA ReadMessagesKeeps ==
  ASSUME RelayInv, ReadMessages
  PROVE  RelayInv'
<1>1. /\ flow = "messages" /\ CanRead /\ pc' = "write" /\ UNCHANGED <<flow, tr, ka, client>>
      /\ pc = "read" /\ up' = [up EXCEPT !.count = @ + 1]
  BY DEF ReadMessages, CanRead
<1> PICK e \in MessagesEvents : out' = <<e>> /\ owed' = owed + Carries(e)
  BY DEF ReadMessages
<1>2. client \in Clients /\ client.blanks <= MaxWhitespace /\ up \in Ups
  BY DEF RelayInv, Shaped
<1>3. /\ e \in Events /\ Carries(e) \in Int
      /\ \E q : Leads(At(client, Carries(e)), <<e>>, q) /\ q.owed = 0
  BY <1>2, MessagesLead
<1>4. owed' = Carries(e)
  BY <1>1, <1>3, AtRead
<1>5. \E x : Leads(At(client, owed'), out', x) /\ Bound(flow, tr', up', x)
  BY <1>1, <1>3, <1>4 DEF Bound
<1>6. up' \in Ups /\ up'.count = up.count + 1
  BY <1>1, <1>2 DEF Ups
<1> QED
  BY <1>1, <1>3, <1>4, <1>5, <1>6, ReadKeeps

LEMMA AliveLives ==
  ASSUME NEW k, NEW a, Alive(a, k), NEW c, Living(k, c)
  PROVE  Living(a, c)
BY DEF Alive, Living

\* A ping changes nothing that the relay depends on.
LEMMA HeardPing ==
  ASSUME NEW c \in Clients, NEW d, d = Hear(c, PingEvent)
  PROVE  /\ d \in Clients /\ d.phase = c.phase /\ d.blanks = c.blanks /\ d.last = PingEvent
         /\ \A n : At(d, n) = At(c, n)
<1>1. /\ d \in Clients /\ d.phase = c.phase /\ d.blanks = c.blanks /\ d.blocks = c.blocks
      /\ d.open = c.open /\ d.last = PingEvent
  BY HearPlain DEF Follows
<1> QED
  BY <1>1 DEF At

LEMMA AfterPing ==
  ASSUME NEW p \in Places, NEW e \in Events, e.type = "ping", Fits(p, e)
  PROVE  After(p, e) = p
<1>1. e = PingEvent
  BY DEF Events, MessageStart, MessageDelta, MessageStop, ErrorEvent, PingEvent
<1>2. /\ After(p, e) \in Places
      /\ After(p, e).blocks = p.blocks /\ After(p, e).open = p.open /\ After(p, e).blanks = p.blanks
      /\ After(p, e).owed = p.owed /\ After(p, e).phase = p.phase
  BY <1>1, StepPlain
<1> QED
  BY <1>2 DEF Places

LEMMA TakeEventKeeps ==
  ASSUME RelayInv, TakeEvent
  PROVE  RelayInv'
<1> USE DEF RelayInv
<1>1. /\ pc = "write" /\ out # <<>> /\ flow' = flow /\ up' = up /\ tr' = tr /\ owed' = owed
      /\ client' = client /\ ka \in KeepAlives /\ out \in Seq(Events)
  BY DEF TakeEvent, Shaped
<1>2. CASE Head(out).type = "ping" /\ ~ka.started
  <2>1. out' = Tail(out) /\ pc' = pc /\ ka' = ka
    BY <1>2 DEF TakeEvent
  <2>2. PICK q : Leads(At(client, owed), out, q) /\ Bound(flow, tr, up, q)
    BY <1>1 DEF Ways, Heads
  <2> PICK p : p = At(client, owed)
    OBVIOUS
  <2> PICK e : e = Head(out)
    OBVIOUS
  <2>3. p \in Places
    BY <1>1, <2>2, LeadsPlaces
  <2>4. Fits(p, e) /\ e \in Events /\ Leads(After(p, e), Tail(out), q)
    BY <1>1, <2>2, LeadsFrom
  <2>5. Leads(At(client, owed), Tail(out), q)
    BY <1>2, <2>3, <2>4, AfterPing
  <2>6. Heads(owed, out)'
    BY <1>1, <2>1, <2>2, <2>5, Zenon DEF Heads
  <2>7. Tail(out) \in Seq(Events)
    BY <1>1
  <2>8. Shaped'
    BY <1>1, <2>1, <2>7 DEF Shaped
  <2>9. Beats'
    BY <1>1, <2>1 DEF Beats
  <2>10. Ways'
    BY <1>1, <2>1, <2>6 DEF Ways
  <2> QED
    BY <2>8, <2>9, <2>10
<1>3. CASE ~(Head(out).type = "ping" /\ ~ka.started)
  <2>1. ka' = TakeTurn(ka) /\ pc' = "turn" /\ out' = out
    BY <1>3 DEF TakeEvent
  <2>2. Alive(ka', ka) /\ ~ka'.timer /\ ka'.ping # "inflight"
    BY <1>1, <2>1, TakeTurnIs
  <2>3. Heads(owed, out)'
    <3>1. Heads(owed, out)
      BY <1>1 DEF Ways
    <3> QED
      BY <1>1, <2>1, <3>1, Zenon DEF Heads
  <2>4. Living(ka', client)
    BY <1>1, <2>2, AliveLives DEF Beats
  <2>5. Shaped'
    BY <1>1, <2>1, <2>2 DEF Shaped, Alive
  <2>6. Beats'
    BY <1>1, <1>3, <2>1, <2>2, <2>4 DEF Beats, Alive
  <2>7. Ways'
    BY <1>1, <2>1, <2>3 DEF Ways
  <2> QED
    BY <2>5, <2>6, <2>7
<1> QED
  BY <1>2, <1>3

\* The event whose turn it is may come where the client is.
LEMMA TurnIsLegal ==
  ASSUME RelayInv, pc = "turn", NEW e, e = Head(out)
  PROVE  /\ e \in Events /\ Legal(client, e)
         /\ At(Hear(client, e), owed - Carries(e)) \in Places
         /\ \E q : /\ Leads(At(Hear(client, e), owed - Carries(e)), Tail(out), q)
                   /\ Bound(flow, tr, up, q)
<1>1. client \in Clients /\ owed \in Int /\ out \in Seq(Events) /\ out # <<>>
  BY DEF RelayInv, Shaped, Ways
<1>2. PICK q : Leads(At(client, owed), out, q) /\ Bound(flow, tr, up, q)
  BY DEF RelayInv, Ways, Heads
<1> PICK p : p = At(client, owed)
  OBVIOUS
<1>3. Fits(p, e) /\ e \in Events /\ After(p, e) \in Places /\ Leads(After(p, e), Tail(out), q)
  BY <1>1, <1>2, LeadsFrom
<1>4. After(p, e) = At(Hear(client, e), owed - Carries(e))
  BY <1>1, <1>3, AfterIsHear
<1>5. Legal(client, e)
  <2>1. CASE e # PingEvent
    <3>1. Legal(p, e)
      BY <1>3, <2>1 DEF Fits, Legal
    <3> QED
      BY <3>1, LegalAt
  <2>2. CASE e = PingEvent
    <3>1. p.phase = client.phase
      BY DEF At
    <3>2. p.phase \in {"none", "started"}
      <4>1. PingEvent.type = "ping"
        BY DEF PingEvent
      <4> QED
        BY <1>3, <2>2 DEF Fits
    <3>3. e.type = "ping"
      BY <2>2 DEF PingEvent
    <3>4. client.phase # "none"
      BY <3>3 DEF RelayInv, Beats, Living
    <3> QED
      BY <2>2, <3>1, <3>2, <3>4 DEF Legal
  <2> QED
    BY <2>1, <2>2
<1> QED
  BY <1>2, <1>3, <1>4, <1>5

LEMMA WriteEventKeeps ==
  ASSUME RelayInv, WriteEvent
  PROVE  RelayInv'
<1> PICK e : e = Head(out)
  OBVIOUS
<1>1. /\ pc = "turn" /\ pc' = "writing" /\ ka' = [ka EXCEPT !.writing = TRUE] /\ ka.ping # "adopted"
      /\ client' = Hear(client, e) /\ flow' = flow /\ up' = up /\ tr' = tr /\ out' = out
      /\ owed' = owed
  BY DEF WriteEvent
<1>2. ka \in KeepAlives /\ client \in Clients /\ out # <<>> /\ Living(ka, client)
      /\ ka.ping # "inflight" /\ ~ka.timer
  BY <1>1 DEF RelayInv, Shaped, Ways, Beats
<1>3. Alive(ka', ka) /\ ka'.ping = "none" /\ ~ka'.timer
  <2>1. ka.ping = "none"
    BY <1>1, <1>2 DEF KeepAlives
  <2> QED
    BY <1>1, <1>2, <2>1 DEF KeepAlives, Alive
<1>4. e \in Events /\ Legal(client, e) /\ At(client', owed - Carries(e)) \in Places
  BY <1>1, TurnIsLegal
<1>5. client' \in Clients
  BY <1>1, <1>2, <1>4, HearIsClient
<1>6. client'.blanks <= MaxWhitespace
  BY <1>4, SizesAssumption DEF At, Places
<1>7. Heads(owed - Carries(Head(out)), Tail(out))'
  <2>1. \E q : Leads(At(client', owed - Carries(e)), Tail(out), q) /\ Bound(flow, tr, up, q)
    BY <1>1, TurnIsLegal
  <2> QED
    BY <1>1, <2>1, Zenon DEF Heads
<1>8. Living(AfterWrite(ka', e), client')
  <2> PICK a : a = AfterWrite(ka', e)
    OBVIOUS
  <2>1. /\ a.started <=> ka'.started \/ e.type = "message_start"
        /\ a.stopped <=> ka'.stopped \/ e.type \in {"message_stop", "error"}
    BY <1>3, AfterWriteIs DEF Alive
  <2>2. \/ e.type = "message_start" /\ client'.phase = "started"
        \/ e.type = "error" /\ client'.phase = "failed"
        \/ e.type = "message_stop" /\ client.phase = "finishing" /\ client'.phase = "stopped"
        \/ /\ e.type \notin {"message_start", "error", "message_stop"}
           /\ client.phase \in {"started", "finishing"} /\ client'.phase \in {"started", "finishing"}
    BY <1>1, <1>2, <1>4, HearPhases
  <2>3. e.type = "message_start" => client.phase = "none"
    BY <1>4 DEF Legal, MessageStart, MessageDelta, MessageStop, ErrorEvent, PingEvent, BlockStart,
                BlockDelta, BlockStop
  <2>4. /\ ka'.started <=> ka.started
        /\ ka'.stopped <=> ka.stopped
    BY <1>3 DEF Alive
  <2> QED
    BY <1>2, <2>1, <2>2, <2>3, <2>4 DEF Living
<1>9. Shaped'
  BY <1>1, <1>3, <1>5, <1>6 DEF RelayInv, Shaped, Alive
<1>10. Beats'
  <2>1. Head(out)' = e
    BY <1>1
  <2> QED
    BY <1>1, <1>3, <1>8, <2>1 DEF Beats
<1>11. Ways'
  BY <1>1, <1>2, <1>7 DEF Ways
<1> QED
  BY <1>9, <1>10, <1>11 DEF RelayInv

LEMMA EventWrittenKeeps ==
  ASSUME RelayInv, EventWritten
  PROVE  RelayInv'
<1> PICK e : e = Head(out)
  OBVIOUS
<1>1. /\ pc = "writing" /\ pc' = "write" /\ ka' = AfterWrite(ka, e) /\ owed' = owed - Carries(e)
      /\ out' = Tail(out) /\ flow' = flow /\ up' = up /\ tr' = tr /\ client' = client
  BY DEF EventWritten
<1>2. ka \in KeepAlives /\ out \in Seq(Events) /\ out # <<>> /\ ka.ping = "none"
      /\ Living(AfterWrite(ka, e), client)
  BY <1>1 DEF RelayInv, Shaped, Ways, Beats
<1>3. Tail(out) \in Seq(Events)
  BY <1>2
<1>4. Heads(owed - Carries(e), Tail(out))
  BY <1>1 DEF RelayInv, Ways
<1>5. Heads(owed, out)'
  BY <1>1, <1>4, Zenon DEF Heads
<1>6. owed' \in Int
  BY <1>1, <1>3, <1>4, HeadsInt
<1>7. /\ ka' \in KeepAlives /\ ka'.ping = ka.ping
      /\ ka'.timer <=> ka'.started /\ ~ka'.stopped
  BY <1>1, <1>2, AfterWriteIs
<1>8. Shaped'
  BY <1>1, <1>3, <1>6, <1>7 DEF RelayInv, Shaped
<1>9. Beats'
  BY <1>1, <1>2, <1>7 DEF Beats
<1>10. Ways'
  BY <1>1, <1>5 DEF Ways
<1> QED
  BY <1>8, <1>9, <1>10 DEF RelayInv

\* The loop is left, whatever the upstream's state becomes.
LEMMA LeaveKeeps ==
  ASSUME RelayInv, flow' = flow, tr' = tr, out' = out, owed' = owed,
         up' \in Ups, up'.count = up.count,
         \/ WriteError
         \/ /\ ka' = StopKeepAlive(ka) /\ pc' = "done" /\ UNCHANGED client
            /\ Told(client) \/ (flow # "responses" /\ up'.state = "ended")
            /\ client.phase = "stopped" => owed = 0
  PROVE  RelayInv'
<1>1. ka \in KeepAlives /\ client \in Clients /\ client.blanks <= MaxWhitespace
  BY DEF RelayInv, Shaped
<1>2. ka' = StopKeepAlive(ka) /\ pc' \in {"erring", "done"}
  BY DEF WriteError
<1>3. ka' \in KeepAlives /\ ka'.stopped /\ ~ka'.timer
  BY <1>1, <1>2, StoppedIs
<1>4. Beats'
  BY <1>2, <1>3 DEF Beats
<1>5. CASE WriteError
  <2>1. pc' = "erring" /\ client' = Hear(client, ErrorEvent)
    BY <1>5 DEF WriteError
  <2>2. client' \in Clients /\ client'.phase = "failed" /\ client'.blanks = client.blanks
    BY <1>1, <2>1, HearPlain DEF Follows
  <2>3. Shaped'
    BY <1>1, <1>3, <2>1, <2>2 DEF RelayInv, Shaped
  <2>4. Ways'
    BY <2>1, <2>2 DEF Ways
  <2> QED
    BY <1>4, <2>3, <2>4 DEF RelayInv
<1>6. CASE /\ pc' = "done" /\ UNCHANGED client
           /\ Told(client) \/ (flow # "responses" /\ up'.state = "ended")
           /\ client.phase = "stopped" => owed = 0
  <2>1. Shaped'
    BY <1>1, <1>3, <1>6 DEF RelayInv, Shaped
  <2>2. Ways'
    BY <1>6 DEF Ways, Told
  <2> QED
    BY <1>4, <2>1, <2>2 DEF RelayInv
<1> QED
  BY <1>5, <1>6

LEMMA NextChunkKeeps ==
  ASSUME RelayInv, NextChunk
  PROVE  RelayInv'
<1>1. /\ pc = "write" /\ out = <<>> /\ flow' = flow /\ up' = up /\ tr' = tr /\ out' = out
      /\ owed' = owed
  BY DEF NextChunk
<1>2. Heads(owed, out) /\ up \in Ups
  BY <1>1 DEF RelayInv, Ways, Shaped
<1>3. CASE Completed
  <2>1. ka' = StopKeepAlive(ka) /\ pc' = "done" /\ UNCHANGED client
    BY <1>3 DEF NextChunk, Leave, Completed
  <2>2. PICK q : Leads(At(client, owed), <<>>, q) /\ Bound(flow, tr, up, q)
    BY <1>1, <1>2, Zenon DEF Heads
  <2>3. q = At(client, owed)
    BY <2>2, NowhereIsHere
  <2>4. q.phase = client.phase /\ q.owed = owed
    BY <2>3 DEF At
  <2>5. RespAt(tr, up, q) /\ tr.completed
    BY <1>3, <2>2 DEF Completed, Bound
  <2>6. q.phase = "failed" \/ (q.phase = "stopped" /\ q.owed = 0)
    <3>1. ResponsesState.completed = FALSE
      BY NoResponseYet DEF ResponsesState
    <3> QED
      BY <2>5, <3>1, Zenon DEF RespAt
  <2>7. Told(client) /\ (client.phase = "stopped" => owed = 0)
    BY <2>4, <2>6 DEF Told
  <2> QED
    BY <1>1, <1>2, <2>1, <2>7, LeaveKeeps
<1>4. CASE ~Completed
  <2>1. pc' = "read" /\ ka' = ka /\ client' = client
    BY <1>4 DEF NextChunk
  <2>2. Heads(owed, out)'
    BY <1>1, <1>2, <2>1, Zenon DEF Heads
  <2>3. ~Completed'
    BY <1>1, <1>4 DEF Completed
  <2>4. Shaped'
    BY <1>1, <2>1 DEF RelayInv, Shaped
  <2>5. Beats'
    BY <1>1, <2>1 DEF RelayInv, Beats
  <2>6. Ways'
    BY <1>1, <2>1, <2>2, <2>3 DEF Ways
  <2> QED
    BY <2>4, <2>5, <2>6 DEF RelayInv
<1> QED
  BY <1>3, <1>4

LEMMA StreamEndsKeeps ==
  ASSUME RelayInv, StreamEnds
  PROVE  RelayInv'
<1>1. /\ pc = "read" /\ up' = [up EXCEPT !.state = "ended"] /\ flow' = flow /\ tr' = tr
      /\ out' = out /\ owed' = owed /\ up \in Ups
  BY DEF StreamEnds, RelayInv, Shaped
<1>2. up' \in Ups /\ up'.count = up.count /\ up'.state = "ended"
  BY <1>1 DEF Ups
<1>3. owed = 0 /\ ~Completed
  BY <1>1, AtRead
<1>4. \/ WriteError
      \/ flow # "responses" /\ ka' = StopKeepAlive(ka) /\ pc' = "done" /\ UNCHANGED client
  BY <1>3 DEF StreamEnds, Leave, Completed
<1> QED
  BY <1>1, <1>2, <1>3, <1>4, LeaveKeeps

LEMMA StreamThrowsKeeps ==
  ASSUME RelayInv, StreamThrows
  PROVE  RelayInv'
<1>1. /\ up' = [up EXCEPT !.state = "threw"] /\ flow' = flow /\ tr' = tr
      /\ out' = out /\ owed' = owed /\ up \in Ups /\ WriteError
  BY DEF StreamThrows, RelayInv, Shaped
<1>2. up' \in Ups /\ up'.count = up.count
  BY <1>1 DEF Ups
<1> QED
  BY <1>1, <1>2, LeaveKeeps

LEMMA ErrorWrittenKeeps ==
  ASSUME RelayInv, ErrorWritten
  PROVE  RelayInv'
<1>1. pc = "erring" /\ pc' = "done" /\ UNCHANGED <<flow, up, tr, out, ka, owed, client>>
  BY DEF ErrorWritten
<1>2. client.phase = "failed"
  BY <1>1 DEF RelayInv, Ways
<1>3. Shaped'
  BY <1>1 DEF RelayInv, Shaped
<1>4. Beats'
  BY <1>1 DEF RelayInv, Beats
<1>5. Ways'
  BY <1>1, <1>2 DEF Ways, Told
<1> QED
  BY <1>3, <1>4, <1>5 DEF RelayInv

LEMMA PingKeeps ==
  ASSUME RelayInv, Ping
  PROVE  RelayInv'
<1>1. /\ ka.timer /\ flow' = flow /\ up' = up /\ tr' = tr /\ out' = out /\ pc' = pc /\ owed' = owed
      /\ ka \in KeepAlives /\ client \in Clients
  BY DEF Ping, RelayInv, Shaped
<1>2. /\ pc \in {"read", "write"} /\ ka.started /\ ~ka.stopped /\ Living(ka, client)
      /\ Heads(owed, out) /\ ka.ping # "adopted"
  BY <1>1 DEF RelayInv, Beats, Ways
<1>3. /\ client' \in Clients /\ client'.phase = client.phase /\ client'.blanks = client.blanks
      /\ At(client', owed) = At(client, owed)
      /\ Alive(ka', ka) /\ ka'.ping # "adopted" /\ (ka'.timer \/ ka'.ping = "inflight")
  <2>1. CASE ka.writing
    <3>1. ka' = ScheduleNextPing(ka) /\ client' = client
      BY <2>1 DEF Ping
    <3>2. Alive(ka', ka) /\ ka'.ping = ka.ping /\ (ka'.timer <=> ka.started /\ ~ka.stopped)
      BY <1>1, <3>1, ScheduledIs
    <3> QED
      BY <1>1, <1>2, <3>1, <3>2
  <2>2. CASE ~ka.writing
    <3>1. /\ ka' = [ka EXCEPT !.timer = FALSE, !.writing = TRUE, !.ping = "inflight"]
          /\ client' = Hear(client, PingEvent)
      BY <2>2 DEF Ping
    <3>2. Alive(ka', ka) /\ ka'.ping = "inflight"
      BY <1>1, <3>1 DEF KeepAlives, Alive
    <3>3. /\ client' \in Clients /\ client'.phase = client.phase /\ client'.blanks = client.blanks
          /\ At(client', owed) = At(client, owed)
      BY <1>1, <3>1, HeardPing
    <3> QED
      BY <3>2, <3>3
  <2> QED
    BY <2>1, <2>2
<1>4. Heads(owed, out)'
  BY <1>1, <1>2, <1>3, Zenon DEF Heads
<1>5. Living(ka', client')
  BY <1>2, <1>3 DEF Living, Alive
<1>6. Shaped'
  BY <1>1, <1>3 DEF RelayInv, Shaped, Alive
<1>7. Beats'
  BY <1>1, <1>2, <1>3, <1>5 DEF Beats, Alive
<1>8. Ways'
  <2>1. pc = "read" => out = <<>> /\ ~Completed
    BY DEF RelayInv, Ways
  <2>2. ~Completed => ~Completed'
    BY <1>1 DEF Completed
  <2> QED
    BY <1>1, <1>2, <1>4, <2>1, <2>2 DEF Ways
<1> QED
  BY <1>6, <1>7, <1>8 DEF RelayInv

LEMMA PingWrittenKeeps ==
  ASSUME RelayInv, PingWritten
  PROVE  RelayInv'
<1>1. /\ ka.ping # "none" /\ ka' = PingOut(ka) /\ flow' = flow /\ up' = up /\ tr' = tr /\ out' = out
      /\ pc' = pc /\ owed' = owed /\ client' = client /\ ka \in KeepAlives
  BY DEF PingWritten, RelayInv, Shaped
<1>2. /\ Alive(ka', ka) /\ ka'.ping = "none"
      /\ ka.ping = "inflight" => (ka'.timer <=> ka.started /\ ~ka.stopped)
      /\ ka.ping # "inflight" => (ka'.timer <=> ka.timer)
  BY <1>1, PingOutIs
<1>3. Shaped'
  BY <1>1, <1>2 DEF RelayInv, Shaped, Alive
<1>4. Living(ka, client) => Living(ka', client')
  BY <1>1, <1>2, AliveLives
<1>5. Beats'
  <2>1. pc # "writing" /\ (pc \in {"read", "write"} => ka.ping = "inflight")
    BY <1>1 DEF RelayInv, Beats, KeepAlives
  <2>2. Head(out)' = Head(out)
    BY <1>1
  <2>3. /\ ka'.timer => ka'.started /\ ~ka'.stopped /\ pc \in {"read", "write"}
        /\ pc \in {"read", "write"} => (ka.started /\ ~ka.stopped => ka'.timer)
    BY <1>1, <1>2, <2>1 DEF RelayInv, Beats, Shaped, Alive
  <2>4. /\ pc = "turn" => (Head(out).type = "ping" => ka'.started)
        /\ pc \in {"erring", "done"} => ka'.stopped
        /\ pc \in {"read", "write", "turn"} => Living(ka', client')
    BY <1>1, <1>2, <1>4 DEF RelayInv, Beats, Alive
  <2>5. ka'.started <=> ka.started
    BY <1>2 DEF Alive
  <2>6. ka'.stopped <=> ka.stopped
    BY <1>2 DEF Alive
  <2> QED
    BY <1>1, <1>2, <2>1, <2>2, <2>3, <2>4, <2>5, <2>6 DEF Beats
<1>6. Ways'
  <2>1. /\ Heads(owed, out) => Heads(owed, out)'
        /\ Heads(owed - Carries(Head(out)), Tail(out)) => Heads(owed - Carries(Head(out)), Tail(out))'
    BY <1>1, Zenon DEF Heads
  <2>2. Completed' <=> Completed
    BY <1>1 DEF Completed
  <2> QED
    BY <1>1, <2>1, <2>2 DEF RelayInv, Ways, Told
<1> QED
  BY <1>3, <1>5, <1>6 DEF RelayInv

LEMMA Stutters ==
  ASSUME RelayInv, UNCHANGED vars
  PROVE  RelayInv'
<1>1. /\ flow' = flow /\ up' = up /\ tr' = tr /\ out' = out /\ ka' = ka
      /\ pc' = pc /\ owed' = owed /\ client' = client
  BY DEF vars
<1>2. Shaped'
  BY <1>1 DEF RelayInv, Shaped
<1>3. Beats'
  <2>1. /\ Living(ka, client)' <=> Living(ka, client)
        /\ Living(AfterWrite(ka, Head(out)), client)' <=> Living(AfterWrite(ka, Head(out)), client)
        /\ Head(out)' = Head(out)
    BY <1>1, Zenon
  <2> QED
    BY <1>1, <2>1 DEF RelayInv, Beats
<1>4. Ways'
  <2>1. /\ Heads(owed, out) => Heads(owed, out)'
        /\ Heads(owed - Carries(Head(out)), Tail(out)) => Heads(owed - Carries(Head(out)), Tail(out))'
    BY <1>1, Zenon DEF Heads
  <2>2. Completed' <=> Completed
    BY <1>1 DEF Completed
  <2> QED
    BY <1>1, <2>1, <2>2 DEF RelayInv, Ways, Told
<1> QED
  BY <1>2, <1>3, <1>4 DEF RelayInv

LEMMA StepKeeps == RelayInv /\ [Next]_vars => RelayInv'
BY ReadChatKeeps, ReadResponsesKeeps, ReadMessagesKeeps, TakeEventKeeps, WriteEventKeeps,
   EventWrittenKeeps, NextChunkKeeps, StreamEndsKeeps, StreamThrowsKeeps, ErrorWrittenKeeps,
   PingKeeps, PingWrittenKeeps, Stutters DEF Next, Loop

LEMMA RelayAlways == Spec => []RelayInv
BY RelayStarts, StepKeeps, PTL DEF Spec

-----------------------------------------------------------------------------
(* What the invariant says of a relay.                                     *)

LEMMA ChatTyped ==
  ASSUME NEW s, Chats(s)
  PROVE  s.index \in Nat /\ \A c \in Calls : s.tools[c] \in -1 .. s.index
BY DEF Chats, ChatStates

LEMMA ResponsesTyped ==
  ASSUME NEW s, Resps(s)
  PROVE  s.open \cup s.hasDelta \subseteq 0 .. s.next - 1 /\ Cardinality(s.open) <= 1
<1>1. s.next \in Nat
  BY DEF Resps, RespStates
<1>2. CASE s.open = {}
  BY <1>2, FS_EmptySet DEF Resps
<1>3. CASE s.next > 0 /\ s.open = {s.next - 1}
  <2>1. Cardinality(s.open) = 1
    BY <1>3, FS_Singleton
  <2>2. s.open \cup s.hasDelta \subseteq 0 .. s.next - 1
    BY <1>1, <1>3 DEF Resps
  <2> QED
    BY <2>1, <2>2
<1> QED
  BY <1>2, <1>3 DEF Resps

\* The invariant of a relay, proved for every bound and every upstream: the state is well
\* typed, an event is never written into a ping, pings go on while the upstream is silent,
\* white space does not run away, and the client is told how its message ended.
THEOREM RelayIsSafe == Spec => []RelayInvariant
<1>1. RelayInv => RelayInvariant
  <2> SUFFICES ASSUME RelayInv PROVE RelayInvariant
    OBVIOUS
  <2>1. TypeOK
    <3>1. /\ up.count \in 0 .. MaxChunks /\ up.state \in {"flowing", "ended", "threw"}
          /\ client.phase \in Phases
      BY SizesAssumption DEF RelayInv, Shaped, Ups, Clients
    <3>2. flow = "chat" => tr.index \in Nat /\ \A c \in Calls : tr.tools[c] \in -1 .. tr.index
      BY ChatTyped DEF RelayInv, Shaped
    <3>3. flow = "responses" =>
            tr.open \cup tr.hasDelta \subseteq 0 .. tr.next - 1 /\ Cardinality(tr.open) <= 1
      BY ResponsesTyped DEF RelayInv, Shaped
    <3> QED
      BY <3>1, <3>2, <3>3 DEF RelayInv, Shaped, KeepAlives, TypeOK
  <2>2. EventsAlone /\ HeartbeatGoesOn
    BY DEF RelayInv, Beats, EventsAlone, HeartbeatGoesOn
  <2>3. RunawayStopped /\ EndIsTold
    BY DEF RelayInv, Shaped, Ways, RunawayStopped, EndIsTold
  <2> QED
    BY <2>1, <2>2, <2>3 DEF RelayInvariant
<1> QED
  BY <1>1, RelayAlways, PTL

\* Whenever the loop waits for the upstream, and when a message was completed, each fragment
\* of content that was read was written to the client exactly once.
THEOREM PiecesAreWrittenOnce == Spec => []EachPieceOnce
<1>1. RelayInv => EachPieceOnce
  BY AtRead DEF RelayInv, Ways, EachPieceOnce
<1> QED
  BY <1>1, RelayAlways, PTL

-----------------------------------------------------------------------------
(* Together, one message stream.                                           *)

LEMMA SameEvents ==
  /\ Promised!NoBlock = NoBlock /\ Promised!Kinds = Kinds /\ Promised!Payloads = Payloads
  /\ Promised!MessageStart = MessageStart /\ Promised!MessageDelta = MessageDelta
  /\ Promised!MessageStop = MessageStop /\ Promised!ErrorEvent = ErrorEvent
  /\ Promised!PingEvent = PingEvent
  /\ \A i, k, p : /\ Promised!BlockStart(i, k) = BlockStart(i, k)
                  /\ Promised!BlockDelta(i, k, p) = BlockDelta(i, k, p)
                  /\ Promised!BlockStop(i) = BlockStop(i)
  BY DEF Promised!NoBlock, Promised!Kinds, Promised!Payloads, Promised!Content,
         Promised!MessageStart, Promised!MessageDelta, Promised!MessageStop,
         Promised!ErrorEvent, Promised!PingEvent, Promised!BlockStart, Promised!BlockDelta,
         Promised!BlockStop, NoBlock, Kinds, Payloads, Content, MessageStart, MessageDelta,
         MessageStop, ErrorEvent, PingEvent, BlockStart, BlockDelta, BlockStop

LEMMA LegalIsPromised ==
  ASSUME client \in Clients, NEW e, Legal(client, e), client' = Hear(client, e)
  PROVE  Promised!Next
<1>1. CASE e = MessageStart /\ client.phase = "none"
  <2>1. Promised!Start
    BY <1>1, HearPlain, SameEvents DEF Promised!Start, Promised!Receive, Follows
  <2> QED
    BY <2>1 DEF Promised!Next
<1>2. CASE /\ client.phase = "started" /\ client.open = NoBlock
           /\ \E k \in Kinds : e = BlockStart(client.blocks, k)
  <2>1. PICK k \in Kinds : e = BlockStart(client.blocks, k)
    BY <1>2
  <2>2. client.blocks \in Nat
    BY DEF Clients
  <2>3. Promised!OpenBlock(k)
    BY <1>2, <2>1, <2>2, HearBlockStart, SameEvents
       DEF Promised!OpenBlock, Promised!Receive, Follows
  <2> QED
    BY <2>3, SameEvents DEF Promised!Next
<1>3. CASE /\ client.phase = "started" /\ client.open # NoBlock
           /\ \E p \in Payloads : e = BlockDelta(client.open.index, client.open.kind, p)
  <2>1. PICK p \in Payloads : e = BlockDelta(client.open.index, client.open.kind, p)
    BY <1>3
  <2>2. client.open.index \in Nat /\ client.open.kind \in Kinds
    BY <1>3 DEF Clients, Opens
  <2>3. /\ Follows(client', client, e) /\ client'.phase = client.phase
        /\ client'.blocks = client.blocks /\ client'.open = client.open
    BY <2>1, <2>2, HearBlockDelta
  <2>4. Promised!Delta(p)
    BY <1>3, <2>1, <2>3, SameEvents
       DEF Promised!Delta, Promised!Receive, Follows
  <2> QED
    BY <2>4, SameEvents DEF Promised!Next
<1>4. CASE /\ client.phase = "started" /\ client.open # NoBlock
           /\ e = BlockStop(client.open.index)
  <2>1. client.open.index \in Nat
    BY <1>4 DEF Clients, Opens
  <2>2. Promised!CloseBlock
    BY <1>4, <2>1, HearBlockStop, SameEvents
       DEF Promised!CloseBlock, Promised!Receive, Follows
  <2> QED
    BY <2>2 DEF Promised!Next
<1>5. CASE client.phase = "started" /\ client.open = NoBlock /\ e = MessageDelta
  <2>1. Promised!Finish
    BY <1>5, HearPlain, SameEvents DEF Promised!Finish, Promised!Receive, Follows
  <2> QED
    BY <2>1 DEF Promised!Next
<1>6. CASE client.phase = "finishing" /\ e = MessageStop
  <2>1. Promised!Stop
    BY <1>6, HearPlain, SameEvents DEF Promised!Stop, Promised!Receive, Follows
  <2> QED
    BY <2>1 DEF Promised!Next
<1>7. CASE e = ErrorEvent
  <2>1. Promised!Fail
    BY <1>7, HearPlain, SameEvents DEF Promised!Fail, Promised!Ended, Promised!Receive, Follows
  <2> QED
    BY <2>1 DEF Promised!Next
<1>8. CASE client.phase \in {"started", "finishing"} /\ e = PingEvent
  <2>1. Promised!Ping
    BY <1>8, HearPlain, SameEvents DEF Promised!Ping, Promised!Ended, Promised!Receive, Follows
  <2> QED
    BY <2>1 DEF Promised!Next
<1> QED
  BY <1>1, <1>2, <1>3, <1>4, <1>5, <1>6, <1>7, <1>8 DEF Legal

LEMMA StepImplements == RelayInv /\ [Next]_vars => [Promised!Next]_(Promised!vars)
<1> SUFFICES ASSUME RelayInv, [Next]_vars
             PROVE  Promised!Next \/ UNCHANGED Promised!vars
  OBVIOUS
<1>1. client \in Clients
  BY DEF RelayInv, Shaped
<1>2. CASE client' = client
  BY <1>2 DEF Promised!vars
<1>3. CASE WriteEvent
  <2>1. pc = "turn" /\ client' = Hear(client, Head(out))
    BY <1>3 DEF WriteEvent
  <2>2. Legal(client, Head(out))
    BY <2>1, TurnIsLegal
  <2> QED
    BY <1>1, <2>1, <2>2, LegalIsPromised
<1>4. CASE WriteError
  <2>1. client' = Hear(client, ErrorEvent) /\ Legal(client, ErrorEvent)
    BY <1>4 DEF WriteError, Legal
  <2> QED
    BY <1>1, <2>1, LegalIsPromised
<1>5. CASE Ping /\ client' # client
  <2>1. ka.timer /\ client' = Hear(client, PingEvent)
    BY <1>5 DEF Ping
  <2>2. client.phase \in {"started", "finishing"}
    BY <1>1, <2>1 DEF RelayInv, Beats, Living, Clients, Phases
  <2>3. Legal(client, PingEvent)
    BY <2>2 DEF Legal
  <2> QED
    BY <1>1, <2>1, <2>3, LegalIsPromised
<1> QED
  BY <1>2, <1>3, <1>4, <1>5
     DEF Next, vars, Loop, ReadChat, ReadResponses, ReadMessages, StreamEnds, StreamThrows,
         TakeEvent, EventWritten, NextChunk, ErrorWritten, PingWritten, Leave

\* Whatever the chunks of the upstream and wherever the pings fall, what the client receives
\* is a behaviour of one message stream.
THEOREM ChunksMakeOneStream == Spec => ImplementsStream
<1>1. Init => Promised!Init
  BY DEF Init, Promised!Init, NewClient, Promised!NoBlock, NoBlock, Promised!NoEvent
<1> QED
  BY <1>1, RelayAlways, StepImplements, PTL DEF Spec, ImplementsStream, Promised!Spec
=============================================================================
