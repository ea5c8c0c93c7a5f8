--------------------------- MODULE WebTools_proofs ---------------------------
(***************************************************************************)
(* For any number of turns, of blocks in a turn and of tools: results come *)
(* right after their calls, every billed turn is in the usage report, the  *)
(* conversation that goes back to the model is complete, the end is told,  *)
(* and what the client hears, turn after turn, is one message stream.      *)
(*                                                                         *)
(* None of it keeps itself.  An event is right if the client is where the  *)
(* loop believes it to be, so the invariant says where that is (Place):    *)
(* which block it has open, how many it saw, what it waits for.  While     *)
(* events are being written the client is behind: then the place is that   *)
(* of the client after those events, each of which it may be told          *)
(* (Awaits).                                                               *)
(***************************************************************************)
EXTENDS WebTools, SequenceTheorems, FiniteSetTheorems, TLAPS

-----------------------------------------------------------------------------
(* What a client knows, and how an event changes it.                       *)

\* The events of a stream, and the places a client can be in
Events ==
  {MessageStart, MessageDelta, MessageStop, ErrorEvent, PingEvent, [type |-> "none"]}
    \cup [type : {"content_block_start"}, index : Nat, kind : Kinds]
    \cup [type : {"content_block_delta"}, index : Nat, kind : Kinds, payload : Payloads]
    \cup [type : {"content_block_stop"}, index : Nat]

Opens == [index : Nat, kind : Kinds] \cup {NoBlock}

Clients ==
  [phase : Phases, blocks : Nat, open : Opens,
   blanks : Nat, last : Events, tick : BOOLEAN]

\* e is what a client at c may be told next.
Legal(c, e) ==
  \/ c.phase = "none" /\ e = MessageStart
  \/ c.phase = "started" /\ c.open = NoBlock /\ \E k \in Kinds : e = BlockStart(c.blocks, k)
  \/ /\ c.phase = "started" /\ c.open # NoBlock
     /\ \E p \in Payloads : e = BlockDelta(c.open.index, c.open.kind, p)
  \/ c.phase = "started" /\ c.open # NoBlock /\ e = BlockStop(c.open.index)
  \/ c.phase = "started" /\ c.open = NoBlock /\ e = MessageDelta
  \/ c.phase = "finishing" /\ e = MessageStop
  \/ c.phase \in {"none", "started", "finishing"} /\ e \in {ErrorEvent, PingEvent}

\* All of d but its phase, block and run of blanks is c after the event e.
Follows(d, c, e) == d \in Clients /\ d.last = e /\ d.tick = ~c.tick

LEMMA HearPhase ==
  ASSUME NEW c \in Clients, NEW e \in Events, NEW p \in Phases,
         \/ e.type = "message_start" /\ p = "started"
         \/ e.type = "message_delta" /\ p = "finishing"
         \/ e.type = "message_stop" /\ p = "stopped"
         \/ e.type = "error" /\ p = "failed"
         \/ e.type = "ping" /\ p = c.phase
  PROVE  /\ Follows(Hear(c, e), c, e)
         /\ Hear(c, e).phase = p
         /\ Hear(c, e).blocks = c.blocks /\ Hear(c, e).open = c.open
         /\ Hear(c, e).blanks = c.blanks
<1> DEFINE at == [c EXCEPT !.last = e, !.tick = ~@]
<1>1. Hear(c, e) = [at EXCEPT !.phase = p] \/ (Hear(c, e) = at /\ p = c.phase)
  <2>1. CASE e.type = "message_start"
    BY <2>1, Zenon DEF Hear
  <2>2. CASE e.type = "message_delta"
    BY <2>2, Zenon DEF Hear
  <2>3. CASE e.type = "message_stop"
    BY <2>3, Zenon DEF Hear
  <2>4. CASE e.type = "error"
    BY <2>4, Zenon DEF Hear
  <2>5. CASE e.type = "ping"
    BY <2>5, Zenon DEF Hear
  <2> QED
    BY <2>1, <2>2, <2>3, <2>4, <2>5
<1>2. at \in Clients /\ at.last = e /\ at.tick = ~c.tick /\ at.blocks = c.blocks
      /\ at.open = c.open /\ at.blanks = c.blanks /\ at.phase = c.phase
  BY DEF Clients
<1> QED
  BY <1>1, <1>2 DEF Follows, Clients

LEMMA HearBlockStart ==
  ASSUME NEW c \in Clients, NEW i \in Nat, NEW k \in Kinds
  PROVE  /\ BlockStart(i, k) \in Events
         /\ Follows(Hear(c, BlockStart(i, k)), c, BlockStart(i, k))
         /\ Hear(c, BlockStart(i, k)).phase = c.phase
         /\ Hear(c, BlockStart(i, k)).blocks = i + 1
         /\ Hear(c, BlockStart(i, k)).open = [index |-> i, kind |-> k]
         /\ Hear(c, BlockStart(i, k)).blanks = 0
<1> DEFINE e == BlockStart(i, k)
           at == [c EXCEPT !.last = e, !.tick = ~@]
<1>1. e \in Events /\ e.type = "content_block_start" /\ e.index = i /\ e.kind = k
  BY DEF Events, BlockStart
<1>2. Hear(c, e) = [at EXCEPT !.open = [index |-> e.index, kind |-> e.kind],
                              !.blocks = e.index + 1, !.blanks = 0]
  <2> HIDE DEF e
  <2> QED
    BY <1>1, Zenon DEF Hear
<1>3. at \in Clients /\ at.last = e /\ at.tick = ~c.tick /\ at.phase = c.phase
  BY <1>1 DEF Clients
<1>4. Hear(c, e) = [at EXCEPT !.open = [index |-> i, kind |-> k], !.blocks = i + 1, !.blanks = 0]
  BY <1>1, <1>2
<1> DEFINE o == [index |-> i, kind |-> k]
           n == i + 1
<1>5. o \in Opens /\ n \in Nat
  BY DEF Opens
<1> HIDE DEF e, at, o, n
<1>6. Hear(c, e) = [at EXCEPT !.open = o, !.blocks = n, !.blanks = 0]
  BY <1>4 DEF o, n
<1>7. Hear(c, e) = [phase |-> at.phase, blocks |-> n, open |-> o, blanks |-> 0,
                    last |-> at.last, tick |-> at.tick]
  BY <1>3, <1>6 DEF Clients
<1>8. Hear(c, e) \in Clients
  BY <1>3, <1>5, <1>7 DEF Clients
<1>9. /\ Hear(c, e).last = e /\ Hear(c, e).tick = ~c.tick /\ Hear(c, e).phase = c.phase
      /\ Hear(c, e).blocks = n /\ Hear(c, e).open = o /\ Hear(c, e).blanks = 0
  BY <1>3, <1>6 DEF Clients
<1> QED
  BY <1>1, <1>8, <1>9 DEF Follows, e, o, n

LEMMA HearBlockDelta ==
  ASSUME NEW c \in Clients, NEW i \in Nat, NEW k \in Kinds, NEW p \in Payloads
  PROVE  /\ BlockDelta(i, k, p) \in Events
         /\ Follows(Hear(c, BlockDelta(i, k, p)), c, BlockDelta(i, k, p))
         /\ Hear(c, BlockDelta(i, k, p)).phase = c.phase
         /\ Hear(c, BlockDelta(i, k, p)).blocks = c.blocks
         /\ Hear(c, BlockDelta(i, k, p)).open = c.open
         /\ Hear(c, BlockDelta(i, k, p)).blanks = IF p = "blank" THEN c.blanks + 1 ELSE 0
<1> DEFINE e == BlockDelta(i, k, p)
           at == [c EXCEPT !.last = e, !.tick = ~@]
<1>1. e \in Events /\ e.type = "content_block_delta" /\ e.payload = p
  BY DEF Events, BlockDelta
<1>2. Hear(c, e) = [at EXCEPT !.blanks = IF e.payload = "blank" THEN @ + 1 ELSE 0]
  <2> HIDE DEF e
  <2> QED
    BY <1>1, Zenon DEF Hear
<1>3. at \in Clients /\ at.last = e /\ at.tick = ~c.tick /\ at.blocks = c.blocks
      /\ at.open = c.open /\ at.blanks = c.blanks /\ at.phase = c.phase
  BY <1>1 DEF Clients
<1>4. Hear(c, e) = [at EXCEPT !.blanks = IF p = "blank" THEN @ + 1 ELSE 0]
  BY <1>1, <1>2
<1> HIDE DEF e, at
<1>5. /\ Follows(Hear(c, e), c, e) /\ Hear(c, e).phase = c.phase
      /\ Hear(c, e).blocks = c.blocks /\ Hear(c, e).open = c.open
      /\ Hear(c, e).blanks = IF p = "blank" THEN c.blanks + 1 ELSE 0
  BY <1>3, <1>4 DEF Follows, Clients
<1> QED
  BY <1>1, <1>5 DEF e

LEMMA HearBlockStop ==
  ASSUME NEW c \in Clients, NEW i \in Nat
  PROVE  /\ BlockStop(i) \in Events
         /\ Follows(Hear(c, BlockStop(i)), c, BlockStop(i))
         /\ Hear(c, BlockStop(i)).phase = c.phase
         /\ Hear(c, BlockStop(i)).blocks = c.blocks
         /\ Hear(c, BlockStop(i)).open = NoBlock
         /\ Hear(c, BlockStop(i)).blanks = c.blanks
<1> DEFINE e == BlockStop(i)
           at == [c EXCEPT !.last = e, !.tick = ~@]
<1>1. e \in Events /\ e.type = "content_block_stop"
  BY DEF Events, BlockStop
<1>2. Hear(c, e) = [at EXCEPT !.open = NoBlock]
  <2> HIDE DEF e
  <2> QED
    BY <1>1, Zenon DEF Hear
<1>3. at \in Clients /\ at.last = e /\ at.tick = ~c.tick /\ at.blocks = c.blocks
      /\ at.open = c.open /\ at.blanks = c.blanks /\ at.phase = c.phase
  BY <1>1 DEF Clients
<1> QED
  BY <1>1, <1>2, <1>3 DEF Follows, Clients, Opens

\* The plain events, one by one
LEMMA HearPlain ==
  ASSUME NEW c \in Clients
  PROVE  /\ {MessageStart, MessageDelta, MessageStop, ErrorEvent, PingEvent} \subseteq Events
         /\ \A e \in {MessageStart, MessageDelta, MessageStop, ErrorEvent, PingEvent} :
              /\ Follows(Hear(c, e), c, e)
              /\ Hear(c, e).blocks = c.blocks /\ Hear(c, e).open = c.open
              /\ Hear(c, e).blanks = c.blanks
         /\ Hear(c, MessageStart).phase = "started"
         /\ Hear(c, MessageDelta).phase = "finishing"
         /\ Hear(c, MessageStop).phase = "stopped"
         /\ Hear(c, ErrorEvent).phase = "failed"
         /\ Hear(c, PingEvent).phase = c.phase
<1>1. /\ {MessageStart, MessageDelta, MessageStop, ErrorEvent, PingEvent} \subseteq Events
      /\ MessageStart.type = "message_start" /\ MessageDelta.type = "message_delta"
      /\ MessageStop.type = "message_stop" /\ ErrorEvent.type = "error"
      /\ PingEvent.type = "ping"
  BY DEF Events, MessageStart, MessageDelta, MessageStop, ErrorEvent, PingEvent
<1>2. {"started", "finishing", "stopped", "failed", c.phase} \subseteq Phases
  BY DEF Phases, Clients
<1> QED
  BY <1>1, <1>2, HearPhase

LEMMA NewClientIsOne == NewClient \in Clients
  BY DEF NewClient, Clients, Phases, Events, Opens
-----------------------------------------------------------------------------
(* The inductive invariant.                                                *)

Turns ==
  [phase : Phases, blocks : 0 .. MaxBlocks,
   open : [index : Nat, kind : BlockKinds \cup {"none"}],
   stop : {"none", "tool_use", "end_turn"}]

Ghosts ==
  [billed : Nat, reported : Nat, asked : Nat, answered : Nat, ran : [Tools -> Nat],
   sent : [calls : SUBSET Nat, results : SUBSET Nat]]

Typed ==
  /\ TypeOK
  /\ up \in Turns
  /\ cursor \in Nat
  /\ remap \in [index : Nat, tool : Tools \cup {NoTool}]
  /\ usage \in Nat
  /\ final \in {<<>>, <<MessageDelta>>, <<MessageDelta, MessageStop>>}
  /\ client \in Clients
  /\ ghost \in Ghosts
  /\ pc = "call" => out = <<>>
  /\ pc # "done" => turn < MaxAgentTurns

\* Seen, when n turns of usage would be reported
Noted(g, e, n) ==
  CASE e.type = "message_delta" -> [g EXCEPT !.reported = n]
    [] e.type = "content_block_start" /\ e.kind = "server_tool_use" ->
         [g EXCEPT !.asked = @ + 1]
    [] e.type = "content_block_start" /\ e.kind = "web_tool_result" ->
         [g EXCEPT !.answered = @ + 1]
    [] OTHER -> g

\* What holds of a client and of what it saw, after every single event.
Good(c, g) ==
  /\ c \in Clients
  /\ g \in Ghosts
  /\ g.asked \in {g.answered, g.answered + 1}
  /\ c.phase \in {"finishing", "stopped"}
       \/ c.open.kind \in {"text", "thinking", "tool_use"}
       => g.answered = g.asked
  /\ c.phase \in {"finishing", "stopped"} => g.reported = g.billed
  /\ g.sent.calls = g.sent.results

\* A client between two blocks, all of whose blocks and turns are accounted for
Level(c, g) ==
  /\ c.open = NoBlock
  /\ c.blocks = cursor
  /\ usage = g.billed

NothingYet ==
  /\ final = <<>>
  /\ up.stop = "none"

\* The place of a client that has heard all there was to hear: where the loop is.
AtCall(c, g) == c.phase \in {"none", "started"} /\ Level(c, g) /\ g.asked = g.answered

AtTurnStart(c, g) ==
  /\ AtCall(c, g)
  /\ NothingYet /\ up.open = NoOpen /\ calls = {} /\ results = {}

AtBlock(c, g) ==
  /\ c.phase = "started" /\ c.blocks = cursor /\ usage = g.billed /\ NothingYet
  /\ calls = results
  /\ IF up.open = NoOpen
       THEN c.open = NoBlock /\ g.asked = g.answered
       ELSE /\ c.open = [index |-> remap.index, kind |-> ClientKind(up.open.kind)]
            /\ up.blocks > 0 /\ up.open.index = up.blocks - 1
            /\ up.open.kind \in BlockKinds
            /\ remap.tool = IF up.open.kind \in Tools THEN up.open.kind ELSE NoTool
            /\ up.blocks - 1 \notin results
            /\ g.asked = g.answered + IF up.open.kind \in Tools THEN 1 ELSE 0

AtTool(c, g) ==
  /\ c.phase = "started" /\ Level(c, g) /\ NothingYet
  /\ up.phase = "started" /\ up.open = NoOpen /\ up.blocks > 0
  /\ remap.tool \in Tools
  /\ calls = results \cup {up.blocks - 1}
  /\ g.asked = g.answered + 1

AtTurnEnd(c, g) ==
  /\ c.phase = "started" /\ c.open = NoBlock /\ c.blocks = cursor
  /\ usage + 1 = g.billed
  /\ calls = results
  /\ g.asked = g.answered
  /\ final = IF up.phase = "finishing" THEN <<MessageDelta>> ELSE <<MessageDelta, MessageStop>>

AtFailure(c, g) == c.phase = "failed" /\ NothingYet

Place(c, g) ==
  /\ pc = "call" => AtCall(c, g)
  /\ pc = "run" => AtTool(c, g)
  /\ pc = "read" =>
       /\ up.phase = "none" => AtTurnStart(c, g)
       /\ up.phase = "started" => AtBlock(c, g)
       /\ up.phase \in {"finishing", "stopped"} => AtTurnEnd(c, g)
       /\ up.phase = "failed" => AtFailure(c, g)
  /\ pc = "done" => Told(c) \/ up.phase \in {"none", "started", "finishing"}

Settled(c, g) == Good(c, g) /\ Place(c, g)

\* A client at c to whom only the event e is still to be written
Awaits(c, g, e) ==
  /\ Good(c, g)
  /\ Legal(c, e)
  /\ Settled(Hear(c, e), Noted(g, e, usage))

\* The client's place follows from the loop's and from what is being written.
Streamed ==
  mode = "stream" =>
    \/ out = <<>> /\ Settled(client, ghost)
    \/ out = <<out[1]>> /\ Awaits(client, ghost, out[1])
    \/ /\ out = <<out[1], out[2]>>
       /\ Good(client, ghost)
       /\ Legal(client, out[1])
       /\ Awaits(Hear(client, out[1]), Noted(ghost, out[1], usage), out[2])

\* A client that asked for a whole answer is told nothing on the way.
Collected ==
  mode = "whole" =>
    /\ out = <<>> /\ client = NewClient
    /\ ghost.asked = 0 /\ ghost.answered = 0
    /\ pc \in {"call", "read", "done"}
    /\ final = <<>>

IInv == Typed /\ Streamed /\ Collected

-----------------------------------------------------------------------------
(* What is noted of an event.                                              *)

LEMMA NotedIsSeen == ASSUME NEW g, NEW e PROVE Seen(g, e) = Noted(g, e, usage)
  BY Zenon DEF Seen, Noted

LEMMA NotedPlain ==
  ASSUME NEW g, NEW e, NEW n, e.type # "message_delta", e.type # "content_block_start"
  PROVE  Noted(g, e, n) = g
  BY Zenon DEF Noted

LEMMA NotedEnd ==
  ASSUME NEW g, NEW e, NEW n, e.type = "message_delta"
  PROVE  Noted(g, e, n) = [g EXCEPT !.reported = n]
  BY Zenon DEF Noted

LEMMA NotedCall ==
  ASSUME NEW g, NEW e, NEW n, e.type = "content_block_start", e.kind = "server_tool_use"
  PROVE  Noted(g, e, n) = [g EXCEPT !.asked = @ + 1]
  BY Zenon DEF Noted

LEMMA NotedResult ==
  ASSUME NEW g, NEW e, NEW n, e.type = "content_block_start", e.kind = "web_tool_result"
  PROVE  Noted(g, e, n) = [g EXCEPT !.answered = @ + 1]
  BY Zenon DEF Noted

LEMMA NotedBlock ==
  ASSUME NEW g, NEW e, NEW n, e.kind # "server_tool_use", e.kind # "web_tool_result",
         e.type = "content_block_start"
  PROVE  Noted(g, e, n) = g
  BY Zenon DEF Noted

-----------------------------------------------------------------------------
(* Telling the client one event, and what is noted of it.                  *)

\* The events by which nothing is asked, answered or reported
LEMMA TellPlain ==
  ASSUME NEW c, NEW g, NEW n, Good(c, g),
         NEW e \in {MessageStart, MessageStop, ErrorEvent, PingEvent},
         e = MessageStop => c.phase = "finishing",
         e \in {ErrorEvent, PingEvent} => c.phase \in {"none", "started", "finishing"},
         e = MessageStart => c.phase = "none"
  PROVE  /\ Legal(c, e)
         /\ Noted(g, e, n) = g
         /\ Good(Hear(c, e), g)
         /\ Hear(c, e).open = c.open /\ Hear(c, e).blocks = c.blocks
         /\ Hear(c, MessageStart).phase = "started" /\ Hear(c, MessageStop).phase = "stopped"
         /\ Hear(c, ErrorEvent).phase = "failed" /\ Hear(c, PingEvent).phase = c.phase
<1>1. c \in Clients
  BY DEF Good
<1>2. /\ Follows(Hear(c, e), c, e) /\ Hear(c, e).open = c.open /\ Hear(c, e).blocks = c.blocks
      /\ Hear(c, MessageStart).phase = "started" /\ Hear(c, MessageStop).phase = "stopped"
      /\ Hear(c, ErrorEvent).phase = "failed" /\ Hear(c, PingEvent).phase = c.phase
  BY <1>1, HearPlain
<1>3. e.type # "message_delta" /\ e.type # "content_block_start"
  BY DEF MessageStart, MessageStop, ErrorEvent, PingEvent
<1>4. Noted(g, e, n) = g
  BY <1>3, NotedPlain
<1>5. Legal(c, e)
  BY DEF Legal
<1>6. Hear(c, e).phase \in {"finishing", "stopped"} => c.phase \in {"finishing", "stopped"}
  BY <1>2
<1>7. Good(Hear(c, e), g)
  BY <1>2, <1>6 DEF Good, Follows
<1> QED
  BY <1>2, <1>4, <1>5, <1>7

LEMMA TellEnd ==
  ASSUME NEW c, NEW g, NEW n \in Nat, Good(c, g),
         c.phase = "started", c.open = NoBlock, g.asked = g.answered, g.billed = n
  PROVE  /\ Legal(c, MessageDelta)
         /\ Good(Hear(c, MessageDelta), Noted(g, MessageDelta, n))
         /\ Hear(c, MessageDelta).phase = "finishing"
<1>1. c \in Clients /\ g \in Ghosts
  BY DEF Good
<1>2. /\ Follows(Hear(c, MessageDelta), c, MessageDelta)
      /\ Hear(c, MessageDelta).phase = "finishing" /\ Hear(c, MessageDelta).open = c.open
  BY <1>1, HearPlain
<1>3. Noted(g, MessageDelta, n) = [g EXCEPT !.reported = n]
  <2>1. MessageDelta.type = "message_delta"
    BY DEF MessageDelta
  <2> QED
    BY <2>1, NotedEnd
<1>4. Legal(c, MessageDelta)
  BY DEF Legal
<1>5. [g EXCEPT !.reported = n] \in Ghosts
  BY <1>1 DEF Ghosts
<1>6. /\ [g EXCEPT !.reported = n].reported = n /\ [g EXCEPT !.reported = n].billed = g.billed
      /\ [g EXCEPT !.reported = n].asked = g.asked
      /\ [g EXCEPT !.reported = n].sent = g.sent
      /\ [g EXCEPT !.reported = n].answered = g.answered
      /\ g.asked \in Nat
  BY <1>1 DEF Ghosts
<1>7. Good(Hear(c, MessageDelta), [g EXCEPT !.reported = n])
  BY <1>2, <1>5, <1>6 DEF Good, Follows
<1> QED
  BY <1>2, <1>3, <1>4, <1>7

LEMMA TellBlockStart ==
  ASSUME NEW c, NEW g, NEW n, NEW k \in Kinds, Good(c, g),
         c.phase = "started", c.open = NoBlock,
         k = "web_tool_result" => g.asked = g.answered + 1,
         k # "web_tool_result" => g.asked = g.answered
  PROVE  LET e == BlockStart(c.blocks, k)
             h == Noted(g, e, n)
         IN  /\ Legal(c, e)
             /\ Good(Hear(c, e), h)
             /\ Hear(c, e).phase = "started" /\ Hear(c, e).blocks = c.blocks + 1
             /\ Hear(c, e).open = [index |-> c.blocks, kind |-> k]
             /\ h.asked = h.answered + IF k = "server_tool_use" THEN 1 ELSE 0
             /\ h.billed = g.billed
<1> DEFINE e == BlockStart(c.blocks, k)
           h == Noted(g, e, n)
<1>1. c \in Clients /\ g \in Ghosts /\ c.blocks \in Nat
  BY DEF Good, Clients
<1>2. /\ Follows(Hear(c, e), c, e) /\ Hear(c, e).phase = "started"
      /\ Hear(c, e).blocks = c.blocks + 1
      /\ Hear(c, e).open = [index |-> c.blocks, kind |-> k]
  BY <1>1, HearBlockStart
<1>3. Legal(c, e)
  BY DEF Legal
<1>4. e.type = "content_block_start" /\ e.kind = k
  BY DEF BlockStart
<1>5. h = IF k = "server_tool_use" THEN [g EXCEPT !.asked = @ + 1]
          ELSE IF k = "web_tool_result" THEN [g EXCEPT !.answered = @ + 1] ELSE g
  BY <1>4, NotedCall, NotedResult, NotedBlock
<1> HIDE DEF e, h
<1>6. /\ h \in Ghosts /\ h.billed = g.billed /\ h.reported = g.reported /\ h.sent = g.sent
      /\ h.asked = h.answered + IF k = "server_tool_use" THEN 1 ELSE 0
      /\ h.asked \in Nat /\ h.answered \in Nat
  BY <1>1, <1>5 DEF Ghosts
<1>7. Hear(c, e).open.kind = k
  BY <1>2
<1>8. Good(Hear(c, e), h)
  BY <1>2, <1>6, <1>7 DEF Good, Follows
<1> QED
  BY <1>2, <1>3, <1>6, <1>8 DEF e, h

LEMMA TellBlockDelta ==
  ASSUME NEW c, NEW g, NEW n, NEW i \in Nat, NEW k \in Kinds, NEW p \in Payloads, Good(c, g),
         c.phase = "started", c.open = [index |-> i, kind |-> k], c.open # NoBlock
  PROVE  LET e == BlockDelta(i, k, p)
         IN  /\ Legal(c, e)
             /\ Good(Hear(c, e), g)
             /\ Noted(g, e, n) = g
             /\ Hear(c, e).phase = "started" /\ Hear(c, e).blocks = c.blocks
             /\ Hear(c, e).open = c.open
<1> DEFINE e == BlockDelta(i, k, p)
<1>1. c \in Clients
  BY DEF Good
<1>2. /\ Follows(Hear(c, e), c, e) /\ Hear(c, e).phase = "started"
      /\ Hear(c, e).blocks = c.blocks /\ Hear(c, e).open = c.open
  BY <1>1, HearBlockDelta
<1>3. Legal(c, e)
  BY DEF Legal
<1>4. e.type # "message_delta" /\ e.type # "content_block_start"
  BY DEF BlockDelta
<1>5. Noted(g, e, n) = g
  BY <1>4, NotedPlain
<1> HIDE DEF e
<1>6. Good(Hear(c, e), g)
  BY <1>2 DEF Good, Follows
<1> QED
  BY <1>2, <1>3, <1>5, <1>6 DEF e

LEMMA TellBlockStop ==
  ASSUME NEW c, NEW g, NEW n, Good(c, g), c.phase = "started", c.open # NoBlock
  PROVE  LET e == BlockStop(c.open.index)
         IN  /\ Legal(c, e)
             /\ Good(Hear(c, e), g)
             /\ Noted(g, e, n) = g
             /\ Hear(c, e).phase = "started" /\ Hear(c, e).blocks = c.blocks
             /\ Hear(c, e).open = NoBlock
<1> DEFINE e == BlockStop(c.open.index)
<1>1. c \in Clients /\ c.open.index \in Nat
  BY DEF Good, Clients, Opens
<1>2. /\ Follows(Hear(c, e), c, e) /\ Hear(c, e).phase = "started"
      /\ Hear(c, e).blocks = c.blocks /\ Hear(c, e).open = NoBlock
  BY <1>1, HearBlockStop
<1>3. Legal(c, e)
  BY DEF Legal
<1>4. e.type # "message_delta" /\ e.type # "content_block_start"
  BY DEF BlockStop
<1>5. Noted(g, e, n) = g
  BY <1>4, NotedPlain
<1>6. NoBlock.kind = "none"
  BY DEF NoBlock
<1> HIDE DEF e
<1>7. Good(Hear(c, e), g)
  BY <1>2, <1>6 DEF Good, Follows
<1> QED
  BY <1>2, <1>3, <1>5, <1>7 DEF e

-----------------------------------------------------------------------------
(* The steps.                                                              *)

\* The modes are two.
LEMMA OneMode == ASSUME Typed PROVE mode \in {"stream", "whole"}
  BY WebToolsAssumption DEF Typed, TypeOK

\* What a settled client needs for the invariant, once the loop is at rest
LEMMA SettledStep ==
  ASSUME mode' = "stream", out' = <<>>, Settled(client, ghost)'
  PROVE  Streamed' /\ Collected'
  BY DEF Streamed, Collected

LEMMA AwaitsStep ==
  ASSUME mode' = "stream", NEW e, out' = <<e>>, Awaits(client, ghost, e)'
  PROVE  Streamed' /\ Collected'
<1>1. out'[1] = e /\ out' = <<out'[1]>>
  OBVIOUS
<1> QED
  BY <1>1 DEF Streamed, Collected

LEMMA AppendTwo == ASSUME NEW a, NEW b PROVE Append(<<a>>, b) = <<a, b>>
<1>1. /\ Len(Append(<<a>>, b)) = 2 /\ Append(<<a>>, b)[1] = a /\ Append(<<a>>, b)[2] = b
      /\ Len(<<a, b>>) = 2 /\ <<a, b>>[1] = a /\ <<a, b>>[2] = b
  OBVIOUS
<1>2. Append(<<a>>, b) \in Seq({a, b}) /\ <<a, b>> \in Seq({a, b})
  OBVIOUS
<1>3. \A i \in 1 .. 2 : Append(<<a>>, b)[i] = <<a, b>>[i]
  <2> SUFFICES ASSUME NEW i \in 1 .. 2
               PROVE  Append(<<a>>, b)[i] = <<a, b>>[i]
    OBVIOUS
  <2>1. i = 1 \/ i = 2
    OBVIOUS
  <2> QED
    BY <1>1, <2>1, Zenon
<1> QED
  BY <1>1, <1>2, <1>3, SeqEqual

LEMMA Tails ==
  /\ \A e : Tail(<<e>>) = <<>>
  /\ \A e, f : Tail(<<e, f>>) = <<f>>
  OBVIOUS

\* The plain events are five.
LEMMA Distinct ==
  /\ MessageStart # MessageStop /\ MessageStart # PingEvent /\ MessageStart # ErrorEvent
  /\ MessageStop # PingEvent /\ MessageStop # ErrorEvent /\ PingEvent # ErrorEvent
  BY DEF MessageStart, MessageStop, PingEvent, ErrorEvent

LEMMA WriteStep ==
  ASSUME IInv, Write
  PROVE  IInv'
<1>1. mode = "stream" /\ mode' = "stream"
  BY OneMode DEF IInv, Collected, Write
<1>2. client' = Hear(client, out[1]) /\ ghost' = Noted(ghost, out[1], usage)
  BY NotedIsSeen DEF Write
<1>3. UNCHANGED <<mode, active, uses, turn, pc, up, cursor, remap, calls, results, final, usage>>
  BY DEF Write
<1>4. \A c, g : Place(c, g)' = Place(c, g)
  BY <1>3 DEF Place, AtCall, AtTool, AtTurnStart, AtBlock, AtTurnEnd, AtFailure, Level,
              NothingYet
<1>5. Streamed' /\ Good(client', ghost')
  <2>1. CASE out = <<out[1]>> /\ Awaits(client, ghost, out[1])
    <3>1. out' = <<>>
      BY <2>1, Tails, Zenon DEF Write
    <3> QED
      BY <1>2, <1>4, <2>1, <3>1 DEF Streamed, Awaits, Settled
  <2>2. CASE /\ out = <<out[1], out[2]>>
             /\ Awaits(Hear(client, out[1]), Noted(ghost, out[1], usage), out[2])
    <3>1. out' = <<out[2]>>
      BY <2>2, Tails, Zenon DEF Write
    <3>2. out'[1] = out[2] /\ out' = <<out'[1]>>
      BY <3>1
    <3> QED
      BY <1>2, <1>3, <1>4, <2>2, <3>2 DEF Streamed, Awaits, Settled
  <2> QED
    BY <1>1, <2>1, <2>2 DEF IInv, Streamed, Write
<1>6. Typed'
  <2>1. client' \in Clients /\ ghost' \in Ghosts /\ client'.phase \in Phases
    BY <1>5 DEF Good, Clients
  <2>2. pc # "call"
    BY DEF IInv, Typed, Write
  <2> QED
    BY <1>3, <2>1, <2>2 DEF IInv, Typed, TypeOK
<1> QED
  BY <1>1, <1>5, <1>6 DEF IInv, Collected

LEMMA HeartbeatStep ==
  ASSUME IInv, Heartbeat
  PROVE  IInv'
<1> DEFINE c == Hear(client, PingEvent)
<1>1. UNCHANGED <<mode, active, uses, turn, pc, up, cursor, remap, calls, results, final,
                  usage, out, ghost>> /\ client' = c /\ mode = "stream" /\ out = <<>>
      /\ pc \in {"call", "run"}
  BY DEF Heartbeat
<1>2. Good(client, ghost) /\ Place(client, ghost)
  BY <1>1 DEF IInv, Streamed, Settled
<1>3. client.phase \in {"none", "started"} /\ client.phase # "none"
  BY <1>1, <1>2 DEF Place, AtCall, AtTool, Heartbeat, HeartbeatOn
<1>4. Good(c, ghost) /\ c.open = client.open /\ c.blocks = client.blocks /\ c.phase = client.phase
  BY <1>2, <1>3, TellPlain, Distinct
<1> HIDE DEF c
<1>5. Place(c, ghost)
  BY <1>1, <1>2, <1>4 DEF Place, AtCall, AtTool, Level
<1>6. Settled(client, ghost)'
  BY <1>1, <1>4, <1>5
     DEF Settled, Place, AtCall, AtTool, AtTurnStart, AtBlock, AtTurnEnd, AtFailure, Level,
         NothingYet
<1>7. Typed'
  <2>1. c \in Clients /\ c.phase \in Phases
    BY <1>4 DEF Good, Clients
  <2> QED
    BY <1>1, <2>1 DEF IInv, Typed, TypeOK
<1> QED
  BY <1>1, <1>6, <1>7, SettledStep DEF IInv

LEMMA CallUpstreamStep ==
  ASSUME IInv, CallUpstream
  PROVE  IInv'
<1>1. /\ UNCHANGED <<mode, active, uses, turn, cursor, usage, out, client, ghost>>
      /\ pc = "call" /\ pc' = "read" /\ up' = FreshTurn /\ remap' = Unmapped
      /\ calls' = {} /\ results' = {} /\ final' = <<>> /\ out = <<>>
  BY DEF CallUpstream, FreshOutcomes, IInv, Typed
<1>2. FreshTurn \in Turns /\ FreshTurn.phase = "none" /\ FreshTurn.stop = "none"
      /\ FreshTurn.open = NoOpen /\ FreshTurn.blocks = 0 /\ FreshTurn.phase \in Phases
  BY WebToolsAssumption DEF FreshTurn, Turns, NoOpen, Phases
<1>3. Unmapped \in [index : Nat, tool : Tools \cup {NoTool}] /\ Unmapped.index = 0
  BY DEF Unmapped
<1>4. Typed'
  BY <1>1, <1>2, <1>3, WebToolsAssumption DEF IInv, Typed, TypeOK
<1>5. CASE mode = "stream"
  <2>1. Good(client, ghost) /\ AtCall(client, ghost)
    BY <1>1, <1>5 DEF IInv, Streamed, Settled, Place
  <2>2. Settled(client, ghost)'
    BY <1>1, <1>2, <2>1 DEF Settled, Place, AtCall, AtTurnStart, Level, NothingYet
  <2> QED
    BY <1>1, <1>4, <1>5, <2>2, SettledStep DEF IInv
<1>6. CASE mode = "whole"
  BY <1>1, <1>4, <1>6 DEF IInv, Streamed, Collected
<1> QED
  BY <1>5, <1>6, OneMode DEF IInv

\* What the loop knows of the client while it reads the upstream's stream
LEMMA AtRest ==
  ASSUME IInv, mode = "stream", out = <<>>
  PROVE  /\ Good(client, ghost) /\ client \in Clients /\ ghost \in Ghosts
         /\ pc = "call" => AtCall(client, ghost)
         /\ pc = "run" => AtTool(client, ghost)
         /\ pc = "read" =>
              /\ up.phase = "none" => AtTurnStart(client, ghost)
              /\ up.phase = "started" => AtBlock(client, ghost)
              /\ up.phase \in {"finishing", "stopped"} => AtTurnEnd(client, ghost)
              /\ up.phase = "failed" => AtFailure(client, ghost)
  BY DEF IInv, Streamed, Settled, Place, Good

\* An event that leaves the ghost alone, for a client that is told nothing else
LEMMA TellStep ==
  ASSUME mode' = "stream", NEW e, out' = <<e>>, Good(client', ghost'), Legal(client', e),
         Noted(ghost', e, usage') = ghost', Good(Hear(client', e), ghost'),
         Place(Hear(client, e), ghost)'
  PROVE  Streamed' /\ Collected'
<1>1. Settled(Hear(client, e), Noted(ghost, e, usage))'
  BY DEF Settled, Place, AtCall, AtTool, AtTurnStart, AtBlock, AtTurnEnd, AtFailure, Level,
         NothingYet
<1> QED
  BY <1>1, AwaitsStep DEF Awaits

LEMMA ReadMessageStartStep ==
  ASSUME IInv, ReadMessageStart
  PROVE  IInv'
<1>1. /\ UNCHANGED <<mode, active, uses, turn, pc, cursor, remap, calls, results, final, usage,
                     client, ghost>>
      /\ mode = "stream" /\ pc = "read" /\ out = <<>> /\ up.phase = "none"
      /\ up' = [up EXCEPT !.phase = "started"]
      /\ out' = IF client.phase = "none" THEN <<MessageStart>> ELSE <<>>
  BY DEF ReadMessageStart, Reading, OnlyMessageStart
<1>2. Good(client, ghost) /\ AtTurnStart(client, ghost)
  BY <1>1, AtRest
<1>3. up' \in Turns /\ up'.phase = "started" /\ up'.stop = up.stop /\ up'.open = up.open
      /\ up'.blocks = up.blocks /\ "started" \in Phases
  BY <1>1 DEF IInv, Typed, Turns, Phases
<1>4. Typed'
  BY <1>1, <1>3 DEF IInv, Typed, TypeOK
<1>5. CASE client.phase # "none"
  <2>1. client.phase = "started" /\ out' = <<>>
    BY <1>1, <1>2, <1>5 DEF AtTurnStart, AtCall
  <2>2. Settled(client, ghost)'
    BY <1>1, <1>2, <1>3, <2>1 DEF Settled, Place, AtTurnStart, AtCall, AtBlock, Level, NothingYet
  <2> QED
    BY <1>1, <1>4, <2>1, <2>2, SettledStep DEF IInv
<1>6. CASE client.phase = "none"
  <2> DEFINE c == Hear(client, MessageStart)
  <2>1. /\ Legal(client, MessageStart) /\ Noted(ghost, MessageStart, usage') = ghost
        /\ Good(c, ghost) /\ c.open = client.open /\ c.blocks = client.blocks
        /\ c.phase = "started"
    BY <1>2, <1>6, TellPlain, Distinct
  <2> HIDE DEF c
  <2>2. Place(Hear(client, MessageStart), ghost)'
    <3>1. Hear(client', MessageStart) = c /\ ghost' = ghost
      BY <1>1 DEF c
    <3> QED
      BY <1>1, <1>2, <1>3, <2>1, <3>1
         DEF Place, AtTurnStart, AtCall, AtBlock, Level, NothingYet
  <2> QED
    BY <1>1, <1>2, <1>4, <1>6, <2>1, <2>2, TellStep DEF IInv, c
<1> QED
  BY <1>5, <1>6

LEMMA ReadBlockStartStep ==
  ASSUME IInv, ReadBlockStart
  PROVE  IInv'
<1>1. PICK kind \in BlockKinds :
        /\ up' = [up EXCEPT !.blocks = @ + 1, !.open = [index |-> up.blocks, kind |-> kind]]
        /\ remap' = [index |-> cursor, tool |-> IF kind \in Tools THEN kind ELSE NoTool]
        /\ out' = <<BlockStart(cursor, ClientKind(kind))>>
  BY DEF ReadBlockStart
<1>2. /\ UNCHANGED <<mode, active, uses, turn, pc, calls, results, final, usage, client, ghost>>
      /\ mode = "stream" /\ pc = "read" /\ out = <<>> /\ up.phase = "started" /\ up.open = NoOpen
      /\ up.blocks < MaxBlocks /\ cursor' = cursor + 1
  BY DEF ReadBlockStart, Reading
<1>3. Good(client, ghost) /\ AtBlock(client, ghost)
  BY <1>2, AtRest
<1> DEFINE k == ClientKind(kind)
           o == [index |-> up.blocks, kind |-> kind]
<1> PICK e : e = BlockStart(cursor, k)
  OBVIOUS
<1>4. k \in Kinds /\ k # "web_tool_result" /\ (k = "server_tool_use" <=> kind \in Tools)
      /\ kind # "none"
  BY WebToolsAssumption DEF BlockKinds, Kinds, ClientKind
<1>5. /\ Legal(client, e) /\ Good(Hear(client, e), Noted(ghost, e, usage))
      /\ Hear(client, e).phase = "started" /\ Hear(client, e).blocks = cursor + 1
      /\ Hear(client, e).open = [index |-> cursor, kind |-> k]
      /\ Noted(ghost, e, usage).asked =
           Noted(ghost, e, usage).answered + IF kind \in Tools THEN 1 ELSE 0
      /\ Noted(ghost, e, usage).billed = ghost.billed
  <2>1. client.blocks = cursor /\ client.phase = "started" /\ client.open = NoBlock
        /\ ghost.asked = ghost.answered
    BY <1>2, <1>3 DEF AtBlock
  <2>2. e = BlockStart(client.blocks, k)
    BY <2>1
  <2> HIDE DEF k
  <2> QED
    BY <1>3, <1>4, <2>1, <2>2, TellBlockStart
<1>6. /\ up \in Turns /\ cursor \in Nat /\ up.blocks \in Nat /\ o \in [index : Nat, kind : BlockKinds \cup {"none"}]
      /\ up.blocks + 1 \in 0 .. MaxBlocks
  BY <1>2, WebToolsAssumption DEF IInv, Typed, Turns
<1> HIDE DEF o
<1>7. /\ up' \in Turns /\ up'.phase = "started" /\ up'.stop = up.stop /\ up'.open = o
      /\ up'.blocks = up.blocks + 1
  <2>1. up' = [up EXCEPT !.blocks = @ + 1, !.open = o]
    BY <1>1 DEF o
  <2> QED
    BY <1>2, <1>6, <2>1 DEF Turns
<1>8. o # NoOpen /\ o.index = up.blocks /\ o.kind = kind
  BY <1>4 DEF NoOpen, o
<1>9. remap' \in [index : Nat, tool : Tools \cup {NoTool}] /\ remap'.index = cursor
      /\ remap'.tool = IF kind \in Tools THEN kind ELSE NoTool
  BY <1>1, <1>6
<1>10. Typed'
  <2>1. up'.phase \in Phases /\ up'.blocks \in 0 .. MaxBlocks
    BY <1>7 DEF Turns
  <2>2. cursor' \in Nat /\ remap'.index \in 0 .. cursor'
    BY <1>2, <1>6, <1>9
  <2>3. calls \cup results \subseteq 0 .. up'.blocks - 1
    BY <1>6, <1>7 DEF IInv, Typed, TypeOK
  <2> QED
    BY <1>2, <1>7, <1>9, <2>1, <2>2, <2>3 DEF IInv, Typed, TypeOK
<1>11. up.blocks \notin results
  BY <1>6 DEF IInv, Typed, TypeOK
<1> HIDE DEF k
<1>12. Place(Hear(client, e), Noted(ghost, e, usage))'
  <2> DEFINE c == Hear(client, e)
             g == Noted(ghost, e, usage)
  <2>1. Hear(client', e) = c /\ Noted(ghost', e, usage') = g
    BY <1>2
  <2>2. c.open = [index |-> remap'.index, kind |-> ClientKind(up'.open.kind)]
    BY <1>5, <1>7, <1>8, <1>9 DEF k
  <2> HIDE DEF c, g
  <2>3. AtBlock(Hear(client, e), Noted(ghost, e, usage))'
    <3>1. c.phase = "started" /\ c.blocks = cursor' /\ usage' = g.billed /\ final' = <<>>
          /\ up'.stop = "none" /\ calls' = results'
      BY <1>2, <1>3, <1>5, <1>7 DEF AtBlock, NothingYet, c, g
    <3>2. /\ up'.open # NoOpen /\ up'.blocks > 0 /\ up'.open.index = up'.blocks - 1
          /\ up'.open.kind \in BlockKinds /\ up'.blocks - 1 \notin results'
      BY <1>2, <1>6, <1>7, <1>8, <1>11
    <3>3. /\ remap'.tool = IF up'.open.kind \in Tools THEN up'.open.kind ELSE NoTool
          /\ g.asked = g.answered + IF up'.open.kind \in Tools THEN 1 ELSE 0
      BY <1>5, <1>7, <1>8, <1>9 DEF g
    <3> QED
      BY <2>1, <2>2, <3>1, <3>2, <3>3 DEF AtBlock, NothingYet
  <2> QED
    BY <1>2, <1>7, <2>3 DEF Place
<1>13. Awaits(client, ghost, e)'
  BY <1>2, <1>3, <1>5, <1>12 DEF Awaits, Settled
<1> QED
  BY <1>1, <1>2, <1>10, <1>13, AwaitsStep DEF IInv, k

LEMMA ReadBlockDeltaStep ==
  ASSUME IInv, ReadBlockDelta
  PROVE  IInv'
<1>1. /\ UNCHANGED <<mode, active, uses, turn, pc, up, cursor, remap, calls, results, final,
                     usage, client, ghost>>
      /\ mode = "stream" /\ pc = "read" /\ out = <<>> /\ up.phase = "started" /\ up.open # NoOpen
      /\ out' = <<BlockDelta(remap.index, ClientKind(up.open.kind), "piece")>>
  BY DEF ReadBlockDelta, Reading, Remapped
<1>2. Good(client, ghost) /\ AtBlock(client, ghost)
  BY <1>1, AtRest
<1> PICK e : e = BlockDelta(remap.index, ClientKind(up.open.kind), "piece")
  OBVIOUS
<1>3. remap.index \in Nat /\ ClientKind(up.open.kind) \in Kinds /\ "piece" \in Payloads
      /\ ClientKind(up.open.kind) # "none"
  BY <1>1, <1>2 DEF AtBlock, IInv, Typed, ClientKind, BlockKinds, Kinds, Payloads, Content
<1> DEFINE k == ClientKind(up.open.kind)
<1>4. client.phase = "started" /\ client.open = [index |-> remap.index, kind |-> k]
  BY <1>1, <1>2 DEF AtBlock
<1>5. client.open # NoBlock
  BY <1>3, <1>4 DEF NoBlock
<1>6. /\ Legal(client, e) /\ Good(Hear(client, e), ghost) /\ Noted(ghost, e, usage) = ghost
      /\ Hear(client, e).phase = "started" /\ Hear(client, e).blocks = client.blocks
      /\ Hear(client, e).open = client.open
  <2>1. k \in Kinds /\ e = BlockDelta(remap.index, k, "piece")
    BY <1>3
  <2> HIDE DEF k
  <2> QED
    BY <1>2, <1>3, <1>4, <1>5, <2>1, TellBlockDelta
<1>7. Place(Hear(client, e), ghost)'
  <2>1. Hear(client', e) = Hear(client, e)
    BY <1>1
  <2> QED
    BY <1>1, <1>2, <1>6, <2>1 DEF Place, AtBlock, NothingYet
<1>8. Typed'
  BY <1>1 DEF IInv, Typed, TypeOK
<1> QED
  BY <1>1, <1>2, <1>6, <1>7, <1>8, TellStep DEF IInv

LEMMA ReadBlockStopStep ==
  ASSUME IInv, ReadBlockStop
  PROVE  IInv'
<1>1. /\ UNCHANGED <<mode, active, uses, turn, cursor, remap, results, final, usage, client, ghost>>
      /\ mode = "stream" /\ pc = "read" /\ out = <<>> /\ up.phase = "started" /\ up.open # NoOpen
      /\ up' = [up EXCEPT !.open = NoOpen]
      /\ out' = <<BlockStop(remap.index)>>
      /\ calls' = calls \cup IF up.open.kind \in Tools THEN {up.open.index} ELSE {}
      /\ pc' = IF remap.tool # NoTool THEN "run" ELSE "read"
  BY DEF ReadBlockStop, Reading, Remapped, KeptCall
<1>2. Good(client, ghost) /\ AtBlock(client, ghost)
  BY <1>1, AtRest
<1>3. /\ client.phase = "started" /\ client.blocks = cursor /\ usage = ghost.billed /\ NothingYet
      /\ client.open = [index |-> remap.index, kind |-> ClientKind(up.open.kind)]
      /\ up.blocks > 0 /\ up.open.index = up.blocks - 1 /\ up.open.kind \in BlockKinds
      /\ remap.tool = IF up.open.kind \in Tools THEN up.open.kind ELSE NoTool
      /\ up.blocks - 1 \notin results
      /\ calls = results
      /\ ghost.asked = ghost.answered + IF up.open.kind \in Tools THEN 1 ELSE 0
  BY <1>1, <1>2 DEF AtBlock
<1>4. client.open # NoBlock /\ client.open.index = remap.index
  BY <1>3, WebToolsAssumption DEF NoBlock, ClientKind, BlockKinds
<1> PICK e : e = BlockStop(client.open.index)
  OBVIOUS
<1>5. /\ Legal(client, e) /\ Good(Hear(client, e), ghost) /\ Noted(ghost, e, usage) = ghost
      /\ Hear(client, e).phase = "started" /\ Hear(client, e).blocks = client.blocks
      /\ Hear(client, e).open = NoBlock
  BY <1>2, <1>3, <1>4, TellBlockStop
<1>6. /\ up' \in Turns /\ up'.phase = up.phase /\ up'.stop = up.stop /\ up'.blocks = up.blocks
      /\ up'.open = NoOpen
  BY <1>1 DEF IInv, Typed, Turns, NoOpen
<1>7. remap.tool # NoTool <=> up.open.kind \in Tools
  BY <1>3, WebToolsAssumption
<1>8. Place(Hear(client, e), ghost)'
  <2> DEFINE c == Hear(client, e)
  <2>1. Hear(client', e) = c
    BY <1>1
  <2>2. c.phase = "started" /\ c.blocks = cursor /\ c.open = NoBlock
    BY <1>3, <1>5
  <2> HIDE DEF c
  <2>3. CASE up.open.kind \in Tools
    <3>1. pc' = "run" /\ calls' = results' \cup {up'.blocks - 1} /\ remap'.tool \in Tools
      BY <1>1, <1>3, <1>6, <1>7, <2>3
    <3>2. AtTool(Hear(client, e), ghost)'
      BY <1>1, <1>3, <1>6, <2>1, <2>2, <2>3, <3>1 DEF AtTool, Level, NothingYet
    <3> QED
      BY <3>1, <3>2 DEF Place
  <2>4. CASE up.open.kind \notin Tools
    <3>1. pc' = "read" /\ calls' = results' /\ ghost.asked = ghost.answered
      <4>1. ghost.answered \in Nat
        BY <1>2 DEF Good, Ghosts
      <4> QED
        BY <1>1, <1>3, <1>7, <2>4, <4>1
    <3>2. AtBlock(Hear(client, e), ghost)'
      BY <1>1, <1>3, <1>6, <2>1, <2>2, <2>4, <3>1 DEF AtBlock, NothingYet
    <3> QED
      BY <1>1, <1>6, <3>1, <3>2 DEF Place
  <2> QED
    BY <2>3, <2>4
<1>9. Typed'
  <2>1. calls' \subseteq 0 .. up'.blocks - 1
    <3>1. up.blocks \in Nat /\ calls \subseteq 0 .. up.blocks - 1
      BY DEF IInv, Typed, TypeOK, Turns
    <3> QED
      BY <1>1, <1>3, <1>6, <3>1
  <2>2. pc' \in {"run", "read"} /\ up'.phase \in Phases
    BY <1>1, <1>6 DEF Turns
  <2> QED
    BY <1>1, <1>6, <2>1, <2>2 DEF IInv, Typed, TypeOK
<1> QED
  BY <1>1, <1>2, <1>4, <1>5, <1>8, <1>9, TellStep DEF IInv

LEMMA ReadMessageDeltaStep ==
  ASSUME IInv, ReadMessageDelta
  PROVE  IInv'
<1>1. PICK reason \in {"tool_use", "end_turn"} :
        up' = [up EXCEPT !.phase = "finishing", !.stop = reason]
  BY DEF ReadMessageDelta
<1>2. /\ UNCHANGED <<mode, active, uses, turn, pc, cursor, remap, calls, results, usage, out, client>>
      /\ mode = "stream" /\ pc = "read" /\ out = <<>> /\ up.phase = "started" /\ up.open = NoOpen
      /\ final' = Append(final, MessageDelta)
      /\ ghost' = [ghost EXCEPT !.billed = @ + 1]
  BY DEF ReadMessageDelta, Reading
<1>3. Good(client, ghost) /\ AtBlock(client, ghost) /\ ghost \in Ghosts
  BY <1>2, AtRest
<1>4. /\ client.phase = "started" /\ client.blocks = cursor /\ usage = ghost.billed
      /\ final = <<>> /\ calls = results /\ client.open = NoBlock /\ ghost.asked = ghost.answered
  BY <1>2, <1>3 DEF AtBlock, NothingYet
<1>5. final' = <<MessageDelta>>
  BY <1>2, <1>4
<1>6. /\ up' \in Turns /\ up'.phase = "finishing" /\ up'.phase \in Phases
      /\ up'.blocks = up.blocks
  BY <1>1 DEF IInv, Typed, Turns, Phases
<1>7. /\ ghost' \in Ghosts /\ ghost'.billed = usage + 1 /\ ghost'.asked = ghost.asked
      /\ ghost'.answered = ghost.answered /\ ghost'.sent = ghost.sent
  BY <1>2, <1>3, <1>4 DEF Ghosts
<1>8. Settled(client, ghost)'
  <2>1. Good(client, ghost)'
    BY <1>2, <1>3, <1>4, <1>7 DEF Good
  <2>2. AtTurnEnd(client, ghost)'
    BY <1>2, <1>4, <1>5, <1>6, <1>7 DEF AtTurnEnd
  <2> QED
    BY <1>2, <1>6, <2>1, <2>2 DEF Settled, Place
<1>9. Typed'
  BY <1>2, <1>5, <1>6, <1>7 DEF IInv, Typed, TypeOK
<1> QED
  BY <1>2, <1>8, <1>9, SettledStep DEF IInv

LEMMA ReadMessageStopStep ==
  ASSUME IInv, ReadMessageStop
  PROVE  IInv'
<1>1. /\ UNCHANGED <<mode, active, uses, turn, pc, cursor, remap, calls, results, usage, out,
                     client, ghost>>
      /\ mode = "stream" /\ pc = "read" /\ out = <<>> /\ up.phase = "finishing"
      /\ up' = [up EXCEPT !.phase = "stopped"]
      /\ final' = Append(final, MessageStop)
  BY DEF ReadMessageStop, Reading
<1>2. Good(client, ghost) /\ AtTurnEnd(client, ghost)
  BY <1>1, AtRest
<1>3. final' = <<MessageDelta, MessageStop>>
  <2>1. final = <<MessageDelta>>
    BY <1>1, <1>2 DEF AtTurnEnd
  <2> QED
    BY <1>1, <2>1, AppendTwo, Zenon
<1>4. up' \in Turns /\ up'.phase = "stopped" /\ up'.phase \in Phases /\ up'.blocks = up.blocks
  BY <1>1 DEF IInv, Typed, Turns, Phases
<1>5. Settled(client, ghost)'
  BY <1>1, <1>2, <1>3, <1>4 DEF Settled, Place, AtTurnEnd
<1>6. Typed'
  BY <1>1, <1>3, <1>4 DEF IInv, Typed, TypeOK
<1> QED
  BY <1>1, <1>5, <1>6, SettledStep DEF IInv

LEMMA ReadPingStep ==
  ASSUME IInv, ReadPing
  PROVE  IInv'
<1>1. /\ UNCHANGED <<mode, active, uses, turn, pc, up, cursor, remap, calls, results, final,
                     usage, client, ghost>>
      /\ mode = "stream" /\ pc = "read" /\ out = <<>> /\ up.phase \in {"none", "started"}
      /\ out' = <<PingEvent>>
  BY DEF ReadPing, Reading
<1>2. /\ Good(client, ghost) /\ client.phase \in {"none", "started"}
      /\ up.phase = "none" => AtTurnStart(client, ghost)
      /\ up.phase = "started" => AtBlock(client, ghost)
  BY <1>1, AtRest DEF AtBlock, AtTurnStart, AtCall
<1> DEFINE c == Hear(client, PingEvent)
<1>3. /\ Legal(client, PingEvent) /\ Noted(ghost, PingEvent, usage) = ghost /\ Good(c, ghost)
      /\ c.open = client.open /\ c.blocks = client.blocks /\ c.phase = client.phase
  BY <1>2, TellPlain, Distinct
<1> HIDE DEF c
<1>4. Place(Hear(client, PingEvent), ghost)'
  <2>1. Hear(client', PingEvent) = c
    BY <1>1 DEF c
  <2> QED
    BY <1>1, <1>2, <1>3, <2>1 DEF Place, AtBlock, AtTurnStart, AtCall, Level, NothingYet
<1>5. Typed'
  BY <1>1 DEF IInv, Typed, TypeOK
<1> QED
  BY <1>1, <1>2, <1>3, <1>4, <1>5, TellStep DEF IInv, c

LEMMA ReadErrorStep ==
  ASSUME IInv, ReadError
  PROVE  IInv'
<1>1. /\ UNCHANGED <<mode, active, uses, turn, pc, cursor, remap, calls, results, final, usage,
                     client, ghost>>
      /\ mode = "stream" /\ pc = "read" /\ out = <<>> /\ up.phase \in {"none", "started"}
      /\ up' = [up EXCEPT !.phase = "failed"]
      /\ out' = <<ErrorEvent>>
  BY DEF ReadError, Reading
<1>2. Good(client, ghost) /\ NothingYet /\ client.phase \in {"none", "started"}
  BY <1>1, AtRest DEF AtBlock, AtTurnStart, AtCall
<1> DEFINE c == Hear(client, ErrorEvent)
<1>3. /\ Legal(client, ErrorEvent) /\ Noted(ghost, ErrorEvent, usage) = ghost /\ Good(c, ghost)
      /\ c.phase = "failed"
  BY <1>2, TellPlain, Distinct
<1> HIDE DEF c
<1>4. /\ up' \in Turns /\ up'.phase = "failed" /\ up'.phase \in Phases /\ up'.stop = up.stop
      /\ up'.blocks = up.blocks
  BY <1>1 DEF IInv, Typed, Turns, Phases
<1>5. Place(Hear(client, ErrorEvent), ghost)'
  <2>1. Hear(client', ErrorEvent) = c
    BY <1>1 DEF c
  <2> QED
    BY <1>1, <1>2, <1>3, <1>4, <2>1 DEF Place, AtFailure, NothingYet
<1>6. Typed'
  BY <1>1, <1>4 DEF IInv, Typed, TypeOK
<1> QED
  BY <1>1, <1>2, <1>3, <1>5, <1>6, TellStep DEF IInv, c

\* Running a tool is counted, and nothing else.
LEMMA ExecuteTyped ==
  ASSUME Typed, NEW tool \in Tools, Execute(tool)
  PROVE  /\ uses' \in [Tools -> 0 .. MaxUses]
         /\ ghost' \in Ghosts
         /\ ghost'.billed = ghost.billed /\ ghost'.reported = ghost.reported
         /\ ghost'.asked = ghost.asked /\ ghost'.answered = ghost.answered
         /\ ghost'.sent = ghost.sent
<1>1. uses \in [Tools -> 0 .. MaxUses] /\ ghost \in Ghosts /\ MaxUses \in Nat
  BY WebToolsAssumption DEF Typed, TypeOK
<1>2. CASE UNCHANGED <<uses, ghost>>
  BY <1>1, <1>2
<1>3. CASE /\ uses[tool] < MaxUses
           /\ ghost' = [ghost EXCEPT !.ran[tool] = @ + 1]
           /\ uses' = [uses EXCEPT ![tool] = @ + 1] \/ UNCHANGED uses
  <2>1. uses[tool] + 1 \in 0 .. MaxUses
    BY <1>1, <1>3
  <2>2. uses' \in [Tools -> 0 .. MaxUses]
    BY <1>1, <1>3, <2>1
  <2>3. ghost.ran \in [Tools -> Nat] /\ [ghost.ran EXCEPT ![tool] = @ + 1] \in [Tools -> Nat]
    BY <1>1 DEF Ghosts
  <2>4. ghost' = [ghost EXCEPT !.ran = [ghost.ran EXCEPT ![tool] = @ + 1]]
    BY <1>1, <1>3 DEF Ghosts
  <2> DEFINE r == [ghost.ran EXCEPT ![tool] = @ + 1]
  <2> HIDE DEF r
  <2>5. ghost' = [ghost EXCEPT !.ran = r] /\ r \in [Tools -> Nat]
    BY <2>3, <2>4 DEF r
  <2> QED
    BY <1>1, <2>2, <2>5 DEF Ghosts
<1> QED
  BY <1>2, <1>3 DEF Execute

LEMMA RunToolStep ==
  ASSUME IInv, RunTool
  PROVE  IInv'
<1>1. /\ UNCHANGED <<mode, active, turn, up, remap, calls, final, usage, client>>
      /\ mode = "stream" /\ pc = "run" /\ out = <<>> /\ pc' = "read"
      /\ Execute(remap.tool)
      /\ results' = results \cup {up.blocks - 1}
      /\ cursor' = cursor + 1
      /\ out' = <<BlockStart(cursor, "web_tool_result"), BlockStop(cursor)>>
  BY DEF RunTool, ResultIndex, ResultBlock
<1>2. Good(client, ghost) /\ AtTool(client, ghost) /\ client \in Clients
  BY <1>1, AtRest
<1>3. /\ client.phase = "started" /\ client.blocks = cursor /\ client.open = NoBlock
      /\ usage = ghost.billed /\ NothingYet
      /\ up.phase = "started" /\ up.open = NoOpen /\ up.blocks > 0
      /\ remap.tool \in Tools /\ calls = results \cup {up.blocks - 1}
      /\ ghost.asked = ghost.answered + 1
  BY <1>2 DEF AtTool, Level
<1>4. /\ uses' \in [Tools -> 0 .. MaxUses] /\ ghost' \in Ghosts
      /\ ghost'.billed = ghost.billed /\ ghost'.reported = ghost.reported
      /\ ghost'.asked = ghost.asked /\ ghost'.answered = ghost.answered
      /\ ghost'.sent = ghost.sent
  BY <1>1, <1>3, ExecuteTyped DEF IInv
<1>5. Good(client, ghost')
  BY <1>2, <1>4 DEF Good
<1> PICK e : e = BlockStart(cursor, "web_tool_result")
  OBVIOUS
<1> PICK f : f = BlockStop(cursor)
  OBVIOUS
<1>6. /\ Legal(client, e) /\ Good(Hear(client, e), Noted(ghost', e, usage))
      /\ Hear(client, e).phase = "started" /\ Hear(client, e).blocks = cursor + 1
      /\ Hear(client, e).open = [index |-> cursor, kind |-> "web_tool_result"]
      /\ Noted(ghost', e, usage).asked = Noted(ghost', e, usage).answered
      /\ Noted(ghost', e, usage).billed = usage
  <2>1. e = BlockStart(client.blocks, "web_tool_result")
    BY <1>3
  <2>2. "web_tool_result" \in Kinds
    BY DEF Kinds
  <2>3. Noted(ghost', e, usage).asked = Noted(ghost', e, usage).answered + 0
        /\ Legal(client, e) /\ Good(Hear(client, e), Noted(ghost', e, usage))
        /\ Hear(client, e).phase = "started" /\ Hear(client, e).blocks = cursor + 1
        /\ Hear(client, e).open = [index |-> cursor, kind |-> "web_tool_result"]
        /\ Noted(ghost', e, usage).billed = usage
    BY <1>3, <1>4, <1>5, <2>1, <2>2, TellBlockStart
  <2> QED
    BY <2>3 DEF Good, Ghosts
<1> PICK c : c = Hear(client, e)
  OBVIOUS
<1> PICK g : g = Noted(ghost', e, usage)
  OBVIOUS
<1>7. c.open # NoBlock /\ c.open.index = cursor
  BY <1>6 DEF NoBlock
<1>8. /\ Legal(c, f) /\ Good(Hear(c, f), g) /\ Noted(g, f, usage) = g
      /\ Hear(c, f).phase = "started" /\ Hear(c, f).blocks = c.blocks
      /\ Hear(c, f).open = NoBlock
  <2>1. f = BlockStop(c.open.index)
    BY <1>7
  <2> QED
    BY <1>6, <1>7, <2>1, TellBlockStop
<1>9. Settled(Hear(c, f), g)'
  <2>1. AtBlock(Hear(c, f), g)'
    BY <1>1, <1>3, <1>6, <1>8 DEF AtBlock, NothingYet
  <2> QED
    BY <1>1, <1>3, <1>8, <2>1 DEF Settled, Place
<1>10. Awaits(c, g, f)'
  <2>1. (Noted(g, f, usage))' = g
    BY <1>1, <1>8
  <2>2. Good(c, g) /\ Legal(c, f)
    BY <1>6, <1>8
  <2> QED
    BY <1>9, <2>1, <2>2 DEF Awaits
<1>11. Streamed'
  <2>1. out' = <<e, f>> /\ out'[1] = e /\ out'[2] = f /\ out' = <<out'[1], out'[2]>>
    BY <1>1
  <2>2. Hear(client', e) = c /\ Noted(ghost', e, usage') = g
    BY <1>1
  <2>3. Awaits(Hear(client, e), Noted(ghost, e, usage), f)'
    BY <1>10, <2>2 DEF Awaits, Settled, Place, AtCall, AtTool, AtTurnStart, AtBlock, AtTurnEnd,
                       AtFailure, Level, NothingYet
  <2> QED
    BY <1>1, <1>5, <1>6, <2>1, <2>3 DEF Streamed
<1>12. Typed'
  <2>1. up.blocks \in Nat /\ up.blocks - 1 \in 0 .. up.blocks - 1
    BY <1>3 DEF IInv, Typed, Turns
  <2>2. calls' \cup results' \subseteq 0 .. up'.blocks - 1
    BY <1>1, <2>1 DEF IInv, Typed, TypeOK
  <2>3. cursor' \in Nat /\ remap'.index \in 0 .. cursor'
    BY <1>1 DEF IInv, Typed, TypeOK
  <2> QED
    BY <1>1, <1>4, <2>2, <2>3 DEF IInv, Typed, TypeOK
<1> QED
  BY <1>1, <1>11, <1>12 DEF IInv, Collected

-----------------------------------------------------------------------------
(* The end of a turn.                                                      *)

LEMMA TurnUsageIs ==
  ASSUME Typed
  PROVE  TurnUsage = IF final = <<>> THEN usage ELSE usage + 1
<1> DEFINE ends == {i \in DOMAIN final : final[i].type = "message_delta"}
<1>1. MessageDelta.type = "message_delta" /\ MessageStop.type # "message_delta"
  BY DEF MessageDelta, MessageStop
<1>2. CASE final = <<>>
  <2>1. ends = {}
    BY <1>2
  <2> QED
    BY <1>2, <2>1, FS_EmptySet DEF TurnUsage, Typed
<1>3. CASE final = <<MessageDelta>>
  <2>1. ends = {1}
    BY <1>1, <1>3
  <2> QED
    BY <1>3, <2>1, FS_Singleton DEF TurnUsage, Typed
<1>4. CASE final = <<MessageDelta, MessageStop>>
  <2>1. DOMAIN final = {1, 2} /\ final[1] = MessageDelta /\ final[2] = MessageStop
    BY <1>4
  <2>2. ends = {1}
    BY <1>1, <2>1
  <2> QED
    BY <1>4, <2>2, FS_Singleton DEF TurnUsage, Typed
<1> QED
  BY <1>2, <1>3, <1>4 DEF Typed

\* The events that end the message, once its last turn is over
LEMMA TerminalsStep ==
  ASSUME mode' = "stream", pc' = "done", UNCHANGED <<up, final, client>>, out' = final,
         up.phase \in {"finishing", "stopped"},
         final = IF up.phase = "finishing" THEN <<MessageDelta>> ELSE <<MessageDelta, MessageStop>>,
         Good(client, ghost'), client.phase = "started", client.open = NoBlock,
         ghost'.asked = ghost'.answered, ghost'.billed = usage', usage' \in Nat
  PROVE  Streamed' /\ Collected'
<1> PICK c : c = Hear(client, MessageDelta)
  OBVIOUS
<1> PICK g : g = Noted(ghost', MessageDelta, usage')
  OBVIOUS
<1>1. Legal(client, MessageDelta) /\ Good(c, g) /\ c.phase = "finishing"
  BY TellEnd
<1>2. CASE up.phase = "finishing"
  <2>1. Settled(Hear(client, MessageDelta), Noted(ghost, MessageDelta, usage))'
    BY <1>1, <1>2 DEF Settled, Place
  <2>2. Awaits(client, ghost, MessageDelta)'
    BY <1>1, <2>1 DEF Awaits
  <2> QED
    BY <1>2, <2>2, AwaitsStep
<1>3. CASE up.phase = "stopped"
  <2>1. /\ Legal(c, MessageStop) /\ Noted(g, MessageStop, usage') = g
        /\ Good(Hear(c, MessageStop), g) /\ Hear(c, MessageStop).phase = "stopped"
    BY <1>1, TellPlain, Distinct
  <2>2. Awaits(Hear(client, MessageDelta), Noted(ghost, MessageDelta, usage), MessageStop)'
    BY <1>1, <2>1 DEF Awaits, Settled, Place, Told
  <2>3. out' = <<MessageDelta, MessageStop>> /\ out'[1] = MessageDelta /\ out'[2] = MessageStop
        /\ out' = <<out'[1], out'[2]>>
    BY <1>3
  <2> QED
    BY <1>1, <2>2, <2>3 DEF Streamed, Collected
<1> QED
  BY <1>2, <1>3

LEMMA TurnEndsStep ==
  ASSUME IInv, TurnEnds
  PROVE  IInv'
<1>1. /\ UNCHANGED <<mode, active, uses, up, cursor, remap, calls, results, final, client>>
      /\ mode = "stream" /\ pc = "read" /\ out = <<>> /\ usage' = TurnUsage
  BY DEF TurnEnds, Reading
<1>2. \/ /\ up.stop = "tool_use"
         /\ ghost' = [ghost EXCEPT !.sent = [calls |-> calls, results |-> results]]
         /\ turn' = turn + 1
         /\ \/ turn' < MaxAgentTurns /\ pc' = "call" /\ out' = <<>>
            \/ pc' = "done" /\ out' = final
      \/ pc' = "done" /\ out' = final /\ UNCHANGED <<turn, ghost>>
  BY Zenon DEF TurnEnds, GoesOn, NextTurn, Terminals
<1>3. Good(client, ghost) /\ ghost \in Ghosts
  BY <1>1, AtRest
<1>4. /\ up \in Turns /\ usage \in Nat /\ turn \in Nat /\ MaxAgentTurns \in Nat
      /\ turn < MaxAgentTurns /\ turn + 1 \in 0 .. MaxAgentTurns
      /\ calls \in SUBSET Nat /\ results \in SUBSET Nat
  BY <1>1, WebToolsAssumption DEF IInv, Typed, TypeOK, Turns
<1>5. usage' = IF final = <<>> THEN usage ELSE usage + 1
  BY <1>1, TurnUsageIs DEF IInv
<1>6. CASE up.phase \in {"none", "started", "failed"}
  <2>1. NothingYet /\ (up.phase = "failed" => client.phase = "failed")
    BY <1>1, <1>6, AtRest DEF AtTurnStart, AtBlock, AtFailure
  <2>2. pc' = "done" /\ out' = <<>> /\ UNCHANGED <<turn, ghost, usage>>
    BY <1>2, <1>5, <2>1 DEF NothingYet
  <2>3. Settled(client, ghost)'
    BY <1>1, <1>3, <1>6, <2>1, <2>2 DEF Settled, Place, Told
  <2>4. Typed'
    BY <1>1, <2>2 DEF IInv, Typed, TypeOK
  <2> QED
    BY <1>1, <2>2, <2>3, <2>4, SettledStep DEF IInv
<1>7. CASE up.phase \in {"finishing", "stopped"}
  <2>1. AtTurnEnd(client, ghost)
    BY <1>1, <1>7, AtRest
  <2>2. final # <<>> /\ usage' = ghost.billed /\ usage' \in Nat
    <3>1. final # <<>>
      BY <2>1 DEF AtTurnEnd
    <3> QED
      BY <1>4, <1>5, <2>1, <3>1 DEF AtTurnEnd
  <2>3. /\ Good(client, ghost') /\ ghost' \in Ghosts /\ ghost'.billed = ghost.billed
        /\ ghost'.asked = ghost.asked /\ ghost'.answered = ghost.answered
    <3>1. CASE ghost' = ghost
      BY <1>3, <3>1
    <3>2. CASE ghost' = [ghost EXCEPT !.sent = [calls |-> calls, results |-> results]]
      <4> DEFINE s == [calls |-> calls, results |-> results]
      <4>1. s \in [calls : SUBSET Nat, results : SUBSET Nat] /\ s.calls = s.results
        BY <1>4, <2>1 DEF AtTurnEnd
      <4> HIDE DEF s
      <4>2. ghost' = [ghost EXCEPT !.sent = s]
        BY <3>2 DEF s
      <4>3. /\ ghost' \in Ghosts /\ ghost'.billed = ghost.billed
            /\ ghost'.asked = ghost.asked /\ ghost'.answered = ghost.answered
            /\ ghost'.reported = ghost.reported /\ ghost'.sent = s
        BY <1>3, <4>1, <4>2 DEF Ghosts
      <4> QED
        BY <1>3, <4>1, <4>3 DEF Good
    <3> QED
      BY <1>2, <3>1, <3>2
  <2>4. Streamed' /\ Collected'
    <3>1. CASE pc' = "done" /\ out' = final
      BY <1>1, <1>7, <2>1, <2>2, <2>3, <3>1, TerminalsStep DEF AtTurnEnd
    <3>2. CASE pc' = "call" /\ out' = <<>>
      <4>1. Settled(client, ghost)'
        BY <1>1, <2>1, <2>2, <2>3, <3>2 DEF AtTurnEnd, Settled, Place, AtCall, Level
      <4> QED
        BY <1>1, <3>2, <4>1, SettledStep
    <3> QED
      BY <1>2, <3>1, <3>2
  <2>5. Typed'
    BY <1>1, <1>2, <1>4, <2>2, <2>3 DEF IInv, Typed, TypeOK
  <2> QED
    BY <2>4, <2>5 DEF IInv
<1> QED
  BY <1>4, <1>6, <1>7 DEF Turns, Phases

LEMMA TurnThrowsStep ==
  ASSUME IInv, TurnThrows
  PROVE  IInv'
<1>1. /\ UNCHANGED <<mode, active, uses, turn, up, cursor, remap, calls, results, final, usage,
                     client, ghost>>
      /\ out = <<>> /\ pc' = "done" /\ pc \in {"call", "read"}
      /\ pc = "read" => up.phase # "failed"
      /\ out' = IF mode = "stream" THEN <<ErrorEvent>> ELSE <<>>
  BY DEF TurnThrows
<1>2. Typed'
  BY <1>1 DEF IInv, Typed, TypeOK
<1>3. CASE mode = "stream"
  <2>1. Good(client, ghost) /\ client.phase \in {"none", "started"}
    BY <1>1, <1>3, AtRest DEF IInv, Typed, Turns, Phases, AtCall, AtTurnStart, AtBlock, AtTurnEnd
  <2> DEFINE c == Hear(client, ErrorEvent)
  <2>2. /\ Legal(client, ErrorEvent) /\ Noted(ghost, ErrorEvent, usage) = ghost /\ Good(c, ghost)
        /\ c.phase = "failed"
    BY <2>1, TellPlain, Distinct
  <2>3. Place(Hear(client, ErrorEvent), ghost)'
    BY <1>1, <2>2 DEF Place, Told
  <2> QED
    BY <1>1, <1>2, <1>3, <2>1, <2>2, <2>3, TellStep DEF IInv
<1>4. CASE mode = "whole"
  BY <1>1, <1>2, <1>4 DEF IInv, Streamed, Collected
<1> QED
  BY <1>3, <1>4, OneMode DEF IInv

-----------------------------------------------------------------------------
(* The whole answer.                                                       *)

LEMMA WholeAnswerStep ==
  ASSUME IInv, WholeAnswer
  PROVE  IInv'
<1>1. PICK reason \in {"tool_use", "end_turn"} :
        up' = [up EXCEPT !.phase = "started", !.stop = reason]
  BY DEF WholeAnswer
<1>2. /\ UNCHANGED <<mode, active, uses, turn, pc, cursor, remap, calls, results, final, out, client>>
      /\ mode = "whole" /\ pc = "read" /\ usage' = usage + 1
      /\ ghost' = [ghost EXCEPT !.billed = @ + 1]
  BY DEF WholeAnswer, WholeReads
<1>3. up' \in Turns /\ up'.phase \in Phases /\ up'.blocks = up.blocks
  BY <1>1 DEF IInv, Typed, Turns, Phases
<1>4. ghost' \in Ghosts /\ ghost'.asked = ghost.asked /\ ghost'.answered = ghost.answered
  <2>1. ghost \in Ghosts
    BY DEF IInv, Typed
  <2> QED
    BY <1>2, <2>1 DEF Ghosts
<1>5. Typed'
  BY <1>2, <1>3, <1>4 DEF IInv, Typed, TypeOK
<1> QED
  BY <1>2, <1>4, <1>5 DEF IInv, Streamed, Collected

LEMMA WholeBlockStep ==
  ASSUME IInv, WholeBlock
  PROVE  IInv'
<1>1. PICK kind \in BlockKinds :
        /\ calls' = calls \cup IF IsToolUse(kind) THEN {up.blocks} ELSE {}
        /\ IF kind \in Tools /\ up.stop = "tool_use"
             THEN /\ Execute(kind)
                  /\ results' = results \cup {up.blocks}
             ELSE UNCHANGED <<uses, ghost, results>>
  BY DEF WholeBlock
<1>2. /\ UNCHANGED <<mode, active, turn, pc, cursor, remap, final, usage, out, client>>
      /\ mode = "whole" /\ pc = "read" /\ up.blocks < MaxBlocks
      /\ up' = [up EXCEPT !.blocks = @ + 1]
  BY DEF WholeBlock, WholeReads
<1>3. /\ uses' \in [Tools -> 0 .. MaxUses] /\ ghost' \in Ghosts
      /\ ghost'.asked = ghost.asked /\ ghost'.answered = ghost.answered
  <2>1. CASE kind \in Tools /\ Execute(kind)
    BY <2>1, ExecuteTyped DEF IInv
  <2>2. CASE UNCHANGED <<uses, ghost>>
    BY <2>2 DEF IInv, Typed, TypeOK
  <2> QED
    BY <1>1, <2>1, <2>2
<1>4. up.blocks \in Nat /\ up.blocks + 1 \in 0 .. MaxBlocks
  BY <1>2, WebToolsAssumption DEF IInv, Typed, Turns
<1>5. up' \in Turns /\ up'.phase = up.phase /\ up'.blocks = up.blocks + 1
  BY <1>2, <1>4 DEF IInv, Typed, Turns
<1>6. calls' \cup results' \subseteq 0 .. up'.blocks - 1
  <2>1. calls' \cup results' \subseteq calls \cup results \cup {up.blocks}
    BY <1>1
  <2> QED
    BY <1>4, <1>5, <2>1 DEF IInv, Typed, TypeOK
<1>7. Typed'
  BY <1>2, <1>3, <1>4, <1>5, <1>6 DEF IInv, Typed, TypeOK
<1> QED
  BY <1>2, <1>3, <1>7 DEF IInv, Streamed, Collected

LEMMA WholeTurnEndsStep ==
  ASSUME IInv, WholeTurnEnds
  PROVE  IInv'
<1>1. /\ UNCHANGED <<mode, active, uses, up, cursor, remap, calls, results, final, usage, out, client>>
      /\ mode = "whole" /\ pc = "read"
  BY DEF WholeTurnEnds, WholeReads
<1>2. \/ /\ ghost' = [ghost EXCEPT !.sent = [calls |-> calls, results |-> results]]
         /\ turn' = turn + 1
         /\ \/ turn' < MaxAgentTurns /\ pc' = "call"
            \/ pc' = "done"
      \/ pc' = "done" /\ UNCHANGED <<turn, ghost>>
  BY Zenon DEF WholeTurnEnds, NextTurn
<1>3. turn' \in 0 .. MaxAgentTurns
  <2>1. turn \in Nat /\ MaxAgentTurns \in Nat /\ turn < MaxAgentTurns
    BY <1>1, WebToolsAssumption DEF IInv, Typed, TypeOK
  <2> QED
    BY <1>2, <2>1
<1>4. ghost' \in Ghosts /\ ghost'.asked = ghost.asked /\ ghost'.answered = ghost.answered
  <2> DEFINE s == [calls |-> calls, results |-> results]
  <2>1. s \in [calls : SUBSET Nat, results : SUBSET Nat]
    BY DEF IInv, Typed, TypeOK
  <2> HIDE DEF s
  <2>2. ghost' = [ghost EXCEPT !.sent = s] \/ ghost' = ghost
    BY <1>2 DEF s
  <2> QED
    BY <2>1, <2>2 DEF IInv, Typed, Ghosts
<1>5. out = <<>>
  BY <1>1 DEF IInv, Collected
<1>6. Typed'
  BY <1>1, <1>2, <1>3, <1>4, <1>5 DEF IInv, Typed, TypeOK
<1> QED
  BY <1>1, <1>2, <1>4, <1>6 DEF IInv, Streamed, Collected

-----------------------------------------------------------------------------
(* The invariants.                                                         *)

LEMMA InitEstablishes == Init => IInv
<1> SUFFICES ASSUME Init
             PROVE  IInv
  OBVIOUS
<1>1. FreshTurn \in Turns /\ FreshTurn.phase \in Phases /\ FreshTurn.blocks = 0
  BY WebToolsAssumption DEF FreshTurn, Turns, NoOpen, Phases
<1>2. Unmapped \in [index : Nat, tool : Tools \cup {NoTool}] /\ Unmapped.index = 0
  BY DEF Unmapped
<1>3. NewClient \in Clients /\ NewClient.phase = "none" /\ NewClient.open = NoBlock
      /\ NewClient.blocks = 0 /\ NoBlock.kind = "none" /\ NewClient.phase \in Phases
  BY NewClientIsOne DEF NewClient, NoBlock, Phases
<1>4. ghost \in Ghosts /\ ghost.asked = 0 /\ ghost.answered = 0 /\ ghost.billed = 0
      /\ ghost.sent.calls = ghost.sent.results
  BY DEF Init, Ghosts
<1>5. uses \in [Tools -> 0 .. MaxUses]
  BY WebToolsAssumption DEF Init
<1>6. Typed
  BY <1>1, <1>2, <1>3, <1>4, <1>5, WebToolsAssumption DEF Init, Typed, TypeOK
<1>7. Good(client, ghost)
  BY <1>3, <1>4 DEF Init, Good
<1>8. Streamed /\ Collected
  BY <1>3, <1>4, <1>7 DEF Init, Streamed, Collected, Settled, Place, AtCall, Level
<1> QED
  BY <1>6, <1>8 DEF IInv

LEMMA StepPreserves == IInv /\ [Next]_vars => IInv'
<1> SUFFICES ASSUME IInv, [Next]_vars
             PROVE  IInv'
  OBVIOUS
<1>1. CASE Next
  BY <1>1, WriteStep, HeartbeatStep, CallUpstreamStep, ReadMessageStartStep, ReadBlockStartStep,
     ReadBlockDeltaStep, ReadBlockStopStep, RunToolStep, ReadMessageDeltaStep,
     ReadMessageStopStep, ReadPingStep, ReadErrorStep, TurnEndsStep, TurnThrowsStep,
     WholeAnswerStep, WholeBlockStep, WholeTurnEndsStep DEF Next
<1>2. CASE UNCHANGED vars
  <2>1. UNCHANGED <<mode, active, uses, turn, pc, up, cursor, remap, calls, results, final,
                    usage, out, client, ghost>>
    BY <1>2 DEF vars
  <2>2. \A c, g : Place(c, g)' = Place(c, g)
    BY <2>1 DEF Place, AtCall, AtTool, AtTurnStart, AtBlock, AtTurnEnd, AtFailure, Level,
                NothingYet
  <2>3. Typed'
    BY <2>1 DEF IInv, Typed, TypeOK
  <2>4. Streamed'
    BY <2>1, <2>2 DEF IInv, Streamed, Awaits, Settled
  <2> QED
    BY <2>1, <2>3, <2>4 DEF IInv, Collected
<1> QED
  BY <1>1, <1>2

LEMMA Always == Spec => []IInv
  BY InitEstablishes, StepPreserves, PTL DEF Spec

LEMMA GoodAlways == IInv => mode = "whole" \/ Good(client, ghost)
  BY OneMode DEF IInv, Streamed, Settled, Awaits

LEMMA InvariantsFollow ==
  ASSUME IInv
  PROVE  AgentInvariant /\ UsageSummed /\ EveryCallAnswered
<1>1. CASE mode = "whole"
  <2>1. client.phase = "none" /\ client.open.kind = "none" /\ ghost.asked = ghost.answered
        /\ ghost.asked \in Nat
    BY <1>1 DEF IInv, Collected, NewClient, NoBlock
  <2> QED
    BY <1>1, <2>1 DEF IInv, Typed, AgentInvariant, ResultFollowsUse, EndIsTold, UsageSummed,
                      EveryCallAnswered
<1>2. CASE mode # "whole"
  <2>1. Good(client, ghost)
    BY <1>2, GoodAlways
  <2>2. EndIsTold
    BY AtRest, <1>2 DEF EndIsTold, IInv, Streamed, Settled, Place
  <2> QED
    BY <2>1, <2>2 DEF IInv, Typed, AgentInvariant, ResultFollowsUse, UsageSummed,
                      EveryCallAnswered, Good
<1> QED
  BY <1>1, <1>2

\* The state is well typed, no message is finished and no other block is open while a server
\* tool's call waits for its result, and the client is told how the message ended: for any
\* number of turns and of blocks in them, wherever an upstream's stream stops or breaks.
THEOREM ResultsFollowTheirCalls == Spec => []AgentInvariant
<1>1. IInv => AgentInvariant
  BY InvariantsFollow
<1> QED
  BY <1>1, Always, PTL

\* The one usage report of a streamed message sums every turn that was billed.
THEOREM UsageIsSummed == Spec => []UsageSummed
<1>1. IInv => UsageSummed
  BY InvariantsFollow
<1> QED
  BY <1>1, Always, PTL

\* A streamed conversation goes back to the model only with a result for each of its calls.
THEOREM ConversationsAreComplete == Spec => []EveryCallAnswered
<1>1. IInv => EveryCallAnswered
  BY InvariantsFollow
<1> QED
  BY <1>1, Always, PTL

-----------------------------------------------------------------------------
(* The refinement: what a client hears, turn after turn, is one message.   *)

\* The abstract stream speaks of the same events.
LEMMA SameEvents ==
  /\ Promised!NoBlock = NoBlock /\ Promised!Kinds = Kinds /\ Promised!Payloads = Payloads
  /\ Promised!MessageStart = MessageStart /\ Promised!MessageDelta = MessageDelta
  /\ Promised!MessageStop = MessageStop /\ Promised!ErrorEvent = ErrorEvent
  /\ Promised!PingEvent = PingEvent
  /\ \A i, k, p : /\ Promised!BlockStart(i, k) = BlockStart(i, k)
                  /\ Promised!BlockDelta(i, k, p) = BlockDelta(i, k, p)
                  /\ Promised!BlockStop(i) = BlockStop(i)
  BY DEF Promised!NoBlock, Promised!Kinds, Promised!Payloads, Promised!Content,
         Promised!MessageStart, Promised!MessageDelta, Promised!MessageStop,
         Promised!ErrorEvent, Promised!PingEvent, Promised!BlockStart, Promised!BlockDelta,
         Promised!BlockStop, NoBlock, Kinds, Payloads, Content, MessageStart, MessageDelta,
         MessageStop, ErrorEvent, PingEvent, BlockStart, BlockDelta, BlockStop

LEMMA LegalIsPromised ==
  ASSUME client \in Clients, NEW e, Legal(client, e), client' = Hear(client, e)
  PROVE  Promised!Next
<1>1. CASE e = MessageStart /\ client.phase = "none"
  <2>1. Promised!Start
    BY <1>1, HearPlain, SameEvents DEF Promised!Start, Promised!Receive, Follows
  <2> QED
    BY <2>1 DEF Promised!Next
<1>2. CASE /\ client.phase = "started" /\ client.open = NoBlock
           /\ \E k \in Kinds : e = BlockStart(client.blocks, k)
  <2>1. PICK k \in Kinds : e = BlockStart(client.blocks, k)
    BY <1>2
  <2>2. client.blocks \in Nat
    BY DEF Clients
  <2>3. Promised!OpenBlock(k)
    BY <1>2, <2>1, <2>2, HearBlockStart, SameEvents
       DEF Promised!OpenBlock, Promised!Receive, Follows
  <2> QED
    BY <2>3, SameEvents DEF Promised!Next
<1>3. CASE /\ client.phase = "started" /\ client.open # NoBlock
           /\ \E p \in Payloads : e = BlockDelta(client.open.index, client.open.kind, p)
  <2>1. PICK p \in Payloads : e = BlockDelta(client.open.index, client.open.kind, p)
    BY <1>3
  <2>2. client.open.index \in Nat /\ client.open.kind \in Kinds
    BY <1>3 DEF Clients, Opens
  <2>3. /\ Follows(client', client, e) /\ client'.phase = client.phase
        /\ client'.blocks = client.blocks /\ client'.open = client.open
    BY <2>1, <2>2, HearBlockDelta
  <2>4. Promised!Delta(p)
    BY <1>3, <2>1, <2>3, SameEvents
       DEF Promised!Delta, Promised!Receive, Follows
  <2> QED
    BY <2>4, SameEvents DEF Promised!Next
<1>4. CASE /\ client.phase = "started" /\ client.open # NoBlock
           /\ e = BlockStop(client.open.index)
  <2>1. client.open.index \in Nat
    BY <1>4 DEF Clients, Opens
  <2>2. Promised!CloseBlock
    BY <1>4, <2>1, HearBlockStop, SameEvents
       DEF Promised!CloseBlock, Promised!Receive, Follows
  <2> QED
    BY <2>2 DEF Promised!Next
<1>5. CASE client.phase = "started" /\ client.open = NoBlock /\ e = MessageDelta
  <2>1. Promised!Finish
    BY <1>5, HearPlain, SameEvents DEF Promised!Finish, Promised!Receive, Follows
  <2> QED
    BY <2>1 DEF Promised!Next
<1>6. CASE client.phase = "finishing" /\ e = MessageStop
  <2>1. Promised!Stop
    BY <1>6, HearPlain, SameEvents DEF Promised!Stop, Promised!Receive, Follows
  <2> QED
    BY <2>1 DEF Promised!Next
<1>7. CASE client.phase \in {"none", "started", "finishing"} /\ e = ErrorEvent
  <2>1. Promised!Fail
    BY <1>7, HearPlain, SameEvents DEF Promised!Fail, Promised!Ended, Promised!Receive, Follows
  <2> QED
    BY <2>1 DEF Promised!Next
<1>8. CASE client.phase \in {"none", "started", "finishing"} /\ e = PingEvent
  <2>1. Promised!Ping
    BY <1>8, HearPlain, SameEvents DEF Promised!Ping, Promised!Ended, Promised!Receive, Follows
  <2> QED
    BY <2>1 DEF Promised!Next
<1> QED
  BY <1>1, <1>2, <1>3, <1>4, <1>5, <1>6, <1>7, <1>8 DEF Legal

LEMMA StepImplements == IInv /\ [Next]_vars => [Promised!Next]_(Promised!vars)
<1> SUFFICES ASSUME IInv, [Next]_vars
             PROVE  Promised!Next \/ UNCHANGED Promised!vars
  OBVIOUS
<1>1. CASE client' = client
  BY <1>1 DEF Promised!vars
<1>2. CASE Write
  <2>1. mode = "stream" /\ out # <<>>
    BY <1>2, OneMode DEF IInv, Collected, Write
  <2>2. client' = Hear(client, out[1])
    BY <1>2 DEF Write
  <2>3. Legal(client, out[1]) /\ client \in Clients
    BY <2>1 DEF IInv, Typed, Streamed, Awaits
  <2> QED
    BY <2>2, <2>3, LegalIsPromised
<1>3. CASE Heartbeat
  <2>1. mode = "stream" /\ out = <<>> /\ pc \in {"call", "run"} /\ client.phase # "none"
        /\ client' = Hear(client, PingEvent)
    BY <1>3 DEF Heartbeat, HeartbeatOn
  <2>2. client \in Clients /\ client.phase = "started"
    BY <2>1, AtRest DEF AtCall, AtTool
  <2>3. Legal(client, PingEvent)
    BY <2>2 DEF Legal
  <2> QED
    BY <2>1, <2>2, <2>3, LegalIsPromised
<1> QED
  BY <1>1, <1>2, <1>3
     DEF Next, vars, CallUpstream, ReadMessageStart, ReadBlockStart, ReadBlockDelta,
         ReadBlockStop, RunTool, ReadMessageDelta, ReadMessageStop, ReadPing, ReadError,
         TurnEnds, TurnThrows, WholeAnswer, WholeBlock, WholeTurnEnds

\* However many turns the agent loop takes, its client receives a behaviour of one message
\* stream: every event written, heartbeat included, is one the stream allows there.
THEOREM TurnsMakeOneStream == Spec => ImplementsStream
<1>1. Init => Promised!Init
  BY DEF Init, Promised!Init, NewClient, Promised!NoBlock, NoBlock, Promised!NoEvent
<1> QED
  BY <1>1, Always, StepImplements, PTL DEF Spec, ImplementsStream, Promised!Spec
=============================================================================
