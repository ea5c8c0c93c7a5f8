---------------------------- MODULE StreamRelay ----------------------------
(***************************************************************************)
(* The three streaming flows of /v1/messages (routes/messages/             *)
(* api-flows.ts): read the upstream stream chunk by chunk, translate each  *)
(* (ChatTranslation, ResponsesTranslation, or nothing for the Messages     *)
(* API), and write the events through the keep-alive of                    *)
(* stream-keepalive.ts, whose timer writes pings of its own.  A stream     *)
(* that throws ends in an error event (stream-error.ts).                   *)
(*                                                                         *)
(* Every write is awaited, so a ping's write and an event's write can be   *)
(* under way together; their bytes go out in the order the writes began.   *)
(* The upstream is external: it follows the order of its API's events, may *)
(* stop at any point and may break.                                        *)
(***************************************************************************)
EXTENDS ChatTranslation, ResponsesTranslation, StreamClient, Integers, FiniteSets, SequencesExt

CONSTANTS
  Flows,      \* flows a request may be sent through
  MaxChunks   \* bound: chunks the upstream sends

ASSUME FlowsAssumption == Flows \subseteq {"chat", "responses", "messages"}
ASSUME SizesAssumption ==
  /\ MaxChunks \in Nat
  /\ MaxWhitespace \in Nat
  /\ IsFiniteSet(Calls) /\ IsFiniteSet(Items) /\ IsFiniteSet(Parts)
  /\ Calls = 0 .. Cardinality(Calls) - 1
  /\ Items = 0 .. Cardinality(Items) - 1
  /\ Parts = 0 .. Cardinality(Parts) - 1

VARIABLES
  flow,    \* the flow of this request
  up,      \* what the upstream has said
  tr,      \* the translator's state
  out,     \* events of the current chunk still to be written
  pc,      \* where the flow's loop is
  ka,      \* the keep-alive
  owed,    \* fragments of content read and not yet written
  client   \* the client's place in the stream

vars == <<flow, up, tr, out, pc, ka, owed, client>>

-----------------------------------------------------------------------------
(* The upstreams, external. *)

Upstream ==
  [count |-> 0, state |-> "flowing", begun |-> FALSE, items |-> 0,
   kind |-> "none", part |-> 0, said |-> FALSE]

(* Chat completions.  kind is what the model said last; items counts the   *)
(* tool calls.  Copilot's discipline: nothing after the finish reason; the *)
(* calls one after the other, each complete before anything else; no       *)
(* signature with a call that follows a call; no reasoning next to text    *)
(* once text or a call was begun.                                          *)
Call(i, new, args) == [index |-> i, new |-> new, args |-> args]

CallLists ==
  LET next == up.items
      last == Cardinality(Calls)
  IN  {<<>>}
      \cup {<<Call(next, TRUE, args)>> : args \in IF next < last THEN BOOLEAN ELSE {}}
      \cup {<<Call(next - 1, FALSE, TRUE)>> : n \in IF next > 0 THEN {1} ELSE {}}
      \cup {<<Call(next, TRUE, TRUE), Call(next + 1, TRUE, TRUE)>> :
              n \in IF next + 1 < last THEN {1} ELSE {}}

Orderly(c) ==
  /\ (\E i \in DOMAIN c.calls : ~c.calls[i].new) =>
       up.kind = "call" /\ c.content # "text" /\ ~c.reasoning
  /\ c.calls # <<>> /\ c.opaque => up.kind # "call"
  /\ c.reasoning /\ c.content = "text" => up.kind = "none"

ChatChunks ==
  IF up.kind = "finished"
    THEN {}
    ELSE {c \in [reasoning : BOOLEAN, opaque : BOOLEAN,
                 content : {"none", "empty", "text"}, calls : CallLists,
                 finish : BOOLEAN] : Orderly(c)}

ChatPieces(c) ==
  (IF c.reasoning THEN 1 ELSE 0) + (IF c.content = "text" THEN 1 ELSE 0)
  + Cardinality({i \in DOMAIN c.calls : c.calls[i].args})

AfterChat(c) ==
  [up EXCEPT
     !.count = @ + 1,
     !.items = @ + Cardinality({i \in DOMAIN c.calls : c.calls[i].new}),
     !.kind  = IF c.finish THEN "finished"
               ELSE IF c.calls # <<>> THEN "call"
               ELSE IF c.content = "text" \/ (c.reasoning /\ @ # "none") THEN "text"
               ELSE @]

(* Responses.  kind is the item under way, items counts the items begun;   *)
(* said: this item streamed its content in deltas.  The items come one     *)
(* after the other; a response may be completed, fail or break off in the  *)
(* middle of one.  Pairs of an event and the fragments of content that are *)
(* new in it, with what the upstream is doing afterwards.                  *)
Event(item, part, type, data) ==
  [type |-> type, item |-> item, part |-> part, data |-> data,
   summary |-> up.said, body |-> TRUE]

SaysOf(item, part, type, data, new, next) ==
  [event |-> Event(item, part, type, data), new |-> new,
   next |-> [next EXCEPT !.count = @ + 1]]

Says(type, data, new, next) == SaysOf(up.items - 1, up.part, type, data, new, next)

New(data) == IF data \in Content THEN 1 ELSE 0

Ended == [up EXCEPT !.kind = "none", !.part = 0, !.said = FALSE]

Begin(kind, said) ==
  [up EXCEPT !.items = @ + 1, !.kind = kind, !.part = 0, !.said = said]

FirstSays(type, data, new, next) == SaysOf(up.items, 0, type, data, new, next)

FirstOfItem ==
  IF up.items = Cardinality(Items)
    THEN {}
    ELSE {FirstSays("call_added", data, New(data), Begin("call", data # "none")) :
            data \in {"none", "piece"}}
         \cup {FirstSays("text_delta", "piece", 1, Begin("text", TRUE)),
               FirstSays("text_done", "whole", 1, Begin("text_over", FALSE)),
               FirstSays("thinking_delta", "piece", 1, Begin("thinking", TRUE)),
               FirstSays("thinking_done", "whole", 1, Begin("thinking_over", FALSE)),
               FirstSays("reasoning_done", "none", 0, Begin("none", FALSE)),
               FirstSays("compaction_done", "none", 0, Begin("none", FALSE))}

CallSays ==
  {Says("arguments_delta", data, 1, [up EXCEPT !.said = TRUE]) : data \in {"piece", "blank"}}
  \cup {Says("arguments_done", "whole", IF up.said THEN 0 ELSE 1, Ended)}

TextSays ==
  {Says("text_delta", "piece", 1, up),
   Says("text_done", "whole", 0, [up EXCEPT !.kind = "text_over"])}

PartSays(type, data, kind) ==
  SaysOf(up.items - 1, up.part + 1, type, data, 1, [up EXCEPT !.part = @ + 1, !.kind = kind])

NextPartSays ==
  {PartSays("text_delta", "piece", "text"), PartSays("text_done", "whole", "text_over")}

ThinkingSays ==
  {Says("thinking_delta", "piece", 1, up),
   Says("thinking_done", "whole", 0, [up EXCEPT !.kind = "thinking_over"])}

ThoughtSays ==
  {Says("thinking_delta", "piece", 1, [up EXCEPT !.kind = "thinking", !.said = TRUE]),
   Says("reasoning_done", "none", 0, Ended)}

InItem ==
  CASE up.kind = "call"                               -> CallSays
    [] up.kind = "text"                               -> TextSays
    [] up.kind = "text_over" /\ up.part + 1 \in Parts -> NextPartSays
    [] up.kind = "thinking"                           -> ThinkingSays
    [] up.kind = "thinking_over"                      -> ThoughtSays
    [] OTHER                                          -> {}

Terminal ==
  {Says("failed", "none", 0, Ended), Says("error", "none", 0, Ended)}
  \cup {[Says("completed", "none", 0, Ended) EXCEPT !.event.body = body] : body \in BOOLEAN}

ResponsesSays ==
  IF ~up.begun
    THEN {Says("created", "none", 0, [up EXCEPT !.begun = TRUE]),
          Says("error", "none", 0, up), Says("ping", "none", 0, up)}
    ELSE InItem \cup Terminal \cup {Says("ping", "none", 0, up)}
         \cup IF up.kind \in {"none", "text_over"} THEN FirstOfItem ELSE {}

(* Messages: the client's own grammar, pings included. *)
MessagesEvents ==
  CASE client.phase = "none" -> {MessageStart, ErrorEvent, PingEvent}
    [] client.phase = "started" /\ client.open = NoBlock ->
         {BlockStart(client.blocks, kind) : kind \in Kinds}
         \cup {MessageDelta, ErrorEvent, PingEvent}
    [] client.phase = "started" /\ client.open # NoBlock ->
         {BlockDelta(client.open.index, client.open.kind, "piece"),
          BlockStop(client.open.index), ErrorEvent, PingEvent}
    [] client.phase = "finishing" -> {MessageStop}
    [] OTHER -> {}

-----------------------------------------------------------------------------
(* The keep-alive: createStreamKeepAlive's closure.  ping is the ping's    *)
(* write: under way, or adopted by an event that waits for it.             *)

KeepAlive ==
  [started |-> FALSE, stopped |-> FALSE, writing |-> FALSE, timer |-> FALSE,
   ping |-> "none"]

ScheduleNextPing(k) == [k EXCEPT !.timer = k.started /\ ~k.stopped]

StopKeepAlive(k) == [k EXCEPT !.stopped = TRUE, !.timer = FALSE]

(* A pending ping is waited for; the timer is off until the event is out. *)
TakeTurn(k) ==
  [k EXCEPT !.timer = FALSE, !.ping = IF @ = "none" THEN "none" ELSE "adopted"]

AfterWrite(k, e) ==
  ScheduleNextPing(
    [k EXCEPT !.writing = FALSE,
              !.started = @ \/ e.type = "message_start",
              !.stopped = @ \/ e.type \in {"message_stop", "error"}])

Ping ==
  /\ ka.timer
  /\ IF ka.writing
       THEN ka' = ScheduleNextPing(ka) /\ UNCHANGED client
       ELSE /\ ka' = [ka EXCEPT !.timer = FALSE, !.writing = TRUE, !.ping = "inflight"]
            /\ client' = Hear(client, PingEvent)
  /\ UNCHANGED <<flow, up, tr, out, pc, owed>>

(* Mutated form: the timer is only set by events. *)
PingOut_Once(k) == [k EXCEPT !.ping = "none", !.writing = FALSE]

(* Mutated form: a ping that an event waits for is never done. *)
PingOut_Stuck(k) ==
  IF k.ping = "inflight" THEN ScheduleNextPing([k EXCEPT !.ping = "none", !.writing = FALSE]) ELSE k

(* Only a ping that nobody waits for frees the writer and sets the timer. *)
PingOut(k) ==
  LET k0 == [k EXCEPT !.ping = "none"]
  IN  IF k.ping = "inflight" THEN ScheduleNextPing([k0 EXCEPT !.writing = FALSE]) ELSE k0

PingWritten ==
  /\ ka.ping # "none"
  /\ ka' = PingOut(ka)
  /\ UNCHANGED <<flow, up, tr, out, pc, owed, client>>

-----------------------------------------------------------------------------
(* The flow's loop. *)

CanRead == pc = "read" /\ up.count < MaxChunks

ReadChat ==
  /\ flow = "chat"
  /\ CanRead
  /\ \E c \in ChatChunks :
       LET s == TranslateChunk(tr, c)
       IN  /\ tr' = [s EXCEPT !.out = <<>>]
           /\ out' = s.out
           /\ owed' = owed + ChatPieces(c)
           /\ up' = AfterChat(c)
  /\ pc' = "write"
  /\ UNCHANGED <<flow, ka, client>>

ReadResponses ==
  /\ flow = "responses"
  /\ CanRead
  /\ \E says \in ResponsesSays :
       LET s == TranslateEvent(tr, says.event)
       IN  /\ tr' = [s EXCEPT !.out = <<>>]
           /\ out' = IF says.event.type = "ping" THEN <<PingEvent>> ELSE s.out
           /\ owed' = owed + says.new
           /\ up' = says.next
  /\ pc' = "write"
  /\ UNCHANGED <<flow, ka, client>>

ReadMessages ==
  /\ flow = "messages"
  /\ CanRead
  /\ \E e \in MessagesEvents :
       /\ out' = <<e>>
       /\ owed' = owed + Carries(e)
  /\ up' = [up EXCEPT !.count = @ + 1]
  /\ pc' = "write"
  /\ UNCHANGED <<flow, tr, ka, client>>

(* A ping before message_start is dropped; any other event takes its turn. *)
TakeEvent ==
  /\ pc = "write"
  /\ out # <<>>
  /\ IF Head(out).type = "ping" /\ ~ka.started
       THEN out' = Tail(out) /\ UNCHANGED <<pc, ka>>
       ELSE /\ ka' = TakeTurn(ka)
            /\ pc' = "turn"
            /\ UNCHANGED out
  /\ UNCHANGED <<flow, up, tr, owed, client>>

WriteEvent ==
  /\ pc = "turn"
  /\ ka.ping # "adopted"
  /\ ka' = [ka EXCEPT !.writing = TRUE]
  /\ pc' = "writing"
  /\ client' = Hear(client, Head(out))
  /\ UNCHANGED <<flow, up, tr, out, owed>>

EventWritten ==
  /\ pc = "writing"
  /\ ka' = AfterWrite(ka, Head(out))
  /\ owed' = owed - Carries(Head(out))
  /\ out' = Tail(out)
  /\ pc' = "write"
  /\ UNCHANGED <<flow, up, tr, client>>

(* The error goes to the stream itself, without the keep-alive. *)
WriteError ==
  /\ ka' = StopKeepAlive(ka)
  /\ pc' = "erring"
  /\ client' = Hear(client, ErrorEvent)

Completed == flow = "responses" /\ tr.completed

(* The end of the loop: only the Responses flow says that the message is   *)
(* not complete.                                                           *)
Leave ==
  IF flow = "responses" /\ ~tr.completed
    THEN WriteError
    ELSE /\ ka' = StopKeepAlive(ka)
         /\ pc' = "done"
         /\ UNCHANGED client

NextChunk ==
  /\ pc = "write"
  /\ out = <<>>
  /\ IF Completed
       THEN Leave
       ELSE pc' = "read" /\ UNCHANGED <<ka, client>>
  /\ UNCHANGED <<flow, up, tr, out, owed>>

(* The upstream's iteration is over, or its data is [DONE]. *)
StreamEnds ==
  /\ pc = "read"
  /\ up' = [up EXCEPT !.state = "ended"]
  /\ Leave
  /\ UNCHANGED <<flow, tr, out, owed>>

(* A reset, a premature close or a chunk that is not JSON. *)
StreamThrows ==
  /\ pc = "read"
  /\ up' = [up EXCEPT !.state = "threw"]
  /\ WriteError
  /\ UNCHANGED <<flow, tr, out, owed>>

ErrorWritten ==
  /\ pc = "erring"
  /\ pc' = "done"
  /\ UNCHANGED <<flow, up, tr, out, ka, owed, client>>

-----------------------------------------------------------------------------
Init ==
  /\ flow \in Flows
  /\ up = Upstream
  /\ tr = CASE flow = "chat" -> ChatState
            [] flow = "responses" -> ResponsesState
            [] OTHER -> [out |-> <<>>]
  /\ out = <<>>
  /\ pc = "read"
  /\ ka = KeepAlive
  /\ owed = 0
  /\ client = NewClient

Loop ==
  \/ TakeEvent
  \/ WriteEvent
  \/ EventWritten
  \/ NextChunk
  \/ ErrorWritten

Next ==
  \/ ReadChat
  \/ ReadResponses
  \/ ReadMessages
  \/ StreamEnds
  \/ StreamThrows
  \/ Loop
  \/ Ping
  \/ PingWritten

(* The writes end: the client takes what it is sent.  Nothing is asked of  *)
(* the upstream or of the timer.                                           *)
Fairness == WF_vars(Loop) /\ WF_vars(PingWritten)

Spec == Init /\ [][Next]_vars /\ Fairness

-----------------------------------------------------------------------------
TypeOK ==
  /\ flow \in Flows
  /\ up.count \in 0 .. MaxChunks
  /\ up.state \in {"flowing", "ended", "threw"}
  /\ pc \in {"read", "write", "turn", "writing", "erring", "done"}
  /\ ka \in [started : BOOLEAN, stopped : BOOLEAN, writing : BOOLEAN,
             timer : BOOLEAN, ping : {"none", "inflight", "adopted"}]
  /\ client.phase \in Phases
  /\ owed \in Int
  /\ flow = "chat" => tr.index \in Nat /\ \A c \in Calls : tr.tools[c] \in -1 .. tr.index
  /\ flow = "responses" =>
       /\ tr.open \cup tr.hasDelta \subseteq 0 .. tr.next - 1
       /\ Cardinality(tr.open) <= 1

(* Whatever the upstream's chunks and wherever the pings fall, what the    *)
(* client receives is one well-formed message stream.                      *)
Promised == INSTANCE MessageStream WITH
  phase <- client.phase, blocks <- client.blocks, open <- client.open,
  last <- client.last, tick <- client.tick,
  EarlyPings <- FALSE, LateErrors <- TRUE

ImplementsStream == Promised!Spec

(* When the loop waits for the upstream, each fragment of content that it  *)
(* has read was written to the client exactly once: none dropped when one  *)
(* kind of block makes way for another, none said again by a done event.   *)
EachPieceOnce ==
  pc = "read" \/ (pc = "done" /\ client.phase = "stopped") => owed = 0

(* An event is never written while a ping is being written; only the error *)
(* that ends a broken stream is not held back.                             *)
EventsAlone == pc = "writing" => ka.ping = "none"

(* While the upstream is silent, pings go on: the timer is set again after *)
(* every write, whoever made it.                                           *)
HeartbeatGoesOn ==
  pc = "read" /\ ka.started /\ ~ka.stopped => ka.timer \/ ka.ping = "inflight"

(* The client is told how the message ended, unless a chat or Messages     *)
(* stream simply stops coming.                                             *)
EndIsTold ==
  pc = "done" => Told(client) \/ (flow # "responses" /\ up.state = "ended")

(* A call whose arguments are endless white space is cut off.              *)
RunawayStopped == client.blanks <= MaxWhitespace

(* The state is well typed, events keep clear of pings that go on while    *)
(* the upstream is silent, white space does not run away, and the end is   *)
(* told.                                                                   *)
RelayInvariant ==
  TypeOK /\ EventsAlone /\ HeartbeatGoesOn /\ RunawayStopped /\ EndIsTold

(* What was read is written and the loop comes back for more, or ends: no  *)
(* ping keeps an event from its turn for ever.                             *)
LoopComesBack == (pc = "write") ~> (pc \in {"read", "done"})
=============================================================================
