--------------------------- MODULE MessageStream ---------------------------
(***************************************************************************)
(* What a client of /v1/messages may receive: the grammar of one Anthropic *)
(* message stream.  One message_start, then content blocks one after the   *)
(* other, numbered from 0 without a gap, each delta belonging to the block *)
(* that is open, then one message_delta and one message_stop; an error may *)
(* take the place of the rest.  Two things depend on who writes it: if a   *)
(* ping may precede message_start, and if an error may still follow the    *)
(* end.  Nothing else comes after message_stop or an error.                *)
(***************************************************************************)
EXTENDS AnthropicEvents

CONSTANTS
  EarlyPings,  \* a ping may come before message_start
  LateErrors   \* an error may come after message_stop or another error

VARIABLES
  phase,   \* how far the message is
  blocks,  \* how many blocks were started
  open,    \* the open block
  last,    \* the event just received
  tick     \* alternates, so that every event is a step

NoBlock == [index |-> 0, kind |-> "none"]

NoEvent == [type |-> "none"]

Init ==
  /\ phase = "none"
  /\ blocks = 0
  /\ open = NoBlock
  /\ last = NoEvent
  /\ tick = FALSE

Receive(event) ==
  /\ last' = event
  /\ tick' = ~tick

Start ==
  /\ phase = "none"
  /\ phase' = "started"
  /\ Receive(MessageStart)
  /\ UNCHANGED <<blocks, open>>

OpenBlock(kind) ==
  /\ phase = "started"
  /\ open = NoBlock
  /\ open' = [index |-> blocks, kind |-> kind]
  /\ blocks' = blocks + 1
  /\ Receive(BlockStart(blocks, kind))
  /\ UNCHANGED phase

Delta(payload) ==
  /\ phase = "started"
  /\ open # NoBlock
  /\ Receive(BlockDelta(open.index, open.kind, payload))
  /\ UNCHANGED <<phase, blocks, open>>

CloseBlock ==
  /\ phase = "started"
  /\ open # NoBlock
  /\ open' = NoBlock
  /\ Receive(BlockStop(open.index))
  /\ UNCHANGED <<phase, blocks>>

Finish ==
  /\ phase = "started"
  /\ open = NoBlock
  /\ phase' = "finishing"
  /\ Receive(MessageDelta)
  /\ UNCHANGED <<blocks, open>>

Stop ==
  /\ phase = "finishing"
  /\ phase' = "stopped"
  /\ Receive(MessageStop)
  /\ UNCHANGED <<blocks, open>>

Ended == phase \in {"stopped", "failed"}

Fail ==
  /\ LateErrors \/ ~Ended
  /\ phase' = "failed"
  /\ Receive(ErrorEvent)
  /\ UNCHANGED <<blocks, open>>

Ping ==
  /\ ~Ended
  /\ EarlyPings \/ phase # "none"
  /\ Receive(PingEvent)
  /\ UNCHANGED <<phase, blocks, open>>

Next ==
  \/ Start
  \/ \E kind \in Kinds : OpenBlock(kind)
  \/ \E payload \in Payloads : Delta(payload)
  \/ CloseBlock
  \/ Finish
  \/ Stop
  \/ Fail
  \/ Ping

vars == <<phase, blocks, open, last, tick>>

Spec == Init /\ [][Next]_vars
=============================================================================
