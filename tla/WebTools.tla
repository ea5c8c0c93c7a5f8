------------------------------ MODULE WebTools ------------------------------
(***************************************************************************)
(* Server-side web search and fetch (routes/messages/web-tools): the       *)
(* client's web tools are given to the model as ordinary tools, and an     *)
(* agent loop calls the upstream once per turn, runs the web tools the     *)
(* model called, feeds it their results and goes on until the model asks   *)
(* for none.  To the client it all is one message.  stream.ts forwards     *)
(* each turn as it streams; agent.ts collects whole answers.               *)
(*                                                                         *)
(* A turn's stream, external, is itself a well-formed message stream that  *)
(* may stop or break anywhere: it is what ChatTranslation and              *)
(* ResponsesTranslation make of the upstream's.                            *)
(***************************************************************************)
EXTENDS StreamClient, FiniteSets

CONSTANTS
  Modes,          \* "stream" and "whole": what the client may ask for
  Tools,          \* web tools the client may declare
  MaxUses,        \* max_uses of each of them
  MaxAgentTurns,  \* MAX_AGENT_TURNS
  MaxBlocks       \* bound: content blocks of one turn

NoTool == "no tool"

ASSUME WebToolsAssumption ==
  /\ Modes \subseteq {"stream", "whole"}
  /\ {NoTool, "none"} \cap Tools = {}
  /\ MaxUses \in Nat
  /\ MaxAgentTurns \in Nat \ {0}
  /\ MaxBlocks \in Nat

VARIABLES
  mode,    \* streaming or not
  active,  \* RequestState.active: the web tools this request declares
  uses,    \* RequestState.uses
  turn,    \* the agent loop's counter
  pc,      \* what the loop waits for
  up,      \* this turn's upstream stream, and what it said so far
  cursor,  \* the next index for the client
  remap,   \* upstreamToClient, for the block that is open: its index and its tool
  calls,   \* assistantContent: the tool calls in it
  results, \* outcomes: the calls that have one
  final,   \* bufferedFinalEvents
  usage,   \* usageTotal, in turns
  out,     \* events being written
  client,  \* the client
  ghost    \* what was observed: see below

vars == <<mode, active, uses, turn, pc, up, cursor, remap, calls, results,
          final, usage, out, client, ghost>>

(* ghost.billed    turns whose usage the upstream reported                 *)
(* ghost.reported  turns in the usage the client was given                 *)
(* ghost.asked     server_tool_use blocks the client saw                   *)
(* ghost.answered  result blocks the client saw                            *)
(* ghost.ran       per tool: how often the executor ran                    *)
(* ghost.sent      the calls and the results of the last turn fed back     *)

BlockKinds == {"text", "thinking", "tool_use"} \cup Tools

NoOpen == [index |-> 0, kind |-> "none"]

FreshTurn ==
  [phase |-> "none", blocks |-> 0, open |-> NoOpen, stop |-> "none"]

Unmapped == [index |-> 0, tool |-> NoTool]

-----------------------------------------------------------------------------
(* The client. *)

Seen(g, e) ==
  CASE e.type = "message_delta" -> [g EXCEPT !.reported = usage]
    [] e.type = "content_block_start" /\ e.kind = "server_tool_use" ->
         [g EXCEPT !.asked = @ + 1]
    [] e.type = "content_block_start" /\ e.kind = "web_tool_result" ->
         [g EXCEPT !.answered = @ + 1]
    [] OTHER -> g

Write ==
  /\ out # <<>>
  /\ client' = Hear(client, Head(out))
  /\ ghost' = Seen(ghost, Head(out))
  /\ out' = Tail(out)
  /\ UNCHANGED <<mode, active, uses, turn, pc, up, cursor, remap, calls, results,
                 final, usage>>

(* withHeartbeat, around the upstream call and around a tool: nothing      *)
(* before the message has started.                                         *)
HeartbeatOn == client.phase # "none"

Heartbeat ==
  /\ mode = "stream"
  /\ out = <<>>
  /\ pc \in {"call", "run"}
  /\ HeartbeatOn
  /\ client' = Hear(client, PingEvent)
  /\ UNCHANGED <<mode, active, uses, turn, pc, up, cursor, remap, calls, results,
                 final, usage, out, ghost>>

-----------------------------------------------------------------------------
(* One turn. *)

(* Mutated form: the outcomes of the turn before stay. *)
FreshOutcomes_Kept == results

FreshOutcomes == {}

CallUpstream ==
  /\ pc = "call"
  /\ pc' = "read"
  /\ up' = FreshTurn
  /\ remap' = Unmapped
  /\ calls' = {}
  /\ results' = FreshOutcomes
  /\ final' = <<>>
  /\ UNCHANGED <<mode, active, uses, turn, cursor, usage, out, client, ghost>>

Reading == mode = "stream" /\ pc = "read" /\ out = <<>>

OnlyMessageStart == client.phase = "none"

ReadMessageStart ==
  /\ Reading
  /\ up.phase = "none"
  /\ up' = [up EXCEPT !.phase = "started"]
  /\ out' = IF OnlyMessageStart THEN <<MessageStart>> ELSE <<>>
  /\ UNCHANGED <<mode, active, uses, turn, pc, cursor, remap, calls, results,
                 final, usage, client, ghost>>

(* A web tool's call is shown as a server tool's. *)
ClientKind(kind) == IF kind \in Tools THEN "server_tool_use" ELSE kind

ReadBlockStart ==
  /\ Reading
  /\ up.phase = "started" /\ up.open = NoOpen /\ up.blocks < MaxBlocks
  /\ \E kind \in BlockKinds :
       /\ up' = [up EXCEPT !.blocks = @ + 1, !.open = [index |-> up.blocks, kind |-> kind]]
       /\ remap' = [index |-> cursor, tool |-> IF kind \in Tools THEN kind ELSE NoTool]
       /\ out' = <<BlockStart(cursor, ClientKind(kind))>>
  /\ cursor' = cursor + 1
  /\ UNCHANGED <<mode, active, uses, turn, pc, calls, results, final, usage, client, ghost>>

(* Mutated form: the block keeps the index of its own turn. *)
Remapped_Own(i) == up.open.index

Remapped(i) == remap.index

ReadBlockDelta ==
  /\ Reading
  /\ up.phase = "started" /\ up.open # NoOpen
  /\ out' = <<BlockDelta(Remapped(up.open.index), ClientKind(up.open.kind), "piece")>>
  /\ UNCHANGED <<mode, active, uses, turn, pc, up, cursor, remap, calls, results,
                 final, usage, client, ghost>>

IsToolUse(kind) == kind = "tool_use" \/ kind \in Tools

(* Mutated form: every tool call goes into the conversation. *)
KeptCall_All(kind) == IsToolUse(kind)

(* Only our own tools' calls have an entry in the next turn's message. *)
KeptCall(kind) == kind \in Tools

ReadBlockStop ==
  /\ Reading
  /\ up.phase = "started" /\ up.open # NoOpen
  /\ up' = [up EXCEPT !.open = NoOpen]
  /\ out' = <<BlockStop(Remapped(up.open.index))>>
  /\ calls' = calls \cup IF KeptCall(up.open.kind) THEN {up.open.index} ELSE {}
  /\ pc' = IF remap.tool # NoTool THEN "run" ELSE "read"
  /\ UNCHANGED <<mode, active, uses, turn, cursor, remap, results, final, usage, client, ghost>>

(* executeToolUse: the policy first, then the executor, and a use is only  *)
(* counted when it succeeds.                                               *)
Execute(tool) ==
  \/ UNCHANGED <<uses, ghost>>   \* not declared, or an input the policy refuses
  \/ /\ tool \in active
     /\ uses[tool] < MaxUses
     /\ ghost' = [ghost EXCEPT !.ran[tool] = @ + 1]
     /\ \/ uses' = [uses EXCEPT ![tool] = @ + 1]
        \/ UNCHANGED uses        \* the executor fails

ResultIndex == cursor

ResultBlock == <<BlockStart(ResultIndex, "web_tool_result"), BlockStop(ResultIndex)>>

RunTool ==
  /\ mode = "stream"
  /\ pc = "run"
  /\ out = <<>>
  /\ Execute(remap.tool)
  /\ results' = results \cup {up.blocks - 1}
  /\ out' = ResultBlock
  /\ cursor' = ResultIndex + 1
  /\ pc' = "read"
  /\ UNCHANGED <<mode, active, turn, up, remap, calls, final, usage, client>>

ReadMessageDelta ==
  /\ Reading
  /\ up.phase = "started" /\ up.open = NoOpen
  /\ \E reason \in {"tool_use", "end_turn"} :
       up' = [up EXCEPT !.phase = "finishing", !.stop = reason]
  /\ final' = Append(final, MessageDelta)
  /\ ghost' = [ghost EXCEPT !.billed = @ + 1]
  /\ UNCHANGED <<mode, active, uses, turn, pc, cursor, remap, calls, results,
                 usage, out, client>>

ReadMessageStop ==
  /\ Reading
  /\ up.phase = "finishing"
  /\ up' = [up EXCEPT !.phase = "stopped"]
  /\ final' = Append(final, MessageStop)
  /\ UNCHANGED <<mode, active, uses, turn, pc, cursor, remap, calls, results,
                 usage, out, client, ghost>>

(* A Responses turn forwards the upstream's pings, its own message_start   *)
(* behind them or not, and an error, which is its last event.              *)
ReadPing ==
  /\ Reading
  /\ up.phase \in {"none", "started"}
  /\ out' = <<PingEvent>>
  /\ UNCHANGED <<mode, active, uses, turn, pc, up, cursor, remap, calls, results,
                 final, usage, client, ghost>>

ReadError ==
  /\ Reading
  /\ up.phase \in {"none", "started"}
  /\ up' = [up EXCEPT !.phase = "failed"]
  /\ out' = <<ErrorEvent>>
  /\ UNCHANGED <<mode, active, uses, turn, pc, cursor, remap, calls, results,
                 final, usage, client, ghost>>

-----------------------------------------------------------------------------
(* Between turns. *)

(* Mutated form: the last turn's usage alone. *)
TurnUsage_Last == Cardinality({i \in DOMAIN final : final[i].type = "message_delta"})

TurnUsage == usage + Cardinality({i \in DOMAIN final : final[i].type = "message_delta"})

GoesOn == up.stop = "tool_use" /\ results # {}

(* The results go back to the model and the loop takes its next turn.      *)
NextTurn ==
  /\ ghost' = [ghost EXCEPT !.sent = [calls |-> calls, results |-> results]]
  /\ turn' = turn + 1

Terminals == final

(* The stream of this turn is over, wherever it stopped.  Only the events  *)
(* that end the last turn's message reach the client.                      *)
TurnEnds ==
  /\ Reading
  /\ usage' = TurnUsage
  /\ IF GoesOn
       THEN /\ NextTurn
            /\ pc' = IF turn' < MaxAgentTurns THEN "call" ELSE "done"
            /\ out' = IF turn' < MaxAgentTurns THEN <<>> ELSE Terminals
       ELSE /\ pc' = "done"
            /\ out' = Terminals
            /\ UNCHANGED <<turn, ghost>>
  /\ UNCHANGED <<mode, active, uses, up, cursor, remap, calls, results, final, client>>

(* The call is refused, or the stream breaks: flow.ts reports it in the    *)
(* stream; without one the request itself fails.                           *)
TurnThrows ==
  /\ pc \in {"call", "read"}
  /\ out = <<>>
  /\ pc = "read" => up.phase # "failed"
  /\ mode = "whole" /\ pc = "read" => up.phase = "none"
  /\ out' = IF mode = "stream" THEN <<ErrorEvent>> ELSE <<>>
  /\ pc' = "done"
  /\ UNCHANGED <<mode, active, uses, turn, up, cursor, remap, calls, results,
                 final, usage, client, ghost>>

-----------------------------------------------------------------------------
(* agent.ts: one turn is one answer.  up.blocks counts the blocks of the   *)
(* answer looked at so far; final is what the client will be given.        *)

WholeReads == mode = "whole" /\ pc = "read"

(* callOnce has answered: the stop reason decides before any tool runs. *)
WholeAnswer ==
  /\ WholeReads
  /\ up.phase = "none"
  /\ \E reason \in {"tool_use", "end_turn"} :
       up' = [up EXCEPT !.phase = "started", !.stop = reason]
  /\ usage' = usage + 1
  /\ ghost' = [ghost EXCEPT !.billed = @ + 1]
  /\ UNCHANGED <<mode, active, uses, turn, pc, cursor, remap, calls, results,
                 final, out, client>>

(* A block of the answer.  A web tool is run when the model waits for it,  *)
(* and is shown to the client as a server tool with its result.            *)
WholeBlock ==
  /\ WholeReads
  /\ up.phase = "started" /\ up.blocks < MaxBlocks
  /\ up' = [up EXCEPT !.blocks = @ + 1]
  /\ \E kind \in BlockKinds :
       /\ calls' = calls \cup IF IsToolUse(kind) THEN {up.blocks} ELSE {}
       /\ IF kind \in Tools /\ up.stop = "tool_use"
            THEN /\ Execute(kind)
                 /\ results' = results \cup {up.blocks}
            ELSE UNCHANGED <<uses, ghost, results>>
  /\ UNCHANGED <<mode, active, turn, pc, cursor, remap, final, usage, out, client>>

WholeTurnEnds ==
  /\ WholeReads
  /\ up.phase = "started"
  /\ IF GoesOn
       THEN NextTurn /\ pc' = IF turn' < MaxAgentTurns THEN "call" ELSE "done"
       ELSE pc' = "done" /\ UNCHANGED <<turn, ghost>>
  /\ UNCHANGED <<mode, active, uses, up, cursor, remap, calls, results, final,
                 usage, out, client>>

-----------------------------------------------------------------------------
Init ==
  /\ mode \in Modes
  /\ active \in SUBSET Tools \ {{}}
  /\ uses = [t \in Tools |-> 0]
  /\ turn = 0
  /\ pc = "call"
  /\ up = FreshTurn
  /\ cursor = 0
  /\ remap = Unmapped
  /\ calls = {}
  /\ results = {}
  /\ final = <<>>
  /\ usage = 0
  /\ out = <<>>
  /\ client = NewClient
  /\ ghost = [billed |-> 0, reported |-> 0, asked |-> 0, answered |-> 0,
              ran |-> [t \in Tools |-> 0], sent |-> [calls |-> {}, results |-> {}]]

Next ==
  \/ Write
  \/ Heartbeat
  \/ CallUpstream
  \/ ReadMessageStart
  \/ ReadBlockStart
  \/ ReadBlockDelta
  \/ ReadBlockStop
  \/ RunTool
  \/ ReadMessageDelta
  \/ ReadMessageStop
  \/ ReadPing
  \/ ReadError
  \/ TurnEnds
  \/ TurnThrows
  \/ WholeAnswer
  \/ WholeBlock
  \/ WholeTurnEnds

Spec == Init /\ [][Next]_vars

-----------------------------------------------------------------------------
TypeOK ==
  /\ mode \in Modes
  /\ active \subseteq Tools
  /\ uses \in [Tools -> 0 .. MaxUses]
  /\ turn \in 0 .. MaxAgentTurns
  /\ pc \in {"call", "read", "run", "done"}
  /\ up.phase \in Phases
  /\ up.blocks \in 0 .. MaxBlocks
  /\ remap.index \in 0 .. cursor
  /\ calls \cup results \subseteq 0 .. up.blocks - 1
  /\ client.phase \in Phases

(* However many turns it took, the client receives one well-formed message *)
(* stream: its block numbers climb across the turns, it starts and ends    *)
(* once, whether well or with an error, and nothing comes after.  Only an  *)
(* upstream's ping may precede the start: the heartbeats wait for it.      *)
Promised == INSTANCE MessageStream WITH
  phase <- client.phase, blocks <- client.blocks, open <- client.open,
  last <- client.last, tick <- client.tick,
  EarlyPings <- TRUE, LateErrors <- FALSE

ImplementsStream == Promised!Spec

(* A server tool's result comes right after its call: no other block opens *)
(* in between, a second call neither, and no message is finished without   *)
(* it.                                                                     *)
ResultFollowsUse ==
  /\ ghost.asked \in {ghost.answered, ghost.answered + 1}
  /\ client.phase \in {"finishing", "stopped"}
       \/ client.open.kind \in {"text", "thinking", "tool_use"}
       => ghost.answered = ghost.asked

(* The one usage report of a stream counts every turn that was billed.     *)
UsageSummed ==
  client.phase \in {"finishing", "stopped"} => ghost.reported = ghost.billed

(* What goes back to the model is a conversation it accepts: every tool    *)
(* call in it has its result.                                              *)
EveryCallAnswered == mode = "stream" => ghost.sent.calls = ghost.sent.results

(* The client is told how the message ended, unless the stream of the last *)
(* turn stopped before it said so.                                         *)
EndIsTold ==
  mode = "stream" /\ pc = "done" /\ out = <<>> =>
    Told(client) \/ up.phase \in {"none", "started", "finishing"}

(* The state is well typed, results come right after their calls, and the  *)
(* end is told.                                                            *)
AgentInvariant == TypeOK /\ ResultFollowsUse /\ EndIsTold
=============================================================================
