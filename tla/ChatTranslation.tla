-------------------------- MODULE ChatTranslation --------------------------
(***************************************************************************)
(* routes/messages/stream-translation.ts: a chunk of a chat-completions    *)
(* stream becomes Anthropic events.  The state is AnthropicStreamState;    *)
(* the block index is shared by text, thinking and tool blocks and moves   *)
(* on as each of them closes.  A chunk says which of its delta's fields    *)
(* are there:                                                              *)
(*   reasoning  a reasoning_text that is not empty                         *)
(*   opaque     a reasoning_opaque that is not empty                       *)
(*   content    "none", "empty" (the string "") or "text"                  *)
(*   calls      the tool_calls entries: a new call (id and name) or not,   *)
(*              with arguments or not                                      *)
(*   finish     a finish_reason                                            *)
(***************************************************************************)
EXTENDS AnthropicEvents

LOCAL INSTANCE Integers

CONSTANT Calls    \* indices of tool calls

NoIndex == -1

ChatState ==
  [started |-> FALSE, index |-> 0, content |-> FALSE, thinking |-> FALSE,
   tools |-> [c \in Calls |-> NoIndex], out |-> <<>>]

IsToolBlockOpen(s) ==
  s.content /\ \E c \in Calls : s.tools[c] = s.index

CloseContent(s) ==
  IF s.content
    THEN [Push(s, <<BlockStop(s.index)>>) EXCEPT !.index = @ + 1, !.content = FALSE]
    ELSE s

CloseThinking(s) ==
  IF s.thinking
    THEN [Push(s, <<BlockDelta(s.index, "thinking", "signature"), BlockStop(s.index)>>)
            EXCEPT !.index = @ + 1, !.thinking = FALSE]
    ELSE s

HandleMessageStart(s) ==
  IF s.started THEN s ELSE [Push(s, <<MessageStart>>) EXCEPT !.started = TRUE]

OpenThinking(s) ==
  IF s.thinking
    THEN s
    ELSE [Push(s, <<BlockStart(s.index, "thinking")>>) EXCEPT !.thinking = TRUE]

(* Reasoning that arrives while a text or tool block is open takes the     *)
(* place of the chunk's content.                                           *)
AsContent(s, chunk) ==
  IF chunk.reasoning /\ s.content
    THEN [chunk EXCEPT !.content = "text", !.reasoning = FALSE]
    ELSE chunk

HandleThinkingText(s, chunk) ==
  IF chunk.reasoning
    THEN Push(OpenThinking(s), <<BlockDelta(s.index, "thinking", "piece")>>)
    ELSE s

OpenText(s) ==
  LET ready == IF IsToolBlockOpen(s) THEN CloseContent(s) ELSE s
  IN  IF ready.content
        THEN ready
        ELSE [Push(ready, <<BlockStart(ready.index, "text")>>) EXCEPT !.content = TRUE]

HandleText(s) ==
  LET text == OpenText(CloseThinking(s))
  IN  Push(text, <<BlockDelta(text.index, "text", "piece")>>)

HandleContent(s, chunk) ==
  CASE chunk.content = "text" -> HandleText(s)
    [] chunk.content = "empty" /\ chunk.opaque -> CloseThinking(s)
    [] OTHER -> s

(* A signature without its thinking becomes a thinking block of its own. *)
HandleReasoningOpaque(s, chunk) ==
  IF chunk.opaque
    THEN [Push(s, <<BlockStart(s.index, "thinking"),
                    BlockDelta(s.index, "thinking", "filler"),
                    BlockDelta(s.index, "thinking", "signature"),
                    BlockStop(s.index)>>)
            EXCEPT !.index = @ + 1]
    ELSE s

HandleOpaqueInToolCalls(s, chunk) ==
  HandleReasoningOpaque(
    IF s.content /\ ~IsToolBlockOpen(s) THEN CloseContent(s) ELSE s, chunk)

BeginCall(s, call) ==
  LET ready == CloseContent(s)
  IN  [Push(ready, <<BlockStart(ready.index, "tool_use")>>)
         EXCEPT !.content = TRUE, !.tools[call.index] = ready.index]

CallArguments(s, call) ==
  IF call.args /\ s.tools[call.index] # NoIndex
    THEN Push(s, <<BlockDelta(s.tools[call.index], "tool_use", "piece")>>)
    ELSE s

HandleToolCall(s, call) ==
  CallArguments(IF call.new THEN BeginCall(s, call) ELSE s, call)

HandleToolCalls(s, chunk) ==
  IF chunk.calls = <<>>
    THEN s
    ELSE LET after[n \in 0 .. Len(chunk.calls)] ==
               IF n = 0
                 THEN HandleOpaqueInToolCalls(CloseThinking(s), chunk)
                 ELSE HandleToolCall(after[n - 1], chunk.calls[n])
         IN  after[Len(chunk.calls)]

HandleFinish(s, chunk) ==
  IF chunk.finish
    THEN Push(CloseContent(CloseThinking(s)), <<MessageDelta, MessageStop>>)
    ELSE s

TranslateChunk(before, chunk) ==
  LET s == HandleMessageStart(before)
      c == AsContent(s, chunk)
  IN  HandleFinish(HandleToolCalls(HandleContent(HandleThinkingText(s, c), c), c), c)
=============================================================================
