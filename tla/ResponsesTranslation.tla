------------------------ MODULE ResponsesTranslation ------------------------
(***************************************************************************)
(* routes/messages/responses-stream-translation.ts: an event of a          *)
(* Responses API stream becomes Anthropic events.  The state is            *)
(* ResponsesStreamState.  Text and thinking blocks are found again by      *)
(* output and content index, calls by output index; opening a block closes *)
(* whatever else is open.  An event's fields:                              *)
(*   item      its output_index                                            *)
(*   part      its content_index                                           *)
(*   data      what it carries: "none", "piece", "blank" or "whole"        *)
(*   summary   whether a reasoning item has a summary                      *)
(*   body      whether a terminal event has a response to translate        *)
(***************************************************************************)
EXTENDS AnthropicEvents

LOCAL INSTANCE Integers
LOCAL INSTANCE FiniteSets

CONSTANTS
  Items,          \* output indices
  Parts,          \* content indices; 0 is the one of a thinking block
  MaxWhitespace   \* MAX_CONSECUTIVE_FUNCTION_CALL_WHITESPACE

ASSUME PartsAssumption == 0 \in Parts

NoBlockIndex == -1

NoCall == [block |-> NoBlockIndex, blanks |-> 0]

ResponsesState ==
  [completed |-> FALSE,
   next      |-> 0,
   keys      |-> [k \in Items \X Parts |-> NoBlockIndex],
   open      |-> {},
   hasDelta  |-> {},
   calls     |-> [i \in Items |-> NoCall],
   out       |-> <<>>]

(* Blocks close in the order they were opened, and only one is open. *)
CloseOpenBlocks(s) ==
  IF s.open = {}
    THEN s
    ELSE LET b == CHOOSE b \in s.open : TRUE
         IN  [Push(s, <<BlockStop(b)>>) EXCEPT !.open = @ \ {b}, !.hasDelta = @ \ {b}]

CloseAllOpenBlocks(s) ==
  [CloseOpenBlocks(s) EXCEPT !.calls = [i \in Items |-> NoCall]]

Reopen(s, b, kind) ==
  IF b \in s.open
    THEN s
    ELSE [Push(CloseOpenBlocks(s), <<BlockStart(b, kind)>>) EXCEPT !.open = @ \cup {b}]

KnownBlock(s, item, part) ==
  IF s.keys[<<item, part>>] # NoBlockIndex
    THEN s
    ELSE [s EXCEPT !.keys[<<item, part>>] = s.next, !.next = @ + 1]

OpenTextBlock(before, item, part) ==
  LET s == KnownBlock(before, item, part) IN Reopen(s, s.keys[<<item, part>>], "text")

(* Every summary of one item goes into one thinking block. *)
OpenThinkingBlock(before, item) ==
  LET s == KnownBlock(before, item, 0) IN Reopen(s, s.keys[<<item, 0>>], "thinking")

OpenFunctionCallBlock(before, item) ==
  LET s == IF before.calls[item] # NoCall
             THEN before
             ELSE [before EXCEPT !.calls[item] = [block |-> before.next, blanks |-> 0],
                                 !.next = @ + 1]
  IN  Reopen(s, s.calls[item].block, "tool_use")

PushDelta(s, b, kind, payload) ==
  [Push(s, <<BlockDelta(b, kind, payload)>>) EXCEPT !.hasDelta = @ \cup {b}]

HandleOutputItemAdded(before, e) ==
  LET s == OpenFunctionCallBlock(before, e.item)
  IN  IF e.data = "none" THEN s ELSE PushDelta(s, s.calls[e.item].block, "tool_use", e.data)

HandleTextDelta(before, e) ==
  LET s == OpenTextBlock(before, e.item, e.part)
  IN  PushDelta(s, s.keys[<<e.item, e.part>>], "text", e.data)

HandleThinkingDelta(before, e) ==
  LET s == OpenThinkingBlock(before, e.item)
  IN  PushDelta(s, s.keys[<<e.item, 0>>], "thinking", e.data)

(* Mutated form: the full text is always sent. *)
WholeIfNew_Always(s, b, kind, data) ==
  IF data = "none" THEN s ELSE Push(s, <<BlockDelta(b, kind, "whole")>>)

(* The full text is only news for a block that had no delta. *)
WholeIfNew(s, b, kind, data) ==
  IF data = "none" \/ b \in s.hasDelta
    THEN s
    ELSE Push(s, <<BlockDelta(b, kind, "whole")>>)

HandleTextDone(before, e) ==
  LET s == OpenTextBlock(before, e.item, e.part)
  IN  WholeIfNew(s, s.keys[<<e.item, e.part>>], "text", e.data)

HandleThinkingDone(before, e) ==
  LET s == OpenThinkingBlock(before, e.item)
  IN  WholeIfNew(s, s.keys[<<e.item, 0>>], "thinking", e.data)

HandleReasoningDone(before, e) ==
  LET s == OpenThinkingBlock(before, e.item)
      b == s.keys[<<e.item, 0>>]
      t == IF e.summary THEN s ELSE Push(s, <<BlockDelta(b, "thinking", "filler")>>)
  IN  PushDelta(t, b, "thinking", "signature")

HandleCompactionDone(before, e) ==
  LET s == OpenThinkingBlock(before, e.item)
      b == s.keys[<<e.item, 0>>]
      t == IF b \in s.hasDelta THEN s ELSE Push(s, <<BlockDelta(b, "thinking", "filler")>>)
  IN  PushDelta(t, b, "thinking", "signature")

(* Mutated form: the failure is not marked as the end. *)
Abandon_GoesOn(s) == Push(s, <<ErrorEvent>>)

(* The message ends with an error instead of its terminal events. *)
Abandon(s) == [Push(s, <<ErrorEvent>>) EXCEPT !.completed = TRUE]

(* Consecutive white space in a call's arguments, one character a delta. *)
BlankRun(call, data) == IF data = "blank" THEN call.blanks + 1 ELSE 0

HandleArgumentsDelta(before, e) ==
  LET s   == OpenFunctionCallBlock(before, e.item)
      run == BlankRun(s.calls[e.item], e.data)
  IN  IF run > MaxWhitespace
        THEN Abandon(CloseAllOpenBlocks(s))
        ELSE PushDelta([s EXCEPT !.calls[e.item].blanks = run],
                       s.calls[e.item].block, "tool_use", e.data)

HandleArgumentsDone(before, e) ==
  LET s == OpenFunctionCallBlock(before, e.item)
      b == s.calls[e.item].block
      t == IF e.data = "none" \/ b \in s.hasDelta
             THEN s
             ELSE PushDelta(s, b, "tool_use", "whole")
  IN  [t EXCEPT !.calls[e.item] = NoCall]

HandleResponseCompleted(before, e) ==
  LET s == CloseAllOpenBlocks(before)
  IN  IF e.body
        THEN [Push(s, <<MessageDelta, MessageStop>>) EXCEPT !.completed = TRUE]
        ELSE Abandon(s)

TranslateEvent(s, e) ==
  CASE e.type = "created"          -> Push(s, <<MessageStart>>)
    [] e.type = "call_added"       -> HandleOutputItemAdded(s, e)
    [] e.type = "text_delta"       -> HandleTextDelta(s, e)
    [] e.type = "text_done"        -> HandleTextDone(s, e)
    [] e.type = "thinking_delta"   -> HandleThinkingDelta(s, e)
    [] e.type = "thinking_done"    -> HandleThinkingDone(s, e)
    [] e.type = "reasoning_done"   -> HandleReasoningDone(s, e)
    [] e.type = "compaction_done"  -> HandleCompactionDone(s, e)
    [] e.type = "arguments_delta"  -> HandleArgumentsDelta(s, e)
    [] e.type = "arguments_done"   -> HandleArgumentsDone(s, e)
    [] e.type = "completed"        -> HandleResponseCompleted(s, e)
    [] e.type = "failed"           -> Abandon(CloseAllOpenBlocks(s))
    [] e.type = "error"            -> Abandon(s)
    [] OTHER                       -> s
=============================================================================
