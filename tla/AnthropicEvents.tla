-------------------------- MODULE AnthropicEvents --------------------------
(***************************************************************************)
(* The events of an Anthropic message stream                               *)
(* (lib/models/anthropic-types.ts), and the translators' common way of     *)
(* pushing them: a translator state is a record whose field out holds the  *)
(* events of the chunk under translation.  A delta says what it carries:   *)
(*   piece      a fragment of the model's own text, thinking or arguments  *)
(*   blank      a fragment of arguments that is only white space           *)
(*   whole      the full content, for a block that had no fragment         *)
(*   filler     the constant THINKING_TEXT                                 *)
(*   signature  a signature_delta                                          *)
(***************************************************************************)
EXTENDS Naturals, Sequences

Kinds == {"text", "thinking", "tool_use", "server_tool_use", "web_tool_result"}

Content == {"piece", "blank", "whole"}

Payloads == Content \cup {"filler", "signature"}

MessageStart == [type |-> "message_start"]

BlockStart(i, kind) ==
  [type |-> "content_block_start", index |-> i, kind |-> kind]

BlockDelta(i, kind, payload) ==
  [type |-> "content_block_delta", index |-> i, kind |-> kind, payload |-> payload]

BlockStop(i) == [type |-> "content_block_stop", index |-> i]

MessageDelta == [type |-> "message_delta"]

MessageStop == [type |-> "message_stop"]

ErrorEvent == [type |-> "error"]

PingEvent == [type |-> "ping"]

Push(s, events) == [s EXCEPT !.out = @ \o events]

(* How many fragments of content the event carries. *)
Carries(e) == IF e.type = "content_block_delta" /\ e.payload \in Content THEN 1 ELSE 0
=============================================================================
