---------------------------- MODULE StreamClient ----------------------------
(***************************************************************************)
(* A client of /v1/messages, external: it takes every event it is sent and *)
(* keeps the place in the stream that the events give it.                  *)
(***************************************************************************)
EXTENDS AnthropicEvents

NoBlock == [index |-> 0, kind |-> "none"]

NewClient ==
  [phase |-> "none", blocks |-> 0, open |-> NoBlock, blanks |-> 0,
   last |-> [type |-> "none"], tick |-> FALSE]

Phases == {"none", "started", "finishing", "stopped", "failed"}

Hear(c, e) ==
  LET at == [c EXCEPT !.last = e, !.tick = ~@]
  IN  CASE e.type = "message_start"       -> [at EXCEPT !.phase = "started"]
        [] e.type = "content_block_start" ->
             [at EXCEPT !.open = [index |-> e.index, kind |-> e.kind],
                        !.blocks = e.index + 1, !.blanks = 0]
        [] e.type = "content_block_delta" ->
             [at EXCEPT !.blanks = IF e.payload = "blank" THEN @ + 1 ELSE 0]
        [] e.type = "content_block_stop"  -> [at EXCEPT !.open = NoBlock]
        [] e.type = "message_delta"       -> [at EXCEPT !.phase = "finishing"]
        [] e.type = "message_stop"        -> [at EXCEPT !.phase = "stopped"]
        [] e.type = "error"               -> [at EXCEPT !.phase = "failed"]
        [] OTHER                          -> at

(* The client knows that nothing more will come. *)
Told(c) == c.phase \in {"stopped", "failed"}
=============================================================================
