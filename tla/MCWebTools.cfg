SPECIFICATION Spec
CONSTANTS
  Modes = {"stream", "whole"}
  Tools = {"web_search", "web_fetch"}
  MaxUses = 1
  MaxAgentTurns = 3
  MaxBlocks = 2
INVARIANTS
  AgentInvariant
  UsageSummed
  EveryCallAnswered
PROPERTIES
  ImplementsStream
CHECK_DEADLOCK FALSE
