------------------------- MODULE MCPendingRequests -------------------------
(* Two questions and two brokers, one after the other.                       *)
EXTENDS PendingRequests
=============================================================================
