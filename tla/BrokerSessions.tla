--------------------------- MODULE BrokerSessions ---------------------------
(***************************************************************************)
(* The session table of one endpoint of the MCP broker                     *)
(* (packages/mcp-broker/src/broker-server.ts, startEndpoint).  Every       *)
(* session of a client has an instance of the MCP server to itself.  At    *)
(* the limit the least recently used idle session makes room for a new     *)
(* one.  The callbacks of the HTTP listener run in one event loop, with    *)
(* others between their awaits.                                            *)
(*                                                                         *)
(* External: the listener (mcp-proxy), which calls createServer for an     *)
(* initialize, gives the transport its id, and calls onClose; proxyServer, *)
(* which only installs handlers, so that its await lets nobody else run.   *)
(*                                                                         *)
(* The operators below are steps of the table; SessionAdapter says who     *)
(* takes them and when.                                                    *)
(***************************************************************************)
EXTENDS Naturals, FiniteSets, Sequences, SequencesExt

CONSTANTS
    Sessions,   \* slots for sessions
    Limits,     \* the values maxSessions may take
    Gone        \* an id that the endpoint does not know

ASSUME SlotsAreFinite == IsFiniteSet(Sessions)
ASSUME GoneIsNoSession == Gone \notin Sessions
ASSUME LimitsAreSizes == Limits \subseteq Nat \ {0}

VARIABLES
    endpoint,   \* endpoint.maxSessions, as of the last update
    sess,       \* per slot: where its session is, its requests in flight, the eviction it waits for
    lru         \* the sessions by lastUsedAt, the least recently used first

tableVars == <<endpoint, sess, lru>>

(* Stages: createServer waits for the eviction ("room"), for the upstream  *)
(* to connect ("starting"); the session is in the map without ("open") and *)
(* with an id ("ready"); it is forgotten, but its instance still closes.   *)
Stages == {"free", "room", "starting", "open", "ready", "closing"}

Session(stage, victim) == [at |-> stage, inFlight |-> 0, waits |-> victim]

SessionAt(S) == {s \in Sessions : sess[s].at \in S}

TableInit ==
    /\ endpoint \in Limits
    /\ sess = [s \in Sessions |-> Session("free", Gone)]
    /\ lru = <<>>

TableTypeOK ==
    /\ endpoint \in Limits
    /\ sess \in [Sessions -> [at : Stages, inFlight : Nat, waits : Sessions \cup {Gone}]]
    /\ lru \in Seq(Sessions)

-----------------------------------------------------------------------------

(* What the limit counts: the sessions of the map and those being opened.  *)
Counted == SessionAt({"open", "ready"}) \cup SessionAt({"room", "starting"})

Full_Unreserved == Cardinality(SessionAt({"open", "ready"})) >= endpoint
Full == Cardinality(Counted) >= endpoint

Evictable_Busy == SessionAt({"ready"})

(* A session still initializing, or with a request in flight, is never     *)
(* chosen.                                                                 *)
Evictable == {s \in SessionAt({"ready"}) : sess[s].inFlight = 0}

EvictionCandidate(s) ==
    /\ s \in Evictable
    /\ \E i \in DOMAIN lru :
          lru[i] = s /\ \A j \in 1 .. i - 1 : lru[j] \notin Evictable

Without(s) ==
    IF \E i \in DOMAIN lru : lru[i] = s
    THEN RemoveAt(lru, CHOOSE i \in DOMAIN lru : lru[i] = s)
    ELSE lru

Touched(s) == Append(Without(s), s)

(* createServer up to its first await: the check, the eviction and the     *)
(* reservation are one turn.  lastUsedAt is the time of this call.         *)
Reserve(s) ==
    /\ sess[s].at = "free"
    /\ \/ /\ ~Full
          /\ sess' = [sess EXCEPT ![s] = Session("starting", Gone)]
          /\ lru' = Touched(s)
       \/ /\ Full
          /\ \E victim \in Sessions :
                /\ EvictionCandidate(victim)
                /\ sess' = [sess EXCEPT ![victim] = Session("closing", Gone),
                                        ![s] = Session("room", victim)]
                /\ lru' = Append(Without(victim), s)
    /\ UNCHANGED endpoint

(* The instance has connected: the session enters the map. *)
Started(s) ==
    /\ sess[s].at = "starting"
    /\ sess' = [sess EXCEPT ![s].at = "open"]
    /\ UNCHANGED <<endpoint, lru>>

(* connectUpstream throws: the slot is released and the answer is a 502. *)
StartFails(s) ==
    /\ sess[s].at = "starting"
    /\ sess' = [sess EXCEPT ![s] = Session("free", Gone)]
    /\ lru' = Without(s)
    /\ UNCHANGED endpoint

(* The transport takes the initialize that opened it, and has an id. *)
Identified(s) ==
    /\ sess[s].at = "open"
    /\ sess' = [sess EXCEPT ![s].at = "ready"]
    /\ UNCHANGED <<endpoint, lru>>

(* onClose, after a DELETE or an idle timeout: forgotten at once. *)
Forget(s) ==
    /\ sess[s].at = "ready"
    /\ sess' = [sess EXCEPT ![s] = Session("closing", Gone)]
    /\ lru' = Without(s)
    /\ UNCHANGED endpoint

(* The instance has ended; who waited for it to make room goes on. *)
Closed(s) ==
    /\ sess[s].at = "closing"
    /\ sess' = [t \in Sessions |->
                   IF t = s THEN Session("free", Gone)
                   ELSE IF sess[t].waits = s THEN Session("starting", Gone)
                   ELSE sess[t]]
    /\ UNCHANGED <<endpoint, lru>>

(* trackRequest, and what it returns, for n requests. *)
TrackRequest(s) ==
    /\ sess' = [sess EXCEPT ![s].inFlight = @ + 1]
    /\ lru' = Touched(s)
    /\ UNCHANGED endpoint

Ended(s, n) ==
    /\ sess' = [sess EXCEPT ![s].inFlight = @ - n]
    /\ lru' = Touched(s)
    /\ UNCHANGED endpoint

(* An update is for the sessions that start from now on. *)
Update(limit) ==
    /\ endpoint' = limit
    /\ UNCHANGED <<sess, lru>>

(* The broker has ended, in order or not: its process and its instances. *)
CloseAll ==
    /\ sess' = [s \in Sessions |-> Session("free", Gone)]
    /\ lru' = <<>>
    /\ UNCHANGED endpoint

=============================================================================
