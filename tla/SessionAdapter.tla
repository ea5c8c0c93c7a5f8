--------------------------- MODULE SessionAdapter ---------------------------
(***************************************************************************)
(* Clients of a brokered MCP server and the sessions they hold.  A stdio   *)
(* adapter (packages/mcp-broker/src/stdio-adapter.ts) serves one client:   *)
(* it opens a session through Maximal's route /mcp/<id>                    *)
(* (src/routes/mcp/route.ts) and sends the client's calls on it.  When the *)
(* session is lost it opens another and sends the call again               *)
(* (resumable-transport.ts).  When the client is done it ends the session. *)
(* Meanwhile the broker may end and start again.                           *)
(*                                                                         *)
(* External: the HTTP transport of the SDK, which gives up the requests it *)
(* has on the wire when it is closed, and fails those sent after.          *)
(***************************************************************************)
EXTENDS BrokerSessions

CONSTANTS
    Adapters,   \* processes that serve a client each
    Calls,      \* tool calls of the clients
    OwnerOf,    \* OwnerOf[c]: the adapter whose client makes call c
    Tries,      \* bound: how many attempts fit in RECONNECT_WINDOW_MS
    MaxLives    \* bound: how many lives the broker has

ASSUME CallsAreFinite == IsFiniteSet(Calls)
ASSUME OwnersAreAdapters == OwnerOf \in [Calls -> Adapters]
ASSUME BoundsAreNumbers == Tries \in Nat \ {0} /\ MaxLives \in Nat \ {0}

VARIABLES
    broker,     \* whether the route has an upstream
    lives,      \* the life of the broker, the next one once it has ended
    adapter,    \* per adapter: its life, #inner, whether that is closed, the handshake
    call,       \* per call: how far it is, the transport it went out on, whether it went twice;
                \* history: how often a server ran it, how often it was cut off running
    left        \* history: sessions that their adapter let go of without ending them

vars == <<endpoint, sess, lru, broker, lives, adapter, call, left>>

Refs == Sessions \cup {Gone}

TypeOK ==
    /\ TableTypeOK
    /\ broker \in {"up", "down"}
    /\ lives \in 1 .. MaxLives
    /\ adapter \in [Adapters ->
          [pc : {"connecting", "serving", "ended", "gone"},
           inner : Refs, closed : BOOLEAN,
           shake : {"none", "trying", "opening", "answered"}, next : Refs,
           tries : Nat]]
    /\ call \in [Calls ->
          [at : {"new", "sent", "running", "lost", "parked", "done"},
           on : {"inner", "old"}, resent : BOOLEAN, runs : Nat, cut : Nat]]
    /\ left \subseteq Sessions

Fresh(stage) == [at |-> stage, on |-> "inner", resent |-> FALSE, runs |-> 0, cut |-> 0]

Init ==
    /\ TableInit
    /\ broker = "up"
    /\ lives = 1
    /\ adapter = [a \in Adapters |->
          [pc |-> "connecting", inner |-> Gone, closed |-> FALSE,
           shake |-> "trying", next |-> Gone, tries |-> 0]]
    /\ call = [c \in Calls |-> Fresh("new")]
    /\ left = {}

-----------------------------------------------------------------------------

(* What a step of the table leaves known: ids and marks of the others go.  *)
Known(r) ==
    IF r # Gone /\ sess'[r].at \in {"free", "closing"} THEN Gone ELSE r

AdapterBecomes(record) ==
    adapter' = [a \in Adapters |->
        [record[a] EXCEPT !.inner = Known(@), !.next = Known(@)]]

LeftBecomes(S) == left' = {s \in S : Known(s) = s}

Of(a, S) == {c \in Calls : OwnerOf[c] = a /\ call[c].at \in S}

(* A call is done when its client has an answer or an error; how it went   *)
(* is forgotten then.                                                      *)
CallsMove(C, stage) ==
    [c \in Calls |->
        IF c \notin C THEN call[c]
        ELSE IF stage = "done" THEN Fresh(stage)
        ELSE [call[c] EXCEPT !.at = stage]]

(* What becomes of a call whose transport is closed under it: the abort is *)
(* no sign of a lost session, so it is not sent again.                     *)
AfterAbort_Lost == "lost"
AfterAbort == "done"

(* The requests of a on the wire end; those that run no longer count. *)
Untrack(a) ==
    LET n == Cardinality(Of(a, {"running"})) IN
    IF n > 0 /\ adapter[a].inner # Gone
    THEN Ended(adapter[a].inner, n)
    ELSE UNCHANGED tableVars

-----------------------------------------------------------------------------
(* Opening a session: retryWhileUnreachable around connect or #handshake.  *)

Shake(a, stage, ref) == [adapter EXCEPT ![a].shake = stage, ![a].next = ref]

(* An attempt failed as unreachable: another may follow, until the         *)
(* deadline.                                                               *)
Unreachable(a) ==
    [adapter EXCEPT ![a].shake = "trying", ![a].next = Gone, ![a].tries = @ + 1]

MayTry(a) ==
    /\ adapter[a].shake = "trying"
    /\ adapter[a].tries < Tries

(* 503: no upstream, too many requests, or the limit with every one busy;  *)
(* 502 or a refused connection: the broker or Maximal is not there.        *)
Refused(a) ==
    /\ MayTry(a)
    /\ adapter' = Unreachable(a)
    /\ UNCHANGED <<tableVars, broker, lives, call, left>>

(* The initialize reaches createServer. *)
Admitted(a) ==
    /\ MayTry(a)
    /\ broker = "up"
    /\ \E s \in Sessions :
          /\ Reserve(s)
          /\ AdapterBecomes(Shake(a, "opening", s))
    /\ LeftBecomes(left)
    /\ UNCHANGED <<broker, lives, call>>

(* The session failed to start, or the broker ended: 502. *)
OpeningFails(a) ==
    /\ adapter[a].shake = "opening"
    /\ adapter[a].next = Gone
    /\ adapter' = Unreachable(a)
    /\ UNCHANGED <<tableVars, broker, lives, call, left>>

(* The route gives up waiting for the answer (headersTimer) and says 502;  *)
(* createServer goes on without its client.                                *)
OpeningTimesOut(a) ==
    /\ adapter[a].shake = "opening"
    /\ adapter[a].next # Gone
    /\ left' = left \cup {adapter[a].next}
    /\ adapter' = Unreachable(a)
    /\ UNCHANGED <<tableVars, broker, lives, call>>

(* `initialized` went through: the session is the adapter's.  The calls    *)
(* that waited go out again.  Nothing ends a session that comes up after   *)
(* its adapter has ended, nor the one it replaces.                         *)
Initialized(a) ==
    LET s == adapter[a].next IN
    /\ adapter[a].shake = "answered"
    /\ broker = "up"
    /\ s # Gone
    /\ lru' = Touched(s)
    /\ adapter' = [adapter EXCEPT ![a].shake = "none", ![a].next = Gone, ![a].tries = 0,
                      ![a].pc = IF @ = "connecting" THEN "serving" ELSE @,
                      ![a].inner = s, ![a].closed = FALSE]
    /\ call' = [c \in Calls |->
          IF c \in Of(a, {"parked"}) THEN [call[c] EXCEPT !.at = "sent", !.resent = TRUE]
          ELSE IF c \in Of(a, {"lost"}) THEN [call[c] EXCEPT !.on = "old"]
          ELSE call[c]]
    /\ left' = left \cup ({adapter[a].inner} \ {Gone})
                    \cup (IF adapter[a].pc = "ended" THEN {s} ELSE {})
    /\ UNCHANGED <<endpoint, sess, broker, lives>>

(* connect or #replaceSession throws, to the calls that waited for it. *)
Throws(a) ==
    /\ adapter' = [adapter EXCEPT ![a].shake = "none", ![a].next = Gone, ![a].tries = 0,
                      ![a].pc = IF @ = "connecting" THEN "gone" ELSE @]
    /\ call' = CallsMove(Of(a, {"parked"}), "done")

(* `initialized` is refused: tried again after a 503; after a 404 thrown,   *)
(* unless it is the client's own, which the transport takes for a lost     *)
(* session (to be replaced while connect waits).                           *)
InitializedFails(a) ==
    /\ adapter[a].shake = "answered"
    /\ left' = left \cup ({adapter[a].next} \ {Gone})
    /\ \/ /\ adapter[a].next # Gone \/ broker = "down" \/ adapter[a].pc = "connecting"
          /\ adapter' = Unreachable(a)
          /\ UNCHANGED call
       \/ /\ adapter[a].next = Gone
          /\ broker = "up"
          /\ adapter[a].pc # "connecting"
          /\ Throws(a)
    /\ UNCHANGED <<tableVars, broker, lives>>

(* The attempt is refused for another reason (401, or 404 for an endpoint  *)
(* that was turned off), or the next one would be past the deadline.       *)
GiveUp(a) ==
    /\ adapter[a].shake = "trying"
    /\ Throws(a)
    /\ UNCHANGED <<tableVars, broker, lives, left>>

Handshake(a) ==
    Refused(a) \/ Admitted(a) \/ OpeningFails(a) \/ OpeningTimesOut(a)
    \/ Initialized(a) \/ InitializedFails(a) \/ GiveUp(a)

-----------------------------------------------------------------------------
(* A call: ResumableTransport.send, the route, the front door.             *)

Send(c) ==
    LET a == OwnerOf[c] IN
    /\ call[c].at = "new"
    /\ adapter[a].pc = "serving"
    /\ call' = CallsMove({c}, IF adapter[a].closed THEN AfterAbort ELSE "sent")
    /\ UNCHANGED <<tableVars, broker, lives, adapter, left>>

(* 404 for a session the broker does not know; 503 without a broker, or    *)
(* with too many requests, from the route itself.  Any other refusal, like *)
(* 401 or 413, is the answer.                                              *)
CallRefused(c) ==
    /\ call[c].at = "sent"
    /\ \E stage \in {"lost", "done"} : call' = CallsMove({c}, stage)
    /\ UNCHANGED <<tableVars, broker, lives, adapter, left>>

Forward(c) ==
    LET s == adapter[OwnerOf[c]].inner IN
    /\ call[c].at = "sent"
    /\ broker = "up"
    /\ s # Gone
    /\ TrackRequest(s)
    /\ call' = [call EXCEPT ![c].at = "running", ![c].runs = @ + 1]
    /\ UNCHANGED <<broker, lives, adapter, left>>

(* The server's answer, or an error of its own, or the broker's time limit *)
(* on the call.                                                            *)
Answer(c) ==
    /\ call[c].at = "running"
    /\ Ended(adapter[OwnerOf[c]].inner, 1)
    /\ call' = CallsMove({c}, "done")
    /\ UNCHANGED <<broker, lives, adapter, left>>

(* The route's headersTimer aborts the request: 502, as if nobody had been *)
(* reached.                                                                *)
RouteTimesOut(c) ==
    /\ call[c].at = "running"
    /\ Ended(adapter[OwnerOf[c]].inner, 1)
    /\ call' = [call EXCEPT ![c].at = "lost", ![c].cut = @ + 1]
    /\ UNCHANGED <<broker, lives, adapter, left>>

(* The catch of send.  A second failure is the call's.  The first replaces *)
(* the session, once for all the calls that lost it: the old transport is  *)
(* closed, which aborts what is still on the wire.                         *)
OnLost(c) ==
    LET a == OwnerOf[c]
        me == adapter[a] IN
    /\ call[c].at = "lost"
    /\ \/ /\ call[c].resent
          /\ call' = CallsMove({c}, "done")
          /\ UNCHANGED <<tableVars, adapter>>
       \/ /\ ~call[c].resent
          /\ call[c].on = "old"
          /\ call' = IF me.closed THEN CallsMove({c}, AfterAbort)
                     ELSE [call EXCEPT ![c].at = "sent", ![c].on = "inner", ![c].resent = TRUE]
          /\ UNCHANGED <<tableVars, adapter>>
       \/ /\ ~call[c].resent
          /\ call[c].on = "inner"
          /\ me.shake # "none"
          /\ call' = CallsMove({c}, "parked")
          /\ UNCHANGED <<tableVars, adapter>>
       \/ /\ ~call[c].resent
          /\ call[c].on = "inner"
          /\ me.shake = "none"
          /\ Untrack(a)
          /\ call' = [CallsMove(Of(a, {"sent", "running"}), AfterAbort) EXCEPT ![c].at = "parked"]
          /\ adapter' = [adapter EXCEPT ![a].closed = TRUE, ![a].shake = "trying"]
    /\ UNCHANGED <<broker, lives, left>>

CallStep(c) ==
    CallRefused(c) \/ Forward(c) \/ Answer(c) \/ RouteTimesOut(c) \/ OnLost(c)

-----------------------------------------------------------------------------
(* The end of an adapter.                                                  *)

(* The client closes stdin, or a signal: the DELETE of #inner's session is *)
(* done, or fails, or takes too long; then the client is closed.           *)
EndSession(a) ==
    LET s == adapter[a].inner
        mine == [adapter EXCEPT ![a].pc = "ended", ![a].closed = TRUE, ![a].inner = Gone] IN
    /\ adapter[a].pc = "serving"
    /\ call' = CallsMove(Of(a, {"new", "sent", "running"}), AfterAbort)
    /\ \/ /\ s # Gone
          /\ broker = "up"
          /\ Forget(s)
          /\ LeftBecomes(left)
       \/ /\ Untrack(a)
          /\ LeftBecomes(left \cup ({s} \ {Gone}))
    /\ AdapterBecomes(mine)
    /\ UNCHANGED <<broker, lives>>

(* The process is killed: only the operating system closes its sockets.    *)
(* (Killed while it connects, it is one that gave up.)                     *)
Kill(a) ==
    LET me == adapter[a] IN
    /\ me.pc = "serving"
    /\ Untrack(a)
    /\ left' = left \cup ({me.inner, me.next} \ {Gone})
    /\ adapter' = [adapter EXCEPT ![a] =
          [pc |-> "gone", inner |-> Gone, closed |-> TRUE,
           shake |-> "none", next |-> Gone, tries |-> 0]]
    /\ call' = CallsMove(Of(a, {"new", "sent", "running", "lost", "parked"}), "done")
    /\ UNCHANGED <<broker, lives>>

-----------------------------------------------------------------------------
(* The endpoint and the broker.                                            *)

(* A step of the table that only moves a session.  The answer to the       *)
(* initialize travels with the id.                                         *)
TableStep(s) ==
    /\ \/ (Started(s) \/ StartFails(s) \/ Closed(s)) /\ AdapterBecomes(adapter)
       \/ Identified(s) /\ AdapterBecomes([a \in Adapters |->
             IF adapter[a].shake = "opening" /\ adapter[a].next = s
             THEN [adapter[a] EXCEPT !.shake = "answered"] ELSE adapter[a]])
    /\ LeftBecomes(left)
    /\ UNCHANGED <<broker, lives, call>>

(* mcp-proxy closes a session that is idle and whose client is away. *)
Reap(s) ==
    /\ s \in left
    /\ sess[s].inFlight = 0
    /\ Forget(s)
    /\ LeftBecomes(left)
    /\ AdapterBecomes(adapter)
    /\ UNCHANGED <<broker, lives, call>>

(* Bounds: the limit only goes down, in the first life. *)
LiveUpdate ==
    /\ broker = "up"
    /\ lives = 1
    /\ \E limit \in {m \in Limits : m < endpoint} : Update(limit)
    /\ UNCHANGED <<broker, lives, adapter, call, left>>

(* The broker ends: every answer it owed is a broken connection, which the *)
(* route reports as 502.                                                   *)
BrokerEnds ==
    LET running == {c \in Calls : call[c].at = "running"} IN
    /\ broker = "up"
    /\ lives < MaxLives
    /\ broker' = "down"
    /\ lives' = lives + 1
    /\ CloseAll
    /\ AdapterBecomes(adapter)
    /\ LeftBecomes(left)
    /\ call' = [c \in Calls |->
          IF c \in running THEN [call[c] EXCEPT !.at = "lost", !.cut = @ + 1] ELSE call[c]]

BrokerStarts ==
    /\ broker = "down"
    /\ broker' = "up"
    /\ UNCHANGED <<tableVars, lives, adapter, call, left>>

-----------------------------------------------------------------------------

Next ==
    \/ \E a \in Adapters : Handshake(a) \/ EndSession(a) \/ Kill(a)
    \/ \E c \in Calls : Send(c) \/ CallStep(c)
    \/ \E s \in Sessions : TableStep(s) \/ Reap(s)
    \/ LiveUpdate \/ BrokerEnds \/ BrokerStarts

Spec == Init /\ [][Next]_vars

-----------------------------------------------------------------------------

(* A session is held by an adapter that can still end it, or was let go of *)
(* at a place that says so: an opening that timed out, a replacement of a  *)
(* session that was only busy, an end without its DELETE, a kill.  Two     *)
(* replacements at once would leave a session that nobody knows.           *)
EverySessionHeld ==
    \A s \in Counted :
        \/ s \in left
        \/ \E a \in Adapters :
              \/ adapter[a].next = s /\ adapter[a].shake # "none"
              \/ adapter[a].inner = s /\ adapter[a].pc = "serving"

(* A call runs in a session that is still open, and the session knows: so  *)
(* eviction, which looks at inFlight only, never takes a server away from  *)
(* a call.                                                                 *)
RunningHasSession ==
    /\ \A c \in Calls : call[c].at = "running" =>
          adapter[OwnerOf[c]].inner \in SessionAt({"ready"})
    /\ \A s \in Sessions : sess[s].inFlight =
          Cardinality({c \in Calls : call[c].at = "running" /\ adapter[OwnerOf[c]].inner = s})

(* Whoever waits, waits for something still to come, whatever failed, was  *)
(* evicted or ended meanwhile: a call for a replacement that goes on, an   *)
(* opening for a session that is still being opened, a newcomer for an     *)
(* instance that is still closing.                                         *)
NobodyWaitsInVain ==
    /\ \A c \in Calls : call[c].at = "parked" => adapter[OwnerOf[c]].shake # "none"
    /\ \A a \in Adapters : adapter[a].shake = "opening" /\ adapter[a].next # Gone =>
          sess[adapter[a].next].at \in {"room", "starting", "open"}
    /\ \A s \in SessionAt({"room"}) :
          sess[s].waits # Gone /\ sess[sess[s].waits].at = "closing"

(* Types; every session has an owner who can end it or was let go of;      *)
(* every call that runs has its session; nobody waits in vain.             *)
AdapterInvariant ==
    /\ TypeOK
    /\ EverySessionHeld
    /\ RunningHasSession
    /\ NobodyWaitsInVain

(* However many clients open a session at once, and whatever is closing,   *)
(* failing or updated meanwhile, no session is added past the limit that   *)
(* holds then.                                                             *)
LimitHolds ==
    [][Cardinality(Counted') > Cardinality(Counted)
          => Cardinality(Counted') <= endpoint]_vars

(* A lost session, an eviction, a broker that is away, a refusal: none of  *)
(* these makes a server run a call again.  Only a call that was cut off    *)
(* while it ran runs again, and no call more than twice.                   *)
ResentOnlyWhenCut == \A c \in Calls : call[c].runs <= 1 + call[c].cut /\ call[c].runs <= 2

=============================================================================
