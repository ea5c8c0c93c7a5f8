--------------------------- MODULE PendingRequests ---------------------------
(* MCP servers' requests for user input: the broker's side                  *)
(* (packages/mcp-broker/src/elicitation.ts and maximal-elicitations.ts),    *)
(* the sidecar's (src/lib/mcp-broker/pending-requests.ts and #onElicit of   *)
(* supervisor.ts), and the control channel between them.                    *)
(*                                                                          *)
(* A server's question is put to the session's own client or to Maximal.    *)
(* The user's answer, the question's time limit, the server's change of     *)
(* mind and the death of the broker race each other in two processes that   *)
(* only share two pipes.  BrokerSupervisor has the life of a generation in  *)
(* full; here it only starts, fails, is stopped, and is gone.               *)
EXTENDS Naturals, Sequences

CONSTANTS
  Requests,       \* questions the servers ask
  MaxGeneration,  \* bound: broker processes started
  None

ASSUME GenerationsAssumption == MaxGeneration \in Nat \ {0}

VARIABLES
  generation,  \* the supervisor's current generation, or 0
  newest,      \* the generation started last
  alive,       \* broker processes that still run
  stopped,     \* generations the supervisor has been told to stop
  asked,       \* per request: where the broker's promise for it is
  result,      \* per request: what the server was answered
  home,        \* per request: the broker whose session asked
  aborted,     \* requests whose signal has fired
  expired,     \* requests past their expiresAt
  up,          \* frames written by a broker and not yet read
  down,        \* frames written to a broker and not yet read
  entries,     \* the store: requests that Settings shows
  told         \* per request: the answer the user was told is sent

broker == <<asked, result, home, aborted>>
store == <<entries, told>>
life == <<generation, newest, alive, stopped>>
vars == <<life, broker, store, expired, up, down>>

Generations == 1 .. MaxGeneration
Answers == {"accept", "decline", "cancel"}
UserAnswers == {"accept", "decline"}  \* a user's "cancel" travels like a "decline"
Frames == [kind : {"elicit", "withdrawn"}, id : Requests]
Results == [id : Requests, answer : Answers]

TypeOK ==
  /\ generation \in 0 .. MaxGeneration /\ newest \in 0 .. MaxGeneration
  /\ {alive, stopped} \subseteq SUBSET Generations
  /\ asked \in [Requests -> {"no", "client", "maximal", "done"}]
  /\ result \in [Requests -> Answers \cup {None}]
  /\ home \in [Requests -> 0 .. MaxGeneration]
  /\ {aborted, expired, entries} \subseteq SUBSET Requests
  /\ up \in [Generations -> Seq(Frames)] /\ down \in [Generations -> Seq(Results)]
  /\ told \in [Requests -> Answers \cup {None}]

Init ==
  /\ generation = 0 /\ newest = 0 /\ alive = {} /\ stopped = {}
  /\ asked = [r \in Requests |-> "no"]
  /\ result = [r \in Requests |-> None]
  /\ home = [r \in Requests |-> 0]
  /\ aborted = {} /\ expired = {}
  /\ up = [g \in Generations |-> <<>>] /\ down = [g \in Generations |-> <<>>]
  /\ entries = {}
  /\ told = [r \in Requests |-> None]

----------------------------------------------------------------------------
(* --- the broker -------------------------------------------------------- *)

Waiting(r) == asked[r] \in {"client", "maximal"} /\ home[r] \in alive

Settles(r, answer) ==
  /\ asked' = [asked EXCEPT ![r] = "done"]
  /\ result' = [result EXCEPT ![r] = answer]

Writes(g, kind, r) == up' = [up EXCEPT ![g] = Append(@, [kind |-> kind, id |-> r])]

(* answerElicitation: the policy, the forms that are refused unseen and     *)
(* what the client can show decide who is asked.                            *)
Elicit(r, whom) ==
  /\ asked[r] = "no"
  /\ \E g \in alive :
       /\ home' = [home EXCEPT ![r] = g]
       /\ \/ whom = "nobody" /\ Settles(r, "decline") /\ UNCHANGED up
          \/ /\ whom = "client"
             /\ asked' = [asked EXCEPT ![r] = "client"]
             /\ UNCHANGED <<result, up>>
          \/ /\ whom = "maximal"
             /\ asked' = [asked EXCEPT ![r] = "maximal"]
             /\ Writes(g, "elicit", r)
             /\ UNCHANGED result
  /\ UNCHANGED <<life, aborted, store, expired, down>>

ClientAnswers(r, answer) ==
  /\ Waiting(r) /\ asked[r] = "client"
  /\ Settles(r, answer)
  /\ UNCHANGED <<life, home, aborted, store, expired, up, down>>

(* The client could not take it after all; Maximal can, if it can show it.  *)
ClientFails(r, shown) ==
  /\ Waiting(r) /\ asked[r] = "client"
  /\ IF shown
       THEN /\ asked' = [asked EXCEPT ![r] = "maximal"]
            /\ Writes(home[r], "elicit", r)
            /\ UNCHANGED result
       ELSE Settles(r, "decline") /\ UNCHANGED up
  /\ UNCHANGED <<life, home, aborted, store, expired, down>>

(* The signal: the time limit, the server's cancellation or the end of the  *)
(* session.                                                                 *)
Abort(r) ==
  /\ Waiting(r)
  /\ aborted' = aborted \cup {r}
  /\ Settles(r, "cancel")
  /\ IF asked[r] = "maximal" THEN Writes(home[r], "withdrawn", r)
     ELSE UNCHANGED up
  /\ UNCHANGED <<life, home, store, expired, down>>

(* settle: an answer nobody waits for any more is ignored.                  *)
ReadsResult(g) ==
  LET frame == Head(down[g])
  IN /\ g \in alive /\ down[g] # <<>>
     /\ down' = [down EXCEPT ![g] = Tail(@)]
     /\ IF asked[frame.id] = "maximal" THEN Settles(frame.id, frame.answer)
        ELSE UNCHANGED <<asked, result>>
     /\ UNCHANGED <<life, home, aborted, store, expired, up>>

(* close and cancelAll, or a plain death: every session ends and nothing is *)
(* withdrawn.  What was written may still be read.                          *)
BrokerEnds(g) ==
  LET left == {r \in Requests : home[r] = g /\ asked[r] \in {"client", "maximal"}}
  IN /\ g \in alive
     /\ alive' = alive \ {g}
     /\ asked' = [r \in Requests |-> IF r \in left THEN "done" ELSE asked[r]]
     /\ result' = [r \in Requests |-> IF r \in left THEN "cancel" ELSE result[r]]
     /\ aborted' = aborted \cup left
     /\ UNCHANGED <<generation, newest, stopped, home, store, expired, up, down>>

(* --- the sidecar ------------------------------------------------------- *)

(* #send: only to the current generation.                                   *)
Replies(r, answer) ==
  IF home[r] = generation
    THEN down' = [down EXCEPT ![generation] = Append(@, [id |-> r, answer |-> answer])]
    ELSE UNCHANGED down

(* #handleEnvelope of the two frames; a form with a field Maximal does not  *)
(* know is declined.                                                        *)
ReadsFrame(shown) ==
  LET frame == Head(up[generation])
  IN /\ generation # 0 /\ up[generation] # <<>>
     /\ up' = [up EXCEPT ![generation] = Tail(@)]
     /\ \/ /\ frame.kind = "elicit" /\ shown
           /\ entries' = entries \cup {frame.id}
           /\ UNCHANGED down
        \/ /\ frame.kind = "elicit" /\ ~shown
           /\ Replies(frame.id, "decline")
           /\ UNCHANGED entries
        \/ /\ frame.kind = "withdrawn" /\ shown
           /\ entries' = entries \ {frame.id}
           /\ UNCHANGED down
     /\ UNCHANGED <<life, broker, told, expired>>

(* Mutated form: the broker is trusted to withdraw what expires.            *)
Live_Trusting == entries

(* #forgetExpired runs when somebody looks.                                 *)
Live == entries \ expired

(* list and summary: the shell polls.                                       *)
Look ==
  /\ entries' = Live
  /\ UNCHANGED <<life, broker, told, expired, up, down>>

(* Mutated form: answering leaves the request in the list.                  *)
Answer_Kept(r, answer, valid) ==
  /\ r \in Live /\ valid
  /\ entries' = Live
  /\ told' = [told EXCEPT ![r] = answer]
  /\ Replies(r, answer)
  /\ UNCHANGED <<life, broker, expired, up>>

(* answer: "not-found" and "answered" change nothing but the expired, and   *)
(* neither does an answer that does not fit the form.                       *)
Answer(r, answer, valid) ==
  /\ IF r \in Live /\ valid
       THEN /\ entries' = Live \ {r}
            /\ told' = [told EXCEPT ![r] = answer]
            /\ Replies(r, answer)
       ELSE entries' = Live /\ UNCHANGED <<told, down>>
  /\ UNCHANGED <<life, broker, expired, up>>

Expires(r) ==
  /\ asked[r] # "no" /\ r \notin expired
  /\ expired' = expired \cup {r}
  /\ UNCHANGED <<life, broker, store, up, down>>

(* --- generations ------------------------------------------------------- *)

Launch ==
  /\ generation = 0 /\ newest < MaxGeneration
  /\ newest' = newest + 1 /\ generation' = newest + 1
  /\ alive' = alive \cup {newest + 1}
  /\ UNCHANGED <<stopped, broker, store, expired, up, down>>

(* Mutated form: what a failed broker asked stays in the list.              *)
DropGeneration_Kept(g) == UNCHANGED entries

DropGeneration(g) == entries' = {r \in entries : home[r] # g}

(* failGeneration, and the exit of the current generation's process.  A     *)
(* failure while it is being stopped is left to the stop.                   *)
Loses ==
  /\ generation # 0 /\ (generation \in stopped => generation \notin alive)
  /\ DropGeneration(generation)
  /\ generation' = 0
  /\ UNCHANGED <<newest, alive, stopped, broker, told, expired, up, down>>

(* performStop drops the requests first and lets go of the generation when  *)
(* the broker has answered or run out of time.                              *)
Stop ==
  /\ generation \in Generations \ stopped
  /\ stopped' = stopped \cup {generation}
  /\ DropGeneration(generation)
  /\ UNCHANGED <<generation, newest, alive, broker, told, expired, up, down>>

StopEnds ==
  /\ generation \in stopped
  /\ generation' = 0
  /\ UNCHANGED <<newest, alive, stopped, broker, store, expired, up, down>>

Next ==
  \/ \E r \in Requests : \/ \E whom \in {"nobody", "client", "maximal"} : Elicit(r, whom)
                         \/ \E a \in UserAnswers : ClientAnswers(r, a)
                         \/ \E shown \in BOOLEAN : ClientFails(r, shown)
                         \/ Abort(r) \/ Expires(r)
                         \/ \E a \in UserAnswers, valid \in BOOLEAN : Answer(r, a, valid)
  \/ \E g \in Generations : ReadsResult(g) \/ BrokerEnds(g)
  \/ \E shown \in BOOLEAN : ReadsFrame(shown)
  \/ Look \/ Launch \/ Loses \/ Stop \/ StopEnds

Spec == Init /\ [][Next]_vars

(* The time limit of a question is a timer of the broker's, a clock passes  *)
(* every expiresAt, and the shell polls the list.                           *)
FairSpec ==
  /\ Spec
  /\ \A r \in Requests : WF_vars(Abort(r)) /\ WF_vars(Expires(r))
  /\ WF_vars(Look)

----------------------------------------------------------------------------
(* --- properties -------------------------------------------------------- *)

Sent(frames, frame) == \E i \in DOMAIN frames : frames[i] = frame

(* Settings shows a question only while its broker still waits for the      *)
(* answer, or has written the withdrawal, or has died unnoticed.  The       *)
(* exception is a broker told to stop: it can still ask, and what it asked  *)
(* then is not dropped again.                                               *)
ShownIsAwaited ==
  \A r \in entries :
    \/ home[r] \in stopped
    \/ /\ home[r] = generation
       /\ \/ asked[r] = "maximal" \/ home[r] \notin alive
          \/ Sent(up[generation], [kind |-> "withdrawn", id |-> r])

(* Types, and ShownIsAwaited: the two ends of the channel agree about which *)
(* questions are open.                                                      *)
RequestsInvariant == TypeOK /\ ShownIsAwaited

(* An answer the user is told was sent is the one the server gets, unless   *)
(* the question was taken back first, or came from a broker told to stop.   *)
(* In particular a second answer never changes or replaces the first.       *)
OkIsDelivered ==
  \A r \in Requests : told[r] # None =>
    \/ home[r] \in stopped \/ r \in aborted
    \/ asked[r] = "maximal" /\ Sent(down[home[r]], [id |-> r, answer |-> told[r]])
    \/ asked[r] = "done" /\ result[r] = told[r]

(* Every question is answered in the end, and then Settings stops showing   *)
(* it for good, whichever of the two processes failed in between.           *)
EveryQuestionEnds ==
  \A r \in Requests :
    asked[r] # "no" ~> [](asked[r] = "done" /\ r \notin entries)
=============================================================================
