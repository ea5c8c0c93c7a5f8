-------------------------- MODULE BrokerSupervisor --------------------------
(***************************************************************************)
(* The supervision of the MCP broker (src/lib/mcp-broker/supervisor.ts):   *)
(* one BrokerSupervisor at a time, replaced whenever the configuration     *)
(* changes, the broker processes ("generations") it launches, the queue of *)
(* configuration changes, and those who wait for the broker to serve.      *)
(*                                                                         *)
(* A replaced supervisor is stopped and can do nothing more than end the   *)
(* generations it gave up on, so `sup` is the newest one and those         *)
(* generations say whose they are.  Timers may elapse at any time, and the *)
(* broker process may be slow, hang, or die between any two steps.  After  *)
(* stopBrokerSupervisor the supervisor's own process ends, and with it     *)
(* every timer and promise that was to kill a broker.                      *)
(***************************************************************************)
EXTENDS Naturals, Sequences

CONSTANTS
  Gens,        \* generations that may be under way at once
  Shapes,      \* what of a configuration takes a restart to change
  Paths,       \* what of it a live update can change
  Off,         \* the shape of a configuration that runs no broker
  Budget,      \* restartBudget
  MaxChanges,  \* bound: configuration changes requested
  Waiters,     \* callers of waitForBrokerReady
  Again,       \* the queued change of restartBroker
  Stop,        \* the shutdown frame
  None         \* undefined

ASSUME BoundsAssumption == Budget \in Nat /\ MaxChanges \in Nat
ASSUME NoneAssumption == None \notin Gens

VARIABLES
  active,    \* activeSupervisor: not yet started, "up", or stopped for good
  key,       \* activeConfigJson, and the activeConfig it is the key of
  sup,       \* the newest BrokerSupervisor
  upstream,  \* currentUpstream: the generation requests are forwarded to
  gen,       \* the generations and their processes
  queue,     \* changes not begun (`reconfiguring`)
  job,       \* the change under way
  waiter,    \* those who wait for the broker to serve
  exit,      \* how the supervisor's process ended
  changes,   \* changes requested so far
  latest     \* history: the configuration asked for last

process == <<active, key>>
work    == <<queue, job>>
asked   == <<changes, latest>>
vars    == <<process, sup, upstream, gen, work, waiter, asked, exit>>

\* A configuration that runs no broker, and those that do.
OffConfig == [shape |-> Off, path |-> CHOOSE p \in Paths : TRUE]
Configs == [shape : Shapes, path : Paths] \cup {OffConfig}

ASSUME MarksAreNoConfigs == Configs \cap {Again, Stop, None} = {}

State == {"disabled", "starting", "ready", "degraded", "backoff",
          "circuit-open", "stopping", "unavailable"}

\* restartTimer is pending exactly in the states backoff and circuit-open.
Supervisor == [state : State, stopping : BOOLEAN, config : Configs,
               gen : Gens \cup {None}, recent : 0 .. Budget + 1]

Phases == {"spawned", "greeted", "accepted", "ready"}

\* What the broker says.
Frames == {"hello", "configured", "ready", "refused", "degraded", "updated", "unchanged"}

\* A generation as the supervisor sees it: the handshake, its configuration,
\* whether an update awaits an answer, who waits for it to stop, whether its
\* exit was seen; and its process: what it does, what it was told to serve,
\* the frames either way (to the broker, a configuration or Stop).
Generation == [phase : Phases, conf : Configs \cup {None}, updating : BOOLEAN,
               stop : {"no", "fail", "final", "orphan"}, reaped : BOOLEAN,
               proc : {"free", "boot", "await", "probing", "serving", "leaving", "hung",
                       "dead"},
               serves : Configs \cup {None},
               in : Seq(Configs \cup {Stop}), out : Seq(Frames)]

TypeOK ==
  /\ active \in {"none", "up", "closed"}
  /\ key \in Configs \cup {None}
  /\ sup \in Supervisor
  /\ upstream \in Gens \cup {None}
  /\ gen \in [Gens -> Generation]
  /\ queue \in Seq(Configs \cup {Again})
  /\ job \in [at : {"idle", "update", "stop"}, config : Configs \cup {None}]
  /\ waiter \in [Waiters -> [at : {"idle", "queue", "wait", "ready", "starting", "failed", "off"},
                             behind : 0 .. MaxChanges]]
  /\ exit \in {"no", "clean", "cut"}
  /\ changes \in 0 .. MaxChanges
  /\ latest \in Configs \cup {None}

Used(g) == gen[g].proc # "free"
Alive(g) == gen[g].proc \notin {"free", "dead"}

-----------------------------------------------------------------------------
(* Waiting: settledReadiness, the state listeners, the queue               *)
Readiness(state) ==
  CASE state = "ready" -> "ready"
    [] state = "disabled" -> "off"
    [] state \in {"unavailable", "circuit-open"} -> "failed"
    [] OTHER -> "wait"

\* setState wakes its listeners.  waitForBrokerReady goes on before any other
\* code runs, so it still finds the same supervisor active, and returns.
Told(ws, state) ==
  [w \in Waiters |-> IF ws[w].at = "wait" THEN [ws[w] EXCEPT !.at = Readiness(state)]
                     ELSE ws[w]]

\* A change is done: one less for those who wait for the queue.
Advanced(ws) ==
  [w \in Waiters |-> IF ws[w].behind > 0 THEN [ws[w] EXCEPT !.behind = @ - 1] ELSE ws[w]]

-----------------------------------------------------------------------------
(* Launching and giving up                                                 *)
NewSupervisor(c) ==
  [state |-> "disabled", stopping |-> FALSE, config |-> c, gen |-> None, recent |-> 0]

Spawned(c) ==
  [phase |-> "spawned", conf |-> c, updating |-> FALSE, stop |-> "no", reaped |-> FALSE,
   proc |-> "boot", serves |-> None, in |-> <<>>, out |-> <<>>]

Free == [Spawned(None) EXCEPT !.proc = "free"]

\* scheduleRestart: some of the restarts counted have left the window.
Rescheduled(s) ==
  {[s EXCEPT !.recent = n, !.state = IF n > Budget THEN "circuit-open" ELSE "backoff"] :
     n \in 1 .. s.recent + 1}

\* beginLaunch of supervisor s; gs and ws are gen and waiter with the caller's
\* own change.  The spawn may throw, or the executable may be missing.
BeginLaunch(s, gs, ws) ==
  /\ upstream' = None
  /\ \/ \E g \in Gens :
          /\ gs[g] = Free
          /\ gen' = [gs EXCEPT ![g] = Spawned(s.config)]
          /\ sup' = [s EXCEPT !.gen = g, !.state = "starting"]
     \/ /\ gen' = gs
        /\ sup' \in Rescheduled(s) \cup {[s EXCEPT !.state = "unavailable"]}
  /\ waiter' = Told(ws, sup'.state)

\* A supervisor that is replaced leaves what it gave up on behind.
Orphaned ==
  [g \in Gens |-> [gen[g] EXCEPT !.stop = IF @ = "fail" THEN "orphan" ELSE @]]

\* startBrokerSupervisor
Start(c, ws) ==
  /\ key' = c
  /\ IF c.shape = Off
     THEN /\ sup' = NewSupervisor(c)
          /\ upstream' = None
          /\ gen' = Orphaned
          /\ waiter' = Told(ws, "disabled")
     ELSE BeginLaunch(NewSupervisor(c), Orphaned, ws)

\* A broker told to shut down whose frames are no longer listened to: all that
\* matters of it is when it dies.
Dismissed(r) ==
  [Free EXCEPT !.stop = "fail", !.proc = IF r.proc = "dead" THEN "dead" ELSE "leaving"]

(* Mutated form: requests are still forwarded to the failed generation.    *)
FailGeneration_StillForwards(g, gs) ==
  IF sup.gen # g \/ sup.stopping
  THEN gen' = gs /\ UNCHANGED <<sup, upstream>>
  ELSE /\ sup' = [sup EXCEPT !.gen = None, !.state = "degraded"]
       /\ gen' = [gs EXCEPT ![g] = Dismissed(@)]
       /\ UNCHANGED upstream

\* failGeneration, up to its first await: nothing if g is no longer the
\* current generation or a stop is under way.
FailGeneration(g, gs) ==
  IF sup.gen # g \/ sup.stopping
  THEN gen' = gs /\ UNCHANGED <<sup, upstream>>
  ELSE /\ sup' = [sup EXCEPT !.gen = None, !.state = "degraded"]
       /\ upstream' = None
       /\ gen' = [gs EXCEPT ![g] = Dismissed(@)]

\* performStop, up to its first await; gs as above.  `waiter` hears of "stopping" too, but
\* that settles nothing.
PerformStop(gs) ==
  /\ upstream' = None
  /\ sup' = [sup EXCEPT !.stopping = TRUE,
                        !.state = IF sup.gen = None THEN "disabled" ELSE "stopping"]
  /\ gen' = [g \in Gens |-> IF g = sup.gen
                            THEN [gs[g] EXCEPT !.stop = "final", !.in = Append(@, Stop)]
                            ELSE gs[g]]
  /\ waiter' = IF sup.gen = None THEN Told(waiter, "disabled") ELSE waiter

(* Mutated form: stop() does not wait for the broker to be killed.         *)
Stopped_AtOnce == sup.stopping

\* What stop() resolves with.
Stopped == sup.stopping /\ sup.state = "disabled"

\* The graceful period is over: the process is killed, or it exited before.
Killed(g) ==
  [gen EXCEPT ![g] = IF @.reaped THEN Free ELSE [Free EXCEPT !.proc = "dead"]]

-----------------------------------------------------------------------------
(* The supervisor                                                          *)
StartupTimesOut(g) ==
  /\ sup.gen = g /\ gen[g].phase # "ready" /\ ~sup.stopping
  /\ FailGeneration(g, gen)
  /\ UNCHANGED <<process, work, waiter, asked>>

HeartbeatLapses(g) ==
  /\ sup.gen = g /\ gen[g].phase \in {"accepted", "ready"} /\ ~sup.stopping
  /\ FailGeneration(g, gen)
  /\ UNCHANGED <<process, work, waiter, asked>>

\* The child errs, its pipe breaks, or it sends a frame that is malformed.
ChannelBreaks(g) ==
  /\ sup.gen = g /\ ~sup.stopping
  /\ FailGeneration(g, gen)
  /\ UNCHANGED <<process, work, waiter, asked>>

(* Mutated form: a failed generation is stopped, and nothing launched next.*)
StopEnds_NotRescheduled(g) ==
  /\ gen[g].stop # "no"
  /\ gen' = Killed(g)
  /\ IF gen[g].stop = "final" THEN sup' = [sup EXCEPT !.gen = None, !.state = "disabled"]
     ELSE UNCHANGED sup
  /\ waiter' = IF sup' = sup THEN waiter ELSE Told(waiter, sup'.state)
  /\ UNCHANGED <<process, upstream, work, asked>>

\* stopGeneration returns to failGeneration or to performStop.
StopEnds(g) ==
  /\ gen[g].stop # "no"
  /\ gen' = Killed(g)
  /\ \/ gen[g].stop = "final" /\ sup' = [sup EXCEPT !.gen = None, !.state = "disabled"]
     \/ gen[g].stop = "fail" /\ ~sup.stopping /\ sup' \in Rescheduled(sup)
     \/ (gen[g].stop = "orphan" \/ (gen[g].stop = "fail" /\ sup.stopping)) /\ UNCHANGED sup
  /\ waiter' = IF sup' = sup THEN waiter ELSE Told(waiter, sup'.state)
  /\ UNCHANGED <<process, upstream, work, asked>>

\* The exit event.  On Windows the broker may say it could not be contained.
ExitSeen(g) ==
  /\ gen[g].proc = "dead" /\ ~gen[g].reaped
  /\ gen' = [gen EXCEPT ![g] = IF gen[g].stop = "no" THEN Free
                               ELSE [@ EXCEPT !.reaped = TRUE, !.out = <<>>]]
  /\ IF sup.gen # g
     THEN UNCHANGED <<sup, upstream, waiter>>
     ELSE LET gone == [sup EXCEPT !.gen = None] IN
          /\ upstream' = None
          /\ IF sup.stopping THEN sup' = gone /\ UNCHANGED waiter
             ELSE /\ sup' \in Rescheduled(gone) \cup {[gone EXCEPT !.state = "unavailable"]}
                  /\ waiter' = Told(waiter, sup'.state)
  /\ UNCHANGED <<process, work, asked>>

RestartTimerFires ==
  /\ sup.state \in {"backoff", "circuit-open"}
  /\ BeginLaunch(IF sup.state = "circuit-open" THEN [sup EXCEPT !.recent = 0] ELSE sup,
                 gen, waiter)
  /\ UNCHANGED <<process, work, asked>>

\* circuitResetMs of being ready
StableRuntime ==
  /\ sup.gen # None /\ gen[sup.gen].phase = "ready" /\ ~sup.stopping /\ sup.recent > 0
  /\ sup' = [sup EXCEPT !.recent = 0]
  /\ UNCHANGED <<process, upstream, gen, work, waiter, asked>>

-----------------------------------------------------------------------------
(* Frames of the broker: handleEnvelope                                    *)
Heard(g) == [gen EXCEPT ![g].out = Tail(@)]

\* The handshake: the frame each phase waits for, and the phase it opens.
Opens == [hello |-> [from |-> "spawned", to |-> "greeted"],
          configured |-> [from |-> "greeted", to |-> "accepted"],
          ready |-> [from |-> "accepted", to |-> "ready"]]

HandshakeFrame(g, frame) ==
  LET gs == [Heard(g) EXCEPT ![g].phase = Opens[frame].to] IN
  /\ frame \in DOMAIN Opens
  /\ IF gen[g].phase # Opens[frame].from
     THEN FailGeneration(g, Heard(g)) /\ UNCHANGED waiter
     ELSE /\ gen' = IF frame = "hello" THEN [gs EXCEPT ![g].in = Append(@, gs[g].conf)] ELSE gs
          /\ IF frame = "ready" /\ ~sup.stopping
             THEN /\ upstream' = g
                  /\ sup' = [sup EXCEPT !.state = "ready"]
                  /\ waiter' = Told(waiter, "ready")
             ELSE UNCHANGED <<sup, upstream, waiter>>
  /\ UNCHANGED <<process, job>>

Refused(g, frame) ==
  /\ frame = "refused"
  /\ FailGeneration(g, Heard(g))
  /\ UNCHANGED <<process, job, waiter>>

DegradedStatus(g, frame) ==
  /\ frame = "degraded"
  /\ gen' = Heard(g)
  /\ sup' = [sup EXCEPT !.state = "degraded"]
  /\ UNCHANGED <<process, upstream, job, waiter>>

Answered(g, gs) == [gs EXCEPT ![g].updating = FALSE]

(* Mutated form: the next launch will use the configuration from before.   *)
UpdateTaken_NotKept(g, frame) ==
  /\ frame = "updated" /\ gen[g].updating
  /\ gen' = Answered(g, Heard(g))
  /\ key' = job.config
  /\ job' = [at |-> "idle", config |-> None]
  /\ waiter' = Advanced(waiter)
  /\ UNCHANGED <<active, sup, upstream>>

\* The broker took the update: the caller returns and keeps the new config.
UpdateTaken(g, frame) ==
  /\ frame = "updated" /\ gen[g].updating
  /\ gen' = [Answered(g, Heard(g)) EXCEPT ![g].conf = job.config]
  /\ sup' = [sup EXCEPT !.config = job.config]
  /\ key' = job.config
  /\ job' = [at |-> "idle", config |-> None]
  /\ waiter' = Advanced(waiter)
  /\ UNCHANGED <<active, upstream>>

(* Mutated form: the supervisor waited for was never told to stop.         *)
FallBackToStop_Unasked(gs) ==
  /\ job' = [job EXCEPT !.at = "stop"]
  /\ gen' = gs
  /\ UNCHANGED <<process, sup, upstream, waiter>>

\* It did not, or not in time: the caller stops the supervisor instead.
FallBackToStop(gs) ==
  /\ job' = [job EXCEPT !.at = "stop"]
  /\ IF sup.stopping THEN gen' = gs /\ UNCHANGED <<sup, upstream, waiter>>
     ELSE PerformStop(gs)
  /\ UNCHANGED process

UpdateRefused(g, frame) ==
  /\ frame = "unchanged" /\ gen[g].updating
  /\ FallBackToStop(Answered(g, Heard(g)))

\* A frame past its deadline, or the late answer to an update given up on.
FrameIgnored(g, frame) ==
  /\ gen' = Heard(g)
  /\ UNCHANGED <<process, sup, upstream, job, waiter>>

FrameArrives(g) ==
  /\ sup.gen = g /\ gen[g].out # <<>>
  /\ LET frame == Head(gen[g].out) IN
     \/ HandshakeFrame(g, frame)
     \/ Refused(g, frame)
     \/ DegradedStatus(g, frame)
     \/ UpdateTaken(g, frame)
     \/ UpdateRefused(g, frame)
     \/ FrameIgnored(g, frame)
  /\ UNCHANGED <<queue, asked>>

-----------------------------------------------------------------------------
(* Changes: reconfigureBroker, restartBroker, stopBrokerSupervisor         *)
StartBroker(c) ==
  /\ active = "none"
  /\ active' = "up"
  /\ latest' = c
  /\ Start(c, waiter)
  /\ UNCHANGED <<work, changes>>

Requested(change) ==
  /\ active # "none" /\ changes < MaxChanges
  /\ changes' = changes + 1
  /\ queue' = Append(queue, change)
  /\ UNCHANGED <<process, sup, upstream, gen, job, waiter>>

reconfigureBroker(c) == Requested(c) /\ latest' = c

restartBroker == Requested(Again) /\ UNCHANGED latest

\* A live update is sent to the generation that is ready, unless one is out.
CanUpdate(c) ==
  /\ sup.gen # None
  /\ gen[sup.gen].phase = "ready" /\ ~gen[sup.gen].updating
  /\ c.shape # Off /\ c.shape = gen[sup.gen].conf.shape

ChangeEnds == job' = [at |-> "idle", config |-> None] /\ waiter' = Advanced(waiter)

ChangeBegins ==
  /\ job.at = "idle" /\ queue # <<>>
  /\ queue' = Tail(queue)
  /\ LET c == Head(queue) IN
     \/ /\ active # "up" \/ c = key
        /\ ChangeEnds
        /\ UNCHANGED <<sup, upstream, gen>>
     \/ /\ active = "up" /\ c \notin {key, Again} /\ CanUpdate(c)
        /\ job' = [at |-> "update", config |-> c]
        /\ gen' = [gen EXCEPT ![sup.gen].updating = TRUE, ![sup.gen].in = Append(@, c)]
        /\ UNCHANGED <<sup, upstream, waiter>>
     \/ /\ active = "up" /\ c # key /\ (c # Again => ~CanUpdate(c))
        /\ job' = [at |-> "stop", config |-> IF c = Again THEN key ELSE c]
        /\ PerformStop(gen)
  /\ UNCHANGED <<process, asked>>

UpdateTimesOut ==
  /\ job.at = "update"
  /\ FallBackToStop([g \in Gens |-> [gen[g] EXCEPT !.updating = FALSE]])
  /\ UNCHANGED <<queue, asked>>

(* Mutated form: nobody asks whether a shutdown came meanwhile.            *)
ChangeGoesOn_Unchecked ==
  /\ job.at = "stop" /\ Stopped
  /\ job' = [at |-> "idle", config |-> None]
  /\ Start(job.config, Advanced(waiter))
  /\ UNCHANGED <<active, queue, asked>>

\* The supervisor has stopped: "Shut down while we waited: don't bring a broker
\* back", or start another.
ChangeGoesOn ==
  /\ job.at = "stop" /\ Stopped
  /\ job' = [at |-> "idle", config |-> None]
  /\ IF active = "up" THEN Start(job.config, Advanced(waiter))
     ELSE waiter' = Advanced(waiter) /\ UNCHANGED <<key, sup, upstream, gen>>
  /\ UNCHANGED <<active, queue, asked>>

stopBrokerSupervisor ==
  /\ active = "up"
  /\ active' = "closed"
  /\ key' = None
  /\ IF sup.stopping THEN UNCHANGED <<sup, upstream, gen, waiter>> ELSE PerformStop(gen)
  /\ UNCHANGED <<work, asked>>

-----------------------------------------------------------------------------
(* waitForBrokerReady                                                      *)
WaitBegins(w) ==
  /\ waiter[w].at = "idle"
  /\ waiter' = [waiter EXCEPT ![w] =
       [at |-> "queue", behind |-> Len(queue) + IF job.at = "idle" THEN 0 ELSE 1]]
  /\ UNCHANGED <<process, sup, upstream, gen, work, asked>>

WaitSeesSupervisor(w) ==
  /\ waiter[w].at = "queue" /\ waiter[w].behind = 0
  /\ waiter' = [waiter EXCEPT ![w].at = IF active = "up" THEN Readiness(sup.state) ELSE "off"]
  /\ UNCHANGED <<process, sup, upstream, gen, work, asked>>

WaitTimesOut(w) ==
  /\ waiter[w].at = "wait"
  /\ waiter' = [waiter EXCEPT ![w].at = "starting"]
  /\ UNCHANGED <<process, sup, upstream, gen, work, asked>>

-----------------------------------------------------------------------------
(* The broker process: serve (packages/mcp-broker/src/main.ts).  What a    *)
(* generation says once it is not the current one is not listened to.      *)
Says(g, frames, record) ==
  /\ gen' = [gen EXCEPT ![g] =
       [record EXCEPT !.out = IF sup.gen = g THEN @ \o frames ELSE <<>>]]
  /\ UNCHANGED <<process, sup, upstream, work, waiter, asked>>

BrokerGreets(g) ==
  /\ Alive(g) /\ gen[g].proc = "boot"
  /\ Says(g, <<"hello">>, [gen[g] EXCEPT !.proc = "await"])

\* One frame: a configuration, to probe its servers or to be told it is late;
\* an update, applied or refused; or the order to stop.
BrokerReads(g) ==
  /\ Alive(g) /\ gen[g].proc \in {"await", "serving"} /\ gen[g].in # <<>>
  /\ LET frame == Head(gen[g].in)
         read  == [gen[g] EXCEPT !.in = Tail(@)] IN
     \/ /\ frame = Stop
        /\ Says(g, <<>>, [read EXCEPT !.proc = "dead"])
     \/ /\ frame # Stop /\ gen[g].proc = "await"
        /\ \/ Says(g, <<>>, [read EXCEPT !.proc = "probing", !.serves = frame])
           \/ Says(g, <<"refused">>, read)
     \/ /\ frame # Stop /\ gen[g].proc = "serving"
        /\ \/ Says(g, <<"updated">>, [read EXCEPT !.serves = frame])
           \/ Says(g, <<"unchanged">>, read)

BrokerServes(g) ==
  /\ Alive(g) /\ gen[g].proc = "probing"
  /\ Says(g, <<"configured", "ready">>, [gen[g] EXCEPT !.proc = "serving"])

BrokerCannotServe(g) ==
  /\ Alive(g) /\ gen[g].proc = "probing"
  /\ Says(g, <<"refused", "degraded">>, [gen[g] EXCEPT !.proc = "dead"])

BrokerDies(g) ==
  /\ Alive(g)
  /\ Says(g, <<>>, [gen[g] EXCEPT !.proc = "dead"])

\* Without the supervisor its stdin is closed and its parent gone: it exits, unless
\* it hangs.  (One that hangs earlier is one that takes no step.)
BrokerLeaves(g) == gen[g].proc # "hung" /\ BrokerDies(g)

BrokerHangs(g) ==
  /\ Alive(g)
  /\ Says(g, <<>>, [gen[g] EXCEPT !.proc = "hung"])

-----------------------------------------------------------------------------
(* The end of the supervisor's process: initiateShutdown awaits stop() and *)
(* exits, and its watchdog exits without it.  What is pending is lost: the *)
(* stops of generations given up on, which stop() does not wait for.       *)
ProcessExits ==
  /\ active = "closed" /\ exit = "no"
  /\ \/ Stopped /\ exit' = "clean"
     \/ exit' = "cut"
  /\ UNCHANGED <<process, sup, upstream, gen, work, waiter, asked>>
-----------------------------------------------------------------------------
Init ==
  /\ active = "none" /\ key = None
  /\ sup = NewSupervisor(OffConfig)
  /\ upstream = None
  /\ gen = [g \in Gens |-> Free]
  /\ queue = <<>>
  /\ job = [at |-> "idle", config |-> None]
  /\ waiter = [w \in Waiters |-> [at |-> "idle", behind |-> 0]]
  /\ exit = "no" /\ changes = 0 /\ latest = None

Fails(g) == StartupTimesOut(g) \/ HeartbeatLapses(g) \/ ChannelBreaks(g)

BrokerStep(g) ==
  \/ BrokerGreets(g)
  \/ BrokerReads(g)
  \/ BrokerServes(g)
  \/ BrokerCannotServe(g)
  \/ BrokerDies(g)

WaitStep(w) == WaitSeesSupervisor(w) \/ WaitTimesOut(w)

SupervisorStep ==
  \/ \E c \in Configs : StartBroker(c) \/ reconfigureBroker(c)
  \/ restartBroker
  \/ stopBrokerSupervisor
  \/ ChangeBegins
  \/ UpdateTimesOut
  \/ ChangeGoesOn
  \/ \E g \in Gens : Fails(g) \/ StopEnds(g) \/ ExitSeen(g) \/ FrameArrives(g)
  \/ RestartTimerFires
  \/ StableRuntime
  \/ \E w \in Waiters : WaitBegins(w) \/ WaitStep(w)

\* The supervisor takes steps as long as its process runs; without it, a broker
\* leaves or hangs.
Runs == exit = "no" /\ UNCHANGED exit
Gone == exit # "no" /\ UNCHANGED exit

Next ==
  \/ Runs /\ SupervisorStep
  \/ Runs /\ \E g \in Gens : BrokerStep(g)
  \/ Gone /\ \E g \in Gens : BrokerLeaves(g) \/ BrokerHangs(g)
  \/ ProcessExits

Spec == Init /\ [][Next]_vars

\* The supervisor's timers and promises, as long as its process runs; the end of
\* that process, by its watchdog if need be; and the exit of a broker that is left
\* alone.  The broker may hang for ever.
Fairness ==
  /\ \A g \in Gens : /\ WF_vars(Runs /\ StopEnds(g)) /\ WF_vars(Runs /\ ExitSeen(g))
                     /\ WF_vars(Runs /\ StartupTimesOut(g))
                     /\ WF_vars(Gone /\ BrokerLeaves(g))
  /\ WF_vars(Runs /\ RestartTimerFires)
  /\ WF_vars(Runs /\ ChangeBegins) /\ WF_vars(Runs /\ UpdateTimesOut)
  /\ WF_vars(Runs /\ ChangeGoesOn)
  /\ \A w \in Waiters : WF_vars(Runs /\ WaitStep(w))
  /\ WF_vars(ProcessExits)

FairSpec == Spec /\ Fairness
-----------------------------------------------------------------------------
(* Requests are forwarded to the ready generation of the running           *)
(* supervisor and to no other, and exactly while it is shown as ready: the *)
(* port and key are withdrawn "before restart or shutdown" and at every    *)
(* failure in between (docs/architecture.md, currentUpstream).             *)
UpstreamIsCurrent ==
  /\ upstream # None => /\ sup.gen = upstream /\ ~sup.stopping /\ active = "up"
                        /\ gen[upstream].phase = "ready" /\ gen[upstream].stop = "no"
  /\ upstream # None <=> sup.state = "ready"

(* No broker process is left to itself: one that lives is the current      *)
(* generation, or somebody waits to kill it, through failures, restarts,   *)
(* replaced supervisors and shutdown (stopGeneration), for as long as the  *)
(* supervisor's process runs.                                              *)
NoStrayBroker ==
  \A g \in Gens : Alive(g) => g = sup.gen \/ gen[g].stop # "no"

(* Types; what requests are sent to is what runs; no process is left to   *)
(* itself.                                                                 *)
SupervisorInvariant == TypeOK /\ UpstreamIsCurrent /\ NoStrayBroker

(* "Calls run one at a time, so the most recent config always wins"        *)
(* (reconfigureBroker): when no change is left, the supervisor runs the    *)
(* configuration asked for last, and so does the broker requests go to,    *)
(* whichever updates were taken, refused, late or lost with their broker.  *)
LatestConfigWins ==
  active = "up" /\ job.at = "idle" /\ queue = <<>>
    => /\ key = latest /\ sup.config = latest
       /\ upstream # None => gen[upstream].serves = latest

(* "Stop the broker for good": after stopBrokerSupervisor no generation is *)
(* launched, whatever changes were queued or under way and whatever        *)
(* restart was due (stopBrokerSupervisor).                                 *)
StoppedForGood ==
  [][active = "closed" => \A g \in Gens : Used(g)' => Used(g)]_vars

(* A failure is not the end: the supervisor leaves the degraded state and  *)
(* the open circuit by itself, for another launch or its backoff, whatever *)
(* became of the broker it gave up on (failGeneration, scheduleRestart).   *)
FailureIsRetried ==
  LET GivenUp == sup.gen = None /\ sup.state \in {"degraded", "circuit-open"}
  IN GivenUp ~> ~GivenUp \/ exit # "no"

\* A hung broker nobody will kill: the supervisor's process ended without waiting
\* for the stop of a generation given up on before, or for any, cut short.
LeftHung(g) ==
  /\ gen[g].proc = "hung"
  /\ exit = "clean" => gen[g].stop # "final"

(* Once stopped for good, every broker process ends: the current one even  *)
(* if it hangs, unless the watchdog cuts that short, and those given up on *)
(* if they can still see that they are alone (performStop,                 *)
(* initiateShutdown, serve).  The hung ones among those are left.          *)
ShutdownReachesAll == active = "closed" ~> \A g \in Gens : Alive(g) => LeftHung(g)

(* Every change comes to an end, so the ones queued behind it run, and     *)
(* whoever waits for the broker gets past the queue, which it awaits       *)
(* without its timeout (serialized, waitForBrokerReady), unless the        *)
(* process ends before.                                                    *)
ChangesEnd ==
  /\ job.at # "idle" ~> job.at = "idle" \/ exit # "no"
  /\ \A w \in Waiters : waiter[w].at = "queue" ~> waiter[w].at # "queue" \/ exit # "no"
=============================================================================
