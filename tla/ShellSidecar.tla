---------------------------- MODULE ShellSidecar ----------------------------
(***************************************************************************)
(* The menu-bar shell's sidecar runtime (shell/src-tauri/src):             *)
(* sidecar_runtime.rs launches the proxy as a child process, one           *)
(* generation after another, believes only the newest one's ready line,    *)
(* and decides what the exit of a child means: a restart, a failure, a     *)
(* handoff to an update or a quit, or the end of the whole app.  lib.rs    *)
(* runs the event loop and polls the exposed sidecar.                      *)
(*                                                                         *)
(* The child's event task, its startup timer, the event loop, the pollers, *)
(* the menu and the webview commands run on threads of their own, and each *)
(* piece of state has its own lock: what one of them does is cut into      *)
(* steps wherever another may come between two of its locks.  Two things   *)
(* are one step all the same: the marks an exit is judged by with the      *)
(* generation it begins, and the mark a respawn withdraws with the         *)
(* generation that one begins.  Timers may elapse at any time.             *)
(***************************************************************************)
EXTENDS Naturals, Sequences

CONSTANTS
  Hosts,           \* what the shell may run as: <<profile, whether it is Windows, where
                   \* the graceful stop is a request and not a signal>>
  ProductionPort,  \* the production profile's port
  Ports,           \* ports a sidecar may listen on
  Preferred,       \* ports an earlier run may have persisted, 0 for none
  Overlap,         \* a restart or stop may be asked while one is under way
  MaxGen,          \* bound: generation numbers
  MaxAsks,         \* bound: restarts, retries, updates and quits asked for
  MaxRaces         \* bound: handlers that begin while another is between its locks

ASSUME BoundsAssumption == MaxGen \in Nat \ {0} /\ MaxAsks \in Nat /\ MaxRaces \in Nat
ASSUME PortsAssumption == ProductionPort \in Ports /\ Ports \subseteq Nat \ {0} /\ Preferred \subseteq Ports \cup {0}
ASSUME FlagsAssumption ==
  Hosts \subseteq {"Production", "Development", "Test"} \X BOOLEAN /\ Overlap \in BOOLEAN

VARIABLES
  profile,   \* AppProfile, fixed at launch
  windows,   \* the platform, fixed too
  endpoint,  \* ManagedEndpoint; port 0: none, or the kernel's choice
  child,     \* per generation: the process, and the shell's tasks for it
  slot,      \* Sidecar: the generation whose handle the shell holds
  marks,     \* SidecarRestarting and SidecarFailureStop
  respawn,   \* respawn_sidecar: where it is, and the generation it marked
  handoff,   \* SidecarHandoff
  stopper,   \* stop_sidecar_and_wait, and what it was called for
  events,    \* the runtime events not yet applied
  poll,      \* per generation: poll_sidecar_status
  status,    \* AppStatus
  app,       \* "up", "exiting" (RuntimeExiting) or "gone"
  asks,      \* requests made so far
  ended,     \* history: why the app was told to exit
  races      \* history: handlers that began while another was between its locks

shell == <<endpoint, slot, marks, handoff>>
host == <<profile, windows>>
vars  == <<host, shell, child, respawn, stopper, events, poll, status, app, asks, ended, races>>

Gens == 1 .. MaxGen
Processes == {"none", "begun", "booting", "listening", "leaving", "dead"}
Alive(g) == child[g].proc \in {"booting", "listening", "leaving"}

\* A process is "begun" from begin_generation until it is spawned and its
\* handle stored.
\* why: what ended the process, or was asked to; line: its ready line waits in
\* the pipe; doomed: the thread that sends SIGKILL after the grace period holds
\* its handle.  task: its event task, "checked" when a ready line found the
\* generation pending, "gone" when its exit was seen but not yet judged; timer:
\* its startup timer.  Either may be giving the startup up: it will "mark" the
\* generation as failed, then "kill".
Child == [proc : Processes, requested : Ports \cup {0}, port : Ports \cup {0},
          code : {0, 1}, why : {"self", "outside", "restart", "failure", "stop"},
          line : BOOLEAN, task : {"none", "reading", "checked", "mark", "kill", "gone"},
          timer : {"idle", "mark", "kill"}, doomed : BOOLEAN]

NoChild == [proc |-> "none", requested |-> 0, port |-> 0, code |-> 0, why |-> "self",
            line |-> FALSE, task |-> "none", timer |-> "idle", doomed |-> FALSE]

NoRespawn == [at |-> "idle", gen |-> 0]

State(s) == [kind |-> s, gen |-> 0]
Ready(g) == [kind |-> "Ready", gen |-> g]
Exit == [kind |-> "Exit", gen |-> 0]

TypeOK ==
  /\ <<profile, windows>> \in Hosts
  /\ endpoint \in [gen : 0 .. MaxGen + 1, current : 0 .. MaxGen,
                   selected : Ports \cup {0}, capabilities : SUBSET Ports]
  /\ child \in [Gens -> Child]
  /\ slot \in 0 .. MaxGen
  /\ marks \in [restart : SUBSET Gens, failure : SUBSET Gens]
  /\ handoff \in {"none", "armed", "sent"}
  /\ respawn \in [at : {"idle", "kill", "taken", "empty"}, gen : 0 .. MaxGen]
  /\ stopper \in [at : {"idle", "asking", "waiting", "released"},
                  purpose : {"none", "quit", "update"}, graceful : BOOLEAN]
  /\ events \in Seq([kind : {"Starting", "Failed", "Ready", "Exit"}, gen : 0 .. MaxGen])
  /\ poll \in [Gens -> {"none", "fast", "slow", "got"}]
  /\ status \in {"Starting", "Running", "Failed"}
  /\ app \in {"up", "exiting", "gone"}
  /\ asks \in 0 .. MaxAsks
  /\ ended \in {"no", "quit", "update", "crash", "outside",
               "restart", "failure", "stop"}
  /\ races \in 0 .. MaxRaces

\* Some handler is between its locks.
Busy ==
  \/ respawn.at # "idle"
  \/ \E g \in Gens : \/ child[g].proc = "begun"
                     \/ child[g].task \in {"mark", "kill", "gone"}
                     \/ child[g].timer # "idle"

\* A handler begins, beside another or not.
Enters(overlapping) ==
  /\ overlapping => races < MaxRaces
  /\ races' = IF overlapping THEN races + 1 ELSE races

raced == races # 0

-----------------------------------------------------------------------------
(* The endpoint and the process handle                                     *)
\* is_pending
Pending(ep, g) == ep.gen = g /\ ep.current = 0

\* expire_pending
Expired(ep, g) == IF Pending(ep, g) THEN [ep EXCEPT !.gen = @ + 1] ELSE ep

(* Mutated form: a preferred port with a capability may be forgotten.      *)
DynamicRetry_Revocable(ep, g) ==
  /\ Pending(ep, g)
  /\ child[g].requested # 0
  /\ ep.selected = child[g].requested

\* prepare_dynamic_retry
DynamicRetry(ep, g) ==
  /\ Pending(ep, g)
  /\ child[g].requested # 0
  /\ ep.capabilities = {}
  /\ ep.selected = child[g].requested

\* The port begin_generation asks for.
Requested(ep) ==
  IF ep.selected # 0 THEN ep.selected
  ELSE IF profile = "Production" THEN ProductionPort ELSE 0

Stopped(c, why) ==
  IF c.proc \in {"booting", "listening"} THEN [c EXCEPT !.proc = "leaving", !.why = why] ELSE c

\* kill_sidecar: whatever the slot holds is asked to end, and killed later.
Killed(cs, why) ==
  IF slot = 0 THEN cs
  ELSE [cs EXCEPT ![slot] = [Stopped(@, why) EXCEPT !.doomed = TRUE]]

\* spawn_sidecar's first step, over the caller's own change of endpoint and
\* child: begin_generation.
Begin(ep, cs) ==
  LET g == ep.gen + 1
  IN /\ g <= MaxGen
     /\ endpoint' = [ep EXCEPT !.gen = g, !.current = 0]
     /\ child' = [cs EXCEPT ![g] = [NoChild EXCEPT !.proc = "begun",
                                                  !.requested = Requested(ep)]]

\* The rest of it: the process is spawned and takes the slot, with its tasks
\* started; or it is not, and the caller reports it.
SpawnChild(g) ==
  /\ app # "gone" /\ child[g].proc = "begun"
  /\ \/ /\ child' = [child EXCEPT ![g] = [@ EXCEPT !.proc = "booting", !.task = "reading"]]
        /\ slot' = g
        /\ UNCHANGED events
     \/ /\ child' = [child EXCEPT ![g] = NoChild]
        /\ events' = Append(events, State("Failed"))
        /\ UNCHANGED slot
  /\ UNCHANGED <<host, endpoint, marks, handoff, respawn, stopper, poll, status, app, asks,
                 ended, races>>

\* respawn_sidecar marks the generation in the slot, whose exit is to start the
\* replacement.
Respawn ==
  /\ respawn' = [at |-> "kill", gen |-> slot]
  /\ marks' = [marks EXCEPT !.restart = IF slot = 0 THEN @ ELSE @ \cup {slot}]
  /\ Enters(Busy)

\* kill_sidecar: whatever the slot holds by now.
RespawnKills ==
  /\ app # "gone" /\ respawn.at = "kill"
  /\ child' = Killed(child, "restart")
  /\ slot' = 0
  /\ respawn' = [respawn EXCEPT !.at = IF slot = 0 THEN "empty" ELSE "taken"]
  /\ UNCHANGED <<host, endpoint, marks, handoff, stopper, events, poll, status, app, asks,
                 ended, races>>

(* Mutated form: the replacement does not wait for the old child's exit.   *)
RespawnWaits_Not ==
  /\ app # "gone" /\ respawn.at = "taken"
  /\ respawn' = NoRespawn
  /\ events' = Append(events, State("Starting"))
  /\ Begin(endpoint, child)
  /\ UNCHANGED <<host, slot, marks, handoff, stopper, poll, status, app, asks, ended, races>>

RespawnWaits ==
  /\ app # "gone" /\ respawn.at = "taken"
  /\ respawn' = NoRespawn
  /\ events' = Append(events, State("Starting"))
  /\ UNCHANGED <<host, shell, child, stopper, poll, status, app, asks, ended, races>>

\* There was nothing to wait for, or no longer.
RespawnSpawns ==
  /\ app # "gone" /\ respawn.at = "empty"
  /\ respawn' = NoRespawn
  /\ events' = Append(events, State("Starting"))
  /\ marks' = [marks EXCEPT !.restart = @ \ {respawn.gen}]
  /\ Begin(endpoint, child)
  /\ UNCHANGED <<host, slot, handoff, stopper, poll, status, app, asks, ended, races>>

-----------------------------------------------------------------------------
(* The child process, until the app is gone                                *)
InUse == {child[h].port : h \in {g \in Gens : child[g].proc \in {"listening", "leaving"}}}

\* It binds its port, or one the kernel picks, and prints the ready line.
Listen(g) ==
  /\ app # "gone" /\ child[g].proc = "booting"
  /\ \E p \in IF child[g].requested = 0 THEN Ports ELSE {child[g].requested} :
       /\ p \notin InUse
       /\ child' = [child EXCEPT ![g] = [@ EXCEPT !.proc = "listening", !.port = p, !.line = TRUE]]
  /\ UNCHANGED <<host, shell, respawn, races, stopper, events, poll, status, app, asks, ended>>

\* It exits: by itself with an error, because someone outside asked it to, or
\* at the end of a shutdown, which its own watchdog or SIGKILL may cut short.
Die(g) ==
  /\ app # "gone" /\ Alive(g)
  /\ \E r \in IF child[g].proc = "leaving"
              THEN {<<0, child[g].why>>, <<1, child[g].why>>}
              ELSE {<<0, "outside">>, <<1, "self">>} :
       child' = [child EXCEPT ![g] = [@ EXCEPT !.proc = "dead", !.code = r[1], !.why = r[2]]]
  /\ UNCHANGED <<host, shell, respawn, races, stopper, events, poll, status, app, asks, ended>>

-----------------------------------------------------------------------------
(* The shell's tasks for a child                                           *)
\* handle_sidecar_stdout, up to the I/O after the is_pending check.
ReadLine(g) ==
  /\ app # "gone" /\ child[g].task = "reading" /\ child[g].line
  /\ child' = [child EXCEPT ![g] = [@ EXCEPT !.line = FALSE,
                 !.task = IF Pending(endpoint, g) THEN "checked" ELSE "reading"]]
  /\ UNCHANGED <<host, shell, respawn, races, stopper, events, poll, status, app, asks, ended>>

\* The port file or the capability cannot be written: the startup is given up,
\* whether or not the generation is still pending.
CannotExpose(g) ==
  /\ app # "gone" /\ child[g].task = "checked"
  /\ profile # "Production" \/ child[g].port \notin endpoint.capabilities
  /\ endpoint' = Expired(endpoint, g)
  /\ child' = [child EXCEPT ![g].task = "mark"]
  /\ Enters(Busy \/ ~Pending(endpoint, g))
  /\ UNCHANGED <<host, slot, marks, handoff, respawn, stopper, events, poll, status, app, asks, ended>>

\* Otherwise: the capability, then activate, which checks again.
Expose(g) ==
  /\ app # "gone" /\ child[g].task = "checked"
  /\ child' = [child EXCEPT ![g].task = "reading"]
  /\ LET p == child[g].port
         marked == [endpoint EXCEPT !.capabilities = @ \cup {p}]
     IN IF Pending(endpoint, g)
        THEN /\ endpoint' = [marked EXCEPT !.selected = p, !.current = g]
             /\ events' = Append(events, Ready(g))
        ELSE endpoint' = marked /\ UNCHANGED events
  /\ UNCHANGED <<host, slot, marks, handoff, respawn, races, stopper, poll, status, app, asks, ended>>

\* The startup timer: started with the child, it does nothing unless its
\* generation still waits for a ready line.
StartupTimeout(g) ==
  /\ app # "gone" /\ child[g].proc \notin {"none", "begun"}
  /\ Pending(endpoint, g)
  /\ endpoint' = Expired(endpoint, g)
  /\ child' = [child EXCEPT ![g].timer = "mark"]
  /\ Enters(Busy)
  /\ UNCHANGED <<host, slot, marks, handoff, respawn, stopper, events, poll, status, app, asks, ended>>

(* Mutated form: the failed generation is not marked before it is killed.  *)
MarkFailure_Not(g) ==
  /\ app # "gone"
  /\ \/ child[g].task = "mark" /\ child' = [child EXCEPT ![g].task = "kill"]
     \/ child[g].timer = "mark" /\ child' = [child EXCEPT ![g].timer = "kill"]
  /\ UNCHANGED <<host, shell, respawn, stopper, events, poll, status, app, asks, ended, races>>

\* What either does to give the startup up: mark the generation ...
MarkFailure(g) ==
  /\ app # "gone"
  /\ \/ child[g].task = "mark" /\ child' = [child EXCEPT ![g].task = "kill"]
     \/ child[g].timer = "mark" /\ child' = [child EXCEPT ![g].timer = "kill"]
  /\ marks' = [marks EXCEPT !.failure = @ \cup {g}]
  /\ UNCHANGED <<host, endpoint, slot, handoff, respawn, stopper, events, poll, status, app,
                 asks, ended, races>>

(* Mutated form: the failure is not reported.                              *)
StopFailed_Silent(g) ==
  /\ app # "gone"
  /\ \/ /\ child[g].task = "kill"
        /\ child' = Killed([child EXCEPT ![g].task = "reading"], "failure")
     \/ /\ child[g].timer = "kill"
        /\ child' = Killed([child EXCEPT ![g].timer = "idle"], "failure")
  /\ slot' = 0
  /\ UNCHANGED <<host, endpoint, marks, handoff, respawn, stopper, events, poll, status, app,
                 asks, ended, races>>

\* ... and stop what the slot holds by now.
StopFailed(g) ==
  /\ app # "gone"
  /\ \/ /\ child[g].task = "kill"
        /\ child' = Killed([child EXCEPT ![g].task = "reading"], "failure")
     \/ /\ child[g].timer = "kill"
        /\ child' = Killed([child EXCEPT ![g].timer = "idle"], "failure")
  /\ slot' = 0
  /\ events' = Append(events, State("Failed"))
  /\ UNCHANGED <<host, endpoint, marks, handoff, respawn, stopper, poll, status, app, asks,
                 ended, races>>

\* CommandEvent::Terminated, delivered after what the child had printed: the
\* slot and the endpoint let go of g ...
ExitSeen(g) ==
  /\ app # "gone"
  /\ child[g].proc = "dead" /\ child[g].task = "reading" /\ ~child[g].line
  /\ endpoint' = IF endpoint.gen = g THEN [endpoint EXCEPT !.current = 0] ELSE endpoint
  /\ slot' = IF slot = g THEN 0 ELSE slot
  /\ child' = [child EXCEPT ![g].task = "gone"]
  /\ Enters(Busy)
  /\ UNCHANGED <<host, marks, handoff, respawn, stopper, events, poll, status, app, asks, ended>>

\* Nothing of g is left but its process's end, and its timer.
Over(g) == [child EXCEPT ![g] = [NoChild EXCEPT !.proc = "dead", !.timer = child[g].timer]]

\* ... and what the exit means is decided by the marks there are by now.
ExitJudged(g) ==
  /\ app # "gone" /\ child[g].task = "gone"
  /\ CASE handoff = "armed" ->
            /\ handoff' = "sent"
            /\ child' = Over(g)
            /\ UNCHANGED <<endpoint, marks, events, ended>>
       [] handoff # "armed" /\ g \in marks.failure ->
            /\ marks' = [marks EXCEPT !.failure = @ \ {g}]
            /\ child' = Over(g)
            /\ UNCHANGED <<endpoint, handoff, events, ended>>
       [] handoff # "armed" /\ g \in marks.restart \ marks.failure ->
            /\ marks' = [marks EXCEPT !.restart = @ \ {g}]
            /\ Begin(endpoint, Over(g))
            /\ UNCHANGED <<handoff, events, ended>>
       [] OTHER ->
            /\ IF /\ child[g].code # 0 /\ app = "up" /\ profile # "Production"
                  /\ DynamicRetry(endpoint, g)
               THEN /\ Begin([endpoint EXCEPT !.selected = 0], Over(g))
                    /\ events' = Append(events, State("Starting"))
                    /\ UNCHANGED ended
               ELSE /\ child' = Over(g)
                    /\ IF child[g].code = 0
                       THEN events' = Append(events, Exit) /\ ended' = child[g].why
                       ELSE IF profile = "Development"
                       THEN events' = Append(events, Exit) /\ ended' = "crash"
                       ELSE events' = Append(events, State("Failed")) /\ UNCHANGED ended
                    /\ UNCHANGED endpoint
            /\ UNCHANGED <<marks, handoff>>
  /\ UNCHANGED <<host, slot, respawn, stopper, poll, status, app, asks, races>>

-----------------------------------------------------------------------------
(* What the user, the webview and an update ask for                        *)
\* No child that was told to end is still ending, nor a stop still awaited.
Settled ==
  /\ stopper.at = "idle" /\ marks.restart = {}
  /\ \A g \in Gens : child[g].task # "none" => child[g].proc # "leaving" /\ ~child[g].doomed

MayAsk ==
  /\ app = "up" /\ asks < MaxAsks /\ respawn.at = "idle"
  /\ Overlap \/ Settled
  /\ asks' = asks + 1

\* restart_sidecar, from any state.
Restart ==
  /\ MayAsk
  /\ Respawn
  /\ UNCHANGED <<host, endpoint, child, slot, handoff, stopper, events, poll, status, app, ended>>

\* retry_startup, from Failed only.
Retry ==
  /\ MayAsk /\ status = "Failed"
  /\ Respawn
  /\ UNCHANGED <<host, endpoint, child, slot, handoff, stopper, events, poll, status, app, ended>>

\* kill_sidecar on behalf of stop_sidecar_and_wait, and whether to wait.
StopHard(purpose) ==
  /\ child' = Killed(child, "stop")
  /\ slot' = 0
  /\ IF slot # 0
     THEN /\ handoff' = "armed"
          /\ stopper' = [at |-> "waiting", purpose |-> purpose, graceful |-> FALSE]
     ELSE /\ handoff' = "none"
          /\ stopper' = [at |-> "released", purpose |-> purpose, graceful |-> FALSE]
  /\ UNCHANGED <<endpoint, marks>>

\* exit_gracefully.  Where there is a signal the app exits at once, and
\* ExitRequested stops the sidecar; on Windows it is stopped first.
Quit ==
  /\ MayAsk /\ stopper.at = "idle"
  /\ IF windows
     THEN /\ app' = "exiting" /\ handoff' = "armed"
          /\ stopper' = [at |-> "asking", purpose |-> "quit", graceful |-> FALSE]
          /\ UNCHANGED <<endpoint, child, slot, marks, ended>>
     ELSE /\ app' = "gone" /\ ended' = "quit"
          /\ child' = Killed(child, "stop") /\ slot' = 0
          /\ UNCHANGED <<endpoint, marks, handoff, stopper>>
  /\ UNCHANGED <<host, respawn, events, poll, status, races>>

\* install_in_place, when it comes to stopping the sidecar.
Update ==
  /\ MayAsk /\ stopper.at = "idle" /\ profile = "Production"
  /\ handoff' = "armed"
  /\ stopper' = [at |-> "asking", purpose |-> "update", graceful |-> FALSE]
  /\ UNCHANGED <<host, endpoint, child, slot, marks, respawn, events, poll, status, app, ended, races>>

\* On Windows request_sidecar_shutdown: the exposed sidecar accepts; otherwise,
\* and everywhere else, it is stopped hard.
AskShutdown ==
  /\ stopper.at = "asking" /\ app # "gone"
  /\ \/ LET g == endpoint.current IN
        /\ windows /\ g # 0 /\ child[g].proc = "listening"
        /\ child' = [child EXCEPT ![g] = Stopped(@, "stop")]
        /\ stopper' = [stopper EXCEPT !.at = "waiting", !.graceful = TRUE]
        /\ UNCHANGED shell
     \/ StopHard(stopper.purpose)
  /\ UNCHANGED <<host, respawn, races, events, poll, status, app, asks, ended>>

\* The termination event arrived, or the wait for it timed out: not after a
\* hard stop, whose SIGKILL comes long before (3 s, SIDECAR_STOP_TIMEOUT 10 s).
StopEnds ==
  /\ stopper.at = "waiting" /\ app # "gone"
  /\ handoff = "sent" \/ stopper.graceful
  /\ handoff' = "none"
  /\ stopper' = [stopper EXCEPT !.at = "released"]
  /\ IF handoff = "armed" /\ stopper.graceful
     THEN child' = Killed(child, "stop") /\ slot' = 0
     ELSE UNCHANGED <<child, slot>>
  /\ UNCHANGED <<host, endpoint, marks, respawn, events, poll, status, app, asks, ended, races>>

\* The installer fails on Windows, where the sidecar comes back.
InstallFails ==
  /\ stopper.at = "released" /\ stopper.purpose = "update" /\ windows /\ app = "up"
  /\ respawn.at = "idle"
  /\ stopper' = [at |-> "idle", purpose |-> "none", graceful |-> FALSE]
  /\ Respawn
  /\ UNCHANGED <<host, endpoint, child, slot, handoff, events, poll, status, app, asks, ended>>

\* The app quits, or relaunches; ExitRequested stops what is left.
Finish ==
  /\ stopper.at = "released" /\ app # "gone"
  /\ app' = "gone" /\ ended' = stopper.purpose
  /\ child' = Killed(child, "stop") /\ slot' = 0
  /\ UNCHANGED <<host, endpoint, marks, handoff, respawn, stopper, events, poll, status, asks, races>>

-----------------------------------------------------------------------------
(* The event loop and the pollers                                          *)
ApplyEvent ==
  /\ app # "gone" /\ events # <<>>
  /\ LET e == Head(events) IN
     /\ status' = IF e.kind \in {"Starting", "Failed"} THEN e.kind ELSE status
     /\ poll' = IF e.kind = "Ready" THEN [poll EXCEPT ![e.gen] = "fast"] ELSE poll
     /\ IF e.kind = "Exit"
        THEN app' = "gone" /\ child' = Killed(child, "stop") /\ slot' = 0
        ELSE UNCHANGED <<app, child, slot>>
  /\ events' = Tail(events)
  /\ UNCHANGED <<host, endpoint, marks, handoff, respawn, stopper, asks, ended, races>>

\* One round of poll_sidecar_status: the generation it polls was replaced, or
\* the sidecar answers.
PollRound(g) ==
  /\ app # "gone" /\ poll[g] \in {"fast", "slow"}
  /\ \/ /\ endpoint.current # g \/ (poll[g] = "slow" /\ status = "Failed")
        /\ poll' = [poll EXCEPT ![g] = "none"]
     \/ /\ endpoint.current = g /\ (poll[g] = "slow" => status # "Failed")
        /\ child[g].proc \in {"listening", "leaving"}
        /\ poll' = [poll EXCEPT ![g] = "got"]
  /\ UNCHANGED <<host, shell, child, respawn, races, stopper, events, status, app, asks, ended>>

\* apply_setup_status, which does not ask again whom the answer came from.
PollApply(g) ==
  /\ app # "gone" /\ poll[g] = "got"
  /\ status' = "Running"
  /\ poll' = [poll EXCEPT ![g] = "slow"]
  /\ UNCHANGED <<host, shell, child, respawn, races, stopper, events, app, asks, ended>>

\* No answer within the poller's startup deadline.
PollGivesUp(g) ==
  /\ app # "gone" /\ poll[g] = "fast"
  /\ status' = IF status = "Starting" THEN "Failed" ELSE status
  /\ poll' = [poll EXCEPT ![g] = "none"]
  /\ UNCHANGED <<host, shell, child, respawn, races, stopper, events, app, asks, ended>>

-----------------------------------------------------------------------------
\* setup: a preferred port that was persisted (not in production), and the
\* first spawn.
Init ==
  /\ \E h \in Hosts : profile = h[1] /\ windows = h[2]
  /\ \E p \in IF profile = "Production" THEN {0} ELSE Preferred :
       endpoint = [gen |-> 1, current |-> 0, selected |-> p, capabilities |-> {}]
  /\ child = [g \in Gens |-> IF g = 1
                THEN [NoChild EXCEPT !.proc = "booting", !.requested = Requested(endpoint),
                                     !.task = "reading"]
                ELSE NoChild]
  /\ slot = 1
  /\ marks = [restart |-> {}, failure |-> {}]
  /\ handoff = "none"
  /\ respawn = NoRespawn
  /\ stopper = [at |-> "idle", purpose |-> "none", graceful |-> FALSE]
  /\ events = <<>>
  /\ poll = [g \in Gens |-> "none"]
  /\ status = "Starting"
  /\ app = "up"
  /\ asks = 0
  /\ ended = "no"
  /\ races = 0

Next ==
  \/ \E g \in Gens :
       \/ Listen(g) \/ Die(g) \/ ReadLine(g) \/ CannotExpose(g) \/ Expose(g)
       \/ StartupTimeout(g) \/ MarkFailure(g) \/ StopFailed(g)
       \/ SpawnChild(g) \/ ExitSeen(g) \/ ExitJudged(g)
       \/ PollRound(g) \/ PollApply(g) \/ PollGivesUp(g)
  \/ Restart \/ Retry \/ Quit \/ Update
  \/ RespawnKills \/ RespawnWaits \/ RespawnSpawns
  \/ AskShutdown \/ StopEnds \/ InstallFails \/ Finish
  \/ ApplyEvent

\* What the runtime and the operating system keep doing: tasks are polled,
\* timers elapse, and a child told to end ends.
Fairness ==
  /\ \A g \in Gens :
       /\ WF_vars(\/ ReadLine(g) \/ Expose(g) \/ CannotExpose(g)
                  \/ ExitSeen(g) \/ ExitJudged(g))
       /\ WF_vars(PollRound(g) \/ PollApply(g) \/ PollGivesUp(g))
  /\ WF_vars(\E g \in Gens : StartupTimeout(g))
  /\ WF_vars(\E g \in Gens : MarkFailure(g) \/ StopFailed(g))
  /\ WF_vars(\E g \in Gens : SpawnChild(g))
  /\ WF_vars(\E g \in Gens : child[g].proc = "leaving" /\ Die(g))
  /\ WF_vars(AskShutdown) /\ WF_vars(StopEnds) /\ WF_vars(InstallFails \/ Finish)
  /\ WF_vars(RespawnKills \/ RespawnWaits \/ RespawnSpawns)
  /\ WF_vars(ApplyEvent)

Spec == Init /\ [][Next]_vars /\ Fairness

-----------------------------------------------------------------------------
(* Properties                                                              *)
\* Only the newest generation is ever exposed, only while its exit has not
\* been seen, and on the port that was last selected: the pollers and the
\* webview never talk to a sidecar the shell has replaced.
ExposedIsNewest ==
  LET g == endpoint.current IN
  g # 0 => g = endpoint.gen /\ child[g].task # "none" /\ child[g].port = endpoint.selected

\* A sidecar that lives is one the shell holds the handle of, or one that was
\* told to end and will be killed: none is forgotten.
NoStraySidecar ==
  \A g \in Gens : Alive(g) => slot = g \/ child[g].doomed \/ raced

\* The state is well typed, no sidecar is forgotten in it, and the pollers and
\* the webview talk to none but the newest.
ShellInvariant == TypeOK /\ NoStraySidecar /\ ExposedIsNewest

\* The app is never brought down by the exit of a sidecar it was restarting, or
\* of one whose startup it had given up on (SidecarRestarting and
\* SidecarFailureStop): it ends because the user quit, an update relaunches it,
\* or the sidecar ended otherwise.
RestartKeepsApp == ended \in {"restart", "failure"} => raced

\* A selected port that the webview was given a capability for is never given
\* up, however the sidecar on it ends: Tauri cannot revoke the capability.
PortNeverMoves ==
  [][endpoint.selected \in endpoint.capabilities => endpoint'.selected = endpoint.selected]_vars

\* Starting does not last: the shell comes to show the sidecar running or
\* failed, or it exits.
StartingResolves ==
  status = "Starting" /\ ~raced ~> status # "Starting" \/ app = "gone" \/ raced

=============================================================================
