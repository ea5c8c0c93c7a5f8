------------------------- MODULE ShellSidecar_proofs -------------------------
(***************************************************************************)
(* For any number of generations, requests and races: the selected port    *)
(* stays with the capability it was given and only the newest sidecar is   *)
(* exposed.  Where no handler began while another was between its locks,   *)
(* the exit of a sidecar that was restarted or given up never ends the     *)
(* app, and, if no request came before the effects of the last one were    *)
(* over either, no sidecar is forgotten.                                   *)
(***************************************************************************)
EXTENDS ShellSidecar, TLAPS

Endpoints == [gen : 0 .. MaxGen + 1, current : 0 .. MaxGen,
              selected : Ports \cup {0}, capabilities : SUBSET Ports]
Marks == [restart : SUBSET Gens, failure : SUBSET Gens]
Stops == [at : {"idle", "asking", "waiting", "released"},
          purpose : {"none", "quit", "update"}, graceful : BOOLEAN]
Event == [kind : {"Starting", "Failed", "Ready", "Exit"}, gen : 0 .. MaxGen]
Asks == {"restart", "failure", "stop"}

Begun(g) == child[g].proc = "begun"
Tasked(g) == child[g].task # "none"
Failing(g) == child[g].task \in {"mark", "kill"} \/ child[g].timer # "idle"
Killing(g) == child[g].task = "kill" \/ child[g].timer = "kill"

\* A handler of g is between its locks.
Handled(g) == Begun(g) \/ child[g].task \in {"mark", "kill", "gone"} \/ child[g].timer # "idle"

\* What a process and the shell's tasks for it may be together, whichever
\* generation it is.
Coherent(c) ==
  /\ c.proc \in {"none", "begun"} => c.task = "none" /\ c.timer = "idle"
  /\ c.proc = "begun" => c.why = "self"
  /\ c.proc \in {"booting", "listening", "leaving"} => c.task # "none"
  /\ c.proc = "booting" => c.task = "reading" /\ ~c.line
  /\ c.line \/ c.task = "checked" => c.port # 0 /\ c.requested \in {0, c.port}
  /\ c.line => c.task \notin {"none", "gone"}
  /\ c.task = "gone" => c.proc = "dead"
  /\ c.proc = "leaving" => c.why \in Asks
  /\ (c.task # "none" /\ c.proc = "dead" /\ c.code = 0) => c.why # "self"

\* What is asked to end for a restart or a failure is no longer in the slot.
ChildInv ==
  /\ \A g \in Gens : Coherent(child[g])
  /\ \A g \in Gens : child[g].proc # "none" => g <= endpoint.gen
  /\ \A g \in Gens : (Tasked(g) /\ child[g].why \in {"restart", "failure"}) => slot # g

\* A pending generation asked for the port that is selected.
Open(g) == Begun(g) \/ child[g].task \notin {"none", "gone"}
Shown(g) ==
  /\ child[g].task \notin {"none", "gone"} /\ child[g].proc # "booting"
  /\ child[g].port = endpoint.selected
ExposedInv ==
  /\ endpoint.current # 0 => endpoint.current = endpoint.gen /\ Shown(endpoint.current)
  /\ \A g \in Gens : (Open(g) /\ Pending(endpoint, g)) =>
       child[g].requested = Requested(endpoint)

EndInv ==
  /\ stopper.at # "idle" => stopper.purpose # "none"
  /\ RestartKeepsApp

\* As long as no two met, one handler at a time is between its locks ...
AloneInv ==
  /\ \A g, h \in Gens : Handled(g) /\ Handled(h) => g = h
  /\ \A g \in Gens : Handled(g) => respawn.at = "idle"
  /\ \A g \in Gens : child[g].timer # "idle" => child[g].task \notin {"mark", "kill", "gone"}

\* ... what it kills is what it marked, and a child that a restart or a failure
\* ended is marked until its exit is judged.
BlameInv ==
  /\ \A g \in Gens : (Tasked(g) /\ child[g].why = "restart") => g \in marks.restart
  /\ \A g \in Gens : (Tasked(g) /\ child[g].why = "failure") => g \in marks.failure
  /\ \A g \in Gens : Failing(g) => slot \in {0, g}
  /\ \A g \in Gens : Killing(g) => g \in marks.failure
  /\ \A g \in Gens : Begun(g) => g = endpoint.gen
  /\ \A g \in Gens : (child[g].proc \notin {"none", "begun"} /\ g = endpoint.gen) =>
       slot \in {0, g}
  /\ respawn.at = "kill" =>
       slot \in {0, respawn.gen} /\ respawn.gen \in marks.restart \cup {0}
  /\ respawn.at \in {"kill", "empty"} =>
       \A g \in Gens : (g = respawn.gen /\ Tasked(g)) => child[g].why # "restart"

SidecarInv ==
  TypeOK /\ ChildInv /\ ExposedInv /\ EndInv /\ (~raced => AloneInv /\ BlameInv)

\* Where requests wait for each other too: one restart at a time, of the newest
\* generation, and nothing in the slot when the next one is begun.
RestartInv ==
  /\ slot # 0 => slot = endpoint.gen \/ Failing(slot)
  /\ marks.restart # {} \/ respawn.at # "idle" => stopper.at = "idle"
  /\ \A g \in marks.restart :
       /\ marks.restart = {g}
       /\ slot = 0 \/ (respawn.at = "kill" /\ respawn.gen = g)
       /\ \A h \in Gens : (h = endpoint.gen /\ Tasked(h)) => h = g
  /\ (\E g \in Gens : Begun(g)) => slot = 0 /\ marks.restart = {}
  /\ respawn.at \in {"empty", "taken"} => slot = 0
  /\ \A g \in Gens : child[g].task = "gone" => slot # g
  /\ respawn.at # "idle" => marks.restart \subseteq {respawn.gen}

----------------------------------------------------------------------------
(* --- the endpoint and the children ------------------------------------- *)

LEMMA Numbers == /\ MaxGen \in Nat /\ MaxGen # 0 /\ MaxAsks \in Nat /\ MaxRaces \in Nat
                 /\ 0 \notin Ports /\ ProductionPort \in Ports /\ ProductionPort # 0
                 /\ Gens \subseteq 0 .. MaxGen /\ 0 \notin Gens /\ 0 \in 0 .. MaxGen
                 /\ \A n \in 0 .. MaxGen : n # 0 => n \in Gens
  BY BoundsAssumption, PortsAssumption DEF Gens

LEMMA NoChildIsChild ==
  /\ NoChild \in Child /\ Coherent(NoChild) /\ NoChild.proc = "none" /\ NoChild.task = "none"
  /\ NoChild.timer = "idle" /\ NoChild.requested = 0 /\ NoChild.why = "self" /\ ~NoChild.line
  BY DEF NoChild, Child, Processes, Coherent

LEMMA Typed == TypeOK => /\ endpoint \in Endpoints /\ child \in [Gens -> Child]
                         /\ slot \in 0 .. MaxGen /\ marks \in Marks /\ stopper \in Stops
                         /\ events \in Seq(Event)
                         /\ marks.restart \subseteq Gens /\ marks.failure \subseteq Gens
  BY DEF TypeOK, Endpoints, Marks, Stops, Event

LEMMA RequestedPort ==
  ASSUME NEW ep \in Endpoints
  PROVE  Requested(ep) \in Ports \cup {0}
  BY Numbers DEF Requested, Endpoints

SameRun(c, d) ==
  d.proc = c.proc /\ d.code = c.code /\ d.why = c.why /\ d.doomed = c.doomed
SamePort(c, d) == d.requested = c.requested /\ d.port = c.port
SameTask(c, d) == d.line = c.line /\ d.task = c.task /\ d.timer = c.timer

\* Only g's child differs.
Others(g, c, d) == d \in [Gens -> Child] /\ \A h \in Gens : h # g => d[h] = c[h]

LEMMA TaskMoves ==
  ASSUME TypeOK, NEW g \in Gens,
         NEW t \in {"reading", "mark", "kill", "gone"},
         NEW cs, cs = [child EXCEPT ![g].task = t]
  PROVE  /\ Others(g, child, cs) /\ SameRun(child[g], cs[g]) /\ SamePort(child[g], cs[g])
         /\ cs[g].timer = child[g].timer /\ cs[g].line = child[g].line /\ cs[g].task = t
<1> DEFINE d == [child[g] EXCEPT !.task = t]
<1>1. child[g] \in Child
  BY Typed
<1>2. /\ d \in Child /\ SameRun(child[g], d) /\ SamePort(child[g], d)
      /\ d.timer = child[g].timer /\ d.line = child[g].line /\ d.task = t
  BY <1>1 DEF Child, SameRun, SamePort
<1>3. cs = [child EXCEPT ![g] = d]
  BY Typed
<1> HIDE DEF d
<1> QED
  BY <1>2, <1>3, Typed DEF Others

LEMMA TimerMoves ==
  ASSUME TypeOK, NEW g \in Gens, NEW t \in {"idle", "mark", "kill"},
         NEW cs, cs = [child EXCEPT ![g].timer = t]
  PROVE  /\ Others(g, child, cs) /\ SameRun(child[g], cs[g]) /\ SamePort(child[g], cs[g])
         /\ cs[g].timer = t /\ cs[g].line = child[g].line /\ cs[g].task = child[g].task
<1> DEFINE d == [child[g] EXCEPT !.timer = t]
<1>1. child[g] \in Child
  BY Typed
<1>2. /\ d \in Child /\ SameRun(child[g], d) /\ SamePort(child[g], d)
      /\ d.timer = t /\ d.line = child[g].line /\ d.task = child[g].task
  BY <1>1 DEF Child, SameRun, SamePort
<1>3. cs = [child EXCEPT ![g] = d]
  BY Typed
<1> HIDE DEF d
<1> QED
  BY <1>2, <1>3, Typed DEF Others

\* What stays of a child that is asked to end.
Asked(c, d, why) ==
  /\ SamePort(c, d) /\ SameTask(c, d) /\ d.code = c.code /\ (c.doomed => d.doomed)
  /\ \/ d.proc = c.proc /\ d.why = c.why
     \/ c.proc \in {"booting", "listening"} /\ d.proc = "leaving" /\ d.why = why

LEMMA StoppedChild ==
  ASSUME NEW c \in Child, NEW why \in Asks
  PROVE  /\ Stopped(c, why) \in Child /\ Asked(c, Stopped(c, why), why)
         /\ c.proc \in {"booting", "listening"} =>
              Stopped(c, why).proc = "leaving" /\ Stopped(c, why).why = why
<1>1. CASE c.proc \in {"booting", "listening"}
  <2>1. Stopped(c, why) = [c EXCEPT !.proc = "leaving", !.why = why]
    BY <1>1 DEF Stopped
  <2>2. "leaving" \in Processes /\ why \in {"self", "outside", "restart", "failure", "stop"}
    BY DEF Processes, Asks
  <2>3. [c EXCEPT !.proc = "leaving", !.why = why] \in Child
    BY <2>2 DEF Child
  <2> QED
    BY <1>1, <2>1, <2>3 DEF Asked, Child, SamePort, SameTask
<1>2. CASE c.proc \notin {"booting", "listening"}
  BY <1>2 DEF Stopped, Asked, SamePort, SameTask
<1> QED
  BY <1>1, <1>2

LEMMA AskedIsCoherent ==
  ASSUME NEW c, NEW d, NEW why \in Asks, Coherent(c), Asked(c, d, why)
  PROVE  Coherent(d)
  BY DEF Coherent, Asked, Asks, SamePort, SameTask

LEMMA KilledChildren ==
  ASSUME slot \in 0 .. MaxGen, NEW cs \in [Gens -> Child], NEW why \in Asks
  PROVE  /\ Killed(cs, why) \in [Gens -> Child]
         /\ \A h \in Gens : Asked(cs[h], Killed(cs, why)[h], why)
         /\ \A h \in Gens : h # slot => Killed(cs, why)[h] = cs[h]
         /\ \A h \in Gens : h = slot => Killed(cs, why)[h].doomed
<1>1. CASE slot = 0
  BY <1>1, Numbers DEF Killed, Asked, SamePort, SameTask
<1>2. CASE slot # 0
  <2>1. slot \in Gens
    BY <1>2, Numbers
  <2> DEFINE c == cs[slot]
             d == [Stopped(c, why) EXCEPT !.doomed = TRUE]
  <2>2. c \in Child
    BY <2>1
  <2>3. Stopped(c, why) \in Child /\ Asked(c, Stopped(c, why), why)
    BY <2>2, StoppedChild
  <2>4. d \in Child /\ Asked(c, d, why) /\ d.doomed
    BY <2>3 DEF Asked, Child, SamePort, SameTask
  <2>5. Killed(cs, why) = [cs EXCEPT ![slot] = d]
    BY <1>2 DEF Killed
  <2> HIDE DEF d
  <2>6. \A h \in Gens : h # slot => Asked(cs[h], cs[h], why)
    BY DEF Asked, SamePort, SameTask
  <2> QED
    BY <2>1, <2>4, <2>5, <2>6
<1> QED
  BY <1>1, <1>2

\* The slot is emptied, and what it held is asked to end and will be killed.
SlotKilled(why) ==
  /\ child' \in [Gens -> Child] /\ slot' = 0
  /\ \A h \in Gens : Asked(child[h], child'[h], why)
  /\ \A h \in Gens : h # slot => SameRun(child[h], child'[h])
  /\ \A h \in Gens : h = slot => child'[h].doomed

LEMMA KillEffect ==
  ASSUME TypeOK, NEW why \in Asks, child' = Killed(child, why), slot' = 0
  PROVE  SlotKilled(why)
  BY KilledChildren, Typed DEF SlotKilled, SameRun

\* The next generation is begun.
Begins(ep, cs) ==
  LET g == ep.gen + 1 IN
  /\ g \in Gens /\ endpoint' \in Endpoints /\ endpoint'.gen = g /\ endpoint'.current = 0
  /\ endpoint'.selected = ep.selected /\ endpoint'.capabilities = ep.capabilities
  /\ child' \in [Gens -> Child] /\ Coherent(child'[g])
  /\ \A h \in Gens : h # g => child'[h] = cs[h]
  /\ child'[g].proc = "begun" /\ child'[g].task = "none" /\ child'[g].timer = "idle"
  /\ child'[g].requested = Requested(ep)

LEMMA BeginEffect ==
  ASSUME NEW ep \in Endpoints, NEW cs \in [Gens -> Child], Begin(ep, cs)
  PROVE  Begins(ep, cs)
<1> DEFINE g == ep.gen + 1
           d == [NoChild EXCEPT !.proc = "begun", !.requested = Requested(ep)]
<1>1. ep.gen \in Nat /\ g <= MaxGen
  BY Numbers DEF Begin, Endpoints
<1>2. g \in Gens /\ g \in 0 .. MaxGen + 1
  BY <1>1, Numbers DEF Gens
<1>3. endpoint' = [ep EXCEPT !.gen = g, !.current = 0] /\ child' = [cs EXCEPT ![g] = d]
  BY DEF Begin
<1>4. /\ endpoint' \in Endpoints /\ endpoint'.gen = g /\ endpoint'.current = 0
      /\ endpoint'.selected = ep.selected /\ endpoint'.capabilities = ep.capabilities
  BY <1>2, <1>3, Numbers DEF Endpoints
<1>5. Requested(ep) \in Ports \cup {0}
  BY RequestedPort
<1>6. /\ d \in Child /\ Coherent(d) /\ d.proc = "begun" /\ d.task = "none" /\ d.timer = "idle"
      /\ d.requested = Requested(ep)
  BY <1>5 DEF NoChild, Child, Processes, Coherent
<1> HIDE DEF d, g
<1>7. /\ child' \in [Gens -> Child] /\ child'[g] = d
      /\ \A h \in Gens : h # g => child'[h] = cs[h]
  BY <1>2, <1>3, <1>6
<1> QED
  BY <1>2, <1>4, <1>6, <1>7 DEF Begins, g

LEMMA OverChild ==
  ASSUME TypeOK, NEW g \in Gens, Coherent(child[g]), child[g].task = "gone"
  PROVE  /\ Over(g) \in [Gens -> Child] /\ Coherent(Over(g)[g])
         /\ Over(g)[g].task = "none" /\ Over(g)[g].proc = "dead"
         /\ Over(g)[g].timer = child[g].timer
         /\ \A h \in Gens : h # g => Over(g)[h] = child[h]
<1> DEFINE d == [NoChild EXCEPT !.proc = "dead", !.timer = child[g].timer]
<1>1. child[g].timer \in {"idle", "mark", "kill"}
  BY Typed DEF Child
<1>2. /\ d \in Child /\ Coherent(d) /\ d.task = "none" /\ d.proc = "dead"
      /\ d.timer = child[g].timer
  BY <1>1 DEF NoChild, Child, Processes, Coherent
<1>3. Over(g) = [child EXCEPT ![g] = d]
  BY DEF Over
<1> HIDE DEF d
<1> QED
  BY <1>2, <1>3, Typed

LEMMA ExpiredEndpoint ==
  ASSUME TypeOK, NEW g \in Gens
  PROVE  /\ Expired(endpoint, g) \in Endpoints
         /\ Expired(endpoint, g).current = endpoint.current
         /\ Expired(endpoint, g).selected = endpoint.selected
         /\ Expired(endpoint, g).capabilities = endpoint.capabilities
         /\ \/ Pending(endpoint, g) /\ Expired(endpoint, g).gen = endpoint.gen + 1
            \/ ~Pending(endpoint, g) /\ Expired(endpoint, g) = endpoint
<1>1. CASE Pending(endpoint, g)
  <2>1. Expired(endpoint, g) = [endpoint EXCEPT !.gen = @ + 1]
    BY <1>1 DEF Expired
  <2>2. endpoint.gen + 1 \in 0 .. MaxGen + 1
    BY <1>1, Numbers DEF Pending, Gens
  <2> QED
    BY <1>1, <2>1, <2>2, Typed DEF Endpoints
<1>2. CASE ~Pending(endpoint, g)
  BY <1>2, Typed DEF Expired
<1> QED
  BY <1>1, <1>2

LEMMA EntersEffect ==
  ASSUME TypeOK, NEW b \in BOOLEAN, Enters(b)
  PROVE  races' \in 0 .. MaxRaces /\ (~raced' => ~raced /\ ~b)
  BY Numbers DEF TypeOK, Enters, raced
----------------------------------------------------------------------------
(* --- what each action does to the children ----------------------------- *)

LEMMA ListenEffect ==
  ASSUME TypeOK, NEW g \in Gens, Coherent(child[g]), Listen(g)
  PROVE  /\ Others(g, child, child') /\ child[g].proc = "booting" /\ child'[g].proc = "listening"
         /\ child'[g].port # 0 /\ child'[g].requested \in {0, child'[g].port}
         /\ child'[g].requested = child[g].requested
         /\ child'[g].why = child[g].why /\ child'[g].doomed = child[g].doomed
         /\ child'[g].line /\ child'[g].task = "reading" /\ child'[g].timer = child[g].timer
<1>1. child[g] \in Child /\ child[g].proc = "booting" /\ child[g].task = "reading"
  BY Typed DEF Listen, Coherent
<1>2. PICK p \in Ports : /\ child[g].requested \in {0, p}
        /\ child' = [child EXCEPT ![g] =
             [@ EXCEPT !.proc = "listening", !.port = p, !.line = TRUE]]
  BY <1>1 DEF Listen, Child
<1> DEFINE d == [child[g] EXCEPT !.proc = "listening", !.port = p, !.line = TRUE]
<1>3. /\ d \in Child /\ d.proc = "listening" /\ d.port = p /\ d.line
      /\ d.requested = child[g].requested /\ d.why = child[g].why
      /\ d.doomed = child[g].doomed /\ d.task = child[g].task /\ d.timer = child[g].timer
  BY <1>1 DEF Child, Processes
<1>4. child' = [child EXCEPT ![g] = d]
  BY <1>2, Typed
<1> HIDE DEF d
<1>5. Others(g, child, child') /\ child'[g] = d
  BY <1>3, <1>4, Typed DEF Others
<1> QED
  BY <1>1, <1>2, <1>3, <1>5, Numbers

LEMMA DieEffect ==
  ASSUME TypeOK, NEW g \in Gens, Die(g)
  PROVE  /\ Others(g, child, child') /\ Alive(g) /\ child'[g].proc = "dead"
         /\ SamePort(child[g], child'[g]) /\ SameTask(child[g], child'[g])
         /\ child'[g].doomed = child[g].doomed
         /\ \/ child[g].proc = "leaving" /\ child'[g].why = child[g].why
            \/ child'[g].why = "outside"
            \/ child'[g].why = "self" /\ child'[g].code = 1
<1> DEFINE Ends(code, why) ==
             child' = [child EXCEPT ![g] = [@ EXCEPT !.proc = "dead", !.code = code, !.why = why]]
<1>1. child[g] \in Child
  BY Typed
<1>2. PICK code \in {0, 1}, why \in {"self", "outside", "restart", "failure", "stop"} :
        /\ Ends(code, why)
        /\ \/ why = child[g].why /\ child[g].proc = "leaving"
           \/ why = "outside" \/ (why = "self" /\ code = 1)
  <2>1. CASE child[g].proc = "leaving"
    <3> DEFINE w == child[g].why
    <3>1. w \in {"self", "outside", "restart", "failure", "stop"}
      BY <1>1 DEF Child
    <3>2. \E r \in {<<0, w>>, <<1, w>>} : Ends(r[1], r[2])
      BY <2>1 DEF Die
    <3>3. Ends(0, w) \/ Ends(1, w)
      <4> HIDE DEF Ends
      <4> QED
        BY <3>2
    <3> QED
      BY <2>1, <3>1, <3>3
  <2>2. CASE child[g].proc # "leaving"
    <3>1. \E r \in {<<0, "outside">>, <<1, "self">>} : Ends(r[1], r[2])
      BY <2>2 DEF Die
    <3>2. Ends(0, "outside") \/ Ends(1, "self")
      <4> HIDE DEF Ends
      <4> QED
        BY <3>1
    <3> QED
      BY <3>2
  <2> QED
    BY <2>1, <2>2
<1> DEFINE d == [child[g] EXCEPT !.proc = "dead", !.code = code, !.why = why]
<1>3. /\ d \in Child /\ d.proc = "dead" /\ d.code = code /\ d.why = why
      /\ SamePort(child[g], d) /\ SameTask(child[g], d) /\ d.doomed = child[g].doomed
  BY <1>1 DEF Child, Processes, SamePort, SameTask
<1>4. child' = [child EXCEPT ![g] = d]
  BY <1>2, Typed
<1> HIDE DEF d
<1>5. Others(g, child, child') /\ child'[g] = d
  BY <1>3, <1>4, Typed DEF Others
<1> QED
  BY <1>2, <1>3, <1>5 DEF Die

\* Its process and its port are as they were.
Steady(g) ==
  Others(g, child, child') /\ SameRun(child[g], child'[g]) /\ SamePort(child[g], child'[g])

LEMMA ReadLineEffect ==
  ASSUME TypeOK, NEW g \in Gens, ReadLine(g)
  PROVE  /\ Steady(g) /\ child'[g].timer = child[g].timer
         /\ child[g].task = "reading" /\ child[g].line
         /\ ~child'[g].line /\ child'[g].task \in {"checked", "reading"}
<1>1. PICK t \in {"checked", "reading"} :
        child' = [child EXCEPT ![g] = [@ EXCEPT !.line = FALSE, !.task = t]]
  BY DEF ReadLine
<1> DEFINE d == [child[g] EXCEPT !.line = FALSE, !.task = t]
<1>2. child[g] \in Child
  BY Typed
<1>3. /\ d \in Child /\ SameRun(child[g], d) /\ SamePort(child[g], d)
      /\ d.timer = child[g].timer /\ ~d.line /\ d.task = t
  BY <1>2 DEF Child, SameRun, SamePort
<1>4. child' = [child EXCEPT ![g] = d]
  BY <1>1, Typed
<1> HIDE DEF d
<1>5. /\ Others(g, child, child') /\ SameRun(child[g], child'[g])
      /\ SamePort(child[g], child'[g]) /\ child'[g].timer = child[g].timer
      /\ ~child'[g].line /\ child'[g].task = t
  BY <1>3, <1>4, Typed DEF Others
<1>6. child[g].task = "reading" /\ child[g].line
  BY DEF ReadLine
<1> QED
  BY <1>5, <1>6 DEF Steady

LEMMA CannotExposeEffect ==
  ASSUME TypeOK, NEW g \in Gens, CannotExpose(g)
  PROVE  /\ Steady(g) /\ child'[g].timer = child[g].timer /\ child'[g].line = child[g].line
         /\ child[g].task = "checked" /\ child'[g].task = "mark"
<1>1. child' = [child EXCEPT ![g].task = "mark"]
  BY DEF CannotExpose
<1>2. /\ Others(g, child, child') /\ SameRun(child[g], child'[g])
      /\ SamePort(child[g], child'[g]) /\ child'[g].timer = child[g].timer
      /\ child'[g].line = child[g].line /\ child'[g].task = "mark"
  BY <1>1, TaskMoves
<1>3. child[g].task = "checked"
  BY DEF CannotExpose
<1> QED
  BY <1>2, <1>3 DEF Steady

LEMMA ExposeEffect ==
  ASSUME TypeOK, NEW g \in Gens, Coherent(child[g]), Expose(g)
  PROVE  /\ Steady(g) /\ child'[g].timer = child[g].timer /\ child'[g].line = child[g].line
         /\ child[g].task = "checked" /\ child'[g].task = "reading"
         /\ child[g].port \in Ports /\ endpoint' \in Endpoints /\ endpoint'.gen = endpoint.gen
         /\ endpoint'.capabilities = endpoint.capabilities \cup {child[g].port}
         /\ \/ /\ Pending(endpoint, g) /\ endpoint'.current = g
               /\ endpoint'.selected = child[g].port /\ events' = Append(events, Ready(g))
            \/ /\ ~Pending(endpoint, g) /\ UNCHANGED events
               /\ endpoint'.current = endpoint.current
               /\ endpoint'.selected = endpoint.selected
<1> DEFINE p == child[g].port
<1>1. /\ Steady(g) /\ child'[g].timer = child[g].timer /\ child'[g].line = child[g].line
      /\ child[g].task = "checked" /\ child'[g].task = "reading"
  <2>1. PICK t \in {"reading", "mark", "kill", "gone"} :
          t = "reading" /\ child' = [child EXCEPT ![g].task = t]
    BY DEF Expose
  <2>2. /\ Others(g, child, child') /\ SameRun(child[g], child'[g])
        /\ SamePort(child[g], child'[g]) /\ child'[g].timer = child[g].timer
        /\ child'[g].line = child[g].line /\ child'[g].task = t
    <3>1. child' = [child EXCEPT ![g].task = t]
      BY <2>1
    <3> QED
      BY <3>1, TaskMoves, ZenonT(60)
  <2>3. child[g].task = "checked"
    BY DEF Expose
  <2> QED
    BY <2>1, <2>2, <2>3 DEF Steady
<1>2. p \in Ports /\ endpoint \in Endpoints /\ g \in 0 .. MaxGen
  BY <1>1, Typed, Numbers DEF Coherent, Child
<1> HIDE DEF p
<1>3. CASE Pending(endpoint, g)
  <2>1. /\ endpoint' = [endpoint EXCEPT !.capabilities = @ \cup {p}, !.selected = p,
                                        !.current = g]
        /\ events' = Append(events, Ready(g))
    BY <1>2, <1>3 DEF Expose, p, Endpoints
  <2> QED
    BY <1>1, <1>2, <1>3, <2>1 DEF Endpoints, p
<1>4. CASE ~Pending(endpoint, g)
  <2>1. endpoint' = [endpoint EXCEPT !.capabilities = @ \cup {p}] /\ UNCHANGED events
    BY <1>4 DEF Expose, p
  <2> QED
    BY <1>1, <1>2, <1>4, <2>1 DEF Endpoints, p
<1> QED
  BY <1>3, <1>4

LEMMA StartupTimeoutEffect ==
  ASSUME TypeOK, NEW g \in Gens, StartupTimeout(g)
  PROVE  /\ Steady(g) /\ child'[g].line = child[g].line
         /\ child'[g].task = child[g].task /\ child'[g].timer = "mark"
  BY TimerMoves DEF StartupTimeout, Steady

LEMMA MarkFailureEffect ==
  ASSUME TypeOK, NEW g \in Gens, MarkFailure(g)
  PROVE  /\ Steady(g) /\ child'[g].line = child[g].line
         /\ \/ /\ child[g].task = "mark" /\ child'[g].task = "kill"
               /\ child'[g].timer = child[g].timer
            \/ /\ child[g].timer = "mark" /\ child'[g].timer = "kill"
               /\ child'[g].task = child[g].task
         /\ marks' \in Marks /\ marks'.restart = marks.restart
         /\ marks'.failure = marks.failure \cup {g}
<1>1. marks' = [marks EXCEPT !.failure = @ \cup {g}]
  BY DEF MarkFailure
<1>2. /\ marks' \in Marks /\ marks'.restart = marks.restart
      /\ marks'.failure = marks.failure \cup {g}
  BY <1>1, Typed DEF Marks
<1>3. CASE child[g].task = "mark" /\ child' = [child EXCEPT ![g].task = "kill"]
  <2>1. /\ Others(g, child, child') /\ SameRun(child[g], child'[g])
        /\ SamePort(child[g], child'[g]) /\ child'[g].timer = child[g].timer
        /\ child'[g].line = child[g].line /\ child'[g].task = "kill"
    BY <1>3, TaskMoves
  <2> QED
    BY <1>2, <1>3, <2>1 DEF Steady
<1>4. CASE child[g].timer = "mark" /\ child' = [child EXCEPT ![g].timer = "kill"]
  BY <1>2, <1>4, TimerMoves DEF Steady
<1> QED
  BY <1>3, <1>4 DEF MarkFailure

LEMMA StopFailedEffect ==
  ASSUME TypeOK, NEW g \in Gens, StopFailed(g)
  PROVE  /\ child' \in [Gens -> Child] /\ slot' = 0
         /\ \A h \in Gens : h # g => Asked(child[h], child'[h], "failure")
         /\ \A h \in Gens : h # slot => SameRun(child[h], child'[h])
         /\ \A h \in Gens : h = slot => child'[h].doomed
         /\ SamePort(child[g], child'[g]) /\ child'[g].line = child[g].line
         /\ child'[g].code = child[g].code /\ (child[g].doomed => child'[g].doomed)
         /\ \/ child'[g].proc = child[g].proc /\ child'[g].why = child[g].why
            \/ /\ child[g].proc \in {"booting", "listening"}
               /\ child'[g].proc = "leaving" /\ child'[g].why = "failure"
         /\ \/ /\ child[g].task = "kill" /\ child'[g].task = "reading"
               /\ child'[g].timer = child[g].timer
            \/ /\ child[g].timer = "kill" /\ child'[g].timer = "idle"
               /\ child'[g].task = child[g].task
<1>1. PICK cs : /\ Others(g, child, cs) /\ SameRun(child[g], cs[g]) /\ SamePort(child[g], cs[g])
                /\ cs[g].line = child[g].line
                /\ child' = Killed(cs, "failure") /\ slot' = 0
                /\ \/ /\ child[g].task = "kill" /\ cs[g].task = "reading"
                      /\ cs[g].timer = child[g].timer
                   \/ /\ child[g].timer = "kill" /\ cs[g].timer = "idle"
                      /\ cs[g].task = child[g].task
  <2>1. CASE /\ child[g].task = "kill"
             /\ child' = Killed([child EXCEPT ![g].task = "reading"], "failure")
    <3>0. PICK t \in {"reading", "mark", "kill", "gone"} : t = "reading"
      OBVIOUS
    <3>1. PICK cs : cs = [child EXCEPT ![g].task = t]
      OBVIOUS
    <3>2. /\ Others(g, child, cs) /\ SameRun(child[g], cs[g])
          /\ SamePort(child[g], cs[g]) /\ cs[g].timer = child[g].timer
          /\ cs[g].line = child[g].line /\ cs[g].task = t
      BY <3>1, TaskMoves, ZenonT(60)
    <3> QED
      BY <2>1, <3>0, <3>1, <3>2 DEF StopFailed
  <2>2. CASE /\ child[g].timer = "kill"
             /\ child' = Killed([child EXCEPT ![g].timer = "idle"], "failure")
    <3>1. PICK cs : cs = [child EXCEPT ![g].timer = "idle"]
      OBVIOUS
    <3> QED
      BY <2>2, <3>1, TimerMoves DEF StopFailed
  <2> QED
    BY <2>1, <2>2 DEF StopFailed
<1>2. /\ child' \in [Gens -> Child]
      /\ \A h \in Gens : Asked(cs[h], child'[h], "failure")
      /\ \A h \in Gens : h # slot => child'[h] = cs[h]
      /\ \A h \in Gens : h = slot => child'[h].doomed
  BY <1>1, KilledChildren, Typed DEF Others, Asks
<1>3. \A h \in Gens : h # g => cs[h] = child[h]
  BY <1>1 DEF Others
<1>4. \A h \in Gens : h # slot => SameRun(child[h], child'[h])
  BY <1>1, <1>2, <1>3 DEF SameRun
<1>5. Asked(cs[g], child'[g], "failure")
  BY <1>2
<1> QED
  BY <1>1, <1>2, <1>3, <1>4, <1>5 DEF Asked, SamePort, SameTask, SameRun

LEMMA ExitSeenEffect ==
  ASSUME TypeOK, NEW g \in Gens, ExitSeen(g)
  PROVE  /\ Steady(g) /\ child'[g].timer = child[g].timer /\ child'[g].line = child[g].line
         /\ child[g].proc = "dead" /\ child[g].task = "reading" /\ ~child[g].line
         /\ child'[g].task = "gone"
         /\ endpoint' \in Endpoints /\ endpoint'.gen = endpoint.gen
         /\ endpoint'.selected = endpoint.selected
         /\ endpoint'.capabilities = endpoint.capabilities
         /\ endpoint'.current = IF endpoint.gen = g THEN 0 ELSE endpoint.current
         /\ slot' = IF slot = g THEN 0 ELSE slot
<1>1. /\ endpoint' \in Endpoints /\ endpoint'.gen = endpoint.gen
      /\ endpoint'.selected = endpoint.selected
      /\ endpoint'.capabilities = endpoint.capabilities
      /\ endpoint'.current = IF endpoint.gen = g THEN 0 ELSE endpoint.current
  BY Typed, Numbers DEF ExitSeen, Endpoints
<1>2. child' = [child EXCEPT ![g].task = "gone"]
  BY DEF ExitSeen
<1>3. /\ Others(g, child, child') /\ SameRun(child[g], child'[g])
      /\ SamePort(child[g], child'[g]) /\ child'[g].timer = child[g].timer
      /\ child'[g].line = child[g].line /\ child'[g].task = "gone"
  BY <1>2, TaskMoves
<1> QED
  BY <1>1, <1>3 DEF ExitSeen, Steady

LEMMA SpawnChildEffect ==
  ASSUME TypeOK, NEW g \in Gens, Coherent(child[g]), SpawnChild(g)
  PROVE  /\ Others(g, child, child') /\ child[g].proc = "begun" /\ Coherent(child'[g])
         /\ child'[g].timer = "idle"
         /\ \/ /\ slot' = g /\ child'[g].proc = "booting" /\ child'[g].task = "reading"
               /\ SamePort(child[g], child'[g]) /\ child'[g].why = child[g].why
            \/ slot' = slot /\ child'[g].proc = "none" /\ child'[g].task = "none"
         /\ \/ events' = events
            \/ events' = Append(events, State("Failed"))
<1>1. child[g] \in Child /\ child[g].proc = "begun" /\ child[g].timer = "idle"
      /\ child[g].task = "none" /\ ~child[g].line
  BY Typed DEF SpawnChild, Coherent, Child
<1>2. CASE child' = [child EXCEPT ![g] = NoChild] /\ slot' = slot
           /\ events' = Append(events, State("Failed"))
  BY <1>1, <1>2, Typed, NoChildIsChild DEF Others
<1>3. CASE /\ child' = [child EXCEPT ![g] = [@ EXCEPT !.proc = "booting", !.task = "reading"]]
           /\ slot' = g /\ UNCHANGED events
  <2> DEFINE d == [child[g] EXCEPT !.proc = "booting", !.task = "reading"]
  <2>1. /\ d \in Child /\ d.proc = "booting" /\ d.task = "reading" /\ d.timer = "idle"
        /\ ~d.line /\ d.why = child[g].why /\ SamePort(child[g], d)
    BY <1>1 DEF Child, Processes, SamePort
  <2>2. Coherent(d)
    BY <2>1 DEF Coherent
  <2>3. child' = [child EXCEPT ![g] = d]
    BY <1>3, Typed
  <2> HIDE DEF d
  <2>4. Others(g, child, child') /\ child'[g] = d
    BY <2>1, <2>3, Typed DEF Others
  <2> QED
    BY <1>1, <1>3, <2>1, <2>2, <2>4
<1> QED
  BY <1>2, <1>3 DEF SpawnChild

\* The exit settles the state, and may end the app.
Ends(g) ==
  /\ child' = Over(g) /\ UNCHANGED endpoint
  /\ marks'.restart = marks.restart
  /\ marks'.failure = marks.failure \/ marks'.failure = marks.failure \ {g}
  /\ \/ ended' \in {ended, "crash"}
     \/ /\ ended' = child[g].why /\ child[g].code = 0
        /\ g \notin marks.restart \cup marks.failure

\* The exit of a child that was restarted starts the next.
Replaces(g) ==
  /\ g \in marks.restart /\ Begins(endpoint, Over(g)) /\ UNCHANGED ended
  /\ marks'.restart = marks.restart \ {g} /\ marks'.failure = marks.failure

\* A port that was never exposed is given up for one of the kernel's choice.
Retries(g) ==
  /\ g = endpoint.gen /\ g \notin marks.restart /\ endpoint.capabilities = {}
  /\ Begins([endpoint EXCEPT !.selected = 0], Over(g)) /\ UNCHANGED <<marks, ended>>

LEMMA ExitJudgedEffect ==
  ASSUME TypeOK, NEW g \in Gens, Coherent(child[g]), ExitJudged(g)
  PROVE  /\ child[g].task = "gone" /\ marks' \in Marks /\ events' \in Seq(Event)
         /\ handoff' \in {handoff, "sent"}
         /\ Ends(g) \/ Replaces(g) \/ Retries(g)
<1>1. child[g].task = "gone"
  BY DEF ExitJudged
<1>2. Over(g) \in [Gens -> Child]
  BY <1>1, OverChild
<1>3. /\ Append(events, State("Starting")) \in Seq(Event)
      /\ Append(events, State("Failed")) \in Seq(Event) /\ Append(events, Exit) \in Seq(Event)
  <2>1. State("Starting") \in Event /\ State("Failed") \in Event /\ Exit \in Event
    BY Numbers DEF State, Exit, Event
  <2> QED
    BY <2>1, Typed
<1>4. CASE handoff = "armed"
  <2>1. handoff' = "sent" /\ child' = Over(g) /\ UNCHANGED <<endpoint, marks, events, ended>>
    BY <1>4 DEF ExitJudged
  <2> QED
    BY <1>1, <2>1, Typed DEF Ends
<1>5. CASE handoff # "armed" /\ g \in marks.failure
  <2>1. /\ marks' = [marks EXCEPT !.failure = @ \ {g}] /\ child' = Over(g)
        /\ UNCHANGED <<endpoint, handoff, events, ended>>
    BY <1>5 DEF ExitJudged
  <2>2. /\ marks' \in Marks /\ marks'.restart = marks.restart
        /\ marks'.failure = marks.failure \ {g}
    BY <2>1, Typed DEF Marks
  <2> QED
    BY <1>1, <2>1, <2>2, Typed DEF Ends
<1>6. CASE handoff # "armed" /\ g \in marks.restart \ marks.failure
  <2>1. /\ marks' = [marks EXCEPT !.restart = @ \ {g}] /\ Begin(endpoint, Over(g))
        /\ UNCHANGED <<handoff, events, ended>>
    BY <1>6 DEF ExitJudged
  <2>2. /\ marks' \in Marks /\ marks'.restart = marks.restart \ {g}
        /\ marks'.failure = marks.failure
    BY <2>1, Typed DEF Marks
  <2>3. Begins(endpoint, Over(g))
    BY <1>2, <2>1, BeginEffect, Typed
  <2> QED
    BY <1>1, <1>6, <2>1, <2>2, <2>3, Typed DEF Replaces
<1>7. CASE handoff # "armed" /\ g \notin marks.failure /\ g \notin marks.restart
  <2>1. /\ UNCHANGED <<marks, handoff>>
        /\ IF child[g].code # 0 /\ app = "up" /\ profile # "Production"
              /\ DynamicRetry(endpoint, g)
           THEN /\ Begin([endpoint EXCEPT !.selected = 0], Over(g))
                /\ events' = Append(events, State("Starting"))
                /\ UNCHANGED ended
           ELSE /\ child' = Over(g) /\ UNCHANGED endpoint
                /\ \/ events' = Append(events, Exit) /\ ended' = child[g].why /\ child[g].code = 0
                   \/ events' = Append(events, Exit) /\ ended' = "crash"
                   \/ events' = Append(events, State("Failed")) /\ UNCHANGED ended
    BY <1>7 DEF ExitJudged
  <2>2. CASE child[g].code # 0 /\ app = "up" /\ profile # "Production"
             /\ DynamicRetry(endpoint, g)
    <3>1. [endpoint EXCEPT !.selected = 0] \in Endpoints
      BY Typed DEF Endpoints
    <3>2. Begins([endpoint EXCEPT !.selected = 0], Over(g))
      BY <1>2, <2>1, <2>2, <3>1, BeginEffect
    <3>3. endpoint.capabilities = {} /\ g = endpoint.gen
      BY <2>2 DEF DynamicRetry, Pending
    <3> QED
      BY <1>1, <1>3, <1>7, <2>1, <2>2, <3>2, <3>3, Typed DEF Retries
  <2>3. CASE ~(child[g].code # 0 /\ app = "up" /\ profile # "Production"
               /\ DynamicRetry(endpoint, g))
    BY <1>1, <1>3, <1>7, <2>1, <2>3, Typed DEF Ends
  <2> QED
    BY <2>2, <2>3
<1> QED
  BY <1>4, <1>5, <1>6, <1>7

LEMMA AskShutdownEffect ==
  ASSUME SidecarInv, AskShutdown
  PROVE  /\ stopper.at = "asking" /\ stopper.purpose \in {"quit", "update"}
         /\ \/ StopHard(stopper.purpose)
            \/ /\ Others(endpoint.current, child, child') /\ endpoint.current \in Gens
               /\ Asked(child[endpoint.current], child'[endpoint.current], "stop")
               /\ child[endpoint.current].proc = "listening" /\ UNCHANGED shell
               /\ child'[endpoint.current].proc = "leaving"
               /\ child'[endpoint.current].why = "stop"
               /\ stopper' \in Stops /\ stopper'.at = "waiting"
               /\ stopper'.purpose = stopper.purpose
<1>1. TypeOK /\ stopper.at = "asking" /\ stopper.purpose \in {"quit", "update"}
  BY Typed DEF AskShutdown, SidecarInv, EndInv, Stops
<1>2. CASE StopHard(stopper.purpose)
  BY <1>1, <1>2
<1>3. CASE /\ endpoint.current # 0 /\ child[endpoint.current].proc = "listening"
           /\ child' = [child EXCEPT ![endpoint.current] = Stopped(@, "stop")]
           /\ stopper' = [stopper EXCEPT !.at = "waiting", !.graceful = TRUE]
           /\ UNCHANGED shell
  <2> DEFINE g == endpoint.current
             d == Stopped(child[g], "stop")
  <2>1. g \in Gens
    BY <1>1, <1>3, Typed, Numbers DEF Endpoints
  <2>2. /\ d \in Child /\ Asked(child[g], d, "stop")
        /\ d.proc = "leaving" /\ d.why = "stop"
    BY <1>1, <1>3, <2>1, Typed, StoppedChild DEF Asks
  <2>3. child' = [child EXCEPT ![g] = d]
    BY <1>3
  <2>4. stopper' \in Stops /\ stopper'.at = "waiting" /\ stopper'.purpose = stopper.purpose
    BY <1>1, <1>3, Typed DEF Stops
  <2> HIDE DEF d, g
  <2>5. Others(g, child, child') /\ child'[g] = d
    BY <1>1, <2>1, <2>2, <2>3, Typed DEF Others
  <2> QED
    BY <1>1, <1>3, <2>1, <2>2, <2>4, <2>5 DEF g
<1> QED
  BY <1>1, <1>2, <1>3 DEF AskShutdown

LEMMA RespawnTypes ==
  ASSUME TypeOK, Respawn
  PROVE  /\ marks' \in Marks /\ races' \in 0 .. MaxRaces
         /\ respawn' \in [at : {"idle", "kill", "taken", "empty"}, gen : 0 .. MaxGen]
         /\ respawn'.at = "kill" /\ respawn'.gen = slot
         /\ marks'.failure = marks.failure
         /\ marks'.restart = marks.restart \cup (IF slot = 0 THEN {} ELSE {slot})
<1>1. slot \in 0 .. MaxGen /\ marks \in Marks /\ (slot # 0 => slot \in Gens)
  BY Typed, Numbers
<1>2. races' \in 0 .. MaxRaces
  BY Numbers DEF Respawn, Enters, TypeOK
<1>3. respawn' = [at |-> "kill", gen |-> slot]
  BY DEF Respawn
<1>4. /\ marks' \in Marks /\ marks'.failure = marks.failure
      /\ marks'.restart = marks.restart \cup (IF slot = 0 THEN {} ELSE {slot})
  BY <1>1 DEF Respawn, Marks
<1> QED
  BY <1>1, <1>2, <1>3, <1>4

LEMMA RespawnSpawnsEffect ==
  ASSUME TypeOK, RespawnSpawns
  PROVE  /\ Begins(endpoint, child) /\ marks' \in Marks
         /\ marks'.restart = marks.restart \ {respawn.gen} /\ marks'.failure = marks.failure
         /\ respawn'.at = "idle" /\ respawn.at = "empty"
<1>1. Begin(endpoint, child) /\ respawn' = NoRespawn /\ respawn.at = "empty"
      /\ marks' = [marks EXCEPT !.restart = @ \ {respawn.gen}]
  BY DEF RespawnSpawns
<1>2. Begins(endpoint, child)
  BY <1>1, BeginEffect, Typed
<1>3. /\ marks' \in Marks
      /\ marks'.restart = marks.restart \ {respawn.gen} /\ marks'.failure = marks.failure
  BY <1>1, Typed DEF Marks
<1> QED
  BY <1>1, <1>2, <1>3 DEF NoRespawn

----------------------------------------------------------------------------
(* --- the types --------------------------------------------------------- *)

Respawns == [at : {"idle", "kill", "taken", "empty"}, gen : 0 .. MaxGen]

LEMMA EventTypes ==
  /\ \A g \in Gens : Ready(g) \in Event
  /\ State("Starting") \in Event /\ State("Failed") \in Event /\ Exit \in Event
  BY Numbers DEF Ready, State, Exit, Event

LEMMA MayAskTypes ==
  ASSUME TypeOK, MayAsk
  PROVE  asks' \in 0 .. MaxAsks
  BY Numbers DEF TypeOK, MayAsk

\* Only the children, and what a handler changes with them.
LEMMA HandlerTypes ==
  ASSUME TypeOK, child' \in [Gens -> Child], endpoint' \in Endpoints, slot' \in 0 .. MaxGen,
         marks' \in Marks, handoff' \in {handoff, "sent"}, respawn' \in Respawns,
         events' \in Seq(Event), races' \in 0 .. MaxRaces,
         ended' \in {"no", "quit", "update", "crash", "outside", "restart", "failure", "stop"},
         UNCHANGED <<host, stopper, poll, status, app, asks>>
  PROVE  TypeOK'
  BY DEF TypeOK, Endpoints, Marks, Event, Respawns, host

\* Only what the app does with the sidecar as a whole.
LEMMA AppTypes ==
  ASSUME TypeOK, child' \in [Gens -> Child], slot' \in 0 .. MaxGen,
         marks' \in Marks, handoff' \in {handoff, "none", "armed"}, respawn' \in Respawns,
         stopper' \in Stops, asks' \in 0 .. MaxAsks, app' \in {app, "exiting", "gone"},
         ended' \in {ended, "quit", "update"}, races' \in 0 .. MaxRaces,
         UNCHANGED <<host, endpoint, events, poll, status>>
  PROVE  TypeOK'
  BY DEF TypeOK, Stops, Marks, Event, Respawns, host

LEMMA InitTypes == Init => TypeOK
<1> SUFFICES ASSUME Init PROVE TypeOK
  OBVIOUS
<1>1. endpoint \in Endpoints
  BY Numbers, PortsAssumption DEF Init, Endpoints
<1>2. Requested(endpoint) \in Ports \cup {0}
  BY <1>1, RequestedPort
<1> DEFINE d == [NoChild EXCEPT !.proc = "booting", !.requested = Requested(endpoint),
                                !.task = "reading"]
<1>3. d \in Child /\ NoChild \in Child
  BY <1>2, NoChildIsChild DEF NoChild, Child, Processes
<1>4. child = [g \in Gens |-> IF g = 1 THEN d ELSE NoChild]
  BY DEF Init
<1> HIDE DEF d
<1>5. child \in [Gens -> Child]
  BY <1>3, <1>4
<1>6. <<profile, windows>> \in Hosts
  <2>1. PICK h \in Hosts : profile = h[1] /\ windows = h[2]
    BY DEF Init
  <2>2. PICK a \in {"Production", "Development", "Test"}, b \in BOOLEAN : h = <<a, b>>
    BY FlagsAssumption
  <2> QED
    BY <2>1, <2>2
<1> QED
  BY <1>1, <1>5, <1>6, Numbers DEF Init, TypeOK, Endpoints, NoRespawn, Gens

LEMMA NextTypes ==
  ASSUME SidecarInv, Next
  PROVE  TypeOK'
<1> USE DEF host, shell
<1>t. TypeOK /\ (\A g \in Gens : Coherent(child[g])) /\ EndInv
  BY DEF SidecarInv, ChildInv
<1>c. /\ endpoint \in Endpoints /\ child \in [Gens -> Child] /\ slot \in 0 .. MaxGen
      /\ marks \in Marks /\ stopper \in Stops /\ events \in Seq(Event)
      /\ respawn \in Respawns /\ races \in 0 .. MaxRaces /\ asks \in 0 .. MaxAsks
      /\ 0 \in 0 .. MaxGen /\ (\A g \in Gens : g \in 0 .. MaxGen)
      /\ ended \in {"no", "quit", "update", "crash", "outside", "restart", "failure", "stop"}
  BY <1>t, Typed, Numbers DEF TypeOK, Respawns
<1>1. ASSUME NEW g \in Gens, Listen(g) PROVE TypeOK'
  BY <1>t, <1>c, <1>1, ListenEffect, HandlerTypes DEF Listen, Others
<1>2. ASSUME NEW g \in Gens, Die(g) PROVE TypeOK'
  BY <1>t, <1>c, <1>2, DieEffect, HandlerTypes DEF Die, Others
<1>3. ASSUME NEW g \in Gens, ReadLine(g) PROVE TypeOK'
  BY <1>t, <1>c, <1>3, ReadLineEffect, HandlerTypes DEF ReadLine, Others, Steady
<1>4. ASSUME NEW g \in Gens, CannotExpose(g) PROVE TypeOK'
  <2>1. races' \in 0 .. MaxRaces
    BY <1>c, <1>4, Numbers DEF CannotExpose, Enters
  <2>2. endpoint' \in Endpoints
    BY <1>t, <1>4, ExpiredEndpoint DEF CannotExpose
  <2> QED
    BY <1>t, <1>c, <1>4, <2>1, <2>2, CannotExposeEffect, HandlerTypes
    DEF CannotExpose, Others, Steady
<1>5. ASSUME NEW g \in Gens, Expose(g) PROVE TypeOK'
  <2>1. events' \in Seq(Event)
    BY <1>t, <1>c, <1>5, ExposeEffect, EventTypes
  <2> QED
    BY <1>t, <1>c, <1>5, <2>1, ExposeEffect, HandlerTypes DEF Expose, Others, Steady
<1>6. ASSUME NEW g \in Gens, StartupTimeout(g) PROVE TypeOK'
  <2>1. races' \in 0 .. MaxRaces
    BY <1>c, <1>6, Numbers DEF StartupTimeout, Enters
  <2>2. endpoint' \in Endpoints
    BY <1>t, <1>6, ExpiredEndpoint DEF StartupTimeout
  <2> QED
    BY <1>t, <1>c, <1>6, <2>1, <2>2, StartupTimeoutEffect, HandlerTypes
    DEF StartupTimeout, Others, Steady
<1>7. ASSUME NEW g \in Gens, MarkFailure(g) PROVE TypeOK'
  BY <1>t, <1>c, <1>7, MarkFailureEffect, HandlerTypes DEF MarkFailure, Others, Steady
<1>8. ASSUME NEW g \in Gens, StopFailed(g) PROVE TypeOK'
  <2>1. events' \in Seq(Event)
    BY <1>c, <1>8, EventTypes DEF StopFailed
  <2> QED
    BY <1>t, <1>c, <1>8, <2>1, StopFailedEffect, HandlerTypes DEF StopFailed
<1>9. ASSUME NEW g \in Gens, SpawnChild(g) PROVE TypeOK'
  <2>1. events' \in Seq(Event)
    BY <1>t, <1>c, <1>9, SpawnChildEffect, EventTypes
  <2>2. child' \in [Gens -> Child] /\ slot' \in 0 .. MaxGen
    BY <1>t, <1>c, <1>9, SpawnChildEffect DEF Others
  <2> QED
    BY <1>t, <1>c, <1>9, <2>1, <2>2, HandlerTypes DEF SpawnChild
<1>10. ASSUME NEW g \in Gens, ExitSeen(g) PROVE TypeOK'
  <2>1. races' \in 0 .. MaxRaces
    BY <1>c, <1>10, Numbers DEF ExitSeen, Enters
  <2> QED
    BY <1>t, <1>c, <1>10, <2>1, ExitSeenEffect, HandlerTypes DEF ExitSeen, Others, Steady
<1>11. ASSUME NEW g \in Gens, ExitJudged(g) PROVE TypeOK'
  <2>1. /\ child[g].task = "gone" /\ marks' \in Marks /\ events' \in Seq(Event)
        /\ handoff' \in {handoff, "sent"} /\ (Ends(g) \/ Replaces(g) \/ Retries(g))
    BY <1>t, <1>11, ExitJudgedEffect
  <2>2. Over(g) \in [Gens -> Child]
    BY <1>t, <2>1, OverChild
  <2>3. child' \in [Gens -> Child] /\ endpoint' \in Endpoints
    BY <1>c, <2>1, <2>2 DEF Ends, Replaces, Retries, Begins
  <2>4. ended' \in {"no", "quit", "update", "crash", "outside", "restart", "failure", "stop"}
    <3>1. CASE ended' \in {ended, "crash"}
      BY <1>c, <3>1
    <3>2. CASE ended' = child[g].why /\ child[g].code = 0
      <4>1. child[g] \in Child /\ child[g].proc = "dead" /\ child[g].why # "self"
        BY <1>t, <1>c, <2>1, <3>2 DEF Coherent
      <4>2. child[g].why \in {"self", "outside", "restart", "failure", "stop"}
        BY <4>1 DEF Child
      <4> QED
        BY <3>2, <4>1, <4>2
    <3> QED
      BY <2>1, <3>1, <3>2 DEF Ends, Replaces, Retries
  <2>5. UNCHANGED <<host, slot, respawn, stopper, poll, status, app, asks, races>>
    BY <1>11 DEF ExitJudged
  <2> QED
    BY <1>t, <1>c, <2>1, <2>3, <2>4, <2>5, HandlerTypes
<1>12. ASSUME NEW g \in Gens, PollRound(g) \/ PollApply(g) \/ PollGivesUp(g) PROVE TypeOK'
  <2>1. /\ UNCHANGED <<host, shell, child, respawn, races, stopper, events, app, asks, ended>>
        /\ poll' \in [Gens -> {"none", "fast", "slow", "got"}]
        /\ status' \in {"Starting", "Running", "Failed"}
    BY <1>t, <1>12 DEF PollRound, PollApply, PollGivesUp, TypeOK
  <2> QED
    BY <1>t, <2>1 DEF TypeOK
<1>13. ASSUME Restart \/ Retry PROVE TypeOK'
  <2>1. Respawn /\ MayAsk
    BY <1>13 DEF Restart, Retry
  <2>2. UNCHANGED <<host, endpoint, child, slot, handoff, stopper, events, poll, status, app, ended>>
    BY <1>13 DEF Restart, Retry
  <2>3. asks' \in 0 .. MaxAsks /\ marks' \in Marks /\ respawn' \in Respawns
        /\ races' \in 0 .. MaxRaces
    BY <1>t, <2>1, MayAskTypes, RespawnTypes DEF Respawns
  <2> QED
    BY <1>t, <1>c, <2>2, <2>3, AppTypes
<1>i. \A at \in {"idle", "asking", "waiting", "released"}, purpose \in {"none", "quit", "update"} :
        [at |-> at, purpose |-> purpose, graceful |-> FALSE] \in Stops
  BY DEF Stops
<1>14. ASSUME InstallFails PROVE TypeOK'
  <2>1. Respawn
    BY <1>14 DEF InstallFails
  <2>2. /\ UNCHANGED <<host, endpoint, child, slot, handoff, events, poll, status, app, asks, ended>>
        /\ stopper' = [at |-> "idle", purpose |-> "none", graceful |-> FALSE]
    BY <1>14 DEF InstallFails
  <2>3. marks' \in Marks /\ respawn' \in Respawns /\ races' \in 0 .. MaxRaces
    BY <1>t, <2>1, RespawnTypes DEF Respawns
  <2>4. stopper' \in Stops
    BY <1>i, <2>2
  <2> QED
    BY <1>t, <1>c, <2>2, <2>3, <2>4, AppTypes
<1>15. ASSUME RespawnKills PROVE TypeOK'
  <2>1. child' \in [Gens -> Child] /\ slot' \in 0 .. MaxGen
    BY <1>t, <1>c, <1>15, KillEffect DEF RespawnKills, SlotKilled, Asks
  <2>2. respawn' \in Respawns
    BY <1>c, <1>15 DEF RespawnKills, Respawns
  <2> QED
    BY <1>t, <1>c, <1>15, <2>1, <2>2, HandlerTypes DEF RespawnKills
<1>16. ASSUME RespawnWaits PROVE TypeOK'
  <2>1. respawn' \in Respawns /\ events' \in Seq(Event)
    BY <1>c, <1>16, EventTypes DEF RespawnWaits, NoRespawn, Respawns
  <2> QED
    BY <1>t, <1>c, <1>16, <2>1, HandlerTypes DEF RespawnWaits
<1>17. ASSUME RespawnSpawns PROVE TypeOK'
  <2>1. respawn' \in Respawns /\ events' \in Seq(Event)
    BY <1>c, <1>17, EventTypes DEF RespawnSpawns, NoRespawn, Respawns
  <2>2. child' \in [Gens -> Child] /\ endpoint' \in Endpoints /\ marks' \in Marks
    BY <1>t, <1>17, RespawnSpawnsEffect DEF Begins
  <2> QED
    BY <1>t, <1>c, <1>17, <2>1, <2>2, HandlerTypes DEF RespawnSpawns
<1>k. ASSUME \/ child' = Killed(child, "stop") /\ slot' = 0
             \/ UNCHANGED <<child, slot>>
      PROVE  child' \in [Gens -> Child] /\ slot' \in 0 .. MaxGen
  BY <1>t, <1>c, <1>k, KillEffect DEF SlotKilled, Asks
<1>18. ASSUME Quit PROVE TypeOK'
  <2>1. child' \in [Gens -> Child] /\ slot' \in 0 .. MaxGen
    BY <1>k, <1>18 DEF Quit
  <2>2. asks' \in 0 .. MaxAsks
    BY <1>t, <1>18, MayAskTypes DEF Quit
  <2>3. /\ UNCHANGED <<host, endpoint, marks, respawn, events, poll, status, races>>
        /\ handoff' \in {handoff, "armed"} /\ app' \in {"exiting", "gone"}
        /\ ended' \in {ended, "quit"}
        /\ \/ stopper' = stopper
           \/ stopper' = [at |-> "asking", purpose |-> "quit", graceful |-> FALSE]
    BY <1>18 DEF Quit
  <2>4. stopper' \in Stops
    BY <1>c, <1>i, <2>3
  <2> QED
    BY <1>t, <1>c, <2>1, <2>2, <2>3, <2>4, AppTypes
<1>19. ASSUME Update PROVE TypeOK'
  <2>1. asks' \in 0 .. MaxAsks
    BY <1>t, <1>19, MayAskTypes DEF Update
  <2>2. /\ UNCHANGED <<host, endpoint, child, slot, marks, respawn, events, poll, status, app,
                       ended, races>>
        /\ handoff' = "armed"
        /\ stopper' = [at |-> "asking", purpose |-> "update", graceful |-> FALSE]
    BY <1>19 DEF Update
  <2>3. stopper' \in Stops
    BY <1>i, <2>2
  <2> QED
    BY <1>t, <1>c, <2>1, <2>2, <2>3, AppTypes
<1>20. ASSUME AskShutdown PROVE TypeOK'
  <2>1. UNCHANGED <<host, respawn, races, events, poll, status, app, asks, ended>>
    BY <1>20 DEF AskShutdown
  <2>2. CASE StopHard(stopper.purpose)
    <3>1. child' \in [Gens -> Child] /\ slot' \in 0 .. MaxGen
      BY <1>k, <2>2 DEF StopHard
    <3>2. /\ UNCHANGED <<endpoint, marks>> /\ handoff' \in {"armed", "none"}
          /\ stopper' \in {[at |-> "waiting", purpose |-> stopper.purpose, graceful |-> FALSE],
                           [at |-> "released", purpose |-> stopper.purpose, graceful |-> FALSE]}
      BY <2>2 DEF StopHard
    <3>3. stopper.purpose \in {"quit", "update"}
      BY <1>20, AskShutdownEffect
    <3>4. stopper' \in Stops
      BY <1>i, <3>2, <3>3
    <3> QED
      BY <1>t, <1>c, <2>1, <3>1, <3>2, <3>4, AppTypes
  <2>3. CASE Others(endpoint.current, child, child') /\ UNCHANGED shell /\ stopper' \in Stops
    BY <1>t, <1>c, <2>1, <2>3, AppTypes DEF Others
  <2> QED
    BY <1>20, <2>2, <2>3, AskShutdownEffect
<1>21. ASSUME StopEnds PROVE TypeOK'
  <2>1. child' \in [Gens -> Child] /\ slot' \in 0 .. MaxGen
    BY <1>k, <1>21 DEF StopEnds
  <2>2. /\ UNCHANGED <<host, endpoint, marks, respawn, events, poll, status, app, asks, ended, races>>
        /\ handoff' = "none" /\ stopper' = [stopper EXCEPT !.at = "released"]
    BY <1>21 DEF StopEnds
  <2>3. stopper' \in Stops
    BY <1>c, <2>2 DEF Stops
  <2> QED
    BY <1>t, <1>c, <2>1, <2>2, <2>3, AppTypes
<1>22. ASSUME Finish PROVE TypeOK'
  <2>1. child' \in [Gens -> Child] /\ slot' \in 0 .. MaxGen
    BY <1>k, <1>22 DEF Finish
  <2>2. /\ UNCHANGED <<host, endpoint, marks, handoff, respawn, stopper, events, poll, status,
                       asks, races>>
        /\ app' = "gone" /\ ended' = stopper.purpose /\ stopper.at # "idle"
    BY <1>22 DEF Finish
  <2>3. stopper.purpose \in {"quit", "update"}
    BY <1>t, <1>c, <2>2 DEF EndInv, Stops
  <2> QED
    BY <1>t, <1>c, <2>1, <2>2, <2>3, AppTypes
<1>23. ASSUME ApplyEvent PROVE TypeOK'
  <2>1. child' \in [Gens -> Child] /\ slot' \in 0 .. MaxGen
    BY <1>k, <1>23 DEF ApplyEvent
  <2>2. events' \in Seq(Event)
    BY <1>c, <1>23 DEF ApplyEvent
  <2>3. Head(events) \in Event
    BY <1>c, <1>23 DEF ApplyEvent
  <2>4. /\ status' \in {"Starting", "Running", "Failed"} /\ app' \in {"up", "exiting", "gone"}
        /\ poll' \in [Gens -> {"none", "fast", "slow", "got"}]
    BY <1>t, <1>23, <2>3 DEF ApplyEvent, TypeOK, Event
  <2> QED
    BY <1>t, <1>23, <2>1, <2>2, <2>4 DEF ApplyEvent, TypeOK, Event
<1> QED
  BY <1>1, <1>2, <1>3, <1>4, <1>5, <1>6, <1>7, <1>8, <1>9, <1>10, <1>11, <1>12, <1>13, <1>14,
     <1>15, <1>16, <1>17, <1>18, <1>19, <1>20, <1>21, <1>22, <1>23 DEF Next

----------------------------------------------------------------------------
(* --- the children and the endpoint, one kind of step at a time --------- *)

LEMMA Facts ==
  ASSUME SidecarInv
  PROVE  /\ TypeOK /\ ChildInv /\ ExposedInv /\ EndInv /\ (~raced => AloneInv /\ BlameInv)
         /\ endpoint \in Endpoints /\ child \in [Gens -> Child] /\ slot \in 0 .. MaxGen
         /\ endpoint.gen \in Nat /\ (endpoint.current # 0 => endpoint.current \in Gens)
         /\ \A g \in Gens : child[g] \in Child /\ Coherent(child[g]) /\ g \in Nat
         /\ \A g \in Gens : Open(g) => child[g].proc # "none"
  BY Typed, Numbers DEF SidecarInv, Endpoints, ChildInv, Coherent, Open, Begun, Gens

\* A step of one process, or of a task for it.
LEMMA OneChildInv ==
  ASSUME SidecarInv, NEW g \in Gens, Others(g, child, child'), Coherent(child'[g]),
         child[g].proc # "none", endpoint'.gen \in {endpoint.gen, endpoint.gen + 1},
         slot' \in {slot, 0, g},
         \/ child'[g].task = "none"
         \/ child'[g].why \notin {"restart", "failure"}
         \/ Tasked(g) /\ child'[g].why = child[g].why
         \/ slot' = 0,
         slot' = g => slot = g \/ child'[g].why = "self"
  PROVE  ChildInv'
<1>1. \A h \in Gens : Coherent(child'[h])
  BY Facts DEF Others
<1>2. \A h \in Gens : child'[h].proc # "none" => h <= endpoint'.gen
  BY Facts DEF Others, ChildInv
<1>3. \A h \in Gens : (child'[h].task # "none" /\ child'[h].why \in {"restart", "failure"})
                        => slot' # h
  BY Facts, Numbers DEF Others, ChildInv, Tasked
<1> QED
  BY <1>1, <1>2, <1>3 DEF ChildInv, Tasked

LEMMA KillChildInv ==
  ASSUME SidecarInv, NEW why \in Asks, SlotKilled(why), UNCHANGED endpoint
  PROVE  ChildInv'
<1>1. \A h \in Gens : Coherent(child'[h])
  BY Facts, AskedIsCoherent DEF SlotKilled
<1>2. \A h \in Gens : child'[h].proc # "none" => child[h].proc # "none"
  BY DEF SlotKilled, Asked
<1>3. \A h \in Gens : slot' # h
  BY Numbers DEF SlotKilled
<1> QED
  BY <1>1, <1>2, <1>3, Facts DEF ChildInv

\* What follows the exit of a child, or the start of the next generation.
Settles(cs) ==
  \A h \in Gens : \/ cs[h] = child[h]
                  \/ Coherent(cs[h]) /\ cs[h].task = "none" /\ child[h].proc = "dead"
                     /\ cs[h].proc = "dead"

LEMMA BeginsChildInv ==
  ASSUME SidecarInv, NEW ep, ep.gen = endpoint.gen, NEW cs, Settles(cs), Begins(ep, cs),
         UNCHANGED slot
  PROVE  ChildInv'
<1> DEFINE g == ep.gen + 1
<1>1. /\ g \in Gens /\ endpoint'.gen = g /\ Coherent(child'[g])
      /\ child'[g].task = "none" /\ \A h \in Gens : h # g => child'[h] = cs[h]
  BY DEF Begins
<1> HIDE DEF g
<1>2. \A h \in Gens : Coherent(child'[h])
  BY <1>1, Facts DEF Settles
<1>3. \A h \in Gens : h # g => (child'[h].proc # "none" => h <= endpoint.gen)
  BY <1>1, Facts DEF Settles, ChildInv
<1>4. \A h \in Gens : child'[h].proc # "none" => h <= endpoint'.gen
  BY <1>1, <1>3, Facts DEF g
<1>5. \A h \in Gens : (child'[h].task # "none" /\ child'[h].why \in {"restart", "failure"})
                        => slot # h
  BY <1>1, Facts DEF Settles, ChildInv, Tasked
<1> QED
  BY <1>2, <1>4, <1>5 DEF ChildInv, Tasked

LEMMA OneShown ==
  ASSUME SidecarInv, NEW g \in Gens, Others(g, child, child'), UNCHANGED profile,
         endpoint'.gen = endpoint.gen, endpoint'.selected = endpoint.selected,
         \/ endpoint'.current = endpoint.current
         \/ endpoint'.current = 0 /\ endpoint.gen = g /\ ~Open(g)',
         Open(g)' => Open(g) /\ child'[g].requested = child[g].requested,
         \/ endpoint'.current # g
         \/ /\ child'[g].task \notin {"none", "gone"} /\ child'[g].proc # "booting"
            /\ child'[g].port = child[g].port
  PROVE  ExposedInv'
<1>1. Requested(endpoint)' = Requested(endpoint)
  BY DEF Requested
<1>2. \A h \in Gens : Open(h)' => Open(h) /\ child'[h].requested = child[h].requested
  BY DEF Others, Open, Begun
<1>3. ASSUME NEW h \in Gens, Open(h)', Pending(endpoint', h)
      PROVE  child'[h].requested = Requested(endpoint)
  <2>1. Open(h) /\ child'[h].requested = child[h].requested /\ h = endpoint.gen
    BY <1>2, <1>3 DEF Pending
  <2>2. Pending(endpoint, h)
    BY <1>3, <2>1 DEF Pending
  <2> QED
    BY <2>1, <2>2, Facts DEF ExposedInv
<1>4. ASSUME endpoint'.current # 0
      PROVE  endpoint'.current = endpoint'.gen /\ Shown(endpoint.current)'
  <2>1. endpoint'.current = endpoint.current /\ endpoint.current \in Gens
    BY <1>4, Facts
  <2>2. endpoint.current = endpoint.gen /\ Shown(endpoint.current)
    BY <1>4, <2>1, Facts DEF ExposedInv
  <2> QED
    BY <2>1, <2>2 DEF Shown, Others
<1> QED
  BY <1>1, <1>3, <1>4 DEF ExposedInv, Pending

\* The startup of g is given up: no generation is pending any more.
LEMMA NoneShown ==
  ASSUME SidecarInv, NEW g \in Gens, Others(g, child, child'), child[g].proc # "none",
         endpoint'.gen = endpoint.gen + 1, endpoint'.current = 0
  PROVE  ExposedInv'
<1>1. \A h \in Gens : h = endpoint.gen + 1 => child'[h] = child[h] /\ child[h].proc = "none"
  BY Facts DEF ChildInv, Others
<1>2. \A h \in Gens : h = endpoint.gen + 1 => ~Open(h)'
  BY <1>1, Facts DEF Open, Begun
<1> QED
  BY <1>2 DEF ExposedInv, Pending

LEMMA KillShown ==
  ASSUME SidecarInv, NEW why \in Asks, SlotKilled(why), UNCHANGED <<endpoint, profile>>
  PROVE  ExposedInv'
<1>1. Requested(endpoint)' = Requested(endpoint)
  BY DEF Requested
<1>2. \A h \in Gens : /\ Open(h)' => Open(h)
                      /\ child'[h].requested = child[h].requested
                      /\ Shown(h) => Shown(h)'
  BY DEF SlotKilled, Asked, SamePort, SameTask, Open, Begun, Shown
<1>3. ExposedInv
  BY Facts
<1> QED
  BY <1>1, <1>2, <1>3, Facts DEF ExposedInv

LEMMA BeginsShown ==
  ASSUME SidecarInv, NEW ep, NEW cs, Begins(ep, cs), UNCHANGED profile
  PROVE  ExposedInv'
<1>1. Requested(endpoint)' = Requested(ep)
  BY DEF Begins, Requested
<1> QED
  BY <1>1 DEF Begins, ExposedInv, Pending

LEMMA StillInv ==
  ASSUME SidecarInv, UNCHANGED <<profile, endpoint, child, slot>>
  PROVE  ChildInv' /\ ExposedInv'
  BY Facts DEF ChildInv, ExposedInv, Tasked, Open, Begun, Shown, Pending, Requested

LEMMA InitChildren == Init => ChildInv /\ ExposedInv /\ EndInv /\ AloneInv /\ BlameInv
<1> SUFFICES ASSUME Init PROVE ChildInv /\ ExposedInv /\ EndInv /\ AloneInv /\ BlameInv
  OBVIOUS
<1> DEFINE d == [NoChild EXCEPT !.proc = "booting", !.requested = Requested(endpoint),
                                !.task = "reading"]
<1>1. /\ Coherent(d) /\ d.proc = "booting" /\ d.task = "reading" /\ d.timer = "idle"
      /\ d.requested = Requested(endpoint) /\ d.why = "self"
  BY DEF NoChild, Coherent
<1>2. child = [g \in Gens |-> IF g = 1 THEN d ELSE NoChild]
  BY DEF Init
<1> HIDE DEF d
<1>3. \A g \in Gens : IF g = 1 THEN child[g] = d ELSE child[g] = NoChild
  BY <1>2
<1>4. /\ endpoint.gen = 1 /\ endpoint.current = 0 /\ slot = 1 /\ respawn.at = "idle"
      /\ stopper.at = "idle" /\ ended = "no"
  BY DEF Init, NoRespawn
<1>5. ChildInv
  BY <1>1, <1>3, <1>4, NoChildIsChild DEF ChildInv, Tasked
<1>6. ExposedInv
  BY <1>1, <1>3, <1>4, NoChildIsChild DEF ExposedInv, Open, Begun, Pending
<1>7. AloneInv
  BY <1>1, <1>3, <1>4, NoChildIsChild DEF AloneInv, Handled, Begun
<1>8. BlameInv
  BY <1>1, <1>3, <1>4, NoChildIsChild DEF BlameInv, Tasked, Begun, Failing, Killing
<1> QED
  BY <1>4, <1>5, <1>6, <1>7, <1>8 DEF EndInv, RestartKeepsApp

LEMMA NextChildren ==
  ASSUME SidecarInv, Next
  PROVE  ChildInv' /\ ExposedInv'
<1> USE DEF host, shell
<1>f. /\ TypeOK /\ ChildInv /\ ExposedInv
      /\ endpoint.gen \in Nat /\ (endpoint.current # 0 => endpoint.current \in Gens)
      /\ \A g \in Gens : child[g] \in Child /\ Coherent(child[g]) /\ g \in Nat /\ g # 0
  BY Facts, Numbers
<1>1. ASSUME NEW g \in Gens, Listen(g) PROVE ChildInv' /\ ExposedInv'
  <2>1. UNCHANGED <<profile, endpoint, slot>>
    BY <1>1 DEF Listen
  <2>2. Coherent(child'[g])
    BY <1>f, <1>1, ListenEffect DEF Coherent
  <2>3. endpoint.current # g
    BY <1>f, <1>1, ListenEffect DEF ExposedInv, Shown
  <2>4. /\ Others(g, child, child') /\ child[g].proc = "booting" /\ child'[g].why = child[g].why
        /\ child'[g].requested = child[g].requested
        /\ child'[g].proc = "listening" /\ child[g].task = "reading"
    BY <1>f, <1>1, ListenEffect DEF Coherent
  <2>5. ChildInv'
    BY <1>f, <2>1, <2>2, <2>4, OneChildInv DEF Tasked
  <2>6. ExposedInv'
    BY <1>f, <2>1, <2>3, <2>4, OneShown DEF Open
  <2> QED
    BY <2>5, <2>6
<1>2. ASSUME NEW g \in Gens, Die(g) PROVE ChildInv' /\ ExposedInv'
  <2>1. UNCHANGED <<profile, endpoint, slot>>
    BY <1>2 DEF Die
  <2>2. /\ Others(g, child, child') /\ Alive(g) /\ child'[g].proc = "dead"
        /\ SamePort(child[g], child'[g]) /\ SameTask(child[g], child'[g])
        /\ \/ child[g].proc = "leaving" /\ child'[g].why = child[g].why
           \/ child'[g].why = "outside"
           \/ child'[g].why = "self" /\ child'[g].code = 1
    BY <1>f, <1>2, DieEffect
  <2>3. Coherent(child'[g])
    BY <1>f, <2>2 DEF Coherent, Asks, Alive, SamePort, SameTask
  <2>4. ChildInv'
    BY <1>f, <2>1, <2>2, <2>3, OneChildInv DEF Alive, Coherent, Tasked, SameTask
  <2>5. child'[g].task \notin {"none", "gone"}
    BY <1>f, <2>2 DEF Alive, Coherent, SameTask
  <2>6. ExposedInv'
    BY <1>f, <2>1, <2>2, <2>5, OneShown DEF SamePort, SameTask, Open, Begun, Alive
  <2> QED
    BY <2>4, <2>6
<1>s. ASSUME NEW g \in Gens, Steady(g), UNCHANGED <<profile, slot>>, Coherent(child'[g]),
             child[g].proc # "none", Tasked(g)' => Tasked(g),
             endpoint'.gen \in {endpoint.gen, endpoint.gen + 1}
      PROVE  ChildInv'
  BY <1>s, OneChildInv DEF Steady, SameRun, Tasked
<1>u. ASSUME NEW g \in Gens, Steady(g), UNCHANGED <<profile, endpoint, slot>>,
             Coherent(child'[g]), child[g].proc \notin {"none", "begun"},
             \/ child'[g].task = child[g].task
             \/ child[g].task \notin {"none", "gone"} /\ child'[g].task \notin {"none", "gone"}
      PROVE  ChildInv' /\ ExposedInv'
  <2>1. ChildInv'
    BY <1>f, <1>s, <1>u DEF Tasked
  <2>2. Open(g)' => Open(g) /\ child'[g].requested = child[g].requested
    BY <1>u DEF Open, Begun, Steady, SameRun, SamePort
  <2>3. \/ endpoint.current # g
        \/ /\ child'[g].task \notin {"none", "gone"} /\ child'[g].proc # "booting"
           /\ child'[g].port = child[g].port
    BY <1>f, <1>u DEF Steady, SameRun, SamePort, ExposedInv, Shown
  <2> QED
    BY <1>u, <2>1, <2>2, <2>3, OneShown DEF Steady
<1>3. ASSUME NEW g \in Gens, ReadLine(g) PROVE ChildInv' /\ ExposedInv'
  <2>1. UNCHANGED <<profile, endpoint, slot>>
    BY <1>3 DEF ReadLine
  <2>2. /\ Steady(g) /\ child'[g].timer = child[g].timer
        /\ child[g].task = "reading" /\ child[g].line
        /\ ~child'[g].line /\ child'[g].task \in {"checked", "reading"}
    BY <1>f, <1>3, ReadLineEffect
  <2>3. Coherent(child'[g]) /\ child[g].proc \notin {"none", "begun"}
    BY <1>f, <2>2 DEF Coherent, Steady, SameRun, SamePort
  <2> QED
    BY <1>u, <2>1, <2>2, <2>3
\* A startup is given up, by the event task or by the timer.
<1>e. ASSUME NEW g \in Gens, Steady(g), UNCHANGED <<profile, slot>>, Coherent(child'[g]),
             \/ child'[g].task = child[g].task
             \/ child[g].task = "checked" /\ child'[g].task = "mark",
             child[g].proc \notin {"none", "begun"}, endpoint' = Expired(endpoint, g)
      PROVE  ChildInv' /\ ExposedInv'
  <2>1. /\ endpoint'.current = endpoint.current /\ endpoint'.selected = endpoint.selected
        /\ \/ Pending(endpoint, g) /\ endpoint'.gen = endpoint.gen + 1
           \/ ~Pending(endpoint, g) /\ endpoint' = endpoint
    BY <1>f, <1>e, ExpiredEndpoint
  <2>2. ChildInv'
    BY <1>f, <1>e, <1>s, <2>1 DEF Tasked
  <2>3. CASE Pending(endpoint, g)
    <3>1. endpoint'.current = 0 /\ endpoint'.gen = endpoint.gen + 1
      BY <2>1, <2>3 DEF Pending
    <3> QED
      BY <1>e, <2>2, <3>1, NoneShown DEF Steady
  <2>4. CASE ~Pending(endpoint, g)
    <3>1. Open(g)' => Open(g) /\ child'[g].requested = child[g].requested
      BY <1>e DEF Open, Begun, Steady, SameRun, SamePort
    <3>2. \/ endpoint'.current # g
          \/ /\ child'[g].task \notin {"none", "gone"} /\ child'[g].proc # "booting"
             /\ child'[g].port = child[g].port
      BY <1>f, <1>e, <2>1 DEF Steady, SameRun, SamePort, ExposedInv, Shown
    <3> QED
      BY <1>e, <2>1, <2>2, <2>4, <3>1, <3>2, OneShown DEF Steady
  <2> QED
    BY <2>3, <2>4
<1>4. ASSUME NEW g \in Gens, CannotExpose(g) PROVE ChildInv' /\ ExposedInv'
  <2>1. UNCHANGED <<profile, slot>> /\ endpoint' = Expired(endpoint, g)
    BY <1>4 DEF CannotExpose
  <2>2. /\ Steady(g) /\ child'[g].timer = child[g].timer /\ child'[g].line = child[g].line
        /\ child[g].task = "checked" /\ child'[g].task = "mark"
    BY <1>f, <1>4, CannotExposeEffect
  <2>3. Coherent(child'[g]) /\ child[g].proc \notin {"none", "begun"}
    BY <1>f, <2>2 DEF Coherent, Steady, SameRun, SamePort
  <2> QED
    BY <1>e, <2>1, <2>2, <2>3
<1>6. ASSUME NEW g \in Gens, StartupTimeout(g) PROVE ChildInv' /\ ExposedInv'
  <2>1. /\ UNCHANGED <<profile, slot>> /\ endpoint' = Expired(endpoint, g)
        /\ child[g].proc \notin {"none", "begun"}
    BY <1>6 DEF StartupTimeout
  <2>2. /\ Steady(g) /\ child'[g].line = child[g].line
        /\ child'[g].task = child[g].task /\ child'[g].timer = "mark"
    BY <1>f, <1>6, StartupTimeoutEffect
  <2>3. Coherent(child'[g])
    BY <1>f, <2>1, <2>2 DEF Coherent, Steady, SameRun, SamePort
  <2> QED
    BY <1>e, <2>1, <2>2, <2>3
<1>5. ASSUME NEW g \in Gens, Expose(g) PROVE ChildInv' /\ ExposedInv'
  <2>1. UNCHANGED <<profile, slot>>
    BY <1>5 DEF Expose
  <2>2. /\ Steady(g) /\ child'[g].timer = child[g].timer /\ child'[g].line = child[g].line
        /\ child[g].task = "checked" /\ child'[g].task = "reading"
        /\ endpoint'.gen = endpoint.gen
        /\ \/ /\ Pending(endpoint, g) /\ endpoint'.current = g
              /\ endpoint'.selected = child[g].port
           \/ /\ ~Pending(endpoint, g) /\ endpoint'.current = endpoint.current
              /\ endpoint'.selected = endpoint.selected
    BY <1>f, <1>5, ExposeEffect
  <2>3. Coherent(child'[g]) /\ child[g].proc \notin {"none", "begun", "booting"}
    BY <1>f, <2>2 DEF Coherent, Steady, SameRun, SamePort
  <2>4. ChildInv'
    BY <1>f, <1>s, <2>1, <2>2, <2>3 DEF Tasked
  <2>5. CASE Pending(endpoint, g) /\ endpoint'.current = g /\ endpoint'.selected = child[g].port
    <3>1. \A h \in Gens : ~Pending(endpoint', h)
      BY <1>f, <2>5 DEF Pending
    <3>2. Shown(g)'
      BY <2>2, <2>3, <2>5 DEF Shown, Steady, SameRun, SamePort
    <3> QED
      BY <2>2, <2>4, <2>5, <3>1, <3>2 DEF ExposedInv, Pending, Shown
  <2>6. CASE endpoint'.current = endpoint.current /\ endpoint'.selected = endpoint.selected
    BY <2>1, <2>2, <2>3, <2>4, <2>6, OneShown DEF Steady, SameRun, SamePort, Open, Begun
  <2> QED
    BY <2>2, <2>5, <2>6
<1>7. ASSUME NEW g \in Gens, MarkFailure(g) PROVE ChildInv' /\ ExposedInv'
  <2>1. UNCHANGED <<profile, endpoint, slot>>
    BY <1>7 DEF MarkFailure
  <2>2. /\ Steady(g) /\ child'[g].line = child[g].line
        /\ \/ /\ child[g].task = "mark" /\ child'[g].task = "kill"
              /\ child'[g].timer = child[g].timer
           \/ /\ child[g].timer = "mark" /\ child'[g].timer = "kill"
              /\ child'[g].task = child[g].task
    BY <1>f, <1>7, MarkFailureEffect
  <2>3. Coherent(child'[g]) /\ child[g].proc \notin {"none", "begun"}
    BY <1>f, <2>2 DEF Coherent, Steady, SameRun, SamePort
  <2>4. \/ child'[g].task = child[g].task
        \/ child[g].task \notin {"none", "gone"} /\ child'[g].task \notin {"none", "gone"}
    BY <2>2
  <2> QED
    BY <1>u, <2>1, <2>2, <2>3, <2>4
\* What the slot holds is killed.
<1>k. ASSUME NEW why \in Asks, UNCHANGED <<profile, endpoint>>,
             \/ child' = Killed(child, why) /\ slot' = 0
             \/ UNCHANGED <<child, slot>>
      PROVE  ChildInv' /\ ExposedInv'
  <2>1. CASE child' = Killed(child, why) /\ slot' = 0
    <3>1. SlotKilled(why)
      BY <1>f, <2>1, KillEffect
    <3> QED
      BY <1>k, <3>1, KillChildInv, KillShown
  <2>2. CASE UNCHANGED <<child, slot>>
    BY <1>k, <2>2, StillInv
  <2> QED
    BY <1>k, <2>1, <2>2
<1>8. ASSUME NEW g \in Gens, StopFailed(g) PROVE ChildInv' /\ ExposedInv'
  <2>1. UNCHANGED <<profile, endpoint>>
    BY <1>8 DEF StopFailed
  <2>2. /\ child' \in [Gens -> Child] /\ slot' = 0
        /\ \A h \in Gens : h # g => Asked(child[h], child'[h], "failure")
        /\ SamePort(child[g], child'[g]) /\ child'[g].line = child[g].line
        /\ child'[g].code = child[g].code
        /\ \/ child'[g].proc = child[g].proc /\ child'[g].why = child[g].why
           \/ /\ child[g].proc \in {"booting", "listening"}
              /\ child'[g].proc = "leaving" /\ child'[g].why = "failure"
        /\ \/ /\ child[g].task = "kill" /\ child'[g].task = "reading"
              /\ child'[g].timer = child[g].timer
           \/ /\ child[g].timer = "kill" /\ child'[g].timer = "idle"
              /\ child'[g].task = child[g].task
    BY <1>f, <1>8, StopFailedEffect
  <2>3. Coherent(child'[g])
    BY <1>f, <2>2 DEF Coherent, SamePort, Asks
  <2>4. \A h \in Gens : Coherent(child'[h])
    BY <1>f, <2>2, <2>3, AskedIsCoherent DEF Asks
  <2>5. \A h \in Gens : child'[h].proc # "none" => child[h].proc # "none"
    BY <2>2 DEF Asked
  <2>6. ChildInv'
    BY <1>f, <2>1, <2>2, <2>4, <2>5 DEF ChildInv
  <2>7. \A h \in Gens : /\ Open(h)' => Open(h)
                        /\ child'[h].requested = child[h].requested
                        /\ Shown(h) => Shown(h)'
    <3>1. \A h \in Gens : h # g => /\ Open(h)' => Open(h)
                                   /\ child'[h].requested = child[h].requested
                                   /\ Shown(h) => Shown(h)'
      BY <2>1, <2>2 DEF Asked, SamePort, SameTask, Open, Begun, Shown
    <3>2. /\ Open(g)' => Open(g)
          /\ child'[g].requested = child[g].requested
          /\ Shown(g) => Shown(g)'
      BY <1>f, <2>1, <2>2 DEF SamePort, Open, Begun, Shown, Coherent
    <3> QED
      BY <3>1, <3>2
  <2>8. Requested(endpoint)' = Requested(endpoint)
    BY <2>1 DEF Requested
  <2>9. ExposedInv'
    BY <1>f, <2>1, <2>7, <2>8 DEF ExposedInv
  <2> QED
    BY <2>6, <2>9
<1>9. ASSUME NEW g \in Gens, SpawnChild(g) PROVE ChildInv' /\ ExposedInv'
  <2>1. UNCHANGED <<profile, endpoint>>
    BY <1>9 DEF SpawnChild
  <2>2. /\ Others(g, child, child') /\ child[g].proc = "begun" /\ Coherent(child'[g])
        /\ \/ /\ slot' = g /\ child'[g].proc = "booting" /\ child'[g].task = "reading"
              /\ SamePort(child[g], child'[g]) /\ child'[g].why = child[g].why
           \/ slot' = slot /\ child'[g].proc = "none" /\ child'[g].task = "none"
    BY <1>f, <1>9, SpawnChildEffect
  <2>3. child[g].task = "none" /\ child[g].why = "self"
    BY <1>f, <2>2 DEF Coherent
  <2>4. ChildInv'
    BY <1>f, <2>1, <2>2, <2>3, OneChildInv
  <2>5. endpoint.current # g
    BY <1>f, <2>3 DEF ExposedInv, Shown
  <2>6. ExposedInv'
    BY <2>1, <2>2, <2>5, OneShown DEF Open, Begun, SamePort
  <2> QED
    BY <2>4, <2>6
<1>10. ASSUME NEW g \in Gens, ExitSeen(g) PROVE ChildInv' /\ ExposedInv'
  <2>1. UNCHANGED profile
    BY <1>10 DEF ExitSeen
  <2>2. /\ Steady(g) /\ child'[g].timer = child[g].timer /\ child'[g].line = child[g].line
        /\ child[g].proc = "dead" /\ child[g].task = "reading" /\ ~child[g].line
        /\ child'[g].task = "gone"
        /\ endpoint'.gen = endpoint.gen /\ endpoint'.selected = endpoint.selected
        /\ endpoint'.current = IF endpoint.gen = g THEN 0 ELSE endpoint.current
        /\ slot' = IF slot = g THEN 0 ELSE slot
    BY <1>f, <1>10, ExitSeenEffect
  <2>3. Coherent(child'[g])
    BY <1>f, <2>2 DEF Coherent, Steady, SameRun, SamePort
  <2>4. ChildInv'
    BY <1>f, <2>2, <2>3, OneChildInv DEF Steady, SameRun, Tasked
  <2>5. ~Open(g)' /\ endpoint'.current # g
    BY <1>f, <2>2 DEF Open, Begun, Steady, SameRun, ExposedInv
  <2>6. ExposedInv'
    BY <1>f, <2>1, <2>2, <2>5, OneShown DEF Steady
  <2> QED
    BY <2>4, <2>6
<1>11. ASSUME NEW g \in Gens, ExitJudged(g) PROVE ChildInv' /\ ExposedInv'
  <2>1. UNCHANGED <<profile, slot>>
    BY <1>11 DEF ExitJudged
  <2>2. child[g].task = "gone" /\ (Ends(g) \/ Replaces(g) \/ Retries(g))
    BY <1>f, <1>11, ExitJudgedEffect
  <2>3. /\ Over(g) \in [Gens -> Child] /\ Coherent(Over(g)[g])
        /\ Over(g)[g].task = "none" /\ Over(g)[g].proc = "dead"
        /\ \A h \in Gens : h # g => Over(g)[h] = child[h]
    BY <1>f, <2>2, OverChild
  <2>4. child[g].proc = "dead" /\ endpoint.current # g
    BY <1>f, <2>2 DEF Coherent, ExposedInv, Shown
  <2>5. CASE Ends(g)
    <3>1. child' = Over(g) /\ UNCHANGED endpoint
      BY <2>5 DEF Ends
    <3>2. ChildInv'
      BY <1>f, <2>1, <2>3, <2>4, <3>1, OneChildInv DEF Others
    <3>3. ExposedInv'
      BY <2>1, <2>3, <2>4, <3>1, OneShown DEF Others, Open, Begun
    <3> QED
      BY <3>2, <3>3
  <2>6. Settles(Over(g))
    BY <2>3, <2>4 DEF Settles
  <2>7. CASE Replaces(g)
    <3>1. Begins(endpoint, Over(g))
      BY <2>7 DEF Replaces
    <3> QED
      BY <2>1, <2>6, <3>1, BeginsChildInv, BeginsShown
  <2>8. CASE Retries(g)
    <3>1. PICK ep : ep = [endpoint EXCEPT !.selected = 0]
      OBVIOUS
    <3>2. Begins(ep, Over(g)) /\ ep.gen = endpoint.gen
      BY <2>8, <3>1, Facts DEF Retries, Endpoints
    <3> QED
      BY <2>1, <2>6, <3>2, BeginsChildInv, BeginsShown
  <2> QED
    BY <2>2, <2>5, <2>7, <2>8
<1>12. ASSUME RespawnKills \/ Quit \/ StopEnds \/ Finish \/ ApplyEvent
       PROVE  ChildInv' /\ ExposedInv'
  <2>1. /\ UNCHANGED <<profile, endpoint>>
        /\ \/ child' = Killed(child, "restart") /\ slot' = 0
           \/ child' = Killed(child, "stop") /\ slot' = 0
           \/ UNCHANGED <<child, slot>>
    BY <1>12 DEF RespawnKills, Quit, StopEnds, Finish, ApplyEvent
  <2> QED
    BY <1>k, <2>1 DEF Asks
<1>13. ASSUME RespawnSpawns PROVE ChildInv' /\ ExposedInv'
  <2>1. Begins(endpoint, child) /\ UNCHANGED <<profile, slot>>
    BY <1>f, <1>13, RespawnSpawnsEffect DEF RespawnSpawns
  <2>2. Settles(child)
    BY DEF Settles
  <2> QED
    BY <2>1, <2>2, BeginsChildInv, BeginsShown
<1>14. ASSUME AskShutdown PROVE ChildInv' /\ ExposedInv'
  <2>1. UNCHANGED profile
    BY <1>14 DEF AskShutdown
  <2>2. CASE StopHard(stopper.purpose)
    <3>1. child' = Killed(child, "stop") /\ slot' = 0 /\ UNCHANGED endpoint
      BY <2>2 DEF StopHard
    <3> QED
      BY <1>k, <2>1, <3>1 DEF Asks
  <2>3. CASE ~StopHard(stopper.purpose)
    <3>1. PICK g \in Gens : g = endpoint.current
      BY <1>14, <2>3, AskShutdownEffect
    <3>2. /\ Others(g, child, child') /\ Asked(child[g], child'[g], "stop")
          /\ child[g].proc = "listening" /\ UNCHANGED <<endpoint, slot>>
          /\ child'[g].proc = "leaving" /\ child'[g].why = "stop"
      BY <1>14, <2>3, <3>1, AskShutdownEffect
    <3>3. Coherent(child'[g])
      BY <1>f, <3>2, AskedIsCoherent DEF Asks
    <3>4. ChildInv'
      BY <1>f, <3>2, <3>3, OneChildInv
    <3>5. child'[g].task \notin {"none", "gone"}
      BY <1>f, <3>2 DEF Asked, SameTask, Coherent
    <3>6. ExposedInv'
      BY <1>f, <2>1, <3>2, <3>5, OneShown DEF Asked, SamePort, SameTask, Open, Begun
    <3> QED
      BY <3>4, <3>6
  <2> QED
    BY <2>2, <2>3
<1>15. ASSUME \/ \E g \in Gens : PollRound(g) \/ PollApply(g) \/ PollGivesUp(g)
              \/ Restart \/ Retry \/ Update \/ InstallFails \/ RespawnWaits
       PROVE  ChildInv' /\ ExposedInv'
  <2>1. UNCHANGED <<profile, endpoint, child, slot>>
    BY <1>15 DEF PollRound, PollApply, PollGivesUp, Restart, Retry, Update, InstallFails,
                 RespawnWaits
  <2> QED
    BY <2>1, StillInv
<1> QED
  BY <1>1, <1>2, <1>3, <1>4, <1>5, <1>6, <1>7, <1>8, <1>9, <1>10, <1>11, <1>12, <1>13, <1>14,
     <1>15 DEF Next

----------------------------------------------------------------------------
(* --- one handler at a time --------------------------------------------- *)

LEMMA Quiet == ~Busy <=> respawn.at = "idle" /\ \A g \in Gens : ~Handled(g)
  BY DEF Busy, Handled, Begun

LEMMA RacesGrow ==
  ASSUME TypeOK, Next
  PROVE  ~raced' => ~raced
<1>1. \/ races' = races
      \/ \E b \in BOOLEAN : Enters(b)
  <2>1. Busy \in BOOLEAN /\ \A g \in Gens : (Busy \/ ~Pending(endpoint, g)) \in BOOLEAN
    BY DEF Busy, Pending
  <2> QED
    BY <2>1 DEF Next, Listen, Die, ReadLine, CannotExpose, Expose, StartupTimeout, MarkFailure,
       StopFailed, SpawnChild, ExitSeen, ExitJudged, PollRound, PollApply, PollGivesUp,
       Restart, Retry, Quit, Update, Respawn, RespawnKills, RespawnWaits, RespawnSpawns,
       AskShutdown, StopEnds, InstallFails, Finish, ApplyEvent
<1> QED
  BY <1>1, EntersEffect DEF raced

\* No handler begins, goes on to kill, or blames what ended.
Calm(c, d) ==
  /\ d.timer = c.timer
  /\ \/ d.task = c.task
     \/ d.task \in {"reading", "checked"} /\ c.task # "none"
     \/ d.task = "none"
  /\ d.proc = "begun" => c.proc = "begun"
  /\ d.proc \notin {"none", "begun"} => c.proc \notin {"none", "begun"}
  /\ d.why = c.why \/ d.why \notin {"restart", "failure"} \/ d.task = "none"

LEMMA CalmAlone ==
  ASSUME AloneInv, \A h \in Gens : Calm(child[h], child'[h]),
         respawn' = respawn \/ respawn'.at = "idle"
  PROVE  AloneInv'
<1>1. \A h \in Gens : Handled(h)' => Handled(h)
  BY DEF Handled, Begun, Calm
<1>2. \A h \in Gens : child'[h].timer # "idle" => child'[h].task \notin {"mark", "kill", "gone"}
  BY DEF AloneInv, Calm
<1> QED
  BY <1>1, <1>2 DEF AloneInv

LEMMA CalmBlame ==
  ASSUME BlameInv, \A h \in Gens : Calm(child[h], child'[h]),
         respawn' = respawn \/ respawn'.at = "idle",
         endpoint'.gen = endpoint.gen, slot' \in {slot, 0}, marks'.restart = marks.restart,
         \A h \in Gens : h \in marks.failure =>
           h \in marks'.failure \/ ~(Tasked(h)' \/ Killing(h)')
  PROVE  BlameInv'
<1>1. \A h \in Gens : /\ Tasked(h)' => Tasked(h)
                      /\ Failing(h)' => Failing(h)
                      /\ Killing(h)' => Killing(h)
                      /\ Begun(h)' => Begun(h)
                      /\ child'[h].proc \notin {"none", "begun"} =>
                           child[h].proc \notin {"none", "begun"}
                      /\ (Tasked(h)' /\ child'[h].why \in {"restart", "failure"}) =>
                           child'[h].why = child[h].why
  BY DEF Failing, Killing, Tasked, Begun, Calm
<1>2. \A g \in Gens : /\ (Tasked(g)' /\ child'[g].why = "restart") => g \in marks'.restart
                      /\ (Tasked(g)' /\ child'[g].why = "failure") => g \in marks'.failure
                      /\ Killing(g)' => g \in marks'.failure
  BY <1>1 DEF BlameInv
<1>3. \A g \in Gens : /\ Failing(g)' => slot' \in {0, g}
                      /\ Begun(g)' => g = endpoint'.gen
                      /\ (child'[g].proc \notin {"none", "begun"} /\ g = endpoint'.gen) =>
                           slot' \in {0, g}
  BY <1>1 DEF BlameInv
<1>4. /\ respawn'.at = "kill" =>
           slot' \in {0, respawn'.gen} /\ respawn'.gen \in marks'.restart \cup {0}
      /\ respawn'.at \in {"kill", "empty"} =>
           \A g \in Gens : (g = respawn'.gen /\ Tasked(g)') => child'[g].why # "restart"
  BY <1>1 DEF BlameInv
<1> QED
  BY <1>2, <1>3, <1>4 DEF BlameInv

\* The one handler is g's now.
LEMMA AloneNow ==
  ASSUME NEW g, \A h \in Gens : Handled(h)' => h = g /\ respawn'.at = "idle",
         \A h \in Gens : child'[h].timer # "idle" => child'[h].task \notin {"mark", "kill", "gone"}
  PROVE  AloneInv'
  BY DEF AloneInv

LEMMA OneCalm ==
  ASSUME NEW g \in Gens, Others(g, child, child'), Calm(child[g], child'[g])
  PROVE  \A h \in Gens : Calm(child[h], child'[h])
  BY DEF Others, Calm

LEMMA NextAlone ==
  ASSUME SidecarInv, Next, ~raced'
  PROVE  AloneInv' /\ BlameInv'
<1> USE DEF host, shell
<1>f. /\ TypeOK /\ ChildInv /\ ~raced /\ AloneInv /\ BlameInv
      /\ endpoint.gen \in Nat /\ endpoint \in Endpoints
      /\ \A g \in Gens : child[g] \in Child /\ Coherent(child[g]) /\ g \in Nat /\ g # 0
  BY Facts, Numbers, RacesGrow
<1>n. \A b \in BOOLEAN : Enters(b) => ~b
  BY <1>f, EntersEffect
\* Nothing a handler does.
<1>c. ASSUME \A h \in Gens : Calm(child[h], child'[h]), endpoint'.gen = endpoint.gen,
             slot' \in {slot, 0}, UNCHANGED <<marks, respawn>>
      PROVE  AloneInv' /\ BlameInv'
  BY <1>f, <1>c, CalmAlone, CalmBlame
<1>1. ASSUME NEW g \in Gens, Listen(g) \/ Die(g) \/ ReadLine(g) \/ Expose(g)
      PROVE  AloneInv' /\ BlameInv'
  <2>1. UNCHANGED <<slot, marks, respawn>>
    BY <1>1 DEF Listen, Die, ReadLine, Expose
  <2>2. endpoint'.gen = endpoint.gen
    BY <1>f, <1>1, ExposeEffect DEF Listen, Die, ReadLine
  <2>3. CASE Listen(g)
    BY <1>f, <1>c, <2>1, <2>2, <2>3, ListenEffect, OneCalm DEF Calm, Coherent
  <2>4. CASE Die(g)
    <3>1. Others(g, child, child') /\ Calm(child[g], child'[g])
      BY <1>f, <2>4, DieEffect DEF Calm, Alive, SameTask
    <3> QED
      BY <1>c, <2>1, <2>2, <3>1, OneCalm
  <2>5. CASE ReadLine(g)
    <3>1. Others(g, child, child') /\ Calm(child[g], child'[g])
      BY <1>f, <2>5, ReadLineEffect DEF Calm, Steady, SameRun
    <3> QED
      BY <1>c, <2>1, <2>2, <3>1, OneCalm
  <2>6. CASE Expose(g)
    <3>1. Others(g, child, child') /\ Calm(child[g], child'[g])
      BY <1>f, <2>6, ExposeEffect DEF Calm, Steady, SameRun
    <3> QED
      BY <1>c, <2>1, <2>2, <3>1, OneCalm
  <2> QED
    BY <1>1, <2>3, <2>4, <2>5, <2>6
\* A startup is given up while nothing else is going on.
<1>e. ASSUME NEW g \in Gens, Steady(g), ~Busy, Pending(endpoint, g),
             child[g].proc \notin {"none", "begun"},
             endpoint' = Expired(endpoint, g), UNCHANGED <<slot, marks, respawn>>,
             \/ /\ child[g].task = "checked" /\ child'[g].task = "mark"
                /\ child'[g].timer = child[g].timer
             \/ child'[g].task = child[g].task /\ child'[g].timer = "mark"
      PROVE  AloneInv' /\ BlameInv'
  <2>1. respawn.at = "idle" /\ \A h \in Gens : ~Handled(h)
    BY <1>e, Quiet
  <2>2. \A h \in Gens : h # g => child'[h] = child[h]
    BY <1>e DEF Steady, Others
  <2>3. /\ child'[g].proc = child[g].proc /\ child'[g].why = child[g].why
        /\ ~Begun(g)' /\ ~Killing(g)' /\ (Tasked(g)' => Tasked(g))
    BY <1>e, <2>1 DEF Steady, SameRun, Begun, Killing, Handled, Tasked
  <2>4. \A h \in Gens : h # g => ~Handled(h)' /\ ~Killing(h)' /\ ~Begun(h)' /\ ~Failing(h)'
    BY <2>1, <2>2 DEF Handled, Begun, Killing, Failing
  <2>5. child'[g].timer # "idle" => child'[g].task \notin {"mark", "kill", "gone"}
    BY <1>e, <2>1 DEF Handled
  <2>6. AloneInv'
    BY <1>e, <2>1, <2>4, <2>5, AloneNow DEF Handled
  <2>7. endpoint'.gen = endpoint.gen + 1 /\ g = endpoint.gen
    BY <1>e, <1>f, ExpiredEndpoint DEF Pending
  <2>8. \A h \in Gens : child'[h].proc \notin {"none", "begun"} => h # endpoint'.gen
    BY <1>f, <2>2, <2>3, <2>7 DEF ChildInv
  <2>9. slot \in {0, g}
    BY <1>e, <1>f, <2>7 DEF BlameInv
  <2>10. \A h \in Gens : /\ (Tasked(h)' /\ child'[h].why = "restart") => h \in marks'.restart
                         /\ (Tasked(h)' /\ child'[h].why = "failure") => h \in marks'.failure
    BY <1>e, <1>f, <2>2, <2>3 DEF BlameInv, Tasked
  <2>11. respawn'.at = "idle"
    BY <1>e, <2>1
  <2> QED
    BY <1>e, <2>3, <2>4, <2>6, <2>8, <2>9, <2>10, <2>11 DEF BlameInv
<1>4. ASSUME NEW g \in Gens, CannotExpose(g) PROVE AloneInv' /\ BlameInv'
  <2>1. /\ UNCHANGED <<slot, marks, respawn>> /\ endpoint' = Expired(endpoint, g)
        /\ ~Busy /\ Pending(endpoint, g)
    <3>1. (Busy \/ ~Pending(endpoint, g)) \in BOOLEAN
      BY DEF Busy, Pending
    <3> QED
      BY <1>n, <1>4, <3>1 DEF CannotExpose
  <2>2. /\ Steady(g) /\ child'[g].timer = child[g].timer
        /\ child[g].task = "checked" /\ child'[g].task = "mark"
    BY <1>f, <1>4, CannotExposeEffect
  <2>3. child[g].proc \notin {"none", "begun"}
    BY <1>f, <2>2 DEF Coherent
  <2> QED
    BY <1>e, <2>1, <2>2, <2>3
<1>6. ASSUME NEW g \in Gens, StartupTimeout(g) PROVE AloneInv' /\ BlameInv'
  <2>1. /\ UNCHANGED <<slot, marks, respawn>> /\ endpoint' = Expired(endpoint, g)
        /\ child[g].proc \notin {"none", "begun"} /\ Pending(endpoint, g)
    BY <1>6 DEF StartupTimeout
  <2>2. ~Busy
    <3>1. Busy \in BOOLEAN
      BY DEF Busy
    <3> QED
      BY <1>n, <1>6, <3>1 DEF StartupTimeout
  <2>3. Steady(g) /\ child'[g].task = child[g].task /\ child'[g].timer = "mark"
    BY <1>f, <1>6, StartupTimeoutEffect
  <2> QED
    BY <1>e, <2>1, <2>2, <2>3
<1>7. ASSUME NEW g \in Gens, MarkFailure(g) PROVE AloneInv' /\ BlameInv'
  <2>1. UNCHANGED <<endpoint, slot, respawn>>
    BY <1>7 DEF MarkFailure
  <2>2. /\ Others(g, child, child') /\ SameRun(child[g], child'[g])
        /\ \/ /\ child[g].task = "mark" /\ child'[g].task = "kill"
              /\ child'[g].timer = child[g].timer
           \/ /\ child[g].timer = "mark" /\ child'[g].timer = "kill"
              /\ child'[g].task = child[g].task
        /\ marks'.restart = marks.restart
        /\ marks'.failure = marks.failure \cup {g}
    BY <1>f, <1>7, MarkFailureEffect DEF Steady
  <2>3. \A h \in Gens : h # g => child'[h] = child[h]
    BY <2>2 DEF Others
  <2>4. /\ Handled(g) /\ Failing(g) /\ (Tasked(g)' => Tasked(g)) /\ Begun(g)' = Begun(g)
        /\ child'[g].proc = child[g].proc /\ child'[g].why = child[g].why
    BY <2>2 DEF Handled, Failing, SameRun, Tasked, Begun
  <2>5. /\ \A h \in Gens : Handled(h)' => Handled(h)
        /\ \A h \in Gens : Killing(h)' => h \in marks'.failure
        /\ \A h \in Gens : Failing(h)' => Failing(h)
    <3>1. \A h \in Gens : h # g => /\ Handled(h)' => Handled(h)
                                   /\ Killing(h)' => Killing(h)
                                   /\ Failing(h)' => Failing(h)
      BY <2>3 DEF Handled, Killing, Failing, Begun
    <3> QED
      BY <1>f, <2>2, <2>4, <3>1 DEF BlameInv
  <2>6. child'[g].timer # "idle" => child'[g].task \notin {"mark", "kill", "gone"}
    BY <1>f, <2>2 DEF AloneInv
  <2>7. AloneInv'
    <3>1. \A h \in Gens : child'[h].timer # "idle" => child'[h].task \notin {"mark", "kill", "gone"}
      BY <1>f, <2>3, <2>6 DEF AloneInv
    <3> QED
      BY <1>f, <2>1, <2>5, <3>1 DEF AloneInv
  <2>8. \A h \in Gens : /\ Tasked(h)' => Tasked(h)
                        /\ Begun(h)' = Begun(h)
                        /\ child'[h].proc = child[h].proc /\ child'[h].why = child[h].why
    BY <2>3, <2>4 DEF Tasked, Begun
  <2>9. BlameInv'
    BY <1>f, <2>1, <2>2, <2>5, <2>8 DEF BlameInv
  <2> QED
    BY <2>7, <2>9
<1>8. ASSUME NEW g \in Gens, StopFailed(g) PROVE AloneInv' /\ BlameInv'
  <2>1. UNCHANGED <<endpoint, marks, respawn>>
    BY <1>8 DEF StopFailed
  <2>2. /\ slot' = 0
        /\ \A h \in Gens : h # g => Asked(child[h], child'[h], "failure")
        /\ \A h \in Gens : h # slot => SameRun(child[h], child'[h])
        /\ child'[g].proc = child[g].proc \/ child'[g].proc = "leaving"
        /\ child'[g].why = child[g].why \/ child'[g].why = "failure"
        /\ \/ /\ child[g].task = "kill" /\ child'[g].task = "reading"
              /\ child'[g].timer = child[g].timer
           \/ /\ child[g].timer = "kill" /\ child'[g].timer = "idle"
              /\ child'[g].task = child[g].task
    BY <1>f, <1>8, StopFailedEffect
  <2>3. Failing(g) /\ Killing(g) /\ slot \in {0, g} /\ g \in marks.failure
    BY <1>f, <2>2 DEF Failing, Killing, BlameInv
  <2>4. \A h \in Gens : h # g =>
          /\ child'[h].proc = child[h].proc /\ child'[h].why = child[h].why
          /\ child'[h].task = child[h].task /\ child'[h].timer = child[h].timer
    BY <1>f, <2>2, <2>3 DEF Asked, SameTask, SameRun
  <2>5. /\ \A h \in Gens : Handled(h)' => Handled(h)
        /\ \A h \in Gens : child'[h].timer # "idle" => child'[h].task \notin {"mark", "kill", "gone"}
        /\ \A h \in Gens : Begun(h)' => Begun(h)
        /\ \A h \in Gens : Killing(h)' => Killing(h)
        /\ \A h \in Gens : Tasked(h)' => Tasked(h)
    <3>1. \A h \in Gens : h # g => /\ Handled(h)' => Handled(h)
                                   /\ child'[h].timer # "idle" =>
                                        child'[h].task \notin {"mark", "kill", "gone"}
                                   /\ Begun(h)' => Begun(h)
                                   /\ Killing(h)' => Killing(h)
                                   /\ Tasked(h)' => Tasked(h)
      BY <1>f, <2>4 DEF AloneInv, Handled, Begun, Killing, Tasked
    <3>2. Begun(g)' => Begun(g)
      BY <2>2 DEF Begun
    <3>3. /\ Handled(g)' => Handled(g)
          /\ Killing(g)' => Killing(g)
          /\ Tasked(g)' => Tasked(g)
          /\ child'[g].timer # "idle" => child'[g].task \notin {"mark", "kill", "gone"}
      BY <1>f, <2>2, <2>3, <3>2 DEF AloneInv, Handled, Killing, Tasked, Failing
    <3> QED
      BY <3>1, <3>2, <3>3
  <2>6. AloneInv'
    BY <1>f, <2>1, <2>5 DEF AloneInv
  <2>7. \A h \in Gens : /\ child'[h].why = child[h].why \/ (h = g /\ child'[h].why = "failure")
                        /\ child'[h].proc \notin {"none", "begun"} =>
                             child[h].proc \notin {"none", "begun"}
    <3>1. child[g].proc \notin {"none", "begun"}
      BY <1>f, <2>2 DEF Coherent
    <3> QED
      BY <2>2, <2>4, <3>1
  <2>8. BlameInv'
    BY <1>f, <2>1, <2>2, <2>3, <2>5, <2>7 DEF BlameInv
  <2> QED
    BY <2>6, <2>8
<1>9. ASSUME NEW g \in Gens, SpawnChild(g) PROVE AloneInv' /\ BlameInv'
  <2>1. UNCHANGED <<endpoint, marks, respawn>>
    BY <1>9 DEF SpawnChild
  <2>2. /\ Others(g, child, child') /\ child[g].proc = "begun" /\ child'[g].timer = "idle"
        /\ \/ /\ slot' = g /\ child'[g].proc = "booting" /\ child'[g].task = "reading"
              /\ child'[g].why = child[g].why
           \/ slot' = slot /\ child'[g].proc = "none" /\ child'[g].task = "none"
    BY <1>f, <1>9, SpawnChildEffect
  <2>3. /\ Handled(g) /\ g = endpoint.gen /\ child[g].task = "none" /\ child[g].why = "self"
        /\ child[g].timer = "idle"
    BY <1>f, <2>2 DEF Handled, Begun, BlameInv, Coherent
  <2>4. CASE slot' = slot /\ child'[g].proc = "none" /\ child'[g].task = "none"
    <3>1. Calm(child[g], child'[g])
      BY <2>2, <2>3, <2>4 DEF Calm
    <3> QED
      BY <1>c, <2>1, <2>2, <2>4, <3>1, OneCalm
  <2>5. CASE /\ slot' = g /\ child'[g].proc = "booting" /\ child'[g].task = "reading"
             /\ child'[g].why = child[g].why
    <3>1. /\ respawn.at = "idle"
          /\ \A h \in Gens : h # g => ~Handled(h) /\ child'[h] = child[h]
      BY <1>f, <2>2, <2>3 DEF AloneInv, Others
    <3>2. \A h \in Gens : ~Handled(h)'
      BY <2>2, <2>5, <3>1 DEF Handled, Begun
    <3>3. \A h \in Gens : ~Failing(h)' /\ ~Killing(h)' /\ ~Begun(h)'
      BY <3>2 DEF Handled, Failing, Killing, Begun
    <3>4. AloneInv'
      BY <3>2 DEF AloneInv, Handled
    <3>5. \A h \in Gens : (Tasked(h)' /\ child'[h].why \in {"restart", "failure"}) =>
            Tasked(h) /\ child'[h].why = child[h].why
      BY <2>3, <2>5, <3>1 DEF Tasked
    <3>6. respawn'.at = "idle"
      BY <2>1, <3>1
    <3>7. BlameInv'
      BY <1>f, <2>1, <2>3, <2>5, <3>3, <3>5, <3>6 DEF BlameInv
    <3> QED
      BY <3>4, <3>7
  <2> QED
    BY <2>2, <2>4, <2>5
<1>10. ASSUME NEW g \in Gens, ExitSeen(g) PROVE AloneInv' /\ BlameInv'
  <2>1. UNCHANGED <<marks, respawn>> /\ ~Busy
    <3>1. Busy \in BOOLEAN
      BY DEF Busy
    <3> QED
      BY <1>n, <1>10, <3>1 DEF ExitSeen
  <2>2. /\ Others(g, child, child') /\ SameRun(child[g], child'[g])
        /\ child'[g].timer = child[g].timer
        /\ child[g].proc = "dead" /\ child[g].task = "reading"
        /\ child'[g].task = "gone" /\ endpoint'.gen = endpoint.gen /\ slot' \in {slot, 0}
    BY <1>f, <1>10, ExitSeenEffect DEF Steady
  <2>3. respawn'.at = "idle" /\ \A h \in Gens : ~Handled(h)
    BY <2>1, Quiet
  <2>4. \A h \in Gens : h # g => child'[h] = child[h]
    BY <2>2 DEF Others
  <2>5. /\ child'[g].timer = "idle" /\ Tasked(g)
        /\ \A h \in Gens : ~Failing(h)' /\ ~Killing(h)' /\ ~Begun(h)'
        /\ \A h \in Gens : Handled(h)' => h = g
    BY <2>2, <2>3, <2>4 DEF Handled, Failing, Killing, Begun, SameRun, Tasked
  <2>6. AloneInv'
    BY <2>3, <2>5, AloneNow DEF Failing
  <2>7. \A h \in Gens : /\ Tasked(h)' => Tasked(h)
                        /\ child'[h].why = child[h].why /\ child'[h].proc = child[h].proc
    BY <2>2, <2>4, <2>5 DEF Tasked, SameRun
  <2>8. BlameInv'
    BY <1>f, <2>1, <2>2, <2>3, <2>5, <2>7 DEF BlameInv
  <2> QED
    BY <2>6, <2>8
<1>11. ASSUME NEW g \in Gens, ExitJudged(g) PROVE AloneInv' /\ BlameInv'
  <2>1. UNCHANGED <<slot, respawn>>
    BY <1>11 DEF ExitJudged
  <2>2. child[g].task = "gone" /\ (Ends(g) \/ Replaces(g) \/ Retries(g))
    BY <1>f, <1>11, ExitJudgedEffect
  <2>3. /\ child[g].timer = "idle" /\ respawn.at = "idle"
        /\ \A h \in Gens : h # g => ~Handled(h)
    BY <1>f, <2>2 DEF AloneInv, Handled
  <2>4. /\ Over(g) \in [Gens -> Child]
        /\ Over(g)[g].task = "none" /\ Over(g)[g].proc = "dead" /\ Over(g)[g].timer = "idle"
        /\ \A h \in Gens : h # g => Over(g)[h] = child[h]
    BY <1>f, <2>2, <2>3, OverChild
  <2>5. child[g].proc = "dead"
    BY <1>f, <2>2 DEF Coherent
  <2>6. CASE Ends(g)
    <3>1. /\ child' = Over(g) /\ UNCHANGED endpoint /\ marks'.restart = marks.restart
          /\ marks'.failure = marks.failure \/ marks'.failure = marks.failure \ {g}
      BY <2>6 DEF Ends
    <3>2. /\ Calm(child[g], child'[g]) /\ Others(g, child, child')
          /\ ~Tasked(g)' /\ ~Killing(g)'
      BY <2>3, <2>4, <2>5, <3>1 DEF Calm, Others, Tasked, Killing
    <3>3. \A h \in Gens : Calm(child[h], child'[h])
      BY <3>2, OneCalm
    <3>4. \A h \in Gens : h \in marks.failure =>
            h \in marks'.failure \/ ~(Tasked(h)' \/ Killing(h)')
      BY <3>1, <3>2
    <3> QED
      BY <1>f, <2>1, <3>1, <3>3, <3>4, CalmAlone, CalmBlame
  \* The next one is begun.
  <2>7. ASSUME NEW ep, ep.gen = endpoint.gen, Begins(ep, Over(g)), marks'.failure = marks.failure,
               marks'.restart = marks.restart \/ marks'.restart = marks.restart \ {g}
        PROVE  AloneInv' /\ BlameInv'
    <3>1. PICK n \in Gens : n = endpoint.gen + 1
      BY <2>7 DEF Begins
    <3>2. /\ endpoint'.gen = n /\ child'[n].proc = "begun" /\ child'[n].task = "none"
          /\ child'[n].timer = "idle" /\ \A h \in Gens : h # n => child'[h] = Over(g)[h]
      BY <2>7, <3>1 DEF Begins
    <3>3. g # n
      BY <1>f, <2>5, <3>1 DEF ChildInv
    <3>4. \A h \in Gens : h # n => ~Handled(h)'
      BY <2>3, <2>4, <3>2 DEF Handled, Begun
    <3>5. \A h \in Gens : child'[h].timer = "idle"
      BY <2>3, <2>4, <3>2 DEF Handled
    <3>6. AloneInv'
      BY <2>1, <2>3, <3>4, <3>5, AloneNow
    <3>7. \A h \in Gens : ~Failing(h)' /\ ~Killing(h)' /\ (Begun(h)' => h = n)
      BY <3>2, <3>4 DEF Handled, Failing, Killing, Begun
    <3>8. \A h \in Gens : Tasked(h)' => h # g /\ Tasked(h) /\ child'[h] = child[h]
      BY <2>4, <3>2, <3>3 DEF Tasked
    <3>9. \A h \in Gens : /\ (Tasked(h)' /\ child'[h].why = "restart") => h \in marks'.restart
                          /\ (Tasked(h)' /\ child'[h].why = "failure") => h \in marks'.failure
      BY <1>f, <2>7, <3>8 DEF BlameInv
    <3>10. respawn'.at = "idle"
      BY <2>1, <2>3
    <3> QED
      BY <3>2, <3>6, <3>7, <3>9, <3>10 DEF BlameInv
  <2>8. CASE Replaces(g)
    BY <2>7, <2>8 DEF Replaces
  <2>9. CASE Retries(g)
    <3>1. PICK ep : ep = [endpoint EXCEPT !.selected = 0]
      OBVIOUS
    <3>2. Begins(ep, Over(g)) /\ ep.gen = endpoint.gen /\ UNCHANGED marks
      BY <1>f, <2>9, <3>1 DEF Retries, Endpoints
    <3> QED
      BY <2>7, <3>2
  <2> QED
    BY <2>2, <2>6, <2>8, <2>9
<1>12. ASSUME RespawnSpawns PROVE AloneInv' /\ BlameInv'
  <2>1. /\ UNCHANGED slot /\ Begins(endpoint, child) /\ respawn.at = "empty"
        /\ marks'.restart = marks.restart \ {respawn.gen} /\ marks'.failure = marks.failure
        /\ respawn'.at = "idle"
    BY <1>f, <1>12, RespawnSpawnsEffect DEF RespawnSpawns
  <2>2. PICK n \in Gens : n = endpoint.gen + 1
    BY <2>1 DEF Begins
  <2>3. /\ endpoint'.gen = n /\ child'[n].proc = "begun" /\ child'[n].task = "none"
        /\ child'[n].timer = "idle" /\ \A h \in Gens : h # n => child'[h] = child[h]
    BY <2>1, <2>2 DEF Begins
  <2>4. \A h \in Gens : ~Handled(h)
    BY <1>f, <2>1 DEF AloneInv
  <2>5. /\ \A h \in Gens : h # n => ~Handled(h)'
        /\ \A h \in Gens : child'[h].timer = "idle"
    BY <2>3, <2>4 DEF Handled, Begun
  <2>6. AloneInv'
    BY <2>1, <2>5, AloneNow
  <2>7. \A h \in Gens : ~Failing(h)' /\ ~Killing(h)' /\ (Begun(h)' => h = n)
    BY <2>3, <2>5 DEF Handled, Failing, Killing, Begun
  <2>8. \A h \in Gens : Tasked(h)' => Tasked(h) /\ child'[h] = child[h]
    BY <2>3 DEF Tasked
  <2>9. \A h \in Gens : /\ (Tasked(h)' /\ child'[h].why = "restart") => h \in marks'.restart
                        /\ (Tasked(h)' /\ child'[h].why = "failure") => h \in marks'.failure
    BY <1>f, <2>1, <2>8 DEF BlameInv
  <2> QED
    BY <2>1, <2>3, <2>6, <2>7, <2>9 DEF BlameInv
<1>13. ASSUME RespawnKills PROVE AloneInv' /\ BlameInv'
  <2>1. /\ UNCHANGED <<endpoint, marks>> /\ respawn.at = "kill" /\ respawn'.gen = respawn.gen
        /\ respawn'.at = IF slot = 0 THEN "empty" ELSE "taken"
    <3>1. respawn \in Respawns
      BY <1>f DEF TypeOK, Respawns
    <3> QED
      BY <1>13, <3>1 DEF RespawnKills, Respawns
  <2>2. SlotKilled("restart")
    BY <1>f, <1>13, KillEffect DEF RespawnKills, Asks
  <2>3. /\ slot' = 0
        /\ \A h \in Gens : /\ child'[h].task = child[h].task /\ child'[h].timer = child[h].timer
                           /\ child'[h].proc = child[h].proc \/ child'[h].proc = "leaving"
                           /\ \/ child'[h].why = child[h].why
                              \/ h = slot /\ child'[h].why = "restart"
    BY <2>2 DEF SlotKilled, Asked, SameTask, SameRun
  <2>4. \A h \in Gens : ~Handled(h)
    BY <1>f, <2>1 DEF AloneInv
  <2>5. \A h \in Gens : ~Handled(h)'
    BY <2>3, <2>4 DEF Handled, Begun
  <2>6. AloneInv'
    BY <2>5 DEF AloneInv, Handled
  <2>7. \A h \in Gens : /\ ~Failing(h)' /\ ~Killing(h)' /\ ~Begun(h)'
                        /\ Tasked(h)' => Tasked(h)
    BY <2>3, <2>5 DEF Handled, Failing, Killing, Begun, Tasked
  <2>8. \A h \in Gens : /\ (Tasked(h)' /\ child'[h].why = "restart") => h \in marks'.restart
                        /\ (Tasked(h)' /\ child'[h].why = "failure") => h \in marks'.failure
    BY <1>f, <2>1, <2>3, <2>7 DEF BlameInv
  <2>9. slot = 0 => \A h \in Gens : h # slot
    BY <1>f
  <2> QED
    BY <1>f, <2>1, <2>3, <2>6, <2>7, <2>8, <2>9 DEF BlameInv
<1>14. ASSUME Restart \/ Retry \/ InstallFails PROVE AloneInv' /\ BlameInv'
  <2>1. Respawn /\ UNCHANGED <<endpoint, child, slot>>
    BY <1>14 DEF Restart, Retry, InstallFails
  <2>2. ~Busy
    <3>1. Busy \in BOOLEAN
      BY DEF Busy
    <3> QED
      BY <1>n, <2>1, <3>1 DEF Respawn
  <2>3. /\ respawn'.at = "kill" /\ respawn'.gen = slot
        /\ marks'.failure = marks.failure
        /\ marks'.restart = marks.restart \cup (IF slot = 0 THEN {} ELSE {slot})
    BY <1>f, <2>1, RespawnTypes
  <2>4. \A h \in Gens : ~Handled(h)'
    BY <2>1, <2>2, Quiet DEF Handled, Begun
  <2>5. \A h \in Gens : ~Failing(h)' /\ ~Killing(h)' /\ ~Begun(h)'
    BY <2>4 DEF Handled, Failing, Killing, Begun
  <2>6. AloneInv'
    BY <2>4 DEF AloneInv, Handled
  <2>7. \A h \in Gens : (h = slot /\ Tasked(h)) => child[h].why # "restart"
    BY <1>f DEF ChildInv
  <2>8. BlameInv'
    BY <1>f, <2>1, <2>3, <2>5, <2>7 DEF BlameInv, Tasked
  <2> QED
    BY <2>6, <2>8
\* What the slot holds is stopped.
<1>k. ASSUME UNCHANGED <<endpoint, marks, respawn>>,
             \/ child' = Killed(child, "stop") /\ slot' = 0
             \/ UNCHANGED <<child, slot>>
      PROVE  AloneInv' /\ BlameInv'
  <2>1. slot' \in {slot, 0}
    BY <1>k
  <2>2. \A h \in Gens : Calm(child[h], child'[h])
    <3>1. CASE UNCHANGED <<child, slot>>
      BY <3>1 DEF Calm
    <3>2. CASE child' = Killed(child, "stop") /\ slot' = 0
      <4>1. SlotKilled("stop")
        BY <1>f, <3>2, KillEffect DEF Asks
      <4> QED
        BY <4>1 DEF SlotKilled, Calm, Asked, SameTask
    <3> QED
      BY <1>k, <3>1, <3>2
  <2> QED
    BY <1>c, <1>k, <2>1, <2>2
<1>15. ASSUME Quit \/ StopEnds \/ Finish \/ ApplyEvent \/ Update
              \/ \E g \in Gens : PollRound(g) \/ PollApply(g) \/ PollGivesUp(g)
       PROVE  AloneInv' /\ BlameInv'
  <2>1. /\ UNCHANGED <<endpoint, marks, respawn>>
        /\ \/ child' = Killed(child, "stop") /\ slot' = 0
           \/ UNCHANGED <<child, slot>>
    BY <1>15 DEF Quit, StopEnds, Finish, ApplyEvent, Update, PollRound, PollApply, PollGivesUp
  <2> QED
    BY <1>k, <2>1
<1>16. ASSUME AskShutdown PROVE AloneInv' /\ BlameInv'
  <2>1. UNCHANGED respawn
    BY <1>16 DEF AskShutdown
  <2>2. CASE StopHard(stopper.purpose)
    BY <1>k, <2>1, <2>2 DEF StopHard
  <2>3. CASE ~StopHard(stopper.purpose)
    <3>1. PICK g \in Gens : g = endpoint.current
      BY <1>16, <2>3, AskShutdownEffect
    <3>2. /\ Others(g, child, child') /\ Asked(child[g], child'[g], "stop")
          /\ child[g].proc = "listening" /\ UNCHANGED shell
          /\ child'[g].proc = "leaving" /\ child'[g].why = "stop"
      BY <1>16, <2>3, <3>1, AskShutdownEffect
    <3>3. Calm(child[g], child'[g])
      BY <3>2 DEF Calm, Asked, SameTask
    <3> QED
      BY <1>c, <2>1, <3>2, <3>3, OneCalm
  <2> QED
    BY <2>2, <2>3
<1>17. ASSUME RespawnWaits PROVE AloneInv' /\ BlameInv'
  <2>1. /\ UNCHANGED <<endpoint, child, slot, marks>> /\ respawn'.at = "idle"
    BY <1>17 DEF RespawnWaits, NoRespawn
  <2>2. \A h \in Gens : Calm(child[h], child'[h])
    BY <2>1 DEF Calm
  <2> QED
    BY <1>f, <2>1, <2>2, CalmAlone, CalmBlame
<1> QED
  BY <1>1, <1>4, <1>6, <1>7, <1>8, <1>9, <1>10, <1>11, <1>12, <1>13, <1>14, <1>15, <1>16, <1>17
     DEF Next

\* What a stop is for, and what the app ended for.
LEMMA NextEnd ==
  ASSUME SidecarInv, Next
  PROVE  EndInv'
<1>f. TypeOK /\ EndInv /\ (~raced => BlameInv) /\ \A g \in Gens : Coherent(child[g])
  BY Facts
<1>1. stopper'.at # "idle" => stopper'.purpose # "none"
  <2>1. CASE UNCHANGED stopper
    BY <1>f, <2>1 DEF EndInv
  <2>2. CASE Quit \/ Update \/ InstallFails
    BY <1>f, <2>2 DEF Quit, Update, InstallFails, EndInv
  <2>3. CASE StopEnds
    <3>1. stopper \in Stops /\ stopper.at = "waiting" /\ stopper' = [stopper EXCEPT !.at = "released"]
      BY <1>f, <2>3, Typed DEF StopEnds
    <3> QED
      BY <1>f, <3>1 DEF EndInv, Stops
  <2>4. CASE AskShutdown
    <3>1. stopper.purpose \in {"quit", "update"}
      BY <2>4, AskShutdownEffect
    <3>2. CASE StopHard(stopper.purpose)
      BY <3>1, <3>2 DEF StopHard
    <3>3. CASE ~StopHard(stopper.purpose)
      BY <2>4, <3>1, <3>3, AskShutdownEffect
    <3> QED
      BY <3>2, <3>3
  <2> QED
    BY <2>1, <2>2, <2>3, <2>4 DEF Next, Listen, Die, ReadLine, CannotExpose, Expose,
       StartupTimeout, MarkFailure, StopFailed, SpawnChild, ExitSeen, ExitJudged, PollRound,
       PollApply, PollGivesUp, Restart, Retry, RespawnKills, RespawnWaits, RespawnSpawns,
       Finish, ApplyEvent
<1>2. RestartKeepsApp'
  <2>1. raced => raced'
    BY <1>f, RacesGrow
  <2>2. CASE ended' \in {ended, "quit", "update", "crash"}
    BY <1>f, <2>1, <2>2 DEF EndInv, RestartKeepsApp
  <2>3. CASE \E g \in Gens : ExitJudged(g)
    <3>1. PICK g \in Gens : ExitJudged(g)
      BY <2>3
    <3>2. child[g].task = "gone" /\ (Ends(g) \/ Replaces(g) \/ Retries(g))
      BY <1>f, <3>1, ExitJudgedEffect
    <3>3. CASE ended' \in {ended, "crash"}
      BY <2>2, <3>3
    <3>4. CASE ended' = child[g].why /\ g \notin marks.restart \cup marks.failure
      BY <1>f, <2>1, <3>2, <3>4 DEF RestartKeepsApp, BlameInv, Tasked
    <3> QED
      BY <3>2, <3>3, <3>4 DEF Ends, Replaces, Retries
  <2>4. CASE Finish
    <3>1. ended' = stopper.purpose /\ stopper.purpose \in {"none", "quit", "update"}
      BY <1>f, <2>4, Typed DEF Finish, Stops
    <3> QED
      BY <3>1 DEF RestartKeepsApp
  <2> QED
    BY <2>2, <2>3, <2>4 DEF Next, Listen, Die, ReadLine, CannotExpose, Expose,
       StartupTimeout, MarkFailure, StopFailed, SpawnChild, ExitSeen, PollRound,
       PollApply, PollGivesUp, Restart, Retry, RespawnKills, RespawnWaits, RespawnSpawns,
       Quit, Update, AskShutdown, StopEnds, InstallFails, ApplyEvent
<1> QED
  BY <1>1, <1>2 DEF EndInv

LEMMA InitSidecarInv == Init => SidecarInv
  BY InitTypes, InitChildren DEF SidecarInv

LEMMA NextSidecarInv ==
  ASSUME SidecarInv, [Next]_vars
  PROVE  SidecarInv'
<1>1. CASE Next
  BY <1>1, NextTypes, NextChildren, NextEnd, NextAlone DEF SidecarInv
<1>2. CASE UNCHANGED vars
  <2> USE <1>2 DEF vars, host, shell
  <2>1. TypeOK'
    BY DEF SidecarInv, TypeOK
  <2>2. ChildInv' /\ ExposedInv'
    BY StillInv
  <2>3. EndInv' /\ raced' = raced
    BY DEF SidecarInv, EndInv, RestartKeepsApp, raced
  <2>4. AloneInv => AloneInv'
    BY DEF AloneInv, Handled, Begun
  <2>5. BlameInv => BlameInv'
    BY DEF BlameInv, Failing, Killing, Tasked, Begun
  <2> QED
    BY <2>1, <2>2, <2>3, <2>4, <2>5 DEF SidecarInv
<1> QED
  BY <1>1, <1>2

----------------------------------------------------------------------------
\* Only the newest sidecar is ever exposed; and as long as no handler began while
\* another was between its locks, no exit of a sidecar that was being restarted,
\* or whose startup was given up, ends the app, however often and however closely
\* restarts are asked for.
THEOREM RestartsKeepTheApp == Spec => [](TypeOK /\ ExposedIsNewest /\ RestartKeepsApp)
<1>1. SidecarInv => TypeOK /\ ExposedIsNewest /\ RestartKeepsApp
  <2>1. ASSUME SidecarInv PROVE ExposedIsNewest
    BY <2>1, Facts DEF ExposedInv, Shown, ExposedIsNewest
  <2> QED
    BY <2>1 DEF SidecarInv, EndInv
<1> QED
  BY <1>1, InitSidecarInv, NextSidecarInv, PTL DEF Spec

\* A selected port with a capability is never given up.
THEOREM PortIsKept == Spec => PortNeverMoves
<1>1. ASSUME SidecarInv, [Next]_vars, endpoint.selected \in endpoint.capabilities
      PROVE  endpoint'.selected = endpoint.selected
  <2>f. /\ TypeOK /\ ExposedInv /\ endpoint \in Endpoints
        /\ \A g \in Gens : Coherent(child[g])
    BY <1>1, Facts
  <2>0. endpoint.selected \in Ports /\ endpoint.selected # 0 /\ endpoint.capabilities # {}
    BY <1>1, <2>f, Numbers DEF Endpoints
  <2>1. CASE UNCHANGED endpoint
    BY <2>1
  <2>2. ASSUME NEW g \in Gens, Expose(g) PROVE endpoint'.selected = endpoint.selected
    <3>1. /\ child[g].task = "checked"
          /\ \/ /\ Pending(endpoint, g) /\ endpoint'.selected = child[g].port
             \/ endpoint'.selected = endpoint.selected
      BY <2>f, <2>2, ExposeEffect
    <3>2. CASE Pending(endpoint, g) /\ endpoint'.selected = child[g].port
      <4>1. child[g].requested = endpoint.selected
        BY <2>f, <2>0, <3>1, <3>2 DEF ExposedInv, Open, Requested
      <4>2. child[g].requested \in {0, child[g].port}
        BY <2>f, <3>1 DEF Coherent
      <4> QED
        BY <2>0, <3>2, <4>1, <4>2
    <3> QED
      BY <3>1, <3>2
  <2>3. ASSUME NEW g \in Gens, CannotExpose(g) \/ StartupTimeout(g)
        PROVE  endpoint'.selected = endpoint.selected
    BY <2>f, <2>3, ExpiredEndpoint DEF CannotExpose, StartupTimeout
  <2>4. ASSUME NEW g \in Gens, ExitSeen(g) PROVE endpoint'.selected = endpoint.selected
    BY <2>f, <2>4, ExitSeenEffect
  <2>5. ASSUME NEW g \in Gens, ExitJudged(g) PROVE endpoint'.selected = endpoint.selected
    <3>1. Ends(g) \/ Replaces(g)
      BY <2>f, <2>0, <2>5, ExitJudgedEffect DEF Retries
    <3> QED
      BY <3>1 DEF Ends, Replaces, Begins
  <2>6. ASSUME RespawnSpawns PROVE endpoint'.selected = endpoint.selected
    BY <2>f, <2>6, RespawnSpawnsEffect DEF Begins
  <2> QED
    BY <1>1, <2>1, <2>2, <2>3, <2>4, <2>5, <2>6 DEF Next, vars, host, shell, Listen, Die,
       ReadLine, MarkFailure, StopFailed, SpawnChild, PollRound, PollApply, PollGivesUp,
       Restart, Retry, Quit, Update, RespawnKills, RespawnWaits, AskShutdown, StopHard,
       StopEnds, InstallFails, Finish, ApplyEvent
<1> QED
  BY <1>1, InitSidecarInv, NextSidecarInv, PTL DEF Spec, PortNeverMoves

----------------------------------------------------------------------------
(* --- requests that wait for each other --------------------------------- *)

HeldInv == SidecarInv /\ NoStraySidecar /\ (~raced => RestartInv)

\* Nothing is started, nor asked for.
LEMMA HeldKept ==
  ASSUME NoStraySidecar, RestartInv, ~raced, TypeOK,
         endpoint'.gen = endpoint.gen, marks'.restart \subseteq marks.restart,
         slot' \in {slot, 0},
         \A h \in Gens : /\ Tasked(h)' => Tasked(h)
                         /\ Begun(h)' => Begun(h)
                         /\ Alive(h)' => Alive(h)
                         /\ child[h].doomed /\ Alive(h)' => child'[h].doomed
                         /\ (h = slot /\ slot' # h /\ Alive(h)') => child'[h].doomed
                         /\ (h = slot' /\ Failing(h)) => Failing(h)'
                         /\ child'[h].task = "gone" => child[h].task = "gone" \/ slot' # h,
         \/ respawn' = respawn
         \/ slot' = 0 /\ respawn.at # "idle" /\ (respawn'.at = "idle" \/ respawn'.gen = respawn.gen),
         \/ stopper'.at = stopper.at
         \/ marks.restart = {} /\ respawn'.at = "idle"
  PROVE  NoStraySidecar' /\ RestartInv'
<1>1. NoStraySidecar'
  <2>1. ASSUME NEW h \in Gens, Alive(h)'
        PROVE  slot' = h \/ child'[h].doomed
    BY <2>1 DEF NoStraySidecar
  <2> QED
    BY <2>1 DEF NoStraySidecar
<1>2. slot' # 0 => slot' = endpoint'.gen \/ Failing(slot)'
  <2>1. ASSUME slot' # 0, Failing(slot) PROVE Failing(slot)'
    <3>1. PICK h \in Gens : h = slot
      BY <2>1, Numbers DEF TypeOK
    <3>2. Failing(h) /\ h = slot'
      BY <2>1, <3>1
    <3>3. Failing(h)'
      BY <3>2
    <3> QED
      BY <3>2, <3>3 DEF Failing
  <2> QED
    BY <2>1 DEF RestartInv
<1>3. marks'.restart # {} \/ respawn'.at # "idle" => stopper'.at = "idle"
  BY DEF RestartInv
<1>4. \A g \in marks'.restart :
        /\ marks'.restart = {g}
        /\ slot' = 0 \/ (respawn'.at = "kill" /\ respawn'.gen = g)
        /\ \A h \in Gens : (h = endpoint'.gen /\ Tasked(h)') => h = g
  BY DEF RestartInv
<1>5. (\E g \in Gens : Begun(g)') => slot' = 0 /\ marks'.restart = {}
  BY DEF RestartInv
<1>6. /\ respawn'.at \in {"empty", "taken"} => slot' = 0
      /\ \A g \in Gens : child'[g].task = "gone" => slot' # g
      /\ respawn'.at # "idle" => marks'.restart \subseteq {respawn'.gen}
  BY Numbers DEF RestartInv
<1> QED
  BY <1>1, <1>2, <1>3, <1>4, <1>5, <1>6 DEF RestartInv

LEMMA NextHeld ==
  ASSUME ~Overlap, HeldInv, Next, ~raced'
  PROVE  NoStraySidecar' /\ RestartInv'
<1> USE DEF host, shell
<1>f. /\ SidecarInv /\ TypeOK /\ ChildInv /\ ~raced /\ AloneInv /\ BlameInv
      /\ NoStraySidecar /\ RestartInv
      /\ endpoint.gen \in Nat /\ endpoint \in Endpoints
      /\ \A g \in Gens : child[g] \in Child /\ Coherent(child[g]) /\ g \in Nat /\ g # 0
  BY Facts, Numbers, RacesGrow DEF HeldInv
<1>n. \A b \in BOOLEAN : Enters(b) => ~b
  BY <1>f, EntersEffect
\* One child takes a step that starts nothing.
<1>c. ASSUME NEW g \in Gens, Others(g, child, child'),
             endpoint'.gen = endpoint.gen, slot' = slot \/ (slot = g /\ slot' = 0),
             UNCHANGED <<marks, respawn, stopper>>,
             /\ Tasked(g)' => Tasked(g)
             /\ Begun(g)' => Begun(g)
             /\ Alive(g)' => Alive(g) /\ slot' = slot
             /\ child[g].doomed /\ Alive(g)' => child'[g].doomed
             /\ (g = slot' /\ Failing(g)) => Failing(g)'
             /\ child'[g].task = "gone" => child[g].task = "gone" \/ slot' # g
      PROVE  NoStraySidecar' /\ RestartInv'
  <2>1. \A h \in Gens : h # g => child'[h] = child[h]
    BY <1>c DEF Others
  <2>2. \A h \in Gens : h # g => /\ Tasked(h)' = Tasked(h)
                                 /\ Begun(h)' = Begun(h)
                                 /\ Alive(h)' = Alive(h)
                                 /\ Failing(h)' = Failing(h)
    BY <2>1 DEF Tasked, Begun, Alive, Failing
  <2>3. \A h \in Gens : (h = slot /\ slot' # h /\ Alive(h)') => child'[h].doomed
    BY <1>c, <2>2
  <2> QED
    BY <1>f, <1>c, <2>1, <2>2, <2>3, HeldKept
<1>1. ASSUME NEW g \in Gens, Listen(g) \/ Die(g) \/ ReadLine(g) \/ Expose(g)
      PROVE  NoStraySidecar' /\ RestartInv'
  <2>1. UNCHANGED <<slot, marks, respawn, stopper>>
    BY <1>1 DEF Listen, Die, ReadLine, Expose
  <2>2. endpoint'.gen = endpoint.gen
    BY <1>f, <1>1, ExposeEffect DEF Listen, Die, ReadLine
  <2>3. CASE Listen(g)
    <3>1. /\ Others(g, child, child') /\ child[g].proc = "booting" /\ child'[g].proc = "listening"
          /\ child'[g].doomed = child[g].doomed /\ child[g].task = "reading"
          /\ child'[g].task = "reading" /\ child'[g].timer = child[g].timer
      BY <1>f, <2>3, ListenEffect DEF Coherent
    <3> QED
      BY <1>c, <2>1, <2>2, <3>1 DEF Tasked, Begun, Alive, Failing
  <2>4. CASE Die(g)
    <3>1. /\ Others(g, child, child') /\ child'[g].proc = "dead"
          /\ child'[g].task = child[g].task /\ child'[g].timer = child[g].timer
      BY <1>f, <2>4, DieEffect DEF SameTask
    <3> QED
      BY <1>c, <2>1, <2>2, <3>1 DEF Tasked, Begun, Alive, Failing
  <2>5. CASE ReadLine(g)
    <3>1. /\ Others(g, child, child') /\ SameRun(child[g], child'[g])
          /\ child[g].task = "reading" /\ child'[g].timer = child[g].timer
          /\ child'[g].task \in {"checked", "reading"}
      BY <1>f, <2>5, ReadLineEffect DEF Steady
    <3> QED
      BY <1>c, <2>1, <2>2, <3>1 DEF Tasked, Begun, Alive, Failing, SameRun
  <2>6. CASE Expose(g)
    <3>1. /\ Others(g, child, child') /\ SameRun(child[g], child'[g])
          /\ child[g].task = "checked" /\ child'[g].timer = child[g].timer
          /\ child'[g].task = "reading"
      BY <1>f, <2>6, ExposeEffect DEF Steady
    <3> QED
      BY <1>c, <2>1, <2>2, <3>1 DEF Tasked, Begun, Alive, Failing, SameRun
  <2> QED
    BY <1>1, <2>3, <2>4, <2>5, <2>6
<1>7. ASSUME NEW g \in Gens, MarkFailure(g) PROVE NoStraySidecar' /\ RestartInv'
  <2>1. UNCHANGED <<endpoint, slot, respawn, stopper>>
    BY <1>7 DEF MarkFailure
  <2>2. /\ Others(g, child, child') /\ SameRun(child[g], child'[g])
        /\ \/ /\ child[g].task = "mark" /\ child'[g].task = "kill"
              /\ child'[g].timer = child[g].timer
           \/ /\ child[g].timer = "mark" /\ child'[g].timer = "kill"
              /\ child'[g].task = child[g].task
        /\ marks'.restart = marks.restart
    BY <1>f, <1>7, MarkFailureEffect DEF Steady
  <2>3. \A h \in Gens : h # g => child'[h] = child[h]
    BY <2>2 DEF Others
  <2>4. \A h \in Gens : /\ Tasked(h)' => Tasked(h)
                        /\ Begun(h)' = Begun(h)
                        /\ Alive(h)' = Alive(h)
                        /\ child'[h].doomed = child[h].doomed
                        /\ Failing(h) => Failing(h)'
                        /\ child'[h].task = "gone" => child[h].task = "gone"
    <3>1. /\ Tasked(g)' => Tasked(g)
          /\ Begun(g)' = Begun(g)
          /\ Alive(g)' = Alive(g)
          /\ child'[g].doomed = child[g].doomed
          /\ Failing(g) => Failing(g)'
          /\ child'[g].task = "gone" => child[g].task = "gone"
      BY <2>2 DEF SameRun, Tasked, Begun, Alive, Failing
    <3> QED
      BY <2>3, <3>1 DEF Tasked, Begun, Alive, Failing
  <2> QED
    BY <1>f, <2>1, <2>2, <2>4, HeldKept
<1>8. ASSUME NEW g \in Gens, StopFailed(g) PROVE NoStraySidecar' /\ RestartInv'
  <2>1. UNCHANGED <<endpoint, marks, respawn, stopper>>
    BY <1>8 DEF StopFailed
  <2>2. /\ slot' = 0
        /\ \A h \in Gens : h # g => Asked(child[h], child'[h], "failure")
        /\ \A h \in Gens : h = slot => child'[h].doomed
        /\ child[g].doomed => child'[g].doomed
        /\ \/ child'[g].proc = child[g].proc
           \/ child[g].proc \in {"booting", "listening"} /\ child'[g].proc = "leaving"
        /\ \/ child[g].task = "kill" /\ child'[g].task = "reading"
           \/ child'[g].task = child[g].task
    BY <1>f, <1>8, StopFailedEffect
  <2>3. \A h \in Gens : /\ Tasked(h)' => Tasked(h)
                        /\ Begun(h)' => Begun(h)
                        /\ Alive(h)' => Alive(h)
                        /\ child[h].doomed => child'[h].doomed
                        /\ child'[h].task = "gone" => child[h].task = "gone"
    <3>1. \A h \in Gens : h # g => /\ Tasked(h)' => Tasked(h)
                                   /\ Begun(h)' => Begun(h)
                                   /\ Alive(h)' => Alive(h)
                                   /\ child[h].doomed => child'[h].doomed
                                   /\ child'[h].task = "gone" => child[h].task = "gone"
      BY <2>2 DEF Tasked, Begun, Alive, Asked, SameTask
    <3>2. /\ Tasked(g)' => Tasked(g)
          /\ Begun(g)' => Begun(g)
          /\ Alive(g)' => Alive(g)
          /\ child[g].doomed => child'[g].doomed
          /\ child'[g].task = "gone" => child[g].task = "gone"
      BY <2>2 DEF Tasked, Begun, Alive
    <3> QED
      BY <3>1, <3>2
  <2> QED
    BY <1>f, <2>1, <2>2, <2>3, HeldKept
<1>10. ASSUME NEW g \in Gens, ExitSeen(g) PROVE NoStraySidecar' /\ RestartInv'
  <2>1. UNCHANGED <<marks, respawn, stopper>> /\ ~Busy
    <3>1. Busy \in BOOLEAN
      BY DEF Busy
    <3> QED
      BY <1>n, <1>10, <3>1 DEF ExitSeen
  <2>2. /\ Others(g, child, child') /\ child'[g].proc = child[g].proc
        /\ child[g].proc = "dead" /\ child[g].task = "reading"
        /\ child'[g].task = "gone" /\ endpoint'.gen = endpoint.gen
        /\ slot' = (IF slot = g THEN 0 ELSE slot)
    BY <1>f, <1>10, ExitSeenEffect DEF Steady, SameRun
  <2>3. ~Failing(g)
    BY <2>1, Quiet DEF Handled, Failing
  <2> QED
    BY <1>f, <1>c, <2>1, <2>2, <2>3 DEF Tasked, Begun, Alive
\* A startup is given up while nothing else is going on.
<1>e. ASSUME NEW g \in Gens, Steady(g), ~Busy, Pending(endpoint, g),
             endpoint' = Expired(endpoint, g), UNCHANGED <<slot, marks, respawn, stopper>>,
             \/ child[g].task = "checked" /\ child'[g].task = "mark"
             \/ child'[g].task = child[g].task /\ child'[g].timer = "mark"
      PROVE  NoStraySidecar' /\ RestartInv'
  <2>1. respawn.at = "idle" /\ \A h \in Gens : ~Handled(h)
    BY <1>e, Quiet
  <2>2. /\ \A h \in Gens : h # g => child'[h] = child[h]
        /\ SameRun(child[g], child'[g])
    BY <1>e DEF Steady, Others
  <2>3. endpoint'.gen = endpoint.gen + 1 /\ g = endpoint.gen
    BY <1>e, <1>f, ExpiredEndpoint DEF Pending
  <2>4. \A h \in Gens : /\ Alive(h)' = Alive(h) /\ child'[h].doomed = child[h].doomed
                        /\ ~Begun(h)' /\ child'[h].proc = child[h].proc
                        /\ child'[h].task # "gone"
    BY <1>e, <2>1, <2>2 DEF SameRun, Alive, Begun, Handled
  <2>5. NoStraySidecar'
    BY <1>e, <1>f, <2>4 DEF NoStraySidecar, Alive
  <2>6. slot # 0 => slot = g /\ Failing(g)'
    <3>1. slot # 0 => slot = g
      BY <1>f, <2>1, <2>3, Numbers DEF RestartInv, Handled, Failing, TypeOK
    <3>2. Failing(g)'
      BY <1>e DEF Failing
    <3> QED
      BY <3>1, <3>2
  <2>7. \A h \in Gens : h = endpoint'.gen => ~Tasked(h)'
    <3>1. \A h \in Gens : h = endpoint'.gen => h # g /\ child[h].proc = "none"
      BY <1>f, <2>3 DEF ChildInv
    <3> QED
      BY <1>f, <2>2, <3>1 DEF Tasked, Coherent
  <2>8. RestartInv'
    <3>1. slot' # 0 => slot' = endpoint'.gen \/ Failing(slot)'
      BY <1>e, <2>6 DEF Failing
    <3>2. /\ marks'.restart # {} \/ respawn'.at # "idle" => stopper'.at = "idle"
          /\ \A r \in marks'.restart :
               /\ marks'.restart = {r}
               /\ slot' = 0 \/ (respawn'.at = "kill" /\ respawn'.gen = r)
          /\ respawn'.at \in {"empty", "taken"} => slot' = 0
          /\ respawn'.at # "idle" => marks'.restart \subseteq {respawn'.gen}
      BY <1>e, <1>f DEF RestartInv
    <3>3. slot' = slot
      BY <1>e
    <3> QED
      BY <2>4, <2>7, <3>1, <3>2, <3>3 DEF RestartInv, Begun
  <2> QED
    BY <2>5, <2>8
<1>4. ASSUME NEW g \in Gens, CannotExpose(g) PROVE NoStraySidecar' /\ RestartInv'
  <2>1. /\ UNCHANGED <<slot, marks, respawn, stopper>> /\ endpoint' = Expired(endpoint, g)
        /\ ~Busy /\ Pending(endpoint, g)
    <3>1. (Busy \/ ~Pending(endpoint, g)) \in BOOLEAN
      BY DEF Busy, Pending
    <3> QED
      BY <1>n, <1>4, <3>1 DEF CannotExpose
  <2>2. /\ Steady(g) /\ child[g].task = "checked" /\ child'[g].task = "mark"
    BY <1>f, <1>4, CannotExposeEffect
  <2> QED
    BY <1>e, <2>1, <2>2
<1>6. ASSUME NEW g \in Gens, StartupTimeout(g) PROVE NoStraySidecar' /\ RestartInv'
  <2>1. /\ UNCHANGED <<slot, marks, respawn, stopper>> /\ endpoint' = Expired(endpoint, g)
        /\ ~Busy /\ Pending(endpoint, g)
    <3>1. Busy \in BOOLEAN
      BY DEF Busy
    <3> QED
      BY <1>n, <1>6, <3>1 DEF StartupTimeout
  <2>2. Steady(g) /\ child'[g].task = child[g].task /\ child'[g].timer = "mark"
    BY <1>f, <1>6, StartupTimeoutEffect
  <2> QED
    BY <1>e, <2>1, <2>2
<1>9. ASSUME NEW g \in Gens, SpawnChild(g) PROVE NoStraySidecar' /\ RestartInv'
  <2>1. UNCHANGED <<endpoint, marks, respawn, stopper>>
    BY <1>9 DEF SpawnChild
  <2>2. /\ Others(g, child, child') /\ child[g].proc = "begun" /\ child'[g].timer = "idle"
        /\ \/ slot' = g /\ child'[g].proc = "booting" /\ child'[g].task = "reading"
           \/ slot' = slot /\ child'[g].proc = "none" /\ child'[g].task = "none"
    BY <1>f, <1>9, SpawnChildEffect
  <2>3. /\ Handled(g) /\ g = endpoint.gen /\ slot = 0 /\ marks.restart = {}
        /\ child[g].task = "none" /\ child[g].timer = "idle"
    BY <1>f, <2>2 DEF Handled, Begun, BlameInv, RestartInv, Coherent
  <2>4. CASE slot' = slot /\ child'[g].proc = "none" /\ child'[g].task = "none"
    BY <1>c, <2>1, <2>2, <2>3, <2>4 DEF Tasked, Begun, Alive, Failing
  <2>5. CASE slot' = g /\ child'[g].proc = "booting" /\ child'[g].task = "reading"
    <3>1. /\ respawn.at = "idle"
          /\ \A h \in Gens : h # g => ~Handled(h) /\ child'[h] = child[h]
      BY <1>f, <2>2, <2>3 DEF AloneInv, Others
    <3>2. \A h \in Gens : ~Begun(h)' /\ child'[h].task # "gone"
      BY <2>5, <3>1 DEF Handled, Begun
    <3>3. \A h \in Gens : Alive(h)' => h = g \/ (Alive(h) /\ child'[h].doomed = child[h].doomed)
      BY <3>1 DEF Alive
    <3>4. NoStraySidecar'
      BY <1>f, <2>3, <2>5, <3>3, Numbers DEF NoStraySidecar
    <3>5. respawn'.at = "idle" /\ marks'.restart = {} /\ endpoint'.gen = g
      BY <2>1, <2>3, <3>1
    <3>6. RestartInv'
      BY <2>5, <3>2, <3>5 DEF RestartInv
    <3> QED
      BY <3>4, <3>6
  <2> QED
    BY <2>2, <2>4, <2>5
\* The slot is empty, no restart is marked, and the next generation is begun.
<1>b. ASSUME UNCHANGED <<slot, stopper>>, slot = 0, marks'.restart = {},
             respawn'.at = "idle",
             \A h \in Gens : /\ Alive(h)' => Alive(h) /\ child'[h].doomed = child[h].doomed
      PROVE  NoStraySidecar' /\ RestartInv'
  <2>1. NoStraySidecar'
    BY <1>b, <1>f DEF NoStraySidecar
  <2>2. RestartInv'
    BY <1>b, <1>f DEF RestartInv
  <2> QED
    BY <2>1, <2>2
<1>11. ASSUME NEW g \in Gens, ExitJudged(g) PROVE NoStraySidecar' /\ RestartInv'
  <2>1. UNCHANGED <<slot, respawn, stopper>>
    BY <1>11 DEF ExitJudged
  <2>2. child[g].task = "gone" /\ (Ends(g) \/ Replaces(g) \/ Retries(g))
    BY <1>f, <1>11, ExitJudgedEffect
  <2>3. /\ respawn.at = "idle" /\ slot # g /\ child[g].proc = "dead"
        /\ \A h \in Gens : h # g => ~Handled(h)
    BY <1>f, <2>2 DEF AloneInv, Handled, RestartInv, Coherent
  <2>4. /\ Over(g) \in [Gens -> Child]
        /\ Over(g)[g].task = "none" /\ Over(g)[g].proc = "dead"
        /\ \A h \in Gens : h # g => Over(g)[h] = child[h]
    BY <1>f, <2>2, OverChild
  <2>5. CASE Ends(g)
    <3>1. /\ child' = Over(g) /\ UNCHANGED endpoint /\ marks'.restart = marks.restart
      BY <2>5 DEF Ends
    <3>2. \A h \in Gens : /\ Tasked(h)' => Tasked(h)
                          /\ Begun(h)' => Begun(h)
                          /\ Alive(h)' => Alive(h)
                          /\ child[h].doomed /\ Alive(h)' => child'[h].doomed
                          /\ (h = slot /\ Failing(h)) => Failing(h)'
                          /\ child'[h].task = "gone" => child[h].task = "gone"
      BY <2>3, <2>4, <3>1 DEF Tasked, Begun, Alive, Failing
    <3> QED
      BY <1>f, <2>1, <3>1, <3>2, HeldKept
  <2>6. ASSUME NEW ep, Begins(ep, Over(g)), slot = 0, marks'.restart = {}
        PROVE  NoStraySidecar' /\ RestartInv'
    <3>1. PICK n \in Gens : n = ep.gen + 1
      BY <2>6 DEF Begins
    <3>2. child'[n].proc = "begun" /\ \A h \in Gens : h # n => child'[h] = Over(g)[h]
      BY <2>6, <3>1 DEF Begins
    <3>3. \A h \in Gens : Alive(h)' => Alive(h) /\ child'[h].doomed = child[h].doomed
      BY <2>4, <3>2 DEF Alive
    <3> QED
      BY <1>b, <2>1, <2>3, <2>6, <3>3
  <2>7. CASE Replaces(g)
    <3>1. /\ g \in marks.restart /\ Begins(endpoint, Over(g))
          /\ marks'.restart = marks.restart \ {g}
      BY <2>7 DEF Replaces
    <3>2. marks.restart = {g} /\ slot = 0
      BY <1>f, <2>3, <3>1 DEF RestartInv
    <3> QED
      BY <2>6, <3>1, <3>2
  <2>8. CASE Retries(g)
    <3>1. PICK ep : ep = [endpoint EXCEPT !.selected = 0]
      OBVIOUS
    <3>2. /\ Begins(ep, Over(g)) /\ UNCHANGED marks
          /\ g = endpoint.gen /\ g \notin marks.restart
      BY <2>8, <3>1 DEF Retries
    <3>3. slot = 0
      BY <1>f, <2>3, <3>2, Numbers DEF RestartInv, Handled, Failing, TypeOK
    <3>4. marks.restart = {}
      <4>1. Tasked(g)
        BY <2>2 DEF Tasked
      <4> QED
        BY <1>f, <3>2, <4>1 DEF RestartInv
    <3> QED
      BY <2>6, <3>2, <3>3, <3>4
  <2> QED
    BY <2>2, <2>5, <2>7, <2>8
<1>12. ASSUME RespawnSpawns PROVE NoStraySidecar' /\ RestartInv'
  <2>1. /\ UNCHANGED <<slot, stopper>> /\ Begins(endpoint, child) /\ respawn.at = "empty"
        /\ marks'.restart = marks.restart \ {respawn.gen} /\ respawn'.at = "idle"
    BY <1>f, <1>12, RespawnSpawnsEffect DEF RespawnSpawns
  <2>2. PICK n \in Gens : n = endpoint.gen + 1
    BY <2>1 DEF Begins
  <2>3. child'[n].proc = "begun" /\ \A h \in Gens : h # n => child'[h] = child[h]
    BY <2>1, <2>2 DEF Begins
  <2>4. \A h \in Gens : Alive(h)' => Alive(h) /\ child'[h].doomed = child[h].doomed
    BY <2>3 DEF Alive
  <2>5. slot = 0 /\ marks'.restart = {}
    BY <1>f, <2>1 DEF RestartInv
  <2> QED
    BY <1>b, <2>1, <2>4, <2>5
\* What the slot holds is asked to end.
<1>k. ASSUME NEW why \in Asks, UNCHANGED <<endpoint, marks>>,
             \/ child' = Killed(child, why) /\ slot' = 0
             \/ UNCHANGED <<child, slot>>,
             \/ UNCHANGED respawn
             \/ /\ slot' = 0 /\ respawn.at # "idle"
                /\ respawn'.at = "idle" \/ respawn'.gen = respawn.gen,
             stopper'.at = stopper.at \/ (marks.restart = {} /\ respawn'.at = "idle")
      PROVE  NoStraySidecar' /\ RestartInv'
  <2>1. \A h \in Gens : /\ Tasked(h)' => Tasked(h)
                        /\ Begun(h)' => Begun(h)
                        /\ Alive(h)' => Alive(h)
                        /\ child[h].doomed => child'[h].doomed
                        /\ (h = slot /\ slot' # h) => child'[h].doomed
                        /\ (h = slot' /\ Failing(h)) => Failing(h)'
                        /\ child'[h].task = "gone" => child[h].task = "gone"
    <3>1. CASE UNCHANGED <<child, slot>>
      BY <3>1 DEF Tasked, Begun, Alive, Failing
    <3>2. CASE child' = Killed(child, why) /\ slot' = 0
      <4>1. SlotKilled(why)
        BY <1>f, <3>2, KillEffect
      <4>2. \A h \in Gens : /\ Asked(child[h], child'[h], why)
                            /\ h = slot => child'[h].doomed
                            /\ h # slot'
        BY <1>f, <4>1 DEF SlotKilled
      <4> QED
        BY <4>2 DEF Tasked, Begun, Alive, Asked, SameTask
    <3> QED
      BY <1>k, <3>1, <3>2
  <2>2. endpoint'.gen = endpoint.gen /\ slot' \in {slot, 0} /\ marks'.restart = marks.restart
    BY <1>k
  <2> QED
    BY <1>f, <1>k, <2>1, <2>2, HeldKept
<1>m. MayAsk => stopper.at = "idle" /\ marks.restart = {} /\ respawn.at = "idle"
  BY DEF MayAsk, Settled
<1>13. ASSUME RespawnKills PROVE NoStraySidecar' /\ RestartInv'
  <2>1. /\ UNCHANGED <<endpoint, marks, stopper>> /\ respawn.at = "kill"
        /\ respawn'.gen = respawn.gen /\ child' = Killed(child, "restart") /\ slot' = 0
    <3>1. respawn \in Respawns
      BY <1>f DEF TypeOK, Respawns
    <3> QED
      BY <1>13, <3>1 DEF RespawnKills, Respawns
  <2> QED
    BY <1>k, <2>1 DEF Asks
<1>14. ASSUME Restart \/ Retry \/ InstallFails PROVE NoStraySidecar' /\ RestartInv'
  <2>1. Respawn /\ UNCHANGED <<endpoint, child, slot>>
    BY <1>14 DEF Restart, Retry, InstallFails
  <2>2. ~Busy
    <3>1. Busy \in BOOLEAN
      BY DEF Busy
    <3> QED
      BY <1>n, <2>1, <3>1 DEF Respawn
  <2>3. marks.restart = {} /\ stopper'.at = "idle"
    BY <1>f, <1>m, <1>14 DEF Restart, Retry, InstallFails, RestartInv
  <2>4. /\ respawn'.at = "kill" /\ respawn'.gen = slot
        /\ marks'.restart = IF slot = 0 THEN {} ELSE {slot}
    BY <1>f, <2>1, <2>3, RespawnTypes
  <2>5. \A h \in Gens : ~Handled(h)
    BY <2>2, Quiet
  <2>6. \A h \in Gens : ~Failing(h) /\ ~Begun(h)' /\ child'[h].task # "gone"
    BY <2>1, <2>5 DEF Handled, Failing, Begun
  <2>7. NoStraySidecar'
    BY <1>f, <2>1 DEF NoStraySidecar, Alive
  <2>8. slot # 0 => slot = endpoint.gen
    BY <1>f, <2>6, Numbers DEF RestartInv, TypeOK
  <2>9. RestartInv'
    BY <2>1, <2>3, <2>4, <2>6, <2>8 DEF RestartInv
  <2> QED
    BY <2>7, <2>9
<1>15. ASSUME Quit \/ StopEnds \/ Finish \/ ApplyEvent \/ Update
              \/ \E g \in Gens : PollRound(g) \/ PollApply(g) \/ PollGivesUp(g)
       PROVE  NoStraySidecar' /\ RestartInv'
  <2>1. /\ UNCHANGED <<endpoint, marks, respawn>>
        /\ \/ child' = Killed(child, "stop") /\ slot' = 0
           \/ UNCHANGED <<child, slot>>
    BY <1>15 DEF Quit, StopEnds, Finish, ApplyEvent, Update, PollRound, PollApply, PollGivesUp
  <2>2. stopper'.at = stopper.at \/ (marks.restart = {} /\ respawn.at = "idle")
    BY <1>f, <1>m, <1>15 DEF Quit, StopEnds, Finish, ApplyEvent, Update, PollRound, PollApply,
       PollGivesUp, RestartInv
  <2> QED
    BY <1>k, <2>1, <2>2 DEF Asks
<1>16. ASSUME AskShutdown PROVE NoStraySidecar' /\ RestartInv'
  <2>1. UNCHANGED respawn /\ marks.restart = {} /\ respawn.at = "idle"
    BY <1>f, <1>16 DEF AskShutdown, RestartInv
  <2>2. CASE StopHard(stopper.purpose)
    BY <1>k, <2>1, <2>2 DEF StopHard, Asks
  <2>3. CASE ~StopHard(stopper.purpose)
    <3>1. PICK g \in Gens : g = endpoint.current
      BY <1>f, <1>16, <2>3, AskShutdownEffect
    <3>2. /\ Others(g, child, child') /\ Asked(child[g], child'[g], "stop") /\ UNCHANGED shell
      BY <1>f, <1>16, <2>3, <3>1, AskShutdownEffect
    <3>3. \A h \in Gens : h # g => child'[h] = child[h]
      BY <3>2 DEF Others
    <3>4. \A h \in Gens : /\ Tasked(h)' => Tasked(h)
                          /\ Begun(h)' => Begun(h)
                          /\ Alive(h)' => Alive(h)
                          /\ child[h].doomed => child'[h].doomed
                          /\ Failing(h) => Failing(h)'
                          /\ child'[h].task = "gone" => child[h].task = "gone"
      BY <3>2, <3>3 DEF Tasked, Begun, Alive, Failing, Asked, SameTask
    <3> QED
      BY <1>f, <2>1, <3>2, <3>4, HeldKept
  <2> QED
    BY <2>2, <2>3
<1>17. ASSUME RespawnWaits PROVE NoStraySidecar' /\ RestartInv'
  <2>1. /\ UNCHANGED <<endpoint, child, slot, marks, stopper>> /\ respawn'.at = "idle"
        /\ respawn.at = "taken"
    BY <1>17 DEF RespawnWaits, NoRespawn
  <2>2. slot' = 0
    BY <1>f, <2>1 DEF RestartInv
  <2> QED
    BY <1>k, <2>1, <2>2 DEF Asks
<1> QED
  BY <1>1, <1>4, <1>6, <1>7, <1>8, <1>9, <1>10, <1>11, <1>12, <1>13, <1>14, <1>15, <1>16, <1>17
     DEF Next

\* Where a request waits until the effects of the last one are over, and as long
\* as no handler began while another was between its locks, every sidecar that
\* lives is in the slot or about to be killed, and only the newest is exposed.
THEOREM NoSidecarIsForgotten == ASSUME ~Overlap PROVE Spec => []ShellInvariant
<1>1. Init => HeldInv
  <2>1. ASSUME Init PROVE NoStraySidecar
    BY <2>1, Numbers DEF Init, NoStraySidecar, Alive, NoChild, Gens
  <2>2. ASSUME Init PROVE RestartInv
    <3>1. /\ slot = 1 /\ endpoint.gen = 1 /\ marks.restart = {}
          /\ respawn.at = "idle" /\ stopper.at = "idle"
      BY <2>2 DEF Init, NoRespawn
    <3>2. \A g \in Gens : child[g].proc # "begun" /\ child[g].task # "gone"
      BY <2>2, Numbers DEF Init, NoChild
    <3> QED
      BY <3>1, <3>2 DEF RestartInv, Begun
  <2> QED
    BY <2>1, <2>2, InitSidecarInv DEF HeldInv
<1>2. ASSUME ~Overlap, HeldInv, [Next]_vars PROVE HeldInv'
  <2>1. SidecarInv'
    BY <1>2, NextSidecarInv DEF HeldInv
  <2>2. CASE raced'
    BY <2>1, <2>2 DEF HeldInv, NoStraySidecar, Alive
  <2>3. CASE Next /\ ~raced'
    BY <1>2, <2>1, <2>3, NextHeld DEF HeldInv
  <2>4. CASE UNCHANGED vars
    <3> USE <2>4 DEF vars, host, shell
    <3>1. NoStraySidecar' /\ raced' = raced
      BY <1>2 DEF HeldInv, NoStraySidecar, Alive, raced
    <3>2. RestartInv => RestartInv'
      BY DEF RestartInv, Begun, Tasked, Failing
    <3> QED
      BY <1>2, <2>1, <3>1, <3>2 DEF HeldInv
  <2> QED
    BY <1>2, <2>2, <2>3, <2>4
<1>3. HeldInv => ShellInvariant
  <2>1. SidecarInv => TypeOK /\ ExposedIsNewest
    BY Facts DEF ExposedInv, Shown, ExposedIsNewest
  <2> QED
    BY <2>1 DEF HeldInv, ShellInvariant
<1> QED
  BY <1>1, <1>2, <1>3, PTL DEF Spec
=============================================================================
