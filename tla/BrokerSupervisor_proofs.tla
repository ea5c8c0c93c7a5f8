----------------------- MODULE BrokerSupervisor_proofs -----------------------
(***************************************************************************)
(* For any number of generations, configurations, waiters and changes:     *)
(* requests go only to the ready generation of the running supervisor, no  *)
(* broker process is left to itself, nothing is launched after a shutdown, *)
(* and when no change is left the configuration asked for last is the one  *)
(* that runs.                                                              *)
(*                                                                         *)
(* The invariant has two parts.  SuperInv says what a supervisor in a      *)
(* given state may hold and what a generation that is stopped, or has said *)
(* certain frames, may still do.  ConfigInv adds where the configuration   *)
(* asked for last is at any moment: in the queue, in the change under way, *)
(* or in the key; and, of the broker, in a frame that is still to be read, *)
(* or in what it serves.                                                   *)
(***************************************************************************)
EXTENDS BrokerSupervisor, SequenceTheorems, TLAPS

In(x, s) == \E i \in 1 .. Len(s) : s[i] = x

Once(x, s) == \A i, k \in 1 .. Len(s) : s[i] = x /\ s[k] = x => i = k

-----------------------------------------------------------------------------
(* The inductive invariant                                                 *)

\* A supervisor, and what its states say of it.
SupOK(s) ==
  /\ s \in Supervisor
  /\ s.gen # None => s.state \in {"starting", "ready", "degraded", "stopping"}
  /\ s.gen = None => s.state \notin {"starting", "ready"}
  /\ s.stopping => s.state \in {"stopping", "disabled", "degraded"}
  /\ ~s.stopping => s.state # "stopping"
  /\ s.recent > Budget => s.stopping \/ s.state = "circuit-open"

\* A broker never says that it is ready and that it cannot serve.
FramesOK(r) ==
  /\ In("degraded", r.out) => r.proc = "dead" /\ r.phase # "ready" /\ ~In("ready", r.out)
  /\ r.proc \in {"boot", "await", "probing"} => r.phase # "ready" /\ ~In("ready", r.out)

\* Record r of generation g, under supervisor s.
GenOK(s, r, g) ==
  /\ FramesOK(r)
  /\ s.gen = g => /\ r.proc # "free" /\ r.conf \in Configs
                  /\ r.stop = IF s.stopping THEN "final" ELSE "no"
  /\ r.stop = "final" => s.stopping /\ s.state # "disabled" /\ s.gen \in {g, None}
  /\ r.stop = "fail" => s.gen = None /\ (~s.stopping => s.state = "degraded")
  /\ r.proc \notin {"free", "dead"} => s.gen = g \/ r.stop # "no"
  /\ r.proc = "free" => r.stop = "no"

GensOK(s, gs) ==
  /\ gs \in [Gens -> Generation]
  /\ \A g \in Gens : GenOK(s, gs[g], g)
  /\ \A g, h \in Gens : gs[g].stop = gs[h].stop /\ gs[g].stop \in {"fail", "final"} => g = h

\* An update that awaits its answer is the change under way.
UpdatesOK(gs, j) ==
  /\ \A g \in Gens : gs[g].updating => j.at = "update"
  /\ \A g, h \in Gens : gs[g].updating /\ gs[h].updating => g = h

Busy(j) == IF j.at = "idle" THEN 0 ELSE 1

\* What the process and its change under way say of the supervisor.
LifeOK ==
  /\ active = "none" => /\ sup.gen = None /\ ~sup.stopping /\ sup.state = "disabled"
                        /\ job.at = "idle"
  /\ active = "closed" => sup.stopping
  /\ active = "up" => key \in Configs /\ (sup.stopping => job.at = "stop")
  /\ job.at = "stop" => sup.stopping
  /\ job.at # "idle" => job.config \in Configs
  /\ Len(queue) + Busy(job) <= changes

\* UpstreamIsCurrent, of a supervisor s, upstream u, generations gs, process a.
CurrentOK(s, u, gs, a) ==
  /\ u \in Gens \cup {None}
  /\ u # None => /\ s.gen = u /\ ~s.stopping /\ a = "up"
                 /\ gs[u].phase = "ready" /\ gs[u].stop = "no"
  /\ u # None <=> s.state = "ready"

Core(s, u, gs, j, a) ==
  SupOK(s) /\ GensOK(s, gs) /\ UpdatesOK(gs, j) /\ CurrentOK(s, u, gs, a)

Waiting ==
  [Waiters -> [at : {"idle", "queue", "wait", "ready", "starting", "failed", "off"},
               behind : 0 .. MaxChanges]]

RestOK ==
  /\ active \in {"none", "up", "closed"} /\ key \in Configs \cup {None}
  /\ queue \in Seq(Configs \cup {Again})
  /\ job \in [at : {"idle", "update", "stop"}, config : Configs \cup {None}]
  /\ waiter \in Waiting
  /\ changes \in 0 .. MaxChanges /\ latest \in Configs \cup {None}

SuperInv == RestOK /\ LifeOK /\ Core(sup, upstream, gen, job, active)

-----------------------------------------------------------------------------
\* The broker was configured, and the supervisor knows or will hear it.
Configured(r) ==
  \/ r.proc \in {"probing", "serving"} \/ r.phase \in {"accepted", "ready"}
  \/ In("configured", r.out) \/ In("ready", r.out)

\* What the current generation serves, or has still to read: its configuration,
\* or that of the update c under way.
ServingOK(r, c) ==
  /\ r.proc \in {"boot", "await"} =>
       r.in \in {<<>>, <<r.conf>>} /\ ~r.updating /\ ~Configured(r)
  /\ r.phase = "spawned" => r.in = <<>> /\ ~Configured(r)
  /\ Configured(r) /\ ~r.updating => r.in = <<>> /\ r.serves = r.conf
  /\ r.updating => /\ r.phase = "ready" /\ r.serves \in {r.conf, c}
                   /\ \/ r.in = <<>>
                      \/ r.in = <<c>> /\ r.serves = r.conf
  /\ In("updated", r.out) => r.updating /\ r.serves = c /\ r.in = <<>>
  /\ Once("updated", r.out)

\* Where the configuration l asked for last is: in the queue q, followed by no
\* other, or nothing else is in the queue and it is the one in force, f.
Coming(q, f, l) ==
  \/ \E i \in 1 .. Len(q) : q[i] = l /\ \A k \in 1 .. Len(q) : k > i => q[k] = Again
  \/ (\A k \in 1 .. Len(q) : q[k] = Again) /\ f = l

InForce == IF job.at = "idle" THEN key ELSE job.config

WantedOK ==
  /\ active = "none" => queue = <<>>
  /\ active # "none" => latest \in Configs
  /\ active = "up" => Coming(queue, InForce, latest) /\ sup.config = key

\* Of a supervisor s, generations gs, the change under way j, and the process a.
ServedOK(s, gs, j, a) ==
  /\ a = "up" /\ s.gen # None => gs[s.gen].conf = s.config
  /\ s.gen # None /\ ~s.stopping => ServingOK(gs[s.gen], j.config)

ConfigOK == WantedOK /\ ServedOK(sup, gen, job, active)

ConfigInv == SuperInv /\ ConfigOK

-----------------------------------------------------------------------------
(* Sequences of frames                                                     *)
LEMMA InTail ==
  ASSUME NEW S, NEW s \in Seq(S), s # <<>>, NEW x, In(x, Tail(s))
  PROVE  In(x, s)
<1>1. PICK i \in 1 .. Len(Tail(s)) : Tail(s)[i] = x
  BY DEF In
<1>2. Len(s) \in Nat /\ Len(Tail(s)) = Len(s) - 1 /\ Tail(s)[i] = s[i + 1]
  BY <1>1
<1> QED
  BY <1>1, <1>2 DEF In

LEMMA InConcat ==
  ASSUME NEW S, NEW s \in Seq(S), NEW t \in Seq(S), NEW x
  PROVE  In(x, s \o t) <=> In(x, s) \/ In(x, t)
<1>1. Len(s) \in Nat /\ Len(t) \in Nat /\ Len(s \o t) = Len(s) + Len(t)
  OBVIOUS
<1>2. \A i \in 1 .. Len(s) + Len(t) :
        (s \o t)[i] = IF i <= Len(s) THEN s[i] ELSE t[i - Len(s)]
  OBVIOUS
<1>3. ASSUME In(x, t) PROVE In(x, s \o t)
  <2>1. PICK i \in 1 .. Len(t) : t[i] = x
    BY <1>3 DEF In
  <2>2. i + Len(s) \in 1 .. Len(s) + Len(t) /\ ~(i + Len(s) <= Len(s)) /\ i + Len(s) - Len(s) = i
    BY <1>1, <2>1
  <2> QED
    BY <1>1, <1>2, <2>1, <2>2 DEF In
<1>4. ASSUME In(x, s) PROVE In(x, s \o t)
  BY <1>1, <1>2, <1>4 DEF In
<1>5. ASSUME In(x, s \o t) PROVE In(x, s) \/ In(x, t)
  <2>1. PICK i \in 1 .. Len(s) + Len(t) : (s \o t)[i] = x
    BY <1>1, <1>5 DEF In
  <2>2. CASE i <= Len(s)
    BY <1>1, <1>2, <2>1, <2>2 DEF In
  <2>3. CASE ~(i <= Len(s))
    <3>1. i - Len(s) \in 1 .. Len(t)
      BY <1>1, <2>1, <2>3
    <3> QED
      BY <1>1, <1>2, <2>1, <2>3, <3>1 DEF In
  <2> QED
    BY <2>2, <2>3
<1> QED
  BY <1>3, <1>4, <1>5

LEMMA InEmpty == ASSUME NEW x PROVE ~In(x, <<>>)
  BY DEF In

LEMMA InOne == ASSUME NEW x, NEW y PROVE In(x, <<y>>) <=> x = y
  BY DEF In

LEMMA InTwo == ASSUME NEW x, NEW y, NEW z PROVE In(x, <<y, z>>) <=> x = y \/ x = z
<1>1. Len(<<y, z>>) = 2 /\ <<y, z>>[1] = y /\ <<y, z>>[2] = z
  OBVIOUS
<1> QED
  BY <1>1 DEF In

-----------------------------------------------------------------------------
(* Records                                                                 *)
LEMMA OffIsConfig == OffConfig \in Configs
  BY DEF Configs

LEMMA SpawnedFields ==
  ASSUME NEW c \in Configs \cup {None}
  PROVE  /\ Spawned(c) \in Generation
         /\ Spawned(c).phase = "spawned" /\ Spawned(c).conf = c /\ Spawned(c).updating = FALSE
         /\ Spawned(c).stop = "no" /\ Spawned(c).proc = "boot"
         /\ Spawned(c).out = <<>> /\ Spawned(c).in = <<>> /\ FramesOK(Spawned(c))
<1>1. /\ Spawned(c).phase = "spawned" /\ Spawned(c).conf = c /\ Spawned(c).updating = FALSE
      /\ Spawned(c).stop = "no" /\ Spawned(c).proc = "boot"
      /\ Spawned(c).out = <<>> /\ Spawned(c).in = <<>>
  BY DEF Spawned
<1>2. Spawned(c) \in Generation
  <2>1. <<>> \in Seq(Configs \cup {Stop}) /\ <<>> \in Seq(Frames)
    OBVIOUS
  <2> QED
    BY <2>1 DEF Spawned, Generation, Phases
<1> QED
  BY <1>1, <1>2, InEmpty DEF FramesOK

LEMMA ProcFields ==
  ASSUME NEW r \in Generation,
         NEW p \in {"free", "boot", "await", "probing", "serving", "leaving", "dead"}
  PROVE  LET t == [r EXCEPT !.proc = p] IN
         /\ t \in Generation /\ t.proc = p
         /\ t.phase = r.phase /\ t.conf = r.conf /\ t.updating = r.updating /\ t.stop = r.stop
         /\ t.serves = r.serves /\ t.in = r.in /\ t.out = r.out
  BY DEF Generation

LEMMA FreeFields ==
  /\ Free \in Generation
  /\ Free.phase = "spawned" /\ Free.conf = None /\ Free.updating = FALSE /\ Free.stop = "no"
  /\ Free.proc = "free" /\ Free.out = <<>> /\ Free.in = <<>> /\ FramesOK(Free)
<1>1. Spawned(None) \in Generation
  BY SpawnedFields
<1>2. /\ Free \in Generation
      /\ Free.phase = Spawned(None).phase /\ Free.conf = Spawned(None).conf
      /\ Free.updating = Spawned(None).updating /\ Free.stop = Spawned(None).stop
      /\ Free.proc = "free" /\ Free.out = Spawned(None).out /\ Free.in = Spawned(None).in
  BY <1>1, ProcFields DEF Free
<1>3. /\ Free.phase = "spawned" /\ Free.conf = None /\ Free.updating = FALSE
      /\ Free.stop = "no" /\ Free.proc = "free" /\ Free.out = <<>> /\ Free.in = <<>>
  BY <1>2, SpawnedFields
<1> QED
  BY <1>2, <1>3, InEmpty DEF FramesOK

LEMMA DismissedFields ==
  ASSUME NEW r
  PROVE  /\ Dismissed(r) \in Generation
         /\ Dismissed(r).updating = FALSE /\ Dismissed(r).stop = "fail"
         /\ Dismissed(r).proc # "free" /\ FramesOK(Dismissed(r))
<1>1. /\ Dismissed(r) \in Generation
      /\ Dismissed(r).updating = FALSE /\ Dismissed(r).stop = "fail"
      /\ Dismissed(r).proc # "free" /\ Dismissed(r).out = <<>> /\ Dismissed(r).phase = "spawned"
  BY FreeFields DEF Dismissed, Generation
<1> QED
  BY <1>1, InEmpty DEF FramesOK

LEMMA NewFields ==
  ASSUME NEW c \in Configs
  PROVE  /\ SupOK(NewSupervisor(c)) /\ NewSupervisor(c).gen = None
         /\ NewSupervisor(c).stopping = FALSE /\ NewSupervisor(c).state = "disabled"
         /\ NewSupervisor(c).config = c /\ NewSupervisor(c).recent = 0
  BY BoundsAssumption DEF NewSupervisor, SupOK, Supervisor, State

(* What scheduleRestart leaves: no generation, and a timer.                *)
LEMMA RescheduledFields ==
  ASSUME NEW s \in Supervisor, s.gen = None, ~s.stopping, s.recent <= Budget,
         NEW t \in Rescheduled(s) \cup {[s EXCEPT !.state = "unavailable"]}
  PROVE  /\ SupOK(t) /\ t.gen = None /\ ~t.stopping /\ t.config = s.config
         /\ t.state \in {"backoff", "circuit-open", "unavailable"}
<1>1. CASE t = [s EXCEPT !.state = "unavailable"]
  <2>1. /\ t \in Supervisor /\ t.gen = None /\ t.stopping = s.stopping /\ t.config = s.config
        /\ t.recent = s.recent /\ t.state = "unavailable"
    BY <1>1 DEF Supervisor, State
  <2>2. s.recent \in 0 .. Budget + 1
    BY DEF Supervisor
  <2> QED
    BY <2>1, <2>2, BoundsAssumption DEF SupOK
<1>2. CASE t \in Rescheduled(s)
  <2>1. PICK n \in 1 .. s.recent + 1 :
          t = [s EXCEPT !.recent = n, !.state = IF n > Budget THEN "circuit-open" ELSE "backoff"]
    BY <1>2 DEF Rescheduled
  <2>2. n \in 0 .. Budget + 1
    BY <2>1, BoundsAssumption DEF Supervisor
  <2>3. /\ t \in Supervisor /\ t.gen = None /\ t.stopping = s.stopping /\ t.config = s.config
        /\ t.recent = n /\ t.state = IF n > Budget THEN "circuit-open" ELSE "backoff"
    BY <2>1, <2>2 DEF Supervisor, State
  <2> QED
    BY <2>2, <2>3, BoundsAssumption DEF SupOK
<1> QED
  BY <1>1, <1>2

-----------------------------------------------------------------------------
(* Generations                                                             *)
LEMMA OneGeneration ==
  ASSUME NEW s, NEW gs, GensOK(s, gs), NEW g \in Gens, NEW r \in Generation,
         GenOK(s, r, g), r.stop = gs[g].stop \/ r.stop \notin {"fail", "final"}
  PROVE  GensOK(s, [gs EXCEPT ![g] = r])
<1> DEFINE new == [gs EXCEPT ![g] = r]
<1>1. new \in [Gens -> Generation] /\ new[g] = r /\ \A h \in Gens \ {g} : new[h] = gs[h]
  BY DEF GensOK
<1> HIDE DEF new
<1>2. ASSUME NEW h \in Gens PROVE GenOK(s, new[h], h)
  BY <1>1 DEF GensOK
<1>3. ASSUME NEW h \in Gens, NEW k \in Gens,
             new[h].stop = new[k].stop, new[h].stop \in {"fail", "final"}
      PROVE  h = k
  BY <1>1, <1>3 DEF GensOK
<1>4. GensOK(s, new)
  BY <1>1, <1>2, <1>3 DEF GensOK
<1> QED
  BY <1>4 DEF new

LEMMA OneUpdating ==
  ASSUME NEW gs \in [Gens -> Generation], NEW j, UpdatesOK(gs, j), NEW g \in Gens,
         NEW r \in Generation, r.updating => gs[g].updating
  PROVE  UpdatesOK([gs EXCEPT ![g] = r], j)
  BY DEF UpdatesOK

LEMMA OneUpstream ==
  ASSUME NEW s, NEW u, NEW gs \in [Gens -> Generation], NEW a, CurrentOK(s, u, gs, a), NEW g \in Gens,
         NEW r \in Generation, u = g => r.phase = gs[g].phase /\ r.stop = gs[g].stop
  PROVE  CurrentOK(s, u, [gs EXCEPT ![g] = r], a)
  BY DEF CurrentOK

(* A change of one generation that keeps what the supervisor knows of it.  *)
LEMMA OneCore ==
  ASSUME NEW s, NEW u, NEW gs, NEW j, NEW a, Core(s, u, gs, j, a), NEW g \in Gens,
         NEW r \in Generation, GenOK(s, r, g),
         r.stop = gs[g].stop, r.updating => gs[g].updating,
         u = g => r.phase = gs[g].phase
  PROVE  Core(s, u, [gs EXCEPT ![g] = r], j, a)
<1>1. gs \in [Gens -> Generation]
  BY DEF Core, GensOK
<1> QED
  BY <1>1, OneGeneration, OneUpdating, OneUpstream DEF Core

LEMMA OutFields ==
  ASSUME NEW r \in Generation, NEW o \in Seq(Frames)
  PROVE  LET t == [r EXCEPT !.out = o] IN
         /\ t \in Generation /\ t.out = o
         /\ t.phase = r.phase /\ t.conf = r.conf /\ t.updating = r.updating /\ t.stop = r.stop
         /\ t.serves = r.serves /\ t.in = r.in /\ t.proc = r.proc
  BY DEF Generation

LEMMA UpdatingFields ==
  ASSUME NEW r \in Generation, NEW b \in BOOLEAN
  PROVE  LET t == [r EXCEPT !.updating = b] IN
         /\ t \in Generation /\ t.updating = b
         /\ t.phase = r.phase /\ t.conf = r.conf /\ t.out = r.out /\ t.stop = r.stop
         /\ t.serves = r.serves /\ t.in = r.in /\ t.proc = r.proc
  BY DEF Generation

LEMMA PhaseFields ==
  ASSUME NEW r \in Generation, NEW p \in Phases
  PROVE  LET t == [r EXCEPT !.phase = p] IN
         /\ t \in Generation /\ t.phase = p
         /\ t.updating = r.updating /\ t.conf = r.conf /\ t.out = r.out /\ t.stop = r.stop
         /\ t.serves = r.serves /\ t.in = r.in /\ t.proc = r.proc
  BY DEF Generation

LEMMA InFields ==
  ASSUME NEW r \in Generation, NEW q \in Seq(Configs \cup {Stop})
  PROVE  LET t == [r EXCEPT !.in = q] IN
         /\ t \in Generation /\ t.in = q
         /\ t.phase = r.phase /\ t.conf = r.conf /\ t.updating = r.updating /\ t.stop = r.stop
         /\ t.serves = r.serves /\ t.out = r.out /\ t.proc = r.proc
  BY DEF Generation

LEMMA ConfFields ==
  ASSUME NEW r \in Generation, NEW c \in Configs
  PROVE  LET t == [r EXCEPT !.conf = c] IN
         /\ t \in Generation /\ t.conf = c
         /\ t.phase = r.phase /\ t.in = r.in /\ t.updating = r.updating /\ t.stop = r.stop
         /\ t.serves = r.serves /\ t.out = r.out /\ t.proc = r.proc
  BY DEF Generation

LEMMA ServesFields ==
  ASSUME NEW r \in Generation, NEW c \in Configs
  PROVE  LET t == [r EXCEPT !.serves = c] IN
         /\ t \in Generation /\ t.serves = c
         /\ t.phase = r.phase /\ t.in = r.in /\ t.updating = r.updating /\ t.stop = r.stop
         /\ t.conf = r.conf /\ t.out = r.out /\ t.proc = r.proc
  BY DEF Generation

LEMMA FinalFields ==
  ASSUME NEW r \in Generation
  PROVE  LET t == [r EXCEPT !.stop = "final"] IN
         /\ t \in Generation /\ t.stop = "final"
         /\ t.phase = r.phase /\ t.in = r.in /\ t.updating = r.updating /\ t.conf = r.conf
         /\ t.serves = r.serves /\ t.out = r.out /\ t.proc = r.proc
  BY DEF Generation

LEMMA RecordTypes ==
  ASSUME NEW r \in Generation
  PROVE  /\ r.phase \in Phases /\ r.conf \in Configs \cup {None} /\ r.updating \in BOOLEAN
         /\ r.stop \in {"no", "fail", "final", "orphan"} /\ r.reaped \in BOOLEAN
         /\ r.proc \in {"free", "boot", "await", "probing", "serving", "leaving", "hung", "dead"}
         /\ r.serves \in Configs \cup {None}
         /\ r.in \in Seq(Configs \cup {Stop}) /\ r.out \in Seq(Frames)
  BY DEF Generation

-----------------------------------------------------------------------------
(* A frame is taken from the channel                                       *)
Took(gs, g) == [gs EXCEPT ![g] = [gs[g] EXCEPT !.out = Tail(gs[g].out)]]

LEMMA HeardIsTook ==
  ASSUME gen \in [Gens -> Generation], NEW g \in Gens
  PROVE  Heard(g) = Took(gen, g)
  BY DEF Heard, Took

LEMMA TookCore ==
  ASSUME NEW s, NEW u, NEW gs, NEW j, NEW a, Core(s, u, gs, j, a), NEW g \in Gens,
         gs[g].out # <<>>
  PROVE  Core(s, u, Took(gs, g), j, a)
<1> DEFINE r == [gs[g] EXCEPT !.out = Tail(gs[g].out)]
<1>0. gs[g] \in Generation
  BY DEF Core, GensOK
<1>1. gs[g] \in Generation /\ gs[g].out \in Seq(Frames) /\ Tail(gs[g].out) \in Seq(Frames)
  <2>1. gs[g].out \in Seq(Frames)
    BY <1>0, RecordTypes
  <2> QED
    BY <1>0, <2>1, HeadTailProperties
<1>2. /\ r \in Generation /\ r.out = Tail(gs[g].out)
      /\ r.phase = gs[g].phase /\ r.conf = gs[g].conf /\ r.updating = gs[g].updating
      /\ r.stop = gs[g].stop /\ r.proc = gs[g].proc
  BY <1>1, OutFields
<1> HIDE DEF r
<1>3. \A x : In(x, r.out) => In(x, gs[g].out)
  BY <1>1, <1>2, InTail
<1>4. GenOK(s, gs[g], g)
  BY DEF Core, GensOK
<1>5. GenOK(s, r, g)
  BY <1>2, <1>3, <1>4 DEF GenOK, FramesOK
<1> QED
  BY <1>2, <1>5, OneCore DEF Took, r

-----------------------------------------------------------------------------
(* A generation fails                                                      *)
LEMMA FailCore ==
  ASSUME NEW gs, Core(sup, upstream, gs, job, active), NEW g \in Gens, FailGeneration(g, gs)
  PROVE  /\ Core(sup', upstream', gen', job, active)
         /\ sup'.stopping = sup.stopping /\ sup'.config = sup.config
         /\ sup'.gen = None \/ (sup' = sup /\ gen' = gs)
<1>1. CASE sup.gen # g \/ sup.stopping
  BY <1>1 DEF FailGeneration
<1>2. CASE sup.gen = g /\ ~sup.stopping
  <2> DEFINE r == Dismissed(gs[g])
  <2>1. /\ sup' = [sup EXCEPT !.gen = None, !.state = "degraded"] /\ upstream' = None
        /\ gen' = [gs EXCEPT ![g] = r]
    BY <1>2 DEF FailGeneration
  <2>2. sup \in Supervisor /\ gs \in [Gens -> Generation] /\ g # None
    BY NoneAssumption DEF Core, SupOK, GensOK
  <2>3. /\ sup' \in Supervisor /\ sup'.gen = None /\ sup'.state = "degraded"
        /\ sup'.stopping = sup.stopping /\ sup'.config = sup.config /\ sup'.recent = sup.recent
    BY <2>1, <2>2 DEF Supervisor, State
  <2>4. SupOK(sup')
    BY <1>2, <2>2, <2>3 DEF Core, SupOK
  <2>5. /\ r \in Generation /\ r.updating = FALSE /\ r.stop = "fail" /\ r.proc # "free"
        /\ FramesOK(r)
    BY DismissedFields
  <2> HIDE DEF r
  <2>6. \A h \in Gens : GenOK(sup, gs[h], h)
    BY DEF Core, GensOK
  <2>7. \A h \in Gens : gs[h].stop \notin {"fail", "final"}
    BY <1>2, <2>2, <2>6 DEF GenOK
  <2>8. gen' \in [Gens -> Generation] /\ gen'[g] = r /\ \A h \in Gens \ {g} : gen'[h] = gs[h]
    BY <2>1, <2>2, <2>5
  <2>9. ASSUME NEW h \in Gens PROVE GenOK(sup', gen'[h], h)
    <3>1. CASE h = g
      BY <1>2, <2>2, <2>3, <2>5, <2>8, <3>1 DEF GenOK
    <3>2. CASE h # g
      <4>1. GenOK(sup, gs[h], h) /\ gen'[h] = gs[h] /\ gs[h].stop \notin {"fail", "final"}
        BY <2>6, <2>7, <2>8, <3>2
      <4>2. h # None
        BY NoneAssumption
      <4> QED
        BY <1>2, <2>3, <3>2, <4>1, <4>2 DEF GenOK
    <3> QED
      BY <3>1, <3>2
  <2>10. GensOK(sup', gen')
    BY <2>5, <2>7, <2>8, <2>9 DEF GensOK
  <2>11. UpdatesOK(gen', job)
    BY <2>5, <2>8 DEF Core, UpdatesOK
  <2>12. CurrentOK(sup', upstream', gen', active)
    BY <2>1, <2>3 DEF CurrentOK
  <2> QED
    BY <2>3, <2>4, <2>10, <2>11, <2>12 DEF Core
<1> QED
  BY <1>1, <1>2

-----------------------------------------------------------------------------
(* The supervisor is told to stop                                          *)
LEMMA StopCore ==
  ASSUME NEW gs, NEW j, NEW j2, NEW a, NEW a2, Core(sup, upstream, gs, j, a), UpdatesOK(gs, j2),
         ~sup.stopping, PerformStop(gs)
  PROVE  /\ Core(sup', upstream', gen', j2, a2)
         /\ sup'.stopping /\ sup'.config = sup.config /\ sup'.gen = sup.gen
         /\ \A g \in Gens : gen'[g].conf = gs[g].conf
<1>1. sup \in Supervisor /\ gs \in [Gens -> Generation]
  BY DEF Core, SupOK, GensOK
<1>2. /\ sup' = [sup EXCEPT !.stopping = TRUE,
                            !.state = IF sup.gen = None THEN "disabled" ELSE "stopping"]
      /\ upstream' = None
  BY DEF PerformStop
<1>3. /\ sup' \in Supervisor /\ sup'.stopping = TRUE /\ sup'.gen = sup.gen
      /\ sup'.config = sup.config /\ sup'.recent = sup.recent
      /\ sup'.state = IF sup.gen = None THEN "disabled" ELSE "stopping"
  BY <1>1, <1>2 DEF Supervisor, State
<1>4. SupOK(sup')
  BY <1>3 DEF SupOK
<1> DEFINE Last(g) == [[gs[g] EXCEPT !.stop = "final"] EXCEPT !.in = Append(gs[g].in, Stop)]
<1>5. \A g \in Gens : gen'[g] = IF g = sup.gen THEN Last(g) ELSE gs[g]
  <2>1. gen' = [g \in Gens |-> IF g = sup.gen
                  THEN [gs[g] EXCEPT !.stop = "final", !.in = Append(@, Stop)] ELSE gs[g]]
    BY DEF PerformStop
  <2> QED
    BY <2>1
<1>6. ASSUME NEW g \in Gens
      PROVE  /\ Last(g) \in Generation /\ Last(g).stop = "final"
             /\ Last(g).phase = gs[g].phase /\ Last(g).updating = gs[g].updating
             /\ Last(g).conf = gs[g].conf /\ Last(g).out = gs[g].out /\ Last(g).proc = gs[g].proc
  <2>1. gs[g] \in Generation /\ gs[g].in \in Seq(Configs \cup {Stop})
    BY <1>1, RecordTypes
  <2>2. Append(gs[g].in, Stop) \in Seq(Configs \cup {Stop})
    BY <2>1
  <2> DEFINE t == [gs[g] EXCEPT !.stop = "final"]
  <2>3. /\ t \in Generation /\ t.stop = "final" /\ t.phase = gs[g].phase
        /\ t.updating = gs[g].updating /\ t.conf = gs[g].conf /\ t.out = gs[g].out
        /\ t.proc = gs[g].proc
    BY <2>1, FinalFields
  <2> HIDE DEF t
  <2>4. Last(g) = [t EXCEPT !.in = Append(gs[g].in, Stop)]
    BY DEF t
  <2> DEFINE q == Append(gs[g].in, Stop)
             l == [t EXCEPT !.in = q]
  <2>5. q \in Seq(Configs \cup {Stop}) /\ t \in Generation
    BY <2>2, <2>3
  <2> HIDE DEF q
  <2>6. /\ l \in Generation /\ l.stop = t.stop /\ l.phase = t.phase
        /\ l.updating = t.updating /\ l.conf = t.conf /\ l.out = t.out
        /\ l.proc = t.proc
    BY <2>5, InFields
  <2> HIDE DEF l
  <2>7. Last(g) = l
    BY <2>4 DEF l, q
  <2> QED
    BY <2>3, <2>6, <2>7
<1> HIDE DEF Last
<1>7. gen' \in [Gens -> Generation]
  <2>1. gen' = [g \in Gens |-> gen'[g]]
    BY DEF PerformStop
  <2> QED
    BY <1>1, <1>5, <1>6, <2>1
<1>8. \A g \in Gens : GenOK(sup, gs[g], g)
  BY DEF Core, GensOK
<1>9. \A g \in Gens : gs[g].stop # "final"
  BY <1>8 DEF GenOK
<1>10. ASSUME NEW g \in Gens PROVE GenOK(sup', gen'[g], g)
  <2>1. CASE g = sup.gen
    BY <1>3, <1>5, <1>6, <1>8, <2>1, NoneAssumption DEF GenOK, FramesOK
  <2>2. CASE g # sup.gen
    BY <1>3, <1>5, <1>8, <1>9, <2>2 DEF GenOK
  <2> QED
    BY <2>1, <2>2
<1>11. ASSUME NEW g \in Gens, NEW h \in Gens, gen'[g].stop = gen'[h].stop,
              gen'[g].stop \in {"fail", "final"}
       PROVE  g = h
  BY <1>5, <1>6, <1>9, <1>11 DEF Core, GensOK
<1>12. GensOK(sup', gen')
  BY <1>7, <1>10, <1>11 DEF GensOK
<1>13. UpdatesOK(gen', j2)
  BY <1>5, <1>6 DEF UpdatesOK
<1>14. CurrentOK(sup', upstream', gen', a2)
  BY <1>2, <1>3 DEF CurrentOK
<1> QED
  BY <1>3, <1>4, <1>5, <1>6, <1>12, <1>13, <1>14 DEF Core

-----------------------------------------------------------------------------
(* A launch, by a supervisor s that has no generation                      *)
LEMMA LaunchCore ==
  ASSUME NEW s, NEW gs, NEW ws, NEW j, NEW a,
         SupOK(s), s.gen = None, ~s.stopping, s.recent <= Budget,
         GensOK(s, gs), UpdatesOK(gs, j), \A g \in Gens : gs[g].stop # "fail",
         BeginLaunch(s, gs, ws)
  PROVE  /\ Core(sup', upstream', gen', j, a)
         /\ ~sup'.stopping /\ sup'.config = s.config
         /\ upstream' = None
         /\ \/ sup'.gen = None
            \/ sup'.gen \in Gens /\ gen'[sup'.gen] = Spawned(s.config)
<1>1. s \in Supervisor /\ s.config \in Configs /\ gs \in [Gens -> Generation]
  BY DEF SupOK, GensOK, Supervisor
<1>2. upstream' = None
  BY DEF BeginLaunch
<1>3. \A g \in Gens : GenOK(s, gs[g], g) /\ gs[g].stop \notin {"fail", "final"}
  BY DEF GensOK, GenOK
<1>4. CASE gen' = gs /\ sup' \in Rescheduled(s) \cup {[s EXCEPT !.state = "unavailable"]}
  <2>1. /\ SupOK(sup') /\ sup'.gen = None /\ ~sup'.stopping /\ sup'.config = s.config
        /\ sup'.state \in {"backoff", "circuit-open", "unavailable"}
    BY <1>1, <1>4, RescheduledFields
  <2>2. ASSUME NEW g \in Gens PROVE GenOK(sup', gen'[g], g)
    BY <1>3, <1>4, <2>1, NoneAssumption DEF GenOK
  <2>3. GensOK(sup', gen')
    BY <1>1, <1>4, <2>2 DEF GensOK
  <2>4. CurrentOK(sup', upstream', gen', a)
    BY <1>2, <2>1 DEF CurrentOK
  <2> QED
    BY <1>2, <1>4, <2>1, <2>3, <2>4 DEF Core
<1>5. ASSUME NEW g \in Gens, gs[g] = Free, gen' = [gs EXCEPT ![g] = Spawned(s.config)],
             sup' = [s EXCEPT !.gen = g, !.state = "starting"]
      PROVE  /\ Core(sup', upstream', gen', j, a)
             /\ ~sup'.stopping /\ sup'.config = s.config /\ upstream' = None
             /\ sup'.gen \in Gens /\ gen'[sup'.gen] = Spawned(s.config)
  <2>1. /\ sup' \in Supervisor /\ sup'.gen = g /\ sup'.state = "starting"
        /\ sup'.stopping = s.stopping /\ sup'.config = s.config /\ sup'.recent = s.recent
    BY <1>1, <1>5 DEF Supervisor, State
  <2>2. SupOK(sup')
    BY <1>1, <2>1, NoneAssumption, BoundsAssumption DEF SupOK, Supervisor
  <2> DEFINE r == Spawned(s.config)
  <2>3. /\ r \in Generation /\ r.conf \in Configs /\ r.updating = FALSE
        /\ r.stop = "no" /\ r.proc = "boot" /\ FramesOK(r)
    BY <1>1, SpawnedFields
  <2> HIDE DEF r
  <2>4. gen' \in [Gens -> Generation] /\ gen'[g] = r /\ \A h \in Gens \ {g} : gen'[h] = gs[h]
    BY <1>1, <1>5, <2>3 DEF r
  <2>5. ASSUME NEW h \in Gens PROVE GenOK(sup', gen'[h], h)
    BY <1>3, <2>1, <2>3, <2>4, NoneAssumption DEF GenOK
  <2>6. GensOK(sup', gen')
    BY <1>3, <2>3, <2>4, <2>5 DEF GensOK
  <2>7. UpdatesOK(gen', j)
    BY <2>3, <2>4 DEF UpdatesOK
  <2>8. CurrentOK(sup', upstream', gen', a)
    BY <1>2, <2>1 DEF CurrentOK
  <2> QED
    BY <1>2, <2>1, <2>2, <2>4, <2>6, <2>7, <2>8 DEF Core, r
<1> QED
  BY <1>4, <1>5 DEF BeginLaunch

(* startBrokerSupervisor, once the one before has nothing left but what it *)
(* gave up on.                                                             *)
LEMMA OrphanedGens ==
  ASSUME GensOK(sup, gen), sup.gen = None, sup.stopping => sup.state = "disabled",
         NEW s, s.gen = None, ~s.stopping
  PROVE  /\ GensOK(s, Orphaned) /\ \A g \in Gens : Orphaned[g].stop \notin {"fail", "final"}
         /\ \A g \in Gens : Orphaned[g].updating = gen[g].updating
<1>1. gen \in [Gens -> Generation] /\ \A g \in Gens : GenOK(sup, gen[g], g)
  BY DEF GensOK
<1> DEFINE r(g) == [gen[g] EXCEPT !.stop = IF @ = "fail" THEN "orphan" ELSE @]
<1>2. Orphaned = [g \in Gens |-> r(g)]
  BY DEF Orphaned
<1>3. ASSUME NEW g \in Gens
      PROVE  /\ r(g) \in Generation /\ r(g).stop = IF gen[g].stop = "fail" THEN "orphan" ELSE gen[g].stop
             /\ r(g).proc = gen[g].proc /\ r(g).phase = gen[g].phase /\ r(g).out = gen[g].out
             /\ r(g).updating = gen[g].updating
  BY <1>1 DEF Generation
<1> HIDE DEF r
<1>4. \A g \in Gens : gen[g].stop # "final"
  BY <1>1 DEF GenOK
<1>5. ASSUME NEW g \in Gens PROVE GenOK(s, r(g), g)
  BY <1>1, <1>3, <1>4, NoneAssumption DEF GenOK, FramesOK
<1>6. Orphaned \in [Gens -> Generation] /\ \A g \in Gens : Orphaned[g] = r(g)
  BY <1>2, <1>3
<1> HIDE DEF Orphaned
<1> QED
  BY <1>3, <1>4, <1>5, <1>6 DEF GensOK

LEMMA StartCore ==
  ASSUME NEW c \in Configs, NEW ws, NEW j, NEW a,
         GensOK(sup, gen), UpdatesOK(gen, j), sup.gen = None,
         sup.stopping => sup.state = "disabled", Start(c, ws)
  PROVE  /\ Core(sup', upstream', gen', j, a)
         /\ ~sup'.stopping /\ sup'.config = c /\ key' = c /\ upstream' = None
         /\ \/ sup'.gen = None
            \/ sup'.gen \in Gens /\ gen'[sup'.gen] = Spawned(c)
<1> DEFINE s == NewSupervisor(c)
<1>1. /\ SupOK(s) /\ s.gen = None /\ s.stopping = FALSE /\ s.state = "disabled"
      /\ s.config = c /\ s.recent = 0
  BY NewFields
<1> HIDE DEF s
<1>2. /\ GensOK(s, Orphaned) /\ \A g \in Gens : Orphaned[g].stop \notin {"fail", "final"}
      /\ \A g \in Gens : Orphaned[g].updating = gen[g].updating
  BY <1>1, OrphanedGens
<1>3. UpdatesOK(Orphaned, j)
  BY <1>2 DEF UpdatesOK
<1>4. CASE c.shape = Off
  <2>1. sup' = s /\ upstream' = None /\ gen' = Orphaned /\ key' = c
    BY <1>4 DEF Start, s
  <2>2. CurrentOK(sup', upstream', gen', a)
    BY <1>1, <2>1 DEF CurrentOK
  <2> QED
    BY <1>1, <1>2, <1>3, <2>1, <2>2 DEF Core
<1>5. CASE c.shape # Off
  <2>1. key' = c /\ BeginLaunch(s, Orphaned, ws)
    BY <1>5 DEF Start, s
  <2>2. s.recent <= Budget
    BY <1>1, BoundsAssumption
  <2> QED
    BY <1>1, <1>2, <1>3, <2>1, <2>2, LaunchCore
<1> QED
  BY <1>4, <1>5

-----------------------------------------------------------------------------
(* SuperInv holds at first                                                 *)
ExitOK == exit \in {"no", "clean", "cut"}

LEMMA SuperInvSuffices == SuperInv /\ ExitOK => SupervisorInvariant
<1> SUFFICES ASSUME SuperInv, ExitOK PROVE SupervisorInvariant
  OBVIOUS
<1>1. TypeOK
  BY DEF ExitOK, SuperInv, Core, SupOK, GensOK, CurrentOK, RestOK, Waiting, TypeOK
<1>2. UpstreamIsCurrent
  BY DEF SuperInv, Core, CurrentOK, UpstreamIsCurrent
<1>3. NoStrayBroker
  BY DEF SuperInv, Core, GensOK, GenOK, NoStrayBroker, Alive
<1> QED
  BY <1>1, <1>2, <1>3 DEF SupervisorInvariant

LEMMA InitSuperInv == Init => SuperInv
<1> SUFFICES ASSUME Init PROVE SuperInv
  OBVIOUS
<1>1. /\ SupOK(sup) /\ sup.gen = None /\ sup.stopping = FALSE /\ sup.state = "disabled"
  BY OffIsConfig, NewFields DEF Init
<1>2. gen \in [Gens -> Generation] /\ \A g \in Gens : gen[g] = Free
  BY FreeFields DEF Init
<1>3. ASSUME NEW g \in Gens PROVE GenOK(sup, gen[g], g)
  BY <1>1, <1>2, FreeFields, NoneAssumption DEF GenOK
<1>4. GensOK(sup, gen) /\ UpdatesOK(gen, job)
  BY <1>2, <1>3, FreeFields DEF GensOK, UpdatesOK
<1>5. CurrentOK(sup, upstream, gen, active)
  BY <1>1 DEF CurrentOK, Init
<1>6. RestOK
  BY BoundsAssumption DEF RestOK, Waiting, Init
<1>7. LifeOK
  BY <1>1 DEF LifeOK, Init, Busy
<1> QED
  BY <1>1, <1>4, <1>5, <1>6, <1>7 DEF SuperInv, Core

-----------------------------------------------------------------------------
(* What the steps of the supervisor do to those who wait                   *)
LEMMA ToldWaiting ==
  ASSUME NEW ws \in Waiting, NEW state \in State
  PROVE  Told(ws, state) \in Waiting
<1>1. Readiness(state) \in {"ready", "off", "failed", "wait"}
  BY DEF Readiness, State
<1>2. ASSUME NEW w \in Waiters
      PROVE  [ws[w] EXCEPT !.at = Readiness(state)] \in
               [at : {"idle", "queue", "wait", "ready", "starting", "failed", "off"},
                behind : 0 .. MaxChanges]
  BY <1>1 DEF Waiting
<1> QED
  BY <1>2 DEF Told, Waiting

LEMMA AdvancedWaiting ==
  ASSUME NEW ws \in Waiting
  PROVE  Advanced(ws) \in Waiting
<1>1. ASSUME NEW w \in Waiters, ws[w].behind > 0
      PROVE  [ws[w] EXCEPT !.behind = @ - 1] \in
               [at : {"idle", "queue", "wait", "ready", "starting", "failed", "off"},
                behind : 0 .. MaxChanges]
  BY <1>1, BoundsAssumption DEF Waiting
<1> QED
  BY <1>1 DEF Advanced, Waiting

LEMMA StateType ==
  ASSUME NEW s, SupOK(s)
  PROVE  s.state \in State /\ s \in Supervisor /\ s.config \in Configs /\ s.gen \in Gens \cup {None}
         /\ s.recent \in 0 .. Budget + 1 /\ s.stopping \in BOOLEAN
  BY DEF SupOK, Supervisor

(* What the invariant says, in the form the steps use it.                  *)
LEMMA SuperFacts ==
  ASSUME SuperInv
  PROVE  /\ RestOK /\ LifeOK /\ Core(sup, upstream, gen, job, active)
         /\ SupOK(sup) /\ GensOK(sup, gen) /\ UpdatesOK(gen, job)
         /\ CurrentOK(sup, upstream, gen, active)
         /\ sup \in Supervisor /\ gen \in [Gens -> Generation]
         /\ queue \in Seq(Configs \cup {Again}) /\ Len(queue) \in Nat
         /\ job \in [at : {"idle", "update", "stop"}, config : Configs \cup {None}]
         /\ waiter \in Waiting /\ changes \in 0 .. MaxChanges
<1>1. RestOK /\ LifeOK /\ Core(sup, upstream, gen, job, active)
  BY DEF SuperInv
<1>2. /\ SupOK(sup) /\ GensOK(sup, gen) /\ UpdatesOK(gen, job)
      /\ CurrentOK(sup, upstream, gen, active)
  BY <1>1 DEF Core
<1>3. sup \in Supervisor /\ gen \in [Gens -> Generation]
  BY <1>2 DEF SupOK, GensOK
<1>4. /\ queue \in Seq(Configs \cup {Again})
      /\ job \in [at : {"idle", "update", "stop"}, config : Configs \cup {None}]
      /\ waiter \in Waiting /\ changes \in 0 .. MaxChanges
  BY <1>1 DEF RestOK
<1>5. Len(queue) \in Nat
  BY <1>4
<1> QED
  BY <1>1, <1>2, <1>3, <1>4, <1>5

-----------------------------------------------------------------------------
(* Changes                                                                 *)
LEMMA StartWaiting ==
  ASSUME NEW c, NEW ws \in Waiting, SupOK(sup'), Start(c, ws)
  PROVE  waiter' \in Waiting
<1>1. sup'.state \in State
  BY StateType
<1>2. waiter' = Told(ws, "disabled") \/ waiter' = Told(ws, sup'.state)
  BY DEF Start, BeginLaunch
<1>3. "disabled" \in State
  BY DEF State
<1> QED
  BY <1>1, <1>2, <1>3, ToldWaiting

LEMMA StopWaiting ==
  ASSUME waiter \in Waiting, NEW gs, PerformStop(gs)
  PROVE  waiter' \in Waiting
<1>1. "disabled" \in State
  BY DEF State
<1> QED
  BY <1>1, ToldWaiting DEF PerformStop

LEMMA StartBrokerSuper ==
  ASSUME SuperInv, NEW c \in Configs, StartBroker(c)
  PROVE  SuperInv'
<1>1. active = "none" /\ active' = "up" /\ latest' = c /\ Start(c, waiter)
      /\ queue' = queue /\ job' = job /\ changes' = changes
  BY DEF StartBroker, work
<1>2. sup.gen = None /\ ~sup.stopping
  BY <1>1, SuperFacts DEF LifeOK
<1>3. /\ Core(sup', upstream', gen', job, "up")
      /\ ~sup'.stopping /\ sup'.config = c /\ key' = c
  BY <1>1, <1>2, SuperFacts, StartCore
<1>4. RestOK'
  BY <1>1, <1>3, SuperFacts, StartWaiting DEF RestOK, Core
<1>5. LifeOK'
  BY <1>1, <1>2, <1>3, SuperFacts DEF LifeOK, Busy
<1> QED
  BY <1>1, <1>3, <1>4, <1>5 DEF SuperInv

LEMMA RequestedSuper ==
  ASSUME SuperInv, NEW change \in Configs \cup {Again}, Requested(change),
         latest' \in Configs \cup {None}
  PROVE  SuperInv'
<1>1. /\ changes < MaxChanges /\ changes' = changes + 1 /\ queue' = Append(queue, change)
      /\ UNCHANGED <<active, key, sup, upstream, gen, job, waiter>>
  BY DEF Requested, process
<1>2. queue' \in Seq(Configs \cup {Again}) /\ Len(queue') = Len(queue) + 1
  BY <1>1, SuperFacts
<1>3. RestOK'
  BY <1>1, <1>2, SuperFacts, BoundsAssumption DEF RestOK
<1>4. LifeOK'
  BY <1>1, <1>2, SuperFacts DEF LifeOK, Busy
<1> QED
  BY <1>1, <1>3, <1>4, SuperFacts DEF SuperInv

LEMMA StopBrokerSuper ==
  ASSUME SuperInv, stopBrokerSupervisor
  PROVE  SuperInv'
<1>1. /\ active = "up" /\ active' = "closed" /\ key' = None
      /\ UNCHANGED <<queue, job, changes, latest>>
  BY DEF stopBrokerSupervisor, work, asked
<1>2. CASE sup.stopping
  <2>1. UNCHANGED <<sup, upstream, gen, waiter>>
    BY <1>2 DEF stopBrokerSupervisor
  <2>2. CurrentOK(sup, upstream, gen, "closed")
    BY <1>2, SuperFacts DEF CurrentOK
  <2>3. Core(sup', upstream', gen', job', active')
    BY <1>1, <2>1, <2>2, SuperFacts DEF Core
  <2>4. RestOK' /\ LifeOK'
    BY <1>1, <1>2, <2>1, SuperFacts DEF RestOK, LifeOK, Busy
  <2> QED
    BY <2>3, <2>4 DEF SuperInv
<1>3. CASE ~sup.stopping
  <2>1. PerformStop(gen)
    BY <1>3 DEF stopBrokerSupervisor
  <2>2. Core(sup', upstream', gen', job, "closed") /\ sup'.stopping
    BY <1>3, <2>1, SuperFacts, StopCore
  <2>3. waiter' \in Waiting
    BY <2>1, SuperFacts, StopWaiting
  <2>4. RestOK' /\ LifeOK'
    BY <1>1, <2>2, <2>3, SuperFacts DEF RestOK, LifeOK, Busy
  <2> QED
    BY <1>1, <2>2, <2>4 DEF SuperInv
<1> QED
  BY <1>2, <1>3

(* The change under way falls back to stopping the supervisor.             *)
LEMMA FallBackCore ==
  ASSUME SuperInv, job.at = "update", NEW gs, Core(sup, upstream, gs, job, active),
         \A g \in Gens : ~gs[g].updating, FallBackToStop(gs)
  PROVE  /\ Core(sup', upstream', gen', job', active')
         /\ sup'.stopping /\ waiter' \in Waiting /\ active' = active /\ key' = key
         /\ job' = [job EXCEPT !.at = "stop"] /\ job'.at = "stop" /\ job'.config = job.config
         /\ sup'.config = sup.config /\ sup'.gen = sup.gen
         /\ \A g \in Gens : gen'[g].conf = gs[g].conf
<1>1. job' = [job EXCEPT !.at = "stop"] /\ active' = active /\ key' = key
  BY DEF FallBackToStop, process
<1>2. job'.at = "stop" /\ job'.config = job.config
  BY <1>1, SuperFacts
<1>3. UpdatesOK(gs, job')
  BY DEF UpdatesOK
<1>4. CASE sup.stopping
  BY <1>1, <1>2, <1>3, <1>4, SuperFacts DEF FallBackToStop, Core
<1>5. CASE ~sup.stopping
  <2>1. PerformStop(gs)
    BY <1>5 DEF FallBackToStop
  <2> QED
    BY <1>1, <1>2, <1>3, <1>5, <2>1, SuperFacts, StopCore, StopWaiting
<1> QED
  BY <1>4, <1>5

(* No update awaits its answer any more.                                   *)
Quiet(gs) == [g \in Gens |-> [gs[g] EXCEPT !.updating = FALSE]]

LEMMA QuietCore ==
  ASSUME NEW s, NEW u, NEW gs, NEW j, NEW a, Core(s, u, gs, j, a)
  PROVE  /\ Core(s, u, Quiet(gs), j, a)
         /\ \A g \in Gens : ~Quiet(gs)[g].updating /\ Quiet(gs)[g].conf = gs[g].conf
<1>1. gs \in [Gens -> Generation] /\ \A g \in Gens : GenOK(s, gs[g], g)
  BY DEF Core, GensOK
<1> DEFINE r(g) == [gs[g] EXCEPT !.updating = FALSE]
<1>2. ASSUME NEW g \in Gens
      PROVE  /\ r(g) \in Generation /\ r(g).updating = FALSE
             /\ r(g).phase = gs[g].phase /\ r(g).conf = gs[g].conf /\ r(g).out = gs[g].out
             /\ r(g).stop = gs[g].stop /\ r(g).proc = gs[g].proc
  BY <1>1, UpdatingFields
<1> HIDE DEF r
<1>3. Quiet(gs) \in [Gens -> Generation] /\ \A g \in Gens : Quiet(gs)[g] = r(g)
  BY <1>2 DEF Quiet, r
<1>4. ASSUME NEW g \in Gens PROVE GenOK(s, r(g), g)
  BY <1>1, <1>2 DEF GenOK, FramesOK
<1>5. GensOK(s, Quiet(gs))
  <2>1. \A g \in Gens : GenOK(s, Quiet(gs)[g], g)
    BY <1>3, <1>4
  <2>2. \A g \in Gens : Quiet(gs)[g].stop = gs[g].stop
    BY <1>2, <1>3
  <2>3. ASSUME NEW g \in Gens, NEW h \in Gens, Quiet(gs)[g].stop = Quiet(gs)[h].stop,
               Quiet(gs)[g].stop \in {"fail", "final"}
        PROVE  g = h
    BY <2>2, <2>3 DEF Core, GensOK
  <2> HIDE DEF Quiet
  <2> QED
    BY <1>3, <2>1, <2>3 DEF GensOK
<1>6. UpdatesOK(Quiet(gs), j)
  BY <1>2, <1>3 DEF UpdatesOK
<1>7. CurrentOK(s, u, Quiet(gs), a)
  BY <1>2, <1>3 DEF Core, CurrentOK
<1> QED
  BY <1>2, <1>3, <1>5, <1>6, <1>7 DEF Core

(* A step after which the change under way waits for the stop.             *)
LEMMA FallBackSuper ==
  ASSUME SuperInv, job.at = "update", NEW gs, Core(sup, upstream, gs, job, active),
         \A g \in Gens : ~gs[g].updating, FallBackToStop(gs), UNCHANGED <<queue, asked>>
  PROVE  SuperInv'
<1>1. /\ Core(sup', upstream', gen', job', active')
      /\ sup'.stopping /\ waiter' \in Waiting /\ active' = active /\ key' = key
      /\ job' = [job EXCEPT !.at = "stop"] /\ job'.at = "stop" /\ job'.config = job.config
  BY FallBackCore
<1>2. queue' = queue /\ changes' = changes /\ latest' = latest
  BY DEF asked
<1>3. RestOK'
  BY <1>1, <1>2, SuperFacts DEF RestOK
<1>4. active # "none"
  BY SuperFacts DEF LifeOK
<1>5. LifeOK'
  BY <1>1, <1>2, <1>4, SuperFacts DEF LifeOK, Busy
<1> QED
  BY <1>1, <1>3, <1>5 DEF SuperInv

LEMMA UpdateTimesOutSuper ==
  ASSUME SuperInv, UpdateTimesOut
  PROVE  SuperInv'
<1>1. job.at = "update" /\ FallBackToStop(Quiet(gen)) /\ UNCHANGED <<queue, asked>>
  BY DEF UpdateTimesOut, Quiet
<1> QED
  BY <1>1, SuperFacts, QuietCore, FallBackSuper

LEMMA ChangeBeginsSuper ==
  ASSUME SuperInv, ChangeBegins
  PROVE  SuperInv'
<1> DEFINE c == Head(queue)
<1>1. /\ job.at = "idle" /\ queue # <<>> /\ queue' = Tail(queue)
      /\ active' = active /\ key' = key /\ changes' = changes /\ latest' = latest
  BY DEF ChangeBegins, process, asked
<1>2. /\ c \in Configs \cup {Again} /\ queue' \in Seq(Configs \cup {Again})
      /\ Len(queue') = Len(queue) - 1
  BY <1>1, SuperFacts, HeadTailProperties
<1>3. Len(queue') + 1 <= changes
  BY <1>1, <1>2, SuperFacts DEF LifeOK, Busy
<1>4. \A g \in Gens : ~gen[g].updating
  BY <1>1, SuperFacts DEF UpdatesOK
<1>5. CASE ChangeEnds /\ UNCHANGED <<sup, upstream, gen>>
  <2>1. job' = [at |-> "idle", config |-> None] /\ waiter' = Advanced(waiter)
    BY <1>5 DEF ChangeEnds
  <2>2. UpdatesOK(gen, job')
    BY <1>4 DEF UpdatesOK
  <2>3. Core(sup', upstream', gen', job', active')
    BY <1>1, <1>5, <2>2, SuperFacts DEF Core
  <2>4. RestOK'
    BY <1>1, <1>2, <2>1, SuperFacts, AdvancedWaiting DEF RestOK
  <2>5. LifeOK'
    BY <1>1, <1>2, <1>3, <1>5, <2>1, SuperFacts DEF LifeOK, Busy
  <2> QED
    BY <2>3, <2>4, <2>5 DEF SuperInv
<1>6. CASE /\ active = "up" /\ c \notin {key, Again} /\ CanUpdate(c)
           /\ job' = [at |-> "update", config |-> c]
           /\ gen' = [gen EXCEPT ![sup.gen].updating = TRUE, ![sup.gen].in = Append(@, c)]
           /\ UNCHANGED <<sup, upstream, waiter>>
  <2>1. c \in Configs
    BY <1>2, <1>6
  <2> DEFINE g == sup.gen
             t == [gen[g] EXCEPT !.updating = TRUE]
             q == Append(gen[g].in, c)
             r == [t EXCEPT !.in = q]
  <2>2. g \in Gens
    BY <1>6, SuperFacts DEF CanUpdate, Supervisor
  <2>3. gen[g] \in Generation /\ gen[g].in \in Seq(Configs \cup {Stop})
    BY <2>2, SuperFacts, RecordTypes
  <2>4. q \in Seq(Configs \cup {Stop})
    BY <2>1, <2>3
  <2>5. /\ t \in Generation /\ t.phase = gen[g].phase /\ t.conf = gen[g].conf
        /\ t.out = gen[g].out /\ t.stop = gen[g].stop /\ t.proc = gen[g].proc
    BY <2>3, UpdatingFields
  <2>6. gen' = [gen EXCEPT ![g] = r]
    BY <1>6, <2>2, SuperFacts
  <2> HIDE DEF t, q
  <2>7. /\ r \in Generation /\ r.phase = gen[g].phase /\ r.conf = gen[g].conf
        /\ r.out = gen[g].out /\ r.stop = gen[g].stop /\ r.proc = gen[g].proc
    BY <2>4, <2>5, InFields
  <2> HIDE DEF r, g
  <2>8. GenOK(sup, gen[g], g)
    BY <2>2, SuperFacts DEF GensOK
  <2>9. GenOK(sup, r, g)
    BY <2>7, <2>8 DEF GenOK, FramesOK
  <2>10. GensOK(sup', gen')
    <3>1. GensOK(sup, [gen EXCEPT ![g] = r])
      BY <2>2, <2>7, <2>9, SuperFacts, OneGeneration
    <3> QED
      BY <1>6, <2>6, <3>1
  <2>11. \A h \in Gens : gen'[h].updating => h = g
    BY <1>4, <2>2, <2>6, SuperFacts
  <2>12. UpdatesOK(gen', job')
    BY <1>6, <2>11 DEF UpdatesOK
  <2>13. CurrentOK(sup', upstream', gen', active')
    <3>1. CurrentOK(sup, upstream, [gen EXCEPT ![g] = r], active)
      BY <2>2, <2>7, SuperFacts, OneUpstream
    <3> QED
      BY <1>1, <1>6, <2>6, <3>1
  <2>14. RestOK'
    BY <1>1, <1>2, <1>6, <2>1, SuperFacts DEF RestOK
  <2>15. LifeOK'
    BY <1>1, <1>2, <1>3, <1>6, <2>1, SuperFacts DEF LifeOK, Busy
  <2> QED
    BY <1>6, <2>10, <2>12, <2>13, <2>14, <2>15, SuperFacts DEF SuperInv, Core
<1>7. CASE /\ active = "up" /\ c # key
           /\ job' = [at |-> "stop", config |-> IF c = Again THEN key ELSE c]
           /\ PerformStop(gen)
  <2>1. job'.at = "stop" /\ job'.config \in Configs
    BY <1>2, <1>7, SuperFacts DEF LifeOK
  <2>2. ~sup.stopping
    BY <1>1, <1>7, SuperFacts DEF LifeOK
  <2>3. UpdatesOK(gen, job')
    BY <1>4 DEF UpdatesOK
  <2>4. Core(sup', upstream', gen', job', active') /\ sup'.stopping
    BY <1>7, <2>2, <2>3, SuperFacts, StopCore
  <2>5. RestOK'
    BY <1>1, <1>2, <1>7, <2>1, SuperFacts, StopWaiting DEF RestOK
  <2>6. LifeOK'
    BY <1>1, <1>2, <1>3, <1>7, <2>1, <2>4, SuperFacts DEF LifeOK, Busy
  <2> QED
    BY <2>4, <2>5, <2>6 DEF SuperInv
<1> QED
  BY <1>5, <1>6, <1>7 DEF ChangeBegins

LEMMA ChangeGoesOnSuper ==
  ASSUME SuperInv, ChangeGoesOn
  PROVE  SuperInv'
<1>1. /\ job.at = "stop" /\ sup.stopping /\ sup.state = "disabled"
      /\ job' = [at |-> "idle", config |-> None]
      /\ UNCHANGED <<active, queue, changes, latest>>
  BY DEF ChangeGoesOn, Stopped, asked
<1>2. sup.gen = None /\ job.config \in Configs
  BY <1>1, SuperFacts DEF SupOK, LifeOK
<1>3. UpdatesOK(gen, job')
  BY <1>1, SuperFacts DEF UpdatesOK
<1>4. Advanced(waiter) \in Waiting
  BY SuperFacts, AdvancedWaiting
<1>5. Len(queue) + 1 <= changes
  BY <1>1, SuperFacts DEF LifeOK, Busy
<1>6. CASE active = "up"
  <2>1. Start(job.config, Advanced(waiter))
    BY <1>6 DEF ChangeGoesOn
  <2>2. /\ Core(sup', upstream', gen', job', "up")
        /\ ~sup'.stopping /\ sup'.config = job.config /\ key' = job.config
    BY <1>1, <1>2, <1>3, <2>1, SuperFacts, StartCore
  <2>3. waiter' \in Waiting
    BY <1>4, <2>1, <2>2, StartWaiting DEF Core
  <2>4. RestOK'
    BY <1>1, <1>2, <2>2, <2>3, SuperFacts DEF RestOK
  <2>5. LifeOK'
    BY <1>1, <1>2, <1>5, <1>6, <2>2, SuperFacts DEF LifeOK, Busy
  <2> QED
    BY <1>1, <1>6, <2>2, <2>4, <2>5 DEF SuperInv
<1>7. CASE active # "up"
  <2>1. waiter' = Advanced(waiter) /\ UNCHANGED <<key, sup, upstream, gen>>
    BY <1>7 DEF ChangeGoesOn
  <2>2. Core(sup', upstream', gen', job', active')
    BY <1>1, <1>3, <2>1, SuperFacts DEF Core
  <2>3. RestOK'
    BY <1>1, <1>4, <2>1, SuperFacts DEF RestOK
  <2>4. LifeOK'
    BY <1>1, <1>5, <1>7, <2>1, SuperFacts DEF LifeOK, Busy
  <2> QED
    BY <2>2, <2>3, <2>4 DEF SuperInv
<1> QED
  BY <1>6, <1>7

-----------------------------------------------------------------------------
(* Steps of the supervisor that leave the changes alone                    *)
LEMMA SameLife ==
  ASSUME SuperInv, UNCHANGED <<process, work, asked>>, waiter' \in Waiting,
         Core(sup', upstream', gen', job, active), sup'.stopping = sup.stopping,
         active = "none" => sup'.gen = None /\ sup'.state = "disabled"
  PROVE  SuperInv'
<1>1. UNCHANGED <<active, key, queue, job, changes, latest>>
  BY DEF process, work, asked
<1>2. RestOK'
  BY <1>1, SuperFacts DEF RestOK
<1>3. LifeOK'
  BY <1>1, SuperFacts DEF LifeOK, Busy
<1> QED
  BY <1>1, <1>2, <1>3 DEF SuperInv

LEMMA FailsSuper ==
  ASSUME SuperInv, NEW g \in Gens, Fails(g)
  PROVE  SuperInv'
<1>1. FailGeneration(g, gen) /\ waiter' = waiter /\ UNCHANGED <<process, work, asked>>
  BY DEF Fails, StartupTimesOut, HeartbeatLapses, ChannelBreaks
<1>2. sup.gen = g
  BY DEF Fails, StartupTimesOut, HeartbeatLapses, ChannelBreaks
<1>3. Core(sup', upstream', gen', job, active) /\ sup'.stopping = sup.stopping
  BY <1>1, SuperFacts, FailCore
<1>4. active # "none"
  BY <1>2, SuperFacts, NoneAssumption DEF LifeOK
<1> QED
  BY <1>1, <1>3, <1>4, SuperFacts, SameLife

LEMMA KilledFields ==
  ASSUME gen \in [Gens -> Generation], NEW g \in Gens
  PROVE  /\ Killed(g) \in [Gens -> Generation]
         /\ Killed(g)[g].stop = "no" /\ Killed(g)[g].proc \in {"free", "dead"}
         /\ ~Killed(g)[g].updating /\ FramesOK(Killed(g)[g])
         /\ \A h \in Gens \ {g} : Killed(g)[h] = gen[h]
<1> DEFINE d == [Free EXCEPT !.proc = "dead"]
<1>1. d \in Generation /\ d.stop = "no" /\ d.proc = "dead" /\ ~d.updating /\ d.out = <<>>
  BY FreeFields, ProcFields
<1>2. FramesOK(d)
  BY <1>1, InEmpty DEF FramesOK
<1>3. Killed(g) = [gen EXCEPT ![g] = IF gen[g].reaped THEN Free ELSE d]
  BY DEF Killed
<1> HIDE DEF d
<1> QED
  BY <1>1, <1>2, <1>3, FreeFields

LEMMA StopEndsSuper ==
  ASSUME SuperInv, NEW g \in Gens, StopEnds(g)
  PROVE  SuperInv'
<1> DEFINE r == Killed(g)[g]
<1>1. /\ gen[g].stop # "no" /\ gen' = Killed(g) /\ upstream' = upstream
      /\ waiter' = (IF sup' = sup THEN waiter ELSE Told(waiter, sup'.state))
      /\ UNCHANGED <<process, work, asked>>
  BY DEF StopEnds
<1>2. /\ gen' \in [Gens -> Generation] /\ gen'[g] = r /\ r \in Generation
      /\ r.stop = "no" /\ r.proc \in {"free", "dead"} /\ ~r.updating /\ FramesOK(r)
      /\ \A h \in Gens \ {g} : gen'[h] = gen[h]
  BY <1>1, KilledFields, SuperFacts
<1> HIDE DEF r
<1>3. /\ \A h \in Gens : GenOK(sup, gen[h], h) /\ h # None
      /\ \A h \in Gens : gen[h].stop = gen[g].stop /\ gen[g].stop \in {"fail", "final"} => h = g
  BY SuperFacts, NoneAssumption DEF GensOK
<1>4. UpdatesOK(gen', job)
  BY <1>2, SuperFacts DEF UpdatesOK
<1>5. ASSUME SupOK(sup'), \A h \in Gens : GenOK(sup', gen'[h], h),
             CurrentOK(sup', upstream', gen', active),
             sup'.stopping = sup.stopping,
             active = "none" => sup'.gen = None /\ sup'.state = "disabled"
      PROVE  SuperInv'
  <2>1. GensOK(sup', gen')
    BY <1>2, <1>5, SuperFacts DEF GensOK
  <2>2. waiter' \in Waiting
    BY <1>1, <1>5, SuperFacts, ToldWaiting, StateType
  <2> QED
    BY <1>1, <1>4, <1>5, <2>1, <2>2, SameLife DEF Core
<1>6. CASE gen[g].stop = "final" /\ sup' = [sup EXCEPT !.gen = None, !.state = "disabled"]
  <2>1. sup.stopping /\ sup.gen \in {g, None}
    BY <1>3, <1>6 DEF GenOK
  <2>2. /\ sup' \in Supervisor /\ sup'.gen = None /\ sup'.state = "disabled"
        /\ sup'.stopping = sup.stopping /\ sup'.recent = sup.recent
    BY <1>6, SuperFacts DEF Supervisor, State
  <2>3. SupOK(sup')
    BY <2>1, <2>2 DEF SupOK
  <2>4. ASSUME NEW h \in Gens PROVE GenOK(sup', gen'[h], h)
    <3>1. CASE h = g
      BY <1>2, <1>3, <2>2, <3>1 DEF GenOK
    <3>2. CASE h # g
      <4>1. gen'[h] = gen[h] /\ gen[h].stop # "final" /\ sup.gen # h
        BY <1>2, <1>3, <1>6, <2>1, <3>2
      <4> QED
        BY <1>3, <2>1, <2>2, <4>1 DEF GenOK
    <3> QED
      BY <3>1, <3>2
  <2>5. CurrentOK(sup', upstream', gen', active)
    BY <1>1, <2>1, <2>2, SuperFacts DEF CurrentOK
  <2>6. active # "none"
    BY <2>1, SuperFacts DEF LifeOK
  <2> QED
    BY <1>5, <2>2, <2>3, <2>4, <2>5, <2>6
<1>7. CASE gen[g].stop = "fail" /\ ~sup.stopping /\ sup' \in Rescheduled(sup)
  <2>1. sup.gen = None /\ sup.state = "degraded"
    BY <1>3, <1>7 DEF GenOK
  <2>2. sup.recent <= Budget
    BY <1>7, <2>1, SuperFacts, StateType, BoundsAssumption DEF SupOK
  <2>3. /\ SupOK(sup') /\ sup'.gen = None /\ ~sup'.stopping
        /\ sup'.state \in {"backoff", "circuit-open", "unavailable"}
    BY <1>7, <2>1, <2>2, SuperFacts, RescheduledFields
  <2>4. ASSUME NEW h \in Gens PROVE GenOK(sup', gen'[h], h)
    <3>1. CASE h = g
      BY <1>2, <1>3, <2>3, <3>1 DEF GenOK
    <3>2. CASE h # g
      <4>1. gen'[h] = gen[h] /\ gen[h].stop \notin {"fail", "final"}
        BY <1>2, <1>3, <1>7, <3>2 DEF GenOK
      <4> QED
        BY <1>3, <2>1, <2>3, <4>1 DEF GenOK
    <3> QED
      BY <3>1, <3>2
  <2>5. CurrentOK(sup', upstream', gen', active)
    BY <1>1, <1>3, <2>1, <2>3, SuperFacts DEF CurrentOK
  <2>6. active # "none"
    BY <2>1, SuperFacts DEF LifeOK
  <2> QED
    BY <1>5, <1>7, <2>3, <2>4, <2>5, <2>6, SuperFacts, StateType
<1>8. CASE sup' = sup /\ (gen[g].stop = "orphan" \/ (gen[g].stop = "fail" /\ sup.stopping))
  <2>1. sup.gen # g
    BY <1>3, <1>8 DEF GenOK
  <2>2. ASSUME NEW h \in Gens PROVE GenOK(sup', gen'[h], h)
    BY <1>2, <1>3, <1>8, <2>1 DEF GenOK
  <2>3. CurrentOK(sup', upstream', gen', active)
    BY <1>1, <1>2, <1>8, <2>1, SuperFacts DEF CurrentOK
  <2> QED
    BY <1>5, <1>8, <2>2, <2>3, SuperFacts DEF LifeOK
<1> QED
  BY <1>6, <1>7, <1>8 DEF StopEnds

LEMMA ExitSeenSuper ==
  ASSUME SuperInv, NEW g \in Gens, ExitSeen(g)
  PROVE  SuperInv'
<1> DEFINE r == IF gen[g].stop = "no" THEN Free
                ELSE [[gen[g] EXCEPT !.reaped = TRUE] EXCEPT !.out = <<>>]
<1>1. /\ gen[g].proc = "dead" /\ gen' = [gen EXCEPT ![g] = r]
      /\ UNCHANGED <<process, work, asked>>
  BY SuperFacts DEF ExitSeen
<1>2. /\ r \in Generation /\ r.proc \in {"free", "dead"} /\ r.stop = gen[g].stop
      /\ (r.updating => gen[g].updating) /\ FramesOK(r) /\ (r.proc = "free" => r.stop = "no")
  <2>1. CASE gen[g].stop = "no"
    BY <2>1, FreeFields
  <2>2. CASE gen[g].stop # "no"
    <3> DEFINE t == [gen[g] EXCEPT !.reaped = TRUE]
    <3>1. t \in Generation /\ t.proc = "dead" /\ t.stop = gen[g].stop /\ t.updating = gen[g].updating
      BY <1>1, SuperFacts DEF Generation
    <3> HIDE DEF t
    <3>2. <<>> \in Seq(Frames)
      OBVIOUS
    <3> DEFINE l == [t EXCEPT !.out = <<>>]
    <3>3. /\ l \in Generation /\ l.proc = t.proc /\ l.stop = t.stop /\ l.updating = t.updating
          /\ l.out = <<>>
      BY <3>1, <3>2, OutFields
    <3>4. r = l
      BY <2>2 DEF t
    <3> HIDE DEF l, r
    <3>5. /\ r \in Generation /\ r.proc = t.proc /\ r.stop = t.stop /\ r.updating = t.updating
          /\ r.out = <<>>
      BY <3>3, <3>4
    <3> QED
      BY <1>1, <3>1, <3>5, InEmpty DEF FramesOK
  <2> QED
    BY <2>1, <2>2
<1> HIDE DEF r
<1>3. \A h \in Gens : GenOK(sup, gen[h], h) /\ h # None
  BY SuperFacts, NoneAssumption DEF GensOK
<1>4. gen' \in [Gens -> Generation] /\ gen'[g] = r /\ \A h \in Gens \ {g} : gen'[h] = gen[h]
  BY <1>1, <1>2, SuperFacts
<1>5. UpdatesOK(gen', job)
  BY <1>1, <1>2, SuperFacts, OneUpdating
<1>6. CASE sup.gen # g
  <2>1. UNCHANGED <<sup, upstream, waiter>>
    BY <1>6 DEF ExitSeen
  <2>2. GenOK(sup, r, g)
    BY <1>2, <1>3, <1>6 DEF GenOK
  <2>3. GensOK(sup, gen')
    BY <1>1, <1>2, <2>2, SuperFacts, OneGeneration
  <2>4. CurrentOK(sup, upstream, gen', active)
    BY <1>4, <1>6, SuperFacts DEF CurrentOK
  <2>5. Core(sup', upstream', gen', job, active)
    BY <1>5, <2>1, <2>3, <2>4, SuperFacts DEF Core
  <2> QED
    BY <1>1, <2>1, <2>5, SuperFacts, SameLife DEF LifeOK
<1>7. CASE sup.gen = g
  <2> DEFINE gone == [sup EXCEPT !.gen = None]
  <2>0. active # "none"
    BY <1>3, <1>7, SuperFacts DEF LifeOK
  <2>1. /\ gone \in Supervisor /\ gone.gen = None /\ gone.state = sup.state
        /\ gone.stopping = sup.stopping /\ gone.recent = sup.recent
    BY SuperFacts DEF Supervisor
  <2>2. /\ upstream' = None
        /\ IF sup.stopping THEN sup' = gone /\ waiter' = waiter
           ELSE /\ sup' \in Rescheduled(gone) \cup {[gone EXCEPT !.state = "unavailable"]}
                /\ waiter' = Told(waiter, sup'.state)
    BY <1>7 DEF ExitSeen
  <2> HIDE DEF gone
  <2>3. gen[g].stop = IF sup.stopping THEN "final" ELSE "no"
    BY <1>3, <1>7 DEF GenOK
  <2>4. CASE sup.stopping
    <3>1. SupOK(gone)
      BY <1>3, <1>7, <2>1, <2>4, SuperFacts DEF SupOK
    <3>2. ASSUME NEW h \in Gens PROVE GenOK(sup', gen'[h], h)
      <4>1. CASE h = g
        BY <1>2, <1>3, <1>4, <1>7, <2>1, <2>2, <2>3, <2>4, <4>1 DEF GenOK
      <4>2. CASE h # g
        BY <1>3, <1>4, <1>7, <2>1, <2>2, <2>4, <4>2 DEF GenOK
      <4> QED
        BY <4>1, <4>2
    <3>3. GensOK(sup', gen')
      BY <1>2, <1>4, <3>2, SuperFacts DEF GensOK
    <3>4. CurrentOK(sup', upstream', gen', active)
      BY <2>1, <2>2, <2>4, SuperFacts DEF CurrentOK, SupOK
    <3>5. Core(sup', upstream', gen', job, active)
      BY <1>5, <2>2, <2>4, <3>1, <3>3, <3>4 DEF Core
    <3> QED
      BY <1>1, <2>0, <2>1, <2>2, <2>4, <3>5, SuperFacts, SameLife
  <2>5. CASE ~sup.stopping
    <3>1. sup.recent <= Budget
      BY <1>3, <1>7, <2>5, SuperFacts, StateType, BoundsAssumption DEF SupOK
    <3>2. /\ SupOK(sup') /\ sup'.gen = None /\ ~sup'.stopping
          /\ sup'.state \in {"backoff", "circuit-open", "unavailable"}
      BY <2>1, <2>2, <2>5, <3>1, RescheduledFields
    <3>3. ASSUME NEW h \in Gens PROVE GenOK(sup', gen'[h], h)
      <4>1. CASE h = g
        BY <1>2, <1>3, <1>4, <2>3, <2>5, <3>2, <4>1 DEF GenOK
      <4>2. CASE h # g
        BY <1>3, <1>4, <1>7, <2>5, <3>2, <4>2 DEF GenOK
      <4> QED
        BY <4>1, <4>2
    <3>4. GensOK(sup', gen')
      BY <1>2, <1>4, <3>3, SuperFacts DEF GensOK
    <3>5. CurrentOK(sup', upstream', gen', active)
      BY <2>2, <3>2 DEF CurrentOK
    <3>6. Core(sup', upstream', gen', job, active)
      BY <1>5, <3>2, <3>4, <3>5 DEF Core
    <3>7. waiter' \in Waiting
      BY <2>2, <2>5, <3>2, SuperFacts, ToldWaiting, StateType
    <3> QED
      BY <1>1, <2>0, <2>5, <3>2, <3>6, <3>7, SuperFacts, StateType, SameLife
  <2> QED
    BY <2>4, <2>5
<1> QED
  BY <1>6, <1>7

LEMMA RestartTimerSuper ==
  ASSUME SuperInv, RestartTimerFires
  PROVE  SuperInv'
<1> DEFINE s == IF sup.state = "circuit-open" THEN [sup EXCEPT !.recent = 0] ELSE sup
<1>1. /\ sup.state \in {"backoff", "circuit-open"} /\ BeginLaunch(s, gen, waiter)
      /\ UNCHANGED <<process, work, asked>>
  BY DEF RestartTimerFires
<1>2. sup.gen = None /\ ~sup.stopping
  BY <1>1, SuperFacts DEF SupOK
<1>3. /\ s \in Supervisor /\ s.gen = None /\ s.stopping = sup.stopping /\ s.state = sup.state
      /\ s.config = sup.config
      /\ s.recent = (IF sup.state = "circuit-open" THEN 0 ELSE sup.recent)
  BY <1>2, SuperFacts, BoundsAssumption DEF Supervisor
<1> HIDE DEF s
<1>4. SupOK(s) /\ s.recent <= Budget
  BY <1>1, <1>2, <1>3, SuperFacts, StateType, BoundsAssumption DEF SupOK
<1>5. \A h \in Gens : GenOK(sup, gen[h], h)
  BY SuperFacts DEF GensOK
<1>6. /\ \A h \in Gens : GenOK(s, gen[h], h) /\ gen[h].stop # "fail"
      /\ GensOK(s, gen)
  <2>1. \A h \in Gens : gen[h].stop # "fail"
    BY <1>1, <1>2, <1>5 DEF GenOK
  <2>2. \A h \in Gens : GenOK(s, gen[h], h)
    BY <1>2, <1>3, <1>5 DEF GenOK
  <2> QED
    BY <2>1, <2>2, SuperFacts DEF GensOK
<1>7. Core(sup', upstream', gen', job, active) /\ ~sup'.stopping
  BY <1>1, <1>2, <1>3, <1>4, <1>6, SuperFacts, LaunchCore
<1>8. waiter' \in Waiting
  BY <1>1, <1>7, SuperFacts, ToldWaiting, StateType DEF BeginLaunch, Core
<1>9. active # "none"
  BY <1>1, SuperFacts DEF LifeOK
<1>10. sup'.stopping = sup.stopping
  BY <1>2, <1>7, SuperFacts, StateType DEF Core
<1> QED
  BY <1>1, <1>7, <1>8, <1>9, <1>10, SameLife

LEMMA StableRuntimeSuper ==
  ASSUME SuperInv, StableRuntime
  PROVE  SuperInv'
<1>1. /\ sup.gen # None /\ ~sup.stopping /\ sup' = [sup EXCEPT !.recent = 0]
      /\ UNCHANGED <<process, upstream, gen, work, waiter, asked>>
  BY DEF StableRuntime
<1>2. /\ sup' \in Supervisor /\ sup'.gen = sup.gen /\ sup'.stopping = sup.stopping
      /\ sup'.state = sup.state /\ sup'.recent = 0
  BY <1>1, SuperFacts, BoundsAssumption DEF Supervisor
<1>3. SupOK(sup')
  BY <1>2, SuperFacts, BoundsAssumption DEF SupOK
<1>4. \A h \in Gens : GenOK(sup', gen[h], h)
  BY <1>2, SuperFacts DEF GensOK, GenOK
<1>5. GensOK(sup', gen')
  BY <1>1, <1>4, SuperFacts DEF GensOK
<1>6. CurrentOK(sup', upstream', gen', active)
  BY <1>1, <1>2, SuperFacts DEF CurrentOK
<1>7. Core(sup', upstream', gen', job, active)
  BY <1>1, <1>3, <1>5, <1>6, SuperFacts DEF Core
<1>8. active # "none"
  BY <1>1, SuperFacts DEF LifeOK
<1> QED
  BY <1>1, <1>2, <1>7, <1>8, SuperFacts, SameLife

LEMMA WaitsSuper ==
  ASSUME SuperInv, NEW w \in Waiters, WaitBegins(w) \/ WaitStep(w)
  PROVE  SuperInv'
<1>1. UNCHANGED <<process, sup, upstream, gen, work, asked>>
  BY DEF WaitBegins, WaitStep, WaitSeesSupervisor, WaitTimesOut
<1>2. Core(sup', upstream', gen', job, active)
  BY <1>1, SuperFacts
<1>3. waiter' \in Waiting
  <2>1. CASE WaitBegins(w)
    <3>1. Len(queue) + (IF job.at = "idle" THEN 0 ELSE 1) \in 0 .. MaxChanges
      BY SuperFacts, BoundsAssumption DEF LifeOK, Busy
    <3> QED
      BY <2>1, <3>1, SuperFacts DEF WaitBegins, Waiting
  <2>2. CASE WaitSeesSupervisor(w)
    <3>1. (IF active = "up" THEN Readiness(sup.state) ELSE "off") \in {"ready", "off", "failed", "wait"}
      BY DEF Readiness
    <3> QED
      BY <2>2, <3>1, SuperFacts DEF WaitSeesSupervisor, Waiting
  <2>3. CASE WaitTimesOut(w)
    BY <2>3, SuperFacts DEF WaitTimesOut, Waiting
  <2> QED
    BY <2>1, <2>2, <2>3 DEF WaitStep
<1>4. active = "none" => sup'.gen = None /\ sup'.state = "disabled"
  BY <1>1, SuperFacts DEF LifeOK
<1> QED
  BY <1>1, <1>2, <1>3, <1>4, SameLife

-----------------------------------------------------------------------------
(* Frames                                                                  *)
LEMMA FrameFacts ==
  ASSUME SuperInv, NEW g \in Gens, sup.gen = g, gen[g].out # <<>>
  PROVE  LET r == Took(gen, g)[g] IN
         /\ Heard(g) = Took(gen, g) /\ Core(sup, upstream, Took(gen, g), job, active)
         /\ Took(gen, g) \in [Gens -> Generation] /\ r \in Generation
         /\ r.phase = gen[g].phase /\ r.conf = gen[g].conf /\ r.updating = gen[g].updating
         /\ r.stop = gen[g].stop /\ r.serves = gen[g].serves /\ r.in = gen[g].in
         /\ r.proc = gen[g].proc /\ r.out = Tail(gen[g].out)
         /\ \A h \in Gens \ {g} : Took(gen, g)[h] = gen[h]
         /\ In(Head(gen[g].out), gen[g].out)
         /\ \A x : In(x, r.out) => In(x, gen[g].out)
         /\ active # "none" /\ gen[g].conf \in Configs
<1>1. gen[g] \in Generation /\ GenOK(sup, gen[g], g) /\ g # None
  BY SuperFacts, NoneAssumption DEF GensOK
<1>2. gen[g].out \in Seq(Frames)
  BY <1>1, RecordTypes
<1>3. Tail(gen[g].out) \in Seq(Frames)
  BY <1>2, HeadTailProperties
<1> DEFINE r == [gen[g] EXCEPT !.out = Tail(gen[g].out)]
<1>4. /\ r \in Generation /\ r.out = Tail(gen[g].out)
      /\ r.phase = gen[g].phase /\ r.conf = gen[g].conf /\ r.updating = gen[g].updating
      /\ r.stop = gen[g].stop /\ r.serves = gen[g].serves /\ r.in = gen[g].in
      /\ r.proc = gen[g].proc
  BY <1>1, <1>3, OutFields
<1>5. Took(gen, g)[g] = r /\ \A h \in Gens \ {g} : Took(gen, g)[h] = gen[h]
  BY SuperFacts DEF Took
<1> HIDE DEF r
<1>6. Core(sup, upstream, Took(gen, g), job, active) /\ Heard(g) = Took(gen, g)
  BY SuperFacts, TookCore, HeardIsTook
<1>7. Took(gen, g) \in [Gens -> Generation]
  BY <1>6 DEF Core, GensOK
<1>8. In(Head(gen[g].out), gen[g].out)
  <2>1. Len(gen[g].out) \in Nat /\ Len(gen[g].out) > 0 /\ Head(gen[g].out) = gen[g].out[1]
    BY <1>2
  <2> QED
    BY <2>1 DEF In
<1>9. \A x : In(x, r.out) => In(x, gen[g].out)
  BY <1>2, <1>4, InTail
<1>10. active # "none" /\ gen[g].conf \in Configs
  BY <1>1, SuperFacts DEF LifeOK, GenOK
<1> QED
  BY <1>4, <1>5, <1>6, <1>7, <1>8, <1>9, <1>10

LEMMA FailedFrame ==
  ASSUME SuperInv, NEW g \in Gens, sup.gen = g, gen[g].out # <<>>,
         FailGeneration(g, Heard(g)), UNCHANGED <<process, work, waiter, asked>>
  PROVE  SuperInv'
<1>1. Core(sup, upstream, Heard(g), job, active) /\ active # "none"
  BY FrameFacts
<1>2. Core(sup', upstream', gen', job, active) /\ sup'.stopping = sup.stopping
  BY <1>1, FailCore
<1> QED
  BY <1>1, <1>2, SuperFacts, SameLife

LEMMA OpensFields ==
  /\ DOMAIN Opens = {"hello", "configured", "ready"}
  /\ \A f \in DOMAIN Opens : /\ Opens[f].from \in {"spawned", "greeted", "accepted"}
                             /\ Opens[f].to \in Phases
                             /\ Opens[f].to = "ready" <=> f = "ready"
  /\ Opens["hello"].from = "spawned" /\ Opens["hello"].to = "greeted"
  /\ Opens["configured"].from = "greeted" /\ Opens["configured"].to = "accepted"
  /\ Opens["ready"].from = "accepted" /\ Opens["ready"].to = "ready"
  BY DEF Opens, Phases

(* The record of a generation whose handshake goes on.                     *)
Greeted(r, frame) ==
  LET t == [r EXCEPT !.phase = Opens[frame].to]
  IN  IF frame = "hello" THEN [t EXCEPT !.in = Append(@, r.conf)] ELSE t

LEMMA GreetedFields ==
  ASSUME NEW r \in Generation, NEW frame \in DOMAIN Opens, r.conf \in Configs
  PROVE  LET t == Greeted(r, frame) IN
         /\ t \in Generation /\ t.phase = Opens[frame].to
         /\ t.conf = r.conf /\ t.updating = r.updating /\ t.stop = r.stop
         /\ t.serves = r.serves /\ t.out = r.out /\ t.proc = r.proc
         /\ t.in = IF frame = "hello" THEN Append(r.in, r.conf) ELSE r.in
<1> DEFINE p == Opens[frame].to
           t == [r EXCEPT !.phase = p]
           q == Append(r.in, r.conf)
           l == [t EXCEPT !.in = q]
<1>1. p \in Phases
  BY OpensFields
<1> HIDE DEF p
<1>2. /\ t \in Generation /\ t.phase = p /\ t.updating = r.updating /\ t.conf = r.conf
      /\ t.out = r.out /\ t.stop = r.stop /\ t.serves = r.serves /\ t.in = r.in /\ t.proc = r.proc
  BY <1>1, PhaseFields
<1>3. r.in \in Seq(Configs \cup {Stop})
  BY RecordTypes
<1>4. q \in Seq(Configs \cup {Stop})
  BY <1>3
<1> HIDE DEF t, q
<1>5. /\ l \in Generation /\ l.in = q
      /\ l.phase = t.phase /\ l.conf = t.conf /\ l.updating = t.updating /\ l.stop = t.stop
      /\ l.serves = t.serves /\ l.out = t.out /\ l.proc = t.proc
  BY <1>2, <1>4, InFields
<1>6. Greeted(r, frame) = IF frame = "hello" THEN l ELSE t
  BY <1>2 DEF Greeted, p, t, q
<1> HIDE DEF l
<1>7. CASE frame = "hello"
  <2>1. Greeted(r, frame) = l
    BY <1>6, <1>7
  <2> QED
    BY <1>2, <1>5, <1>7, <2>1 DEF p, q
<1>8. CASE frame # "hello"
  <2>1. Greeted(r, frame) = t
    BY <1>6, <1>8
  <2> QED
    BY <1>2, <1>8, <2>1 DEF p
<1> QED
  BY <1>7, <1>8

LEMMA HandshakeGoesOn ==
  ASSUME SuperInv, NEW g \in Gens, sup.gen = g, gen[g].out # <<>>,
         NEW frame, frame = Head(gen[g].out), HandshakeFrame(g, frame),
         gen[g].phase = Opens[frame].from
  PROVE  /\ frame \in DOMAIN Opens
         /\ gen' = [Took(gen, g) EXCEPT ![g] = Greeted(Took(gen, g)[g], frame)]
         /\ IF frame = "ready" /\ ~sup.stopping
            THEN /\ upstream' = g /\ sup' = [sup EXCEPT !.state = "ready"]
                 /\ waiter' = Told(waiter, "ready")
            ELSE UNCHANGED <<sup, upstream, waiter>>
         /\ UNCHANGED <<process, job>>
<1>1. Heard(g) = Took(gen, g) /\ Took(gen, g) \in [Gens -> Generation]
  BY FrameFacts
<1> DEFINE gs == [Heard(g) EXCEPT ![g].phase = Opens[frame].to]
<1>2. /\ frame \in DOMAIN Opens
      /\ gen' = (IF frame = "hello" THEN [gs EXCEPT ![g].in = Append(@, gs[g].conf)] ELSE gs)
      /\ IF frame = "ready" /\ ~sup.stopping
         THEN /\ upstream' = g /\ sup' = [sup EXCEPT !.state = "ready"]
              /\ waiter' = Told(waiter, "ready")
         ELSE UNCHANGED <<sup, upstream, waiter>>
      /\ UNCHANGED <<process, job>>
  BY DEF HandshakeFrame
<1> DEFINE r == Took(gen, g)[g]
           t == [r EXCEPT !.phase = Opens[frame].to]
<1>3. gs = [Took(gen, g) EXCEPT ![g] = t] /\ t.conf = r.conf
  BY <1>1 DEF Generation
<1>4. gen' = [Took(gen, g) EXCEPT ![g] = Greeted(r, frame)]
  <2>1. CASE frame = "hello"
    <3>1. gen' = [gs EXCEPT ![g].in = Append(@, gs[g].conf)]
      BY <1>2, <2>1
    <3>2. gs[g] = t /\ gs \in [Gens -> Generation \cup {t}]
      BY <1>1, <1>3
    <3> HIDE DEF gs, t, r
    <3>3. gen' = [gs EXCEPT ![g] = [t EXCEPT !.in = Append(@, t.conf)]]
      BY <3>1, <3>2
    <3>4. gen' = [Took(gen, g) EXCEPT ![g] = [t EXCEPT !.in = Append(@, r.conf)]]
      BY <1>1, <1>3, <3>3
    <3> QED
      BY <2>1, <3>4 DEF Greeted, t
  <2>2. CASE frame # "hello"
    <3>1. Greeted(r, frame) = t
      BY <2>2 DEF Greeted
    <3> HIDE DEF t
    <3> QED
      BY <1>2, <1>3, <2>2, <3>1
  <2> QED
    BY <2>1, <2>2
<1> QED
  BY <1>2, <1>4

LEMMA HandshakeSuper ==
  ASSUME SuperInv, NEW g \in Gens, sup.gen = g, gen[g].out # <<>>,
         NEW frame, frame = Head(gen[g].out), HandshakeFrame(g, frame),
         UNCHANGED <<queue, asked>>
  PROVE  SuperInv'
<1>1. CASE gen[g].phase # Opens[frame].from
  <2>1. /\ FailGeneration(g, Heard(g)) /\ UNCHANGED <<process, work, waiter, asked>>
    BY <1>1 DEF HandshakeFrame, work
  <2> QED
    BY <2>1, FailedFrame
<1>2. CASE gen[g].phase = Opens[frame].from
  <2> DEFINE o == Took(gen, g)[g]
             r == Greeted(o, frame)
  <2>1. /\ frame \in DOMAIN Opens /\ gen' = [Took(gen, g) EXCEPT ![g] = r]
        /\ IF frame = "ready" /\ ~sup.stopping
           THEN /\ upstream' = g /\ sup' = [sup EXCEPT !.state = "ready"]
                /\ waiter' = Told(waiter, "ready")
           ELSE UNCHANGED <<sup, upstream, waiter>>
        /\ UNCHANGED <<process, work, asked>>
    BY <1>2, HandshakeGoesOn DEF work
  <2>2. /\ Core(sup, upstream, Took(gen, g), job, active)
        /\ Took(gen, g) \in [Gens -> Generation] /\ o \in Generation
        /\ o.phase = gen[g].phase /\ o.conf = gen[g].conf /\ o.updating = gen[g].updating
        /\ o.stop = gen[g].stop /\ o.proc = gen[g].proc
        /\ In(frame, gen[g].out) /\ \A x : In(x, o.out) => In(x, gen[g].out)
        /\ active # "none" /\ o.conf \in Configs
    BY FrameFacts
  <2> HIDE DEF o
  <2>3. /\ r \in Generation /\ r.phase = Opens[frame].to
        /\ r.conf = o.conf /\ r.updating = o.updating /\ r.stop = o.stop
        /\ r.out = o.out /\ r.proc = o.proc
    BY <2>1, <2>2, GreetedFields
  <2> HIDE DEF r
  <2>4. GenOK(sup, gen[g], g)
    BY SuperFacts DEF GensOK
  <2>5. FramesOK(r)
    BY <2>1, <2>2, <2>3, <2>4, OpensFields DEF GenOK, FramesOK
  <2>6. GenOK(sup, r, g)
    BY <2>2, <2>3, <2>4, <2>5 DEF GenOK
  <2>7. upstream # g
    <3>1. gen[g].phase # "ready"
      BY <1>2, <2>1, OpensFields
    <3> QED
      BY <3>1, SuperFacts, NoneAssumption DEF CurrentOK
  <2>8. Core(sup, upstream, gen', job, active)
    <3>1. Core(sup, upstream, [Took(gen, g) EXCEPT ![g] = r], job, active)
      BY <2>2, <2>3, <2>6, <2>7, OneCore DEF o
    <3> QED
      BY <2>1, <3>1
  <2>9. CASE ~(frame = "ready" /\ ~sup.stopping)
    BY <2>1, <2>2, <2>8, <2>9, SuperFacts, SameLife
  <2>10. CASE frame = "ready" /\ ~sup.stopping
    <3>1. /\ upstream' = g /\ sup' = [sup EXCEPT !.state = "ready"] /\ waiter' = Told(waiter, "ready")
      BY <2>1, <2>10
    <3>2. /\ sup' \in Supervisor /\ sup'.gen = g /\ sup'.state = "ready"
          /\ sup'.stopping = sup.stopping /\ sup'.recent = sup.recent
      BY <3>1, SuperFacts DEF Supervisor, State
    <3>3. g # None /\ sup.state # "circuit-open"
      BY NoneAssumption, SuperFacts DEF SupOK
    <3>4. SupOK(sup')
      BY <2>10, <3>2, <3>3, SuperFacts DEF SupOK
    <3>5. \A h \in Gens : GenOK(sup, gen'[h], h)
      BY <2>8 DEF Core, GensOK
    <3>6. \A h \in Gens : GenOK(sup', gen'[h], h)
      BY <2>10, <3>2, <3>3, <3>5 DEF GenOK
    <3>7. GensOK(sup', gen') /\ UpdatesOK(gen', job)
      BY <2>8, <3>6 DEF Core, GensOK
    <3>8. gen'[g] = r /\ r.stop = "no" /\ r.phase = "ready"
      BY <2>1, <2>2, <2>3, <2>6, <2>10, OpensFields DEF GenOK
    <3>9. active = "up"
      BY <2>2, <2>10, SuperFacts DEF LifeOK, RestOK
    <3>10. CurrentOK(sup', upstream', gen', active)
      BY <2>10, <3>1, <3>2, <3>3, <3>8, <3>9 DEF CurrentOK
    <3>11. "ready" \in State
      BY DEF State
    <3> QED
      BY <2>1, <2>2, <3>1, <3>2, <3>4, <3>7, <3>10, <3>11, SuperFacts, ToldWaiting, SameLife DEF Core
  <2> QED
    BY <2>9, <2>10
<1> QED
  BY <1>1, <1>2

LEMMA DegradedSuper ==
  ASSUME SuperInv, NEW g \in Gens, sup.gen = g, gen[g].out # <<>>,
         DegradedStatus(g, Head(gen[g].out)), UNCHANGED <<queue, asked>>
  PROVE  SuperInv'
<1>1. /\ Head(gen[g].out) = "degraded" /\ gen' = Heard(g) /\ sup' = [sup EXCEPT !.state = "degraded"]
      /\ UNCHANGED <<process, upstream, work, waiter, asked>>
  BY DEF DegradedStatus, work
<1>2. /\ Core(sup, upstream, gen', job, active) /\ In("degraded", gen[g].out) /\ active # "none"
  BY <1>1, FrameFacts
<1>3. gen[g].phase # "ready"
  BY <1>2, SuperFacts DEF GensOK, GenOK, FramesOK
<1>4. upstream = None
  BY <1>3, SuperFacts DEF CurrentOK
<1>5. /\ sup' \in Supervisor /\ sup'.gen = g /\ sup'.state = "degraded"
      /\ sup'.stopping = sup.stopping /\ sup'.recent = sup.recent /\ g # None
  BY <1>1, SuperFacts, NoneAssumption DEF Supervisor, State
<1>6. SupOK(sup')
  BY <1>5, SuperFacts DEF SupOK
<1>7. \A h \in Gens : GenOK(sup, gen'[h], h)
  BY <1>2 DEF Core, GensOK
<1>8. \A h \in Gens : GenOK(sup', gen'[h], h)
  BY <1>5, <1>7 DEF GenOK
<1>9. GensOK(sup', gen') /\ UpdatesOK(gen', job)
  BY <1>2, <1>8 DEF Core, GensOK
<1>10. CurrentOK(sup', upstream', gen', active)
  BY <1>1, <1>4, <1>5 DEF CurrentOK
<1> QED
  BY <1>1, <1>2, <1>5, <1>6, <1>9, <1>10, SuperFacts, SameLife DEF Core

(* An update is answered: what is left of the generation's record.         *)
LEMMA AnsweredFacts ==
  ASSUME SuperInv, NEW g \in Gens, sup.gen = g, gen[g].out # <<>>, gen[g].updating
  PROVE  LET gs == Answered(g, Heard(g)) IN
         /\ Core(sup, upstream, gs, job, active)
         /\ job.at = "update" /\ job.config \in Configs
         /\ \A h \in Gens : ~gs[h].updating
         /\ gs[g].out = Tail(gen[g].out) /\ gs[g].conf = gen[g].conf /\ gs[g].phase = gen[g].phase
         /\ gs[g].serves = gen[g].serves /\ gs[g].in = gen[g].in /\ gs[g].proc = gen[g].proc
         /\ gs[g].stop = gen[g].stop /\ \A h \in Gens \ {g} : gs[h] = gen[h]
<1> DEFINE o == Took(gen, g)[g]
           r == [o EXCEPT !.updating = FALSE]
<1>1. /\ Heard(g) = Took(gen, g) /\ Core(sup, upstream, Took(gen, g), job, active)
      /\ Took(gen, g) \in [Gens -> Generation] /\ o \in Generation
      /\ o.phase = gen[g].phase /\ o.conf = gen[g].conf /\ o.serves = gen[g].serves
      /\ o.stop = gen[g].stop /\ o.proc = gen[g].proc /\ o.in = gen[g].in
      /\ o.out = Tail(gen[g].out)
      /\ \A h \in Gens \ {g} : Took(gen, g)[h] = gen[h]
  BY FrameFacts
<1>2. Answered(g, Heard(g)) = [Took(gen, g) EXCEPT ![g] = r]
  BY <1>1 DEF Answered
<1> HIDE DEF o
<1>3. /\ r \in Generation /\ r.updating = FALSE /\ r.phase = o.phase /\ r.conf = o.conf
      /\ r.serves = o.serves /\ r.stop = o.stop /\ r.proc = o.proc /\ r.in = o.in /\ r.out = o.out
  BY <1>1, UpdatingFields
<1> HIDE DEF r
<1>4. GenOK(sup, o, g)
  BY <1>1 DEF Core, GensOK, o
<1>5. GenOK(sup, r, g)
  BY <1>3, <1>4 DEF GenOK, FramesOK
<1>6. Core(sup, upstream, [Took(gen, g) EXCEPT ![g] = r], job, active)
  BY <1>1, <1>3, <1>5, OneCore DEF o
<1>7. job.at = "update" /\ job.config \in Configs
  BY SuperFacts DEF UpdatesOK, LifeOK
<1>8. \A h \in Gens \ {g} : ~gen[h].updating
  BY SuperFacts DEF UpdatesOK
<1> QED
  BY <1>1, <1>2, <1>3, <1>6, <1>7, <1>8

LEMMA UpdateTakenSuper ==
  ASSUME SuperInv, NEW g \in Gens, sup.gen = g, gen[g].out # <<>>,
         UpdateTaken(g, Head(gen[g].out)), UNCHANGED <<queue, asked>>
  PROVE  SuperInv'
<1> DEFINE gs == Answered(g, Heard(g))
           c  == job.config
           r  == [gs[g] EXCEPT !.conf = c]
<1>1. /\ gen[g].updating /\ gen' = [gs EXCEPT ![g].conf = c] /\ sup' = [sup EXCEPT !.config = c]
      /\ key' = c /\ job' = [at |-> "idle", config |-> None] /\ waiter' = Advanced(waiter)
      /\ active' = active /\ upstream' = upstream
      /\ queue' = queue /\ changes' = changes /\ latest' = latest
  BY DEF UpdateTaken, asked
<1>2. /\ Core(sup, upstream, gs, job, active) /\ job.at = "update" /\ c \in Configs
      /\ \A h \in Gens : ~gs[h].updating
  BY <1>1, AnsweredFacts
<1> HIDE DEF gs
<1>3. gs \in [Gens -> Generation] /\ GenOK(sup, gs[g], g) /\ gen' = [gs EXCEPT ![g] = r]
  BY <1>1, <1>2 DEF Core, GensOK
<1>4. /\ r \in Generation /\ r.conf = c /\ r.updating = gs[g].updating /\ r.phase = gs[g].phase
      /\ r.stop = gs[g].stop /\ r.proc = gs[g].proc /\ r.out = gs[g].out
  BY <1>2, <1>3, ConfFields
<1> HIDE DEF r
<1>5. GenOK(sup, r, g)
  BY <1>2, <1>3, <1>4 DEF GenOK, FramesOK
<1>6. Core(sup, upstream, [gs EXCEPT ![g] = r], job, active)
  BY <1>2, <1>4, <1>5, OneCore
<1>7. Core(sup, upstream, gen', job, active)
  BY <1>3, <1>6
<1>8. /\ sup' \in Supervisor /\ sup'.gen = sup.gen /\ sup'.state = sup.state
      /\ sup'.stopping = sup.stopping /\ sup'.recent = sup.recent
  BY <1>1, <1>2, SuperFacts DEF Supervisor
<1>9. SupOK(sup')
  BY <1>8, SuperFacts DEF SupOK
<1>10. \A h \in Gens : GenOK(sup, gen'[h], h)
  BY <1>7 DEF Core, GensOK
<1>11. \A h \in Gens : GenOK(sup', gen'[h], h)
  BY <1>8, <1>10 DEF GenOK
<1>12. GensOK(sup', gen')
  BY <1>7, <1>11 DEF Core, GensOK
<1>13. UpdatesOK(gen', job')
  BY <1>2, <1>3, <1>4 DEF UpdatesOK
<1>14. CurrentOK(sup', upstream', gen', active')
  BY <1>1, <1>7, <1>8 DEF Core, CurrentOK
<1>15. RestOK'
  BY <1>1, <1>2, SuperFacts, AdvancedWaiting DEF RestOK
<1>16. LifeOK'
  BY <1>1, <1>2, <1>8, SuperFacts DEF LifeOK, Busy
<1> QED
  BY <1>9, <1>12, <1>13, <1>14, <1>15, <1>16 DEF SuperInv, Core

LEMMA FrameSuper ==
  ASSUME SuperInv, NEW g \in Gens, FrameArrives(g)
  PROVE  SuperInv'
<1> DEFINE frame == Head(gen[g].out)
<1>1. sup.gen = g /\ gen[g].out # <<>> /\ UNCHANGED <<queue, asked>>
  BY DEF FrameArrives
<1>2. CASE HandshakeFrame(g, frame)
  BY <1>1, <1>2, HandshakeSuper
<1>3. CASE Refused(g, frame)
  <2>1. FailGeneration(g, Heard(g)) /\ UNCHANGED <<process, work, waiter, asked>>
    BY <1>1, <1>3 DEF Refused, work
  <2> QED
    BY <1>1, <2>1, FailedFrame
<1>4. CASE DegradedStatus(g, frame)
  BY <1>1, <1>4, DegradedSuper
<1>5. CASE UpdateTaken(g, frame)
  BY <1>1, <1>5, UpdateTakenSuper
<1>6. CASE UpdateRefused(g, frame)
  <2>1. gen[g].updating /\ FallBackToStop(Answered(g, Heard(g)))
    BY <1>6 DEF UpdateRefused
  <2> QED
    BY <1>1, <2>1, AnsweredFacts, FallBackSuper
<1>7. CASE FrameIgnored(g, frame)
  <2>1. gen' = Heard(g) /\ UNCHANGED <<process, sup, upstream, work, waiter, asked>>
    BY <1>1, <1>7 DEF FrameIgnored, work
  <2>2. Core(sup', upstream', gen', job, active) /\ active # "none"
    BY <1>1, <2>1, FrameFacts
  <2> QED
    BY <2>1, <2>2, SuperFacts, SameLife
<1> QED
  BY <1>2, <1>3, <1>4, <1>5, <1>6, <1>7 DEF FrameArrives

-----------------------------------------------------------------------------
(* The broker process                                                      *)
\* What it says is heard while it is the current generation.
Spoken(g, frames, record) == IF sup.gen = g THEN record.out \o frames ELSE <<>>

LEMMA SaysFields ==
  ASSUME SuperInv, NEW g \in Gens, NEW frames \in Seq(Frames), NEW record \in Generation,
         Says(g, frames, record)
  PROVE  /\ gen' \in [Gens -> Generation] /\ \A h \in Gens \ {g} : gen'[h] = gen[h]
         /\ gen'[g].out = Spoken(g, frames, record)
         /\ gen'[g].phase = record.phase /\ gen'[g].conf = record.conf
         /\ gen'[g].updating = record.updating /\ gen'[g].stop = record.stop
         /\ gen'[g].serves = record.serves /\ gen'[g].in = record.in /\ gen'[g].proc = record.proc
         /\ \A x : In(x, gen'[g].out) => In(x, record.out) \/ In(x, frames)
         /\ UNCHANGED <<process, sup, upstream, work, waiter, asked>>
<1> DEFINE o == Spoken(g, frames, record)
           r == [record EXCEPT !.out = o]
<1>1. record.out \in Seq(Frames)
  BY RecordTypes
<1>2. o \in Seq(Frames)
  <2>1. <<>> \in Seq(Frames) /\ record.out \o frames \in Seq(Frames)
    BY <1>1
  <2> QED
    BY <2>1 DEF Spoken
<1>3. gen' = [gen EXCEPT ![g] = r]
  BY DEF Says, Spoken
<1>4. \A x : In(x, o) => In(x, record.out) \/ In(x, frames)
  BY <1>1, InConcat, InEmpty DEF Spoken
<1>5. UNCHANGED <<process, sup, upstream, work, waiter, asked>>
  BY DEF Says
<1> HIDE DEF o
<1>6. /\ r \in Generation /\ r.out = o /\ r.phase = record.phase /\ r.conf = record.conf
      /\ r.updating = record.updating /\ r.stop = record.stop /\ r.serves = record.serves
      /\ r.in = record.in /\ r.proc = record.proc
  BY <1>2, OutFields
<1> HIDE DEF r
<1>7. gen' \in [Gens -> Generation] /\ gen'[g] = r /\ \A h \in Gens \ {g} : gen'[h] = gen[h]
  BY <1>3, <1>6, SuperFacts
<1> QED
  BY <1>4, <1>5, <1>6, <1>7 DEF o

LEMMA SaysSuper ==
  ASSUME SuperInv, NEW g \in Gens, NEW frames \in Seq(Frames), NEW record \in Generation,
         Says(g, frames, record), record.proc # "free", Alive(g),
         record.phase = gen[g].phase, record.conf = gen[g].conf,
         record.updating = gen[g].updating, record.stop = gen[g].stop,
         FramesOK(gen'[g])
  PROVE  SuperInv'
<1>1. /\ gen' \in [Gens -> Generation] /\ \A h \in Gens \ {g} : gen'[h] = gen[h]
      /\ gen'[g].phase = record.phase /\ gen'[g].conf = record.conf
      /\ gen'[g].updating = record.updating /\ gen'[g].stop = record.stop
      /\ gen'[g].proc = record.proc
      /\ UNCHANGED <<process, sup, upstream, work, waiter, asked>>
  BY SaysFields
<1>2. gen' = [gen EXCEPT ![g] = gen'[g]]
  BY <1>1, SuperFacts
<1> DEFINE r == gen'[g]
<1>3. r \in Generation
  BY <1>1
<1>4. GenOK(sup, gen[g], g)
  BY SuperFacts DEF GensOK
<1>5. GenOK(sup, r, g)
  BY <1>1, <1>4 DEF GenOK, Alive
<1>6. Core(sup, upstream, [gen EXCEPT ![g] = r], job, active)
  <2>1. r.stop = gen[g].stop /\ (r.updating => gen[g].updating) /\ r.phase = gen[g].phase
    BY <1>1
  <2> HIDE DEF r
  <2> QED
    BY <1>3, <1>5, <2>1, SuperFacts, OneCore
<1>7. Core(sup', upstream', gen', job, active)
  BY <1>1, <1>2, <1>6
<1> QED
  BY <1>1, <1>7, SuperFacts, SameLife DEF LifeOK

(* The process of g moves on to p, with q left to read, serving c.         *)
Speaks(g, frames, p, q, c) ==
  \E record \in Generation :
    /\ Says(g, frames, record)
    /\ record.proc = p /\ record.in = q /\ record.serves = c
    /\ record.out = gen[g].out /\ record.phase = gen[g].phase /\ record.conf = gen[g].conf
    /\ record.updating = gen[g].updating /\ record.stop = gen[g].stop

LEMMA SpeaksFields ==
  ASSUME SuperInv, NEW g \in Gens, NEW frames \in Seq(Frames), NEW p, NEW q, NEW c,
         Speaks(g, frames, p, q, c)
  PROVE  /\ gen' \in [Gens -> Generation] /\ \A h \in Gens \ {g} : gen'[h] = gen[h]
         /\ gen'[g].phase = gen[g].phase /\ gen'[g].conf = gen[g].conf
         /\ gen'[g].updating = gen[g].updating /\ gen'[g].stop = gen[g].stop
         /\ gen'[g].proc = p /\ gen'[g].in = q /\ gen'[g].serves = c
         /\ \A x : In(x, gen'[g].out) => In(x, gen[g].out) \/ In(x, frames)
         /\ (sup.gen = g => gen'[g].out = gen[g].out \o frames)
         /\ UNCHANGED <<process, sup, upstream, work, waiter, asked>>
<1>1. PICK record \in Generation :
        /\ Says(g, frames, record)
        /\ record.proc = p /\ record.in = q /\ record.serves = c
        /\ record.out = gen[g].out /\ record.phase = gen[g].phase /\ record.conf = gen[g].conf
        /\ record.updating = gen[g].updating /\ record.stop = gen[g].stop
  BY DEF Speaks
<1>2. gen'[g].out = Spoken(g, frames, record)
  BY <1>1, SaysFields
<1>3. sup.gen = g => gen'[g].out = gen[g].out \o frames
  BY <1>1, <1>2 DEF Spoken
<1> QED
  BY <1>1, <1>3, SaysFields

LEMMA SpeaksSuper ==
  ASSUME SuperInv, NEW g \in Gens, NEW frames \in Seq(Frames), NEW p, NEW q, NEW c,
         Speaks(g, frames, p, q, c), Alive(g), p # "free", FramesOK(gen'[g])
  PROVE  SuperInv'
<1>1. PICK record \in Generation :
        /\ Says(g, frames, record)
        /\ record.proc = p /\ record.in = q /\ record.serves = c
        /\ record.out = gen[g].out /\ record.phase = gen[g].phase /\ record.conf = gen[g].conf
        /\ record.updating = gen[g].updating /\ record.stop = gen[g].stop
  BY DEF Speaks
<1> QED
  BY <1>1, SaysSuper

LEMMA ReadFields ==
  ASSUME SuperInv, NEW g \in Gens, gen[g].in # <<>>
  PROVE  LET read == [gen[g] EXCEPT !.in = Tail(@)] IN
         /\ gen[g].in \in Seq(Configs \cup {Stop}) /\ Head(gen[g].in) \in Configs \cup {Stop}
         /\ read \in Generation /\ read.in = Tail(gen[g].in)
         /\ read.phase = gen[g].phase /\ read.conf = gen[g].conf
         /\ read.updating = gen[g].updating /\ read.stop = gen[g].stop
         /\ read.serves = gen[g].serves /\ read.out = gen[g].out /\ read.proc = gen[g].proc
<1>1. gen[g] \in Generation /\ gen[g].in \in Seq(Configs \cup {Stop})
  BY SuperFacts, RecordTypes
<1>2. Tail(gen[g].in) \in Seq(Configs \cup {Stop}) /\ Head(gen[g].in) \in Configs \cup {Stop}
  BY <1>1, HeadTailProperties
<1> QED
  BY <1>1, <1>2, InFields

(* The steps of the process, by what it says and where it gets to.         *)
BrokerSays(g) ==
  LET r == gen[g] IN
  \/ r.proc = "boot" /\ Speaks(g, <<"hello">>, "await", r.in, r.serves)
  \/ /\ r.proc \in {"await", "serving"} /\ r.in # <<>> /\ Head(r.in) = Stop
     /\ Speaks(g, <<>>, "dead", Tail(r.in), r.serves)
  \/ Speaks(g, <<>>, "dead", r.in, r.serves)
  \/ Speaks(g, <<>>, "hung", r.in, r.serves)
  \/ /\ r.proc = "await" /\ r.in # <<>> /\ Head(r.in) \in Configs
     /\ \/ Speaks(g, <<>>, "probing", Tail(r.in), Head(r.in))
        \/ Speaks(g, <<"refused">>, "await", Tail(r.in), r.serves)
  \/ /\ r.proc = "serving" /\ r.in # <<>> /\ Head(r.in) \in Configs
     /\ \/ Speaks(g, <<"updated">>, "serving", Tail(r.in), Head(r.in))
        \/ Speaks(g, <<"unchanged">>, "serving", Tail(r.in), r.serves)
  \/ /\ r.proc = "probing"
     /\ \/ Speaks(g, <<"configured", "ready">>, "serving", r.in, r.serves)
        \/ Speaks(g, <<"refused", "degraded">>, "dead", r.in, r.serves)

BrokerMoves(g) == BrokerStep(g) \/ BrokerLeaves(g) \/ BrokerHangs(g)

LEMMA BrokerShape ==
  ASSUME SuperInv, NEW g \in Gens, BrokerMoves(g)
  PROVE  Alive(g) /\ BrokerSays(g)
<1>1. gen[g] \in Generation
  BY SuperFacts
<1>2. ASSUME NEW p \in {"await", "serving", "hung", "dead"}, NEW frames,
             Says(g, frames, [gen[g] EXCEPT !.proc = p])
      PROVE  Speaks(g, frames, p, gen[g].in, gen[g].serves)
  <2> DEFINE old == gen[g]
             l == [old EXCEPT !.proc = p]
  <2>0. old \in Generation
    BY <1>1
  <2>1. p \in {"free", "boot", "await", "probing", "serving", "leaving", "hung", "dead"}
    OBVIOUS
  <2>3. Says(g, frames, l)
    BY <1>2
  <2> HIDE DEF old
  <2>2. /\ l \in Generation /\ l.proc = p
        /\ l.phase = old.phase /\ l.conf = old.conf
        /\ l.updating = old.updating /\ l.stop = old.stop
        /\ l.serves = old.serves /\ l.in = old.in /\ l.out = old.out
    BY <2>0, <2>1 DEF Generation
  <2> HIDE DEF l
  <2> QED
    BY <2>2, <2>3 DEF Speaks, old
<1>3. CASE BrokerGreets(g)
  BY <1>2, <1>3 DEF BrokerGreets, BrokerSays
<1>4. CASE BrokerServes(g)
  BY <1>2, <1>4 DEF BrokerServes, BrokerSays
<1>5. CASE BrokerCannotServe(g)
  BY <1>2, <1>5 DEF BrokerCannotServe, BrokerSays
<1>6. CASE BrokerDies(g)
  BY <1>2, <1>6 DEF BrokerDies, BrokerSays
<1>7. CASE BrokerReads(g)
  <2> DEFINE read == [gen[g] EXCEPT !.in = Tail(@)]
             head == Head(gen[g].in)
  <2>1. /\ gen[g].in # <<>> /\ Alive(g) /\ gen[g].proc \in {"await", "serving"}
        /\ \/ head = Stop /\ Says(g, <<>>, [read EXCEPT !.proc = "dead"])
           \/ /\ head # Stop /\ gen[g].proc = "await"
              /\ \/ Says(g, <<>>, [read EXCEPT !.proc = "probing", !.serves = head])
                 \/ Says(g, <<"refused">>, read)
           \/ /\ head # Stop /\ gen[g].proc = "serving"
              /\ \/ Says(g, <<"updated">>, [read EXCEPT !.serves = head])
                 \/ Says(g, <<"unchanged">>, read)
    BY <1>7 DEF BrokerReads
  <2>2. /\ head \in Configs \cup {Stop}
        /\ read \in Generation /\ read.in = Tail(gen[g].in)
        /\ read.phase = gen[g].phase /\ read.conf = gen[g].conf
        /\ read.updating = gen[g].updating /\ read.stop = gen[g].stop
        /\ read.serves = gen[g].serves /\ read.out = gen[g].out /\ read.proc = gen[g].proc
    BY <2>1, ReadFields
  <2> HIDE DEF read, head
  <2>3. CASE head = Stop /\ Says(g, <<>>, [read EXCEPT !.proc = "dead"])
    <3> DEFINE l == [read EXCEPT !.proc = "dead"]
    <3>1. /\ l \in Generation /\ l.proc = "dead" /\ l.phase = read.phase /\ l.conf = read.conf
          /\ l.updating = read.updating /\ l.stop = read.stop /\ l.serves = read.serves
          /\ l.in = read.in /\ l.out = read.out
      BY <2>2, ProcFields
    <3>2. Says(g, <<>>, l)
      BY <2>3
    <3> HIDE DEF l
    <3>3. Speaks(g, <<>>, "dead", Tail(gen[g].in), gen[g].serves)
      BY <2>2, <3>1, <3>2 DEF Speaks
    <3> QED
      BY <2>1, <2>3, <3>3 DEF BrokerSays, head
  <2>4. CASE /\ head \in Configs /\ gen[g].proc = "await"
             /\ Says(g, <<>>, [read EXCEPT !.proc = "probing", !.serves = head])
    <3> DEFINE t == [read EXCEPT !.proc = "probing"]
               l == [t EXCEPT !.serves = head]
    <3>1. /\ t \in Generation /\ t.proc = "probing" /\ t.phase = read.phase /\ t.conf = read.conf
          /\ t.updating = read.updating /\ t.stop = read.stop
          /\ t.in = read.in /\ t.out = read.out
      BY <2>2, ProcFields
    <3>2. Says(g, <<>>, l)
      BY <2>4
    <3> HIDE DEF t
    <3>3. /\ l \in Generation /\ l.proc = t.proc /\ l.phase = t.phase /\ l.conf = t.conf
          /\ l.updating = t.updating /\ l.stop = t.stop /\ l.serves = head
          /\ l.in = t.in /\ l.out = t.out
      BY <2>4, <3>1, ServesFields
    <3> HIDE DEF l
    <3>4. Speaks(g, <<>>, "probing", Tail(gen[g].in), Head(gen[g].in))
      BY <2>2, <3>1, <3>2, <3>3 DEF Speaks, head
    <3> QED
      BY <2>1, <2>4, <3>4 DEF BrokerSays, head
  <2>5. CASE head \in Configs /\ gen[g].proc = "await" /\ Says(g, <<"refused">>, read)
    <3>1. Speaks(g, <<"refused">>, "await", Tail(gen[g].in), gen[g].serves)
      BY <2>2, <2>5 DEF Speaks
    <3> QED
      BY <2>1, <2>5, <3>1 DEF BrokerSays, head
  <2>6. CASE /\ head \in Configs /\ gen[g].proc = "serving"
             /\ Says(g, <<"updated">>, [read EXCEPT !.serves = head])
    <3> DEFINE l == [read EXCEPT !.serves = head]
    <3>1. /\ l \in Generation /\ l.proc = read.proc /\ l.phase = read.phase /\ l.conf = read.conf
          /\ l.updating = read.updating /\ l.stop = read.stop /\ l.serves = head
          /\ l.in = read.in /\ l.out = read.out
      BY <2>2, <2>6, ServesFields
    <3>2. Says(g, <<"updated">>, l)
      BY <2>6
    <3> HIDE DEF l
    <3>3. Speaks(g, <<"updated">>, "serving", Tail(gen[g].in), Head(gen[g].in))
      BY <2>2, <2>6, <3>1, <3>2 DEF Speaks, head
    <3> QED
      BY <2>1, <2>6, <3>3 DEF BrokerSays, head
  <2>7. CASE head \in Configs /\ gen[g].proc = "serving" /\ Says(g, <<"unchanged">>, read)
    <3>1. Speaks(g, <<"unchanged">>, "serving", Tail(gen[g].in), gen[g].serves)
      BY <2>2, <2>7 DEF Speaks
    <3> QED
      BY <2>1, <2>7, <3>1 DEF BrokerSays, head
  <2> QED
    BY <2>1, <2>2, <2>3, <2>4, <2>5, <2>6, <2>7
<1>8. CASE BrokerHangs(g)
  BY <1>2, <1>8 DEF BrokerHangs, BrokerSays
<1> QED
  BY <1>3, <1>4, <1>5, <1>6, <1>7, <1>8 DEF BrokerMoves, BrokerStep, BrokerLeaves, BrokerHangs,
     BrokerGreets, BrokerServes, BrokerCannotServe, BrokerDies

LEMMA Sayings ==
  /\ <<>> \in Seq(Frames) /\ <<"hello">> \in Seq(Frames) /\ <<"refused">> \in Seq(Frames)
  /\ <<"updated">> \in Seq(Frames) /\ <<"unchanged">> \in Seq(Frames)
  /\ <<"configured", "ready">> \in Seq(Frames) /\ <<"refused", "degraded">> \in Seq(Frames)
<1> DEFINE F == Frames
<1>1. /\ "hello" \in F /\ "refused" \in F /\ "updated" \in F /\ "unchanged" \in F
      /\ "configured" \in F /\ "ready" \in F /\ "degraded" \in F
  BY DEF Frames
<1> HIDE DEF F
<1>2. ASSUME NEW x \in F PROVE <<x>> \in Seq(F)
  OBVIOUS
<1>3. ASSUME NEW x \in F, NEW y \in F PROVE <<x, y>> \in Seq(F)
  OBVIOUS
<1>4. <<>> \in Seq(F)
  OBVIOUS
<1>5. <<"hello">> \in Seq(F) /\ <<"refused">> \in Seq(F)
  BY <1>1, <1>2
<1>6. <<"updated">> \in Seq(F) /\ <<"unchanged">> \in Seq(F)
  BY <1>1, <1>2
<1>7. <<"configured", "ready">> \in Seq(F) /\ <<"refused", "degraded">> \in Seq(F)
  BY <1>1, <1>3
<1> QED
  BY <1>4, <1>5, <1>6, <1>7 DEF F

\* A step that says neither "ready" nor "degraded", and does not go back.
LEMMA QuietSpeech ==
  ASSUME SuperInv, NEW g \in Gens, NEW frames \in Seq(Frames), NEW p, NEW q, NEW c,
         Alive(g), Speaks(g, frames, p, q, c),
         ~In("degraded", frames), ~In("ready", frames), p # "free",
         p \in {"boot", "await", "probing"} => gen[g].proc \in {"boot", "await", "probing"}
  PROVE  SuperInv'
<1>1. FramesOK(gen[g]) /\ gen[g].proc # "dead"
  BY SuperFacts DEF GensOK, GenOK, Alive
<1>2. /\ gen'[g].phase = gen[g].phase /\ gen'[g].proc = p
      /\ \A x : In(x, gen'[g].out) => In(x, gen[g].out) \/ In(x, frames)
  BY SpeaksFields
<1>3. FramesOK(gen'[g])
  BY <1>1, <1>2 DEF FramesOK
<1> QED
  BY <1>3, SpeaksSuper

LEMMA BrokerSuper ==
  ASSUME SuperInv, NEW g \in Gens, BrokerMoves(g)
  PROVE  SuperInv'
<1>1. Alive(g) /\ BrokerSays(g)
  BY BrokerShape
<1>2. FramesOK(gen[g]) /\ gen[g].proc # "dead"
  BY <1>1, SuperFacts DEF GensOK, GenOK, Alive
<1>3. /\ ~In("degraded", <<>>) /\ ~In("ready", <<>>)
      /\ ~In("degraded", <<"hello">>) /\ ~In("ready", <<"hello">>)
      /\ ~In("degraded", <<"refused">>) /\ ~In("ready", <<"refused">>)
      /\ ~In("degraded", <<"updated">>) /\ ~In("ready", <<"updated">>)
      /\ ~In("degraded", <<"unchanged">>) /\ ~In("ready", <<"unchanged">>)
  <2>1. ASSUME NEW x \in {"hello", "refused", "updated", "unchanged"}
        PROVE  ~In("degraded", <<x>>) /\ ~In("ready", <<x>>)
    BY InOne
  <2> QED
    BY <2>1, InEmpty
<1>4. ASSUME NEW frames \in Seq(Frames), NEW p, NEW q, NEW c, Speaks(g, frames, p, q, c),
             p \in {"await", "probing", "serving", "hung", "dead"}
      PROVE  /\ gen'[g].phase = gen[g].phase /\ gen'[g].proc = p
             /\ \A x : In(x, gen'[g].out) => In(x, gen[g].out) \/ In(x, frames)
             /\ (FramesOK(gen'[g]) => SuperInv')
  <2>1. p # "free"
    BY <1>4
  <2>2. FramesOK(gen'[g]) => SuperInv'
    BY <1>1, <1>4, <2>1, SpeaksSuper
  <2> QED
    BY <1>4, <2>2, SpeaksFields
<1>5. ASSUME NEW q, NEW c, gen[g].proc = "boot", Speaks(g, <<"hello">>, "await", q, c)
      PROVE  SuperInv'
  BY <1>1, <1>3, <1>5, Sayings, QuietSpeech
<1>6. ASSUME NEW q, NEW c, Speaks(g, <<>>, "dead", q, c) \/ Speaks(g, <<>>, "hung", q, c)
      PROVE  SuperInv'
  BY <1>1, <1>3, <1>6, Sayings, QuietSpeech
<1>7. ASSUME NEW q, NEW c, gen[g].proc = "await", Speaks(g, <<>>, "probing", q, c)
      PROVE  SuperInv'
  BY <1>1, <1>3, <1>7, Sayings, QuietSpeech
<1>8. ASSUME NEW q, NEW c, gen[g].proc = "await", Speaks(g, <<"refused">>, "await", q, c)
      PROVE  SuperInv'
  BY <1>1, <1>3, <1>8, Sayings, QuietSpeech
<1>9. ASSUME NEW q, NEW c, Speaks(g, <<"updated">>, "serving", q, c)
      PROVE  SuperInv'
  BY <1>1, <1>3, <1>9, Sayings, QuietSpeech
<1>10. ASSUME NEW q, NEW c, Speaks(g, <<"unchanged">>, "serving", q, c)
      PROVE  SuperInv'
  BY <1>1, <1>3, <1>10, Sayings, QuietSpeech
<1>11. ASSUME NEW q, NEW c, gen[g].proc = "probing",
              Speaks(g, <<"configured", "ready">>, "serving", q, c)
       PROVE  SuperInv'
  <2> DEFINE frames == <<"configured", "ready">>
  <2>1. frames \in Seq(Frames) /\ ~In("degraded", frames)
    BY Sayings, InTwo
  <2>2. Speaks(g, frames, "serving", q, c)
    BY <1>11
  <2> HIDE DEF frames
  <2>3. /\ gen'[g].phase = gen[g].phase /\ gen'[g].proc = "serving"
        /\ \A x : In(x, gen'[g].out) => In(x, gen[g].out) \/ In(x, frames)
        /\ (FramesOK(gen'[g]) => SuperInv')
    BY <1>4, <2>1, <2>2
  <2>4. FramesOK(gen'[g])
    BY <1>2, <2>1, <2>3 DEF FramesOK
  <2> QED
    BY <2>3, <2>4
<1>12. ASSUME NEW q, NEW c, gen[g].proc = "probing",
              Speaks(g, <<"refused", "degraded">>, "dead", q, c)
       PROVE  SuperInv'
  <2> DEFINE frames == <<"refused", "degraded">>
  <2>1. frames \in Seq(Frames) /\ ~In("ready", frames)
    BY Sayings, InTwo
  <2>2. Speaks(g, frames, "dead", q, c)
    BY <1>12
  <2> HIDE DEF frames
  <2>3. /\ gen'[g].phase = gen[g].phase /\ gen'[g].proc = "dead"
        /\ \A x : In(x, gen'[g].out) => In(x, gen[g].out) \/ In(x, frames)
        /\ (FramesOK(gen'[g]) => SuperInv')
    BY <1>4, <2>1, <2>2
  <2>4. FramesOK(gen'[g])
    BY <1>2, <1>12, <2>1, <2>3 DEF FramesOK
  <2> QED
    BY <2>3, <2>4
<1> QED
  BY <1>1, <1>5, <1>6, <1>7, <1>8, <1>9, <1>10, <1>11, <1>12 DEF BrokerSays

-----------------------------------------------------------------------------
\* A step of the supervisor, of a broker with or without it, or the end of the process.
LEMMA NextCases ==
  ASSUME Next
  PROVE  \/ SupervisorStep
         \/ \E g \in Gens : BrokerMoves(g)
         \/ ProcessExits
  BY DEF Next, Runs, Gone, BrokerMoves

LEMMA NextExitOK == ExitOK /\ [Next]_vars => ExitOK'
<1> SUFFICES ASSUME ExitOK, [Next]_vars PROVE ExitOK'
  OBVIOUS
<1>1. exit' \in {exit, "clean", "cut"}
  BY DEF Next, Runs, Gone, ProcessExits, vars
<1> QED
  BY <1>1 DEF ExitOK

LEMMA NextSuperInv == SuperInv /\ [Next]_vars => SuperInv'
<1> SUFFICES ASSUME SuperInv, [Next]_vars PROVE SuperInv'
  OBVIOUS
<1>1. ASSUME NEW c \in Configs, StartBroker(c) PROVE SuperInv'
  BY <1>1, StartBrokerSuper
<1>2. ASSUME NEW c \in Configs, reconfigureBroker(c) PROVE SuperInv'
  BY <1>2, RequestedSuper DEF reconfigureBroker
<1>3. CASE restartBroker
  BY <1>3, SuperFacts, RequestedSuper DEF restartBroker, RestOK
<1>4. CASE stopBrokerSupervisor
  BY <1>4, StopBrokerSuper
<1>5. CASE ChangeBegins
  BY <1>5, ChangeBeginsSuper
<1>6. CASE UpdateTimesOut
  BY <1>6, UpdateTimesOutSuper
<1>7. CASE ChangeGoesOn
  BY <1>7, ChangeGoesOnSuper
<1>8. ASSUME NEW g \in Gens,
             Fails(g) \/ StopEnds(g) \/ ExitSeen(g) \/ FrameArrives(g) \/ BrokerMoves(g)
      PROVE  SuperInv'
  BY <1>8, FailsSuper, StopEndsSuper, ExitSeenSuper, FrameSuper, BrokerSuper
<1>9. CASE RestartTimerFires
  BY <1>9, RestartTimerSuper
<1>10. CASE StableRuntime
  BY <1>10, StableRuntimeSuper
<1>11. ASSUME NEW w \in Waiters, WaitBegins(w) \/ WaitStep(w) PROVE SuperInv'
  BY <1>11, WaitsSuper
<1>12. CASE UNCHANGED vars
  BY <1>12 DEF vars, process, work, asked, SuperInv, RestOK, LifeOK
<1>13. CASE ProcessExits
  BY <1>13 DEF ProcessExits, process, work, asked, SuperInv, RestOK, LifeOK
<1>14. CASE SupervisorStep
  BY <1>1, <1>2, <1>3, <1>4, <1>5, <1>6, <1>7, <1>8, <1>9, <1>10, <1>11, <1>14
     DEF SupervisorStep
<1> QED
  BY <1>8, <1>12, <1>13, <1>14, NextCases

(* Requests are forwarded to the ready generation of the running           *)
(* supervisor and to no other, and every process that lives is the current *)
(* generation or somebody waits to kill it: through failures, restarts,    *)
(* changes of the configuration and shutdown (supervisor.ts).              *)
THEOREM SupervisorIsSound == Spec => []SupervisorInvariant
<1>1. SuperInv /\ ExitOK => SupervisorInvariant
  BY SuperInvSuffices
<1>2. Init => ExitOK
  BY DEF Init, ExitOK
<1> QED
  BY <1>1, <1>2, InitSuperInv, NextSuperInv, NextExitOK, PTL DEF Spec

-----------------------------------------------------------------------------
(* No generation is launched                                               *)
\* Those that are free stay so.
FreeStay == \A g \in Gens : gen[g].proc = "free" => gen'[g].proc = "free"

LEMMA OneMoves ==
  ASSUME NEW g \in Gens, gen[g].proc # "free", \A h \in Gens \ {g} : gen'[h] = gen[h]
  PROVE  FreeStay
  BY DEF FreeStay

LEMMA NothingIsLaunched ==
  ASSUME SuperInv, active = "closed", Next
  PROVE  FreeStay
<1>1. sup.stopping /\ sup.state \in {"stopping", "disabled", "degraded"} /\ SuperInv
  BY SuperFacts DEF LifeOK, SupOK
<1>2. CASE UNCHANGED gen
  BY <1>2 DEF FreeStay
<1>3. ASSUME NEW c \in Configs, StartBroker(c) \/ reconfigureBroker(c) PROVE FreeStay
  BY <1>2, <1>3 DEF StartBroker, reconfigureBroker, Requested
<1>4. CASE restartBroker
  BY <1>2, <1>4 DEF restartBroker, Requested
<1>5. CASE stopBrokerSupervisor
  BY <1>5 DEF stopBrokerSupervisor
<1>6. CASE ChangeBegins
  BY <1>2, <1>6 DEF ChangeBegins
<1>7. CASE UpdateTimesOut
  <2>1. gen' = [g \in Gens |-> [gen[g] EXCEPT !.updating = FALSE]]
    BY <1>1, <1>7 DEF UpdateTimesOut, FallBackToStop
  <2>2. ASSUME NEW g \in Gens PROVE gen'[g].proc = gen[g].proc
    <3>1. gen[g] \in Generation
      BY SuperFacts
    <3> QED
      BY <2>1, <3>1, UpdatingFields
  <2> QED
    BY <2>2 DEF FreeStay
<1>8. CASE ChangeGoesOn
  BY <1>2, <1>8 DEF ChangeGoesOn
<1>9. ASSUME NEW g \in Gens, Fails(g) PROVE FreeStay
  BY <1>1, <1>9 DEF Fails, StartupTimesOut, HeartbeatLapses, ChannelBreaks
<1>10. ASSUME NEW g \in Gens, StopEnds(g) PROVE FreeStay
  <2>1. gen[g].stop # "no" /\ gen' = Killed(g)
    BY <1>10 DEF StopEnds
  <2>2. gen[g].proc # "free"
    BY <2>1, SuperFacts DEF GensOK, GenOK
  <2>3. \A h \in Gens \ {g} : gen'[h] = gen[h]
    BY <2>1, SuperFacts, KilledFields
  <2> QED
    BY <2>2, <2>3, OneMoves
<1>11. ASSUME NEW g \in Gens, ExitSeen(g) PROVE FreeStay
  <2>1. gen[g].proc # "free" /\ \A h \in Gens \ {g} : gen'[h] = gen[h]
    BY <1>11, SuperFacts DEF ExitSeen
  <2> QED
    BY <2>1, OneMoves
<1>12. ASSUME NEW g \in Gens, FrameArrives(g) PROVE FreeStay
  <2> DEFINE frame == Head(gen[g].out)
  <2>1. sup.gen = g /\ gen[g].out # <<>>
    BY <1>12 DEF FrameArrives
  <2>2. gen[g].proc # "free" /\ Heard(g) \in [Gens -> Generation]
    BY <2>1, FrameFacts, SuperFacts DEF GensOK, GenOK
  <2>3. \A h \in Gens \ {g} : Heard(g)[h] = gen[h]
    BY <2>1, FrameFacts
  <2>4. CASE HandshakeFrame(g, frame)
    <3>1. \A h \in Gens \ {g} : gen'[h] = Heard(g)[h]
      <4>1. CASE gen[g].phase # Opens[frame].from
        BY <1>1, <2>4, <4>1 DEF HandshakeFrame, FailGeneration
      <4>2. CASE gen[g].phase = Opens[frame].from
        BY <2>1, <2>4, <4>2, HandshakeGoesOn, FrameFacts
      <4> QED
        BY <4>1, <4>2
    <3> QED
      BY <2>2, <2>3, <3>1, OneMoves
  <2>5. CASE Refused(g, frame) \/ DegradedStatus(g, frame) \/ FrameIgnored(g, frame)
    <3>1. gen' = Heard(g)
      BY <1>1, <2>5 DEF Refused, DegradedStatus, FrameIgnored, FailGeneration
    <3> QED
      BY <2>2, <2>3, <3>1, OneMoves
  <2>6. CASE UpdateTaken(g, frame) \/ UpdateRefused(g, frame)
    <3> DEFINE gs == Answered(g, Heard(g))
    <3>1. gen[g].updating
      BY <2>6 DEF UpdateTaken, UpdateRefused
    <3>2. gs \in [Gens -> Generation] /\ \A h \in Gens \ {g} : gs[h] = gen[h]
      BY <2>1, <3>1, AnsweredFacts DEF Core, GensOK
    <3>3. gen' = gs \/ gen' = [gs EXCEPT ![g].conf = job.config]
      BY <1>1, <2>6 DEF UpdateTaken, UpdateRefused, FallBackToStop
    <3> HIDE DEF gs
    <3>4. \A h \in Gens \ {g} : gen'[h] = gen[h]
      BY <3>2, <3>3
    <3> QED
      BY <2>2, <3>4, OneMoves
  <2> QED
    BY <1>12, <2>4, <2>5, <2>6 DEF FrameArrives
<1>13. ASSUME NEW g \in Gens, BrokerMoves(g) PROVE FreeStay
  <2>1. Alive(g) /\ \A h \in Gens \ {g} : gen'[h] = gen[h]
    BY <1>13, SuperFacts DEF BrokerMoves, BrokerLeaves, BrokerHangs, BrokerStep, BrokerGreets, BrokerReads, BrokerServes,
       BrokerCannotServe, BrokerDies, Says
  <2> QED
    BY <2>1, OneMoves DEF Alive
<1>14. CASE RestartTimerFires
  BY <1>1, <1>14 DEF RestartTimerFires
<1>15. CASE StableRuntime
  BY <1>2, <1>15 DEF StableRuntime
<1>16. ASSUME NEW w \in Waiters, WaitBegins(w) \/ WaitStep(w) PROVE FreeStay
  BY <1>2, <1>16 DEF WaitBegins, WaitStep, WaitSeesSupervisor, WaitTimesOut
<1>17. CASE ProcessExits
  BY <1>2, <1>17 DEF ProcessExits
<1>18. CASE SupervisorStep
  BY <1>3, <1>4, <1>5, <1>6, <1>7, <1>8, <1>9, <1>10, <1>11, <1>12, <1>14, <1>15, <1>16, <1>18
     DEF SupervisorStep
<1> QED
  BY <1>13, <1>17, <1>18, NextCases

(* After stopBrokerSupervisor nothing launches another broker: the only    *)
(* steps that do are a restart timer, which a stopped supervisor has not,  *)
(* and a change, which looks whether it is still wanted.                   *)
THEOREM StopIsForGood == Spec => StoppedForGood
<1> DEFINE Fewer == active = "closed" => \A g \in Gens : Used(g)' => Used(g)
<1>1. ASSUME SuperInv, Next PROVE Fewer
  BY <1>1, NothingIsLaunched DEF FreeStay, Used
<1>2. ASSUME SuperInv, UNCHANGED vars PROVE Fewer
  BY <1>2 DEF vars, Used
<1>3. SuperInv /\ [Next]_vars => [Fewer]_vars
  BY <1>1, <1>2
<1> QED
  BY <1>3, InitSuperInv, NextSuperInv, PTL DEF Spec, StoppedForGood

-----------------------------------------------------------------------------
(* Where the configuration asked for last is                               *)
LEMMA ComingAsked ==
  ASSUME NEW S, NEW q \in Seq(S), NEW f, NEW l \in S
  PROVE  Coming(Append(q, l), f, l)
<1> DEFINE p == Append(q, l)
<1>1. Len(q) \in Nat /\ Len(p) = Len(q) + 1 /\ p[Len(q) + 1] = l
  OBVIOUS
<1> HIDE DEF p
<1>2. Len(q) + 1 \in 1 .. Len(p) /\ \A k \in 1 .. Len(p) : ~(k > Len(q) + 1)
  BY <1>1
<1>3. Coming(p, f, l)
  BY <1>1, <1>2 DEF Coming
<1> QED
  BY <1>3 DEF p

LEMMA ComingAgain ==
  ASSUME NEW S, NEW q \in Seq(S), NEW f, NEW l, Coming(q, f, l), Again \in S
  PROVE  Coming(Append(q, Again), f, l)
<1> DEFINE p == Append(q, Again)
<1>1. /\ Len(q) \in Nat /\ Len(p) = Len(q) + 1 /\ p[Len(q) + 1] = Again
      /\ \A k \in 1 .. Len(q) : p[k] = q[k]
  OBVIOUS
<1> HIDE DEF p
<1>2. \A k \in 1 .. Len(p) : k \in 1 .. Len(q) \/ p[k] = Again
  BY <1>1
<1>3. CASE \E i \in 1 .. Len(q) : q[i] = l /\ \A k \in 1 .. Len(q) : k > i => q[k] = Again
  <2>1. PICK i \in 1 .. Len(q) : q[i] = l /\ \A k \in 1 .. Len(q) : k > i => q[k] = Again
    BY <1>3
  <2>2. i \in 1 .. Len(p) /\ p[i] = l
    BY <1>1, <2>1
  <2>3. \A k \in 1 .. Len(p) : k > i => p[k] = Again
    BY <1>1, <1>2, <2>1
  <2>4. Coming(p, f, l)
    BY <2>2, <2>3 DEF Coming
  <2> QED
    BY <2>4 DEF p
<1>4. CASE (\A k \in 1 .. Len(q) : q[k] = Again) /\ f = l
  <2>1. \A k \in 1 .. Len(p) : p[k] = Again
    BY <1>1, <1>2, <1>4
  <2>2. Coming(p, f, l)
    BY <1>4, <2>1 DEF Coming
  <2> QED
    BY <2>2 DEF p
<1> QED
  BY <1>3, <1>4 DEF Coming

(* The first change of the queue comes into force.                         *)
LEMMA ComingNext ==
  ASSUME NEW S, NEW q \in Seq(S), q # <<>>, NEW f, NEW l, Coming(q, f, l), l # Again
  PROVE  Coming(Tail(q), IF Head(q) = Again THEN f ELSE Head(q), l)
<1> DEFINE p == Tail(q)
           n == IF Head(q) = Again THEN f ELSE Head(q)
<1>1. /\ Len(q) \in Nat /\ Len(q) >= 1 /\ Len(p) = Len(q) - 1 /\ Head(q) = q[1]
      /\ \A k \in 1 .. Len(p) : p[k] = q[k + 1] /\ k + 1 \in 1 .. Len(q)
  OBVIOUS
<1> HIDE DEF p
<1>2. n = IF q[1] = Again THEN f ELSE q[1]
  BY <1>1
<1> HIDE DEF n
<1>3. CASE \E i \in 1 .. Len(q) : q[i] = l /\ \A k \in 1 .. Len(q) : k > i => q[k] = Again
  <2>1. PICK i \in 1 .. Len(q) : q[i] = l /\ \A k \in 1 .. Len(q) : k > i => q[k] = Again
    BY <1>3
  <2>2. CASE i = 1
    <3>1. \A k \in 1 .. Len(p) : p[k] = Again
      BY <1>1, <2>1, <2>2
    <3>2. n = l
      BY <1>2, <2>1, <2>2
    <3> QED
      BY <3>1, <3>2 DEF Coming, p, n
  <2>3. CASE i # 1
    <3>1. i - 1 \in 1 .. Len(p) /\ p[i - 1] = l
      BY <1>1, <2>1, <2>3
    <3>2. \A k \in 1 .. Len(p) : k > i - 1 => p[k] = Again
      BY <1>1, <2>1
    <3>3. Coming(p, n, l)
      BY <3>1, <3>2 DEF Coming
    <3> QED
      BY <3>3 DEF p, n
  <2> QED
    BY <2>2, <2>3
<1>4. CASE (\A k \in 1 .. Len(q) : q[k] = Again) /\ f = l
  <2>1. \A k \in 1 .. Len(p) : p[k] = Again
    BY <1>1, <1>4
  <2>2. n = l
    BY <1>1, <1>2, <1>4
  <2> QED
    BY <2>1, <2>2 DEF Coming, p, n
<1> QED
  BY <1>3, <1>4 DEF Coming

LEMMA MarksFacts ==
  /\ \A c \in Configs : c # Again /\ c # Stop /\ c # None
  BY MarksAreNoConfigs

-----------------------------------------------------------------------------
(* A frame that is sent once                                               *)
LEMMA OnceTail ==
  ASSUME NEW S, NEW s \in Seq(S), s # <<>>, NEW x, Once(x, s)
  PROVE  Once(x, Tail(s)) /\ (Head(s) = x => ~In(x, Tail(s)))
<1> DEFINE p == Tail(s)
<1>1. /\ Len(s) \in Nat /\ Len(s) >= 1 /\ Len(p) = Len(s) - 1 /\ Head(s) = s[1]
      /\ \A k \in 1 .. Len(p) : p[k] = s[k + 1] /\ k + 1 \in 1 .. Len(s) /\ k + 1 # 1
  OBVIOUS
<1> HIDE DEF p
<1>2. Once(x, p)
  <2> SUFFICES ASSUME NEW i \in 1 .. Len(p), NEW k \in 1 .. Len(p), p[i] = x, p[k] = x
               PROVE  i = k
    BY DEF Once
  <2>1. i + 1 = k + 1
    BY <1>1 DEF Once
  <2> QED
    BY <1>1, <2>1
<1>3. ASSUME Head(s) = x, In(x, p) PROVE FALSE
  <2>1. PICK k \in 1 .. Len(p) : p[k] = x
    BY <1>3 DEF In
  <2>2. s[1] = x /\ s[k + 1] = x /\ 1 \in 1 .. Len(s)
    BY <1>1, <1>3, <2>1
  <2>3. 1 = k + 1
    BY <1>1, <2>1, <2>2 DEF Once
  <2> QED
    BY <1>1, <2>1, <2>3
<1> QED
  BY <1>2, <1>3 DEF p

LEMMA OnceConcat ==
  ASSUME NEW S, NEW s \in Seq(S), NEW t \in Seq(S), NEW x, Once(x, s),
         ~In(x, t) \/ (~In(x, s) /\ Once(x, t))
  PROVE  Once(x, s \o t)
<1> DEFINE p == s \o t
<1>1. /\ Len(s) \in Nat /\ Len(t) \in Nat /\ Len(p) = Len(s) + Len(t)
      /\ \A i \in 1 .. Len(s) + Len(t) : p[i] = IF i <= Len(s) THEN s[i] ELSE t[i - Len(s)]
  OBVIOUS
<1> HIDE DEF p
<1>2. \A i \in 1 .. Len(p) : \/ i \in 1 .. Len(s) /\ p[i] = s[i]
                             \/ i - Len(s) \in 1 .. Len(t) /\ p[i] = t[i - Len(s)]
  BY <1>1
<1>3. Once(x, p)
  <2> SUFFICES ASSUME NEW i \in 1 .. Len(p), NEW k \in 1 .. Len(p), p[i] = x, p[k] = x
               PROVE  i = k
    BY DEF Once
  <2>1. CASE ~In(x, t)
    <3>1. i \in 1 .. Len(s) /\ p[i] = s[i]
      BY <1>2, <2>1 DEF In
    <3>2. k \in 1 .. Len(s) /\ p[k] = s[k]
      BY <1>2, <2>1 DEF In
    <3> QED
      BY <3>1, <3>2 DEF Once
  <2>2. CASE ~In(x, s) /\ Once(x, t)
    <3>1. i - Len(s) \in 1 .. Len(t) /\ p[i] = t[i - Len(s)]
      BY <1>2, <2>2 DEF In
    <3>2. k - Len(s) \in 1 .. Len(t) /\ p[k] = t[k - Len(s)]
      BY <1>2, <2>2 DEF In
    <3>3. i - Len(s) = k - Len(s)
      BY <2>2, <3>1, <3>2 DEF Once
    <3> QED
      BY <1>1, <3>3
  <2> QED
    BY <2>1, <2>2
<1> QED
  BY <1>3 DEF p

LEMMA OnceShort ==
  ASSUME NEW x, NEW y
  PROVE  Once(x, <<>>) /\ Once(x, <<y>>)
  BY DEF Once

-----------------------------------------------------------------------------
(* What a generation serves                                                *)
LEMMA SpawnedServing ==
  ASSUME NEW c \in Configs, NEW d
  PROVE  ServingOK(Spawned(c), d)
<1> DEFINE r == Spawned(c)
<1>1. /\ r.proc = "boot" /\ r.phase = "spawned" /\ r.in = <<>> /\ r.out = <<>>
      /\ r.updating = FALSE
  BY SpawnedFields
<1> HIDE DEF r
<1>2. ServingOK(r, d)
  BY <1>1, InEmpty, OnceShort DEF ServingOK, Configured
<1> QED
  BY <1>2 DEF r

LEMMA IdleServing ==
  ASSUME NEW r, NEW c, NEW d, ServingOK(r, c), ~r.updating
  PROVE  ServingOK(r, d)
  BY DEF ServingOK

\* Record r is that of generation t but for what it still has to say.
LessSaid(r, t) ==
  /\ r.proc = t.proc /\ r.in = t.in /\ r.conf = t.conf /\ r.serves = t.serves
  /\ r.updating = t.updating
  /\ \A x : In(x, r.out) => In(x, t.out)
  /\ Once("updated", t.out) => Once("updated", r.out)

LEMMA TookServing ==
  ASSUME NEW r, NEW t, NEW c, ServingOK(t, c), LessSaid(r, t), r.phase = t.phase
  PROVE  ServingOK(r, c)
<1>1. Configured(r) => Configured(t)
  BY DEF LessSaid, Configured
<1> QED
  BY <1>1 DEF ServingOK, LessSaid

LEMMA GreetServing ==
  ASSUME NEW r, NEW t, NEW c, ServingOK(t, c), NEW frame \in DOMAIN Opens,
         In(frame, t.out), t.phase = Opens[frame].from, r.phase = Opens[frame].to,
         r.proc = t.proc, r.conf = t.conf, r.serves = t.serves, r.updating = t.updating,
         \A x : In(x, r.out) => In(x, t.out), Once("updated", r.out),
         r.in = IF frame = "hello" THEN Append(t.in, t.conf) ELSE t.in
  PROVE  ServingOK(r, c)
<1>1. CASE frame = "hello"
  <2>1. t.phase = "spawned" /\ r.phase = "greeted"
    BY <1>1, OpensFields
  <2>2. t.in = <<>> /\ ~Configured(t) /\ ~t.updating
    BY <2>1 DEF ServingOK
  <2>3. r.in = <<t.conf>> /\ ~Configured(r) /\ ~In("updated", t.out)
    BY <1>1, <2>1, <2>2 DEF Configured, ServingOK
  <2> QED
    BY <2>1, <2>2, <2>3 DEF ServingOK
<1>2. CASE frame # "hello"
  <2>1. Configured(t) /\ r.in = t.in
    BY <1>2, OpensFields DEF Configured
  <2>2. t.phase # "ready" /\ r.phase # "spawned"
    BY <1>2, OpensFields
  <2>3. ~t.updating
    BY <2>2 DEF ServingOK
  <2>4. t.proc \notin {"boot", "await"} /\ t.in = <<>> /\ t.serves = t.conf
    BY <2>1, <2>3 DEF ServingOK
  <2> QED
    BY <2>1, <2>2, <2>3, <2>4 DEF ServingOK
<1> QED
  BY <1>1, <1>2

-----------------------------------------------------------------------------
(* Steps that leave the configuration asked for where it is                *)
LEMMA ConfigFacts ==
  ASSUME ConfigInv
  PROVE  /\ SuperInv /\ WantedOK /\ ServedOK(sup, gen, job, active)
         /\ active \in {"none", "up", "closed"}
  BY SuperFacts DEF ConfigInv, ConfigOK, RestOK

LEMMA SameWanted ==
  ASSUME WantedOK, UNCHANGED <<active, key, queue, latest>>, InForce' = InForce,
         sup'.config = sup.config
  PROVE  WantedOK'
  BY DEF WantedOK

LEMMA SameServed ==
  ASSUME NEW s, NEW gs, NEW j, NEW a, ServedOK(s, gs, j, a),
         NEW s2, NEW gs2, NEW j2, NEW a2, a2 = "up" => a = "up",
         s2.config = s.config, j2.config = j.config,
         s2.gen # None => /\ s2.gen = s.gen /\ gs2[s.gen] = gs[s.gen]
                          /\ (s.stopping => s2.stopping)
  PROVE  ServedOK(s2, gs2, j2, a2)
  BY DEF ServedOK

LEMMA StoppingServed ==
  ASSUME NEW s, NEW gs, NEW j, NEW a, ServedOK(s, gs, j, a),
         NEW s2, NEW gs2, NEW j2, NEW a2, a2 = "up" => a = "up",
         s2.config = s.config, s2.stopping,
         s2.gen # None => s2.gen = s.gen /\ gs2[s.gen].conf = gs[s.gen].conf
  PROVE  ServedOK(s2, gs2, j2, a2)
  BY DEF ServedOK

LEMMA LaunchedServed ==
  ASSUME NEW s, NEW gs, NEW j, NEW a, s.config \in Configs,
         s.gen # None => gs[s.gen] = Spawned(s.config)
  PROVE  ServedOK(s, gs, j, a)
  BY SpawnedFields, SpawnedServing DEF ServedOK

\* Neither the changes nor what they ask for move.
LEMMA QuietConfig ==
  ASSUME ConfigInv, UNCHANGED <<process, work, asked>>, sup'.config = sup.config,
         sup'.gen # None => /\ sup'.gen = sup.gen /\ gen'[sup.gen] = gen[sup.gen]
                            /\ (sup.stopping => sup'.stopping)
  PROVE  ConfigOK'
<1>1. UNCHANGED <<active, key, queue, job, latest>>
  BY DEF process, work, asked
<1>2. InForce' = InForce
  BY <1>1 DEF InForce
<1>3. WantedOK'
  BY <1>1, <1>2, ConfigFacts, SameWanted
<1>4. ServedOK(sup', gen', job', active')
  BY <1>1, ConfigFacts, SameServed
<1> QED
  BY <1>3, <1>4 DEF ConfigOK

LEMMA FailedConfig ==
  ASSUME ConfigInv, NEW gs, NEW g \in Gens, Core(sup, upstream, gs, job, active),
         FailGeneration(g, gs), sup.gen = g, UNCHANGED <<process, work, asked>>,
         gs[g].conf = gen[g].conf
  PROVE  ConfigOK'
<1>1. /\ sup'.stopping = sup.stopping /\ sup'.config = sup.config
      /\ sup'.gen = None \/ (sup' = sup /\ gen' = gs)
  BY FailCore
<1>2. CASE sup'.gen = None
  BY <1>1, <1>2, QuietConfig
<1>3. CASE sup'.gen # None
  <2>1. sup' = sup /\ gen' = gs
    BY <1>1, <1>3
  <2>2. sup.stopping
    <3>1. CASE ~sup.stopping
      <4>1. sup' = [sup EXCEPT !.gen = None, !.state = "degraded"]
        BY <3>1 DEF FailGeneration
      <4>2. sup'.gen = None
        BY <4>1, ConfigFacts, SuperFacts DEF Supervisor
      <4> QED
        BY <1>3, <4>2
    <3> QED
      BY <3>1, ConfigFacts, SuperFacts, StateType
  <2>3. UNCHANGED <<active, key, queue, job, latest>>
    BY DEF process, work, asked
  <2>4. InForce' = InForce
    BY <2>3 DEF InForce
  <2>5. WantedOK'
    BY <2>1, <2>3, <2>4, ConfigFacts, SameWanted
  <2>6. ServedOK(sup', gen', job', active')
    BY <2>1, <2>2, <2>3, ConfigFacts, StoppingServed
  <2> QED
    BY <2>5, <2>6 DEF ConfigOK
<1> QED
  BY <1>2, <1>3

LEMMA FailsConfig ==
  ASSUME ConfigInv, NEW g \in Gens, Fails(g)
  PROVE  ConfigOK'
<1>1. /\ FailGeneration(g, gen) /\ sup.gen = g /\ UNCHANGED <<process, work, asked>>
  BY DEF Fails, StartupTimesOut, HeartbeatLapses, ChannelBreaks
<1> QED
  BY <1>1, ConfigFacts, SuperFacts, FailedConfig

LEMMA RescheduledConfig ==
  ASSUME NEW s \in Supervisor,
         NEW t \in Rescheduled(s) \cup {[s EXCEPT !.state = "unavailable"]}
  PROVE  t.config = s.config /\ t.gen = s.gen
<1>1. CASE t = [s EXCEPT !.state = "unavailable"]
  BY <1>1 DEF Supervisor
<1>2. CASE t \in Rescheduled(s)
  <2>1. PICK n \in 1 .. s.recent + 1 :
          t = [s EXCEPT !.recent = n, !.state = IF n > Budget THEN "circuit-open" ELSE "backoff"]
    BY <1>2 DEF Rescheduled
  <2> QED
    BY <2>1 DEF Supervisor
<1> QED
  BY <1>1, <1>2

LEMMA StopEndsConfig ==
  ASSUME ConfigInv, NEW g \in Gens, StopEnds(g)
  PROVE  ConfigOK'
<1>1. gen[g].stop # "no" /\ gen' = Killed(g) /\ UNCHANGED <<process, work, asked>>
  BY DEF StopEnds
<1>2. GenOK(sup, gen[g], g) /\ g # None /\ sup \in Supervisor
  BY ConfigFacts, SuperFacts, NoneAssumption DEF GensOK
<1>3. CASE sup' = [sup EXCEPT !.gen = None, !.state = "disabled"]
  <2>1. sup'.gen = None /\ sup'.config = sup.config
    BY <1>2, <1>3 DEF Supervisor
  <2> QED
    BY <1>1, <2>1, QuietConfig
<1>4. CASE gen[g].stop = "fail" /\ sup' \in Rescheduled(sup)
  <2>1. sup.gen = None
    BY <1>2, <1>4 DEF GenOK
  <2>2. sup'.gen = None /\ sup'.config = sup.config
    BY <1>2, <1>4, <2>1, RescheduledConfig
  <2> QED
    BY <1>1, <2>2, QuietConfig
<1>5. CASE sup' = sup /\ gen[g].stop # "final"
  <2>1. sup.gen # g
    BY <1>1, <1>2, <1>5 DEF GenOK
  <2>2. \A h \in Gens \ {g} : gen'[h] = gen[h]
    BY <1>1, ConfigFacts, SuperFacts, KilledFields
  <2>3. sup.gen # None => gen'[sup.gen] = gen[sup.gen]
    BY <1>2, <2>1, <2>2 DEF Supervisor
  <2> QED
    BY <1>1, <1>5, <2>3, QuietConfig
<1> QED
  BY <1>3, <1>4, <1>5 DEF StopEnds

LEMMA ExitSeenConfig ==
  ASSUME ConfigInv, NEW g \in Gens, ExitSeen(g)
  PROVE  ConfigOK'
<1>1. /\ UNCHANGED <<process, work, asked>> /\ sup \in Supervisor
      /\ \A h \in Gens \ {g} : gen'[h] = gen[h]
  BY ConfigFacts, SuperFacts DEF ExitSeen
<1>2. CASE sup.gen # g
  <2>1. sup' = sup
    BY <1>2 DEF ExitSeen
  <2>2. sup.gen # None => gen'[sup.gen] = gen[sup.gen]
    BY <1>1, <1>2 DEF Supervisor
  <2> QED
    BY <1>1, <2>1, <2>2, QuietConfig
<1>3. CASE sup.gen = g
  <2> DEFINE gone == [sup EXCEPT !.gen = None]
  <2>1. gone \in Supervisor /\ gone.gen = None /\ gone.config = sup.config
    BY <1>1 DEF Supervisor
  <2>2. sup' = gone \/ sup' \in Rescheduled(gone) \cup {[gone EXCEPT !.state = "unavailable"]}
    BY <1>3 DEF ExitSeen
  <2> HIDE DEF gone
  <2>3. sup'.gen = None /\ sup'.config = sup.config
    BY <2>1, <2>2, RescheduledConfig
  <2> QED
    BY <1>1, <2>3, QuietConfig
<1> QED
  BY <1>2, <1>3

LEMMA RestartTimerConfig ==
  ASSUME ConfigInv, RestartTimerFires
  PROVE  ConfigOK'
<1> DEFINE s == IF sup.state = "circuit-open" THEN [sup EXCEPT !.recent = 0] ELSE sup
<1>1. /\ sup.state \in {"backoff", "circuit-open"} /\ BeginLaunch(s, gen, waiter)
      /\ UNCHANGED <<active, key, queue, job, latest>>
  BY DEF RestartTimerFires, process, work, asked
<1>2. s \in Supervisor /\ s.gen = None /\ s.config = sup.config /\ s.config \in Configs
  <2>1. sup \in Supervisor /\ sup.gen = None /\ sup.config \in Configs
    BY <1>1, ConfigFacts, SuperFacts, StateType DEF SupOK
  <2> QED
    BY <2>1, BoundsAssumption DEF Supervisor
<1> HIDE DEF s
<1>3. /\ sup'.config = sup.config
      /\ sup'.gen # None => gen'[sup'.gen] = Spawned(sup.config)
  <2>1. CASE gen' = gen /\ sup' \in Rescheduled(s) \cup {[s EXCEPT !.state = "unavailable"]}
    BY <1>2, <2>1, RescheduledConfig
  <2>2. ASSUME NEW g \in Gens, gen' = [gen EXCEPT ![g] = Spawned(s.config)],
               sup' = [s EXCEPT !.gen = g, !.state = "starting"]
        PROVE  sup'.config = sup.config /\ gen'[sup'.gen] = Spawned(sup.config)
    <3>1. sup'.gen = g /\ sup'.config = s.config
      BY <1>2, <2>2 DEF Supervisor
    <3>2. gen'[g] = Spawned(s.config)
      BY <2>2, ConfigFacts, SuperFacts
    <3> QED
      BY <1>2, <3>1, <3>2
  <2> QED
    BY <1>1, <2>1, <2>2 DEF BeginLaunch
<1>4. InForce' = InForce
  BY <1>1 DEF InForce
<1>5. WantedOK'
  BY <1>1, <1>3, <1>4, ConfigFacts, SameWanted
<1>6. ServedOK(sup', gen', job', active')
  BY <1>2, <1>3, LaunchedServed
<1> QED
  BY <1>5, <1>6 DEF ConfigOK

LEMMA StableRuntimeConfig ==
  ASSUME ConfigInv, StableRuntime
  PROVE  ConfigOK'
<1>1. sup \in Supervisor /\ sup' = [sup EXCEPT !.recent = 0] /\ gen' = gen
      /\ UNCHANGED <<process, work, asked>>
  BY ConfigFacts, SuperFacts DEF StableRuntime
<1>2. sup'.gen = sup.gen /\ sup'.config = sup.config /\ sup'.stopping = sup.stopping
  BY <1>1 DEF Supervisor
<1> QED
  BY <1>1, <1>2, QuietConfig

LEMMA WaitsConfig ==
  ASSUME ConfigInv, NEW w \in Waiters, WaitBegins(w) \/ WaitStep(w)
  PROVE  ConfigOK'
  BY QuietConfig DEF WaitBegins, WaitStep, WaitSeesSupervisor, WaitTimesOut

-----------------------------------------------------------------------------
(* Changes                                                                 *)
LEMMA StartBrokerConfig ==
  ASSUME ConfigInv, NEW c \in Configs, StartBroker(c)
  PROVE  ConfigOK'
<1>1. active = "none" /\ active' = "up" /\ latest' = c /\ Start(c, waiter)
      /\ queue' = queue /\ job' = job
  BY DEF StartBroker, work
<1>2. queue = <<>> /\ sup.gen = None /\ ~sup.stopping /\ job.at = "idle"
  BY <1>1, ConfigFacts, SuperFacts DEF WantedOK, LifeOK
<1>3. /\ sup'.config = c /\ key' = c
      /\ sup'.gen # None => gen'[sup'.gen] = Spawned(c)
  BY <1>1, <1>2, ConfigFacts, SuperFacts, StartCore
<1>4. InForce' = c
  BY <1>1, <1>2, <1>3 DEF InForce
<1>5. Coming(queue', InForce', latest')
  BY <1>1, <1>2, <1>4 DEF Coming
<1>6. WantedOK'
  BY <1>1, <1>3, <1>5 DEF WantedOK
<1>7. ServedOK(sup', gen', job', active')
  BY <1>3, LaunchedServed
<1> QED
  BY <1>6, <1>7 DEF ConfigOK

LEMMA RequestedConfig ==
  ASSUME ConfigInv, NEW change \in Configs \cup {Again}, Requested(change),
         IF change = Again THEN latest' = latest ELSE latest' = change
  PROVE  ConfigOK'
<1>1. /\ active # "none" /\ queue' = Append(queue, change)
      /\ UNCHANGED <<active, key, sup, gen, job>>
  BY DEF Requested, process
<1>2. InForce' = InForce
  BY <1>1 DEF InForce
<1>3. latest' \in Configs
  BY <1>1, ConfigFacts DEF WantedOK
<1>4. ASSUME active = "up" PROVE Coming(queue', InForce', latest')
  <2>1. Coming(queue, InForce, latest) /\ queue \in Seq(Configs \cup {Again})
    BY <1>4, ConfigFacts, SuperFacts DEF WantedOK
  <2>2. CASE change = Again
    <3>1. Coming(Append(queue, Again), InForce, latest)
      BY <2>1, ComingAgain
    <3> QED
      BY <1>1, <1>2, <2>2, <3>1
  <2>3. CASE change # Again
    <3>1. Coming(Append(queue, change), InForce, change)
      BY <2>1, ComingAsked
    <3> QED
      BY <1>1, <1>2, <2>3, <3>1
  <2> QED
    BY <2>2, <2>3
<1>5. WantedOK'
  BY <1>1, <1>3, <1>4, ConfigFacts DEF WantedOK
<1>6. ServedOK(sup', gen', job', active')
  BY <1>1, ConfigFacts
<1> QED
  BY <1>5, <1>6 DEF ConfigOK

LEMMA StopBrokerConfig ==
  ASSUME ConfigInv, stopBrokerSupervisor
  PROVE  ConfigOK'
<1>1. /\ active = "up" /\ active' = "closed" /\ UNCHANGED <<queue, job, latest>>
  BY DEF stopBrokerSupervisor, work, asked
<1>2. WantedOK'
  BY <1>1, ConfigFacts DEF WantedOK
<1>3. sup'.stopping
  <2>1. CASE sup.stopping
    BY <2>1 DEF stopBrokerSupervisor
  <2>2. CASE ~sup.stopping
    BY <2>2, ConfigFacts, SuperFacts, StopCore DEF stopBrokerSupervisor
  <2> QED
    BY <2>1, <2>2
<1>4. ServedOK(sup', gen', job', active')
  BY <1>1, <1>3 DEF ServedOK
<1> QED
  BY <1>2, <1>4 DEF ConfigOK

LEMMA FallBackConfig ==
  ASSUME ConfigInv, job.at = "update", NEW gs, Core(sup, upstream, gs, job, active),
         \A g \in Gens : ~gs[g].updating, FallBackToStop(gs), UNCHANGED <<queue, asked>>,
         \A g \in Gens : gs[g].conf = gen[g].conf
  PROVE  ConfigOK'
<1>1. /\ sup'.stopping /\ active' = active /\ key' = key
      /\ job'.at = "stop" /\ job'.config = job.config
      /\ sup'.config = sup.config /\ sup'.gen = sup.gen
      /\ \A g \in Gens : gen'[g].conf = gs[g].conf
  BY ConfigFacts, FallBackCore
<1>2. queue' = queue /\ latest' = latest
  BY DEF asked
<1>3. InForce' = InForce
  BY <1>1 DEF InForce
<1>4. WantedOK'
  BY <1>1, <1>2, <1>3, ConfigFacts, SameWanted
<1>5. sup.gen # None => gen'[sup.gen].conf = gen[sup.gen].conf
  <2>1. sup.gen \in Gens \cup {None}
    BY ConfigFacts, SuperFacts, StateType
  <2> QED
    BY <1>1, <2>1
<1>6. ServedOK(sup', gen', job', active')
  BY <1>1, <1>5, ConfigFacts, StoppingServed
<1> QED
  BY <1>4, <1>6 DEF ConfigOK

LEMMA UpdateTimesOutConfig ==
  ASSUME ConfigInv, UpdateTimesOut
  PROVE  ConfigOK'
<1>1. job.at = "update" /\ FallBackToStop(Quiet(gen)) /\ UNCHANGED <<queue, asked>>
  BY DEF UpdateTimesOut, Quiet
<1>2. Core(sup, upstream, gen, job, active)
  BY ConfigFacts, SuperFacts
<1>3. /\ Core(sup, upstream, Quiet(gen), job, active)
      /\ \A g \in Gens : ~Quiet(gen)[g].updating /\ Quiet(gen)[g].conf = gen[g].conf
  BY <1>2, QuietCore
<1> QED
  BY <1>1, <1>3, FallBackConfig

LEMMA ChangeGoesOnConfig ==
  ASSUME ConfigInv, ChangeGoesOn
  PROVE  ConfigOK'
<1>1. /\ job.at = "stop" /\ sup.stopping /\ sup.state = "disabled"
      /\ job' = [at |-> "idle", config |-> None]
      /\ UNCHANGED <<active, queue, latest>>
  BY DEF ChangeGoesOn, Stopped, asked
<1>2. sup.gen = None /\ job.config \in Configs
  BY <1>1, ConfigFacts, SuperFacts DEF SupOK, LifeOK
<1>3. CASE active = "up"
  <2>1. Start(job.config, Advanced(waiter))
    BY <1>3 DEF ChangeGoesOn
  <2>2. /\ sup'.config = job.config /\ key' = job.config
        /\ sup'.gen # None => gen'[sup'.gen] = Spawned(job.config)
    BY <1>1, <1>2, <2>1, ConfigFacts, SuperFacts, StartCore
  <2>3. InForce' = InForce
    BY <1>1, <2>2 DEF InForce
  <2>4. WantedOK'
    BY <1>1, <1>3, <2>2, <2>3, ConfigFacts DEF WantedOK
  <2>5. ServedOK(sup', gen', job', active')
    BY <1>2, <2>2, LaunchedServed
  <2> QED
    BY <2>4, <2>5 DEF ConfigOK
<1>4. CASE active # "up"
  <2>1. UNCHANGED <<sup, gen>>
    BY <1>4 DEF ChangeGoesOn
  <2>2. WantedOK'
    BY <1>1, <1>4, ConfigFacts DEF WantedOK
  <2>3. ServedOK(sup', gen', job', active')
    BY <1>1, <1>4, <2>1 DEF ServedOK
  <2> QED
    BY <2>2, <2>3 DEF ConfigOK
<1> QED
  BY <1>3, <1>4

LEMMA ChangeBeginsConfig ==
  ASSUME ConfigInv, ChangeBegins
  PROVE  ConfigOK'
<1> DEFINE c == Head(queue)
           n == IF c = Again THEN InForce ELSE c
<1>1. /\ job.at = "idle" /\ queue # <<>> /\ queue' = Tail(queue)
      /\ active' = active /\ key' = key /\ latest' = latest
  BY DEF ChangeBegins, process, asked
<1>2. /\ active # "none" /\ latest \in Configs /\ InForce = key
      /\ queue \in Seq(Configs \cup {Again}) /\ c \in Configs \cup {Again}
  <2>1. queue \in Seq(Configs \cup {Again})
    BY ConfigFacts, SuperFacts
  <2>2. c \in Configs \cup {Again}
    BY <1>1, <2>1, HeadTailProperties
  <2> QED
    BY <1>1, <2>1, <2>2, ConfigFacts DEF WantedOK, InForce
<1>3. active = "up" => Coming(Tail(queue), n, latest) /\ sup.config = key /\ key \in Configs
  <2> SUFFICES ASSUME active = "up"
               PROVE  Coming(Tail(queue), n, latest) /\ sup.config = key /\ key \in Configs
    OBVIOUS
  <2>1. Coming(queue, InForce, latest) /\ sup.config = key /\ key \in Configs
    BY ConfigFacts, SuperFacts DEF WantedOK, LifeOK
  <2>2. latest # Again
    BY <1>2, MarksFacts
  <2>3. Coming(Tail(queue), n, latest)
    BY <1>1, <1>2, <2>1, <2>2, ComingNext
  <2> QED
    BY <2>1, <2>3
<1> HIDE DEF n
<1>4. n = IF c = Again THEN key ELSE c
  BY <1>2 DEF n
<1>5. \A g \in Gens : ~gen[g].updating
  BY <1>1, ConfigFacts, SuperFacts DEF UpdatesOK
<1>6. sup.gen \in Gens \cup {None} /\ sup.stopping \in BOOLEAN
  BY ConfigFacts, SuperFacts, StateType
<1>7. ASSUME active = "up" => InForce' = n /\ sup'.config = sup.config
      PROVE  WantedOK'
  BY <1>1, <1>2, <1>3, <1>7 DEF WantedOK
<1>8. CASE (active # "up" \/ c = key) /\ ChangeEnds /\ UNCHANGED <<sup, gen>>
  <2>1. InForce' = key
    BY <1>1, <1>8 DEF ChangeEnds, InForce
  <2>2. active = "up" => n = key
    BY <1>3, <1>4, <1>8
  <2>3. WantedOK'
    BY <1>7, <1>8, <2>1, <2>2
  <2>4. ServedOK(sup', gen', job', active')
    BY <1>1, <1>5, <1>6, <1>8, ConfigFacts, IdleServing DEF ServedOK
  <2> QED
    BY <2>3, <2>4 DEF ConfigOK
<1>9. CASE /\ active = "up" /\ c \notin {key, Again} /\ CanUpdate(c)
           /\ job' = [at |-> "update", config |-> c]
           /\ gen' = [gen EXCEPT ![sup.gen].updating = TRUE, ![sup.gen].in = Append(@, c)]
           /\ sup' = sup
  <2> DEFINE g == sup.gen
             o == gen[g]
             t == [o EXCEPT !.updating = TRUE]
             q == Append(o.in, c)
             r == [t EXCEPT !.in = q]
  <2>1. g \in Gens /\ c \in Configs /\ o.phase = "ready"
    BY <1>2, <1>6, <1>9 DEF CanUpdate
  <2>2. o \in Generation /\ o.in \in Seq(Configs \cup {Stop})
    BY <2>1, ConfigFacts, SuperFacts, RecordTypes
  <2>3. q \in Seq(Configs \cup {Stop})
    BY <2>1, <2>2
  <2>4. gen'[g] = r
    BY <1>9, <2>1, ConfigFacts, SuperFacts
  <2>5. ~o.updating
    BY <1>5, <2>1
  <2>6. ~sup.stopping
    BY <1>1, <1>6, <1>9, ConfigFacts, SuperFacts DEF LifeOK
  <2>7. g # None
    BY <2>1, NoneAssumption
  <2>8. ServingOK(o, job.config) /\ o.conf = sup.config
    BY <1>9, <2>6, <2>7, ConfigFacts DEF ServedOK
  <2> HIDE DEF o, q
  <2>9. /\ t \in Generation /\ t.updating = TRUE /\ t.phase = o.phase /\ t.conf = o.conf
        /\ t.out = o.out /\ t.stop = o.stop /\ t.serves = o.serves /\ t.in = o.in /\ t.proc = o.proc
    BY <2>2, UpdatingFields
  <2> HIDE DEF t
  <2>10. /\ r \in Generation /\ r.in = q /\ r.phase = t.phase /\ r.conf = t.conf
         /\ r.updating = t.updating /\ r.serves = t.serves /\ r.out = t.out /\ r.proc = t.proc
    BY <2>3, <2>9, InFields
  <2> HIDE DEF r, g
  <2>11. /\ o.proc \notin {"boot", "await"} /\ o.in = <<>> /\ o.serves = o.conf
         /\ ~In("updated", o.out) /\ Once("updated", o.out)
    BY <2>1, <2>5, <2>8 DEF ServingOK, Configured
  <2>12. q = <<c>>
    BY <2>11 DEF q
  <2>13. ServingOK(r, c)
    BY <2>1, <2>9, <2>10, <2>11, <2>12 DEF ServingOK
  <2>14. r.conf = sup.config
    BY <2>8, <2>9, <2>10
  <2>15. job'.config = c
    BY <1>9
  <2>16. ServedOK(sup', gen', job', active')
    BY <1>9, <2>4, <2>13, <2>14, <2>15 DEF ServedOK, g
  <2>17. InForce' = c /\ n = c
    BY <1>4, <1>9 DEF InForce
  <2>18. WantedOK'
    BY <1>7, <1>9, <2>17
  <2> QED
    BY <2>16, <2>18 DEF ConfigOK
<1>10. CASE /\ active = "up" /\ c # key
            /\ job' = [at |-> "stop", config |-> IF c = Again THEN key ELSE c]
            /\ PerformStop(gen)
  <2>1. ~sup.stopping
    BY <1>1, <1>6, <1>10, ConfigFacts, SuperFacts DEF LifeOK
  <2>2. /\ sup'.stopping /\ sup'.config = sup.config /\ sup'.gen = sup.gen
        /\ \A g \in Gens : gen'[g].conf = gen[g].conf
    BY <1>10, <2>1, ConfigFacts, SuperFacts, StopCore
  <2>3. ServedOK(sup', gen', job', active')
    BY <1>1, <1>6, <2>2, ConfigFacts, StoppingServed
  <2>4. InForce' = n
    BY <1>4, <1>10 DEF InForce
  <2>5. WantedOK'
    BY <1>7, <2>2, <2>4
  <2> QED
    BY <2>3, <2>5 DEF ConfigOK
<1> QED
  BY <1>8, <1>9, <1>10 DEF ChangeBegins

-----------------------------------------------------------------------------
(* Frames, and what the broker process does                                *)
\* The current generation moves on.
LEMMA MovedConfig ==
  ASSUME ConfigInv, NEW g \in Gens, sup.gen = g, UNCHANGED <<process, work, asked>>,
         sup'.gen = g, sup'.config = sup.config, sup'.stopping = sup.stopping,
         gen'[g].conf = gen[g].conf,
         ~sup.stopping /\ ServingOK(gen[g], job.config) => ServingOK(gen'[g], job.config)
  PROVE  ConfigOK'
<1>1. UNCHANGED <<active, key, queue, job, latest>>
  BY DEF process, work, asked
<1>2. InForce' = InForce
  BY <1>1 DEF InForce
<1>3. WantedOK'
  BY <1>1, <1>2, ConfigFacts, SameWanted
<1>4. ServedOK(sup', gen', job', active')
  BY <1>1, ConfigFacts, NoneAssumption DEF ServedOK
<1> QED
  BY <1>3, <1>4 DEF ConfigOK

LEMMA TookLess ==
  ASSUME ConfigInv, NEW g \in Gens, sup.gen = g, gen[g].out # <<>>
  PROVE  LessSaid(Took(gen, g)[g], gen[g])
<1>1. gen[g].out \in Seq(Frames)
  BY ConfigFacts, SuperFacts, RecordTypes
<1>2. Once("updated", gen[g].out) => Once("updated", Tail(gen[g].out))
  BY <1>1, OnceTail
<1> QED
  BY <1>2, ConfigFacts, FrameFacts DEF LessSaid

LEMMA HandshakeConfig ==
  ASSUME ConfigInv, NEW g \in Gens, sup.gen = g, gen[g].out # <<>>,
         NEW frame, frame = Head(gen[g].out), HandshakeFrame(g, frame),
         UNCHANGED <<queue, asked>>
  PROVE  ConfigOK'
<1>0. SuperInv /\ sup \in Supervisor
  BY ConfigFacts, SuperFacts
<1>1. CASE gen[g].phase # Opens[frame].from
  <2>1. /\ FailGeneration(g, Heard(g)) /\ UNCHANGED <<process, work, asked>>
    BY <1>1 DEF HandshakeFrame, work
  <2>2. Core(sup, upstream, Heard(g), job, active) /\ Heard(g)[g].conf = gen[g].conf
    BY <1>0, FrameFacts
  <2> QED
    BY <2>1, <2>2, FailedConfig
<1>2. CASE gen[g].phase = Opens[frame].from
  <2> DEFINE o == Took(gen, g)[g]
             r == Greeted(o, frame)
  <2>1. /\ frame \in DOMAIN Opens /\ gen' = [Took(gen, g) EXCEPT ![g] = r]
        /\ sup' = [sup EXCEPT !.state = "ready"] \/ sup' = sup
        /\ UNCHANGED <<process, work, asked>>
    BY <1>0, <1>2, HandshakeGoesOn DEF work
  <2>2. sup'.gen = sup.gen /\ sup'.config = sup.config /\ sup'.stopping = sup.stopping
    BY <1>0, <2>1 DEF Supervisor
  <2>3. /\ Took(gen, g) \in [Gens -> Generation] /\ o \in Generation
        /\ o.phase = gen[g].phase /\ o.conf = gen[g].conf /\ o.updating = gen[g].updating
        /\ o.serves = gen[g].serves /\ o.in = gen[g].in /\ o.proc = gen[g].proc
        /\ In(frame, gen[g].out) /\ o.conf \in Configs
    BY <1>0, FrameFacts
  <2>4. LessSaid(o, gen[g])
    BY TookLess
  <2> HIDE DEF o
  <2>5. /\ r \in Generation /\ r.phase = Opens[frame].to /\ r.serves = o.serves
        /\ r.conf = o.conf /\ r.updating = o.updating /\ r.out = o.out /\ r.proc = o.proc
        /\ r.in = IF frame = "hello" THEN Append(o.in, o.conf) ELSE o.in
    BY <2>1, <2>3, GreetedFields
  <2>6. gen'[g] = r
    BY <2>1, <2>3
  <2> HIDE DEF r
  <2>7. ASSUME ServingOK(gen[g], job.config) PROVE ServingOK(r, job.config)
    <3>1. /\ \A x : In(x, r.out) => In(x, gen[g].out)
          /\ Once("updated", r.out)
      BY <2>4, <2>5, <2>7 DEF LessSaid, ServingOK
    <3>2. r.in = IF frame = "hello" THEN Append(gen[g].in, gen[g].conf) ELSE gen[g].in
      BY <2>3, <2>5
    <3> DEFINE old == gen[g]
    <3>3. /\ ServingOK(old, job.config) /\ In(frame, old.out)
          /\ old.phase = Opens[frame].from /\ r.phase = Opens[frame].to
          /\ r.proc = old.proc /\ r.conf = old.conf /\ r.serves = old.serves
          /\ r.updating = old.updating /\ \A x : In(x, r.out) => In(x, old.out)
          /\ r.in = IF frame = "hello" THEN Append(old.in, old.conf) ELSE old.in
      BY <1>2, <2>3, <2>5, <2>7, <3>1, <3>2
    <3> HIDE DEF old
    <3> QED
      BY <2>1, <3>1, <3>3, GreetServing
  <2>8. r.conf = gen[g].conf
    BY <2>3, <2>5
  <2> QED
    BY <2>1, <2>2, <2>6, <2>7, <2>8, MovedConfig
<1> QED
  BY <1>1, <1>2

LEMMA UpdateTakenConfig ==
  ASSUME ConfigInv, NEW g \in Gens, sup.gen = g, gen[g].out # <<>>,
         UpdateTaken(g, Head(gen[g].out)), UNCHANGED <<queue, asked>>
  PROVE  ConfigOK'
<1> DEFINE gs == Answered(g, Heard(g))
           c  == job.config
           o  == gs[g]
           r  == [o EXCEPT !.conf = c]
<1>0. SuperInv /\ sup \in Supervisor /\ g # None /\ sup.stopping \in BOOLEAN
  BY ConfigFacts, SuperFacts, StateType, NoneAssumption
<1>1. /\ gen[g].updating /\ gen' = [gs EXCEPT ![g].conf = c] /\ sup' = [sup EXCEPT !.config = c]
      /\ key' = c /\ job' = [at |-> "idle", config |-> None]
      /\ active' = active /\ queue' = queue /\ latest' = latest
      /\ Head(gen[g].out) = "updated"
  BY DEF UpdateTaken, asked
<1>2. /\ Core(sup, upstream, gs, job, active) /\ job.at = "update" /\ c \in Configs
      /\ ~o.updating
      /\ o.out = Tail(gen[g].out) /\ o.conf = gen[g].conf /\ o.phase = gen[g].phase
      /\ o.serves = gen[g].serves /\ o.in = gen[g].in /\ o.proc = gen[g].proc
  BY <1>0, <1>1, AnsweredFacts
<1>3. gs \in [Gens -> Generation]
  BY <1>2 DEF Core, GensOK
<1> HIDE DEF gs
<1>4. gen'[g] = r /\ o \in Generation
  BY <1>1, <1>3
<1> HIDE DEF o
<1>5. /\ r \in Generation /\ r.conf = c /\ r.updating = o.updating /\ r.phase = o.phase
      /\ r.proc = o.proc /\ r.out = o.out /\ r.in = o.in /\ r.serves = o.serves
  BY <1>2, <1>4, ConfFields
<1> HIDE DEF r
<1>6. sup'.gen = g /\ sup'.config = c /\ sup'.stopping = sup.stopping
  BY <1>0, <1>1, <1>2 DEF Supervisor
<1>7. gen[g].out \in Seq(Frames) /\ In("updated", gen[g].out)
  BY <1>0, <1>1, FrameFacts, SuperFacts, RecordTypes
<1>8. ASSUME ServingOK(gen[g], c) PROVE ServingOK(r, None)
  <2>1. /\ gen[g].phase = "ready" /\ gen[g].serves = c /\ gen[g].in = <<>>
        /\ gen[g].proc \notin {"boot", "await"} /\ Once("updated", gen[g].out)
    BY <1>1, <1>7, <1>8 DEF ServingOK
  <2>2. Once("updated", r.out) /\ ~In("updated", r.out)
    BY <1>1, <1>2, <1>5, <1>7, <2>1, OnceTail
  <2> QED
    BY <1>2, <1>5, <2>1, <2>2 DEF ServingOK
<1>9. InForce' = InForce
  BY <1>1, <1>2 DEF InForce
<1>10. WantedOK'
  BY <1>1, <1>6, <1>9, ConfigFacts DEF WantedOK
<1>11. ServedOK(sup', gen', job', active')
  BY <1>0, <1>1, <1>4, <1>5, <1>6, <1>8, ConfigFacts DEF ServedOK
<1> QED
  BY <1>10, <1>11 DEF ConfigOK

LEMMA FrameConfig ==
  ASSUME ConfigInv, NEW g \in Gens, FrameArrives(g)
  PROVE  ConfigOK'
<1> DEFINE frame == Head(gen[g].out)
<1>0. SuperInv /\ sup \in Supervisor
  BY ConfigFacts, SuperFacts
<1>1. sup.gen = g /\ gen[g].out # <<>> /\ UNCHANGED <<queue, asked>>
  BY DEF FrameArrives
<1>2. /\ Core(sup, upstream, Heard(g), job, active) /\ Heard(g) = Took(gen, g)
      /\ Took(gen, g)[g].conf = gen[g].conf /\ Took(gen, g)[g].phase = gen[g].phase
      /\ LessSaid(Took(gen, g)[g], gen[g])
  BY <1>0, <1>1, FrameFacts, TookLess
<1>3. CASE HandshakeFrame(g, frame)
  BY <1>1, <1>3, HandshakeConfig
<1>4. CASE Refused(g, frame)
  <2>1. FailGeneration(g, Heard(g)) /\ UNCHANGED <<process, work, asked>>
    BY <1>1, <1>4 DEF Refused, work
  <2> QED
    BY <1>1, <1>2, <2>1, FailedConfig
<1>5. CASE DegradedStatus(g, frame) \/ FrameIgnored(g, frame)
  <2>1. /\ gen' = Took(gen, g) /\ UNCHANGED <<process, work, asked>>
        /\ sup' = sup \/ sup' = [sup EXCEPT !.state = "degraded"]
    BY <1>1, <1>2, <1>5 DEF DegradedStatus, FrameIgnored, work
  <2>2. sup'.gen = g /\ sup'.config = sup.config /\ sup'.stopping = sup.stopping
    BY <1>0, <1>1, <2>1 DEF Supervisor
  <2>3. gen'[g].conf = gen[g].conf
    BY <1>2, <2>1
  <2>4. ServingOK(gen[g], job.config) => ServingOK(gen'[g], job.config)
    BY <1>2, <2>1, TookServing
  <2> QED
    BY <1>1, <2>1, <2>2, <2>3, <2>4, MovedConfig
<1>6. CASE UpdateTaken(g, frame)
  BY <1>1, <1>6, UpdateTakenConfig
<1>7. CASE UpdateRefused(g, frame)
  <2> DEFINE gs == Answered(g, Heard(g))
  <2>1. gen[g].updating /\ FallBackToStop(gs)
    BY <1>7 DEF UpdateRefused
  <2>2. /\ Core(sup, upstream, gs, job, active) /\ job.at = "update"
        /\ \A h \in Gens : ~gs[h].updating /\ gs[h].conf = gen[h].conf
    BY <1>0, <1>1, <2>1, AnsweredFacts
  <2> HIDE DEF gs
  <2> QED
    BY <1>1, <2>1, <2>2, FallBackConfig
<1> QED
  BY <1>3, <1>4, <1>5, <1>6, <1>7 DEF FrameArrives

\* The process of the current generation, serving or about to, takes a step:
\* what it read before, it has still not read, or it serves it.
LEMMA SpeaksConfig ==
  ASSUME ConfigInv, NEW g \in Gens, NEW frames \in Seq(Frames), NEW p, NEW q, NEW c,
         Speaks(g, frames, p, q, c),
         sup.gen = g /\ ~sup.stopping /\ ServingOK(gen[g], job.config)
           => ServingOK(gen'[g], job.config)
  PROVE  ConfigOK'
<1>1. /\ gen'[g].conf = gen[g].conf /\ \A h \in Gens \ {g} : gen'[h] = gen[h]
      /\ UNCHANGED <<process, sup, upstream, work, waiter, asked>>
  BY ConfigFacts, SpeaksFields
<1>2. CASE sup.gen = g
  BY <1>1, <1>2, MovedConfig
<1>3. CASE sup.gen # g
  <2>1. sup.gen # None => gen'[sup.gen] = gen[sup.gen]
    BY <1>1, <1>3, ConfigFacts, SuperFacts, StateType
  <2> QED
    BY <1>1, <2>1, QuietConfig
<1> QED
  BY <1>2, <1>3

\* Record r of a generation that was t and has said frames: it does p, has q
\* to read, and serves c.
Spoke(r, t, frames, p, q, c) ==
  /\ r.phase = t.phase /\ r.conf = t.conf /\ r.updating = t.updating
  /\ r.proc = p /\ r.in = q /\ r.serves = c
  /\ \A x : In(x, r.out) => In(x, t.out) \/ In(x, frames)
  /\ \/ ~In("updated", frames)
     \/ ~In("updated", t.out) /\ Once("updated", frames)
     => Once("updated", r.out)

LEMMA SpokenFields ==
  ASSUME ConfigInv, NEW g \in Gens, NEW frames \in Seq(Frames), NEW p, NEW q, NEW c,
         Speaks(g, frames, p, q, c), sup.gen = g, ServingOK(gen[g], job.config)
  PROVE  Spoke(gen'[g], gen[g], frames, p, q, c)
<1>1. gen[g].out \in Seq(Frames) /\ Once("updated", gen[g].out)
  BY ConfigFacts, SuperFacts, RecordTypes DEF ServingOK
<1>2. /\ gen'[g].out = gen[g].out \o frames
      /\ gen'[g].phase = gen[g].phase /\ gen'[g].conf = gen[g].conf
      /\ gen'[g].updating = gen[g].updating
      /\ gen'[g].proc = p /\ gen'[g].in = q /\ gen'[g].serves = c
      /\ \A x : In(x, gen'[g].out) => In(x, gen[g].out) \/ In(x, frames)
  BY ConfigFacts, SpeaksFields
<1>3. ~In("updated", frames) \/ (~In("updated", gen[g].out) /\ Once("updated", frames))
        => Once("updated", gen[g].out \o frames)
  BY <1>1, OnceConcat
<1> QED
  BY <1>2, <1>3 DEF Spoke

LEMMA BrokerConfig ==
  ASSUME ConfigInv, NEW g \in Gens, BrokerMoves(g)
  PROVE  ConfigOK'
<1> DEFINE r == gen'[g]
           o == gen[g]
           d == job.config
<1>1. Alive(g) /\ BrokerSays(g) /\ SuperInv
  BY BrokerShape, ConfigFacts
<1>2. o.updating => d \in Configs
  BY <1>1, SuperFacts DEF UpdatesOK, LifeOK
<1>3. o.conf \in Configs \/ sup.gen # g
  BY <1>1, SuperFacts DEF GensOK, GenOK
<1>4. CASE o.proc = "boot" /\ Speaks(g, <<"hello">>, "await", o.in, o.serves)
  <2>1. ~In("configured", <<"hello">>) /\ ~In("ready", <<"hello">>) /\ ~In("updated", <<"hello">>)
    BY InOne
  <2>2. ASSUME sup.gen = g, ServingOK(o, d) PROVE ServingOK(r, d)
    <3>0. Spoke(r, o, <<"hello">>, "await", o.in, o.serves)
      BY <1>4, <2>1, <2>2, Sayings, SpokenFields
    <3>1. /\ r.phase = o.phase /\ r.conf = o.conf /\ r.updating = o.updating
          /\ r.proc = "await" /\ r.in = o.in /\ Once("updated", r.out)
          /\ \A x : In(x, r.out) => In(x, o.out) \/ In(x, <<"hello">>)
      BY <3>0, <2>1 DEF Spoke
    <3> HIDE DEF r, o
    <3>2. ~Configured(o) /\ ~o.updating /\ o.in \in {<<>>, <<o.conf>>} /\ ~In("updated", o.out)
      BY <1>4, <2>2 DEF ServingOK
    <3>3. ~Configured(r) /\ ~In("updated", r.out)
      BY <2>1, <3>1, <3>2 DEF Configured
    <3> QED
      BY <2>2, <3>1, <3>2, <3>3 DEF ServingOK
  <2> QED
    BY <1>4, <2>2, Sayings, SpeaksConfig
<1>5. CASE /\ o.proc \in {"await", "serving"} /\ o.in # <<>> /\ Head(o.in) = Stop
           /\ Speaks(g, <<>>, "dead", Tail(o.in), o.serves)
  <2>1. ASSUME sup.gen = g, ServingOK(o, d) PROVE FALSE
    <3>1. o.in \in {<<>>, <<o.conf>>, <<d>>} /\ (o.in = <<d>> /\ o.in # <<o.conf>> => o.updating)
      BY <1>5, <2>1 DEF ServingOK, Configured
    <3>2. Stop \notin Configs
      BY MarksFacts
    <3> HIDE DEF o, d
    <3>3. o.in = <<o.conf>> => o.conf = Stop
      BY <1>5
    <3>4. o.in = <<d>> => d = Stop
      BY <1>5
    <3> QED
      BY <1>2, <1>3, <1>5, <2>1, <3>1, <3>2, <3>3, <3>4
  <2> QED
    BY <1>5, <2>1, Sayings, SpeaksConfig
<1>6. ASSUME NEW frames \in Seq(Frames), frames = <<>> \/ frames = <<"refused", "degraded">>,
             NEW p \in {"hung", "dead"}, Speaks(g, frames, p, o.in, o.serves)
      PROVE  ConfigOK'
  <2>1. ~In("configured", frames) /\ ~In("ready", frames) /\ ~In("updated", frames)
    BY <1>6, InEmpty, InTwo
  <2>2. ASSUME sup.gen = g, ServingOK(o, d) PROVE ServingOK(r, d)
    <3>0. Spoke(r, o, frames, p, o.in, o.serves)
      BY <1>6, <2>1, <2>2, SpokenFields
    <3>1. /\ r.phase = o.phase /\ r.conf = o.conf /\ r.updating = o.updating
          /\ r.proc \in {"hung", "dead"} /\ r.in = o.in /\ r.serves = o.serves /\ Once("updated", r.out)
          /\ \A x : In(x, r.out) => In(x, o.out) \/ In(x, frames)
      BY <3>0, <2>1 DEF Spoke
    <3> HIDE DEF r, o
    <3>2. (Configured(r) => Configured(o)) /\ (In("updated", r.out) => In("updated", o.out))
      BY <2>1, <3>1 DEF Configured
    <3> QED
      BY <2>2, <3>1, <3>2 DEF ServingOK
  <2> QED
    BY <1>6, <2>2, SpeaksConfig
<1>7. ASSUME o.proc = "await", o.in # <<>>,
             \/ Speaks(g, <<>>, "probing", Tail(o.in), Head(o.in))
             \/ Speaks(g, <<"refused">>, "await", Tail(o.in), o.serves)
      PROVE  ConfigOK'
  <2>1. ~In("updated", <<>>) /\ ~In("updated", <<"refused">>)
        /\ ~In("configured", <<"refused">>) /\ ~In("ready", <<"refused">>)
    BY InEmpty, InOne
  <2>2. ASSUME sup.gen = g, ServingOK(o, d)
        PROVE  /\ o.in = <<o.conf>> /\ Head(o.in) = o.conf /\ Tail(o.in) = <<>>
               /\ ~o.updating /\ ~Configured(o) /\ o.phase # "spawned" /\ ~In("updated", o.out)
    <3>1. o.in = <<o.conf>> /\ ~o.updating /\ ~Configured(o)
      BY <1>7, <2>2 DEF ServingOK
    <3>2. o.phase # "spawned" /\ ~In("updated", o.out)
      BY <1>7, <2>2, <3>1 DEF ServingOK
    <3> HIDE DEF o
    <3>3. Head(o.in) = o.conf /\ Tail(o.in) = <<>>
      BY <3>1
    <3> QED
      BY <3>1, <3>2, <3>3
  <2>3. CASE Speaks(g, <<>>, "probing", Tail(o.in), Head(o.in))
    <3>1. ASSUME sup.gen = g, ServingOK(o, d) PROVE ServingOK(r, d)
      <4>0. Spoke(r, o, <<>>, "probing", Tail(o.in), Head(o.in))
        BY <2>1, <2>3, <3>1, Sayings, SpokenFields
      <4>1. /\ r.phase = o.phase /\ r.conf = o.conf /\ r.updating = o.updating
            /\ r.proc = "probing" /\ r.in = Tail(o.in) /\ r.serves = Head(o.in)
            /\ Once("updated", r.out)
            /\ \A x : In(x, r.out) => In(x, o.out) \/ In(x, <<>>)
        BY <4>0, <2>1 DEF Spoke
      <4>2. /\ r.in = <<>> /\ r.serves = r.conf /\ ~r.updating /\ r.phase # "spawned"
            /\ ~In("updated", r.out)
        BY <2>1, <2>2, <3>1, <4>1
      <4> QED
        BY <4>1, <4>2 DEF ServingOK
    <3> QED
      BY <2>3, <3>1, Sayings, SpeaksConfig
  <2>4. CASE Speaks(g, <<"refused">>, "await", Tail(o.in), o.serves)
    <3>1. ASSUME sup.gen = g, ServingOK(o, d) PROVE ServingOK(r, d)
      <4>0. Spoke(r, o, <<"refused">>, "await", Tail(o.in), o.serves)
        BY <2>1, <2>4, <3>1, Sayings, SpokenFields
      <4>1. /\ r.phase = o.phase /\ r.conf = o.conf /\ r.updating = o.updating
            /\ r.proc = "await" /\ r.in = Tail(o.in)
            /\ Once("updated", r.out)
            /\ \A x : In(x, r.out) => In(x, o.out) \/ In(x, <<"refused">>)
        BY <4>0, <2>1 DEF Spoke
      <4>2. /\ r.in = <<>> /\ ~r.updating /\ r.phase # "spawned" /\ ~In("updated", r.out)
        BY <2>1, <2>2, <3>1, <4>1
      <4>3. ~Configured(r)
        BY <2>1, <2>2, <3>1, <4>1 DEF Configured
      <4> QED
        BY <4>1, <4>2, <4>3 DEF ServingOK
    <3> QED
      BY <2>4, <3>1, Sayings, SpeaksConfig
  <2> QED
    BY <1>7, <2>3, <2>4
<1>8. ASSUME o.proc = "serving", o.in # <<>>,
             \/ Speaks(g, <<"updated">>, "serving", Tail(o.in), Head(o.in))
             \/ Speaks(g, <<"unchanged">>, "serving", Tail(o.in), o.serves)
      PROVE  ConfigOK'
  <2>1. ~In("updated", <<"unchanged">>)
    BY InOne
  <2>2. ASSUME sup.gen = g, ServingOK(o, d)
        PROVE  /\ Head(o.in) = d /\ Tail(o.in) = <<>> /\ o.serves = o.conf
               /\ o.updating /\ o.phase = "ready" /\ ~In("updated", o.out)
    <3>1. o.updating
      BY <1>8, <2>2 DEF ServingOK, Configured
    <3>2. o.in = <<d>> /\ o.serves = o.conf /\ o.phase = "ready"
      BY <1>8, <2>2, <3>1 DEF ServingOK
    <3>3. ~In("updated", o.out)
      BY <1>8, <2>2 DEF ServingOK
    <3> HIDE DEF o, d
    <3>4. Head(o.in) = d /\ Tail(o.in) = <<>>
      BY <3>2
    <3> QED
      BY <3>1, <3>2, <3>3, <3>4
  <2>3. CASE Speaks(g, <<"updated">>, "serving", Tail(o.in), Head(o.in))
    <3>1. ASSUME sup.gen = g, ServingOK(o, d) PROVE ServingOK(r, d)
      <4>0. Spoke(r, o, <<"updated">>, "serving", Tail(o.in), Head(o.in))
        BY <2>3, <3>1, Sayings, SpokenFields
      <4>1. /\ r.phase = o.phase /\ r.conf = o.conf /\ r.updating = o.updating
            /\ r.proc = "serving" /\ r.in = Tail(o.in) /\ r.serves = Head(o.in)
            /\ Once("updated", r.out)
        BY <4>0, InOne, OnceShort, <2>2, <3>1 DEF Spoke
      <4>2. r.in = <<>> /\ r.serves = d /\ r.updating /\ r.phase = "ready"
        BY <2>2, <3>1, <4>1
      <4> QED
        BY <4>1, <4>2 DEF ServingOK
    <3> QED
      BY <2>3, <3>1, Sayings, SpeaksConfig
  <2>4. CASE Speaks(g, <<"unchanged">>, "serving", Tail(o.in), o.serves)
    <3>1. ASSUME sup.gen = g, ServingOK(o, d) PROVE ServingOK(r, d)
      <4>0. Spoke(r, o, <<"unchanged">>, "serving", Tail(o.in), o.serves)
        BY <2>1, <2>4, <3>1, Sayings, SpokenFields
      <4>1. /\ r.phase = o.phase /\ r.conf = o.conf /\ r.updating = o.updating
            /\ r.proc = "serving" /\ r.in = Tail(o.in) /\ r.serves = o.serves
            /\ Once("updated", r.out)
            /\ \A x : In(x, r.out) => In(x, o.out) \/ In(x, <<"unchanged">>)
        BY <4>0, <2>1 DEF Spoke
      <4>2. /\ r.in = <<>> /\ r.serves = r.conf /\ r.updating /\ r.phase = "ready"
            /\ ~In("updated", r.out)
        BY <2>1, <2>2, <3>1, <4>1
      <4> QED
        BY <4>1, <4>2 DEF ServingOK
    <3> QED
      BY <2>4, <3>1, Sayings, SpeaksConfig
  <2> QED
    BY <1>8, <2>3, <2>4
<1>9. CASE o.proc = "probing" /\ Speaks(g, <<"configured", "ready">>, "serving", o.in, o.serves)
  <2>1. ~In("updated", <<"configured", "ready">>)
    BY InTwo
  <2>2. ASSUME sup.gen = g, ServingOK(o, d) PROVE ServingOK(r, d)
    <3>0. Spoke(r, o, <<"configured", "ready">>, "serving", o.in, o.serves)
      BY <1>9, <2>1, <2>2, Sayings, SpokenFields
    <3>1. /\ r.phase = o.phase /\ r.conf = o.conf /\ r.updating = o.updating
          /\ r.proc = "serving" /\ r.in = o.in /\ r.serves = o.serves /\ Once("updated", r.out)
          /\ (In("updated", r.out) => In("updated", o.out))
      BY <3>0, <2>1 DEF Spoke
    <3> HIDE DEF r, o
    <3>2. Configured(o)
      BY <1>9 DEF Configured
    <3> QED
      BY <2>2, <3>1, <3>2 DEF ServingOK
  <2> QED
    BY <1>9, <2>2, Sayings, SpeaksConfig
<1> QED
  BY <1>1, <1>4, <1>5, <1>6, <1>7, <1>8, <1>9, Sayings DEF BrokerSays

-----------------------------------------------------------------------------
LEMMA InitConfigInv == Init => ConfigInv
<1> SUFFICES ASSUME Init PROVE ConfigInv
  OBVIOUS
<1>1. sup.gen = None /\ active = "none" /\ queue = <<>>
  BY OffIsConfig, NewFields DEF Init
<1>2. ConfigOK
  BY <1>1 DEF ConfigOK, WantedOK, ServedOK
<1> QED
  BY <1>2, InitSuperInv DEF ConfigInv

LEMMA NextConfigInv == ConfigInv /\ [Next]_vars => ConfigInv'
<1> SUFFICES ASSUME ConfigInv, [Next]_vars PROVE ConfigOK'
  BY NextSuperInv DEF ConfigInv
<1>1. ASSUME NEW c \in Configs, StartBroker(c) PROVE ConfigOK'
  BY <1>1, StartBrokerConfig
<1>2. ASSUME NEW c \in Configs, reconfigureBroker(c) PROVE ConfigOK'
  <2>1. c # Again
    BY MarksFacts
  <2> QED
    BY <1>2, <2>1, RequestedConfig DEF reconfigureBroker
<1>3. CASE restartBroker
  BY <1>3, RequestedConfig DEF restartBroker
<1>4. CASE stopBrokerSupervisor
  BY <1>4, StopBrokerConfig
<1>5. CASE ChangeBegins
  BY <1>5, ChangeBeginsConfig
<1>6. CASE UpdateTimesOut
  BY <1>6, UpdateTimesOutConfig
<1>7. CASE ChangeGoesOn
  BY <1>7, ChangeGoesOnConfig
<1>8. ASSUME NEW g \in Gens,
             Fails(g) \/ StopEnds(g) \/ ExitSeen(g) \/ FrameArrives(g) \/ BrokerMoves(g)
      PROVE  ConfigOK'
  BY <1>8, FailsConfig, StopEndsConfig, ExitSeenConfig, FrameConfig, BrokerConfig
<1>9. CASE RestartTimerFires
  BY <1>9, RestartTimerConfig
<1>10. CASE StableRuntime
  BY <1>10, StableRuntimeConfig
<1>11. ASSUME NEW w \in Waiters, WaitBegins(w) \/ WaitStep(w) PROVE ConfigOK'
  BY <1>11, WaitsConfig
<1>12. CASE UNCHANGED vars
  BY <1>12, QuietConfig DEF vars
<1>13. CASE ProcessExits
  BY <1>13, QuietConfig DEF ProcessExits
<1>14. CASE SupervisorStep
  BY <1>1, <1>2, <1>3, <1>4, <1>5, <1>6, <1>7, <1>8, <1>9, <1>10, <1>11, <1>14
     DEF SupervisorStep
<1> QED
  BY <1>8, <1>12, <1>13, <1>14, NextCases

LEMMA ConfigInvSuffices == ConfigInv => LatestConfigWins
<1> SUFFICES ASSUME ConfigInv, active = "up", job.at = "idle", queue = <<>>
             PROVE  /\ key = latest /\ sup.config = latest
                    /\ upstream # None => gen[upstream].serves = latest
  BY DEF LatestConfigWins
<1>1. /\ Coming(queue, InForce, latest) /\ sup.config = key /\ InForce = key
  BY ConfigFacts DEF WantedOK, InForce
<1>2. key = latest
  BY <1>1 DEF Coming
<1>3. ASSUME upstream # None PROVE gen[upstream].serves = latest
  <2>1. /\ sup.gen = upstream /\ ~sup.stopping /\ gen[upstream].phase = "ready"
        /\ upstream \in Gens /\ ~gen[upstream].updating
    BY <1>3, ConfigFacts, SuperFacts DEF CurrentOK, UpdatesOK
  <2>2. ServingOK(gen[upstream], job.config) /\ gen[upstream].conf = sup.config
    BY <1>3, <2>1, ConfigFacts DEF ServedOK
  <2> QED
    BY <1>1, <1>2, <2>1, <2>2 DEF ServingOK, Configured
<1> QED
  BY <1>1, <1>2, <1>3

(* The most recent configuration always wins: when no change is left, it   *)
(* is the supervisor's, and the broker that requests go to serves it,      *)
(* whatever updates were taken, refused, late or lost (reconfigureBroker). *)
THEOREM LatestConfigIsServed == Spec => []LatestConfigWins
<1>1. ConfigInv => LatestConfigWins
  BY ConfigInvSuffices
<1> QED
  BY <1>1, InitConfigInv, NextConfigInv, PTL DEF Spec
=============================================================================
