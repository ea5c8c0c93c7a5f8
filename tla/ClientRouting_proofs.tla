------------------------ MODULE ClientRouting_proofs ------------------------
(* For any number of ports and any interleaving of the proxy, the shell's   *)
(* revert, the command line and the user: what the settings file says when  *)
(* nothing in it is ours, and whether a dead proxy's address can be left.   *)
(*                                                                          *)
(* Files are replaced on the strength of what was read before, so the       *)
(* invariants speak of the snapshots that processes hold as well as of the  *)
(* file: each is a file that once was.                                      *)
EXTENDS ClientRouting, TLAPS

Listening == server \in {"booting", "up", "closing", "exiting"}

\* The file as this run of the proxy vouches for it.
Routed == kept /\ file.url \in Ports /\ Touched(file)

\* What the proxy itself is doing: nothing while it is off, and only the
\* hooks' revert on its way out; an apply without a switch is for an intent
\* that it remembers.
ServerJobs ==
  /\ server \in {"off", "starting"} => work["server"] = NoWork
  /\ server = "exiting" =>
       work["server"] = NoWork \/ (work["server"].op = "revert" /\ work["server"].then = "none")
  /\ work["server"] \in Jobs =>
       /\ work["server"].snapshot # Unread
       /\ work["server"].op = "apply" => work["server"].then \in {"none", "on"}
       /\ work["server"].op = "apply" /\ work["server"].then = "none" => cache
       /\ work["server"].op = "revert" => work["server"].then \in {"none", "off"}

\* A routed file is meant to be routed, until the revert that is under way.
RoutedIsMeant ==
  /\ (Routed /\ server # "off") => (cache \/ work["server"] = [op |-> "intent", to |-> TRUE])
  /\ work["server"] = [op |-> "intent", to |-> FALSE] => ~Routed
  /\ (work["server"] \in Jobs /\ work["server"].op = "revert"
        /\ ~SomethingOurs(work["server"].snapshot, port)) => ~Routed
  /\ server = "exiting" /\ work["server"] = NoWork => ~Routed \/ missed = "revert"

Marks ==
  /\ marked /\ server # "off" => sentinel /\ server \in {"up", "closing", "exiting"}
  /\ server = "off" /\ marked /\ Routed => sentinel \/ missed = "revert"
  /\ missed = "revert" => server \in {"off", "exiting"}

LifeInv == TypeOK /\ ServerJobs /\ RoutedIsMeant /\ Marks

\* A file as it may have been: with our helper in place of none, or the user's.
Owned(f) ==
  IF f.helper = "ours"
    THEN f.prior \in {NoPrior, [url |-> "unset", helper |-> "unset"]} /\ first.helper = "unset"
    ELSE f.prior = NoPrior /\ f.helper = first.helper /\ f.url \notin Ports

OwnInv ==
  /\ TypeOK
  /\ Owned(file)
  /\ \A p \in Processes :
       work[p] \in Jobs /\ work[p].snapshot # Unread => Owned(work[p].snapshot)
  /\ want \in {"unset", "mine"}
  /\ file.url = want \/ (file.url \in Ports /\ want = "unset")

\* The address of a proxy that is gone.
Stale == file.url \in Ports \ {port}

\* No command runs beside the proxy, which knows of any intent there is; the
\* shell only reverts.
OthersQuiet ==
  /\ server # "off" => work["cli"] = NoWork /\ (intent => cache)
  /\ work["shell"] \in Jobs => work["shell"].op = "revert" /\ work["shell"].then = "off"
  /\ work["shell"] \in Intents => ~work["shell"].to

\* Such an address, if it is to be routed, is what the boot's apply has read, or
\* that has failed.
StaleIsHealed ==
  Listening /\ Stale =>
    /\ work["server"] \in Jobs => work["server"].snapshot = file
    /\ work["server"] # [op |-> "intent", to |-> TRUE]
    /\ cache /\ server \in {"booting", "up"} /\ missed # "apply" =>
         server = "booting" /\ work["server"] \in Jobs /\ work["server"].op = "apply"

PortInv == LifeInv /\ OwnInv /\ OthersQuiet /\ StaleIsHealed

----------------------------------------------------------------------------
(* --- what the pure operations do to a file ----------------------------- *)

LEMMA PortIsAUrl == \A here \in Ports : here \in Urls /\ here # "unset" /\ here # "mine"
  BY UrlsAreDistinct DEF Urls

LEMMA PriorSettings ==
  ASSUME NEW f \in Settings, f.prior # NoPrior
  PROVE  f.prior.url \in Urls /\ f.prior.helper \in {"unset", "mine"}
  BY DEF Settings

LEMMA MergeSettings ==
  ASSUME NEW f \in Settings, NEW here \in Ports
  PROVE  Merge(f, here) \in Settings
<1>1. PreparePrior(f, here) \in [url : Urls, helper : {"unset", "mine"}] \cup {NoPrior}
  <2>1. CASE f.prior # NoPrior
    BY <2>1 DEF PreparePrior, Settings
  <2>2. CASE f.prior = NoPrior
    <3> DEFINE u == IF BaseUrlOwnership(f, here) = "ours" /\ f.helper = "ours"
                      THEN "unset" ELSE f.url
               h == IF f.helper = "ours" THEN "unset" ELSE f.helper
    <3>1. u \in Urls /\ h \in {"unset", "mine"}
      BY DEF Settings, Urls, Helpers
    <3>2. PreparePrior(f, here) = [url |-> u, helper |-> h]
      BY <2>2 DEF PreparePrior
    <3> HIDE DEF u, h
    <3> QED
      BY <3>1, <3>2
  <2> QED
    BY <2>1, <2>2
<1>2. here \in Urls /\ "ours" \in Helpers
  BY PortIsAUrl DEF Helpers
<1> QED
  BY <1>1, <1>2 DEF Merge, Settings

LEMMA StripSettings ==
  ASSUME NEW f \in Settings, NEW here \in Ports
  PROVE  /\ Strip(f, here) \in Settings
         /\ Strip(f, here).url \in Urls
         /\ ~Touched(Strip(f, here))
<1> DEFINE u == IF BaseUrlOwnership(f, here) # "ours" THEN f.url
                ELSE IF f.prior = NoPrior THEN "unset" ELSE f.prior.url
           h == IF HelperOwnership(f) # "ours" THEN f.helper
                ELSE IF f.prior = NoPrior THEN "unset" ELSE f.prior.helper
<1>1. u \in Urls
  BY PriorSettings DEF Settings, Urls
<1>2. h \in {"unset", "mine"}
  BY PriorSettings DEF Settings, Helpers, HelperOwnership
<1>3. Strip(f, here) = [url |-> u, helper |-> h, prior |-> NoPrior]
  BY DEF Strip
<1> HIDE DEF u, h
<1> QED
  BY <1>1, <1>2, <1>3 DEF Settings, Helpers, Touched

LEMMA OwnPort ==
  ASSUME TypeOK, NEW p \in Processes
  PROVE  CurrentPort(p) \in Ports
  BY DefaultIsAPort DEF TypeOK, CurrentPort

----------------------------------------------------------------------------
(* --- types ------------------------------------------------------------- *)

LEMMA JobIsWork ==
  ASSUME NEW op \in {"apply", "revert"}, NEW snapshot \in Settings \cup {Unread},
         NEW then \in {"none", "on", "off"}
  PROVE  /\ Job(op, snapshot, then) \in Jobs
         /\ Job(op, snapshot, then) \in Works
         /\ Job(op, snapshot, then).op = op /\ Job(op, snapshot, then).snapshot = snapshot
         /\ Job(op, snapshot, then).then = then
  BY DEF Job, Jobs, Works

\* Whatever is neither nothing nor an intent is a job on the file.
LEMMA WorkIsJob ==
  ASSUME TypeOK, NEW p \in Processes, work[p] # NoWork, work[p].op # "intent"
  PROVE  /\ work[p] \in Jobs /\ work[p].op \in {"apply", "revert"}
         /\ work[p].snapshot \in Settings \cup {Unread}
         /\ work[p].retried \in BOOLEAN /\ work[p].then \in {"none", "on", "off"}
<1>1. work[p] \in Works
  BY DEF TypeOK
<1>2. work[p] \in Jobs
  BY <1>1 DEF Works, Intents
<1> QED
  BY <1>2 DEF Jobs

\* The files of work a step gives a process.
LEMMA WorkGiven ==
  ASSUME TypeOK, NEW p \in Processes, NEW w \in Works, work' = [work EXCEPT ![p] = w]
  PROVE  /\ work' \in [Processes -> Works] /\ work'[p] = w
         /\ \A q \in Processes \ {p} : work'[q] = work[q]
  BY DEF TypeOK

LEMMA SettledWork ==
  ASSUME TypeOK, NEW p \in Processes, NEW then \in {"none", "on", "off"}, Settled(p, then)
  PROVE  /\ work' \in [Processes -> Works]
         /\ then = "none" => work'[p] = NoWork
         /\ then = "on" => work'[p] = [op |-> "intent", to |-> TRUE]
         /\ then = "off" => work'[p] = [op |-> "intent", to |-> FALSE]
         /\ \A q \in Processes \ {p} : work'[q] = work[q]
<1> DEFINE w == IF then = "none" THEN NoWork ELSE [op |-> "intent", to |-> then = "on"]
<1>1. w \in Works
  BY DEF Works, Intents
<1>2. work' = [work EXCEPT ![p] = w]
  BY DEF Settled
<1>3. /\ then = "none" => w = NoWork
      /\ then = "on" => w = [op |-> "intent", to |-> TRUE]
      /\ then = "off" => w = [op |-> "intent", to |-> FALSE]
  OBVIOUS
<1> HIDE DEF w
<1> QED
  BY <1>1, <1>2, <1>3, WorkGiven

----------------------------------------------------------------------------
(* --- what each action does to the work in hand ------------------------- *)

Others(p) == \A q \in Processes \ {p} : work'[q] = work[q]

\* The job in hand, with the file as it is now for what was read.
Reread(p) ==
  /\ work'[p] \in Jobs /\ work'[p].snapshot = file
  /\ work'[p].op = work[p].op /\ work'[p].then = work[p].then

LEMMA ReadsEffect ==
  ASSUME TypeOK, NEW p \in Processes, Reads(p)
  PROVE  /\ work[p] \in Jobs /\ work[p].snapshot = Unread
         /\ work' \in [Processes -> Works] /\ Reread(p) /\ Others(p)
         /\ UNCHANGED <<files, intent, proxy, first>>
<1> DEFINE w == [work[p] EXCEPT !.snapshot = file]
<1>1. work[p] \in Jobs
  BY WorkIsJob DEF Reads
<1>2. /\ w \in Jobs /\ w \in Works
      /\ w.snapshot = file /\ w.op = work[p].op /\ w.then = work[p].then
  BY <1>1 DEF Jobs, Works, TypeOK
<1>3. work' = [work EXCEPT ![p] = w]
  BY DEF Reads, TypeOK
<1> HIDE DEF w
<1> QED
  BY <1>1, <1>2, <1>3, WorkGiven DEF Reads, Reread, Others

\* What applyProxyBaseUrl and its retry come to.
ApplyRefused(p) ==
  /\ ~MayApply(work[p].snapshot, CurrentPort(p))
  /\ work'[p] = NoWork /\ UNCHANGED <<file, kept, missed>>

ApplyNoop(p) ==
  /\ Merge(work[p].snapshot, CurrentPort(p)) = work[p].snapshot
  /\ kept' = (kept \/ (p = "server" /\ work[p].then = "none"))
  /\ MadeGood(p) /\ Settled(p, work[p].then) /\ UNCHANGED file

ApplyDone(p) ==
  /\ MayApply(file, CurrentPort(p)) /\ file = work[p].snapshot
  /\ file' = Merge(file, CurrentPort(p))
  /\ kept' = (p = "server" /\ (kept \/ work[p].then = "none"))
  /\ MadeGood(p) /\ Settled(p, work[p].then)

ApplyLost(p) ==
  /\ MayApply(work[p].snapshot, CurrentPort(p))
  /\ Merge(work[p].snapshot, CurrentPort(p)) # work[p].snapshot
  /\ file # work[p].snapshot
  /\ work'[p] = NoWork \/ Reread(p)
  /\ UNCHANGED <<file, kept, missed>>

LEMMA ApplyEffect ==
  ASSUME TypeOK, NEW p \in Processes, ApplyWrites(p)
  PROVE  /\ work[p] \in Jobs /\ work[p].op = "apply"
         /\ work[p].snapshot \in Settings /\ work[p].snapshot # Unread
         /\ work[p].then \in {"none", "on", "off"}
         /\ work' \in [Processes -> Works] /\ Others(p)
         /\ UNCHANGED <<intent, proxy, first, want>>
         /\ ApplyRefused(p) \/ ApplyNoop(p) \/ ApplyDone(p) \/ ApplyLost(p)
<1> DEFINE before == work[p].snapshot
           here == CurrentPort(p)
<1>1. /\ work[p] # NoWork /\ work[p].op = "apply" /\ before # Unread
      /\ UNCHANGED <<intent, proxy, first, want>>
  BY DEF ApplyWrites
<1>2. /\ work[p] \in Jobs /\ before \in Settings /\ work[p].then \in {"none", "on", "off"}
  BY <1>1, WorkIsJob
<1>3. NoWork \in Works
  BY DEF Works
<1>4. \/ ~MayApply(before, here) /\ Abandon(p) /\ UNCHANGED <<file, kept, missed>>
      \/ /\ MayApply(before, here) /\ Merge(before, here) = before
         /\ kept' = (kept \/ (p = "server" /\ work[p].then = "none"))
         /\ MadeGood(p) /\ Settled(p, work[p].then)
         /\ UNCHANGED file
      \/ /\ MayApply(before, here) /\ Merge(before, here) # before /\ AsRead(p)
         /\ file' = Merge(before, here)
         /\ kept' = (p = "server" /\ (kept \/ work[p].then = "none"))
         /\ MadeGood(p) /\ Settled(p, work[p].then)
      \/ /\ MayApply(before, here) /\ Merge(before, here) # before /\ ~AsRead(p)
         /\ IF work[p].retried THEN Abandon(p)
            ELSE work' = [work EXCEPT ![p].snapshot = file, ![p].retried = TRUE]
         /\ UNCHANGED <<file, kept, missed>>
  BY DEF ApplyWrites
<1>5. CASE ~MayApply(before, here) /\ Abandon(p) /\ UNCHANGED <<file, kept, missed>>
  BY <1>1, <1>2, <1>3, <1>5, WorkGiven DEF Abandon, ApplyRefused, Others
<1>6. CASE /\ MayApply(before, here) /\ Merge(before, here) = before
           /\ kept' = (kept \/ (p = "server" /\ work[p].then = "none"))
           /\ MadeGood(p) /\ Settled(p, work[p].then)
           /\ UNCHANGED file
  BY <1>1, <1>2, <1>6, SettledWork DEF ApplyNoop, Others
<1>7. CASE /\ MayApply(before, here) /\ Merge(before, here) # before /\ AsRead(p)
           /\ file' = Merge(before, here)
           /\ kept' = (p = "server" /\ (kept \/ work[p].then = "none"))
           /\ MadeGood(p) /\ Settled(p, work[p].then)
  BY <1>1, <1>2, <1>7, SettledWork DEF ApplyDone, Others, AsRead
<1>8. CASE /\ MayApply(before, here) /\ Merge(before, here) # before /\ ~AsRead(p)
           /\ IF work[p].retried THEN Abandon(p)
              ELSE work' = [work EXCEPT ![p].snapshot = file, ![p].retried = TRUE]
           /\ UNCHANGED <<file, kept, missed>>
  <2> DEFINE w == [work[p] EXCEPT !.snapshot = file, !.retried = TRUE]
  <2>1. /\ w \in Jobs /\ w \in Works
        /\ w.snapshot = file /\ w.op = work[p].op /\ w.then = work[p].then
    BY <1>2 DEF Jobs, Works, TypeOK
  <2>2. work' = [work EXCEPT ![p] = w] \/ work' = [work EXCEPT ![p] = NoWork]
    BY <1>8 DEF Abandon, TypeOK
  <2> HIDE DEF w
  <2>3. work' \in [Processes -> Works] /\ Others(p) /\ (work'[p] = NoWork \/ Reread(p))
    BY <1>3, <2>1, <2>2, WorkGiven DEF Reread, Others
  <2>4. ApplyLost(p)
    BY <1>8, <2>3 DEF ApplyLost, AsRead
  <2> QED
    BY <1>1, <1>2, <2>3, <2>4
<1> QED
  BY <1>4, <1>5, <1>6, <1>7, <1>8

LEMMA RevertEffect ==
  ASSUME TypeOK, NEW p \in Processes, RevertWrites(p)
  PROVE  /\ work[p] \in Jobs /\ work[p].op = "revert"
         /\ work[p].snapshot \in Settings /\ work[p].snapshot # Unread
         /\ work[p].then \in {"none", "on", "off"}
         /\ work' \in [Processes -> Works] /\ Others(p) /\ Settled(p, work[p].then)
         /\ UNCHANGED <<intent, proxy, first, kept, missed>>
         /\ \/ /\ SomethingOurs(work[p].snapshot, CurrentPort(p))
               /\ file' = Strip(work[p].snapshot, CurrentPort(p))
               /\ want' = IF file = work[p].snapshot THEN want ELSE file'.url
            \/ /\ ~SomethingOurs(work[p].snapshot, CurrentPort(p))
               /\ UNCHANGED <<file, want>>
<1>1. /\ work[p] # NoWork /\ work[p].op = "revert" /\ work[p].snapshot # Unread
      /\ Settled(p, work[p].then) /\ UNCHANGED <<intent, proxy, first, kept, missed>>
  BY DEF RevertWrites
<1>2. work[p] \in Jobs /\ work[p].snapshot \in Settings /\ work[p].then \in {"none", "on", "off"}
  BY <1>1, WorkIsJob
<1>3. work' \in [Processes -> Works] /\ Others(p)
  BY <1>1, <1>2, SettledWork DEF Others
<1>4. \/ /\ SomethingOurs(work[p].snapshot, CurrentPort(p))
         /\ file' = Strip(work[p].snapshot, CurrentPort(p))
         /\ want' = IF file = work[p].snapshot THEN want ELSE file'.url
      \/ /\ ~SomethingOurs(work[p].snapshot, CurrentPort(p))
         /\ UNCHANGED <<file, want>>
  BY DEF RevertWrites
<1> QED
  BY <1>1, <1>2, <1>3, <1>4

LEMMA PersistEffect ==
  ASSUME TypeOK, NEW p \in Processes, Persist(p)
  PROVE  /\ work[p] \in Intents
         /\ intent' = work[p].to /\ intent' \in BOOLEAN
         /\ work[p] = [op |-> "intent", to |-> work[p].to]
         /\ cache' = (IF p = "server" THEN intent' ELSE cache)
         /\ kept' = (kept \/ (p = "server" /\ intent'))
         /\ work' \in [Processes -> Works] /\ work'[p] = NoWork /\ Others(p)
         /\ UNCHANGED <<file, want, missed, server, port, sentinel, marked, first>>
<1>1. work[p] # NoWork /\ work[p].op = "intent" /\ Abandon(p)
  BY DEF Persist
<1>2. work[p] \in Works
  BY DEF TypeOK
<1>3. work[p] \in Intents
  BY <1>1, <1>2 DEF Works, Jobs
<1>4. work[p].to \in BOOLEAN /\ work[p] = [op |-> "intent", to |-> work[p].to]
  BY <1>3 DEF Intents
<1>5. NoWork \in Works
  BY DEF Works
<1>6. work' \in [Processes -> Works] /\ work'[p] = NoWork /\ Others(p)
  BY <1>1, <1>5, WorkGiven DEF Abandon, Others
<1>7. /\ intent' = work[p].to
      /\ cache' = (IF p = "server" THEN work[p].to ELSE cache)
      /\ kept' = (kept \/ (p = "server" /\ work[p].to))
      /\ UNCHANGED <<file, want, missed, server, port, sentinel, marked, first>>
  BY DEF Persist
<1> QED
  BY <1>3, <1>4, <1>6, <1>7

\* A failure leaves the file, or what would have been written is there.
FailedWrite(p) ==
  LET f == work[p].snapshot
      here == CurrentPort(p)
  IN /\ work[p] \in Jobs /\ f \in Settings /\ f # Unread
     /\ \/ work[p].op = "apply" /\ MayApply(file, here) /\ file' = Merge(file, here) /\ f = file
           /\ want' = want
        \/ work[p].op = "revert" /\ file' = Strip(f, here)
           /\ want' = IF file = f THEN want ELSE file'.url

LEMMA FailsEffect ==
  ASSUME TypeOK, NEW p \in Processes, Fails(p)
  PROVE  /\ work[p] # NoWork
         /\ work' \in [Processes -> Works] /\ work'[p] = NoWork /\ Others(p)
         /\ UNCHANGED <<intent, proxy, first>>
         /\ kept' = (IF p = "server"
                       THEN cache /\ (kept \/ (work[p].op = "apply" /\ file' # file))
                       ELSE kept /\ file' = file)
         /\ missed' = (IF p # "server" THEN missed
                       ELSE IF file' # file THEN "none"
                       ELSE IF server = "booting" THEN "apply"
                       ELSE IF server = "exiting" THEN "revert"
                       ELSE missed)
         /\ UNCHANGED <<file, want>> \/ FailedWrite(p)
<1>1. NoWork \in Works
  BY DEF Works
<1>2. work' \in [Processes -> Works] /\ work'[p] = NoWork /\ Others(p)
  BY <1>1, WorkGiven DEF Fails, Abandon, Others
<1>3. work[p].op # "intent" /\ work[p] # NoWork /\ Replaces(p) => FailedWrite(p)
  BY WorkIsJob DEF Replaces, FailedWrite, AsRead
<1> QED
  BY <1>2, <1>3 DEF Fails

\* A turn of the proxy's that may start a job on the file as it reads it.
Begins(op, then) ==
  /\ work'["server"] \in Jobs /\ work'["server"].snapshot = file
  /\ work'["server"].op = op /\ work'["server"].then = then

LEMMA StartsEffect ==
  ASSUME TypeOK, NEW op \in {"apply", "revert"}, NEW then \in {"none", "on", "off"},
         ServerStarts(op, then)
  PROVE  work' \in [Processes -> Works] /\ Others("server") /\ Begins(op, then)
<1> DEFINE w == Job(op, file, then)
<1>1. file \in Settings \cup {Unread} /\ "server" \in Processes
  BY DEF TypeOK, Processes
<1>2. w \in Jobs /\ w \in Works /\ w.op = op /\ w.snapshot = file /\ w.then = then
  BY <1>1, JobIsWork
<1>3. work' = [work EXCEPT !["server"] = w]
  BY DEF ServerStarts
<1> HIDE DEF w
<1> QED
  BY <1>1, <1>2, <1>3, WorkGiven DEF Begins, Others

LEMMA HookEffect ==
  ASSUME TypeOK, NEW op \in {"apply", "revert"}, ServerHook(op)
  PROVE  /\ work' \in [Processes -> Works] /\ Others("server")
         /\ cache => Begins(op, "none")
         /\ ~cache => work' = work
<1>1. CASE cache
  BY <1>1, StartsEffect DEF ServerHook
<1>2. CASE ~cache
  BY <1>2 DEF ServerHook, TypeOK, Others
<1> QED
  BY <1>1, <1>2

----------------------------------------------------------------------------
LEMMA CrashEffect ==
  ASSUME TypeOK, NEW reverted \in BOOLEAN, Crash(reverted)
  PROVE  /\ server \notin {"off", "exiting"} /\ server' = "off"
         /\ work' \in [Processes -> Works]
         /\ work'["server"] = NoWork /\ work'["cli"] = work["cli"]
         /\ \/ work'["shell"] = work["shell"]
            \/ /\ work'["shell"] \in Jobs /\ work'["shell"].snapshot = Unread
               /\ work'["shell"].op = "revert" /\ work'["shell"].then = "off"
         /\ UNCHANGED <<files, intent, port, cache, sentinel, marked, first>>
<1> DEFINE w == IF reverted THEN Job("revert", Unread, "off") ELSE work["shell"]
<1>1. Job("revert", Unread, "off") \in Works /\ NoWork \in Works
  BY JobIsWork DEF Works
<1>2. w \in Works /\ work' = [work EXCEPT !["server"] = NoWork, !["shell"] = w]
  BY <1>1 DEF Crash, TypeOK, Processes
<1>3. \/ w = work["shell"]
      \/ w \in Jobs /\ w.snapshot = Unread /\ w.op = "revert" /\ w.then = "off"
  BY JobIsWork
<1> HIDE DEF w
<1>4. work' \in [Processes -> Works] /\ work'["server"] = NoWork
      /\ work'["cli"] = work["cli"] /\ work'["shell"] = w
  BY <1>1, <1>2 DEF TypeOK, Processes
<1> QED
  BY <1>3, <1>4 DEF Crash

LEMMA CommandEffect ==
  ASSUME TypeOK, NEW on \in BOOLEAN, Command(on)
  PROVE  /\ work["cli"] = NoWork /\ (CliBeside \/ server = "off")
         /\ work' \in [Processes -> Works] /\ Others("cli")
         /\ work'["cli"] \in Jobs /\ work'["cli"].snapshot = Unread
         /\ UNCHANGED <<files, intent, proxy, first>>
<1> DEFINE w == IF on THEN Job("apply", Unread, "on") ELSE Job("revert", Unread, "off")
<1>1. w \in Works /\ w \in Jobs /\ w.snapshot = Unread
  BY JobIsWork
<1>2. work' = [work EXCEPT !["cli"] = w]
  BY DEF Command
<1> HIDE DEF w
<1> QED
  BY <1>1, <1>2, WorkGiven DEF Command, Idle, Others, Processes

LEMMA KilledEffect ==
  ASSUME TypeOK, NEW p \in Processes, Killed(p)
  PROVE  /\ p # "server" /\ work' \in [Processes -> Works] /\ work'[p] = NoWork /\ Others(p)
         /\ UNCHANGED <<files, intent, proxy, first>>
<1>1. NoWork \in Works
  BY DEF Works
<1> QED
  BY <1>1, WorkGiven DEF Killed, Abandon, Others

LEMMA InitTypeOK == Init => TypeOK
<1> SUFFICES ASSUME Init PROVE TypeOK
  OBVIOUS
<1>1. first.url \in Urls /\ first.helper \in {"unset", "mine"}
      /\ first \in [url : Urls, helper : Helpers]
  BY DefaultIsAPort DEF Init, Urls, Helpers
<1>2. file \in Settings
  BY <1>1, PortIsAUrl, DefaultIsAPort DEF Init, Settings, Urls, Helpers
<1> QED
  BY <1>1, <1>2, DefaultIsAPort DEF Init, TypeOK, Works

LEMMA NextTypeOK == TypeOK /\ [Next]_vars => TypeOK'
<1> SUFFICES ASSUME TypeOK, [Next]_vars PROVE TypeOK'
  OBVIOUS
<1> USE DEF proxy, files
<1>1. ASSUME NEW p \in Processes, Reads(p) PROVE TypeOK'
  BY <1>1, ReadsEffect DEF TypeOK
<1>2. ASSUME NEW p \in Processes, ApplyWrites(p) PROVE TypeOK'
  <2>1. /\ work' \in [Processes -> Works] /\ work[p].snapshot \in Settings
        /\ UNCHANGED <<intent, proxy, first, want>>
        /\ ApplyRefused(p) \/ ApplyNoop(p) \/ ApplyDone(p) \/ ApplyLost(p)
    BY <1>2, ApplyEffect
  <2>2. Merge(file, CurrentPort(p)) \in Settings
    BY OwnPort, MergeSettings DEF TypeOK
  <2> QED
    BY <2>1, <2>2 DEF TypeOK, ApplyRefused, ApplyNoop, ApplyDone, ApplyLost, MadeGood
<1>3. ASSUME NEW p \in Processes, RevertWrites(p) PROVE TypeOK'
  <2>1. /\ work' \in [Processes -> Works] /\ work[p].snapshot \in Settings
        /\ UNCHANGED <<intent, proxy, first, kept, missed>>
        /\ \/ /\ file' = Strip(work[p].snapshot, CurrentPort(p))
              /\ want' = IF file = work[p].snapshot THEN want ELSE file'.url
           \/ UNCHANGED <<file, want>>
    BY <1>3, RevertEffect
  <2>2. /\ Strip(work[p].snapshot, CurrentPort(p)) \in Settings
        /\ Strip(work[p].snapshot, CurrentPort(p)).url \in Urls
    BY <2>1, OwnPort, StripSettings
  <2> QED
    BY <2>1, <2>2 DEF TypeOK
<1>4. ASSUME NEW p \in Processes, Persist(p) PROVE TypeOK'
  BY <1>4, PersistEffect DEF TypeOK
<1>18. ASSUME NEW p \in Processes, Fails(p) PROVE TypeOK'
  <2>1. /\ work' \in [Processes -> Works] /\ UNCHANGED <<intent, proxy, first>>
        /\ kept' \in BOOLEAN /\ missed' \in {"none", "apply", "revert"}
        /\ UNCHANGED <<file, want>> \/ FailedWrite(p)
    BY <1>18, FailsEffect DEF TypeOK
  <2>2. FailedWrite(p) => file' \in Settings /\ want' \in Urls
    BY OwnPort, MergeSettings, StripSettings DEF FailedWrite, TypeOK
  <2> QED
    BY <2>1, <2>2 DEF TypeOK
<1>5. ASSUME NEW p \in Processes, Killed(p) PROVE TypeOK'
  BY <1>5, KilledEffect DEF TypeOK
<1>6. ASSUME Boot PROVE TypeOK'
  BY <1>6 DEF Boot, TypeOK
<1>7. ASSUME NEW q \in Ports, Listens(q) PROVE TypeOK'
  BY <1>7, HookEffect DEF Listens, TypeOK
<1>8. ASSUME MarksSession PROVE TypeOK'
  BY <1>8 DEF MarksSession, TypeOK
<1>9. ASSUME CatalogChanged \/ KeyChanged PROVE TypeOK'
  BY <1>9, HookEffect DEF CatalogChanged, KeyChanged, TypeOK
<1>10. ASSUME NEW on \in BOOLEAN, Toggle(on) PROVE TypeOK'
  BY <1>10, StartsEffect DEF Toggle, TypeOK
<1>11. ASSUME Shutdown \/ Exits PROVE TypeOK'
  BY <1>11, HookEffect DEF Shutdown, Exits, TypeOK
<1>12. ASSUME Gone PROVE TypeOK'
  BY <1>12 DEF Gone, TypeOK
<1>13. ASSUME NEW r \in BOOLEAN, Crash(r) PROVE TypeOK'
  BY <1>13, CrashEffect DEF TypeOK
<1>14. ASSUME NEW on \in BOOLEAN, Command(on) PROVE TypeOK'
  BY <1>14, CommandEffect DEF TypeOK
<1>15. ASSUME Reload PROVE TypeOK'
  BY <1>15 DEF Reload, TypeOK
<1>16. ASSUME NEW url \in {"unset", "mine"}, UserEdits(url) PROVE TypeOK'
  BY <1>16 DEF UserEdits, TypeOK, Settings, Urls
<1>17. CASE UNCHANGED vars
  BY <1>17 DEF vars, TypeOK
<1> QED
  BY <1>1, <1>2, <1>3, <1>4, <1>5, <1>6, <1>7, <1>8, <1>9, <1>10, <1>11, <1>12, <1>13,
     <1>14, <1>15, <1>16, <1>17, <1>18 DEF Next

----------------------------------------------------------------------------
(* --- a dead proxy is marked -------------------------------------------- *)

LEMMA InitLifeInv == Init => LifeInv
<1> SUFFICES ASSUME Init PROVE LifeInv
  OBVIOUS
<1>1. work["server"] = NoWork /\ server = "off" /\ ~kept /\ ~marked
  BY DEF Init, Processes
<1>2. NoWork \notin Jobs /\ NoWork \notin Intents
  BY OutsidersAssumption
<1>3. [op |-> "intent", to |-> FALSE] \in Intents
  BY DEF Intents
<1> QED
  BY <1>1, <1>2, <1>3, InitTypeOK DEF LifeInv, ServerJobs, RoutedIsMeant, Marks, Routed

\* Work is of three kinds that exclude each other.
LEMMA WorkKinds ==
  /\ NoWork \notin Jobs /\ NoWork \notin Intents
  /\ \A w \in Jobs : w \notin Intents /\ w.op \in {"apply", "revert"}
  /\ \A b \in BOOLEAN : [op |-> "intent", to |-> b] \in Intents
  /\ [op |-> "intent", to |-> TRUE] # [op |-> "intent", to |-> FALSE]
<1>1. NoWork \notin Jobs /\ NoWork \notin Intents
  BY OutsidersAssumption
<1>2. \A w \in Jobs : w.op \in {"apply", "revert"}
  BY DEF Jobs
<1>3. \A w \in Intents : w.op = "intent" /\ w.to \in BOOLEAN
  BY DEF Intents
<1>4. \A b \in BOOLEAN : [op |-> "intent", to |-> b] \in Intents
  BY DEF Intents
<1>5. [op |-> "intent", to |-> TRUE] # [op |-> "intent", to |-> FALSE]
  <2>1. [op |-> "intent", to |-> TRUE].to # [op |-> "intent", to |-> FALSE].to
    OBVIOUS
  <2> QED
    BY <2>1
<1> QED
  BY <1>1, <1>2, <1>3, <1>4, <1>5

LEMMA RoutedIsOurs == Routed => \A here : SomethingOurs(file, here)
  BY DEF Routed, Touched, SomethingOurs, HelperOwnership

\* What the other processes and the user do never makes the file routed.
LEMMA Bystander ==
  ASSUME LifeInv, TypeOK', UNCHANGED <<proxy, missed>>, work'["server"] = work["server"],
         Routed' => Routed
  PROVE  LifeInv'
  BY DEF LifeInv, ServerJobs, RoutedIsMeant, Marks, proxy

LEMMA NextLifeInv == LifeInv /\ [Next]_vars => LifeInv'
<1> SUFFICES ASSUME LifeInv, [Next]_vars PROVE LifeInv'
  OBVIOUS
<1> USE DEF proxy, files
<1>t. TypeOK /\ TypeOK'
  BY NextTypeOK DEF LifeInv
<1>l. ServerJobs /\ RoutedIsMeant /\ Marks
  BY DEF LifeInv
<1>s. "server" \in Processes /\ "cli" # "server" /\ "shell" # "server" /\ CurrentPort("server") = port
  BY DEF Processes, CurrentPort
<1>1. ASSUME NEW p \in Processes, Reads(p) PROVE LifeInv'
  <2>1. CASE p = "server"
    <3>1. work["server"] \in Jobs /\ work["server"].snapshot = Unread
      BY <1>t, <1>1, <2>1, ReadsEffect
    <3> QED
      BY <1>l, <3>1 DEF ServerJobs
  <2>2. CASE p # "server"
    <3>1. work'["server"] = work["server"] /\ UNCHANGED <<file, proxy, kept, missed>>
      BY <1>t, <1>1, <1>s, <2>2, ReadsEffect DEF Others
    <3> QED
      BY <1>t, <3>1, Bystander DEF Routed
  <2> QED
    BY <2>1, <2>2
<1>2. ASSUME NEW p \in Processes, ApplyWrites(p), p # "server" PROVE LifeInv'
  <2>1. /\ work'["server"] = work["server"] /\ UNCHANGED <<proxy, missed>>
        /\ ApplyRefused(p) \/ ApplyNoop(p) \/ ApplyDone(p) \/ ApplyLost(p)
    BY <1>t, <1>2, <1>s, ApplyEffect
       DEF Others, ApplyRefused, ApplyNoop, ApplyDone, ApplyLost, MadeGood
  <2>2. Routed' => Routed
    BY <1>2, <2>1 DEF Routed, ApplyRefused, ApplyNoop, ApplyDone, ApplyLost
  <2> QED
    BY <1>t, <2>1, <2>2, Bystander
<1>3. ASSUME ApplyWrites("server") PROVE LifeInv'
  <2> DEFINE w == work["server"]
  <2>1. /\ w \in Jobs /\ w.op = "apply" /\ w.then \in {"none", "on", "off"}
        /\ UNCHANGED <<intent, server, port, cache, sentinel, marked>>
        /\ ApplyRefused("server") \/ ApplyNoop("server")
             \/ ApplyDone("server") \/ ApplyLost("server")
    BY <1>t, <1>3, <1>s, ApplyEffect
  <2>2. /\ w.then \in {"none", "on"} /\ (w.then = "none" => cache)
        /\ server \notin {"off", "starting", "exiting"}
        /\ Routed => cache
    BY <1>l, <1>t, <2>1, WorkKinds DEF ServerJobs, RoutedIsMeant, TypeOK
  <2>3. CASE ApplyRefused("server") \/ ApplyLost("server")
    <3>1. /\ UNCHANGED <<file, kept, missed>>
          /\ \/ work'["server"] = NoWork
             \/ Reread("server") /\ work'["server"].op = "apply" /\ work'["server"].then = w.then
      BY <2>1, <2>3 DEF ApplyRefused, ApplyLost, Reread
    <3>2. work'["server"] \in Jobs => work'["server"].snapshot # Unread
      BY <1>t, <3>1, WorkKinds, OutsidersAssumption DEF Reread, TypeOK
    <3>3. ServerJobs' /\ RoutedIsMeant' /\ Marks'
      BY <1>l, <2>1, <2>2, <3>1, <3>2, WorkKinds
      DEF ServerJobs, RoutedIsMeant, Marks, Routed, Reread
    <3> QED
      BY <1>t, <3>3 DEF LifeInv
  <2>4. CASE ApplyNoop("server") \/ ApplyDone("server")
    <3>1. Settled("server", w.then) /\ missed' = "none"
      BY <2>4 DEF ApplyNoop, ApplyDone, MadeGood
    <3>2. \/ w.then = "none" /\ work'["server"] = NoWork
          \/ w.then = "on" /\ work'["server"] = [op |-> "intent", to |-> TRUE]
      BY <1>t, <1>s, <2>2, <3>1, SettledWork
    <3>3. ServerJobs' /\ RoutedIsMeant' /\ Marks'
      BY <1>l, <2>1, <2>2, <3>1, <3>2, WorkKinds DEF ServerJobs, RoutedIsMeant, Marks
    <3> QED
      BY <1>t, <3>3 DEF LifeInv
  <2> QED
    BY <2>1, <2>3, <2>4
<1>4. ASSUME NEW p \in Processes, RevertWrites(p), p # "server" PROVE LifeInv'
  <2>1. /\ work'["server"] = work["server"] /\ UNCHANGED <<proxy, kept, missed>>
        /\ work[p].snapshot \in Settings
        /\ file' = Strip(work[p].snapshot, CurrentPort(p)) \/ file' = file
    BY <1>t, <1>4, <1>s, RevertEffect DEF Others
  <2>2. Routed' => Routed
    BY <1>t, <2>1, StripSettings, OwnPort DEF Routed
  <2> QED
    BY <1>t, <2>1, <2>2, Bystander
<1>5. ASSUME RevertWrites("server") PROVE LifeInv'
  <2> DEFINE w == work["server"]
  <2>1. /\ w \in Jobs /\ w.op = "revert" /\ w.then \in {"none", "on", "off"}
        /\ w.snapshot \in Settings
        /\ Settled("server", w.then)
        /\ UNCHANGED <<server, port, cache, sentinel, marked, kept, missed>>
        /\ \/ file' = Strip(w.snapshot, port)
           \/ ~SomethingOurs(w.snapshot, port) /\ UNCHANGED file
    BY <1>t, <1>5, <1>s, RevertEffect
  <2>2. ~Routed'
    BY <1>t, <1>l, <2>1, StripSettings DEF Routed, RoutedIsMeant, TypeOK
  <2>3. /\ w.then \in {"none", "off"} /\ server \notin {"off", "starting"}
        /\ server = "exiting" => w.then = "none"
    BY <1>l, <2>1, WorkKinds DEF ServerJobs
  <2>4. \/ w.then = "none" /\ work'["server"] = NoWork
        \/ w.then = "off" /\ work'["server"] = [op |-> "intent", to |-> FALSE]
    BY <1>t, <1>s, <2>1, <2>3, SettledWork
  <2>5. ServerJobs' /\ RoutedIsMeant' /\ Marks'
    BY <1>l, <2>1, <2>2, <2>3, <2>4, WorkKinds DEF ServerJobs, RoutedIsMeant, Marks
  <2> QED
    BY <1>t, <2>5 DEF LifeInv
<1>6. ASSUME NEW p \in Processes, Persist(p) PROVE LifeInv'
  <2>1. CASE p # "server"
    <3>1. work'["server"] = work["server"] /\ UNCHANGED <<proxy, file, kept, missed>>
      BY <1>t, <1>6, <1>s, <2>1, PersistEffect DEF Others, TypeOK
    <3> QED
      BY <1>t, <3>1, Bystander DEF Routed
  <2>2. CASE p = "server"
    <3>1. /\ work["server"] = [op |-> "intent", to |-> intent'] /\ intent' \in BOOLEAN
          /\ cache' = intent' /\ kept' = (kept \/ intent')
          /\ work'["server"] = NoWork
          /\ UNCHANGED <<file, missed, server, port, sentinel, marked>>
      BY <1>t, <1>6, <2>2, PersistEffect
    <3>2. server \notin {"off", "starting", "exiting"}
      BY <1>l, <3>1, WorkKinds DEF ServerJobs
    <3>3. Routed' => cache'
      BY <1>l, <3>1 DEF RoutedIsMeant, Routed
    <3>4. ServerJobs' /\ RoutedIsMeant' /\ Marks'
      BY <1>l, <3>1, <3>2, <3>3, WorkKinds DEF ServerJobs, RoutedIsMeant, Marks
    <3> QED
      BY <1>t, <3>4 DEF LifeInv
  <2> QED
    BY <2>1, <2>2
<1>20. ASSUME NEW p \in Processes, Fails(p), p # "server" PROVE LifeInv'
  <2>1. /\ work'["server"] = work["server"] /\ UNCHANGED <<proxy, missed>>
        /\ kept' = (kept /\ file' = file)
    BY <1>t, <1>20, <1>s, FailsEffect DEF Others
  <2>2. Routed' => Routed
    BY <2>1 DEF Routed
  <2> QED
    BY <1>t, <2>1, <2>2, Bystander
<1>21. ASSUME Fails("server") PROVE LifeInv'
  <2> DEFINE w == work["server"]
  <2>1. /\ w # NoWork /\ work'["server"] = NoWork
        /\ UNCHANGED <<server, port, cache, sentinel, marked>>
        /\ kept' = (cache /\ (kept \/ (w.op = "apply" /\ file' # file)))
        /\ missed' = (IF file' # file THEN "none"
                      ELSE IF server = "booting" THEN "apply"
                      ELSE IF server = "exiting" THEN "revert"
                      ELSE missed)
        /\ file' = file \/ FailedWrite("server")
    BY <1>t, <1>21, <1>s, FailsEffect
  <2>2. server \notin {"off", "starting"} /\ (server = "exiting" => w \in Jobs /\ w.op = "revert")
    <3>1. w \in Works
      BY <1>t, <1>s DEF TypeOK
    <3> QED
      BY <1>l, <2>1, <3>1, WorkKinds DEF ServerJobs, Works, Intents
  <2>3. Routed' => cache
    BY <2>1 DEF Routed
  <2>4. server = "exiting" /\ file' # file => ~Routed'
    <3>1. SUFFICES ASSUME server = "exiting", file' # file PROVE ~Touched(file')
      BY DEF Routed
    <3>2. w.snapshot \in Settings /\ file' = Strip(w.snapshot, port) /\ port \in Ports
      BY <1>t, <1>s, <2>1, <2>2, <3>1 DEF FailedWrite, TypeOK
    <3> QED
      BY <3>2, StripSettings
  <2>5. ServerJobs' /\ RoutedIsMeant' /\ Marks'
    BY <1>l, <2>1, <2>2, <2>3, <2>4, WorkKinds DEF ServerJobs, RoutedIsMeant, Marks
  <2> QED
    BY <1>t, <2>5 DEF LifeInv
<1>7. ASSUME NEW p \in Processes, Killed(p) PROVE LifeInv'
  <2>1. work'["server"] = work["server"] /\ UNCHANGED <<proxy, file, kept, missed>>
    BY <1>t, <1>7, <1>s, KilledEffect DEF Others
  <2> QED
    BY <1>t, <2>1, Bystander DEF Routed
<1>8. ASSUME Boot PROVE LifeInv'
  <2>1. ~Routed'
    BY <1>8 DEF Boot, Routed
  <2>2. ServerJobs' /\ RoutedIsMeant' /\ Marks'
    BY <1>8, <1>l, <2>1, WorkKinds DEF Boot, ServerJobs, RoutedIsMeant, Marks
  <2> QED
    BY <1>t, <2>2 DEF LifeInv
\* A hook's job is on the file as it is.
<1>9. ASSUME NEW op \in {"apply", "revert"}, ServerHook(op), UNCHANGED <<files, cache>>,
             work["server"] = NoWork, server # "off", server' # "off",
             server' \notin {"starting"},
             server' = "exiting" => op = "revert"
      PROVE  ServerJobs' /\ RoutedIsMeant'
  <2>1. /\ cache => Begins(op, "none")
        /\ ~cache => work' = work
    BY <1>t, <1>9, HookEffect
  <2>2. Routed => cache
    BY <1>l, <1>9, WorkKinds DEF RoutedIsMeant
  <2>3. file # Unread /\ Routed' = Routed
    BY <1>t, <1>9, OutsidersAssumption DEF TypeOK, Routed
  <2>4. CASE cache
    <3>1. Begins(op, "none")
      BY <2>1, <2>4
    <3>2. ServerJobs'
      BY <1>9, <2>3, <2>4, <3>1, WorkKinds DEF ServerJobs, Begins
    <3>3. RoutedIsMeant'
      BY <1>9, <2>3, <2>4, <3>1, WorkKinds, RoutedIsOurs DEF RoutedIsMeant, Begins
    <3> QED
      BY <3>2, <3>3
  <2>5. CASE ~cache
    BY <1>9, <2>1, <2>2, <2>3, <2>5, WorkKinds DEF ServerJobs, RoutedIsMeant
  <2> QED
    BY <2>4, <2>5
<1>10. ASSUME NEW q \in Ports, Listens(q) PROVE LifeInv'
  <2>1. work["server"] = NoWork
    BY <1>l, <1>10 DEF Listens, ServerJobs
  <2>2. ServerJobs' /\ RoutedIsMeant'
    BY <1>9, <1>10, <2>1 DEF Listens
  <2>3. Marks'
    BY <1>l, <1>10 DEF Listens, Marks
  <2> QED
    BY <1>t, <2>2, <2>3 DEF LifeInv
<1>11. ASSUME MarksSession PROVE LifeInv'
  <2>0. /\ server = "booting" /\ server' = "up" /\ work["server"] = NoWork
        /\ UNCHANGED <<work, cache, port>> /\ Routed' = Routed /\ missed' = missed
        /\ (marked' => sentinel') \/ (marked' = marked)
    BY <1>11 DEF MarksSession, Idle, Routed
  <2>2. Marks'
    BY <1>l, <1>t, <2>0 DEF Marks
  <2>1. ServerJobs' /\ RoutedIsMeant' /\ Marks'
    BY <1>l, <2>0, <2>2, WorkKinds DEF ServerJobs, RoutedIsMeant
  <2> QED
    BY <1>t, <2>1 DEF LifeInv
<1>12. ASSUME CatalogChanged \/ KeyChanged \/ Shutdown \/ Exits PROVE LifeInv'
  <2>1. /\ server \in {"up", "closing"} /\ work["server"] = NoWork
        /\ server' \in {server, "closing", "exiting"}
        /\ UNCHANGED <<files, port, cache, sentinel, marked>>
        /\ \E op \in {"apply", "revert"} : ServerHook(op) /\ (server' = "exiting" => op = "revert")
    BY <1>12 DEF CatalogChanged, KeyChanged, Shutdown, Exits, Serving, Idle
  <2>2. ServerJobs' /\ RoutedIsMeant'
    BY <1>9, <2>1
  <2>3. Marks'
    BY <1>l, <2>1 DEF Marks
  <2> QED
    BY <1>t, <2>2, <2>3 DEF LifeInv
<1>13. ASSUME NEW on \in BOOLEAN, Toggle(on) PROVE LifeInv'
  <2>1. /\ server \in {"up", "closing"} /\ work["server"] = NoWork
        /\ UNCHANGED <<files, intent, server, port, cache, sentinel, marked>>
        /\ Begins("apply", "on") \/ Begins("revert", "off")
    BY <1>t, <1>13, StartsEffect DEF Toggle, Serving, Idle
  <2>2. (Routed => cache) /\ Routed' = Routed /\ file # Unread
    BY <1>t, <1>l, <2>1, WorkKinds, OutsidersAssumption DEF RoutedIsMeant, TypeOK, Routed
  <2>3. ServerJobs'
    BY <2>1, <2>2, WorkKinds DEF ServerJobs, Begins
  <2>4. RoutedIsMeant'
    BY <2>1, <2>2, WorkKinds, RoutedIsOurs DEF RoutedIsMeant, Begins
  <2>5. Marks'
    BY <1>l, <2>1 DEF Marks
  <2> QED
    BY <1>t, <2>3, <2>4, <2>5 DEF LifeInv
<1>14. ASSUME Gone PROVE LifeInv'
  <2>1. ~Routed \/ missed = "revert"
    BY <1>l, <1>14 DEF Gone, Idle, RoutedIsMeant
  <2>3. work["server"] = NoWork /\ Routed' = Routed
    BY <1>14 DEF Gone, Idle, Routed
  <2>2. ServerJobs' /\ RoutedIsMeant' /\ Marks'
    BY <1>l, <1>14, <2>1, <2>3, WorkKinds DEF Gone, ServerJobs, RoutedIsMeant, Marks
  <2> QED
    BY <1>t, <2>2 DEF LifeInv
<1>15. ASSUME NEW r \in BOOLEAN, Crash(r) PROVE LifeInv'
  <2>1. /\ server # "off" /\ server' = "off" /\ work'["server"] = NoWork
        /\ UNCHANGED <<file, kept, missed, port, cache, sentinel, marked>>
    BY <1>t, <1>15, CrashEffect
  <2>2. ServerJobs' /\ RoutedIsMeant' /\ Marks'
    BY <1>l, <2>1, WorkKinds DEF ServerJobs, RoutedIsMeant, Marks
  <2> QED
    BY <1>t, <2>2 DEF LifeInv
<1>16. ASSUME NEW on \in BOOLEAN, Command(on) PROVE LifeInv'
  <2>1. work'["server"] = work["server"] /\ UNCHANGED <<proxy, file, kept, missed>>
    BY <1>t, <1>16, <1>s, CommandEffect DEF Others
  <2> QED
    BY <1>t, <2>1, Bystander DEF Routed
<1>17. ASSUME Reload PROVE LifeInv'
  <2>1. ServerJobs' /\ RoutedIsMeant' /\ Marks'
    BY <1>l, <1>17, WorkKinds DEF Reload, Idle, ServerJobs, RoutedIsMeant, Marks, Routed
  <2> QED
    BY <1>t, <2>1 DEF LifeInv
<1>18. ASSUME NEW url \in {"unset", "mine"}, UserEdits(url) PROVE LifeInv'
  <2>1. file'.url = url /\ url \notin Ports /\ UNCHANGED <<proxy, work, missed>>
    BY <1>t, <1>18, PortIsAUrl DEF UserEdits, TypeOK, Settings
  <2> QED
    BY <1>t, <2>1, Bystander DEF Routed
<1>19. CASE UNCHANGED vars
  <2>1. UNCHANGED <<proxy, work, file, kept, missed>>
    BY <1>19 DEF vars
  <2> QED
    BY <1>t, <2>1, Bystander DEF Routed
<1> QED
  BY <1>1, <1>2, <1>3, <1>4, <1>5, <1>6, <1>7, <1>8, <1>10, <1>11, <1>12, <1>13, <1>14,
     <1>15, <1>16, <1>17, <1>18, <1>19, <1>20, <1>21 DEF Next

\* A dead proxy's address is marked, whoever else writes the file and whatever
\* write fails but the exit's own revert: the type invariant and StrandedIsMarked
\* (session-sentinel.ts, run-server.ts, shutdown.ts).
THEOREM StrandedIsAlwaysMarked == Spec => [](TypeOK /\ StrandedIsMarked)
<1>1. LifeInv => TypeOK /\ StrandedIsMarked
  BY DEF LifeInv, Marks, Routed, StrandedIsMarked
<1> QED
  BY <1>1, InitLifeInv, NextLifeInv, PTL DEF Spec

----------------------------------------------------------------------------
(* --- the file goes back to what it was --------------------------------- *)

LEMMA MergeOwned ==
  ASSUME NEW f \in Settings, NEW here \in Ports, Owned(f), MayApply(f, here)
  PROVE  Owned(Merge(f, here)) /\ Merge(f, here).url = here /\ f.url \in Ports \cup {"unset"}
<1>1. f.url \in Ports \cup {"unset"} /\ f.helper \in {"unset", "ours"}
  BY DEF MayApply, BaseUrlOwnership, HelperOwnership, Settings, Helpers
<1>2. f.helper # "ours" => f.prior = NoPrior /\ f.url = "unset" /\ first.helper = "unset"
  BY <1>1 DEF Owned
<1>3. f.helper = "ours" => /\ first.helper = "unset"
                           /\ f.prior \in {NoPrior, [url |-> "unset", helper |-> "unset"]}
  BY DEF Owned
<1>4. f.helper = "ours" /\ f.url # "unset" => BaseUrlOwnership(f, here) = "ours"
  BY <1>1 DEF BaseUrlOwnership, HelperOwnership
<1>5. PreparePrior(f, here) = [url |-> "unset", helper |-> "unset"]
  BY <1>1, <1>2, <1>3, <1>4 DEF PreparePrior
<1> QED
  BY <1>1, <1>2, <1>3, <1>5 DEF Merge, Owned

LEMMA StripOwned ==
  ASSUME NEW f \in Settings, NEW here \in Ports, Owned(f)
  PROVE  /\ Owned(Strip(f, here))
         /\ Strip(f, here).url \in {"unset", "mine"}
         /\ f.url \notin Ports => Strip(f, here).url = f.url
         /\ f.url \in Ports => Strip(f, here).url = "unset"
<1>1. CASE f.helper = "ours"
  <2>1. /\ first.helper = "unset"
        /\ f.prior \in {NoPrior, [url |-> "unset", helper |-> "unset"]}
    BY <1>1 DEF Owned
  <2>2. BaseUrlOwnership(f, here) = "ours" <=> f.url \in Ports
    BY <1>1, PortIsAUrl DEF BaseUrlOwnership, HelperOwnership
  <2>3. Strip(f, here).url = (IF f.url \in Ports THEN "unset" ELSE f.url)
    BY <2>1, <2>2 DEF Strip
  <2>4. Strip(f, here).helper = "unset" /\ Strip(f, here).prior = NoPrior
    BY <1>1, <2>1 DEF Strip, HelperOwnership
  <2>5. f.url \in Urls
    BY DEF Settings
  <2> QED
    BY <2>1, <2>3, <2>4, <2>5, UrlsAreDistinct DEF Owned, Urls
<1>2. CASE f.helper # "ours"
  <2>1. f.prior = NoPrior /\ f.helper = first.helper /\ f.url \notin Ports
    BY <1>2 DEF Owned
  <2>2. BaseUrlOwnership(f, here) # "ours" /\ HelperOwnership(f) # "ours"
    BY <1>2, <2>1 DEF BaseUrlOwnership, HelperOwnership
  <2>3. Strip(f, here).url = f.url /\ Strip(f, here).helper = f.helper
        /\ Strip(f, here).prior = NoPrior
    BY <2>2 DEF Strip
  <2>4. f.url \in Urls
    BY DEF Settings
  <2> QED
    BY <1>2, <2>1, <2>3, <2>4 DEF Owned, Urls
<1> QED
  BY <1>1, <1>2

LEMMA InitOwnInv ==
  ASSUME ~Typed
  PROVE  Init => OwnInv
<1> SUFFICES ASSUME Init PROVE OwnInv
  OBVIOUS
<1>1. first.url \in {"unset", "mine"} /\ first.helper \in {"unset", "mine"} /\ want = first.url
  BY DEF Init
<1>2. first.url \notin Ports
  BY <1>1, UrlsAreDistinct
<1>3. \A p \in Processes : work[p] \notin Jobs
  BY OutsidersAssumption DEF Init
<1>4. CASE file = [url |-> first.url, helper |-> first.helper, prior |-> NoPrior]
  BY <1>1, <1>2, <1>3, <1>4, InitTypeOK DEF OwnInv, Owned
<1>5. CASE /\ first = [url |-> "unset", helper |-> "unset"]
           /\ file = [url |-> DefaultPort, helper |-> "ours", prior |-> NoPrior]
  BY <1>1, <1>3, <1>5, InitTypeOK, DefaultIsAPort DEF OwnInv, Owned
<1> QED
  BY <1>4, <1>5 DEF Init

\* What was read is what the file was: a step that leaves the file, and gives a
\* process nothing to write or the file as it is.
LEMMA OwnKept ==
  ASSUME OwnInv, TypeOK', UNCHANGED <<file, want, first>>,
         \A p \in Processes :
           \/ work'[p] = work[p]
           \/ work'[p] \in Jobs => work'[p].snapshot \in {Unread, file}
  PROVE  OwnInv'
BY DEF OwnInv, Owned

LEMMA NextOwnInv == OwnInv /\ [Next]_vars => OwnInv'
<1> SUFFICES ASSUME OwnInv, [Next]_vars PROVE OwnInv'
  OBVIOUS
<1> USE DEF proxy, files
<1>t. TypeOK /\ TypeOK'
  BY NextTypeOK DEF OwnInv
<1>s. "server" \in Processes /\ "cli" \in Processes /\ "shell" \in Processes
      /\ \A p \in Processes : p \in {"server", "cli", "shell"}
  BY DEF Processes
\* The work of the others stays, and p's next work is no job.
<1>w. ASSUME NEW p \in Processes, Others(p), work'[p] \notin Jobs, UNCHANGED first,
             Owned(file'), want' \in {"unset", "mine"},
             file'.url = want' \/ (file'.url \in Ports /\ want' = "unset")
      PROVE  OwnInv'
  <2>1. \A q \in Processes : work'[q] \in Jobs => work'[q] = work[q]
    BY <1>w DEF Others
  <2>2. \A f : Owned(f)' <=> Owned(f)
    BY <1>w DEF Owned
  <2> QED
    BY <1>t, <1>w, <2>1, <2>2 DEF OwnInv
<1>n. ASSUME NEW p \in Processes, NEW then \in {"none", "on", "off"}, Settled(p, then)
      PROVE  work'[p] \notin Jobs
  BY <1>t, <1>n, SettledWork, WorkKinds
<1>1. ASSUME NEW p \in Processes, Reads(p) PROVE OwnInv'
  BY <1>t, <1>1, OwnKept, ReadsEffect DEF Others, Reread
<1>2. ASSUME NEW p \in Processes, ApplyWrites(p) PROVE OwnInv'
  <2>1. /\ work[p] \in Jobs /\ work[p].snapshot \in Settings
        /\ work[p].then \in {"none", "on", "off"} /\ Others(p) /\ UNCHANGED <<first, want>>
        /\ ApplyRefused(p) \/ ApplyNoop(p) \/ ApplyDone(p) \/ ApplyLost(p)
    BY <1>t, <1>2, ApplyEffect
  <2>2. CASE ApplyRefused(p) \/ ApplyLost(p)
    <3>1. UNCHANGED file /\ (work'[p] \in Jobs => work'[p].snapshot = file)
      BY <2>2, WorkKinds DEF ApplyRefused, ApplyLost, Reread
    <3> QED
      BY <1>t, <2>1, <3>1, OwnKept DEF Others
  <2>3. CASE ApplyNoop(p)
    <3>1. UNCHANGED file /\ work'[p] \notin Jobs
      BY <1>n, <2>1, <2>3 DEF ApplyNoop
    <3> QED
      BY <1>t, <2>1, <3>1, OwnKept DEF Others
  <2>4. CASE ApplyDone(p)
    <3>1. /\ MayApply(file, CurrentPort(p)) /\ file' = Merge(file, CurrentPort(p))
          /\ work'[p] \notin Jobs
      BY <1>n, <2>1, <2>4 DEF ApplyDone
    <3>2. CurrentPort(p) \in Ports /\ file \in Settings /\ Owned(file)
      BY <1>t, OwnPort DEF TypeOK, OwnInv
    <3>3. Owned(file') /\ file'.url \in Ports /\ file.url \in Ports \cup {"unset"}
      BY <3>1, <3>2, MergeOwned
    <3>4. want' = "unset"
      BY <2>1, <3>3, UrlsAreDistinct DEF OwnInv
    <3> QED
      BY <1>w, <2>1, <3>1, <3>3, <3>4
  <2> QED
    BY <2>1, <2>2, <2>3, <2>4
<1>3. ASSUME NEW p \in Processes, RevertWrites(p) PROVE OwnInv'
  <2> DEFINE f == work[p].snapshot
             here == CurrentPort(p)
  <2>1. /\ work[p] \in Jobs /\ f \in Settings /\ f # Unread
        /\ work[p].then \in {"none", "on", "off"} /\ Others(p) /\ UNCHANGED first
        /\ Settled(p, work[p].then)
        /\ \/ file' = Strip(f, here) /\ want' = IF file = f THEN want ELSE file'.url
           \/ UNCHANGED <<file, want>>
    BY <1>t, <1>3, RevertEffect
  <2>2. here \in Ports /\ Owned(f) /\ work'[p] \notin Jobs
    BY <1>t, <1>n, <2>1, OwnPort DEF OwnInv
  <2>3. CASE UNCHANGED <<file, want>>
    BY <1>t, <2>1, <2>2, <2>3, OwnKept DEF Others
  <2>4. CASE file' = Strip(f, here) /\ want' = IF file = f THEN want ELSE file'.url
    <3>1. /\ Owned(Strip(f, here)) /\ Strip(f, here).url \in {"unset", "mine"}
          /\ f.url \notin Ports => Strip(f, here).url = f.url
          /\ f.url \in Ports => Strip(f, here).url = "unset"
      BY <2>1, <2>2, StripOwned
    <3>2. /\ want \in {"unset", "mine"}
          /\ file.url = want \/ (file.url \in Ports /\ want = "unset")
      BY DEF OwnInv
    <3>3. file = f => file'.url = want
      BY <2>4, <3>1, <3>2, UrlsAreDistinct
    <3>4. want' \in {"unset", "mine"} /\ file'.url = want'
      BY <2>4, <3>1, <3>2, <3>3
    <3> QED
      BY <1>w, <2>1, <2>2, <2>4, <3>1, <3>4
  <2> QED
    BY <2>1, <2>3, <2>4
<1>4. ASSUME NEW p \in Processes, Persist(p) PROVE OwnInv'
  BY <1>t, <1>4, OwnKept, PersistEffect, WorkKinds DEF Others
<1>16. ASSUME NEW p \in Processes, Fails(p) PROVE OwnInv'
  <2> DEFINE f == work[p].snapshot
             here == CurrentPort(p)
  <2>1. /\ work'[p] = NoWork /\ Others(p) /\ UNCHANGED first
        /\ UNCHANGED <<file, want>> \/ FailedWrite(p)
    BY <1>t, <1>16, FailsEffect
  <2>2. here \in Ports /\ file \in Settings /\ Owned(file) /\ work'[p] \notin Jobs
    BY <1>t, <2>1, OwnPort, WorkKinds DEF TypeOK, OwnInv
  <2>3. CASE UNCHANGED <<file, want>>
    BY <1>t, <2>1, <2>2, <2>3, OwnKept DEF Others
  <2>4. CASE FailedWrite(p) /\ work[p].op = "apply"
    <3>1. MayApply(file, here) /\ file' = Merge(file, here) /\ want' = want
      BY <2>4 DEF FailedWrite
    <3>2. Owned(file') /\ file'.url \in Ports /\ file.url \in Ports \cup {"unset"}
      BY <2>2, <3>1, MergeOwned, PortIsAUrl
    <3>3. want' = "unset"
      BY <3>1, <3>2, UrlsAreDistinct DEF OwnInv
    <3> QED
      BY <1>w, <2>1, <2>2, <3>2, <3>3
  <2>5. CASE FailedWrite(p) /\ work[p].op = "revert"
    <3>1. /\ work[p] \in Jobs /\ f \in Settings /\ f # Unread
          /\ file' = Strip(f, here) /\ want' = IF file = f THEN want ELSE file'.url
      BY <2>5 DEF FailedWrite
    <3>2. Owned(f)
      BY <3>1 DEF OwnInv
    <3>3. /\ Owned(Strip(f, here)) /\ Strip(f, here).url \in {"unset", "mine"}
          /\ f.url \notin Ports => Strip(f, here).url = f.url
          /\ f.url \in Ports => Strip(f, here).url = "unset"
      BY <2>2, <3>1, <3>2, StripOwned
    <3>4. /\ want \in {"unset", "mine"}
          /\ file.url = want \/ (file.url \in Ports /\ want = "unset")
      BY DEF OwnInv
    <3>5. file = f => file'.url = want
      BY <3>1, <3>3, <3>4, UrlsAreDistinct
    <3>6. want' \in {"unset", "mine"} /\ file'.url = want'
      BY <3>1, <3>3, <3>4, <3>5
    <3> QED
      BY <1>w, <2>1, <2>2, <3>1, <3>3, <3>6
  <2> QED
    BY <2>1, <2>3, <2>4, <2>5 DEF FailedWrite
<1>5. ASSUME NEW p \in Processes, Killed(p) PROVE OwnInv'
  BY <1>t, <1>5, OwnKept, KilledEffect, WorkKinds DEF Others
<1>6. ASSUME Boot \/ MarksSession \/ Gone \/ Reload PROVE OwnInv'
  <2>1. UNCHANGED <<file, want, first, work>>
    BY <1>6 DEF Boot, MarksSession, Gone, Reload
  <2> QED
    BY <1>t, <2>1, OwnKept
<1>7. ASSUME NEW op \in {"apply", "revert"}, ServerHook(op), UNCHANGED <<files, first>>
      PROVE  OwnInv'
  <2>1. Others("server") /\ (work'["server"] = work["server"] \/ Begins(op, "none"))
    BY <1>t, <1>7, HookEffect
  <2> QED
    BY <1>t, <1>7, <2>1, OwnKept DEF Others, Begins
<1>8. ASSUME NEW q \in Ports, Listens(q) PROVE OwnInv'
  BY <1>7, <1>8 DEF Listens
<1>9. ASSUME CatalogChanged \/ KeyChanged PROVE OwnInv'
  BY <1>7, <1>9 DEF CatalogChanged, KeyChanged
<1>10. ASSUME Shutdown \/ Exits PROVE OwnInv'
  BY <1>7, <1>10 DEF Shutdown, Exits
<1>11. ASSUME NEW on \in BOOLEAN, Toggle(on) PROVE OwnInv'
  <2>1. ServerStarts("apply", "on") \/ ServerStarts("revert", "off")
    BY <1>11 DEF Toggle
  <2>2. UNCHANGED <<files, first>>
    BY <1>11 DEF Toggle
  <2>3. Others("server") /\ (Begins("apply", "on") \/ Begins("revert", "off"))
    BY <1>t, <2>1, StartsEffect
  <2> QED
    BY <1>t, <2>2, <2>3, OwnKept DEF Others, Begins
<1>12. ASSUME NEW r \in BOOLEAN, Crash(r) PROVE OwnInv'
  <2>1. /\ work'["server"] = NoWork /\ work'["cli"] = work["cli"]
        /\ work'["shell"] = work["shell"] \/ work'["shell"].snapshot = Unread
        /\ UNCHANGED <<files, first>>
    BY <1>t, <1>12, CrashEffect
  <2> QED
    BY <1>t, <1>s, <2>1, OwnKept, WorkKinds
<1>13. ASSUME NEW on \in BOOLEAN, Command(on) PROVE OwnInv'
  BY <1>t, <1>13, OwnKept, CommandEffect DEF Others
<1>14. ASSUME NEW url \in {"unset", "mine"}, UserEdits(url) PROVE OwnInv'
  <2>1. file' = [file EXCEPT !.url = url] /\ want' = url /\ UNCHANGED <<work, first>>
    BY <1>14 DEF UserEdits
  <2>2. file'.url = url /\ file'.helper = file.helper /\ file'.prior = file.prior
    BY <1>t, <2>1 DEF TypeOK, Settings
  <2>3. url \notin Ports
    BY UrlsAreDistinct
  <2> QED
    BY <1>t, <2>1, <2>2, <2>3 DEF OwnInv, Owned
<1>15. CASE UNCHANGED vars
  BY <1>t, <1>15, OwnKept DEF vars
<1> QED
  BY <1>1, <1>2, <1>3, <1>4, <1>5, <1>6, <1>8, <1>9, <1>10, <1>11, <1>12, <1>13, <1>14,
     <1>15, <1>16 DEF Next

\* When the user has not typed the proxy's own address, a file with nothing of
\* ours in it says what the user last put there or had at first, whatever mix of
\* applies, reverts, crashes and edits went before (_maximalPrior, config.ts).
THEOREM FileIsRestored ==
  ASSUME ~Typed
  PROVE  Spec => []RestoresExactly
<1>1. OwnInv => RestoresExactly
  <2> SUFFICES ASSUME OwnInv, ~Touched(file)
               PROVE  file.url = want /\ file.helper = first.helper
    BY DEF RestoresExactly
  <2> QED
    BY DEF OwnInv, Owned, Touched
<1> QED
  BY <1>1, InitOwnInv, NextOwnInv, PTL DEF Spec

----------------------------------------------------------------------------
(* --- a user's URL survives --------------------------------------------- *)

\* The actions that may replace the file.
LEMMA FileWriters ==
  ASSUME TypeOK, [Next]_vars, file' # file
  PROVE  \/ \E p \in Processes : ApplyWrites(p) \/ RevertWrites(p) \/ Fails(p)
         \/ \E url \in {"unset", "mine"} : UserEdits(url)
<1> USE DEF proxy, files
<1>1. ASSUME NEW p \in Processes, Reads(p) \/ Persist(p) \/ Killed(p) PROVE file' = file
  BY <1>1 DEF Reads, Persist, Killed
<1>2. ASSUME \/ Boot \/ (\E q \in Ports : Listens(q)) \/ MarksSession
             \/ CatalogChanged \/ KeyChanged \/ (\E on \in BOOLEAN : Toggle(on))
      PROVE  file' = file
  BY <1>2 DEF Boot, Listens, MarksSession, CatalogChanged, KeyChanged, Toggle
<1>3. ASSUME \/ Shutdown \/ Exits \/ Gone \/ (\E r \in BOOLEAN : Crash(r))
             \/ (\E on \in BOOLEAN : Command(on)) \/ Reload
      PROVE  file' = file
  BY <1>3 DEF Shutdown, Exits, Gone, Crash, Command, Reload
<1>4. UNCHANGED vars => file' = file
  BY DEF vars
<1> QED
  BY <1>1, <1>2, <1>3, <1>4 DEF Next

\* A URL of the user's own disappears only by the user's hand, or under a revert
\* that had read the file before: an apply reads it as a stranger's and is refused
\* (expectedContent in applyProxyBaseUrl, config.ts).
THEOREM UserEditsSurvive == Spec => EditsSurvive
<1> DEFINE Kept == (file.url = "mine" /\ file'.url # "mine") =>
       \/ want' = file'.url /\ work' = work
       \/ \E p \in Processes : /\ work[p] # NoWork /\ work[p].op = "revert"
                               /\ work[p].snapshot # file
<1>1. TypeOK /\ [Next]_vars => Kept
  <2> SUFFICES ASSUME TypeOK, [Next]_vars, file.url = "mine", file'.url # "mine"
               PROVE  \/ want' = file'.url /\ work' = work
                      \/ \E p \in Processes : /\ work[p] # NoWork /\ work[p].op = "revert"
                                              /\ work[p].snapshot # file
    OBVIOUS
  <2>1. ASSUME NEW p \in Processes, ApplyWrites(p) PROVE FALSE
    <3>1. ApplyRefused(p) \/ ApplyNoop(p) \/ ApplyDone(p) \/ ApplyLost(p)
      BY <2>1, ApplyEffect
    <3>2. MayApply(file, CurrentPort(p))
      BY <3>1 DEF ApplyRefused, ApplyNoop, ApplyDone, ApplyLost
    <3>3. CurrentPort(p) # "mine" /\ "mine" \notin Ports
      BY OwnPort, PortIsAUrl, UrlsAreDistinct
    <3> QED
      BY <3>2, <3>3 DEF MayApply, BaseUrlOwnership
  <2>2. ASSUME NEW p \in Processes, RevertWrites(p)
        PROVE  work[p] # NoWork /\ work[p].op = "revert" /\ work[p].snapshot # file
    <3>1. /\ work[p] \in Jobs /\ work[p].op = "revert"
          /\ file' = Strip(work[p].snapshot, CurrentPort(p)) \/ file' = file
      BY <2>2, RevertEffect
    <3>2. CurrentPort(p) # "mine" /\ "mine" \notin Ports
      BY OwnPort, PortIsAUrl, UrlsAreDistinct
    <3>3. Strip(file, CurrentPort(p)).url = "mine"
      BY <3>2 DEF Strip, BaseUrlOwnership
    <3> QED
      BY <3>1, <3>3, WorkKinds
  <2>3. ASSUME NEW url \in {"unset", "mine"}, UserEdits(url)
        PROVE  want' = file'.url /\ work' = work
    BY <2>3 DEF UserEdits, TypeOK, Settings
  <2>4. ASSUME NEW p \in Processes, Fails(p)
        PROVE  work[p] # NoWork /\ work[p].op = "revert" /\ work[p].snapshot # file
    <3>1. FailedWrite(p) /\ work[p] # NoWork
      BY <2>4, FailsEffect
    <3>2. CurrentPort(p) # "mine" /\ "mine" \notin Ports
      BY OwnPort, PortIsAUrl, UrlsAreDistinct
    <3>3. ~MayApply(file, CurrentPort(p))
      BY <3>2 DEF MayApply, BaseUrlOwnership
    <3>4. Strip(file, CurrentPort(p)).url = "mine"
      BY <3>2 DEF Strip, BaseUrlOwnership
    <3> QED
      BY <3>1, <3>3, <3>4 DEF FailedWrite
  <2> QED
    BY <2>1, <2>2, <2>3, <2>4, FileWriters
<1>2. Spec => [][Kept]_vars
  <2>1. TypeOK /\ [Next]_vars => [Kept]_vars
    BY <1>1
  <2> QED
    BY <2>1, InitTypeOK, NextTypeOK, PTL DEF Spec
<1> QED
  BY <1>2 DEF EditsSurvive

----------------------------------------------------------------------------
(* --- a boot heals the address of a proxy that is gone ------------------ *)

LEMMA InitPortInv ==
  ASSUME ~Typed
  PROVE  Init => PortInv
<1> SUFFICES ASSUME Init PROVE PortInv
  OBVIOUS
<1>1. LifeInv /\ OwnInv
  BY InitLifeInv, InitOwnInv
<1>2. server = "off" /\ work["shell"] = NoWork
  BY DEF Init, Processes
<1> QED
  BY <1>1, <1>2, WorkKinds DEF PortInv, OthersQuiet, StaleIsHealed, Listening

\* A proxy's address that is stale stands beside our own helper, and so an apply
\* takes it and a revert sees it.
LEMMA StaleIsOurs ==
  ASSUME OwnInv, Stale
  PROVE  /\ file.helper = "ours" /\ MayApply(file, port) /\ SomethingOurs(file, port)
         /\ Merge(file, port) # file
<1>1. file.url \in Ports /\ file.url # port /\ file.helper = "ours"
  BY DEF Stale, OwnInv, Owned
<1>2. BaseUrlOwnership(file, port) # "foreign" /\ HelperOwnership(file) = "ours"
  BY <1>1 DEF BaseUrlOwnership, HelperOwnership
<1>3. Merge(file, port).url = port
  BY DEF Merge
<1> QED
  BY <1>1, <1>2, <1>3 DEF MayApply, SomethingOurs

LEMMA NextOthersQuiet ==
  ASSUME ~CliBeside, PortInv, [Next]_vars
  PROVE  OthersQuiet'
<1> USE DEF proxy, files
<1>t. TypeOK /\ TypeOK' /\ OthersQuiet
  BY NextTypeOK DEF PortInv, LifeInv
<1>s. "server" \in Processes /\ "cli" \in Processes /\ "shell" \in Processes
      /\ (\A p \in Processes : p = "server" \/ p = "cli" \/ p = "shell")
  BY DEF Processes
\* A step at the file by one of the processes.
<1>p. ASSUME NEW p \in Processes, work[p] # NoWork, Others(p),
             UNCHANGED server, intent' => intent, cache' = cache,
             p = "shell" => \/ work'[p] = NoWork
                            \/ work[p] \in Jobs /\ Reread(p)
                            \/ work[p] \in Jobs /\ work'[p] = [op |-> "intent", to |-> FALSE]
      PROVE  OthersQuiet'
  <2>1. work["cli"] = NoWork => p # "cli"
    BY <1>p
  <2>2. [op |-> "intent", to |-> FALSE] \notin Jobs
    BY WorkKinds
  <2>3. server' # "off" => work'["cli"] = NoWork /\ (intent' => cache')
    BY <1>t, <1>s, <1>p, <2>1 DEF OthersQuiet, Others
  <2>4. CASE p # "shell"
    BY <1>t, <1>s, <1>p, <2>3, <2>4 DEF OthersQuiet, Others
  <2>5. CASE p = "shell"
    BY <1>t, <1>p, <2>2, <2>3, <2>5, WorkKinds DEF OthersQuiet, Reread
  <2> QED
    BY <2>4, <2>5
<1>1. ASSUME NEW p \in Processes, Reads(p) PROVE OthersQuiet'
  <2>1. /\ work[p] \in Jobs /\ work[p] # NoWork /\ Reread(p) /\ Others(p)
        /\ UNCHANGED <<server, intent, cache>>
    BY <1>t, <1>1, ReadsEffect, WorkKinds
  <2> QED
    BY <1>p, <2>1
<1>2. ASSUME NEW p \in Processes, ApplyWrites(p) PROVE OthersQuiet'
  <2>1. /\ work[p] \in Jobs /\ work[p].op = "apply" /\ work[p] # NoWork /\ Others(p)
        /\ UNCHANGED <<server, intent, cache>>
    BY <1>t, <1>2, ApplyEffect, WorkKinds
  <2>2. p # "shell"
    BY <1>t, <2>1 DEF OthersQuiet
  <2> QED
    BY <1>p, <2>1, <2>2
<1>3. ASSUME NEW p \in Processes, RevertWrites(p) PROVE OthersQuiet'
  <2>1. /\ work[p] \in Jobs /\ work[p] # NoWork /\ Others(p) /\ Settled(p, work[p].then)
        /\ work[p].then \in {"none", "on", "off"}
        /\ UNCHANGED <<server, intent, cache>>
    BY <1>t, <1>3, RevertEffect, WorkKinds
  <2>2. p = "shell" => work'[p] = [op |-> "intent", to |-> FALSE]
    BY <1>t, <2>1, SettledWork DEF OthersQuiet
  <2> QED
    BY <1>p, <2>1, <2>2
<1>4. ASSUME NEW p \in Processes, Persist(p) PROVE OthersQuiet'
  <2>1. /\ work[p] \in Intents /\ work[p] # NoWork /\ intent' = work[p].to
        /\ cache' = (IF p = "server" THEN intent' ELSE cache)
        /\ work'[p] = NoWork /\ Others(p) /\ UNCHANGED server
    BY <1>t, <1>4, PersistEffect, WorkKinds
  <2>2. CASE p = "server"
    BY <1>t, <1>s, <2>1, <2>2 DEF OthersQuiet, Others
  <2>3. CASE p = "cli"
    BY <1>t, <1>s, <2>1, <2>3 DEF OthersQuiet, Others
  <2>4. CASE p = "shell"
    <3>1. intent' = FALSE
      BY <1>t, <2>1, <2>4 DEF OthersQuiet, TypeOK
    <3> QED
      BY <1>p, <2>1, <2>4, <3>1
  <2> QED
    BY <1>s, <2>2, <2>3, <2>4
<1>17. ASSUME NEW p \in Processes, Fails(p) PROVE OthersQuiet'
  <2>1. /\ work[p] # NoWork /\ work'[p] = NoWork /\ Others(p)
        /\ UNCHANGED <<server, intent, cache>>
    BY <1>t, <1>17, FailsEffect
  <2> QED
    BY <1>p, <2>1
<1>5. ASSUME NEW p \in Processes, Killed(p) PROVE OthersQuiet'
  <2>1. /\ work[p] # NoWork /\ work'[p] = NoWork /\ Others(p)
        /\ UNCHANGED <<server, intent, cache>>
    BY <1>t, <1>5, KilledEffect DEF Killed, Idle
  <2> QED
    BY <1>p, <2>1
<1>6. ASSUME Boot PROVE OthersQuiet'
  BY <1>t, <1>6 DEF Boot, Idle, OthersQuiet
<1>7. ASSUME NEW op \in {"apply", "revert"}, ServerHook(op), UNCHANGED cache,
             server # "off", intent' => cache
      PROVE  OthersQuiet'
  <2>1. Others("server")
    BY <1>t, <1>7, HookEffect
  <2> QED
    BY <1>t, <1>s, <1>7, <2>1 DEF OthersQuiet, Others
<1>8. ASSUME (\E q \in Ports : Listens(q)) \/ CatalogChanged \/ Shutdown \/ Exits
      PROVE  OthersQuiet'
  <2>1. /\ server # "off" /\ UNCHANGED <<intent, cache>>
        /\ \E op \in {"apply", "revert"} : ServerHook(op)
    BY <1>8 DEF Listens, CatalogChanged, Shutdown, Exits, Serving
  <2>2. intent' => cache
    BY <1>t, <2>1 DEF OthersQuiet
  <2> QED
    BY <1>7, <2>1, <2>2
<1>9. ASSUME KeyChanged PROVE OthersQuiet'
  <2>1. server # "off" /\ intent' = cache /\ UNCHANGED cache /\ ServerHook("apply")
    BY <1>9 DEF KeyChanged, Serving
  <2> QED
    BY <1>7, <2>1
<1>10. ASSUME NEW on \in BOOLEAN, Toggle(on) PROVE OthersQuiet'
  <2>1. ServerStarts("apply", "on") \/ ServerStarts("revert", "off")
    BY <1>10 DEF Toggle
  <2>2. Others("server")
    BY <1>t, <2>1, StartsEffect
  <2>3. UNCHANGED <<server, intent, cache>>
    BY <1>10 DEF Toggle
  <2> QED
    BY <1>t, <1>s, <2>2, <2>3 DEF OthersQuiet, Others
<1>11. ASSUME MarksSession \/ Gone PROVE OthersQuiet'
  <2>1. server # "off" /\ UNCHANGED <<work, intent, cache>>
    BY <1>11 DEF MarksSession, Gone
  <2> QED
    BY <1>t, <2>1 DEF OthersQuiet
<1>12. ASSUME NEW r \in BOOLEAN, Crash(r) PROVE OthersQuiet'
  <2>1. /\ server' = "off"
        /\ \/ work'["shell"] = work["shell"]
           \/ /\ work'["shell"] \in Jobs
              /\ work'["shell"].op = "revert" /\ work'["shell"].then = "off"
    BY <1>t, <1>12, CrashEffect
  <2> QED
    BY <1>t, <2>1, WorkKinds DEF OthersQuiet
<1>13. ASSUME NEW on \in BOOLEAN, Command(on) PROVE OthersQuiet'
  <2>1. server = "off" /\ UNCHANGED server /\ Others("cli")
    BY <1>t, <1>13, CommandEffect
  <2> QED
    BY <1>t, <1>s, <2>1 DEF OthersQuiet, Others
<1>14. ASSUME Reload PROVE OthersQuiet'
  BY <1>t, <1>14 DEF Reload, OthersQuiet
<1>15. ASSUME NEW url \in {"unset", "mine"}, UserEdits(url) PROVE OthersQuiet'
  BY <1>t, <1>15 DEF UserEdits, OthersQuiet
<1>16. CASE UNCHANGED vars
  BY <1>t, <1>16 DEF vars, OthersQuiet
<1> QED
  BY <1>1, <1>2, <1>3, <1>4, <1>5, <1>6, <1>8, <1>9, <1>10, <1>11, <1>12, <1>13, <1>14,
     <1>15, <1>16, <1>17 DEF Next

LEMMA NextStaleIsHealed ==
  ASSUME ~CliBeside, PortInv, [Next]_vars
  PROVE  StaleIsHealed'
<1> USE DEF proxy, files
<1>t. TypeOK /\ TypeOK' /\ ServerJobs /\ OwnInv /\ OthersQuiet /\ StaleIsHealed
  BY NextTypeOK DEF PortInv, LifeInv
<1>s. /\ "server" \in Processes /\ "cli" \in Processes /\ "shell" \in Processes
      /\ \A p \in Processes : p = "server" \/ p = "cli" \/ p = "shell"
      /\ CurrentPort("server") = port /\ port \in Ports
  BY <1>t DEF Processes, CurrentPort, TypeOK
\* What the others do while the proxy listens leaves no address of ours anew.
<1>o. ASSUME UNCHANGED <<proxy, missed>>, work'["server"] = work["server"],
             file' = file \/ file'.url \notin Ports
      PROVE  StaleIsHealed'
  BY <1>t, <1>o DEF StaleIsHealed, Listening, Stale
<1>c. ASSUME NEW p \in Processes, p = "cli", work[p] # NoWork, UNCHANGED server
      PROVE  StaleIsHealed'
  BY <1>t, <1>c DEF OthersQuiet, StaleIsHealed, Listening
<1>1. ASSUME NEW p \in Processes, Reads(p) PROVE StaleIsHealed'
  <2>1. /\ work[p] \in Jobs /\ work[p].snapshot = Unread /\ Others(p)
        /\ UNCHANGED <<file, proxy, missed>>
    BY <1>t, <1>1, ReadsEffect
  <2>2. p # "server"
    BY <1>t, <2>1 DEF ServerJobs
  <2> QED
    BY <1>s, <1>o, <2>1, <2>2 DEF Others
<1>2. ASSUME NEW p \in Processes, ApplyWrites(p) PROVE StaleIsHealed'
  <2>1. /\ work[p] \in Jobs /\ work[p] # NoWork /\ work[p].op = "apply"
        /\ work[p].snapshot \in Settings
        /\ UNCHANGED proxy
        /\ ApplyRefused(p) \/ ApplyNoop(p) \/ ApplyDone(p) \/ ApplyLost(p)
    BY <1>t, <1>2, ApplyEffect, WorkKinds
  <2>2. p # "shell"
    BY <1>t, <2>1 DEF OthersQuiet
  <2>3. CASE p = "server"
    <3>1. Listening
      BY <1>t, <2>1, <2>3, WorkKinds DEF ServerJobs, Listening, TypeOK
    <3>2. Stale => work["server"].snapshot = file
      BY <1>t, <2>1, <2>3, <3>1 DEF StaleIsHealed
    <3>3. Stale => MayApply(file, port) /\ Merge(file, port) # file
      BY <1>t, StaleIsOurs
    <3>4. (file' = file /\ ~Stale) \/ file'.url = port
      BY <1>s, <2>1, <2>3, <3>2, <3>3
      DEF ApplyRefused, ApplyNoop, ApplyDone, ApplyLost, Merge
    <3>5. ~Stale'
      BY <2>1, <3>4 DEF Stale
    <3> QED
      BY <3>5 DEF StaleIsHealed
  <2>4. CASE p = "cli"
    BY <1>c, <2>1, <2>4
  <2> QED
    BY <1>s, <2>2, <2>3, <2>4
<1>3. ASSUME NEW p \in Processes, RevertWrites(p) PROVE StaleIsHealed'
  <2>1. /\ work[p] \in Jobs /\ work[p] # NoWork
        /\ work[p].snapshot \in Settings /\ work[p].snapshot # Unread
        /\ Others(p) /\ UNCHANGED <<proxy, missed>>
        /\ \/ file' = Strip(work[p].snapshot, CurrentPort(p))
           \/ ~SomethingOurs(work[p].snapshot, CurrentPort(p)) /\ file' = file
    BY <1>t, <1>3, RevertEffect, WorkKinds
  <2>2. Owned(work[p].snapshot) /\ CurrentPort(p) \in Ports
    BY <1>t, <2>1, OwnPort DEF OwnInv
  <2>3. Strip(work[p].snapshot, CurrentPort(p)).url \notin Ports
    <3>1. Strip(work[p].snapshot, CurrentPort(p)).url \in {"unset", "mine"}
      BY <2>1, <2>2, StripOwned
    <3> QED
      BY <3>1, UrlsAreDistinct
  <2>4. CASE p = "server"
    <3>1. Listening
      BY <1>t, <2>1, <2>4, WorkKinds DEF ServerJobs, Listening, TypeOK
    <3>2. Stale => work["server"].snapshot = file
      BY <1>t, <2>1, <2>4, <3>1 DEF StaleIsHealed
    <3>3. Stale => SomethingOurs(file, port)
      BY <1>t, StaleIsOurs
    <3>4. ~Stale'
      BY <1>s, <2>1, <2>3, <2>4, <3>2, <3>3 DEF Stale
    <3> QED
      BY <3>4 DEF StaleIsHealed
  <2>5. CASE p # "server"
    BY <1>s, <1>o, <2>1, <2>3, <2>5 DEF Others
  <2> QED
    BY <2>4, <2>5
<1>4. ASSUME NEW p \in Processes, Persist(p) PROVE StaleIsHealed'
  <2>1. /\ work[p] = [op |-> "intent", to |-> intent'] /\ intent' \in BOOLEAN
        /\ cache' = (IF p = "server" THEN intent' ELSE cache)
        /\ work'[p] = NoWork /\ Others(p)
        /\ UNCHANGED <<file, missed, server, port, sentinel, marked>>
    BY <1>t, <1>4, PersistEffect
  <2>2. CASE p = "server"
    BY <1>t, <1>s, <2>1, <2>2, WorkKinds DEF StaleIsHealed, Listening, Stale
  <2>3. CASE p # "server"
    BY <1>s, <1>o, <2>1, <2>3 DEF Others
  <2> QED
    BY <2>2, <2>3
<1>16. ASSUME NEW p \in Processes, Fails(p) PROVE StaleIsHealed'
  <2>1. /\ work[p] # NoWork /\ work'[p] = NoWork /\ Others(p) /\ UNCHANGED proxy
        /\ file' = file \/ FailedWrite(p)
        /\ missed' = (IF p # "server" THEN missed
                      ELSE IF file' # file THEN "none"
                      ELSE IF server = "booting" THEN "apply"
                      ELSE IF server = "exiting" THEN "revert"
                      ELSE missed)
    BY <1>t, <1>16, FailsEffect
  <2>2. ASSUME FailedWrite(p), work[p].op = "revert" PROVE file'.url \notin Ports
    <3>1. Owned(work[p].snapshot) /\ CurrentPort(p) \in Ports /\ work[p].snapshot \in Settings
          /\ file' = Strip(work[p].snapshot, CurrentPort(p))
      BY <1>t, <2>2, OwnPort DEF OwnInv, FailedWrite
    <3> QED
      BY <3>1, StripOwned, UrlsAreDistinct
  <2>3. CASE p = "server"
    <3>1. FailedWrite(p) => ~Stale'
      BY <1>s, <2>1, <2>2, <2>3 DEF FailedWrite, Merge, Stale
    <3>2. CASE file' = file
      BY <1>t, <2>1, <2>3, <3>2, WorkKinds DEF StaleIsHealed, Listening, Stale
    <3> QED
      BY <2>1, <3>1, <3>2 DEF StaleIsHealed
  <2>4. CASE p = "cli"
    BY <1>c, <2>1, <2>4
  <2>5. CASE p = "shell"
    <3>1. FailedWrite(p) => work[p].op = "revert"
      BY <1>t, <2>5 DEF FailedWrite, OthersQuiet
    <3>2. file' = file \/ file'.url \notin Ports
      BY <2>1, <2>2, <3>1
    <3> QED
      BY <1>s, <1>o, <2>1, <2>5, <3>2 DEF Others
  <2> QED
    BY <1>s, <2>3, <2>4, <2>5
<1>5. ASSUME NEW p \in Processes, Killed(p) PROVE StaleIsHealed'
  BY <1>t, <1>s, <1>o, <1>5, KilledEffect DEF Others
<1>6. ASSUME Boot \/ Gone PROVE StaleIsHealed'
  BY <1>6 DEF Boot, Gone, StaleIsHealed, Listening
<1>7. ASSUME NEW q \in Ports, Listens(q) PROVE StaleIsHealed'
  <2>1. /\ work["server"] = NoWork /\ server' = "booting"
        /\ UNCHANGED <<file, cache>> /\ ServerHook("apply")
    BY <1>t, <1>7 DEF Listens, ServerJobs
  <2>2. /\ cache => Begins("apply", "none")
        /\ ~cache => work' = work
    BY <1>t, <2>1, HookEffect
  <2> QED
    BY <2>1, <2>2, WorkKinds DEF StaleIsHealed, Begins
<1>8. ASSUME MarksSession PROVE StaleIsHealed'
  BY <1>t, <1>8, WorkKinds DEF MarksSession, Idle, StaleIsHealed, Listening, Stale
<1>9. ASSUME CatalogChanged \/ KeyChanged \/ Shutdown \/ Exits PROVE StaleIsHealed'
  <2>1. /\ server \in {"up", "closing"} /\ UNCHANGED <<file, missed, port, cache>>
        /\ server' \in {server, "closing", "exiting"}
        /\ \E op \in {"apply", "revert"} : ServerHook(op)
    BY <1>9 DEF CatalogChanged, KeyChanged, Shutdown, Exits, Serving
  <2>2. /\ ~cache => work' = work
        /\ cache => work'["server"] \in Jobs /\ work'["server"].snapshot = file
    BY <1>t, <2>1, HookEffect DEF Begins
  <2>3. Stale /\ server = "up" => ~cache \/ missed = "apply"
    BY <1>t, <2>1 DEF StaleIsHealed, Listening
  <2> QED
    BY <1>t, <2>1, <2>2, <2>3, WorkKinds DEF StaleIsHealed, Listening, Stale
<1>10. ASSUME NEW on \in BOOLEAN, Toggle(on) PROVE StaleIsHealed'
  <2>1. server \in {"up", "closing"} /\ UNCHANGED <<file, missed, server, port, cache>>
    BY <1>10 DEF Toggle, Serving
  <2>2. ServerStarts("apply", "on") \/ ServerStarts("revert", "off")
    BY <1>10 DEF Toggle
  <2>3. Begins("apply", "on") \/ Begins("revert", "off")
    BY <1>t, <2>2, StartsEffect
  <2>4. Stale /\ server = "up" => ~cache \/ missed = "apply"
    BY <1>t, <2>1 DEF StaleIsHealed, Listening
  <2> QED
    BY <2>1, <2>3, <2>4, WorkKinds DEF StaleIsHealed, Listening, Stale, Begins
<1>11. ASSUME NEW r \in BOOLEAN, Crash(r) PROVE StaleIsHealed'
  BY <1>11 DEF Crash, StaleIsHealed, Listening
<1>12. ASSUME NEW on \in BOOLEAN, Command(on) PROVE StaleIsHealed'
  BY <1>t, <1>s, <1>o, <1>12, CommandEffect DEF Others
<1>13. ASSUME Reload PROVE StaleIsHealed'
  <2>1. /\ server = "up" /\ work["server"] = NoWork /\ cache' = intent
        /\ UNCHANGED <<file, missed, server, port, work>>
    BY <1>13 DEF Reload, Idle
  <2>2. Stale => ~cache' \/ missed = "apply"
    BY <1>t, <2>1 DEF StaleIsHealed, Listening, OthersQuiet
  <2> QED
    BY <2>1, <2>2, WorkKinds DEF StaleIsHealed, Stale
<1>14. ASSUME NEW url \in {"unset", "mine"}, UserEdits(url) PROVE StaleIsHealed'
  <2>1. file'.url = url /\ url \notin Ports
    BY <1>t, <1>14, UrlsAreDistinct DEF UserEdits, TypeOK, Settings
  <2> QED
    BY <2>1 DEF StaleIsHealed, Stale
<1>15. CASE UNCHANGED vars
  BY <1>t, <1>15 DEF vars, StaleIsHealed, Listening, Stale
<1> QED
  BY <1>1, <1>2, <1>3, <1>4, <1>5, <1>6, <1>7, <1>8, <1>9, <1>10, <1>11, <1>12, <1>13,
     <1>14, <1>15, <1>16 DEF Next

\* With the user's commands run only while the proxy is off: types, marked
\* crashes, and no file that sends Claude Code to another port than that of the
\* proxy that is up and means to route it, until the first apply after the boot if
\* the boot's fails (reconcileClaudeCodeOnBoot, index.ts).
THEOREM RoutingIsSound ==
  ASSUME ~Typed, ~CliBeside
  PROVE  Spec => []RoutingInvariant
<1>1. PortInv => RoutingInvariant
  <2> SUFFICES ASSUME PortInv PROVE RoutingInvariant
    OBVIOUS
  <2>1. TypeOK /\ StrandedIsMarked
    BY DEF PortInv, LifeInv, Marks, Routed, StrandedIsMarked
  <2>2. NoDeadPort
    BY DEF PortInv, StaleIsHealed, Listening, Stale, NoDeadPort
  <2> QED
    BY <2>1, <2>2 DEF RoutingInvariant
<1>2. PortInv /\ [Next]_vars => PortInv'
  BY NextLifeInv, NextOwnInv, NextOthersQuiet, NextStaleIsHealed DEF PortInv
<1> QED
  BY <1>1, <1>2, InitPortInv, PTL DEF Spec
=============================================================================
