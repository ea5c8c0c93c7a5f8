--------------------------- MODULE ClientRouting ---------------------------
(* Who owns the base URL in Claude Code's settings.json                     *)
(* (apps/claude-code/config.ts, reconcile.ts and index.ts, with the         *)
(* lifecycle of lib/start/run-server.ts, shutdown.ts, session-sentinel.ts). *)
(*                                                                          *)
(* While the proxy runs and routing is intended, the file points Claude     *)
(* Code at it; when it stops the file must be the user's again.  The file   *)
(* is also written by the user, by the command line and by the one-shot     *)
(* revert that the desktop shell runs when the proxy has crashed, each a    *)
(* process of its own that reads the file first and replaces it later.  Any *)
(* write may fail.                                                          *)
EXTENDS Naturals

CONSTANTS
  Ports,          \* where a proxy may listen
  DefaultPort,    \* what a process assumes when no proxy runs
  Shell,          \* whether the desktop shell watches over the proxy
  CliBeside,      \* whether the user's commands may run beside the proxy
  Typed,          \* whether the user may have typed in the proxy's own address
  NoPrior, Unread, NoWork

ASSUME DefaultIsAPort == DefaultPort \in Ports
ASSUME SwitchesAreBoolean == {Shell, CliBeside, Typed} \subseteq BOOLEAN

VARIABLES
  file,       \* the settings file: base URL, helper, snapshot of the user's
  intent,     \* config.apps.claudeCode.enabled on disk
  server,     \* where the proxy is between two boots
  port,       \* where it listens
  cache,      \* the intent as its process remembers it
  sentinel,   \* whether the session-running file exists
  work,       \* what each process is about to do to the file or the intent
  first,      \* the user's URL and helper before Maximal came
  want,       \* the URL the user last put there
  kept,       \* whether this run of the proxy routed the file as it stands, and
              \* still means it to be routed
  missed,     \* which hook's write this run of the proxy has failed in and not made
              \* good: the boot's apply, or the revert of its exit
  marked      \* whether the latest proxy got as far as its sentinel

files == <<file, want, kept, missed>>
proxy == <<server, port, cache, sentinel, marked>>
vars == <<file, intent, server, port, cache, sentinel, work, first, want,
          kept, missed, marked>>

Processes == {"server", "cli", "shell"}
Urls == Ports \cup {"unset", "mine"}
Helpers == {"unset", "mine", "ours"}
Settings == [url : Urls, helper : Helpers,
             prior : [url : Urls, helper : {"unset", "mine"}] \cup {NoPrior}]
Jobs == [op : {"apply", "revert"}, snapshot : Settings \cup {Unread},
         retried : BOOLEAN, then : {"none", "on", "off"}]
Intents == [op : {"intent"}, to : BOOLEAN]
Works == Jobs \cup Intents \cup {NoWork}

ASSUME UrlsAreDistinct == Ports \cap {"unset", "mine"} = {}
ASSUME OutsidersAssumption ==
  /\ NoPrior \notin [url : Urls, helper : {"unset", "mine"}]
  /\ Unread \notin Settings
  /\ NoWork \notin Jobs \cup Intents

(* Any process but the proxy takes the port from the sentinel, and believes *)
(* it as long as the process named there is alive.                          *)
CurrentPort(p) ==
  IF p = "server" \/ (marked /\ sentinel /\ server \in {"up", "closing", "exiting"})
    THEN port ELSE DefaultPort

HelperOwnership(f) ==
  IF f.helper = "unset" THEN "absent"
  ELSE IF f.helper = "ours" THEN "ours" ELSE "foreign"

(* Mutated form: a port change makes our own URL a stranger's.              *)
BaseUrlOwnership_HereOnly(f, here) ==
  IF f.url = "unset" THEN "absent" ELSE IF f.url = here THEN "ours" ELSE "foreign"

(* A loopback URL at another port is ours only beside our own helper.       *)
BaseUrlOwnership(f, here) ==
  IF f.url = "unset" THEN "absent"
  ELSE IF f.url = here \/ (f.url \in Ports /\ HelperOwnership(f) = "ours")
    THEN "ours" ELSE "foreign"

(* Mutated form: our own URL is noted as the user's.                        *)
PreparePrior_AsIs(f, here) ==
  IF f.prior # NoPrior THEN f.prior
  ELSE [url |-> f.url, helper |-> IF f.helper = "ours" THEN "unset" ELSE f.helper]

(* The first apply notes what it is about to replace, later ones keep it.   *)
PreparePrior(f, here) ==
  IF f.prior # NoPrior THEN f.prior
  ELSE [url |-> IF BaseUrlOwnership(f, here) = "ours" /\ f.helper = "ours"
                  THEN "unset" ELSE f.url,
        helper |-> IF f.helper = "ours" THEN "unset" ELSE f.helper]

Merge(f, here) ==
  [url |-> here, helper |-> "ours", prior |-> PreparePrior(f, here)]

Strip(f, here) ==
  [url |-> IF BaseUrlOwnership(f, here) # "ours" THEN f.url
           ELSE IF f.prior = NoPrior THEN "unset" ELSE f.prior.url,
   helper |-> IF HelperOwnership(f) # "ours" THEN f.helper
              ELSE IF f.prior = NoPrior THEN "unset" ELSE f.prior.helper,
   prior |-> NoPrior]

MayApply(f, here) ==
  BaseUrlOwnership(f, here) # "foreign" /\ HelperOwnership(f) # "foreign"

(* The snapshot also says that the auto-mode setting is ours.               *)
SomethingOurs(f, here) ==
  \/ BaseUrlOwnership(f, here) = "ours"
  \/ HelperOwnership(f) = "ours"
  \/ f.prior # NoPrior

Job(op, snapshot, then) ==
  [op |-> op, snapshot |-> snapshot, retried |-> FALSE, then |-> then]

(* enable and disable persist the intent once the file is settled.          *)
Settled(p, then) ==
  work' = [work EXCEPT ![p] = IF then = "none" THEN NoWork
                              ELSE [op |-> "intent", to |-> then = "on"]]

Abandon(p) == work' = [work EXCEPT ![p] = NoWork]

(* The proxy reads the file in the turn that decides to write it.           *)
ServerStarts(op, then) ==
  work' = [work EXCEPT !["server"] = Job(op, file, then)]

(* A hook that is gated on the intent, as the process remembers it.         *)
ServerHook(op) ==
  IF cache THEN ServerStarts(op, "none") ELSE UNCHANGED work

----------------------------------------------------------------------------
(* Files the program may find: untouched, with the proxy's own address      *)
(* typed in by the user, or routed by a version that took no snapshot.      *)
Init ==
  /\ first \in [url : {"unset", "mine"} \cup (IF Typed THEN {DefaultPort} ELSE {}),
               helper : {"unset", "mine"}]
  /\ want = first.url
  /\ \/ file = [url |-> first.url, helper |-> first.helper, prior |-> NoPrior]
     \/ /\ first = [url |-> "unset", helper |-> "unset"]
        /\ file = [url |-> DefaultPort, helper |-> "ours", prior |-> NoPrior]
  /\ kept = FALSE /\ missed = "none"
  /\ intent = FALSE
  /\ server = "off" /\ port = DefaultPort /\ cache = FALSE
  /\ sentinel = FALSE /\ marked = FALSE
  /\ work = [p \in Processes |-> NoWork]

(* --- one process at the file ------------------------------------------- *)

Reads(p) ==
  /\ work[p] # NoWork /\ work[p].op # "intent"
  /\ work[p].snapshot = Unread
  /\ work' = [work EXCEPT ![p].snapshot = file]
  /\ UNCHANGED <<files, intent, proxy, first>>

(* Mutated form: the expected content is not compared.                      *)
AsRead_Assumed(p) == TRUE

(* The expectedContent of an atomic write; comparing and renaming are one   *)
(* step here.                                                               *)
AsRead(p) == file = work[p].snapshot

MadeGood(p) == missed' = IF p = "server" THEN "none" ELSE missed

(* applyProxyBaseUrl: the write is refused when the file is not what was    *)
(* read, and tried once more on what is there now.                          *)
ApplyWrites(p) ==
  LET w == work[p]
      before == w.snapshot
      here == CurrentPort(p)
      after == Merge(before, here)
  IN /\ w # NoWork /\ w.op = "apply" /\ before # Unread
     /\ UNCHANGED <<intent, proxy, first, want>>
     /\ \/ ~MayApply(before, here) /\ Abandon(p) /\ UNCHANGED <<file, kept, missed>>
        \/ /\ MayApply(before, here) /\ after = before
           /\ kept' = (kept \/ (p = "server" /\ w.then = "none"))
           /\ MadeGood(p) /\ Settled(p, w.then)
           /\ UNCHANGED file
        \/ /\ MayApply(before, here) /\ after # before /\ AsRead(p)
           /\ file' = after
           /\ kept' = (p = "server" /\ (kept \/ w.then = "none"))
           /\ MadeGood(p) /\ Settled(p, w.then)
        \/ /\ MayApply(before, here) /\ after # before /\ ~AsRead(p)
           /\ IF w.retried THEN Abandon(p)
              ELSE work' = [work EXCEPT ![p].snapshot = file, ![p].retried = TRUE]
           /\ UNCHANGED <<file, kept, missed>>

(* revertProxyBaseUrlWithMode: no such refusal, so an edit made since the   *)
(* read is lost; `want` then follows what the file says.                    *)
RevertWrites(p) ==
  LET w == work[p]
      here == CurrentPort(p)
      after == Strip(w.snapshot, here)
  IN /\ w # NoWork /\ w.op = "revert" /\ w.snapshot # Unread
     /\ IF SomethingOurs(w.snapshot, here)
          THEN /\ file' = after
               /\ want' = IF file = w.snapshot THEN want ELSE after.url
          ELSE UNCHANGED <<file, want>>
     /\ Settled(p, w.then)
     /\ UNCHANGED <<intent, proxy, first, kept, missed>>

(* What an apply or a revert replaces the file by.                          *)
Replaces(p) ==
  LET before == work[p].snapshot
      here == CurrentPort(p)
  IN /\ before # Unread
     /\ \/ /\ work[p].op = "apply" /\ MayApply(before, here) /\ AsRead(p)
           /\ file' = Merge(before, here) /\ UNCHANGED want
        \/ /\ work[p].op = "revert" /\ SomethingOurs(before, here)
           /\ file' = Strip(before, here)
           /\ want' = IF file = before THEN want ELSE file'.url

(* A read, the key or a write fails.  atomicWriteText throws with the file  *)
(* as it was or, past its rename, replaced; writeConfig before its rename.  *)
(* A toggle or a command goes no further, and a hook's failure is logged    *)
(* and swallowed (reconcileClaudeCodeOnBoot, runAppCleanup).                *)
Fails(p) ==
  /\ work[p] # NoWork
  /\ \/ UNCHANGED <<file, want>>
     \/ work[p].op # "intent" /\ Replaces(p)
  /\ kept' = IF p = "server" THEN cache /\ (kept \/ (work[p].op = "apply" /\ file' # file))
             ELSE kept /\ file' = file
  /\ missed' = IF p # "server" THEN missed
               ELSE IF file' # file THEN "none"
               ELSE IF server = "booting" THEN "apply"
               ELSE IF server = "exiting" THEN "revert"
               ELSE missed
  /\ Abandon(p)
  /\ UNCHANGED <<intent, proxy, first>>

(* setClaudeCodeRoutingIntent.                                              *)
Persist(p) ==
  /\ work[p] # NoWork /\ work[p].op = "intent"
  /\ intent' = work[p].to
  /\ cache' = IF p = "server" THEN work[p].to ELSE cache
  /\ kept' = (kept \/ (p = "server" /\ work[p].to))
  /\ Abandon(p)
  /\ UNCHANGED <<file, want, missed, server, port, sentinel, marked, first>>

(* --- the proxy --------------------------------------------------------- *)

Idle(p) == work[p] = NoWork

(* runServer reads the config at once and listens seconds later.            *)
Boot ==
  /\ server = "off"
  /\ CliBeside \/ Idle("cli")
  /\ server' = "starting" /\ cache' = intent
  /\ marked' = FALSE /\ kept' = FALSE /\ missed' = "none"
  /\ UNCHANGED <<file, want, intent, port, sentinel, work, first>>

Listens(q) ==
  /\ server = "starting"
  /\ server' = "booting" /\ port' = q
  /\ ServerHook("apply")
  /\ UNCHANGED <<files, intent, cache, sentinel, marked, first>>

(* The sentinel is best-effort, as its removal is.                          *)
MarksSession ==
  /\ server = "booting" /\ Idle("server")
  /\ server' = "up"
  /\ \/ sentinel' = TRUE /\ marked' = TRUE
     \/ UNCHANGED <<sentinel, marked>>
  /\ UNCHANGED <<files, intent, port, cache, work, first>>

Serving == server \in {"up", "closing"} /\ Idle("server")

CatalogChanged ==
  /\ server = "up" /\ Idle("server") /\ cache
  /\ ServerHook("apply")
  /\ UNCHANGED <<files, intent, proxy, first>>

(* An API key is added, changed or deleted: the whole config is written     *)
(* from memory, and the helper follows.                                     *)
KeyChanged ==
  /\ Serving
  /\ intent' = cache
  /\ ServerHook("apply")
  /\ UNCHANGED <<files, proxy, first>>

Toggle(on) ==
  /\ Serving
  /\ IF on THEN ServerStarts("apply", "on") ELSE ServerStarts("revert", "off")
  /\ UNCHANGED <<files, intent, proxy, first>>

(* initiateShutdown: the hooks first, then the drain.                       *)
Shutdown ==
  /\ server = "up" /\ Idle("server")
  /\ server' = "closing"
  /\ ServerHook("revert")
  /\ UNCHANGED <<files, intent, port, cache, sentinel, marked, first>>

(* The process leaves on its own, drained or not: the `exit` listener runs  *)
(* the hooks again and removes the sentinel.                                *)
Exits ==
  /\ Serving
  /\ server' = "exiting"
  /\ ServerHook("revert")
  /\ UNCHANGED <<files, intent, port, cache, sentinel, marked, first>>

Gone ==
  /\ server = "exiting" /\ Idle("server")
  /\ server' = "off" /\ sentinel' \in {FALSE, sentinel}
  /\ UNCHANGED <<files, intent, port, cache, work, marked, first>>

(* Killed, or failed before it had its handlers: nothing runs.  The shell,  *)
(* if there is one and it can spawn, reverts in its place.                  *)
Crash(reverted) ==
  /\ server \notin {"off", "exiting"}
  /\ reverted => Shell /\ Idle("shell")
  /\ server' = "off"
  /\ work' = [work EXCEPT !["server"] = NoWork,
                          !["shell"] = IF reverted THEN Job("revert", Unread, "off")
                                       ELSE @]
  /\ UNCHANGED <<files, intent, port, cache, sentinel, marked, first>>

(* --- the others -------------------------------------------------------- *)

(* The shell gives its one-shot five seconds; a user may interrupt his.     *)
Killed(p) ==
  /\ p # "server" /\ ~Idle(p)
  /\ Abandon(p)
  /\ UNCHANGED <<files, intent, proxy, first>>

(* maximal app claude-code --enable | --disable                             *)
Command(on) ==
  /\ Idle("cli")
  /\ CliBeside \/ server = "off"
  /\ work' = [work EXCEPT !["cli"] = IF on THEN Job("apply", Unread, "on")
                                     ELSE Job("revert", Unread, "off")]
  /\ UNCHANGED <<files, intent, proxy, first>>

(* /_internal/reload, after another command has changed the config.         *)
Reload ==
  /\ server = "up" /\ Idle("server")
  /\ cache' = intent /\ kept' = (kept /\ intent)
  /\ UNCHANGED <<file, want, missed, intent, server, port, sentinel, work, marked, first>>

UserEdits(url) ==
  /\ file.url # url
  /\ file' = [file EXCEPT !.url = url] /\ want' = url
  /\ UNCHANGED <<intent, proxy, work, first, kept, missed>>

Next ==
  \/ \E p \in Processes : Reads(p) \/ ApplyWrites(p) \/ RevertWrites(p)
                          \/ Persist(p) \/ Fails(p) \/ Killed(p)
  \/ Boot \/ (\E q \in Ports : Listens(q)) \/ MarksSession
  \/ CatalogChanged \/ KeyChanged \/ (\E on \in BOOLEAN : Toggle(on))
  \/ Shutdown \/ Exits \/ Gone \/ (\E r \in BOOLEAN : Crash(r))
  \/ (\E on \in BOOLEAN : Command(on)) \/ Reload
  \/ \E url \in {"unset", "mine"} : UserEdits(url)

Spec == Init /\ [][Next]_vars

----------------------------------------------------------------------------
TypeOK ==
  /\ file \in Settings /\ work \in [Processes -> Works]
  /\ server \in {"off", "starting", "booting", "up", "closing", "exiting"}
  /\ port \in Ports
  /\ {intent, cache, sentinel, marked, kept} \subseteq BOOLEAN
  /\ missed \in {"none", "apply", "revert"}
  /\ first \in [url : Urls, helper : Helpers] /\ want \in Urls

Touched(f) == f.prior # NoPrior \/ f.helper = "ours"

(* A base URL the proxy vouched for is never left over a dead proxy without *)
(* the sentinel that lets the next boot say so (session-sentinel.ts),       *)
(* unless it died before it had written its own.  The exception is the      *)
(* revert of an exit that fails: runAppCleanup swallows that, and the       *)
(* sentinel is removed all the same.                                        *)
StrandedIsMarked ==
  (server = "off" /\ marked /\ kept /\ file.url \in Ports /\ Touched(file))
    => sentinel \/ missed = "revert"

(* While the proxy is up and means to route Claude Code, the file never     *)
(* names another port of ours: a boot heals what a crash under another port *)
(* has left (run-server.ts, reconcileClaudeCodeOnBoot).  If that fails, and *)
(* it is swallowed, the next apply heals it.                                *)
NoDeadPort ==
  (server = "up" /\ cache /\ file.url \in Ports)
    => file.url \in {port, first.url, want} \/ missed = "apply"

RoutingInvariant == TypeOK /\ StrandedIsMarked /\ NoDeadPort

(* Whatever mix of applies, reverts, crashes and edits went before, a file  *)
(* with nothing of ours in it says what the user last put there, or had     *)
(* there when Maximal came (the _maximalPrior snapshot in config.ts).       *)
RestoresExactly ==
  ~Touched(file) => /\ file.url \in {want, first.url}
                    /\ file.helper = first.helper

(* A URL of the user's own disappears only by the user's hand, or under a   *)
(* revert that had read the file before it was put there: an apply never    *)
(* overwrites it (the expectedContent of applyProxyBaseUrl).                *)
EditsSurvive ==
  [][(file.url = "mine" /\ file'.url # "mine") =>
       \/ want' = file'.url /\ work' = work
       \/ \E p \in Processes : /\ work[p] # NoWork /\ work[p].op = "revert"
                               /\ work[p].snapshot # file]_vars

(* After a crash the intent stays for the next boot: sidecar_runtime.rs     *)
(* says of the shell's revert that it "leaves the persisted routing intent  *)
(* alone so a future restart re-applies it".                                *)
CrashKeepsIntent ==
  [][(server = "off" /\ kept /\ Idle("cli") /\ intent) => intent']_vars
=============================================================================
