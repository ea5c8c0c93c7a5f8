# A verification project for Maximal

Maximal is a local proxy for GitHub Copilot. A *sidecar* (TypeScript on Bun) serves Anthropic- and
OpenAI-shaped endpoints on a loopback port, forwards completions to Copilot, and keeps the accounts they
run on. A *shell* (Tauri, Rust) starts the sidecar, restarts it and shows its state. An *MCP broker*, a
child process of the sidecar, runs the user's MCP servers and lets clients reach them through `/mcp/<id>`.
While it runs, the sidecar also owns a few lines in the settings of the clients it serves.

What is hard here is not one request but what happens around it: credentials that must survive failures and
crashes, a sign-in that overlaps a sign-out, processes that are replaced while they answer, streams cut off in
the middle, files that several programs write. This project models that.

Paths below are relative to the repository; line numbers are in `PROJECT.json` ("map").

## 1. Inventory

| component | state it keeps | operations | what is hard | what makes it correct |
|---|---|---|---|---|
| account store (`src/lib/auth/github-token-store.ts`, `src/routes/settings/accounts.ts`) | `accounts.json`, its temporary file, the legacy `github_token` file | add, switch, remove, sign out, flag, clear, recover, migrate | read-modify-write without a lock, crash or failure between open, write and rename, a migration that must happen once | the file is never torn, the pointer never dangles, a credential is only removed on purpose, a sign-out holds across restarts |
| auth controller and recovery (`src/lib/auth/auth-controller.ts`, `auth-recovery.ts`) | `authState`, the active flow, `degradeInFlight`, `lastAuthSuccessMs` | start, cancel and poll a device flow, sign out, degrade, and (opt-in) try the other accounts | every await hands the loop to another handler | what is shown is what runs and what is stored; an aborted flow leaves the shown session, its tokens and the registry alone; an abandoned one resumes the old session |
| Copilot token (`src/lib/auth/token.ts`) | `state.copilotToken`, `copilotRefreshLoopController`, the retry count | mint, refresh, retry, escalate, stop | late answers of stopped loops, a loop replaced while it asks | one loop at a time; escalation only on persistent rejection |
| boot (`src/lib/start/bootstrap.ts`) | none of its own | migrate, take a given credential or read the stored one, mint, load models | each step may fail, and each exit must leave an honest state | as above |
| session state (`src/lib/runtime-state/state.ts`) | the token trio: GitHub token, Copilot token, user name | set, partial clear | set and cleared in part by different callers | what is shown and what requests run on belong to one account (where the code does not keep that, section 6 says so) |
| MCP broker supervisor (`src/lib/mcp-broker/supervisor.ts`) | the active supervisor, its generation, timers, `currentUpstream`, the queue of changes | start, launch, handshake, fail, back off, update, stop, reconfigure, restart, wait | failure, timeout, exit, update and shutdown in any order; continuations after await | requests reach only the current ready broker; no stray process while the sidecar runs, and after its exit none but a hung one; the last configuration wins; shutdown is final |
| MCP broker process (`packages/mcp-broker/src/main.ts`) | its configuration and servers | hello, configure, probe, update, shut down | slow, hung or dying at any point, or alone because its parent is gone | as above |
| requests for user input (`pending-requests.ts`, `elicitation.ts`, `maximal-elicitations.ts`) | the waiting promises in the broker, the list in the sidecar, frames in two pipes | ask, answer, withdraw, expire, drop | answer, time limit, withdrawal and death of the broker race across two processes | the list shows what is still awaited; "ok" means delivered; every question ends |
| broker sessions (`broker-server.ts`, `stdio-adapter.ts`, `resumable-transport.ts`, `src/routes/mcp/route.ts`) | the sessions of an endpoint with their requests in flight and last use, the slots reserved; in an adapter its transport, the replacement under way, the calls that wait | open, evict, close, reap, update; connect, send, lose and replace the session, send again, end | a limit that several clients reach at once; a session lost under several calls; retries | the limit holds; no call loses its server to a newcomer; a call is sent again only if it was cut off; every session has an owner; nobody waits in vain |
| shell sidecar runtime (`shell/src-tauri/src/sidecar_runtime.rs`, `lib.rs`) | generation, selected port, capabilities, child slot, restart and failure marks, handoff, status | spawn, ready, expose, time out, restart, retry, quit, update | exits of old generations meet new ones; one event has six meanings; handlers on several threads take one lock after another | one owned child, only the newest exposed, a restart never quits the app, Starting is left |
| streams of `/v1/messages` (`stream-translation.ts`, `responses-stream-translation.ts`, `stream-keepalive.ts`, `api-flows.ts`, `stream-error.ts`) | the translator's open blocks and indexes, the ping timer | translate, write, ping, fail | lazily opened blocks, repeated content, two writers, a stream that stops anywhere | a well-formed message stream; each fragment once; pings between events; an end that is told |
| server-side web tools (`web-tools/stream.ts`, `agent.ts`, `flow.ts`, `exec.ts`) | the turn, the block map, uses, usage | call, forward, run a tool, go on, finish | several upstream messages become one | one well-formed message; results follow calls; all usage reported; no call unanswered |
| client settings (`src/apps/claude-code`) | `settings.json` of Claude Code with our snapshot in it, the routing intent | enable, disable, boot, shutdown, catalogue change, key change | four parties write one file; crashes; writes that fail; a port that moves | what was the user's comes back; an edit survives; a stranded URL is marked and healed |
| start and shutdown (`src/lib/start`) | session sentinel, port, pid file | start, preflight, shut down once, exit | exits that skip the shutdown | the next boot can tell a crash |
| usage, models, updates, request translation, other clients, UI, CLI, site, packaging | caches, a database, none | - | little or no shared state | - |

How they interact: the auth controller calls the store and the token module; the token module calls back
into the controller (`markAuthDegraded`) and, without waiting, into the store (`clearActiveNeedsReauth`); a
failing completion reaches the controller through `forwardError`; boot calls all three; the settings routes
write the store directly and ask the shell to restart the sidecar. The MCP routes read `currentUpstream`,
which only the supervisor writes; configuration changes reach the supervisor through one promise chain; a
server's question travels over the supervisor's control channel into the list that the shell polls. A client's stdio adapter
reaches its session through the MCP routes, and opens another when the broker was replaced under it. The shell
starts the sidecar, and after a crash runs a one-shot command that reverts the client settings in its place.
A stream of the web tools' loop is made of the streams the translators produce.

The list of hazards, each at its line and with the properties that cover it, is in `PROJECT.json`.

## 2. Modules

| module | models | state and actions against the code |
|---|---|---|
| `AccountRegistry` | the pure functions of the registry | same names: `addAndActivate`, `setActive`, `removeAccount`, `deactivate`, `markNeedsReauth`, `clearNeedsReauth` |
| `AtomicAccounts` | what the store promises: each helper is one atomic step | one action per helper |
| `AccountStore` | the helpers as they run: read, then open, write and rename; the legacy file; boot; crash | `pc[p]` is where helper `p` is suspended, `fd[p]` what its descriptor refers to, `reg[p]` the registry it will write |
| `AuthController` | sign-in, sign-out, degrade, recovery, refresh, boot in one process | one action per stretch of code between two awaits; `flow`, `loop`, `clear`, `signOut`, `sweep`, `request`, `boot` say where each activity is; `github`, `copilot`, `userName` are the trio, each named after the account it belongs to |
| `BrokerSupervisor` | supervisor, broker processes, change queue, waiters | one action per timer, event, frame or continuation; `gen[g]` holds both what the supervisor knows of a generation and its process; `exit` is the end of the sidecar's own process, after which brokers are alone |
| `PendingRequests` | a server's question, from the broker's decision to the answer it gets | the broker's promise (`asked`, `result`), the sidecar's list (`entries`), the two pipes (`up`, `down`); one action per handler at either end |
| `BrokerSessions` | the session table of one endpoint | the steps of the table, without saying who takes them: `sess[s].at` is where `createServer` or a close is suspended, `lru` orders the sessions by `lastUsedAt` |
| `SessionAdapter` | stdio adapters and their calls, the route, the lives of the broker, over that table | `adapter[a]` is `#inner`, `#replacing` and the handshake under way, `call[c]` where `send` is suspended; a refusal, an abort and a timer are an action each |
| `ShellSidecar` | the shell's generations of the sidecar | a handler is one action, or several where another may come between two of its locks: a respawn (`Restart`, `RespawnKills`, `RespawnWaits` or `RespawnSpawns`), a spawn (`Begin`, `SpawnChild`), the ready line (`ReadLine`, `Expose` or `CannotExpose`), a startup given up (`StartupTimeout` or `CannotExpose`, `MarkFailure`, `StopFailed`), an exit (`ExitSeen`, `ExitJudged`); `child[g]` is the process and the shell's tasks for it |
| `AnthropicEvents` | the events of a message stream | a record per event of `anthropic-types.ts`, content as a fragment |
| `MessageStream` | what a client is promised: one message, blocks numbered from 0, one open at a time, one end | the abstract specification of both stream modules |
| `ChatTranslation`, `ResponsesTranslation` | the two stream translators, as pure functions | one operator per function of the code; state in, state and events out |
| `StreamClient` | what a client knows after each event it hears | maps written events to the state of `MessageStream` |
| `StreamRelay` | the three flows: read, translate, write, ping, fail | `pc` is where the loop waits, `ka` the keep-alive with its timer and the ping in flight, `up` the upstream |
| `WebTools` | the agent loop, streaming and whole | one action per event of a turn; `turn`, `cursor`, `remap`, `calls`, `results`, `final`, `usage` as in the code |
| `ClientRouting` | Claude Code's settings file between proxy, shell, command line and user | `work[p]` is what process `p` has read and is about to write, `Fails` the error of any read or write; one action per hook, handler, command and exit |
| `BrokerSupervisor_proofs`, `PendingRequests_proofs`, `SessionAdapter_proofs`, `ShellSidecar_proofs`, `StreamRelay_proofs`, `WebTools_proofs`, `ClientRouting_proofs` | - | inductive invariants and theorems about the module they are named after (section 4) |
| `Accounts_proofs` | - | the same for `AccountStore` and `AuthController`, in one module because both rest on the same lemmas about the registry. It extends both, so the specification of the store is called `StoreSpec` (`StoreInit`, `StoreNext`, `StoreTypeOK`) |
| `MC...` | - | one per checked module; symmetry sets for some |

`AccountStore` and `AuthController` extend `AccountRegistry`. `AccountStore` instantiates `AtomicAccounts`
with the registry a reader would find. `AuthController` keeps the read and the write of a helper apart but
makes the write one step: what is below that is `AccountStore`. `StreamRelay` extends both translators and
`StreamClient`; it and `WebTools` instantiate `MessageStream` with what their client has heard.
`SessionAdapter` extends `BrokerSessions`. `PendingRequests` has a simple life of a generation (it starts, fails, is stopped, is gone), of which
`BrokerSupervisor` has the whole.

### Abstractions

- **Accounts.** A record is its credential and whether it is flagged; login, host, scopes and timestamps
  are left out. In `AuthController` a credential is named after its account, and a Copilot token after the
  account whose credential minted it. `device-issued` is never observable (the poller sets `polling` in the same turn). `Given` are the accounts whose credential a boot may get from
  `--github-token` or from a legacy file, lifted or not; whether it does is a choice of each boot.
- **Time** is not measured: a timer may fire whenever it is armed.
- **Broker.** A configuration is a shape (what takes a restart to change) and a path (what a live update can
  change). A replaced supervisor can only end the generations it gave up on, so one record `sup` stands for
  the newest and `stop = "orphan"` for the rest. A broker that hangs before the sidecar has exited is one that takes no step.
- **Requests.** A form is one that Maximal can show or not, an answer one that fits it or not. A user's "cancel"
  travels like a "decline". The memory of answered ids is left out: it only words a refusal. Frames of a
  generation that is gone are never read.
- **Sessions.** The SDK's transport gives up what it has on the wire when it is closed, and fails what is sent after; `proxyServer`
  only installs handlers, so that its await lets nobody else run. No two uses of a session fall in the same millisecond. The
  end of an adapter is one step; one that is killed while it connects is one that gave up. The transport's replacement of a session lost
  during the first connect is one more attempt of that connect. A refusal needs no reason: with too many requests any may be
  refused. The ids that the broker no longer knows are one value, `Gone`. How a call went is forgotten when it is done.
- **Shell.** Each lock is a step where another thread may come between it and the next, with two exceptions: the marks an exit is judged by are
  read in one step with the generation that the exit begins, and the mark a respawn withdraws with the generation that one begins. A respawn
  is asked for when the last has come to its end (the one after a failed installation too, which the code starts as a task). Authenticated and
  unauthenticated are both Running. A hard stop's wait does not time out (SIGKILL comes after 3 seconds, the wait lasts 10). The model ends
  when the app is gone. In a development build the revert after a crash takes no time.
- **Streams.** Content is an opaque fragment: a `piece`, a `whole` (a done event that repeats it), a `blank` (white
  space in arguments), a signature. Of the orders of an upstream these are admitted. Chat: nothing after the
  finish reason, calls one after the other, no signature in a chunk that continues a call or follows one with a
  call, no reasoning in one chunk with text once text or a call has begun. Responses: items one after the other,
  well-formed. Any of them may stop or break anywhere. Outside these orders the code does something else
  (section 6).
- **Web tools.** A turn's stream is well formed, as the stream modules say of the translators. A search or a fetch
  succeeds, is refused or fails. A ping of the upstream may come at any time of a turn. Usage is counted in turns.
- **Message streams.** Two things are promised by one writer and not by the other, so they are constants of `MessageStream`: `EarlyPings`, a ping may come before
  `message_start` (the web tools' loop), and `LateErrors`, an error may follow the end (the relay, on a connection that breaks late).
- **Client settings.** The base URL is unset, the user's own, or one of Maximal's ports; the helper is unset, the user's
  or ours. The auto-mode key and the model tiers are kept and put back with the same snapshot and are left out. The
  comparison and the rename of an atomic write are one step, nobody edits the helper, one proxy
  runs at a time, and nothing else runs between the listeners at exit. Reading the file, getting an API key and writing may each fail, with the file as it
  was or, past the rename, replaced.

History variables (`signedOut`, `raced`, `races`, `outside`, `missed`, `rejections`, `latest`, `ended`, `ghost`, `owed`, `told`, `want`,
`kept`, `marked`, `runs` and `cut` of a call) are read by properties only, except that `rejections` rides in a loop's record and `MaxRaces` bounds `races`.
`left`, the sessions an adapter let go of, is also what idle reaping may close.

## 3. Runs

| run | expects | distinct states | checks |
|---|---|---|---|
| `account_store` | pass | 235 thousand | one helper in flight, failures and crashes anywhere: `StoreInvariant` (types, no dangling pointer), `NeverTorn`, `CredentialKept`, `SignOutSticks`, and `ImplementsAtomic` (every step is one atomic operation or a stutter) |
| `auth` | pass | 2.59 million | with and without the recovery, two accounts, one of them with a direct bearer, one that a boot may be given, two refresh loops, restarts: `SessionInvariant` (types, one loop, a pending flow has its poller, no dangling pointer), `EscalatesOnlyWhenPersistent`, `SignedInIsBacked`, `AbortedFlowIsSilent`, `AbandonedFlowResumes` |
| `auth_live` | pass | 326 thousand | one account (so that a recovery has nobody to try and gives up), completions on the wire, fairness: `PollerTerminates`, `DegradeIsShown`, `NoSweepInGrace` (in the grace window only a recovery may drop a credential, the one of the candidate it tries) |
| `broker` | pass | 949 thousand | two changes, two generations, a waiter: `SupervisorInvariant` (types, requests only to the current ready broker, no stray process), `LatestConfigWins`, `StoppedForGood` |
| `broker_live` | pass | 293 thousand | one change, the end of the sidecar's process, fairness: `FailureIsRetried`, `ShutdownReachesAll` (all but hung brokers whose stop the exit cut off), `ChangesEnd` (which also gets a waiter past the queue) |
| `requests` | pass | 321 thousand | two questions, two generations, fairness: `RequestsInvariant` (types, what is shown is awaited), `OkIsDelivered`, `EveryQuestionEnds` |
| `sessions` | pass | 748 thousand | two adapters, two calls, three slots, limits of one and two, two lives of the broker: `AdapterInvariant` (types, every session has an owner or was let go of, a running call has its session, nobody waits in vain), `ResentOnlyWhenCut`, `LimitHolds` |
| `shell` | pass | 587 thousand | three generations, two hosts (production on Windows, development elsewhere), one race of two handlers, fairness: `ShellInvariant` (types, no stray sidecar, only the newest exposed), `RestartKeepsApp`, `PortNeverMoves`, `StartingResolves` |
| `streams` | pass | 164 thousand | three flows of up to six chunks, pings at any time, fairness: `RelayInvariant` (types, pings keep clear of events and go on, white space is cut off, the end is told), `EachPieceOnce`, `ImplementsStream`, `LoopComesBack` |
| `web_tools` | pass | 1.04 million | three turns, two blocks each, two tools, upstream pings: `AgentInvariant` (types, results follow calls, the end is told), `UsageSummed`, `EveryCallAnswered`, `ImplementsStream` |
| `routing` | pass | 225 thousand | two ports, four parties, crashes and failing writes anywhere: `RoutingInvariant` (types, a stranded URL is marked, a running proxy's own URL is current), `RestoresExactly`, `EditsSurvive` |
| `routing_intent` | violation | | `CrashKeepsIntent` (section 5) |

**Bounds.** Two accounts and two credentials are the least with which a pointer can name the wrong one. `account_store`
has one slot: its properties are about failure and crash, and `NeverTorn` is false with two (section 6).
`auth` may give a boot the credential of one of its two accounts, so that the
given one and the registry's active one differ or not. It has one device flow alive at a time and may restart the process, after which the slot is free again; two loop slots, because a
stopped loop may still have a request on the wire while its successor sleeps; one flag clear; two rejections
in a row instead of three (`MaxFatal`), the least at which "in a row" differs from "any". Where the recovery is on,
the user does not sign out (`SignOutWith`): a sign-out over a sweep is there without it, and both together have more than seven times the states. `broker` has two
generations, because a failed one can still be dying while its successor serves; a restart budget of one, so
the circuit opens on the second restart; two changes, the least that queue behind each other; two paths and
one shape, so that both a live update and a restart occur (turning the broker off is a third shape).
`requests` has two questions, so that one's frames overtake the other's fate, and two generations, so that one's questions meet the next. `sessions` has a limit of one or two (an update may lower it
once) and a slot more, because an evicted session still closes while its successor waits; two calls of one client, so that they lose a session together, and a second client without calls,
which takes and frees slots; two attempts within a reconnect window; two lives, the least in which every session is lost. `shell` has two hosts, which between them take every branch that depends on
profile and platform: the fixed port and the dynamic one, an exit that ends the app and one that shows a failure, a shutdown that is asked for and one that is signalled. It has three
generations and one request by the user: a first start, its retry on another port or the expiry that uses up a number, and the restart of what came of
it; where the numbers run out the actions that need one are disabled. It has one race: one handler may begin between the locks of another, and everything
that follows from it is explored until a second race would begin. The invariants of the proof were checked with `Overlap` and with more requests and
generations as well. `streams` has two
items, two calls and two parts of each, the least with which a block can be taken for another's, and six chunks, which two items take with their
deltas, done events and end; white space of one instead of twenty. `web_tools` has three turns instead of ten, so that there is a
first, a middle and a ceiling, and tools that may be used once, so that the limit is met. `routing` has two ports, so
that a boot may move, and no bound on how long it goes on.
Actions that would need a further slot are disabled: a third refresh loop, say, waits for a free slot.

**Switches.** Three constants widen a model to what its run leaves out, because the code then really breaks the
properties: `Overlap` (the shell is asked to restart while it restarts), `CliBeside` (the user's commands run beside
the proxy), `Typed` (the user has typed in the proxy's own address). Section 6 says what happens.

**Fairness.** In `AuthController` every await settles: requests carry a timeout, the poll ends with the
device code's lifetime, sleeps are timers, file operations answer or fail. So the steps of pollers, loops,
flag clears, sweep and boot are weakly fair; the user, completions, the end of the grace
window and the restart are not, nor is a sign-out, which nothing here waits for. (Weak fairness would not do with `SignOutWith = {FALSE, TRUE}`: one recovery after another then keeps
a poller waiting in the model, where the promise it awaits has long settled.) In `BrokerSupervisor` the supervisor's own timers and continuations are fair
(startup timeout, end of the graceful period, restart timer, update timeout, steps of a change, exit event, waiters), each only as long as the sidecar's
process runs; that process ends once a shutdown has begun (`initiateShutdown` awaits `stop()` and exits, its watchdog exits without it). The broker
process is not fair: it may hang for ever, and the heartbeat may or may not lapse. Only one that is left alone and does not hang is bound to exit, because its
stdin is closed and its parent watchdog fires (`packages/mcp-broker/src/main.ts`, `docs/architecture.md`). In `PendingRequests` only the time limit
of a question (a timer of the broker's, or its death), the clock and the shell's polling of the list are fair; no answer, frame or exit is.
In `ShellSidecar` the event tasks, timers, respawns, polls, the event loop and the stop are fair, and a child that was told to end ends (SIGKILL
follows); a child that was not may run, hang or print nothing for ever. In `StreamRelay` the writes settle; the upstream may be silent for ever.

**Deadlock.** Checked except where a run really stops: after `stopBrokerSupervisor` with the processes dead and the
bound on changes reached, after the app is gone, after a stream or a message has ended, after the last question was answered, after the adapters have ended.

**What `raced` excludes.** In `AuthController`, `SignedInIsBacked`, `AbandonedFlowResumes` and `DegradeIsShown` are stated
for histories in which no operation began while another was past its last look at the abort signal, or held a
registry it had read, and in which no recovery failed to write a flag. With such overlaps the code can show a session that is not there; the overlaps are
listed as hazards. Without that restriction these properties are false, and with it they still cover every order of
failures, cancels, expiries, rejections and boots. The other properties are stated without it.
In `ShellSidecar`, `NoStraySidecar`, `RestartKeepsApp` and `StartingResolves` are stated for histories in which no handler began while another was between two of
its locks (`races = 0`): with one such race the code can forget a child, quit the app or stay in Starting (section 6). `ExposedIsNewest` and `PortNeverMoves` hold with any number of races.

## 4. Proofs

TLAPS checks the theorems below for every value of the constants that the named assumptions admit: any sets of accounts,
helpers, flows, loops, generations, questions, adapters, calls, items, tools and ports, any number of chunks, turns and blocks, any bounds. "Only if" lists what a theorem
assumes beyond that. It is always what the run of the same property has in its configuration as well.

| theorem (module `..._proofs`) | states | only if |
|---|---|---|
| `Accounts`, on `AccountStore`: `TypeCorrect`, `PointerNeverDangles`, `StoreCorrect` | `StoreInvariant`, with any number of helpers in flight | |
| `FileNeverTorn`, `SignOutHolds`, `CredentialsAreKept` | `NeverTorn`, `SignOutSticks`, `CredentialKept` | `SoleHelper` |
| `AtomicImplemented` | `ImplementsAtomic`: the refinement of `AtomicAccounts` | `SoleHelper` |
| `Accounts`, on `AuthController`: `SessionIsSound` | `SessionInvariant` | |
| `EscalationIsPersistent` | `EscalatesOnlyWhenPersistent` | |
| `AbortLeavesNoTrace`, `GraceKeepsSession` | `AbortedFlowIsSilent`, `NoSweepInGrace` | |
| `SignedInHasCredential`, `AbandonedSignInResumes` | `SignedInIsBacked`, `AbandonedFlowResumes` | (both speak of histories with `~raced`) |
| `BrokerSupervisor`: `SupervisorIsSound`, `StopIsForGood`, `LatestConfigIsServed` | `SupervisorInvariant`, `StoppedForGood`, `LatestConfigWins` | |
| `PendingRequests`: `ShownQuestionsAreOpen`, `AnswersArrive` | `RequestsInvariant`, `OkIsDelivered` | |
| `SessionAdapter`: `SessionsAreHeld`, `LimitIsKept`, `ResentCallsWereCut` | `AdapterInvariant`, `LimitHolds`, `ResentOnlyWhenCut` | |
| `ShellSidecar`: `RestartsKeepTheApp`, `PortIsKept` | `RestartKeepsApp` (with `TypeOK` and `ExposedIsNewest`), `PortNeverMoves` | (`RestartKeepsApp` speaks of histories without a race, whether or not requests overlap) |
| `NoSidecarIsForgotten` | `ShellInvariant` (of which `NoStraySidecar` speaks of histories without a race) | `~Overlap` |
| `StreamRelay`: `RelayIsSafe`, `PiecesAreWrittenOnce` | `RelayInvariant`, `EachPieceOnce` | |
| `ChunksMakeOneStream` | `ImplementsStream`: the refinement of `MessageStream` by all three flows | |
| `WebTools`: `ResultsFollowTheirCalls`, `UsageIsSummed`, `ConversationsAreComplete` | `AgentInvariant`, `UsageSummed`, `EveryCallAnswered` | |
| `TurnsMakeOneStream` | `ImplementsStream`: the refinement of `MessageStream` by the agent loop | |
| `ClientRouting`: `StrandedIsAlwaysMarked`, `UserEditsSurvive` | the part of `RoutingInvariant` about marks, `EditsSurvive` | |
| `FileIsRestored` | `RestoresExactly` | `~Typed` |
| `RoutingIsSound` | `RoutingInvariant` | `~Typed`, `~CliBeside` |

`SoleHelper` says that one helper is in flight at a time. With two, the code breaks these properties (section 6), as it does with
`Typed`, `CliBeside` or `Overlap` on. So each hypothesis is where the truth of the property ends, not where its proof does.

**Assumptions on constants** are of three kinds, all evaluated by TLC in the runs. Special values lie outside the sets they are special to
(`NoKeyAssumption`, `FileAssumption`, `NoneAssumption`, `MarksAreNoConfigs`, `UrlsAreDistinct`, `OutsidersAssumption` and the like),
and activities of different kinds have different names (`ActivitiesAssumption`). Bounds and limits are numbers, ports are positive
(`MaxFatalAssumption`, `BoundsAssumption`, `LimitsAreSizes`, `PortsAssumption`, `WebToolsAssumption`). `SlotsAreFinite`, `CallsAreFinite` and
`SizesAssumption`: what is counted is finite, and the calls, items and parts of a stream are numbered from 0 (`PartsAssumption`: an item has a first
part). No theorem fixes a size.

**Why the invariants had to be strengthened**, and with what:

- `AccountStore`. A rename publishes a registry some helper computed long before, so `IInv` says that whatever may still be published is sound: the
  temporary file and each `reg[p]`. With one helper, `SoleInv` adds that what the helper read is still what the file says, and what is left of a
  sign-out on its way. Then the rename is the atomic step, and every other step a stutter. The theorem about any number of
  helpers covers torn files: one is read as no accounts, and even then nothing dangles.
- `AuthController`. `AuthInv` adds to the properties what a suspended activity carries: the registry it has read, the account it goes on to
  write, the rejections it has met. The hardest part is `FlowsOK`: the poller of a pending flow may leave `markAuthDegraded`
  early only because the grace window never covers a flow past its poll, and because a sweep that ends replaces the pending state.
  `RaceInv` is about histories without an overlap (`raced`). There what a helper holds is what is on disk; a
  poller that still counts is the pending flow's; a sweep, a sign-out and such a poller never meet; and where none of them is
  half-way, the credential to resume, the live one and the one on disk are the same. `Starting` says that a boot has the process to itself until its
  credential is accepted. No such history is assumed to be short: any number of sign-ins, sweeps, recoveries and restarts may follow each other.
- `BrokerSupervisor`. `SuperInv` ties the state of the supervisor to what it may hold, and says of each generation what it may still do after it was stopped or
  has said certain frames. `ConfigInv` says where the configuration asked for last is: in the queue, in the change under way, or in the key;
  and in a frame that the broker has still to read, or in what it serves.
- `PendingRequests`. What may be done with a frame depends on what else is in the pipes. `PInv` says that a question is put to the sidecar once, before
  its withdrawal, and that an answer in the other pipe belongs to a question that is no longer listed.
- `SessionAdapter`. `SInv` says that no session is known to two adapters, that a closed transport has no calls on the wire, and that the table's
  counts are the running calls. Without the first, one adapter's eviction could take another's call. `RunsInv` counts how often a call ran.
- `ShellSidecar`. `SidecarInv` relates a child's place to the reason it was told to end and to the marks its exit will find: that is
  what keeps an exit from quitting the app. It says so of histories without a race: then a handler that is between its locks is the only one, and the slot
  it will empty still holds the child it has marked. `HeldInv` adds that a restart empties the slot and that requests wait for each other.
- `StreamRelay`. What a translator writes is right only if the client is where the translator's state says, and between the two there are events
  that wait to be written. `RelayInv` follows them (`Ways`): from the client's place, with the fragments it is owed, they lead by legal steps
  to a place that the state of the translator stands for (`ChatAt`, `RespAt`: which block is open, and that its index is the one that the call, the
  part or the open text is known by), and there nothing is owed. Each function of a translator is then a lemma: from the place of the state it is
  given it leads to the place of the state it returns. `Beats` says that the keep-alive knows how far the client is, which decides whether a ping may go out.
  The same invariant carries the refinement: each event that is written is a legal one, so its write is a step of `MessageStream`. An error that is written late, after
  the end, is one because `LateErrors` is what this writer promises.
- `WebTools`. `Place` says where the loop believes the client to be, from where it stands in the turn: which block it has open, how many it
  saw, and what it waits for. While events are being written the client is behind, and `Awaits` says that each of them is one it may be told. A forwarded ping waits like any other event, before `message_start` too.
- `ClientRouting`. Files are replaced on the strength of an earlier read, so the invariants speak of the snapshots that processes hold. `OwnInv`:
  each, like the file, carries what was the user's. `LifeInv` follows the mark through the life of the proxy. `PortInv` adds that a boot that finds a dead
  address is about to heal it. Both say what a write that failed has left (`missed`).

TLC finds these invariants to hold in the instance of their module's run, except those of the last two stream modules (`StreamRelay`, `WebTools`): they
say where events lead with quantifiers over unbounded places, which TLC cannot evaluate; the properties they imply, it checks.

**Model-checked only.** The liveness properties (`PollerTerminates`, `DegradeIsShown`, `FailureIsRetried`, `ShutdownReachesAll`, `ChangesEnd`,
`EveryQuestionEnds`, `StartingResolves`, `LoopComesBack`), since liveness under fairness is out of this prover's reach, as is anything with
ENABLED. What the runs say of deadlock. Every invariant and every action property of the passing runs, and each of the three refinements, is
stated by a theorem. No module declares a recursive operator; the one loop over data, the tool calls of a chunk in `ChatTranslation`, is a recursive
function, and what a chunk does is proved by unfolding it, for the two calls that a chunk of `StreamRelay` has at most.

## 5. Findings

`routing_intent` expects a violation; the line it contradicts is quoted in `PROJECT.json`. After a crash the shell reverts
Claude Code's settings with the user's own disable command, which also clears the routing intent; the comment beside it
says that the intent is left alone so that a restart routes again.

## 6. Seen while modelling

Behaviour of the code that the models show and that no run states as a property of it. Each is either exempted in a property by
name, or outside a run by a switch or a bound.

- **Accounts.** All writes of one process share a temporary file name, so two overlapping helpers can publish a truncated
  `accounts.json` (two slots in `account_store` break `NeverTorn`); the comment at `github-token-store.ts:395-402` says they cannot.
  Forgetting a migrated account leaves the legacy file, and the next boot signs in with it again. Signing out leaves the refresh loop
  asking GitHub for tokens. A flow that is aborted while its account is looked up has already set `state.userName` to that account
  (`auth-controller.ts:462`, before the signal is read again at 481), although the comment at 404-407 says that the signal is read "after each await before touching shared
  state": from then on usage is booked on an account that is not the one shown. A session booted on `--github-token`, or on a legacy file that could not be lifted,
  runs on an account that need not be in the registry; a rejection then flags the registry's active account, which may be another one.
  Signing in to another account, when its mint fails transiently, leaves completions on the previous
  account's token, although `state.ts:86-87` says that the three "move together". After a sign-in whose mint fails transiently nothing mints again; a comment relies on a lazy path
  that does not exist.
- **Recovery.** The mint of a candidate leaves a flag clear behind that nobody awaits, and the commit of the candidate reads and writes the
  same file at once: the clear may have read the registry in which the old account is active, and writes it back over the commit (the
  overlap that `github-token-store.ts:395-399` rules out). The next boot then reads the account that was rejected. When a
  candidate's flag cannot be written the recovery ends by a throw, before it drops the tokens: the error state is shown over live tokens
  of a candidate whose mint or commit failed. A sign-out during a recovery is overwritten when the recovery signs in. A boot may sign in
  while a recovery tries a candidate; if that candidate then fails, its credential is dropped although the grace window of the boot has begun.
- **Broker.** `stop()` waits for the current generation only. If there is none, because it failed or was replaced and is being stopped in the background, `initiateShutdown`
  (`shutdown.ts:92-113`) goes on to `process.exit(0)`, and that stop ends with the process, its SIGKILL timer included. The watchdog's exit after 2.5 seconds cuts the stop of the current
  generation short in the same way. A broker that responds sees that it is alone and exits; one that hangs stays (`LeftHung`). A caller waiting for the broker is told "off" between the end of a stop and the start of its replacement.
- **Requests.** A question that is read while its broker is being stopped stays on the list until it expires, and answering it reports
  ok although nothing is sent.
- **Sessions.** The route answers 502 whenever its request to the broker fails: also for a call that a server is running, when the broker ends or
  when the route's own timer ends the wait. The adapter takes a 502 for a request that "certainly never reached a server"
  (`resumable-transport.ts:45-47` and `:100-101`) and sends the call again on a new session, so that a tool may run twice; `ResentOnlyWhenCut` says that
  nothing else makes it. A 503 for too many requests makes the adapter leave a live session open and replace it ("Its session is gone", `:191`). A call
  that is sent while a replacement goes on fails, and after a replacement that failed `#inner` stays closed, so that every later call
  fails at once. An adapter that ends during a replacement leaves the new session open. A session that starts
  slowly has the oldest `lastUsedAt` and may be evicted before its first use; the 404 on `initialized` then makes the replacement throw.
- **Shell.** A respawn marks the child in the slot, empties the slot and perhaps spawns, under separate locks (`sidecar_runtime.rs:1708-1729`). If the exit of that child
  is handled in between, it consumes the mark and spawns a replacement; the respawn then kills that replacement, which nobody marked, so that its clean exit quits
  the app, or it finds the slot empty and spawns too, and one of the two children is nobody's. A startup that is given up (1132-1146, 1169-1193) expires, marks and
  kills in the same way, and may kill what a restart has just spawned; after such a race Starting may also be shown for ever. With `Overlap`, a second restart within the time the
  first child takes to end finds the slot empty and spawns at once, without any such race; that child is then no longer owned when the first one's exit spawns another. The handoff of an update is taken by whichever child
  terminates next. A stale poll can leave Running over a sidecar that has ended.
- **Streams.** A chat or Messages stream that simply stops, without a throw, is closed without a terminal event. The error event
  does not go through the keep-alive, so it may be written while a ping is. Outside the orders of section 2: a signature
  in a chunk of calls while a call's block is open reuses its index; reasoning and text in one chunk with a text block open
  lose the text; arguments for a call whose block was closed are written into a closed block; interleaved Responses items
  do the same. A connection that breaks after the finish reason sends an error after `message_stop`.
- **Web tools.** In the non-streaming loop a client's own call in the same turn goes back to the model without a result. At the ceiling the message may end with the
  stop reason `tool_use`. A use is counted only when it succeeds. A last turn that is truncated tells the client nothing.
  The heartbeat around a tool does not wait for its last ping. A ping of the upstream is forwarded
  whenever it comes, also before the first `message_start` (`stream.ts:376-379` and `436-439`); of its own heartbeats the same file says that "a ping before `message_start` is not a
  valid Anthropic stream" (637-638), and the relay drops such pings (`stream-keepalive.ts:95`).
- **Client settings.** With `Typed`, the proxy's own URL typed in by the user counts as Maximal's and is removed on revert. A
  revert does not compare the file with what it read, so an edit made in between is lost. With `CliBeside`, a command that runs beside the proxy works
  with a stale configuration. A crash between the boot hooks and the session sentinel leaves a URL without a mark. A failure of
  the revert at exit is logged and swallowed (`shutdown.ts:35-42`) and the sentinel is cleared all the same (110, 143-147), so that the URL stays, over a dead port and
  without a mark (`missed = "revert"`). A failure of the apply at boot is swallowed too (`reconcile.ts:123-125`): the file may name the port of an earlier run until the next change of the
  catalogue or of a key applies again (`missed = "apply"`). When an enable writes the file and then cannot write the configuration, the URL is routed and not meant to be.

## 7. Not modelled

- Adding accounts through the gh CLI routes, the CLI as a second process on `accounts.json`.
- Deadlines and backoff as numbers: every timer may fire at any time once armed, which allows more than the code does.
- Below the broker process: its process group, its HTTP server, its startup probe; in an adapter, the answers it gives when nothing can be reached.
- The translation of requests and of whole answers: data without state.
- The settings of Claude Desktop and Codex and the clients' MCP entries, whose life cycle is the one of `ClientRouting` over other formats.
- The drain and the timers of a shutdown, the pid file.
- Usage, models, updates, request authentication, UI, CLI, site, packaging (reasons per component in `PROJECT.json`).

## 8. What is left

1. `ShellSidecar` after a race, and with `Overlap`: which children may be left behind, as an invariant and a theorem, where today the theorem speaks of
   requests that do not overlap and histories without a race.
2. `AuthController` with an overlap: `SignedInIsBacked` and `AbandonedFlowResumes` hold for histories without one (`raced`); what still holds after one
   are the properties that section 3 states without it.
3. Parts that have no model and keep state: the drain and the timers of a shutdown, the other clients' settings, the usage store.

## 9. Running it

    tlc -workers 2 -config MCAccountStore.cfg MCAccountStore
    tlapm Accounts_proofs.tla

The other runs are listed in `PROJECT.json`; none takes more than a few minutes. The other proof modules are checked in the same way; the longest,
`StreamRelay_proofs`, `Accounts_proofs`, `SessionAdapter_proofs` and `BrokerSupervisor_proofs`, take several minutes each from nothing.
