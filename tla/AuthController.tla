--------------------------- MODULE AuthController ---------------------------
(***************************************************************************)
(* Sign-in, sign-out and credential failure in one sidecar process         *)
(* (src/lib/auth/auth-controller.ts, auth-recovery.ts, token.ts,           *)
(* start/bootstrap.ts).                                                    *)
(*                                                                         *)
(* One event loop runs the handlers; each `await` hands it to another, so  *)
(* an action is the code between two suspension points.  The activities    *)
(* that interleave are: the calls of startDeviceFlow and the background    *)
(* poller each one leaves (an element of Flows), the Copilot refresh loops *)
(* (Loops: a stopped loop may still have a request on the wire), signOut,  *)
(* the degrade sweep of markAuthDegraded with the recovery it may go on    *)
(* to, the fire-and-forget flag clears (Clears), a completion request, and *)
(* the boot sequence.                                                      *)
(*                                                                         *)
(* A GitHub credential is identified with the account it belongs to, and a *)
(* Copilot token with the account whose credential minted it, so that the  *)
(* row `unknown@host` of a migration that could not look its account up is *)
(* left out.  The registry on disk is read and written in separate steps   *)
(* but each write is one step: AccountStore models what writeJsonAtomic    *)
(* does below that.                                                        *)
(***************************************************************************)
EXTENDS AccountRegistry, Naturals

CONSTANTS
  Flows,           \* device flows one process may start, and their pollers
  Loops,           \* Copilot refresh loops alive at once
  Clears,          \* fire-and-forget flag clears in flight at once
  Requests,        \* completions on the wire at once
  SignOutWith,     \* settings of autoRecover the user signs out under (a bound)
  DirectAccounts,  \* accounts with a gho_ credential, used as a bearer as is
  Given,           \* accounts whose credential --github-token or the legacy
                   \* single-record file may hold (a bound)
  MaxFatal,        \* maxFatalRefreshRetries
  None             \* undefined / null

ASSUME CredentialAssumption == Keys \subseteq Tokens
ASSUME MaxFatalAssumption == MaxFatal \in Nat \ {0}
ASSUME DirectAssumption == DirectAccounts \subseteq Keys
ASSUME GivenAssumption == Given \subseteq Keys
ASSUME ActivitiesAssumption ==
  /\ Flows \cap (Clears \cup Loops) = {}
  /\ {"signOut", "sweep"} \cap (Flows \cup Clears) = {}
ASSUME SignOutAssumption == SignOutWith \subseteq BOOLEAN
ASSUME NoneAssumption ==
  None \notin Keys \cup Flows \cup Loops \cup AccountRegistries

VARIABLES
  auth,      \* authState: its kind, and the flow or the login it carries
  github,    \* state.githubToken
  copilot,   \* state.copilotToken
  userName,  \* state.userName: the account usage is booked on
  outside,   \* history: boot was given the live credential from elsewhere than
             \* the registry
  registry,  \* accounts.json
  held,      \* what each helper about to write the registry has read, or None
  inGrace,   \* now - lastAuthSuccessMs < RECOVERY_GRACE_MS
  flow,      \* each flow and where its poller is
  loop,      \* each refresh loop and where it is
  current,   \* copilotRefreshLoopController
  clear,     \* each flag clear
  signOut,   \* signOut's tail, after the live session is gone
  sweep,     \* degradeInFlight
  request,   \* each completion: on the wire or not
  autoRecover, \* whether bootstrap registered the recovery sweep
  boot,      \* where bootstrapUpstream is; "up" once the server listens
  raced      \* history: an operation began while another was settling, or a
             \* recovery could not clean up

live    == <<github, userName, outside>>
session == <<auth, live, copilot>>
disk    == <<registry, held>>
loops   == <<loop, current>>
tails   == <<clear, signOut, sweep>>
env     == <<inGrace, autoRecover, request, boot>>
vars    == <<session, disk, flow, loops, tails, env, raced>>

Identity == Keys \cup {None}

\* Whatever reads the registry in one turn and writes it in a later one
Helpers == Flows \cup Clears \cup {"signOut", "sweep"}

SignedOut == [kind |-> "signed-out", of |-> None]
Polling(f) == [kind |-> "polling", of |-> f]
SignedIn(a) == [kind |-> "signed-in", of |-> a]
Error == [kind |-> "error", of |-> None]

AuthState ==
  {SignedOut, Error} \cup {Polling(f) : f \in Flows} \cup {SignedIn(a) : a \in Keys}

\* A flow: where its poller is, the account to fall back to, whether it was
\* aborted or outlived expires_in, and the account that approved it.
Flow == [at : {"new", "code", "poll", "verify", "read", "write", "mint",
               "degrade", "models", "done"},
         resume : Identity, aborted : BOOLEAN, expired : BOOLEAN,
         account : Identity]

\* A refresh loop: asleep, with a request on the wire ("stale" once it was
\* stopped), or behind markAuthDegraded; its fatalRetries, the credential its
\* request carries, and (history) the rejections it met since it last succeeded.
Loop == [at : {"free", "wait", "mint", "stale", "degrade"},
         fatals : 0 .. MaxFatal, sent : Identity, rejections : 0 .. MaxFatal]

\* The degrade sweep, and the recovery it may go on to: where it is, the
\* candidate it tries, those it has not tried.
Sweep == [at : {"idle", "read", "write", "list", "preflight", "mint", "pinRead", "pinWrite",
                "models", "flagRead", "flagWrite"},
          of : Identity, rest : SUBSET Keys]

SweepAt(at) == [at |-> at, of |-> None, rest |-> {}]
NoSweep == SweepAt("idle")

TypeOK ==
  /\ auth \in AuthState
  /\ github \in Identity
  /\ copilot \in Identity
  /\ userName \in Identity
  /\ registry \in AccountRegistries
  /\ held \in [Helpers -> AccountRegistries \cup {None}]
  /\ inGrace \in BOOLEAN
  /\ autoRecover \in BOOLEAN
  /\ flow \in [Flows -> Flow]
  /\ loop \in [Loops -> Loop]
  /\ current \in Loops \cup {None}
  /\ clear \in [Clears -> {"free", "read", "write"}]
  /\ signOut \in {"idle", "read", "write"}
  /\ sweep \in Sweep
  /\ request \in [Requests -> {"idle", "sent"}]
  /\ boot \in {"start", "user", "mint", "degrade", "models", "up"}
  /\ outside \in BOOLEAN
  /\ raced \in BOOLEAN

\* clearTokenTrio(), less the Copilot token
NobodyIsLive == github' = None /\ userName' = None /\ outside' = FALSE

\* currentFlow(): the flow authState carries, if any
CurrentFlow == IF auth.kind = "polling" THEN auth.of ELSE None

\* fs once the flow authState carries was aborted
AbortCurrent(fs) == [f \in Flows |-> [fs[f] EXCEPT !.aborted = @ \/ f = CurrentFlow]]

-----------------------------------------------------------------------------
(* The refresh loop                                                        *)
FreeLoop == [at |-> "free", fatals |-> 0, sent |-> None, rejections |-> 0]
NewLoop  == [FreeLoop EXCEPT !.at = "wait"]

\* stopCopilotRefreshLoop ends a loop that sleeps and marks one that waits for
\* an answer; nothing recalls the request.
StopLoop(ls) ==
  [l \in Loops |->
     CASE l = current /\ ls[l].at = "wait" -> FreeLoop
       [] l = current /\ ls[l].at = "mint" -> [ls[l] EXCEPT !.at = "stale"]
       [] OTHER -> ls[l]]

(* Mutated form: the previous loop is not stopped.                         *)
ReplaceLoop_KeepsOld ==
  \E l \in Loops :
    /\ loop[l] = FreeLoop
    /\ loop' = [loop EXCEPT ![l] = NewLoop]
    /\ current' = l

\* setupCopilotToken's last step: stop the current loop, start a fresh one.
ReplaceLoop ==
  \E l \in Loops :
    /\ StopLoop(loop)[l] = FreeLoop
    /\ loop' = [StopLoop(loop) EXCEPT ![l] = NewLoop]
    /\ current' = l

\* clearActiveNeedsReauth(): fire and forget, done whenever the disk answers.
SpawnClear ==
  \E c \in Clears : clear[c] = "free" /\ clear' = [clear EXCEPT ![c] = "read"]

\* setupCopilotToken once a credential of account a is accepted: a gho_ one
\* is its own bearer and needs no refresh, any other starts a refresh loop.
CopilotReady(a) ==
  /\ copilot' = a
  /\ SpawnClear
  /\ \/ a \in DirectAccounts /\ loop' = StopLoop(loop) /\ current' = None
     \/ a \notin DirectAccounts /\ ReplaceLoop

-----------------------------------------------------------------------------
(* What can be under way between two turns of the event loop.              *)
Committing == {"code", "read", "write", "mint", "degrade", "models"}

\* An activity other than `self` is past the last point at which it looks
\* whether it was cancelled, or works with what it read before.
Settling(self) ==
  \/ \E f \in Flows \ self : flow[f].at \in Committing
  \/ \E l \in Loops \ self : loop[l].at \in {"mint", "stale"}
  \/ \E c \in Clears : clear[c] # "free"
  \/ signOut # "idle"
  \/ sweep.at # "idle"

NoteRace(self) == raced' = (raced \/ Settling(self))

\* A helper reads the registry, while another may hold what it read ...
Hold(h) ==
  /\ held' = [held EXCEPT ![h] = registry]
  /\ raced' = (raced \/ \E g \in Helpers : held[g] # None)

\* ... and lets go of it when its write is over.
LetGo(h) == held' = [held EXCEPT ![h] = None]
-----------------------------------------------------------------------------
(* Mutated form: no grace window.                                          *)
MarkAuthDegraded_NoGrace(ls, fs) ==
  \/ /\ sweep.at # "idle"
     /\ loop' = ls
     /\ flow' = fs
     /\ UNCHANGED <<live, copilot, current, sweep>>
  \/ /\ sweep.at = "idle"
     /\ flow' = AbortCurrent(fs)
     /\ loop' = StopLoop(ls)
     /\ current' = None
     /\ NobodyIsLive
     /\ copilot' = None
     /\ \/ sweep' = SweepAt("read")
        \/ auth = Error /\ UNCHANGED sweep

(* markAuthDegraded, up to its first await; `ls` and `fs` are loop and     *)
(* flow with the caller's own change.  One sweep at a time; none in the    *)
(* grace window; an error state showing this very message is kept as is.   *)
MarkAuthDegraded(ls, fs) ==
  \/ /\ sweep.at # "idle" \/ inGrace
     /\ loop' = ls
     /\ flow' = fs
     /\ UNCHANGED <<live, copilot, current, sweep>>
  \/ /\ sweep.at = "idle" /\ ~inGrace
     /\ flow' = AbortCurrent(fs)
     /\ loop' = StopLoop(ls)
     /\ current' = None
     /\ NobodyIsLive
     /\ copilot' = None
     /\ \/ sweep' = SweepAt("read")
        \/ auth = Error /\ UNCHANGED sweep

\* The account is flagged, or could not be: with the user's consent another
\* is tried, otherwise the reason is shown.
GivesUp ==
  \/ autoRecover /\ sweep' = SweepAt("list") /\ UNCHANGED auth
  \/ ~autoRecover /\ sweep' = NoSweep /\ auth' = Error

\* markActiveNeedsReauth, read ...
SweepReads ==
  /\ sweep.at = "read"
  /\ IF registry.activeKey = NoKey
     THEN GivesUp /\ UNCHANGED <<held, raced>>
     ELSE sweep' = SweepAt("write") /\ Hold("sweep") /\ UNCHANGED auth
  /\ UNCHANGED <<live, copilot, registry, flow, loops, clear, signOut, env>>

(* Mutated form: degradeInFlight is never reset.                           *)
SweepWrites_Stuck ==
  /\ sweep.at = "write"
  /\ \/ registry' = markNeedsReauth(held["sweep"], held["sweep"].activeKey)
     \/ UNCHANGED registry
  /\ auth' = Error
  /\ UNCHANGED <<live, copilot, held, flow, loops, tails, env, raced>>

(* Mutated form: the sweep flags the account but never sets the error.     *)
SweepWrites_Hidden ==
  /\ sweep.at = "write"
  /\ \/ registry' = markNeedsReauth(held["sweep"], held["sweep"].activeKey)
     \/ UNCHANGED registry
  /\ sweep' = NoSweep
  /\ LetGo("sweep")
  /\ UNCHANGED <<session, flow, loops, clear, signOut, env, raced>>

\* ... and write, or fail to.
SweepWrites ==
  /\ sweep.at = "write"
  /\ \/ registry' = markNeedsReauth(held["sweep"], held["sweep"].activeKey)
     \/ UNCHANGED registry
  /\ GivesUp
  /\ LetGo("sweep")
  /\ UNCHANGED <<live, copilot, flow, loops, clear, signOut, env, raced>>

-----------------------------------------------------------------------------
(* attemptAutoRecovery: the stored accounts are tried in turn (here in any *)
(* order), live, before the sweep gives up.                                *)
Candidates ==
  {a \in Keys : /\ HasAccount(registry, a) /\ a # registry.activeKey
                /\ ~registry.accounts[a].needsReauth}

\* The next candidate, or no good account: the tokens a failed one may have
\* left are dropped and the reason is shown.
TriesNext(rest) ==
  \/ /\ rest # {}
     /\ \E a \in rest : sweep' = [at |-> "preflight", of |-> a, rest |-> rest \ {a}]
     /\ UNCHANGED session
  \/ /\ rest = {}
     /\ sweep' = NoSweep
     /\ NobodyIsLive /\ copilot' = None /\ auth' = Error

RecoveryLists ==
  /\ sweep.at = "list"
  /\ TriesNext(Candidates)
  /\ UNCHANGED <<disk, flow, loops, clear, signOut, env, raced>>

RecoveryMoves(from, to) == sweep.at = from /\ sweep' = [sweep EXCEPT !.at = to]

\* The preflight or the mint fails, in whatever way: the candidate is flagged.
CandidateFails ==
  /\ RecoveryMoves("preflight", "flagRead") \/ RecoveryMoves("mint", "flagRead")
  /\ UNCHANGED <<session, disk, flow, loops, clear, signOut, env, raced>>

\* switchActiveAccountLive: the candidate's credential is live at once and
\* goes to setupCopilotToken in the same turn.
CandidatePasses ==
  /\ github' = sweep.of /\ userName' = sweep.of /\ outside' = FALSE
  /\ \/ /\ sweep.of \in DirectAccounts
        /\ RecoveryMoves("preflight", "pinRead")
        /\ CopilotReady(sweep.of)
     \/ /\ sweep.of \notin DirectAccounts
        /\ RecoveryMoves("preflight", "mint")
        /\ loop' = StopLoop(loop) /\ current' = None
        /\ UNCHANGED <<copilot, clear>>
  /\ UNCHANGED <<auth, disk, flow, signOut, env, raced>>

CandidateMints ==
  /\ RecoveryMoves("mint", "pinRead")
  /\ CopilotReady(sweep.of)
  /\ UNCHANGED <<auth, live, disk, flow, signOut, env, raced>>

\* activateAndClearNeedsReauth and flagBad, read ...
RecoveryReads ==
  /\ RecoveryMoves("pinRead", "pinWrite") \/ RecoveryMoves("flagRead", "flagWrite")
  /\ Hold("sweep")
  /\ UNCHANGED <<session, registry, flow, loops, clear, signOut, env>>

\* ... and write: the candidate is the active account, or fails after all.
PinWrites ==
  /\ \/ /\ RecoveryMoves("pinWrite", "models")
        /\ registry' = clearNeedsReauth(setActive(held["sweep"], sweep.of), sweep.of)
     \/ RecoveryMoves("pinWrite", "flagRead") /\ UNCHANGED registry
  /\ LetGo("sweep")
  /\ UNCHANGED <<session, flow, loops, clear, signOut, env, raced>>

\* A flag that cannot be written ends the recovery with the candidate's
\* tokens in place (counted with the races).
FlagWrites ==
  /\ sweep.at = "flagWrite"
  /\ \/ /\ registry' = markNeedsReauth(held["sweep"], sweep.of)
        /\ TriesNext(sweep.rest)
        /\ UNCHANGED raced
     \/ /\ sweep' = NoSweep /\ auth' = Error
        /\ raced' = TRUE
        /\ UNCHANGED <<live, copilot, registry>>
  /\ LetGo("sweep")
  /\ UNCHANGED <<flow, loops, clear, signOut, env>>

\* cacheModels settled, either way; markSignedIn opens the grace window.
RecoverySignsIn ==
  /\ sweep.at = "models"
  /\ auth' = SignedIn(sweep.of)
  /\ inGrace' = TRUE
  /\ sweep' = NoSweep
  /\ UNCHANGED <<live, copilot, disk, flow, loops, clear, signOut, autoRecover, request, boot, raced>>

RecoveryStep ==
  \/ RecoveryLists
  \/ CandidateFails
  \/ CandidatePasses
  \/ CandidateMints
  \/ RecoveryReads
  \/ PinWrites
  \/ FlagWrites
  \/ RecoverySignsIn

-----------------------------------------------------------------------------
GraceExpires ==
  /\ inGrace
  /\ inGrace' = FALSE
  /\ UNCHANGED <<session, disk, flow, loops, tails, autoRecover, request, boot, raced>>

-----------------------------------------------------------------------------
(* clearActiveNeedsReauthInDefaultRegistry                                 *)
ClearReads(c) ==
  /\ clear[c] = "read"
  /\ IF \/ registry.activeKey = NoKey
        \/ clearNeedsReauth(registry, registry.activeKey) = registry
     THEN clear' = [clear EXCEPT ![c] = "free"] /\ UNCHANGED <<held, raced>>
     ELSE clear' = [clear EXCEPT ![c] = "write"] /\ Hold(c)
  /\ UNCHANGED <<session, registry, flow, loops, signOut, sweep, env>>

ClearWrites(c) ==
  /\ clear[c] = "write"
  /\ \/ registry' = clearNeedsReauth(held[c], held[c].activeKey)
     \/ UNCHANGED registry
  /\ clear' = [clear EXCEPT ![c] = "free"]
  /\ LetGo(c)
  /\ UNCHANGED <<session, flow, loops, signOut, sweep, env, raced>>

-----------------------------------------------------------------------------
(* POST sign-out: the live session goes at once, the registry later.       *)
SignOut ==
  /\ boot = "up" /\ signOut = "idle" /\ autoRecover \in SignOutWith
  /\ flow' = AbortCurrent(flow)
  /\ NobodyIsLive
  /\ copilot' = None
  /\ auth' = SignedOut
  /\ signOut' = "read"
  /\ NoteRace({})
  /\ UNCHANGED <<disk, loops, clear, sweep, env>>

SignOutReads ==
  /\ signOut = "read"
  /\ IF registry.activeKey = NoKey
     THEN signOut' = "idle" /\ UNCHANGED <<held, raced>>
     ELSE signOut' = "write" /\ Hold("signOut")
  /\ UNCHANGED <<session, registry, flow, loops, clear, sweep, env>>

SignOutWrites ==
  /\ signOut = "write"
  /\ \/ registry' = deactivate(held["signOut"])
     \/ UNCHANGED registry
  /\ signOut' = "idle"
  /\ LetGo("signOut")
  /\ UNCHANGED <<session, flow, loops, clear, sweep, env, raced>>

-----------------------------------------------------------------------------
captureResumeTarget ==
  IF CurrentFlow # None THEN flow[CurrentFlow].resume
  ELSE IF auth.kind = "signed-in" THEN auth.of ELSE None

NewFlow == [at |-> "new", resume |-> None, aborted |-> FALSE, expired |-> FALSE,
            account |-> None]

Moved(f, at) == [flow EXCEPT ![f].at = at]

\* The poller of f returns.  What the flow carried matters only as long as
\* authState carries the flow.
Ended(f) ==
  [flow EXCEPT ![f] = IF f = CurrentFlow THEN [@ EXCEPT !.at = "done", !.account = None]
                      ELSE [NewFlow EXCEPT !.at = "done"]]

\* startDeviceFlow up to `await getDeviceCode()`.  A call that finds an
\* unexpired flow returns its code and changes nothing: it is not a step.
StartDeviceFlow(f) ==
  /\ boot = "up"
  /\ flow[f].at = "new"
  /\ CurrentFlow # None => flow[CurrentFlow].expired
  /\ flow' = [AbortCurrent(flow) EXCEPT
                ![f].at = "code", ![f].resume = captureResumeTarget]
  /\ NoteRace({})
  /\ UNCHANGED <<session, disk, loops, tails, env>>

\* The code arrives: the flow is installed and its poller starts in one turn
\* (device-issued is never seen, runPoller sets polling before it suspends).
DeviceCodeIssued(f) ==
  /\ flow[f].at = "code"
  /\ flow' = Moved(f, "poll")
  /\ auth' = Polling(f)
  /\ UNCHANGED <<live, copilot, disk, loops, tails, env, raced>>

DeviceCodeFails(f) ==
  /\ flow[f].at = "code"
  /\ flow' = Ended(f)
  /\ UNCHANGED <<session, disk, loops, tails, env, raced>>

\* expires_in elapses: startDeviceFlow no longer hands this code out.
FlowExpires(f) ==
  /\ f = CurrentFlow
  /\ ~flow[f].expired
  /\ flow' = [flow EXCEPT ![f].expired = TRUE]
  /\ UNCHANGED <<session, disk, loops, tails, env, raced>>

Resumed(f, otherwise) ==
  IF flow[f].resume # None THEN SignedIn(flow[f].resume) ELSE otherwise

cancelDeviceFlow ==
  /\ boot = "up" /\ CurrentFlow # None
  /\ flow' = AbortCurrent(flow)
  /\ auth' = Resumed(CurrentFlow, SignedOut)
  /\ NoteRace({})
  /\ UNCHANGED <<live, copilot, disk, loops, tails, env>>

(* Mutated form: an additional sign-in that fails signs the user out.      *)
flowFailureState_NoResume(f) == Error

flowFailureState(f) == Resumed(f, Error)

\* How a poller ends without a sign-in: silently once its flow was aborted.
PollerFails(f) ==
  /\ flow' = Ended(f)
  /\ auth' = IF flow[f].aborted THEN auth ELSE flowFailureState(f)
  /\ LetGo(f)
  /\ UNCHANGED <<live, copilot, registry, loops, tails, env, raced>>

\* pollAccessToken throws: denied, expired or aborted.
PollThrows(f) == flow[f].at = "poll" /\ PollerFails(f)

\* The user approved as account a.  The poll sleeps at least its interval plus
\* a second first: a grace window open now began after this flow did, with a
\* recovery that has put another state in its place.
PollReturns(f, a) ==
  /\ flow[f].at = "poll" /\ ~flow[f].aborted
  /\ inGrace => f # CurrentFlow
  /\ flow' = [flow EXCEPT ![f].at = "verify", ![f].account = a]
  /\ UNCHANGED <<session, disk, loops, tails, env, raced>>

VerifyThrows(f) == flow[f].at = "verify" /\ PollerFails(f)

(* Mutated form: no abort check after the account lookup.                  *)
VerifyReturns_Unchecked(f) ==
  /\ flow[f].at = "verify"
  /\ userName' = flow[f].account
  /\ flow' = Moved(f, "read")
  /\ UNCHANGED <<auth, github, outside, copilot, disk, loops, tails, env, raced>>

\* getGitHubUser answers: the account is written down as the user's before the
\* abort signal is read again.
VerifyReturns(f) ==
  /\ flow[f].at = "verify"
  /\ userName' = flow[f].account
  /\ flow' = IF flow[f].aborted THEN Ended(f) ELSE Moved(f, "read")
  /\ UNCHANGED <<auth, github, outside, copilot, disk, loops, tails, env, raced>>

AddAccountReads(f) ==
  /\ flow[f].at = "read"
  /\ flow' = Moved(f, "write")
  /\ Hold(f)
  /\ UNCHANGED <<session, registry, loops, tails, env>>

AddAccountThrows(f) == flow[f].at = "write" /\ PollerFails(f)

\* Where the poller goes after the mint: its last look at the abort signal.
AfterMint(f) == IF flow[f].aborted THEN Ended(f) ELSE Moved(f, "models")

(* Mutated form: the credential is stored but never becomes the live one.  *)
AddAccountWrites_NotLive(f) ==
  LET a == flow[f].account IN
  /\ flow[f].at = "write"
  /\ registry' = addAndActivate(held[f], a, a)
  /\ LetGo(f)
  /\ \/ a \in DirectAccounts /\ CopilotReady(a) /\ flow' = AfterMint(f)
     \/ /\ a \notin DirectAccounts
        /\ flow' = Moved(f, "mint")
        /\ UNCHANGED <<copilot, clear, loops>>
  /\ UNCHANGED <<auth, live, signOut, sweep, env, raced>>

\* The account is stored; its credential becomes the live one and goes to
\* setupCopilotToken in the same turn.
AddAccountWrites(f) ==
  LET a == flow[f].account IN
  /\ flow[f].at = "write"
  /\ registry' = addAndActivate(held[f], a, a)
  /\ LetGo(f)
  /\ github' = a /\ outside' = FALSE
  /\ \/ a \in DirectAccounts /\ CopilotReady(a) /\ flow' = AfterMint(f)
     \/ /\ a \notin DirectAccounts
        /\ flow' = Moved(f, "mint")
        /\ UNCHANGED <<copilot, clear, loops>>
  /\ UNCHANGED <<auth, userName, signOut, sweep, env, raced>>

\* getCopilotToken answers for the credential it was sent with.
PollerMints(f) ==
  /\ flow[f].at = "mint"
  /\ CopilotReady(flow[f].account)
  /\ flow' = AfterMint(f)
  /\ UNCHANGED <<auth, live, disk, signOut, sweep, env, raced>>

\* Not fatal: the sign-in goes on without a Copilot token.
PollerMintThrows(f) ==
  /\ flow[f].at = "mint"
  /\ flow' = AfterMint(f)
  /\ UNCHANGED <<session, disk, loops, tails, env, raced>>

PollerMintRejected(f) ==
  /\ flow[f].at = "mint"
  /\ MarkAuthDegraded(loop, Moved(f, "degrade"))
  /\ NoteRace({f})
  /\ UNCHANGED <<auth, disk, clear, signOut, env>>

PollerDegraded(f) ==
  /\ flow[f].at = "degrade" /\ sweep.at = "idle"
  /\ flow' = Ended(f)
  /\ UNCHANGED <<session, disk, loops, tails, env, raced>>

\* cacheModels settled, either way; the abort signal is not read again.
PollerSignsIn(f) ==
  /\ flow[f].at = "models"
  /\ flow' = [flow EXCEPT ![f] = [NewFlow EXCEPT !.at = "done"]]
  /\ auth' = SignedIn(flow[f].account)
  /\ UNCHANGED <<live, copilot, disk, loops, tails, env, raced>>
-----------------------------------------------------------------------------
(* runCopilotRefreshLoop                                                   *)
LoopRequests(l) ==
  /\ loop[l].at = "wait"
  /\ loop' = [loop EXCEPT ![l].at = "mint", ![l].sent = github]
  /\ UNCHANGED <<session, disk, flow, current, tails, env, raced>>

Asking(l) == loop[l].at \in {"mint", "stale"}

\* Back to sleep, or out of the loop when it was stopped meanwhile.
GoesOn(l, fatals, rejections) ==
  [loop EXCEPT ![l] =
     IF @.at = "stale" THEN FreeLoop
     ELSE [at |-> "wait", fatals |-> fatals, sent |-> None, rejections |-> rejections]]

\* The answer is taken whether or not the loop was stopped.
LoopRefreshes(l) ==
  /\ Asking(l) /\ loop[l].sent # None
  /\ copilot' = loop[l].sent
  /\ IF loop[l].fatals > 0 THEN SpawnClear ELSE UNCHANGED clear
  /\ loop' = GoesOn(l, 0, 0)
  /\ UNCHANGED <<auth, live, disk, flow, current, signOut, sweep, env, raced>>

\* A rejection is retried until MaxFatal came in a row.
LoopRejected(l) ==
  /\ Asking(l)
  /\ loop[l].fatals + 1 < MaxFatal
  /\ loop' = GoesOn(l, loop[l].fatals + 1, loop[l].rejections + 1)
  /\ UNCHANGED <<session, disk, flow, current, tails, env, raced>>

\* Behind markAuthDegraded; only the rejections are kept, for the history.
Escalated(l) ==
  [loop EXCEPT ![l] = [FreeLoop EXCEPT !.at = "degrade",
                                       !.rejections = loop[l].rejections + 1]]

(* Mutated form: the retry budget is one short.                            *)
LoopEscalates_Early(l) ==
  /\ Asking(l)
  /\ loop[l].fatals + 2 >= MaxFatal
  /\ MarkAuthDegraded(Escalated(l), flow)
  /\ NoteRace({l})
  /\ UNCHANGED <<auth, disk, clear, signOut, env>>

LoopEscalates(l) ==
  /\ Asking(l)
  /\ loop[l].fatals + 1 >= MaxFatal
  /\ MarkAuthDegraded(Escalated(l), flow)
  /\ NoteRace({l})
  /\ UNCHANGED <<auth, disk, clear, signOut, env>>

\* Any other failure: the same cadence, nothing counted.
LoopThrows(l) ==
  /\ Asking(l)
  /\ loop' = GoesOn(l, loop[l].fatals, loop[l].rejections)
  /\ UNCHANGED <<session, disk, flow, current, tails, env, raced>>

\* The loop returns after the sweep and forgets its controller.
LoopEnds(l) ==
  /\ loop[l].at = "degrade" /\ sweep.at = "idle"
  /\ loop' = [loop EXCEPT ![l] = FreeLoop]
  /\ current' = IF current = l THEN None ELSE current
  /\ UNCHANGED <<session, disk, flow, tails, env, raced>>

-----------------------------------------------------------------------------
(* A completion goes out with the Copilot token of the moment.  A fatal    *)
(* rejection reaches markAuthDegraded through forwardError, however late.  *)
RequestSent(r) ==
  /\ boot = "up" /\ request[r] = "idle" /\ copilot # None
  /\ request' = [request EXCEPT ![r] = "sent"]
  /\ UNCHANGED <<session, disk, flow, loops, tails, inGrace, autoRecover, boot, raced>>

Answered(r) == request[r] = "sent" /\ request' = [request EXCEPT ![r] = "idle"]

RequestServed(r) ==
  /\ Answered(r)
  /\ UNCHANGED <<session, disk, flow, loops, tails, inGrace, autoRecover, boot, raced>>

RequestRejected(r) ==
  /\ Answered(r)
  /\ MarkAuthDegraded(loop, flow)
  /\ NoteRace({})
  /\ UNCHANGED <<auth, disk, clear, signOut, inGrace, autoRecover, boot>>

-----------------------------------------------------------------------------
(* bootstrapUpstream, awaited before the server listens                    *)
\* The active account's credential.  A legacy file is first lifted into a
\* registry without accounts, the file staying as it is.
TakesStored ==
  /\ \/ UNCHANGED registry
     \/ /\ AccountKeys(registry) = {}
        /\ \E a \in Given : registry' = addAndActivate(emptyRegistry, a, a)
  /\ github' = IF getActiveRecord(registry') = NoRecord THEN None ELSE registry'.activeKey
  /\ outside' = FALSE

\* The credential of --github-token, or the one in a legacy file that was not
\* lifted; either way the registry is as it was.
TakesGiven ==
  /\ github' \in Given
  /\ outside' = TRUE
  /\ UNCHANGED registry

BootReadsToken ==
  /\ boot = "start"
  /\ TakesStored \/ TakesGiven
  /\ boot' = IF github' = None THEN "up" ELSE "user"
  /\ UNCHANGED <<auth, copilot, userName, held, flow, loops, tails,
                 inGrace, autoRecover, request, raced>>

\* Boot comes to its end in the middle of a recovery.
NoteRecovery == raced' = (raced \/ sweep.of # None)

\* Serving unauthenticated: the GitHub token is dropped, nothing else.
BootFails ==
  /\ boot \in {"user", "mint", "models"}
  /\ github' = None /\ outside' = FALSE
  /\ auth' = SignedOut
  /\ boot' = "up"
  /\ NoteRecovery
  /\ UNCHANGED <<copilot, userName, disk, flow, loops, tails, inGrace, autoRecover, request>>

\* logUser
BootFindsUser ==
  /\ boot = "user"
  /\ boot' = "mint"
  /\ userName' = github
  /\ UNCHANGED <<auth, github, outside, copilot, disk, flow, loops, tails, inGrace, autoRecover, request, raced>>

BootMints ==
  /\ boot = "mint"
  /\ CopilotReady(github)
  /\ boot' = "models"
  /\ UNCHANGED <<auth, live, disk, flow, signOut, sweep, inGrace, autoRecover, request, raced>>

BootRejected ==
  /\ boot = "mint"
  /\ boot' = "degrade"
  /\ MarkAuthDegraded(loop, flow)
  /\ UNCHANGED <<auth, disk, clear, signOut, inGrace, autoRecover, request, raced>>

BootDegraded ==
  /\ boot = "degrade" /\ sweep.at = "idle"
  /\ boot' = "up"
  /\ UNCHANGED <<session, disk, flow, loops, tails, inGrace, autoRecover, request, raced>>

\* markSignedIn, or the degrade to unauthenticated when the identity is gone.
BootSignsIn ==
  /\ boot = "models"
  /\ boot' = "up"
  /\ IF userName # None
     THEN auth' = SignedIn(userName) /\ inGrace' = TRUE /\ UNCHANGED <<live, copilot>>
     ELSE /\ auth' = SignedOut /\ copilot' = None /\ UNCHANGED inGrace
          /\ github' = None /\ outside' = FALSE /\ UNCHANGED userName
  /\ NoteRecovery
  /\ UNCHANGED <<disk, flow, loops, tails, autoRecover, request>>

\* What accounts.json may hold when a process starts: the registries an earlier
\* process can have left, each account under its own credential.
Stored(reg) ==
  WellFormed(reg) /\ \A a \in Keys : HasAccount(reg, a) => reg.accounts[a].token = a

Init ==
  /\ auth = SignedOut /\ copilot = None
  /\ github = None /\ userName = None /\ outside = FALSE
  /\ registry \in {reg \in AccountRegistries : Stored(reg)}
  /\ held = [h \in Helpers |-> None]
  /\ inGrace = FALSE
  /\ flow = [f \in Flows |-> NewFlow]
  /\ loop = [l \in Loops |-> FreeLoop]
  /\ current = None
  /\ clear = [c \in Clears |-> "free"]
  /\ signOut = "idle" /\ sweep = NoSweep
  /\ request = [r \in Requests |-> "idle"]
  /\ autoRecover \in BOOLEAN
  /\ boot = "start"
  /\ raced = FALSE

\* The shell restarts the sidecar, or it died: only the registry outlives it.
Restart ==
  /\ boot = "up"
  /\ auth' = SignedOut /\ copilot' = None /\ NobodyIsLive
  /\ held' = [h \in Helpers |-> None]
  /\ inGrace' = FALSE
  /\ flow' = [f \in Flows |-> NewFlow]
  /\ loop' = [l \in Loops |-> FreeLoop]
  /\ current' = None
  /\ clear' = [c \in Clears |-> "free"]
  /\ signOut' = "idle" /\ sweep' = NoSweep
  /\ request' = [r \in Requests |-> "idle"]
  /\ boot' = "start"
  /\ raced' = FALSE
  /\ UNCHANGED <<registry, autoRecover>>

FlowStep(f) ==
  \/ DeviceCodeIssued(f)
  \/ DeviceCodeFails(f)
  \/ PollThrows(f)
  \/ \E a \in Keys : PollReturns(f, a)
  \/ VerifyThrows(f)
  \/ VerifyReturns(f)
  \/ AddAccountReads(f)
  \/ AddAccountThrows(f)
  \/ AddAccountWrites(f)
  \/ PollerMints(f)
  \/ PollerMintThrows(f)
  \/ PollerMintRejected(f)
  \/ PollerDegraded(f)
  \/ PollerSignsIn(f)

LoopStep(l) ==
  \/ LoopRequests(l)
  \/ LoopRefreshes(l)
  \/ LoopRejected(l)
  \/ LoopEscalates(l)
  \/ LoopThrows(l)
  \/ LoopEnds(l)

SweepStep == SweepReads \/ SweepWrites \/ RecoveryStep

ClearStep(c) == ClearReads(c) \/ ClearWrites(c)

SignOutStep == SignOutReads \/ SignOutWrites

RequestStep(r) == RequestSent(r) \/ RequestServed(r) \/ RequestRejected(r)

BootStep ==
  \/ BootReadsToken
  \/ BootFails
  \/ BootFindsUser
  \/ BootMints
  \/ BootRejected
  \/ BootDegraded
  \/ BootSignsIn

Next ==
  \/ \E f \in Flows : StartDeviceFlow(f) \/ FlowStep(f) \/ FlowExpires(f)
  \/ \E l \in Loops : LoopStep(l)
  \/ \E c \in Clears : ClearStep(c)
  \/ cancelDeviceFlow
  \/ SignOut
  \/ SignOutStep
  \/ SweepStep
  \/ \E r \in Requests : RequestStep(r)
  \/ BootStep
  \/ GraceExpires
  \/ Restart

Spec == Init /\ [][Next]_vars

\* Every await on the way settles: calls carry timeouts, the poll has the code's
\* own lifetime as a deadline, the loop's sleeps are timers, files answer or
\* fail.  Nothing obliges the user, or the process to live or die, and nothing
\* waits for a completion or for signOut's tail.
Fairness ==
  /\ \A f \in Flows : WF_vars(FlowStep(f))
  /\ \A l \in Loops : WF_vars(LoopStep(l))
  /\ \A c \in Clears : WF_vars(ClearStep(c))
  /\ WF_vars(SweepStep)
  /\ WF_vars(BootStep)

FairSpec == Spec /\ Fairness
-----------------------------------------------------------------------------
(* At most one refresh loop goes on refreshing, and it is the one that     *)
(* stopCopilotRefreshLoop would stop, through every sign-in, switch of     *)
(* account, degrade and boot (copilotRefreshLoopController, token.ts).     *)
LoopSingleton == \A l \in Loops : loop[l].at \in {"wait", "mint"} => l = current

(* A pending flow that nobody aborted has its poller at work: the user is  *)
(* never shown a code that no poller is waiting on ("the existing one is   *)
(* still running", startDeviceFlow).                                       *)
PendingFlowIsPolled ==
  CurrentFlow # None /\ ~flow[CurrentFlow].aborted
    => flow[CurrentFlow].at \notin {"new", "code", "done"}

(* Whoever holds the registry, the active pointer on disk never dangles.   *)
ActiveIsStored == WellFormed(registry)

(* Types; the bearer has one keeper; a pending flow has its poller; the    *)
(* pointer on disk names an account that is there.                         *)
SessionInvariant ==
  /\ TypeOK
  /\ LoopSingleton
  /\ PendingFlowIsPolled
  /\ ActiveIsStored

(* A poller aborted before it stored its account leaves the session that   *)
(* is shown, its tokens and the registry as they are: "don't persist/expose *)
(* a token the user cleared" (runPoller).  Not so state.userName, which    *)
(* the account lookup sets before the signal is read again.                *)
AbortedFlowIsSilent ==
  [][\A f \in Flows :
       /\ flow[f].aborted /\ flow[f].at \in {"poll", "verify"}
       /\ flow'[f].at # flow[f].at
       => \/ flow'[f].at = "done" /\ UNCHANGED <<auth, github, copilot, registry>>
          \/ boot' = "start"]_vars

(* A refresh loop gives a credential up only after MaxFatal rejections in  *)
(* a row, counted from its last success: "never tear down a session on     *)
(* one 401" (runCopilotRefreshLoop).                                       *)
EscalatesOnlyWhenPersistent ==
  \A l \in Loops : loop[l].at = "degrade" => loop[l].rejections = MaxFatal

(* No rejection ends a session in the grace window after a boot signed in: *)
(* "don't tear down the freshly-recovered/just-signed-in session"          *)
(* (markAuthDegraded); only the user may sign out of it.  A recovery that  *)
(* was trying a candidate when boot signed in may still drop that one.     *)
NoSweepInGrace ==
  [][(inGrace /\ sweep.of = None /\ github # None /\ github' = None)
     => auth'.kind = "signed-out"]_vars

\* Nothing is under way but sleeping loops and flows the user has not approved.
Quiet == boot = "up" /\ ~Settling({})

(* Unless operations overlapped, a session shown as signed in to an        *)
(* account runs on that account's credential, and it is the account the    *)
(* next boot will read from disk, whatever failed on the way there; only   *)
(* the credential a boot was given (--github-token, a legacy file that     *)
(* was not lifted) is not looked for in the registry.                      *)
SignedInIsBacked ==
  auth.kind = "signed-in" /\ Quiet /\ ~raced
    => github = auth.of /\ (registry.activeKey = auth.of \/ outside)

(* An additional sign-in that is cancelled, denied or expires puts the     *)
(* user back on the account whose credential is still live, and nobody is  *)
(* put back on one that is gone (captureResumeTarget, flowFailureState).   *)
AbandonedFlowResumes ==
  [][(/\ CurrentFlow # None /\ flow[CurrentFlow].at \in {"poll", "verify"}
      /\ auth'.kind # "polling" /\ ~raced')
     => IF github' # None THEN auth' = SignedIn(github')
                          ELSE auth'.kind # "signed-in"]_vars

(* Every poller comes to an end, through mints, sweeps and failures: "so   *)
(* `polling` always terminates" (pollAccessToken).                         *)
PollerTerminates ==
  \A f \in Flows : flow[f].at \notin {"new", "done"} ~> flow[f].at \in {"new", "done"}

(* A credential given up is soon admitted: once the tokens are dropped and *)
(* nothing else raced, the user is not left looking at a live session      *)
(* (runDegrade ends in the error state, every bootstrap exit sets one).    *)
DegradeIsShown ==
  auth.kind = "signed-in" /\ github = None /\ ~raced
    ~> auth.kind # "signed-in" \/ github # None \/ raced
=============================================================================
