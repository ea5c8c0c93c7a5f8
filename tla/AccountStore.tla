---------------------------- MODULE AccountStore ----------------------------
(***************************************************************************)
(* accounts.json and the legacy github_token file as the sidecar's         *)
(* asynchronous helpers read and write them.                               *)
(*                                                                         *)
(* Every helper of github-token-store.ts reads the registry, computes a    *)
(* new one and, in a LATER turn of the event loop, writes it with          *)
(* writeJsonAtomic: writeFile to `<file>.tmp.<pid>`, then rename.  The     *)
(* temporary name is the same for every write of one process, so two       *)
(* helpers in flight share it.  An open descriptor follows its file        *)
(* through a rename, which `fd` keeps track of.                            *)
(*                                                                         *)
(* The boot sequence (migrateLegacyRecord, then readDefaultRecord) and a   *)
(* crash at any point are part of the model; a helper is an element of     *)
(* Ops, so |Ops| is how many may be in flight at once.                     *)
(***************************************************************************)
EXTENDS AccountRegistry

CONSTANTS
  Ops,      \* slots for helpers in flight
  NoToken,  \* no credential: an absent or blank legacy file
  NoFile,   \* no temporary file under this process's name
  Torn      \* a file that was truncated and not yet written

ASSUME NoTokenAssumption == NoToken \notin Tokens /\ NoToken # NoRecord

ASSUME FileAssumption ==
  /\ NoFile \notin AccountRegistries
  /\ Torn \notin AccountRegistries
  /\ NoFile # Torn

VARIABLES
  file,       \* content of accounts.json (absent reads as emptyRegistry)
  tmp,        \* content of accounts.json.tmp.<pid>
  legacy,     \* the credential in the legacy single-record file
  sidecar,    \* "down", "booting" or "up"
  bootToken,  \* what readDefaultRecord gave the running session at boot
  pc, kind, key, token,  \* the helper in each slot and its arguments
  reg,        \* the registry that helper will write
  fd,         \* the file its open descriptor refers to
  failed,     \* history: one of the helper's writes threw
  signedOut   \* history: a sign-out completed and nothing was activated since

files == <<file, tmp, legacy>>
ops   == <<pc, kind, key, token, reg, fd, failed>>
storeVars == <<files, sidecar, bootToken, ops, signedOut>>

Keyed      == {"add", "flag", "recover", "switch", "remove"}
Keyless    == {"signOut", "flagActive", "clearActive"}
Activating == {"add", "recover", "switch"}
Kinds      == Keyed \cup Keyless \cup {"migrate"}

Contents == AccountRegistries \cup {Torn}

StoreTypeOK ==
  /\ file \in Contents
  /\ tmp \in Contents \cup {NoFile}
  /\ legacy \in Tokens \cup {NoToken}
  /\ sidecar \in {"down", "booting", "up"}
  /\ bootToken \in Tokens \cup {NoToken}
  /\ pc \in [Ops -> {"idle", "read", "preflight", "open", "write", "rename",
                     "unlink", "load"}]
  /\ kind \in [Ops -> Kinds]
  /\ key \in [Ops -> Keys \cup {NoKey}]
  /\ token \in [Ops -> Tokens \cup {NoToken}]
  /\ reg \in [Ops -> AccountRegistries]
  /\ fd \in [Ops -> {"none", "tmp", "file", "gone"}]
  /\ failed \in [Ops -> BOOLEAN]
  /\ signedOut \in BOOLEAN

\* readRegistry: an absent, empty or corrupt file is "no accounts"
readRegistry(content) == IF content = Torn THEN emptyRegistry ELSE content

\* readDefaultRecord: the active account's credential, else the legacy file's
readDefaultRecord(r) ==
  IF getActiveRecord(r) # NoRecord THEN getActiveRecord(r).token ELSE legacy

-----------------------------------------------------------------------------
(* What each helper writes over the registry `r` it read.                  *)
Written(k, a, t, r) ==
  CASE k = "add"         -> addAndActivate(r, a, t)
    [] k = "signOut"     -> deactivate(r)
    [] k = "flagActive"  -> markNeedsReauth(r, r.activeKey)
    [] k = "clearActive" -> clearNeedsReauth(r, r.activeKey)
    [] k = "flag"        -> markNeedsReauth(r, a)
    [] k = "recover"     -> clearNeedsReauth(setActive(r, a), a)
    [] k = "switch"      -> setActive(r, a)
    [] k = "remove"      -> removeAccount(r, a)
    [] k = "migrate"     -> addAndActivate(emptyRegistry, a, legacy)

(* Mutated form: the migration also runs over a registry with accounts.    *)
MigrationDone_Ungated(r) == legacy = NoToken

(* The legacy credential is lifted only into a registry with no accounts.  *)
MigrationDone(r) == AccountKeys(r) # {} \/ legacy = NoToken

(* When a helper returns (or answers 404) without writing.                 *)
Skips(k, a, r) ==
  \/ k \in Keyless /\ r.activeKey = NoKey
  \/ k = "clearActive" /\ clearNeedsReauth(r, r.activeKey) = r
  \/ k \in {"switch", "remove"} /\ ~HasAccount(r, a)
  \/ k = "migrate" /\ MigrationDone(r)

(* Where a helper goes on once its write is over, done or thrown.          *)
AfterWrite(k) ==
  CASE k = "signOut" -> "unlink" [] k = "migrate" -> "load" [] OTHER -> "idle"
-----------------------------------------------------------------------------
StoreInit ==
  /\ file = emptyRegistry
  /\ tmp = NoFile
  /\ legacy \in Tokens \cup {NoToken}
  /\ sidecar = "down"
  /\ bootToken = NoToken
  /\ pc = [p \in Ops |-> "idle"]
  /\ kind = [p \in Ops |-> "add"]
  /\ key = [p \in Ops |-> NoKey]
  /\ token = [p \in Ops |-> NoToken]
  /\ reg = [p \in Ops |-> emptyRegistry]
  /\ fd = [p \in Ops |-> "none"]
  /\ failed = [p \in Ops |-> FALSE]
  /\ signedOut = FALSE

Start(p, k, a, t) ==
  /\ pc[p] = "idle"
  /\ pc' = [pc EXCEPT ![p] = "read"]
  /\ kind' = [kind EXCEPT ![p] = k]
  /\ key' = [key EXCEPT ![p] = a]
  /\ token' = [token EXCEPT ![p] = t]
  /\ failed' = [failed EXCEPT ![p] = FALSE]
  /\ UNCHANGED <<files, reg, fd, signedOut>>

\* bootstrapUpstream, awaited before the server takes requests: the migration
\* under the login the lookup resolves, then the token the session runs with.
Boot(p, a) ==
  /\ sidecar = "down"
  /\ sidecar' = "booting"
  /\ Start(p, "migrate", a, NoToken)
  /\ UNCHANGED bootToken

LoadBootToken(p) ==
  /\ pc[p] = "load"
  /\ bootToken' = readDefaultRecord(readRegistry(file))
  /\ sidecar' = "up"
  /\ pc' = [pc EXCEPT ![p] = "idle"]
  /\ UNCHANGED <<files, kind, key, token, reg, fd, failed, signedOut>>

\* A helper starts: a sign-in adds an account, the settings routes switch and
\* remove one, a mint or a rejection clears or sets a flag, ...
StartAdd(p, a, t) ==
  sidecar = "up" /\ Start(p, "add", a, t) /\ UNCHANGED <<sidecar, bootToken>>

StartKeyed(p, k, a) ==
  /\ sidecar = "up"
  /\ Start(p, k, a, NoToken)
  /\ UNCHANGED <<sidecar, bootToken>>

\* ... and signOut clears the live token before it deactivates on disk.
StartKeyless(p, k) ==
  /\ sidecar = "up"
  /\ Start(p, k, NoKey, NoToken)
  /\ bootToken' = IF k = "signOut" THEN NoToken ELSE bootToken
  /\ UNCHANGED sidecar

Read(p) ==
  LET r == readRegistry(file) IN
  /\ pc[p] = "read"
  /\ IF Skips(kind[p], key[p], r)
     THEN /\ pc' = [pc EXCEPT ![p] = AfterWrite(kind[p])]
          /\ UNCHANGED reg
     ELSE /\ pc' = [pc EXCEPT ![p] =
                      IF kind[p] = "switch" THEN "preflight" ELSE "open"]
          /\ reg' = [reg EXCEPT ![p] = Written(kind[p], key[p], token[p], r)]
  /\ UNCHANGED <<files, sidecar, bootToken, kind, key, token, fd, failed, signedOut>>

\* /accounts/switch asks Copilot about the target between its read and its write.
Preflight(p) ==
  /\ pc[p] = "preflight"
  /\ \E next \in {"open", "idle"} : pc' = [pc EXCEPT ![p] = next]
  /\ UNCHANGED <<files, sidecar, bootToken, kind, key, token, reg, fd, failed, signedOut>>

(* Mutated form: writeFile straight onto the target.                       *)
OpenTmp_InPlace(p) ==
  /\ pc[p] = "open"
  /\ file' = Torn
  /\ tmp' = Torn
  /\ fd' = [fd EXCEPT ![p] = "file"]
  /\ pc' = [pc EXCEPT ![p] = "write"]
  /\ UNCHANGED <<legacy, sidecar, bootToken, kind, key, token, reg, failed, signedOut>>

\* writeFile(tmp): open with O_TRUNC ...
OpenTmp(p) ==
  /\ pc[p] = "open"
  /\ tmp' = Torn
  /\ fd' = [fd EXCEPT ![p] = "tmp"]
  /\ pc' = [pc EXCEPT ![p] = "write"]
  /\ UNCHANGED <<file, legacy, sidecar, bootToken, kind, key, token, reg, failed, signedOut>>

\* ... then write through the descriptor, wherever its file is linked by now.
WriteTmp(p) ==
  /\ pc[p] = "write"
  /\ tmp' = IF fd[p] = "tmp" THEN reg[p] ELSE tmp
  /\ file' = IF fd[p] = "file" THEN reg[p] ELSE file
  /\ fd' = [fd EXCEPT ![p] = "none"]
  /\ pc' = [pc EXCEPT ![p] = "rename"]
  /\ UNCHANGED <<legacy, sidecar, bootToken, kind, key, token, reg, failed, signedOut>>

Finish(p) == pc' = [pc EXCEPT ![p] = AfterWrite(kind[p])]

\* rename(tmp, accounts.json): other open descriptors move with their files.
Rename(p) ==
  /\ pc[p] = "rename"
  /\ tmp # NoFile
  /\ file' = tmp
  /\ tmp' = NoFile
  /\ fd' = [q \in Ops |-> CASE fd[q] = "file" -> "gone"
                            [] fd[q] = "tmp"  -> "file"
                            [] OTHER          -> fd[q]]
  /\ Finish(p)
  /\ signedOut' = (signedOut /\ kind[p] \notin Activating)
  /\ UNCHANGED <<legacy, sidecar, bootToken, kind, key, token, reg, failed>>

\* writeFile throws, before or after it created the file, or rename finds
\* nothing under the temporary name: the helper rejects, its caller goes on.
WriteFails(p) ==
  /\ \/ pc[p] \in {"open", "write"}
     \/ pc[p] = "rename" /\ tmp = NoFile
  /\ failed' = [failed EXCEPT ![p] = TRUE]
  /\ fd' = [fd EXCEPT ![p] = "none"]
  /\ Finish(p)
  /\ UNCHANGED <<files, sidecar, bootToken, kind, key, token, reg, signedOut>>

(* Mutated form: signOut that leaves the legacy file in place.             *)
Unlink_KeepsLegacy(p) ==
  /\ pc[p] = "unlink"
  /\ pc' = [pc EXCEPT ![p] = "idle"]
  /\ signedOut' = (signedOut \/ ~failed[p])
  /\ UNCHANGED <<files, sidecar, bootToken, kind, key, token, reg, fd, failed>>

\* signOut's last step: unlink the legacy file, tolerating a failure.
Unlink(p) ==
  /\ pc[p] = "unlink"
  /\ pc' = [pc EXCEPT ![p] = "idle"]
  /\ \/ /\ legacy' = NoToken
        /\ signedOut' = (signedOut \/ ~failed[p])
     \/ UNCHANGED <<legacy, signedOut>>
  /\ UNCHANGED <<file, tmp, sidecar, bootToken, kind, key, token, reg, fd, failed>>

\* The process ends at any point; the next one has another temporary name.
Crash ==
  /\ sidecar # "down"
  /\ sidecar' = "down"
  /\ bootToken' = NoToken
  /\ tmp' = NoFile
  /\ pc' = [p \in Ops |-> "idle"]
  /\ fd' = [p \in Ops |-> "none"]
  /\ UNCHANGED <<file, legacy, kind, key, token, reg, failed, signedOut>>

StoreNext ==
  \/ \E p \in Ops :
       \/ \E a \in Keys : Boot(p, a)
       \/ LoadBootToken(p)
       \/ \E a \in Keys, t \in Tokens : StartAdd(p, a, t)
       \/ \E a \in Keys, k \in Keyed \ {"add"} : StartKeyed(p, k, a)
       \/ \E k \in Keyless : StartKeyless(p, k)
       \/ Read(p)
       \/ Preflight(p)
       \/ OpenTmp(p)
       \/ WriteTmp(p)
       \/ Rename(p)
       \/ WriteFails(p)
       \/ Unlink(p)
  \/ Crash

StoreSpec == StoreInit /\ [][StoreNext]_storeVars
-----------------------------------------------------------------------------
(* The live file is never empty or half-written, whenever the process      *)
(* dies: what "the atomic temp+rename write rules out a corrupt/torn file  *)
(* regardless" (github-token-store.ts) says of writeJsonAtomic.            *)
NeverTorn == file # Torn

(* Whatever overlaps, fails or crashes, the active pointer on disk never   *)
(* names an account that is not there (setActive and removeAccount of      *)
(* github-token-store.ts, over registries read at any earlier moment).     *)
NoDanglingActive == file \in AccountRegistries => WellFormed(file)

(* Types, and NoDanglingActive: whoever reads accounts.json finds a        *)
(* registry that the rest of the program can use (github-token-store.ts).  *)
StoreInvariant == StoreTypeOK /\ NoDanglingActive

(* Failure is not deletion: the credential stored for an account changes   *)
(* only when a helper that adds, migrates or removes THAT account renames  *)
(* its file, never through a flag, a switch, a sign-out or a stale write.  *)
CredentialKept ==
  [][\A a \in Keys :
       Credential(readRegistry(file'), a) # Credential(readRegistry(file), a)
         => \E p \in Ops : /\ kind[p] \in {"add", "migrate", "remove"}
                           /\ key[p] = a
                           /\ pc[p] = "rename" /\ pc'[p] # "rename"]_storeVars

(* After a sign-out that met no error, and until an account is activated,  *)
(* no boot finds a credential: neither the registry, nor the legacy file,  *)
(* nor a migration of it brings the session back.                          *)
SignOutSticks == signedOut => bootToken = NoToken

(* Read, compute, write to a temporary file, rename: through failures and  *)
(* crashes at any of these points the registry a reader finds changes by   *)
(* one whole operation of AtomicAccounts, or not at all.                   *)
Atomic == INSTANCE AtomicAccounts WITH registry <- readRegistry(file)

ImplementsAtomic == Atomic!Spec
=============================================================================
