-------------------------- MODULE Accounts_proofs --------------------------
(***************************************************************************)
(* The account store, and the session that runs on it.  Both rest on the   *)
(* same lemmas about the registry, which come first.                       *)
(*                                                                         *)
(* AccountStore, for any number of helpers in flight, accounts and         *)
(* credentials: the types hold and the active pointer on disk never        *)
(* dangles, although helpers overwrite each other and write through shared *)
(* files.  NoDanglingActive alone is not inductive: the next file is what  *)
(* a helper holds or what lies under the temporary name, so the invariant  *)
(* says of all three that they are sound, and of a helper that its         *)
(* arguments suit its kind.  Then, with one helper at a time: the file is  *)
(* never torn, a sign-out sticks, credentials are kept and the store       *)
(* implements AtomicAccounts, because what a helper read is still what the *)
(* file says when it writes (SoleInv).                                     *)
(*                                                                         *)
(* AuthController, for any number of accounts, flows, refresh loops, flag  *)
(* clears and completions, with the recovery on or off, and across         *)
(* restarts.  SessionInvariant does not keep itself.  That the pointer on  *)
(* disk never dangles needs what every helper that is about to write has   *)
(* read (HeldOK) and whose account it writes (CarriedOK).  That a loop     *)
(* gives up after MaxFatal rejections needs the budget of the loops that   *)
(* still ask (LoopsOK).  That a pending flow has its poller needs why the  *)
(* poller of the pending flow may leave markAuthDegraded: the grace window *)
(* never covers a flow past its poll, and a sweep that ends replaces the   *)
(* pending state (FlowsOK).  That the grace window keeps the session needs *)
(* that a sweep is never at the places where it drops one (BootOK).        *)
(*                                                                         *)
(* The last part is about the histories in which no two operations that    *)
(* read and later write the session overlapped (raced).  There the state   *)
(* shown, the live credential and the pointer on disk agree (RaceInv).     *)
(***************************************************************************)
EXTENDS AccountStore, AuthController, TLAPS

-----------------------------------------------------------------------------
(* What the pure operations of github-token-store.ts return: a registry,   *)
(* and a well-formed one when they are given one.                          *)

\* The registries whose active pointer does not dangle
Sound == {r \in AccountRegistries : WellFormed(r)}

LEMMA EmptySound == emptyRegistry \in Sound
  BY DEF Sound, AccountRegistries, emptyRegistry, WellFormed

LEMMA AddSound ==
  ASSUME NEW r \in AccountRegistries, NEW k \in Keys, NEW t \in Tokens
  PROVE  addAndActivate(r, k, t) \in Sound
<1> DEFINE rec == makeAccountRecord(t)
           new == addAndActivate(r, k, t)
<1>1. rec \in AccountRecord /\ rec # NoRecord
  <2>1. rec \in AccountRecord
    BY DEF makeAccountRecord, AccountRecord
  <2> QED
    BY <2>1, NoRecordAssumption
<1>2. new.accounts = [r.accounts EXCEPT ![k] = rec] /\ new.activeKey = k
  BY DEF addAndActivate
<1>3. new \in AccountRegistries
  BY <1>1 DEF addAndActivate, AccountRegistries
<1>4. new.accounts[k] = rec
  BY <1>2 DEF AccountRegistries
<1> QED
  BY <1>1, <1>2, <1>3, <1>4 DEF Sound, WellFormed, HasAccount

LEMMA SetActiveSound ==
  ASSUME NEW r \in Sound, NEW k \in Keys
  PROVE  setActive(r, k) \in Sound
  BY DEF Sound, AccountRegistries, WellFormed, HasAccount, setActive

LEMMA RemoveSound ==
  ASSUME NEW r \in Sound, NEW k \in Keys
  PROVE  removeAccount(r, k) \in Sound
<1> DEFINE new == removeAccount(r, k)
<1>1. new \in AccountRegistries
  BY DEF removeAccount, Sound, AccountRegistries
<1>2. WellFormed(new)
  <2>1. CASE r.activeKey = k \/ r.activeKey = NoKey
    BY <2>1 DEF removeAccount, WellFormed
  <2>2. CASE r.activeKey # k /\ r.activeKey # NoKey
    BY <2>2 DEF removeAccount, WellFormed, HasAccount, Sound, AccountRegistries
  <2> QED
    BY <2>1, <2>2
<1> QED
  BY <1>1, <1>2 DEF Sound

LEMMA DeactivateSound ==
  ASSUME NEW r \in Sound
  PROVE  deactivate(r) \in Sound
  BY DEF deactivate, Sound, AccountRegistries, WellFormed

LEMMA FlagSound ==
  ASSUME NEW r \in Sound, NEW k \in Keys, NEW flag \in BOOLEAN
  PROVE  flagAccount(r, k, flag) \in Sound
<1> DEFINE new == flagAccount(r, k, flag)
<1>1. CASE ~HasAccount(r, k)
  BY <1>1 DEF flagAccount
<1>2. CASE HasAccount(r, k)
  <2> DEFINE rec == [token |-> r.accounts[k].token, needsReauth |-> flag]
  <2>1. r.accounts[k] \in AccountRecord
    BY <1>2 DEF HasAccount, Sound, AccountRegistries
  <2>2. rec \in AccountRecord /\ rec # NoRecord
    <3>1. rec \in AccountRecord
      BY <2>1 DEF AccountRecord
    <3> QED
      BY <3>1, NoRecordAssumption
  <2>3. new = [r EXCEPT !.accounts = [r.accounts EXCEPT ![k] = rec]]
    BY <1>2 DEF flagAccount, Sound, AccountRegistries
  <2>4. new \in AccountRegistries
    BY <2>2, <2>3 DEF Sound, AccountRegistries
  <2>5. WellFormed(new)
    BY <2>2, <2>3 DEF WellFormed, HasAccount, Sound, AccountRegistries
  <2> QED
    BY <2>4, <2>5 DEF Sound
<1> QED
  BY <1>1, <1>2

-----------------------------------------------------------------------------
(* What each operation does to the stored credentials and to the pointer.  *)
LEMMA AddCredential ==
  ASSUME NEW r \in AccountRegistries, NEW k \in Keys, NEW t \in Tokens,
         NEW other \in Keys, other # k
  PROVE  Credential(addAndActivate(r, k, t), other) = Credential(r, other)
  BY DEF addAndActivate, AccountRegistries, Credential, HasAccount

LEMMA RemoveCredential ==
  ASSUME NEW r \in AccountRegistries, NEW k \in Keys,
         NEW other \in Keys, other # k
  PROVE  Credential(removeAccount(r, k), other) = Credential(r, other)
  BY DEF removeAccount, AccountRegistries, Credential, HasAccount

LEMMA SetActiveCredential ==
  ASSUME NEW r \in AccountRegistries, NEW k, NEW other \in Keys
  PROVE  Credential(setActive(r, k), other) = Credential(r, other)
  BY DEF setActive, AccountRegistries, Credential, HasAccount

LEMMA DeactivateCredential ==
  ASSUME NEW r \in AccountRegistries, NEW other \in Keys
  PROVE  Credential(deactivate(r), other) = Credential(r, other)
  BY DEF deactivate, AccountRegistries, Credential, HasAccount

LEMMA FlagCredential ==
  ASSUME NEW r \in AccountRegistries, NEW k \in Keys, NEW flag \in BOOLEAN,
         NEW other \in Keys
  PROVE  /\ Credential(flagAccount(r, k, flag), other) = Credential(r, other)
         /\ flagAccount(r, k, flag).activeKey = r.activeKey
<1> DEFINE new == flagAccount(r, k, flag)
<1>1. CASE ~HasAccount(r, k)
  BY <1>1 DEF flagAccount
<1>2. CASE HasAccount(r, k)
  <2> DEFINE rec == [token |-> r.accounts[k].token, needsReauth |-> flag]
  <2>1. rec # NoRecord /\ r.accounts[k] # NoRecord
    <3>1. r.accounts[k] \in AccountRecord
      BY <1>2 DEF HasAccount, AccountRegistries
    <3>2. rec \in AccountRecord
      BY <3>1 DEF AccountRecord
    <3> QED
      BY <1>2, <3>2, NoRecordAssumption DEF HasAccount
  <2>2. /\ new.accounts = [r.accounts EXCEPT ![k] = rec]
        /\ new.activeKey = r.activeKey
    BY <1>2 DEF flagAccount, AccountRegistries
  <2>3. CASE other = k
    <3>1. new.accounts[other] = rec /\ rec.token = r.accounts[other].token
      BY <2>2, <2>3 DEF AccountRegistries
    <3> QED
      BY <2>1, <2>2, <2>3, <3>1 DEF Credential, HasAccount
  <2>4. CASE other # k
    BY <2>2, <2>4 DEF Credential, HasAccount, AccountRegistries
  <2> QED
    BY <2>2, <2>3, <2>4
<1> QED
  BY <1>1, <1>2

-----------------------------------------------------------------------------
(* The store: its inductive invariant.                                     *)

ArgsOK ==
  \A p \in Ops : pc[p] # "idle" =>
    /\ kind[p] \in Keyed \cup {"migrate"} => key[p] \in Keys
    /\ kind[p] = "add" => token[p] \in Tokens

StoreSound ==
  /\ file \in Sound \cup {Torn}
  /\ tmp \in Sound \cup {Torn, NoFile}
  /\ reg \in [Ops -> Sound]

IInv == StoreTypeOK /\ ArgsOK /\ StoreSound

LEMMA SoundIsRegistry == Sound \subseteq AccountRegistries
  BY DEF Sound

LEMMA ReadSound ==
  ASSUME NEW content \in Sound \cup {Torn}
  PROVE  readRegistry(content) \in Sound
<1>1. Torn \notin Sound
  BY SoundIsRegistry, FileAssumption
<1> QED
  BY <1>1, EmptySound DEF readRegistry

(* Whatever a helper read, what it goes on to write is sound.              *)
LEMMA WrittenSound ==
  ASSUME NEW k \in Kinds, NEW a \in Keys \cup {NoKey}, NEW t \in Tokens \cup {NoToken},
         NEW r \in Sound,
         legacy \in Tokens \cup {NoToken},
         k \in Keyed \cup {"migrate"} => a \in Keys,
         k = "add" => t \in Tokens,
         ~Skips(k, a, r)
  PROVE  Written(k, a, t, r) \in Sound
<1>1. r \in AccountRegistries /\ (r.activeKey # NoKey => r.activeKey \in Keys)
  BY SoundIsRegistry DEF AccountRegistries
<1>2. CASE k = "add"
  <2>1. a \in Keys /\ t \in Tokens
    BY <1>2 DEF Keyed
  <2> QED
    BY <1>1, <1>2, <2>1, AddSound DEF Written
<1>3. CASE k = "signOut"
  BY <1>3, DeactivateSound DEF Written
<1>4. CASE k = "flagActive"
  <2>1. r.activeKey \in Keys
    BY <1>1, <1>4 DEF Skips, Keyless
  <2> QED
    BY <1>4, <2>1, FlagSound DEF Written, markNeedsReauth
<1>5. CASE k = "clearActive"
  <2>1. r.activeKey \in Keys
    BY <1>1, <1>5 DEF Skips, Keyless
  <2> QED
    BY <1>5, <2>1, FlagSound DEF Written, clearNeedsReauth
<1>6. CASE k = "flag"
  <2>1. a \in Keys
    BY <1>6 DEF Keyed
  <2> QED
    BY <1>6, <2>1, FlagSound DEF Written, markNeedsReauth
<1>7. CASE k = "recover"
  <2>1. a \in Keys
    BY <1>7 DEF Keyed
  <2>2. setActive(r, a) \in Sound
    BY <2>1, SetActiveSound
  <2> QED
    BY <1>7, <2>1, <2>2, FlagSound DEF Written, clearNeedsReauth
<1>8. CASE k = "switch"
  <2>1. a \in Keys
    BY <1>8 DEF Keyed
  <2> QED
    BY <1>8, <2>1, SetActiveSound DEF Written
<1>9. CASE k = "remove"
  <2>1. a \in Keys
    BY <1>9 DEF Keyed
  <2> QED
    BY <1>9, <2>1, RemoveSound DEF Written
<1>10. CASE k = "migrate"
  <2>1. a \in Keys
    BY <1>10
  <2>2. legacy \in Tokens
    BY <1>10 DEF Skips, MigrationDone
  <2>3. emptyRegistry \in AccountRegistries
    BY EmptySound, SoundIsRegistry
  <2> QED
    BY <1>10, <2>1, <2>2, <2>3, AddSound DEF Written
<1> QED
  BY <1>2, <1>3, <1>4, <1>5, <1>6, <1>7, <1>8, <1>9, <1>10 DEF Kinds, Keyed, Keyless

LEMMA InitIInv == StoreInit => IInv
<1> SUFFICES ASSUME StoreInit PROVE IInv
  OBVIOUS
<1>1. emptyRegistry \in Sound /\ emptyRegistry \in AccountRegistries
  BY EmptySound, SoundIsRegistry
<1>2. StoreTypeOK
  BY <1>1 DEF StoreInit, StoreTypeOK, Contents, Kinds, Keyed
<1>3. ArgsOK
  BY DEF StoreInit, ArgsOK
<1>4. StoreSound
  BY <1>1 DEF StoreInit, StoreSound
<1> QED
  BY <1>2, <1>3, <1>4 DEF IInv

(* A helper starts: its arguments suit its kind, the files are untouched.  *)
LEMMA StartIInv ==
  ASSUME IInv, NEW p \in Ops, NEW k \in Kinds, NEW a \in Keys \cup {NoKey},
         NEW t \in Tokens \cup {NoToken},
         k \in Keyed \cup {"migrate"} => a \in Keys,
         k = "add" => t \in Tokens,
         Start(p, k, a, t),
         sidecar' \in {"down", "booting", "up"},
         bootToken' \in Tokens \cup {NoToken}
  PROVE  IInv'
<1> USE DEF Start, files
<1>1. StoreTypeOK'
  BY DEF IInv, StoreTypeOK
<1>2. ArgsOK'
  BY DEF IInv, StoreTypeOK, ArgsOK
<1>3. StoreSound'
  BY DEF IInv, StoreSound
<1> QED
  BY <1>1, <1>2, <1>3 DEF IInv

LEMMA NextIInv == IInv /\ [StoreNext]_storeVars => IInv'
<1> SUFFICES ASSUME IInv, [StoreNext]_storeVars PROVE IInv'
  OBVIOUS
<1>0. StoreTypeOK /\ ArgsOK /\ StoreSound
  BY DEF IInv
<1>1. ASSUME NEW p \in Ops, NEW a \in Keys, Boot(p, a) PROVE IInv'
  <2>1. /\ Start(p, "migrate", a, NoToken)
        /\ sidecar' = "booting" /\ bootToken' = bootToken
    BY <1>1 DEF Boot
  <2> QED
    BY <1>0, <2>1, StartIInv DEF Kinds, StoreTypeOK
<1>2. ASSUME NEW p \in Ops, LoadBootToken(p) PROVE IInv'
  <2>1. readRegistry(file) \in Sound
    BY <1>0, ReadSound DEF StoreSound
  <2>2. readDefaultRecord(readRegistry(file)) \in Tokens \cup {NoToken}
    <3> DEFINE r == readRegistry(file)
    <3>1. r \in AccountRegistries
      BY <2>1, SoundIsRegistry
    <3>2. getActiveRecord(r) \in AccountRecord \cup {NoRecord}
      BY <3>1 DEF getActiveRecord, AccountRegistries
    <3>3. getActiveRecord(r) # NoRecord => getActiveRecord(r).token \in Tokens
      BY <3>2 DEF AccountRecord
    <3> QED
      BY <1>0, <3>3 DEF readDefaultRecord, StoreTypeOK
  <2>3. StoreTypeOK'
    BY <1>0, <1>2, <2>2 DEF LoadBootToken, StoreTypeOK, files
  <2>4. ArgsOK'
    BY <1>0, <1>2 DEF LoadBootToken, StoreTypeOK, ArgsOK
  <2>5. StoreSound'
    BY <1>0, <1>2 DEF LoadBootToken, StoreSound, files
  <2> QED
    BY <2>3, <2>4, <2>5 DEF IInv
<1>3. ASSUME NEW p \in Ops, NEW a \in Keys, NEW t \in Tokens, StartAdd(p, a, t) PROVE IInv'
  <2>1. Start(p, "add", a, t) /\ sidecar' = sidecar /\ bootToken' = bootToken
    BY <1>3 DEF StartAdd
  <2> QED
    BY <1>0, <2>1, StartIInv DEF Kinds, Keyed, StoreTypeOK
<1>4. ASSUME NEW p \in Ops, NEW a \in Keys, NEW k \in Keyed \ {"add"}, StartKeyed(p, k, a)
      PROVE IInv'
  <2>1. Start(p, k, a, NoToken) /\ sidecar' = sidecar /\ bootToken' = bootToken
    BY <1>4 DEF StartKeyed
  <2> QED
    BY <1>0, <2>1, StartIInv DEF Kinds, StoreTypeOK
<1>5. ASSUME NEW p \in Ops, NEW k \in Keyless, StartKeyless(p, k) PROVE IInv'
  <2>1. Start(p, k, NoKey, NoToken) /\ sidecar' = sidecar
        /\ bootToken' \in Tokens \cup {NoToken}
    BY <1>0, <1>5 DEF StartKeyless, StoreTypeOK
  <2>2. k \in Kinds /\ k \notin Keyed \cup {"migrate"} /\ k # "add"
    BY DEF Kinds, Keyed, Keyless
  <2> QED
    BY <1>0, <2>1, <2>2, StartIInv DEF StoreTypeOK
<1>6. ASSUME NEW p \in Ops, Read(p) PROVE IInv'
  <2> DEFINE r == readRegistry(file)
             w == Written(kind[p], key[p], token[p], r)
  <2>1. r \in Sound
    BY <1>0, ReadSound DEF StoreSound
  <2>2. pc[p] = "read"
    BY <1>6 DEF Read
  <2>3. CASE Skips(kind[p], key[p], r)
    <3>1. pc' = [pc EXCEPT ![p] = AfterWrite(kind[p])] /\ reg' = reg
      BY <1>6, <2>3 DEF Read
    <3>2. AfterWrite(kind[p]) \in {"idle", "unlink", "load"}
      BY DEF AfterWrite
    <3>3. StoreTypeOK'
      BY <1>0, <1>6, <3>1, <3>2 DEF Read, StoreTypeOK, files
    <3>4. ArgsOK'
      BY <1>0, <1>6, <2>2, <3>1 DEF Read, StoreTypeOK, ArgsOK
    <3>5. StoreSound'
      BY <1>0, <1>6, <3>1 DEF Read, StoreSound, files
    <3> QED
      BY <3>3, <3>4, <3>5 DEF IInv
  <2>4. CASE ~Skips(kind[p], key[p], r)
    <3>1. PICK next \in {"preflight", "open"} : pc' = [pc EXCEPT ![p] = next]
      BY <1>6, <2>4 DEF Read
    <3>2. reg' = [reg EXCEPT ![p] = w]
      BY <1>6, <2>4 DEF Read
    <3>3. w \in Sound
      <4>1. /\ kind[p] \in Kinds /\ key[p] \in Keys \cup {NoKey}
            /\ token[p] \in Tokens \cup {NoToken} /\ legacy \in Tokens \cup {NoToken}
        BY <1>0 DEF StoreTypeOK
      <4>2. /\ kind[p] \in Keyed \cup {"migrate"} => key[p] \in Keys
            /\ kind[p] = "add" => token[p] \in Tokens
        BY <1>0, <2>2 DEF ArgsOK
      <4> HIDE DEF r
      <4> QED
        BY <2>1, <2>4, <4>1, <4>2, WrittenSound
    <3>4. w \in AccountRegistries
      BY <3>3, SoundIsRegistry
    <3> HIDE DEF w, r
    <3>5. StoreTypeOK'
      BY <1>0, <1>6, <3>1, <3>2, <3>4 DEF Read, StoreTypeOK, files
    <3>6. ArgsOK'
      BY <1>0, <1>6, <2>2, <3>1 DEF Read, StoreTypeOK, ArgsOK
    <3>7. StoreSound'
      BY <1>0, <1>6, <3>2, <3>3 DEF Read, StoreSound, files
    <3> QED
      BY <3>5, <3>6, <3>7 DEF IInv
  <2> QED
    BY <2>3, <2>4
<1>7. ASSUME NEW p \in Ops, Preflight(p) PROVE IInv'
  <2>1. StoreTypeOK'
    BY <1>0, <1>7 DEF Preflight, StoreTypeOK, files
  <2>2. ArgsOK'
    BY <1>0, <1>7 DEF Preflight, StoreTypeOK, ArgsOK
  <2>3. StoreSound'
    BY <1>0, <1>7 DEF Preflight, StoreSound, files
  <2> QED
    BY <2>1, <2>2, <2>3 DEF IInv
<1>8. ASSUME NEW p \in Ops, OpenTmp(p) PROVE IInv'
  <2>1. StoreTypeOK'
    BY <1>0, <1>8 DEF OpenTmp, StoreTypeOK, Contents
  <2>2. ArgsOK'
    BY <1>0, <1>8 DEF OpenTmp, StoreTypeOK, ArgsOK
  <2>3. StoreSound'
    BY <1>0, <1>8 DEF OpenTmp, StoreSound
  <2> QED
    BY <2>1, <2>2, <2>3 DEF IInv
<1>9. ASSUME NEW p \in Ops, WriteTmp(p) PROVE IInv'
  <2>1. StoreTypeOK'
    BY <1>0, <1>9 DEF WriteTmp, StoreTypeOK, Contents
  <2>2. ArgsOK'
    BY <1>0, <1>9 DEF WriteTmp, StoreTypeOK, ArgsOK
  <2>3. StoreSound'
    BY <1>0, <1>9 DEF WriteTmp, StoreSound
  <2> QED
    BY <2>1, <2>2, <2>3 DEF IInv
<1>10. ASSUME NEW p \in Ops, Rename(p) PROVE IInv'
  <2> DEFINE moved == [q \in Ops |-> CASE fd[q] = "file" -> "gone"
                                       [] fd[q] = "tmp"  -> "file"
                                       [] OTHER          -> fd[q]]
  <2>1. AfterWrite(kind[p]) \in {"idle", "unlink", "load"}
    BY DEF AfterWrite
  <2>2. pc' = [pc EXCEPT ![p] = AfterWrite(kind[p])] /\ pc[p] = "rename"
    BY <1>10 DEF Rename, Finish
  <2>3. fd' \in [Ops -> {"none", "tmp", "file", "gone"}]
    <3>1. fd' = moved
      BY <1>10 DEF Rename
    <3>2. \A q \in Ops : moved[q] \in {"none", "tmp", "file", "gone"}
      BY <1>0 DEF StoreTypeOK
    <3> QED
      BY <3>1, <3>2
  <2>4. file' = tmp /\ tmp' = NoFile /\ tmp # NoFile
    BY <1>10 DEF Rename
  <2>5. signedOut' \in BOOLEAN
    BY <1>0, <1>10 DEF Rename, StoreTypeOK
  <2>6. UNCHANGED <<legacy, sidecar, bootToken, kind, key, token, reg, failed>>
    BY <1>10 DEF Rename
  <2>7. StoreTypeOK'
    BY <1>0, <2>1, <2>2, <2>3, <2>4, <2>5, <2>6 DEF StoreTypeOK, Contents
  <2>8. ArgsOK'
    BY <1>0, <2>2, <2>6 DEF StoreTypeOK, ArgsOK
  <2>9. StoreSound'
    BY <1>0, <2>4, <2>6 DEF StoreSound
  <2> QED
    BY <2>7, <2>8, <2>9 DEF IInv
<1>11. ASSUME NEW p \in Ops, WriteFails(p) PROVE IInv'
  <2>1. AfterWrite(kind[p]) \in {"idle", "unlink", "load"}
    BY DEF AfterWrite
  <2>2. pc' = [pc EXCEPT ![p] = AfterWrite(kind[p])] /\ pc[p] # "idle"
    BY <1>11 DEF WriteFails, Finish
  <2>3. StoreTypeOK'
    BY <1>0, <1>11, <2>1, <2>2 DEF WriteFails, StoreTypeOK, files
  <2>4. ArgsOK'
    BY <1>0, <1>11, <2>2 DEF WriteFails, StoreTypeOK, ArgsOK
  <2>5. StoreSound'
    BY <1>0, <1>11 DEF WriteFails, StoreSound, files
  <2> QED
    BY <2>3, <2>4, <2>5 DEF IInv
<1>12. ASSUME NEW p \in Ops, Unlink(p) PROVE IInv'
  <2>1. StoreTypeOK'
    BY <1>0, <1>12 DEF Unlink, StoreTypeOK
  <2>2. ArgsOK'
    BY <1>0, <1>12 DEF Unlink, StoreTypeOK, ArgsOK
  <2>3. StoreSound'
    BY <1>0, <1>12 DEF Unlink, StoreSound
  <2> QED
    BY <2>1, <2>2, <2>3 DEF IInv
<1>13. ASSUME Crash PROVE IInv'
  <2>1. StoreTypeOK'
    BY <1>0, <1>13 DEF Crash, StoreTypeOK
  <2>2. ArgsOK'
    BY <1>0, <1>13 DEF Crash, ArgsOK
  <2>3. StoreSound'
    BY <1>0, <1>13 DEF Crash, StoreSound
  <2> QED
    BY <2>1, <2>2, <2>3 DEF IInv
<1>14. CASE UNCHANGED storeVars
  BY <1>0, <1>14 DEF storeVars, files, ops, IInv, StoreTypeOK, ArgsOK, StoreSound
<1> QED
  BY <1>1, <1>2, <1>3, <1>4, <1>5, <1>6, <1>7, <1>8, <1>9, <1>10, <1>11, <1>12,
     <1>13, <1>14 DEF StoreNext

(* Every variable keeps its type, whatever helpers, failures and crashes   *)
(* interleave (github-token-store.ts, bootstrap.ts).                       *)
THEOREM TypeCorrect == StoreSpec => []StoreTypeOK
<1>1. IInv => StoreTypeOK
  BY DEF IInv
<1> QED
  BY <1>1, InitIInv, NextIInv, PTL DEF StoreSpec

(* The active pointer of accounts.json never names a missing account, for  *)
(* any number of overlapping helpers (addAndActivate, setActive,           *)
(* removeAccount over registries read at any earlier moment).              *)
THEOREM PointerNeverDangles == StoreSpec => []NoDanglingActive
<1>1. IInv => NoDanglingActive
  <2> SUFFICES ASSUME IInv, file \in AccountRegistries PROVE WellFormed(file)
    BY DEF NoDanglingActive
  <2>1. file \in Sound
    BY FileAssumption DEF IInv, StoreSound
  <2> QED
    BY <2>1 DEF Sound
<1> QED
  BY <1>1, InitIInv, NextIInv, PTL DEF StoreSpec

(* Both together: what a reader of accounts.json relies on, for any number *)
(* of accounts and of overlapping helpers.                                 *)
THEOREM StoreCorrect == StoreSpec => []StoreInvariant
<1>1. StoreTypeOK /\ NoDanglingActive => StoreInvariant
  BY DEF StoreInvariant
<1> QED
  BY <1>1, TypeCorrect, PointerNeverDangles, PTL

-----------------------------------------------------------------------------
(* One helper at a time, as comment and event loop promise                 *)
(* (github-token-store.ts: "the next handler doesn't start mid-write"):    *)
(* what a helper read is still what the file says when it writes.          *)
SoleHelper == \A p, q \in Ops : p = q

\* From its read to its rename a helper holds its operation on the file as it
\* is; the temporary file is its own.
HelperFresh ==
  \A p \in Ops :
    /\ fd[p] = IF pc[p] = "write" THEN "tmp" ELSE "none"
    /\ pc[p] \in {"preflight", "open", "write", "rename"} =>
         /\ ~Skips(kind[p], key[p], file)
         /\ reg[p] = Written(kind[p], key[p], token[p], file)
    /\ pc[p] = "rename" => tmp = reg[p]

\* After a sign-out nothing is left that a boot could read a credential from.
NothingToBoot == legacy = NoToken /\ bootToken = NoToken /\ file.activeKey = NoKey

SignOutOnItsWay ==
  \A p \in Ops :
    /\ pc[p] # "idle" /\ kind[p] = "signOut" => bootToken = NoToken
    /\ pc[p] = "unlink" =>
         kind[p] = "signOut" /\ (failed[p] \/ file.activeKey = NoKey)

SoleInv ==
  /\ IInv
  /\ NeverTorn
  /\ HelperFresh
  /\ signedOut => NothingToBoot
  /\ SignOutOnItsWay

(* A helper's operation leaves every credential but those of the account   *)
(* it adds, lifts or removes.                                              *)
LEMMA WrittenCredential ==
  ASSUME NEW k \in Kinds, NEW a \in Keys \cup {NoKey}, NEW t \in Tokens \cup {NoToken},
         NEW r \in Sound, NEW b \in Keys,
         legacy \in Tokens \cup {NoToken},
         k \in Keyed \cup {"migrate"} => a \in Keys,
         k = "add" => t \in Tokens,
         ~Skips(k, a, r),
         k \in {"add", "migrate", "remove"} => b # a
  PROVE  Credential(Written(k, a, t, r), b) = Credential(r, b)
<1>1. r \in AccountRegistries /\ (r.activeKey # NoKey => r.activeKey \in Keys)
  BY SoundIsRegistry DEF AccountRegistries
<1>2. CASE k = "add"
  BY <1>1, <1>2, AddCredential DEF Written, Keyed
<1>3. CASE k = "signOut"
  BY <1>1, <1>3, DeactivateCredential DEF Written
<1>4. CASE k = "flagActive"
  <2>1. r.activeKey \in Keys
    BY <1>1, <1>4 DEF Skips, Keyless
  <2> QED
    BY <1>1, <1>4, <2>1, FlagCredential DEF Written, markNeedsReauth
<1>5. CASE k = "clearActive"
  <2>1. r.activeKey \in Keys
    BY <1>1, <1>5 DEF Skips, Keyless
  <2> QED
    BY <1>1, <1>5, <2>1, FlagCredential DEF Written, clearNeedsReauth
<1>6. CASE k = "flag"
  BY <1>1, <1>6, FlagCredential DEF Written, markNeedsReauth, Keyed
<1>7. CASE k = "recover"
  <2>1. a \in Keys
    BY <1>7 DEF Keyed
  <2>2. setActive(r, a) \in AccountRegistries
    BY <2>1, SetActiveSound, SoundIsRegistry
  <2>3. Credential(setActive(r, a), b) = Credential(r, b)
    BY <1>1, SetActiveCredential
  <2>4. Credential(clearNeedsReauth(setActive(r, a), a), b) = Credential(setActive(r, a), b)
    BY <2>1, <2>2, FlagCredential DEF clearNeedsReauth
  <2> QED
    BY <1>7, <2>3, <2>4 DEF Written
<1>8. CASE k = "switch"
  BY <1>1, <1>8, SetActiveCredential DEF Written
<1>9. CASE k = "remove"
  BY <1>1, <1>9, RemoveCredential DEF Written, Keyed
<1>10. CASE k = "migrate"
  <2>1. a \in Keys /\ b # a /\ legacy \in Tokens /\ AccountKeys(r) = {}
    BY <1>10 DEF Skips, MigrationDone
  <2>2. emptyRegistry \in AccountRegistries
    BY EmptySound, SoundIsRegistry
  <2>3. Credential(addAndActivate(emptyRegistry, a, legacy), b) = NoRecord
    <3>1. Credential(emptyRegistry, b) = NoRecord
      BY DEF emptyRegistry, Credential, HasAccount
    <3> QED
      BY <2>1, <2>2, <3>1, AddCredential
  <2>4. Credential(r, b) = NoRecord
    BY <2>1 DEF AccountKeys, Credential
  <2> QED
    BY <1>10, <2>3, <2>4 DEF Written
<1> QED
  BY <1>2, <1>3, <1>4, <1>5, <1>6, <1>7, <1>8, <1>9, <1>10 DEF Kinds, Keyed, Keyless

(* Only an activating helper gives the registry an active account.         *)
LEMMA WrittenInactive ==
  ASSUME NEW k \in Kinds \ (Activating \cup {"migrate"}),
         NEW a \in Keys \cup {NoKey}, NEW t, NEW r \in Sound,
         k \in Keyed => a \in Keys,
         ~Skips(k, a, r)
  PROVE  /\ r.activeKey = NoKey => Written(k, a, t, r).activeKey = NoKey
         /\ k = "signOut" => Written(k, a, t, r).activeKey = NoKey
<1>1. r \in AccountRegistries
  BY SoundIsRegistry
<1>2. CASE k = "signOut"
  BY <1>1, <1>2 DEF Written, deactivate, AccountRegistries
<1>3. CASE k \in {"flagActive", "clearActive"}
  BY <1>3 DEF Skips, Keyless
<1>4. CASE k = "flag"
  <2>1. a \in Keys
    BY <1>4 DEF Keyed
  <2> QED
    BY <1>1, <1>4, <2>1, FlagCredential DEF Written, markNeedsReauth
<1>5. CASE k = "remove"
  BY <1>1, <1>5 DEF Written, removeAccount
<1> QED
  BY <1>2, <1>3, <1>4, <1>5 DEF Kinds, Keyed, Keyless, Activating

(* What a helper would write depends on the file, the legacy file and its  *)
(* own arguments only.                                                     *)
LEMMA SameOperation ==
  ASSUME NEW p \in Ops, UNCHANGED <<file, legacy>>,
         kind'[p] = kind[p], key'[p] = key[p], token'[p] = token[p]
  PROVE  /\ Skips(kind[p], key[p], file)' <=> Skips(kind[p], key[p], file)
         /\ Written(kind[p], key[p], token[p], file)' = Written(kind[p], key[p], token[p], file)
  BY DEF Skips, MigrationDone, Written

LEMMA InitSoleInv == StoreInit => SoleInv
<1> SUFFICES ASSUME StoreInit PROVE SoleInv
  OBVIOUS
<1>1. emptyRegistry # Torn
  BY EmptySound, SoundIsRegistry, FileAssumption
<1> QED
  BY <1>1, InitIInv
  DEF StoreInit, SoleInv, NeverTorn, HelperFresh, SignOutOnItsWay

(* A step that leaves the files and the helpers' arguments alone, and takes *)
(* the helper to a point before its read or after its write.                *)
LEMMA Elsewhere ==
  ASSUME SoleHelper, SoleInv, NEW p \in Ops,
         UNCHANGED <<file, legacy>>, fd'[p] = "none",
         pc'[p] \notin {"preflight", "open", "write", "rename"}
  PROVE  NeverTorn' /\ HelperFresh'
  BY DEF SoleHelper, SoleInv, NeverTorn, HelperFresh

LEMMA NextSoleInv == SoleHelper /\ SoleInv /\ [StoreNext]_storeVars => SoleInv'
<1> SUFFICES ASSUME SoleHelper, SoleInv, [StoreNext]_storeVars PROVE SoleInv'
  OBVIOUS
<1> DEFINE Promise == /\ NeverTorn /\ HelperFresh
                      /\ signedOut => NothingToBoot
                      /\ SignOutOnItsWay
<1>0. IInv' /\ IInv
  BY NextIInv DEF SoleInv
<1>t. StoreTypeOK
  BY <1>0 DEF IInv
<1>f. file \in Sound /\ readRegistry(file) = file
  BY <1>0 DEF IInv, StoreSound, SoleInv, NeverTorn, readRegistry
<1>p. Promise
  BY DEF SoleInv
<1>s. \A p, q \in Ops : p = q
  BY DEF SoleHelper
<1>1. ASSUME NEW p \in Ops, NEW k \in Kinds, NEW a, NEW t, Start(p, k, a, t),
             bootToken' = bootToken \/ bootToken' = NoToken,
             k = "signOut" => bootToken' = NoToken
      PROVE  Promise'
  <2>1. /\ pc'[p] = "read" /\ kind'[p] = k /\ pc[p] = "idle"
        /\ UNCHANGED <<files, fd, signedOut>>
    BY <1>t, <1>1 DEF Start, StoreTypeOK
  <2>2. NeverTorn' /\ HelperFresh'
    BY <1>p, <2>1, Elsewhere DEF HelperFresh, files
  <2>3. (signedOut => NothingToBoot)'
    BY <1>1, <1>p, <2>1 DEF NothingToBoot, files
  <2>4. SignOutOnItsWay'
    BY <1>1, <1>p, <1>s, <2>1 DEF SignOutOnItsWay
  <2> QED
    BY <2>2, <2>3, <2>4
<1>2. ASSUME NEW p \in Ops, LoadBootToken(p) PROVE Promise'
  <2>1. /\ pc'[p] = "idle" /\ pc[p] = "load"
        /\ UNCHANGED <<files, fd, signedOut>>
    BY <1>t, <1>2 DEF LoadBootToken, StoreTypeOK
  <2>2. NeverTorn' /\ HelperFresh'
    BY <1>p, <2>1, Elsewhere DEF HelperFresh, files
  <2>3. (signedOut => NothingToBoot)'
    <3>1. file.activeKey = NoKey => readDefaultRecord(file) = legacy
      BY DEF readDefaultRecord, getActiveRecord
    <3>2. bootToken' = readDefaultRecord(file)
      BY <1>2, <1>f DEF LoadBootToken
    <3> QED
      BY <1>p, <2>1, <3>1, <3>2 DEF NothingToBoot, files
  <2>4. SignOutOnItsWay'
    BY <1>s, <2>1 DEF SignOutOnItsWay
  <2> QED
    BY <2>2, <2>3, <2>4
<1>3. ASSUME NEW p \in Ops, Read(p) PROVE Promise'
  <2>1. /\ pc[p] = "read"
        /\ UNCHANGED <<files, bootToken, kind, key, token, fd, failed, signedOut>>
    BY <1>3 DEF Read
  <2>2. fd'[p] = "none"
    BY <1>p, <2>1 DEF HelperFresh
  <2>3. (signedOut => NothingToBoot)'
    BY <1>p, <2>1 DEF NothingToBoot, files
  <2>4. CASE Skips(kind[p], key[p], file)
    <3>1. pc'[p] = AfterWrite(kind[p])
      BY <1>3, <1>f, <1>t, <2>4 DEF Read, StoreTypeOK
    <3>2. NeverTorn' /\ HelperFresh'
      BY <2>1, <2>2, <3>1, Elsewhere DEF AfterWrite, files
    <3>3. kind[p] = "signOut" => file.activeKey = NoKey
      BY <2>4 DEF Skips, Keyless
    <3>4. SignOutOnItsWay'
      BY <1>p, <1>s, <2>1, <3>1, <3>3 DEF SignOutOnItsWay, AfterWrite, files
    <3> QED
      BY <2>3, <3>2, <3>4
  <2>5. CASE ~Skips(kind[p], key[p], file)
    <3>1. /\ pc'[p] \in {"preflight", "open"}
          /\ reg'[p] = Written(kind[p], key[p], token[p], file)
      BY <1>3, <1>f, <1>t, <2>5 DEF Read, StoreTypeOK
    <3>2. HelperFresh'
      BY <1>s, <2>1, <2>2, <2>5, <3>1, SameOperation DEF HelperFresh, files
    <3>3. SignOutOnItsWay'
      BY <1>p, <1>s, <2>1, <3>1 DEF SignOutOnItsWay
    <3> QED
      BY <1>p, <2>1, <2>3, <3>2, <3>3 DEF NeverTorn, files
  <2> QED
    BY <2>4, <2>5
<1>4. ASSUME NEW p \in Ops, Preflight(p) PROVE Promise'
  <2>1. /\ pc[p] = "preflight" /\ pc'[p] \in {"open", "idle"}
        /\ UNCHANGED <<files, bootToken, kind, key, token, reg, fd, failed, signedOut>>
    BY <1>t, <1>4 DEF Preflight, StoreTypeOK
  <2>2. HelperFresh'
    BY <1>p, <1>s, <2>1, SameOperation DEF HelperFresh, files
  <2>3. (signedOut => NothingToBoot)' /\ SignOutOnItsWay'
    BY <1>p, <1>s, <2>1 DEF NothingToBoot, SignOutOnItsWay, files
  <2> QED
    BY <1>p, <2>1, <2>2, <2>3 DEF NeverTorn, files
<1>5. ASSUME NEW p \in Ops, OpenTmp(p) PROVE Promise'
  <2>1. /\ pc[p] = "open" /\ pc'[p] = "write" /\ fd'[p] = "tmp"
        /\ UNCHANGED <<file, legacy, bootToken, kind, key, token, reg, failed, signedOut>>
    BY <1>t, <1>5 DEF OpenTmp, StoreTypeOK
  <2>2. HelperFresh'
    BY <1>p, <1>s, <2>1, SameOperation DEF HelperFresh
  <2>3. (signedOut => NothingToBoot)' /\ SignOutOnItsWay'
    BY <1>p, <1>s, <2>1 DEF NothingToBoot, SignOutOnItsWay
  <2> QED
    BY <1>p, <2>1, <2>2, <2>3 DEF NeverTorn
<1>6. ASSUME NEW p \in Ops, WriteTmp(p) PROVE Promise'
  <2>1. pc[p] = "write" /\ fd[p] = "tmp"
    BY <1>p, <1>6 DEF WriteTmp, HelperFresh
  <2>2. /\ pc'[p] = "rename" /\ fd'[p] = "none" /\ tmp' = reg[p]
        /\ UNCHANGED <<file, legacy, bootToken, kind, key, token, reg, failed, signedOut>>
    BY <1>t, <1>6, <2>1 DEF WriteTmp, StoreTypeOK
  <2>3. HelperFresh'
    BY <1>p, <1>s, <2>1, <2>2, SameOperation DEF HelperFresh
  <2>4. (signedOut => NothingToBoot)' /\ SignOutOnItsWay'
    BY <1>p, <1>s, <2>1, <2>2 DEF NothingToBoot, SignOutOnItsWay
  <2> QED
    BY <1>p, <2>2, <2>3, <2>4 DEF NeverTorn
<1>7. ASSUME NEW p \in Ops, Rename(p) PROVE Promise'
  <2> DEFINE w == Written(kind[p], key[p], token[p], file)
  <2>1. /\ pc[p] = "rename" /\ fd[p] = "none"
        /\ ~Skips(kind[p], key[p], file) /\ tmp = w
    BY <1>p, <1>7 DEF Rename, HelperFresh
  <2>2. /\ pc'[p] = AfterWrite(kind[p]) /\ fd'[p] = "none" /\ file' = w
        /\ signedOut' = (signedOut /\ kind[p] \notin Activating)
        /\ UNCHANGED <<legacy, bootToken, kind, failed>>
    BY <1>t, <1>7, <2>1 DEF Rename, Finish, StoreTypeOK
  <2>3. NeverTorn'
    <3>1. file' \in Sound
      <4>1. file' # Torn
        BY <1>0, <1>t, <2>1, <2>2, FileAssumption, SoundIsRegistry, <1>7
        DEF IInv, StoreSound, HelperFresh, SoleInv, Rename
      <4> QED
        BY <1>0, <4>1 DEF IInv, StoreSound
    <3> QED
      BY <3>1, SoundIsRegistry, FileAssumption DEF NeverTorn
  <2>4. HelperFresh'
    BY <1>s, <2>2 DEF HelperFresh, AfterWrite
  <2>5. kind[p] \in Kinds /\ key[p] \in Keys \cup {NoKey}
        /\ (kind[p] \in Keyed => key[p] \in Keys)
    BY <1>0, <2>1 DEF IInv, StoreTypeOK, ArgsOK
  <2>6. /\ kind[p] = "signOut" => file'.activeKey = NoKey
        /\ (kind[p] \notin Activating \cup {"migrate"} /\ file.activeKey = NoKey)
             => file'.activeKey = NoKey
    BY <1>f, <2>1, <2>2, <2>5, WrittenInactive DEF Activating
  <2>7. (signedOut => NothingToBoot)'
    <3>1. kind[p] = "migrate" => legacy # NoToken
      BY <2>1 DEF Skips, MigrationDone
    <3> QED
      BY <1>p, <2>2, <2>6, <3>1 DEF NothingToBoot
  <2>8. SignOutOnItsWay'
    BY <1>p, <1>s, <2>1, <2>2, <2>6 DEF SignOutOnItsWay, AfterWrite
  <2> QED
    BY <2>3, <2>4, <2>7, <2>8
<1>8. ASSUME NEW p \in Ops, WriteFails(p) PROVE Promise'
  <2>1. /\ pc[p] # "idle" /\ pc'[p] = AfterWrite(kind[p]) /\ fd'[p] = "none" /\ failed'[p] = TRUE
        /\ UNCHANGED <<files, bootToken, kind, signedOut>>
    BY <1>t, <1>8 DEF WriteFails, Finish, StoreTypeOK
  <2>2. NeverTorn' /\ HelperFresh'
    BY <2>1, Elsewhere DEF AfterWrite, files
  <2>3. (signedOut => NothingToBoot)' /\ SignOutOnItsWay'
    BY <1>p, <1>s, <2>1 DEF NothingToBoot, SignOutOnItsWay, AfterWrite, files
  <2> QED
    BY <2>2, <2>3
<1>9. ASSUME NEW p \in Ops, Unlink(p) PROVE Promise'
  <2>1. /\ pc[p] = "unlink" /\ pc'[p] = "idle" /\ fd'[p] = "none"
        /\ UNCHANGED <<file, bootToken, fd>>
    BY <1>t, <1>p, <1>9 DEF Unlink, StoreTypeOK, HelperFresh
  <2>2. NeverTorn' /\ HelperFresh'
    BY <1>p, <1>s, <2>1 DEF NeverTorn, HelperFresh
  <2>3. SignOutOnItsWay'
    BY <1>s, <2>1 DEF SignOutOnItsWay
  <2>4. (signedOut => NothingToBoot)'
    <3>1. bootToken = NoToken /\ (failed[p] \/ file.activeKey = NoKey)
      BY <1>p, <2>1 DEF SignOutOnItsWay
    <3> QED
      BY <1>p, <1>9, <2>1, <3>1 DEF Unlink, NothingToBoot
  <2> QED
    BY <2>2, <2>3, <2>4
<1>10. ASSUME Crash PROVE Promise'
  <2>1. /\ \A p \in Ops : pc'[p] = "idle" /\ fd'[p] = "none"
        /\ bootToken' = NoToken /\ UNCHANGED <<file, legacy, signedOut>>
    BY <1>10 DEF Crash
  <2>2. NeverTorn' /\ HelperFresh'
    BY <1>p, <2>1 DEF NeverTorn, HelperFresh
  <2> QED
    BY <1>p, <2>1, <2>2 DEF NothingToBoot, SignOutOnItsWay
<1>11. ASSUME UNCHANGED storeVars PROVE Promise'
  <2>1. UNCHANGED <<file, tmp, legacy, bootToken, pc, kind, key, token, reg, fd, failed, signedOut>>
    BY <1>11 DEF storeVars, files, ops
  <2>2. HelperFresh'
    BY <1>p, <2>1, SameOperation DEF HelperFresh
  <2> QED
    BY <1>p, <2>1, <2>2 DEF NeverTorn, NothingToBoot, SignOutOnItsWay
<1>12. Promise'
  <2> HIDE DEF Promise
  <2>1. ASSUME NEW p \in Ops, NEW a \in Keys, Boot(p, a) PROVE Promise'
    BY <1>1, <2>1 DEF Boot, Kinds
  <2>2. ASSUME NEW p \in Ops, NEW a \in Keys, NEW t \in Tokens, StartAdd(p, a, t)
        PROVE  Promise'
    BY <1>1, <2>2 DEF StartAdd, Kinds, Keyed
  <2>3. ASSUME NEW p \in Ops, NEW a \in Keys, NEW k \in Keyed \ {"add"}, StartKeyed(p, k, a)
        PROVE  Promise'
    <3>1. k # "signOut" /\ k \in Kinds
      BY DEF Keyed, Kinds
    <3> QED
      BY <1>1, <2>3, <3>1 DEF StartKeyed
  <2>4. ASSUME NEW p \in Ops, NEW k \in Keyless, StartKeyless(p, k) PROVE Promise'
    <3>1. k \in Kinds
      BY DEF Kinds
    <3> QED
      BY <1>1, <2>4, <3>1 DEF StartKeyless
  <2> QED
    BY <1>2, <1>3, <1>4, <1>5, <1>6, <1>7, <1>8, <1>9, <1>10, <1>11,
       <2>1, <2>2, <2>3, <2>4 DEF StoreNext
<1> QED
  BY <1>0, <1>12 DEF SoleInv

LEMMA AlwaysSole ==
  ASSUME SoleHelper
  PROVE  StoreSpec => []SoleInv
<1>1. SoleInv /\ [StoreNext]_storeVars => SoleInv'
  BY NextSoleInv
<1> QED
  BY <1>1, InitSoleInv, PTL DEF StoreSpec

(* No crash or failed write leaves accounts.json truncated or half         *)
(* written, as long as helpers do not overlap (writeJsonAtomic).           *)
THEOREM FileNeverTorn ==
  ASSUME SoleHelper
  PROVE  StoreSpec => []NeverTorn
<1>1. SoleInv => NeverTorn
  BY DEF SoleInv
<1> QED
  BY <1>1, AlwaysSole, PTL

(* A completed sign-out outlives crashes and boots: neither the registry,  *)
(* nor the legacy file, nor its migration brings a credential back         *)
(* (deactivate, signOut, bootstrapUpstream).                               *)
THEOREM SignOutHolds ==
  ASSUME SoleHelper
  PROVE  StoreSpec => []SignOutSticks
<1>1. SoleInv => SignOutSticks
  BY DEF SoleInv, SignOutSticks, NothingToBoot
<1> QED
  BY <1>1, AlwaysSole, PTL

(* The only step that changes what a reader finds is a rename, to what its *)
(* helper makes of the registry as it is.                                  *)
LEMMA OnlyRename ==
  ASSUME SoleHelper, SoleInv, [StoreNext]_storeVars
  PROVE  \/ file' = file
         \/ \E p \in Ops :
              /\ Rename(p)
              /\ ~Skips(kind[p], key[p], file)
              /\ file' = Written(kind[p], key[p], token[p], file)
<1>1. ASSUME NEW p \in Ops, WriteTmp(p) PROVE file' = file
  BY <1>1 DEF WriteTmp, SoleInv, HelperFresh
<1>2. ASSUME NEW p \in Ops, Rename(p)
      PROVE  /\ ~Skips(kind[p], key[p], file)
             /\ file' = Written(kind[p], key[p], token[p], file)
  BY <1>2 DEF Rename, SoleInv, HelperFresh
<1> QED
  BY <1>1, <1>2
  DEF StoreNext, storeVars, files, Boot, LoadBootToken, StartAdd, StartKeyed, StartKeyless, Start,
      Read, Preflight, OpenTmp, WriteFails, Unlink, Crash

\* What a rename writes is the work of a helper whose arguments suit its kind.
LEMMA RenamedArgs ==
  ASSUME SoleInv, NEW p \in Ops, Rename(p)
  PROVE  /\ pc[p] = "rename" /\ pc'[p] # "rename"
         /\ file \in Sound /\ readRegistry(file) = file
         /\ kind[p] \in Kinds /\ key[p] \in Keys \cup {NoKey}
         /\ token[p] \in Tokens \cup {NoToken} /\ legacy \in Tokens \cup {NoToken}
         /\ kind[p] \in Keyed \cup {"migrate"} => key[p] \in Keys
         /\ kind[p] = "add" => token[p] \in Tokens
         /\ readRegistry(file') = file'
<1>1. pc[p] = "rename" /\ tmp = reg[p] /\ file' = tmp
      /\ pc' = [pc EXCEPT ![p] = AfterWrite(kind[p])]
  BY DEF Rename, Finish, SoleInv, HelperFresh
<1>2. pc'[p] # "rename"
  BY <1>1 DEF AfterWrite, SoleInv, IInv, StoreTypeOK
<1>3. file \in Sound /\ file # Torn /\ reg[p] \in Sound /\ reg[p] # Torn
  BY FileAssumption, SoundIsRegistry DEF SoleInv, IInv, StoreSound, NeverTorn
<1>4. /\ kind[p] \in Kinds /\ key[p] \in Keys \cup {NoKey}
      /\ token[p] \in Tokens \cup {NoToken} /\ legacy \in Tokens \cup {NoToken}
  BY DEF SoleInv, IInv, StoreTypeOK
<1>5. /\ kind[p] \in Keyed \cup {"migrate"} => key[p] \in Keys
      /\ kind[p] = "add" => token[p] \in Tokens
  BY <1>1 DEF SoleInv, IInv, ArgsOK
<1> QED
  BY <1>1, <1>2, <1>3, <1>4, <1>5 DEF readRegistry

(* Failure is not deletion: an account's credential changes only when a    *)
(* helper that adds, migrates or removes it renames its file, never        *)
(* through a flag, a switch, a sign-out, a crash or a failed write         *)
(* (markNeedsReauth, setActive, deactivate).                               *)
THEOREM CredentialsAreKept ==
  ASSUME SoleHelper
  PROVE  StoreSpec => CredentialKept
<1> DEFINE Changed(a) == Credential(readRegistry(file'), a) # Credential(readRegistry(file), a)
           Allowed(a) == \E p \in Ops : /\ kind[p] \in {"add", "migrate", "remove"}
                                        /\ key[p] = a
                                        /\ pc[p] = "rename" /\ pc'[p] # "rename"
<1>1. SoleInv /\ [StoreNext]_storeVars => [\A a \in Keys : Changed(a) => Allowed(a)]_storeVars
  <2> SUFFICES ASSUME SoleInv, [StoreNext]_storeVars, NEW a \in Keys, Changed(a) PROVE Allowed(a)
    OBVIOUS
  <2>1. file' # file
    OBVIOUS
  <2>2. PICK p \in Ops : /\ Rename(p)
                         /\ ~Skips(kind[p], key[p], file)
                         /\ file' = Written(kind[p], key[p], token[p], file)
    BY <2>1, OnlyRename
  <2>3. SUFFICES ASSUME ~(kind[p] \in {"add", "migrate", "remove"} /\ key[p] = a)
                 PROVE  Credential(file', a) = Credential(file, a)
    BY <2>2, RenamedArgs
  <2>4. kind[p] \in {"add", "migrate", "remove"} => a # key[p]
    BY <2>3
  <2> QED
    BY <2>2, <2>4, RenamedArgs, WrittenCredential
<1> QED
  BY <1>1, AlwaysSole, PTL DEF StoreSpec, CredentialKept

\* Atomic takes the operations of the registry as they are.
LEMMA AtomicOperators ==
  /\ Atomic!emptyRegistry = emptyRegistry
  /\ \A r, a, t : Atomic!addAndActivate(r, a, t) = addAndActivate(r, a, t)
  /\ \A r, a : /\ Atomic!setActive(r, a) = setActive(r, a)
               /\ Atomic!removeAccount(r, a) = removeAccount(r, a)
               /\ Atomic!markNeedsReauth(r, a) = markNeedsReauth(r, a)
               /\ Atomic!clearNeedsReauth(r, a) = clearNeedsReauth(r, a)
  /\ \A r : Atomic!deactivate(r) = deactivate(r)
  BY DEF Atomic!emptyRegistry, emptyRegistry, Atomic!addAndActivate, addAndActivate,
         Atomic!makeAccountRecord, makeAccountRecord, Atomic!setActive, setActive,
         Atomic!HasAccount, HasAccount, Atomic!removeAccount, removeAccount,
         Atomic!markNeedsReauth, markNeedsReauth, Atomic!flagAccount, flagAccount,
         Atomic!clearNeedsReauth, clearNeedsReauth, Atomic!deactivate, deactivate

(* A helper's write is one operation of the atomic registry.               *)
LEMMA WrittenAtomic ==
  ASSUME NEW k \in Kinds, NEW a \in Keys \cup {NoKey}, NEW t \in Tokens \cup {NoToken},
         readRegistry(file) \in Sound,
         legacy \in Tokens \cup {NoToken},
         k \in Keyed \cup {"migrate"} => a \in Keys,
         k = "add" => t \in Tokens,
         ~Skips(k, a, readRegistry(file)),
         readRegistry(file)' = Written(k, a, t, readRegistry(file))
  PROVE  Atomic!Next
<1> DEFINE r == readRegistry(file)
<1>1. r \in AccountRegistries
  BY SoundIsRegistry
<1>2. CASE k = "add"
  BY <1>2, AtomicOperators DEF Written, Keyed, Atomic!Next, Atomic!Add
<1>3. CASE k = "signOut"
  BY <1>3, AtomicOperators DEF Written, Atomic!Next, Atomic!SignOut
<1>4. CASE k = "flagActive"
  <2>1. r.activeKey \in Keys
    BY <1>1, <1>4 DEF Skips, Keyless, AccountRegistries
  <2> QED
    BY <1>4, <2>1, AtomicOperators DEF Written, Atomic!Next, Atomic!Flag
<1>5. CASE k = "clearActive"
  BY <1>5, AtomicOperators DEF Skips, Keyless, Written, Atomic!Next, Atomic!ClearActive
<1>6. CASE k = "flag"
  BY <1>6, AtomicOperators DEF Written, Keyed, Atomic!Next, Atomic!Flag
<1>7. CASE k = "recover"
  BY <1>7, AtomicOperators DEF Written, Keyed, Atomic!Next, Atomic!Recover
<1>8. CASE k = "switch"
  BY <1>8, AtomicOperators DEF Written, Keyed, Atomic!Next, Atomic!Switch
<1>9. CASE k = "remove"
  BY <1>9, AtomicOperators DEF Written, Keyed, Atomic!Next, Atomic!Remove
<1>10. CASE k = "migrate"
  <2>1. a \in Keys /\ legacy \in Tokens /\ AccountKeys(r) = {}
    BY <1>10 DEF Skips, MigrationDone
  <2>2. r.accounts = emptyRegistry.accounts
    BY <1>1, <2>1 DEF AccountRegistries, AccountKeys, HasAccount, emptyRegistry
  <2>3. Written(k, a, t, r) = addAndActivate(r, a, legacy)
    BY <1>10, <2>2 DEF Written, addAndActivate
  <2> QED
    BY <2>1, <2>3, AtomicOperators DEF Atomic!Next, Atomic!Add
<1> QED
  BY <1>2, <1>3, <1>4, <1>5, <1>6, <1>7, <1>8, <1>9, <1>10 DEF Kinds, Keyed, Keyless

(* Read, compute, write, rename, with crashes and failures between them,   *)
(* implement the atomic registry: what a reader finds changes by one whole *)
(* operation or not at all (writeJsonAtomic under every helper).           *)
THEOREM AtomicImplemented ==
  ASSUME SoleHelper
  PROVE  StoreSpec => ImplementsAtomic
<1>1. StoreInit => Atomic!Init
  <2>1. emptyRegistry # Torn
    BY EmptySound, SoundIsRegistry, FileAssumption
  <2> QED
    BY <2>1, AtomicOperators DEF StoreInit, Atomic!Init, readRegistry
<1>2. SoleInv /\ [StoreNext]_storeVars => [Atomic!Next]_(readRegistry(file))
  <2> SUFFICES ASSUME SoleInv, [StoreNext]_storeVars, readRegistry(file)' # readRegistry(file)
               PROVE  Atomic!Next
    OBVIOUS
  <2>1. file' # file
    BY DEF readRegistry
  <2>2. PICK p \in Ops : /\ Rename(p)
                         /\ ~Skips(kind[p], key[p], file)
                         /\ file' = Written(kind[p], key[p], token[p], file)
    BY <2>1, OnlyRename
  <2> QED
    BY <2>2, RenamedArgs, WrittenAtomic
<1> QED
  BY <1>1, <1>2, AlwaysSole, PTL DEF StoreSpec, ImplementsAtomic, Atomic!Spec

-----------------------------------------------------------------------------
(* The session: its inductive invariant.                                   *)

\* A registry a helper has read, and one whose active pointer it has seen set
Pointed(r) == r # None /\ r.activeKey # NoKey

RegistriesOK ==
  /\ registry \in Sound
  /\ held \in [Helpers -> Sound \cup {None}]

HeldOK ==
  /\ \A f \in Flows : flow[f].at = "write" => held[f] # None
  /\ \A c \in Clears : clear[c] = "write" => Pointed(held[c])
  /\ signOut = "write" => held["signOut"] # None
  /\ sweep.at = "write" => Pointed(held["sweep"])
  /\ sweep.at \in {"pinWrite", "flagWrite"} => held["sweep"] # None

\* The places of a poller that has an account, and of a sweep with a candidate
Approved == {"verify", "read", "write", "mint", "degrade", "models"}
Trying == {"preflight", "mint", "pinRead", "pinWrite", "models", "flagRead", "flagWrite"}

CarriedOK ==
  /\ \A f \in Flows : flow[f].at \in Approved => flow[f].account \in Keys
  /\ sweep.at \in Trying => sweep.of \in Keys

LoopsOK ==
  /\ LoopSingleton
  /\ EscalatesOnlyWhenPersistent
  /\ \A l \in Loops :
       loop[l].at \in {"wait", "mint", "stale"}
         => loop[l].rejections = loop[l].fatals /\ loop[l].fatals < MaxFatal

\* A pending flow in the grace window has not been approved yet, and one whose
\* poller waits for a sweep was aborted or the sweep is still there.
FlowsOK ==
  /\ PendingFlowIsPolled
  /\ \A f \in Flows : f = CurrentFlow =>
       /\ inGrace => flow[f].at \in {"poll", "done"}
       /\ flow[f].at = "degrade" /\ ~flow[f].aborted => sweep.at # "idle"

\* The places of a sweep that holds no candidate: the credential is gone
Dropping == {"read", "write", "list"}

BootOK ==
  /\ boot # "up" => \A f \in Flows : flow[f].at = "new"
  /\ boot = "start" => /\ github = None /\ sweep.at = "idle"
                       /\ \A l \in Loops : loop[l].at = "free"
                       /\ \A r \in Requests : request[r] = "idle"
  /\ boot # "up" /\ sweep.at \in Dropping => github = None
  /\ inGrace => sweep.at \notin Dropping
  /\ boot \in {"mint", "degrade", "models"} => userName = github

AuthInv ==
  /\ TypeOK
  /\ RegistriesOK
  /\ HeldOK
  /\ CarriedOK
  /\ LoopsOK
  /\ FlowsOK
  /\ BootOK

-----------------------------------------------------------------------------
(* The refresh loops.                                                      *)
LoopsGood(ls, cur) ==
  /\ ls \in [Loops -> Loop]
  /\ cur \in Loops \cup {None}
  /\ \A l \in Loops : ls[l].at \in {"wait", "mint"} => l = cur
  /\ \A l \in Loops : ls[l].at = "degrade" => ls[l].rejections = MaxFatal
  /\ \A l \in Loops :
       ls[l].at \in {"wait", "mint", "stale"}
         => ls[l].rejections = ls[l].fatals /\ ls[l].fatals < MaxFatal

LEMMA LoopsAreGood ==
  TypeOK /\ LoopsOK <=> LoopsGood(loop, current) /\ TypeOK
  BY DEF LoopsGood, LoopsOK, LoopSingleton, EscalatesOnlyWhenPersistent, TypeOK

LEMMA FreeLoopType == FreeLoop \in Loop /\ NewLoop \in Loop
  BY MaxFatalAssumption DEF FreeLoop, NewLoop, Loop, Identity

\* What stopCopilotRefreshLoop leaves
LEMMA StopLoopGood ==
  ASSUME NEW ls, NEW cur, LoopsGood(ls, cur), cur = current
  PROVE  /\ LoopsGood(StopLoop(ls), None)
         /\ \A l \in Loops : \/ StopLoop(ls)[l] = ls[l] /\ l # current
                             \/ StopLoop(ls)[l] = ls[l]
                                  /\ ls[l].at \in {"free", "stale", "degrade"}
                             \/ StopLoop(ls)[l] = FreeLoop
                             \/ StopLoop(ls)[l].at = "stale"
<1> DEFINE new == StopLoop(ls)
<1>1. ASSUME NEW l \in Loops
      PROVE  /\ new[l] \in Loop
             /\ new[l].at \notin {"wait", "mint"}
             /\ new[l].at = "degrade" => new[l].rejections = MaxFatal
             /\ new[l].at = "stale" => new[l].rejections = new[l].fatals /\ new[l].fatals < MaxFatal
             /\ \/ new[l] = ls[l] /\ l # current
                \/ new[l] = ls[l] /\ ls[l].at \in {"free", "stale", "degrade"}
                \/ new[l] = FreeLoop
                \/ new[l].at = "stale"
  <2>0. ls[l] \in Loop
    BY DEF LoopsGood
  <2>1. CASE l = current /\ ls[l].at = "wait"
    <3>1. new[l] = FreeLoop
      BY <2>1 DEF StopLoop
    <3> QED
      BY <3>1, FreeLoopType DEF FreeLoop
  <2>2. CASE l = current /\ ls[l].at = "mint"
    <3>1. new[l] = [ls[l] EXCEPT !.at = "stale"]
      BY <2>2 DEF StopLoop
    <3>2. /\ new[l] \in Loop /\ new[l].at = "stale"
          /\ new[l].rejections = ls[l].rejections /\ new[l].fatals = ls[l].fatals
      BY <3>1, <2>0 DEF Loop
    <3> QED
      BY <3>2, <2>2 DEF LoopsGood
  <2>3. CASE ~(l = current /\ ls[l].at = "wait") /\ ~(l = current /\ ls[l].at = "mint")
    <3>1. new[l] = ls[l]
      BY <2>3 DEF StopLoop
    <3> QED
      BY <3>1, <2>0, <2>3 DEF LoopsGood, Loop
  <2> QED
    BY <2>1, <2>2, <2>3
<1>2. new \in [Loops -> Loop]
  BY <1>1 DEF StopLoop
<1>3. LoopsGood(new, None)
  BY <1>1, <1>2 DEF LoopsGood
<1> QED
  BY <1>1, <1>3

LEMMA ReplaceLoopGood ==
  ASSUME LoopsGood(loop, current), ReplaceLoop
  PROVE  LoopsGood(loop', current')
<1> DEFINE stopped == StopLoop(loop)
<1>1. PICK l \in Loops : /\ stopped[l] = FreeLoop
                         /\ loop' = [stopped EXCEPT ![l] = NewLoop]
                         /\ current' = l
  BY DEF ReplaceLoop
<1>2. LoopsGood(stopped, None)
  BY StopLoopGood
<1> HIDE DEF stopped
<1>3. /\ loop'[l] = NewLoop
      /\ \A k \in Loops : k # l => loop'[k] = stopped[k]
      /\ loop' \in [Loops -> Loop]
  BY <1>1, <1>2, FreeLoopType DEF LoopsGood
<1>4. /\ NewLoop.at = "wait" /\ NewLoop.fatals = 0 /\ NewLoop.rejections = 0
  BY DEF NewLoop, FreeLoop
<1>5. ASSUME NEW k \in Loops, k # l PROVE loop'[k].at \notin {"wait", "mint"}
  BY <1>2, <1>3, <1>5, NoneAssumption DEF LoopsGood
<1> QED
  BY <1>1, <1>2, <1>3, <1>4, <1>5, MaxFatalAssumption DEF LoopsGood

\* setupCopilotToken
LEMMA CopilotReadyGood ==
  ASSUME LoopsGood(loop, current), NEW a, CopilotReady(a)
  PROVE  LoopsGood(loop', current')
<1>1. CASE loop' = StopLoop(loop) /\ current' = None
  <2>1. LoopsGood(StopLoop(loop), None)
    BY StopLoopGood
  <2> QED
    BY <1>1, <2>1
<1>2. CASE ReplaceLoop
  BY <1>2, ReplaceLoopGood
<1> QED
  BY <1>1, <1>2 DEF CopilotReady

LEMMA DegradeGood ==
  ASSUME NEW ls, NEW fs, LoopsGood(ls, current), MarkAuthDegraded(ls, fs)
  PROVE  LoopsGood(loop', current')
<1>1. CASE loop' = ls /\ current' = current
  BY <1>1
<1>2. CASE loop' = StopLoop(ls) /\ current' = None
  <2>1. LoopsGood(StopLoop(ls), None)
    BY StopLoopGood
  <2> QED
    BY <1>2, <2>1
<1> QED
  BY <1>1, <1>2 DEF MarkAuthDegraded, live, NobodyIsLive

\* One loop takes another place; the controller stays, or goes with it.
LEMMA OneLoopGood ==
  ASSUME LoopsGood(loop, current), NEW l \in Loops, NEW new \in Loop,
         NEW cur \in {current, None},
         new.at \in {"wait", "mint"} => loop[l].at \in {"wait", "mint"} /\ cur = current,
         cur = None => l = current \/ current = None,
         new.at = "degrade" => new.rejections = MaxFatal,
         new.at \in {"wait", "mint", "stale"}
           => new.rejections = new.fatals /\ new.fatals < MaxFatal
  PROVE  LoopsGood([loop EXCEPT ![l] = new], cur)
<1> DEFINE ls == [loop EXCEPT ![l] = new]
<1>1. /\ ls \in [Loops -> Loop] /\ ls[l] = new
      /\ \A k \in Loops : k # l => ls[k] = loop[k]
  BY DEF LoopsGood
<1> HIDE DEF ls
<1>2. cur \in Loops \cup {None}
  BY DEF LoopsGood
<1>3. ASSUME NEW k \in Loops, ls[k].at \in {"wait", "mint"} PROVE k = cur
  <2>1. CASE k = l
    BY <1>1, <1>3, <2>1 DEF LoopsGood
  <2>2. CASE k # l
    <3>1. k = current
      BY <1>1, <1>3, <2>2 DEF LoopsGood
    <3> QED
      BY <3>1, <2>2, NoneAssumption
  <2> QED
    BY <2>1, <2>2
<1>4. ASSUME NEW k \in Loops, ls[k].at = "degrade" PROVE ls[k].rejections = MaxFatal
  BY <1>1, <1>4 DEF LoopsGood
<1>5. ASSUME NEW k \in Loops, ls[k].at \in {"wait", "mint", "stale"}
      PROVE  ls[k].rejections = ls[k].fatals /\ ls[k].fatals < MaxFatal
  BY <1>1, <1>5 DEF LoopsGood
<1> QED
  BY <1>1, <1>2, <1>3, <1>4, <1>5 DEF LoopsGood

\* What a loop does with an answer keeps to its budget.
LEMMA GoesOnGood ==
  ASSUME LoopsGood(loop, current), NEW l \in Loops, Asking(l),
         NEW n \in 0 .. MaxFatal, n < MaxFatal
  PROVE  LoopsGood(GoesOn(l, n, n), current)
<1> DEFINE new == [at |-> "wait", fatals |-> n, sent |-> None, rejections |-> n]
<1>1. CASE loop[l].at = "stale"
  <2>1. GoesOn(l, n, n) = [loop EXCEPT ![l] = FreeLoop]
    BY <1>1 DEF GoesOn, LoopsGood
  <2>2. FreeLoop.at = "free"
    BY DEF FreeLoop
  <2>3. LoopsGood([loop EXCEPT ![l] = FreeLoop], current)
    BY <2>2, FreeLoopType, OneLoopGood, NoneAssumption DEF LoopsGood
  <2> QED
    BY <2>1, <2>3
<1>2. CASE loop[l].at = "mint"
  <2>1. GoesOn(l, n, n) = [loop EXCEPT ![l] = new]
    BY <1>2 DEF GoesOn, LoopsGood
  <2>2. new \in Loop /\ new.at = "wait" /\ new.rejections = new.fatals /\ new.fatals < MaxFatal
    BY DEF Loop, Identity
  <2>3. l = current
    BY <1>2 DEF LoopsGood
  <2> HIDE DEF new
  <2>4. LoopsGood([loop EXCEPT ![l] = new], current)
    BY <1>2, <2>2, <2>3, OneLoopGood, NoneAssumption
  <2> QED
    BY <2>1, <2>4
<1> QED
  BY <1>1, <1>2 DEF Asking

LEMMA EscalatedGood ==
  ASSUME LoopsGood(loop, current), NEW l \in Loops, Asking(l),
         loop[l].fatals + 1 >= MaxFatal
  PROVE  LoopsGood(Escalated(l), current)
<1> DEFINE n == loop[l].rejections + 1
           new == [FreeLoop EXCEPT !.at = "degrade", !.rejections = n]
<1>1. /\ loop[l] \in Loop
      /\ loop[l].rejections = loop[l].fatals /\ loop[l].fatals < MaxFatal
  BY DEF LoopsGood, Asking
<1>2. n = MaxFatal
  BY <1>1, MaxFatalAssumption DEF Loop
<1> HIDE DEF n
<1>3. new \in Loop /\ new.at = "degrade" /\ new.rejections = MaxFatal
  <2> DEFINE mid == [FreeLoop EXCEPT !.at = "degrade"]
  <2>1. mid \in Loop /\ mid.at = "degrade"
    BY FreeLoopType DEF Loop
  <2>2. n \in 0 .. MaxFatal
    BY <1>2, MaxFatalAssumption
  <2> HIDE DEF mid
  <2>3. /\ [mid EXCEPT !.rejections = n] \in Loop
        /\ [mid EXCEPT !.rejections = n].at = "degrade"
        /\ [mid EXCEPT !.rejections = n].rejections = n
    BY <2>1, <2>2 DEF Loop
  <2> QED
    BY <1>2, <2>3 DEF mid
<1> HIDE DEF new
<1>4. LoopsGood([loop EXCEPT ![l] = new], current)
  <2>1. current # None \/ current = None
    OBVIOUS
  <2>2. CASE current = None
    BY <1>3, <2>2, OneLoopGood
  <2>3. CASE current # None
    BY <1>3, <2>3, OneLoopGood
  <2> QED
    BY <2>2, <2>3
<1> QED
  BY <1>4 DEF Escalated, new, n

LEMMA LoopStepGood ==
  ASSUME LoopsGood(loop, current), github \in Identity, NEW l \in Loops, LoopStep(l)
  PROVE  LoopsGood(loop', current')
<1>0. loop[l] \in Loop /\ current \in Loops \cup {None}
  BY DEF LoopsGood
<1>1. CASE LoopRequests(l)
  <2> DEFINE new == [[loop[l] EXCEPT !.at = "mint"] EXCEPT !.sent = github]
  <2>1. loop' = [loop EXCEPT ![l] = new] /\ current' = current /\ loop[l].at = "wait"
    BY <1>1 DEF LoopRequests, LoopsGood
  <2>2. /\ new \in Loop /\ new.at = "mint"
        /\ new.fatals = loop[l].fatals /\ new.rejections = loop[l].rejections
    BY <1>0 DEF Loop
  <2>3. l = current /\ loop[l].rejections = loop[l].fatals /\ loop[l].fatals < MaxFatal
    BY <2>1 DEF LoopsGood
  <2> HIDE DEF new
  <2>4. LoopsGood([loop EXCEPT ![l] = new], current)
    BY <2>1, <2>2, <2>3, OneLoopGood, NoneAssumption
  <2> QED
    BY <2>1, <2>4
<1>2. CASE LoopRefreshes(l)
  <2>1. LoopsGood(GoesOn(l, 0, 0), current)
    BY <1>2, MaxFatalAssumption, GoesOnGood DEF LoopRefreshes, live
  <2> QED
    BY <1>2, <2>1 DEF LoopRefreshes, live
<1>3. CASE LoopRejected(l) \/ LoopThrows(l)
  <2>1. /\ Asking(l) /\ loop[l].rejections = loop[l].fatals /\ loop[l].fatals < MaxFatal
        /\ loop[l].fatals \in 0 .. MaxFatal
    BY <1>0, <1>3 DEF LoopRejected, LoopThrows, LoopsGood, Asking, Loop
  <2>2. CASE LoopRejected(l)
    <3> DEFINE n == loop[l].fatals + 1
    <3>1. n \in 0 .. MaxFatal /\ n < MaxFatal
      BY <2>1, <2>2, MaxFatalAssumption DEF LoopRejected
    <3>2. LoopsGood(GoesOn(l, n, n), current)
      BY <2>1, <3>1, GoesOnGood
    <3>3. loop' = GoesOn(l, n, n) /\ current' = current
      BY <2>1, <2>2 DEF LoopRejected
    <3> QED
      BY <3>2, <3>3
  <2>3. CASE LoopThrows(l)
    <3> DEFINE n == loop[l].fatals
    <3>1. LoopsGood(GoesOn(l, n, n), current)
      BY <2>1, GoesOnGood
    <3>2. loop' = GoesOn(l, n, n) /\ current' = current
      BY <2>1, <2>3 DEF LoopThrows
    <3> QED
      BY <3>1, <3>2
  <2> QED
    BY <1>3, <2>2, <2>3
<1>4. CASE LoopEscalates(l)
  <2>1. LoopsGood(Escalated(l), current) /\ MarkAuthDegraded(Escalated(l), flow)
    BY <1>4, EscalatedGood DEF LoopEscalates
  <2> QED
    BY <2>1, DegradeGood
<1>5. CASE LoopEnds(l)
  <2> DEFINE cur == IF current = l THEN None ELSE current
  <2>1. loop' = [loop EXCEPT ![l] = FreeLoop] /\ current' = cur
    BY <1>5 DEF LoopEnds
  <2>2. /\ FreeLoop.at = "free" /\ cur \in {current, None}
        /\ cur = None => l = current \/ current = None
    BY DEF FreeLoop
  <2>3. LoopsGood([loop EXCEPT ![l] = FreeLoop], cur)
    BY <2>2, FreeLoopType, OneLoopGood
  <2> QED
    BY <2>1, <2>3
<1> QED
  BY <1>1, <1>2, <1>3, <1>4, <1>5 DEF LoopStep

\* Every step keeps the loops.
LEMMA LoopsStep ==
  ASSUME TypeOK, LoopsOK, [Next]_vars
  PROVE  LoopsGood(loop', current')
<1>1. LoopsGood(loop, current) /\ github \in Identity
  BY LoopsAreGood DEF TypeOK
<1>2. CASE UNCHANGED loops
  BY <1>1, <1>2 DEF loops
<1>3. CASE \E a \in Identity : CopilotReady(a)
  BY <1>1, <1>3, CopilotReadyGood
<1>4. CASE loop' = StopLoop(loop) /\ current' = None
  <2>1. LoopsGood(StopLoop(loop), None)
    BY <1>1, StopLoopGood
  <2> QED
    BY <1>4, <2>1
<1>5. ASSUME NEW fs, MarkAuthDegraded(loop, fs) PROVE LoopsGood(loop', current')
  BY <1>1, <1>5, DegradeGood
<1>6. CASE \E l \in Loops : LoopStep(l)
  BY <1>1, <1>6, LoopStepGood
<1>7. CASE Restart
  <2>1. /\ loop' = [l \in Loops |-> FreeLoop] /\ current' = None
        /\ \A l \in Loops : loop'[l] = FreeLoop
    BY <1>7 DEF Restart, NobodyIsLive
  <2>2. FreeLoop.at = "free"
    BY DEF FreeLoop
  <2> QED
    BY <2>1, <2>2, FreeLoopType DEF LoopsGood
<1>8. CASE \E f \in Flows : StartDeviceFlow(f) \/ FlowStep(f) \/ FlowExpires(f)
  <2>1. PICK f \in Flows : StartDeviceFlow(f) \/ FlowStep(f) \/ FlowExpires(f)
    BY <1>8
  <2>2. flow[f].account \in Identity
    BY DEF TypeOK, Flow
  <2>3. CASE AddAccountWrites(f) \/ PollerMints(f)
    BY <1>2, <1>3, <2>2, <2>3 DEF AddAccountWrites, PollerMints, live
  <2>4. CASE PollerMintRejected(f)
    BY <1>5, <2>4 DEF PollerMintRejected
  <2> QED
    BY <1>2, <2>1, <2>3, <2>4
       DEF StartDeviceFlow, FlowStep, FlowExpires, DeviceCodeIssued, DeviceCodeFails,
           PollThrows, PollReturns, VerifyThrows, VerifyReturns, AddAccountReads,
           AddAccountThrows, PollerMintThrows, PollerDegraded, PollerSignsIn, PollerFails, live
<1>9. CASE SweepStep
  <2>1. sweep.of \in Identity
    BY DEF TypeOK, Sweep
  <2> QED
    BY <1>2, <1>3, <1>4, <1>9, <2>1
       DEF SweepStep, SweepReads, SweepWrites, RecoveryStep, RecoveryLists, CandidateFails,
           CandidatePasses, CandidateMints, RecoveryReads, PinWrites, FlagWrites,
           RecoverySignsIn, live
<1>10. CASE \E r \in Requests : RequestStep(r)
  BY <1>2, <1>5, <1>10 DEF RequestStep, RequestSent, RequestServed, RequestRejected
<1>11. CASE BootStep
  BY <1>1, <1>2, <1>3, <1>5, <1>11
     DEF BootStep, BootReadsToken, BootFails, BootFindsUser, BootMints, BootRejected,
         BootDegraded, BootSignsIn, live, TakesStored, TakesGiven
<1>12. CASE \/ \E c \in Clears : ClearStep(c)
            \/ cancelDeviceFlow \/ SignOut \/ SignOutStep \/ GraceExpires \/ UNCHANGED vars
  BY <1>2, <1>12 DEF ClearStep, ClearReads, ClearWrites, cancelDeviceFlow, SignOut,
                     SignOutStep, SignOutReads, SignOutWrites, GraceExpires, vars, live, NobodyIsLive
<1> QED
  BY <1>6, <1>7, <1>8, <1>9, <1>10, <1>11, <1>12 DEF Next

-----------------------------------------------------------------------------
(* The flows: what a step leaves of one, and where it takes one.           *)
Kept(g) ==
  /\ flow'[g].at = flow[g].at
  /\ flow'[g].account = flow[g].account
  /\ flow[g].aborted => flow'[g].aborted

AllKept == flow' \in [Flows -> Flow] /\ \A g \in Flows : Kept(g)

Goes(f, at) ==
  /\ flow' \in [Flows -> Flow]
  /\ flow'[f].at = at
  /\ at \in Approved => flow'[f].account \in Keys
  /\ \A g \in Flows : g # f => Kept(g)

StaysAborted(f) == f = CurrentFlow /\ flow[f].aborted => flow'[f].aborted

LEMMA AbortCurrentKeeps ==
  ASSUME NEW fs \in [Flows -> Flow]
  PROVE  /\ AbortCurrent(fs) \in [Flows -> Flow]
         /\ \A g \in Flows :
              /\ AbortCurrent(fs)[g].at = fs[g].at
              /\ AbortCurrent(fs)[g].account = fs[g].account
              /\ AbortCurrent(fs)[g].aborted = (fs[g].aborted \/ g = CurrentFlow)
<1>1. ASSUME NEW g \in Flows
      PROVE  LET new == AbortCurrent(fs)[g] IN
             /\ new \in Flow
             /\ new.at = fs[g].at
             /\ new.account = fs[g].account
             /\ new.aborted = (fs[g].aborted \/ g = CurrentFlow)
  <2> DEFINE new == AbortCurrent(fs)[g]
             aborted == fs[g].aborted \/ g = CurrentFlow
  <2>1. new = [fs[g] EXCEPT !.aborted = aborted]
    BY DEF AbortCurrent
  <2>2. aborted \in BOOLEAN
    OBVIOUS
  <2> HIDE DEF aborted, new
  <2>3. new \in Flow /\ new.at = fs[g].at /\ new.account = fs[g].account /\ new.aborted = aborted
    BY <2>1, <2>2 DEF Flow
  <2> QED
    BY <2>3 DEF aborted, new
<1> QED
  BY <1>1 DEF AbortCurrent

LEMMA AbortingKeeps ==
  ASSUME TypeOK, flow' = AbortCurrent(flow)
  PROVE  AllKept
<1>1. flow \in [Flows -> Flow]
  BY DEF TypeOK
<1> QED
  BY <1>1, AbortCurrentKeeps DEF AllKept, Kept

LEMMA UnchangedKeeps ==
  ASSUME TypeOK, UNCHANGED flow
  PROVE  AllKept
  BY DEF TypeOK, AllKept, Kept

LEMMA ExpiringKeeps ==
  ASSUME TypeOK, NEW f \in Flows, FlowExpires(f)
  PROVE  AllKept
<1> DEFINE new == [flow[f] EXCEPT !.expired = TRUE]
<1>1. flow \in [Flows -> Flow] /\ flow' = [flow EXCEPT ![f] = new]
  BY DEF TypeOK, FlowExpires
<1>2. /\ new \in Flow /\ new.at = flow[f].at /\ new.account = flow[f].account
      /\ new.aborted = flow[f].aborted
  BY <1>1 DEF Flow
<1> HIDE DEF new
<1> QED
  BY <1>1, <1>2 DEF AllKept, Kept

LEMMA DegradingKeeps ==
  ASSUME TypeOK, NEW ls, MarkAuthDegraded(ls, flow)
  PROVE  AllKept
<1>1. CASE UNCHANGED flow
  BY <1>1, UnchangedKeeps
<1>2. CASE flow' = AbortCurrent(flow)
  BY <1>2, AbortingKeeps
<1> QED
  BY <1>1, <1>2 DEF MarkAuthDegraded, live, NobodyIsLive

\* One flow replaced
LEMMA OneGoes ==
  ASSUME TypeOK, NEW f \in Flows, NEW new \in Flow, flow' = [flow EXCEPT ![f] = new],
         new.at \in Approved => new.account \in Keys
  PROVE  Goes(f, new.at) /\ flow'[f] = new
<1>1. flow \in [Flows -> Flow]
  BY DEF TypeOK
<1>2. /\ flow'[f] = new /\ flow' \in [Flows -> Flow]
      /\ \A g \in Flows : g # f => flow'[g] = flow[g]
  BY <1>1
<1> QED
  BY <1>2 DEF Goes, Kept

LEMMA DoneFlow ==
  LET new == [NewFlow EXCEPT !.at = "done"] IN new \in Flow /\ new.at = "done"
  BY DEF NewFlow, Flow, Identity

LEMMA EndedGoes ==
  ASSUME TypeOK, NEW f \in Flows, flow' = Ended(f)
  PROVE  Goes(f, "done") /\ StaysAborted(f)
<1>0. flow[f] \in Flow
  BY DEF TypeOK
<1>1. CASE f = CurrentFlow
  <2> DEFINE mid == [flow[f] EXCEPT !.at = "done"]
             new == [mid EXCEPT !.account = None]
  <2>1. flow' = [flow EXCEPT ![f] = new]
    BY <1>1 DEF Ended, TypeOK
  <2>2. mid \in Flow /\ mid.at = "done" /\ mid.aborted = flow[f].aborted
    BY <1>0 DEF Flow
  <2> HIDE DEF mid
  <2>3. new \in Flow /\ new.at = "done" /\ new.aborted = flow[f].aborted
    BY <2>2 DEF Flow, Identity
  <2> HIDE DEF new
  <2>4. Goes(f, new.at) /\ flow'[f] = new
    BY <2>1, <2>3, OneGoes DEF Approved
  <2> QED
    BY <2>3, <2>4 DEF StaysAborted
<1>2. CASE f # CurrentFlow
  <2> DEFINE new == [NewFlow EXCEPT !.at = "done"]
  <2>1. flow' = [flow EXCEPT ![f] = new]
    BY <1>2 DEF Ended, TypeOK
  <2>2. new \in Flow /\ new.at = "done"
    BY DoneFlow
  <2> HIDE DEF new
  <2>3. Goes(f, new.at)
    BY <2>1, <2>2, OneGoes DEF Approved
  <2> QED
    BY <1>2, <2>2, <2>3 DEF StaysAborted
<1> QED
  BY <1>1, <1>2

LEMMA MovedGoes ==
  ASSUME TypeOK, NEW f \in Flows, NEW at \in {"poll"} \cup Approved,
         at \in Approved => flow[f].account \in Keys
  PROVE  /\ Moved(f, at) \in [Flows -> Flow]
         /\ Moved(f, at)[f].at = at /\ Moved(f, at)[f].account = flow[f].account
         /\ Moved(f, at)[f].aborted = flow[f].aborted
         /\ \A g \in Flows : g # f => Moved(f, at)[g] = flow[g]
         /\ flow' = Moved(f, at) => Goes(f, at) /\ StaysAborted(f)
<1> DEFINE new == [flow[f] EXCEPT !.at = at]
<1>0. flow[f] \in Flow /\ flow \in [Flows -> Flow]
  BY DEF TypeOK
<1>1. Moved(f, at) = [flow EXCEPT ![f] = new]
  BY <1>0 DEF Moved
<1>2. /\ new \in Flow /\ new.at = at /\ new.account = flow[f].account
      /\ new.aborted = flow[f].aborted
  BY <1>0 DEF Flow, Approved
<1> HIDE DEF new
<1>3. ASSUME flow' = Moved(f, at) PROVE Goes(f, at) /\ StaysAborted(f)
  <2>1. Goes(f, new.at) /\ flow'[f] = new
    BY <1>1, <1>2, <1>3, OneGoes
  <2> QED
    BY <1>2, <2>1 DEF StaysAborted
<1> QED
  BY <1>0, <1>1, <1>2, <1>3

LEMMA AfterMintGoes ==
  ASSUME TypeOK, NEW f \in Flows, flow[f].account \in Keys, flow' = AfterMint(f)
  PROVE  /\ StaysAborted(f)
         /\ (flow[f].aborted /\ Goes(f, "done")) \/ Goes(f, "models")
<1>1. CASE flow[f].aborted
  BY <1>1, EndedGoes DEF AfterMint
<1>2. CASE ~flow[f].aborted
  BY <1>2, MovedGoes DEF AfterMint, Approved
<1> QED
  BY <1>1, <1>2

LEMMA AuthShape ==
  ASSUME TypeOK
  PROVE  /\ CurrentFlow \in Flows \cup {None}
         /\ captureResumeTarget \in Identity
<1>1. CASE \E f \in Flows : auth = Polling(f)
  <2>1. PICK f \in Flows : auth = Polling(f)
    BY <1>1
  <2>2. CurrentFlow = f
    BY <2>1 DEF CurrentFlow, Polling
  <2>3. flow[f].resume \in Identity
    BY DEF TypeOK, Flow
  <2> QED
    BY <2>2, <2>3, NoneAssumption DEF captureResumeTarget
<1>2. CASE \E a \in Keys : auth = SignedIn(a)
  BY <1>2 DEF CurrentFlow, SignedIn, captureResumeTarget, Identity
<1>3. CASE auth \in {SignedOut, Error}
  BY <1>3 DEF CurrentFlow, SignedOut, Error, captureResumeTarget, Identity
<1> QED
  BY <1>1, <1>2, <1>3 DEF TypeOK, AuthState

LEMMA StartGoes ==
  ASSUME TypeOK, NEW f \in Flows, StartDeviceFlow(f)
  PROVE  Goes(f, "code") /\ StaysAborted(f)
<1> DEFINE fs == AbortCurrent(flow)
           mid == [fs[f] EXCEPT !.at = "code"]
           new == [mid EXCEPT !.resume = captureResumeTarget]
<1>1. /\ fs \in [Flows -> Flow]
      /\ \A g \in Flows : /\ fs[g].at = flow[g].at /\ fs[g].account = flow[g].account
                          /\ fs[g].aborted = (flow[g].aborted \/ g = CurrentFlow)
  BY AbortCurrentKeeps DEF TypeOK
<1>2. flow' = [fs EXCEPT ![f] = new]
  BY <1>1 DEF StartDeviceFlow
<1> HIDE DEF fs
<1>3. mid \in Flow /\ mid.at = "code" /\ mid.aborted = fs[f].aborted
  BY <1>1 DEF Flow
<1> HIDE DEF mid
<1>4. new \in Flow /\ new.at = "code" /\ new.aborted = fs[f].aborted
  BY <1>3, AuthShape DEF Flow
<1> HIDE DEF new
<1>5. /\ flow' \in [Flows -> Flow] /\ flow'[f] = new
      /\ \A g \in Flows : g # f => flow'[g] = fs[g]
  BY <1>1, <1>2, <1>4
<1> QED
  BY <1>1, <1>4, <1>5 DEF Goes, Kept, StaysAborted, Approved

LEMMA ReturnsGoes ==
  ASSUME TypeOK, NEW f \in Flows, NEW a \in Keys, PollReturns(f, a)
  PROVE  Goes(f, "verify") /\ StaysAborted(f)
<1> DEFINE mid == [flow[f] EXCEPT !.at = "verify"]
           new == [mid EXCEPT !.account = a]
<1>1. flow[f] \in Flow /\ flow' = [flow EXCEPT ![f] = new]
  BY DEF TypeOK, PollReturns
<1>2. mid \in Flow /\ mid.at = "verify" /\ mid.aborted = flow[f].aborted
  BY <1>1 DEF Flow
<1> HIDE DEF mid
<1>3. new \in Flow /\ new.at = "verify" /\ new.account = a /\ new.aborted = flow[f].aborted
  BY <1>2 DEF Flow, Identity
<1> HIDE DEF new
<1>4. Goes(f, new.at) /\ flow'[f] = new
  BY <1>1, <1>3, OneGoes
<1> QED
  BY <1>3, <1>4 DEF StaysAborted

LEMMA RejectedGoes ==
  ASSUME TypeOK, NEW f \in Flows, flow[f].account \in Keys, PollerMintRejected(f)
  PROVE  Goes(f, "degrade") /\ StaysAborted(f)
<1> DEFINE fs == Moved(f, "degrade")
<1>1. /\ fs \in [Flows -> Flow]
      /\ fs[f].at = "degrade" /\ fs[f].account = flow[f].account
      /\ fs[f].aborted = flow[f].aborted
      /\ \A g \in Flows : g # f => fs[g] = flow[g]
  BY MovedGoes DEF Approved
<1>2. CASE flow' = fs
  BY <1>2, MovedGoes DEF Approved
<1>3. CASE flow' = AbortCurrent(fs)
  <2> HIDE DEF fs
  <2>1. /\ AbortCurrent(fs) \in [Flows -> Flow]
        /\ \A g \in Flows :
             /\ AbortCurrent(fs)[g].at = fs[g].at
             /\ AbortCurrent(fs)[g].account = fs[g].account
             /\ AbortCurrent(fs)[g].aborted = (fs[g].aborted \/ g = CurrentFlow)
    BY <1>1, AbortCurrentKeeps
  <2> QED
    BY <1>1, <1>3, <2>1 DEF Goes, Kept, StaysAborted
<1> QED
  BY <1>2, <1>3 DEF PollerMintRejected, MarkAuthDegraded, live, NobodyIsLive

\* Where each step of a poller takes its flow
LEMMA PollerGoes ==
  ASSUME TypeOK, CarriedOK, NEW f \in Flows
  PROVE  /\ DeviceCodeIssued(f) => Goes(f, "poll") /\ StaysAborted(f)
         /\ DeviceCodeFails(f) \/ PollerFails(f) \/ PollerDegraded(f)
              => Goes(f, "done") /\ StaysAborted(f)
         /\ VerifyReturns(f)
              => /\ StaysAborted(f)
                 /\ (flow[f].aborted /\ Goes(f, "done")) \/ Goes(f, "read")
         /\ AddAccountReads(f) => Goes(f, "write") /\ StaysAborted(f)
         /\ AddAccountWrites(f)
              => /\ StaysAborted(f)
                 /\ \/ flow[f].aborted /\ Goes(f, "done")
                    \/ Goes(f, "mint") \/ Goes(f, "models")
         /\ PollerMints(f) \/ PollerMintThrows(f)
              => /\ StaysAborted(f)
                 /\ (flow[f].aborted /\ Goes(f, "done")) \/ Goes(f, "models")
         /\ PollerSignsIn(f) => Goes(f, "done")
<1>0. flow[f] \in Flow /\ (flow[f].at \in Approved => flow[f].account \in Keys)
  BY DEF TypeOK, CarriedOK
<1>1. DeviceCodeIssued(f) => Goes(f, "poll") /\ StaysAborted(f)
  BY MovedGoes DEF DeviceCodeIssued, Approved, live
<1>2. DeviceCodeFails(f) \/ PollerFails(f) \/ PollerDegraded(f)
        => Goes(f, "done") /\ StaysAborted(f)
  BY EndedGoes DEF DeviceCodeFails, PollerFails, PollerDegraded, live
<1>3. VerifyReturns(f)
        => /\ StaysAborted(f)
           /\ (flow[f].aborted /\ Goes(f, "done")) \/ Goes(f, "read")
  BY <1>0, EndedGoes, MovedGoes DEF VerifyReturns, Approved
<1>4. AddAccountReads(f) => Goes(f, "write") /\ StaysAborted(f)
  BY <1>0, MovedGoes DEF AddAccountReads, Approved
<1>5. AddAccountWrites(f)
        => /\ StaysAborted(f)
           /\ \/ flow[f].aborted /\ Goes(f, "done")
              \/ Goes(f, "mint") \/ Goes(f, "models")
  BY <1>0, MovedGoes, AfterMintGoes DEF AddAccountWrites, Approved, live
<1>6. PollerMints(f) \/ PollerMintThrows(f)
        => /\ StaysAborted(f)
           /\ (flow[f].aborted /\ Goes(f, "done")) \/ Goes(f, "models")
  BY <1>0, AfterMintGoes DEF PollerMints, PollerMintThrows, Approved, live
<1>7. PollerSignsIn(f) => Goes(f, "done")
  <2> DEFINE new == [NewFlow EXCEPT !.at = "done"]
  <2>1. new \in Flow /\ new.at = "done"
    BY DoneFlow
  <2>2. PollerSignsIn(f) => flow' = [flow EXCEPT ![f] = new]
    BY DEF PollerSignsIn, live
  <2> HIDE DEF new
  <2>3. PollerSignsIn(f) => Goes(f, new.at)
    BY <2>1, <2>2, OneGoes DEF Approved
  <2> QED
    BY <2>1, <2>3
<1> QED
  BY <1>1, <1>2, <1>3, <1>4, <1>5, <1>6, <1>7

\* A step of the system that is not a flow's own takes no flow anywhere.
LEMMA OtherStepsKeep ==
  ASSUME TypeOK, [Next]_vars, ~Restart,
         \A f \in Flows : ~StartDeviceFlow(f) /\ ~FlowStep(f)
  PROVE  AllKept
<1>1. CASE UNCHANGED flow
  BY <1>1, UnchangedKeeps
<1>2. CASE flow' = AbortCurrent(flow)
  BY <1>2, AbortingKeeps
<1>3. ASSUME NEW ls, MarkAuthDegraded(ls, flow) PROVE AllKept
  BY <1>3, DegradingKeeps
<1>4. CASE \E f \in Flows : FlowExpires(f)
  BY <1>4, ExpiringKeeps
<1>5. CASE \E l \in Loops : LoopStep(l)
  BY <1>1, <1>3, <1>5 DEF LoopStep, LoopRequests, LoopRefreshes, LoopRejected,
                          LoopEscalates, LoopThrows, LoopEnds, live
<1>6. CASE SweepStep
  BY <1>1, <1>6 DEF SweepStep, SweepReads, SweepWrites, RecoveryStep, RecoveryLists,
                    CandidateFails, CandidatePasses, CandidateMints, RecoveryReads,
                    PinWrites, FlagWrites, RecoverySignsIn, live
<1>7. CASE \E r \in Requests : RequestStep(r)
  BY <1>1, <1>3, <1>7 DEF RequestStep, RequestSent, RequestServed, RequestRejected
<1>8. CASE BootStep
  BY <1>1, <1>3, <1>8
     DEF BootStep, BootReadsToken, BootFails, BootFindsUser, BootMints, BootRejected,
         BootDegraded, BootSignsIn, live, TakesStored, TakesGiven
<1>9. CASE \/ \E c \in Clears : ClearStep(c)
           \/ SignOutStep \/ GraceExpires \/ UNCHANGED vars
  BY <1>1, <1>9 DEF ClearStep, ClearReads, ClearWrites, SignOutStep, SignOutReads,
                    SignOutWrites, GraceExpires, vars
<1>10. CASE cancelDeviceFlow \/ SignOut
  BY <1>2, <1>10 DEF cancelDeviceFlow, SignOut, live, NobodyIsLive
<1> QED
  BY <1>4, <1>5, <1>6, <1>7, <1>8, <1>9, <1>10 DEF Next

-----------------------------------------------------------------------------
(* The registry, and what the helpers have read of it.                     *)
LEMMA HoldHolds ==
  ASSUME RegistriesOK, NEW h \in Helpers, Hold(h)
  PROVE  /\ held' \in [Helpers -> Sound \cup {None}]
         /\ held'[h] = registry /\ held'[h] # None
         /\ \A g \in Helpers : g # h => held'[g] = held[g]
<1>1. registry \in Sound /\ registry # None
  BY NoneAssumption DEF RegistriesOK, Sound
<1> QED
  BY <1>1 DEF RegistriesOK, Hold

LEMMA LetGoHolds ==
  ASSUME RegistriesOK, NEW h \in Helpers, LetGo(h)
  PROVE  /\ held' \in [Helpers -> Sound \cup {None}]
         /\ \A g \in Helpers : g # h => held'[g] = held[g]
  BY DEF RegistriesOK, LetGo

LEMMA HelpersHere ==
  /\ "sweep" \in Helpers /\ "signOut" \in Helpers
  /\ \A f \in Flows : f \in Helpers
  /\ \A c \in Clears : c \in Helpers
  BY DEF Helpers

LEMMA PointedFlag ==
  ASSUME NEW r \in Sound \cup {None}, Pointed(r)
  PROVE  /\ markNeedsReauth(r, r.activeKey) \in Sound
         /\ clearNeedsReauth(r, r.activeKey) \in Sound
<1>1. r \in Sound /\ r.activeKey \in Keys
  BY DEF Pointed, Sound, AccountRegistries
<1> QED
  BY <1>1, FlagSound DEF markNeedsReauth, clearNeedsReauth

\* Whatever the boot reads or lifts is sound too, and names the live account,
\* or the credential was given from elsewhere.
LEMMA TakenRegistry ==
  ASSUME registry \in AccountRegistries, TakesStored \/ TakesGiven
  PROVE  /\ registry' \in AccountRegistries /\ github' \in Identity
         /\ WellFormed(registry) => WellFormed(registry')
         /\ github' # None => registry'.activeKey = github' \/ outside'
<1>1. CASE UNCHANGED registry /\ TakesStored
  <2>1. registry.activeKey \in Keys \cup {NoKey}
    BY DEF AccountRegistries
  <2> QED
    BY <1>1, <2>1 DEF TakesStored, getActiveRecord, Identity, WellFormed, HasAccount
<1>2. CASE TakesStored /\ ~UNCHANGED registry
  <2>1. PICK a \in Given : registry' = addAndActivate(emptyRegistry, a, a)
    BY <1>2 DEF TakesStored
  <2>2. a \in Keys /\ a \in Tokens /\ emptyRegistry \in AccountRegistries
    BY GivenAssumption, CredentialAssumption, EmptySound DEF Sound
  <2>3. registry' \in Sound
    BY <2>1, <2>2, AddSound
  <2>4. registry'.activeKey = a
    BY <2>1 DEF addAndActivate
  <2> QED
    BY <1>2, <2>2, <2>3, <2>4 DEF TakesStored, Sound, Identity
<1>3. CASE TakesGiven
  BY <1>3, GivenAssumption DEF TakesGiven, Identity, WellFormed, HasAccount
<1> QED
  BY <1>1, <1>2, <1>3

\* Whatever a helper writes is a sound registry.
LEMMA RegistriesStep ==
  ASSUME TypeOK, RegistriesOK, HeldOK, CarriedOK, [Next]_vars
  PROVE  RegistriesOK'
<1>1. CASE UNCHANGED disk
  BY <1>1 DEF disk, RegistriesOK
<1>2. ASSUME NEW h \in Helpers, Hold(h), UNCHANGED registry PROVE RegistriesOK'
  BY <1>2, HoldHolds DEF RegistriesOK
<1>3. ASSUME NEW h \in Helpers, LetGo(h), registry' \in Sound PROVE RegistriesOK'
  BY <1>3, LetGoHolds DEF RegistriesOK
<1>4. registry \in Sound
  BY DEF RegistriesOK
<1>5. CASE \E f \in Flows : StartDeviceFlow(f) \/ FlowStep(f) \/ FlowExpires(f)
  <2>1. PICK f \in Flows : StartDeviceFlow(f) \/ FlowStep(f) \/ FlowExpires(f)
    BY <1>5
  <2>2. f \in Helpers
    BY HelpersHere
  <2>3. CASE PollThrows(f) \/ VerifyThrows(f) \/ AddAccountThrows(f)
    BY <1>3, <1>4, <2>2, <2>3 DEF PollThrows, VerifyThrows, AddAccountThrows, PollerFails, live
  <2>4. CASE AddAccountReads(f)
    BY <1>2, <2>2, <2>4 DEF AddAccountReads
  <2>5. CASE AddAccountWrites(f)
    <3> DEFINE a == flow[f].account
    <3>1. flow[f].at = "write" /\ LetGo(f) /\ registry' = addAndActivate(held[f], a, a)
      BY <2>5 DEF AddAccountWrites, live
    <3>2. held[f] \in Sound
      BY <2>2, <3>1 DEF RegistriesOK, HeldOK
    <3>3. held[f] \in AccountRegistries
      BY <3>2 DEF Sound
    <3>4. a \in Keys /\ a \in Tokens
      BY <3>1, CredentialAssumption DEF CarriedOK, Approved
    <3> HIDE DEF a
    <3>5. addAndActivate(held[f], a, a) \in Sound
      BY <3>3, <3>4, AddSound
    <3> QED
      BY <1>3, <2>2, <3>1, <3>5
  <2> QED
    BY <1>1, <2>1, <2>3, <2>4, <2>5
       DEF StartDeviceFlow, FlowStep, FlowExpires, DeviceCodeIssued, DeviceCodeFails,
           PollReturns, VerifyReturns, PollerMints, PollerMintThrows, PollerMintRejected,
           PollerDegraded, PollerSignsIn, live
<1>6. CASE \E l \in Loops : LoopStep(l)
  BY <1>1, <1>6 DEF LoopStep, LoopRequests, LoopRefreshes, LoopRejected, LoopEscalates,
                    LoopThrows, LoopEnds, live
<1>7. CASE \E c \in Clears : ClearStep(c)
  <2>1. PICK c \in Clears : ClearStep(c)
    BY <1>7
  <2>2. c \in Helpers
    BY HelpersHere
  <2>3. CASE ClearReads(c)
    <3>1. CASE UNCHANGED held
      BY <1>1, <2>3, <3>1 DEF ClearReads, disk
    <3>2. CASE Hold(c)
      BY <1>2, <2>2, <2>3, <3>2 DEF ClearReads
    <3> QED
      BY <2>3, <3>1, <3>2 DEF ClearReads
  <2>4. CASE ClearWrites(c)
    <3>1. held[c] \in Sound \cup {None} /\ Pointed(held[c])
      BY <2>2, <2>4 DEF RegistriesOK, HeldOK, ClearWrites
    <3>2. clearNeedsReauth(held[c], held[c].activeKey) \in Sound
      BY <3>1, PointedFlag
    <3> QED
      BY <1>3, <1>4, <2>2, <2>4, <3>2 DEF ClearWrites
  <2> QED
    BY <2>1, <2>3, <2>4 DEF ClearStep
<1>8. CASE SignOutStep
  <2>1. CASE SignOutReads
    <3>1. CASE UNCHANGED held
      BY <1>1, <2>1, <3>1 DEF SignOutReads, disk
    <3>2. CASE Hold("signOut")
      BY <1>2, <2>1, <3>2, HelpersHere DEF SignOutReads
    <3> QED
      BY <2>1, <3>1, <3>2 DEF SignOutReads
  <2>2. CASE SignOutWrites
    <3>1. held["signOut"] \in Sound
      BY <2>2, HelpersHere DEF RegistriesOK, HeldOK, SignOutWrites
    <3>2. deactivate(held["signOut"]) \in Sound
      BY <3>1, DeactivateSound
    <3> QED
      BY <1>3, <1>4, <2>2, <3>2, HelpersHere DEF SignOutWrites
  <2> QED
    BY <1>8, <2>1, <2>2 DEF SignOutStep
<1>9. CASE SweepReads
  <2>1. CASE UNCHANGED held
    BY <1>1, <1>9, <2>1 DEF SweepReads, disk, live
  <2>2. CASE Hold("sweep")
    BY <1>2, <1>9, <2>2, HelpersHere DEF SweepReads, live
  <2> QED
    BY <1>9, <2>1, <2>2 DEF SweepReads, live
<1>10. CASE SweepWrites
  <2>1. held["sweep"] \in Sound \cup {None} /\ Pointed(held["sweep"])
    BY <1>10, HelpersHere DEF RegistriesOK, HeldOK, SweepWrites, live
  <2>2. markNeedsReauth(held["sweep"], held["sweep"].activeKey) \in Sound
    BY <2>1, PointedFlag
  <2> QED
    BY <1>3, <1>4, <1>10, <2>2, HelpersHere DEF SweepWrites, live
<1>11. CASE RecoveryStep
  <2>1. CASE RecoveryReads
    BY <1>2, <2>1, HelpersHere DEF RecoveryReads
  <2>2. CASE PinWrites \/ FlagWrites
    <3>1. sweep.at \in {"pinWrite", "flagWrite"}
      BY <2>2 DEF PinWrites, FlagWrites, RecoveryMoves, live
    <3>2. held["sweep"] \in Sound /\ sweep.of \in Keys
      BY <3>1, HelpersHere DEF RegistriesOK, HeldOK, CarriedOK, Trying
    <3>3. setActive(held["sweep"], sweep.of) \in Sound
      BY <3>2, SetActiveSound
    <3>4. /\ clearNeedsReauth(setActive(held["sweep"], sweep.of), sweep.of) \in Sound
          /\ markNeedsReauth(held["sweep"], sweep.of) \in Sound
      BY <3>2, <3>3, FlagSound DEF clearNeedsReauth, markNeedsReauth
    <3> QED
      BY <1>3, <1>4, <2>2, <3>4, HelpersHere DEF PinWrites, FlagWrites, live
  <2> QED
    BY <1>1, <1>11, <2>1, <2>2
       DEF RecoveryStep, RecoveryLists, CandidateFails, CandidatePasses, CandidateMints,
           RecoverySignsIn, live
<1>12. CASE \E r \in Requests : RequestStep(r)
  BY <1>1, <1>12 DEF RequestStep, RequestSent, RequestServed, RequestRejected
<1>13. CASE BootStep
  <2>1. CASE BootReadsToken
    <3>1. registry' \in Sound
      BY <1>4, <2>1, TakenRegistry DEF BootReadsToken, Sound
    <3> QED
      BY <2>1, <3>1 DEF BootReadsToken, RegistriesOK
  <2> QED
    BY <1>1, <1>13, <2>1
       DEF BootStep, BootFails, BootFindsUser, BootMints, BootRejected, BootDegraded,
           BootSignsIn
<1>14. CASE Restart
  BY <1>4, <1>14 DEF Restart, RegistriesOK, NobodyIsLive
<1>15. CASE cancelDeviceFlow \/ SignOut \/ GraceExpires \/ UNCHANGED vars
  BY <1>1, <1>15 DEF cancelDeviceFlow, SignOut, GraceExpires, vars, live, NobodyIsLive
<1> QED
  BY <1>5, <1>6, <1>7, <1>8, <1>9, <1>10, <1>11, <1>12, <1>13, <1>14, <1>15
     DEF Next, SweepStep

-----------------------------------------------------------------------------
(* The sweep.                                                              *)
DropsNow == ~inGrace /\ ~inGrace' /\ github' = None

SweepKeeps ==
  /\ sweep' \in Sweep
  /\ sweep'.at \in Trying => sweep'.of \in Keys
  /\ sweep.at # "idle" /\ sweep'.at = "idle" => auth'.kind # "polling"
  /\ sweep'.at \in Dropping
       => sweep.at \in Dropping \/ DropsNow

LEMMA SweepShapes ==
  /\ \A at \in {"idle", "read", "write", "list"} : SweepAt(at) \in Sweep /\ SweepAt(at).at = at
  /\ NoSweep \in Sweep /\ NoSweep.at = "idle"
  BY DEF SweepAt, NoSweep, Sweep, Identity

LEMMA UnchangedSweeps ==
  ASSUME TypeOK, CarriedOK, UNCHANGED sweep
  PROVE  SweepKeeps
<1>1. sweep \in Sweep /\ (sweep.at \in Trying => sweep.of \in Keys) /\ sweep' = sweep
  BY DEF TypeOK, CarriedOK
<1> QED
  BY <1>1 DEF SweepKeeps

\* The sweep is where nothing is carried and nothing dropped.
LEMMA PlainSweeps ==
  ASSUME TypeOK, NEW at \in {"idle", "read", "write", "list"}, sweep' = SweepAt(at),
         at = "idle" => auth'.kind # "polling",
         at # "idle" => sweep.at \in Dropping
  PROVE  SweepKeeps
<1>1. sweep' \in Sweep /\ sweep'.at = at
  BY SweepShapes
<1> QED
  BY <1>1 DEF SweepKeeps, Trying, Dropping

LEMMA DegradeSweeps ==
  ASSUME TypeOK, CarriedOK, UNCHANGED inGrace, NEW ls, NEW fs, MarkAuthDegraded(ls, fs)
  PROVE  /\ SweepKeeps
         /\ github' \in Identity /\ copilot' \in Identity
         /\ (~inGrace /\ sweep.at = "idle") \/ UNCHANGED <<github, copilot, sweep>>
<1>1. CASE UNCHANGED sweep
  <2>1. SweepKeeps
    BY <1>1, UnchangedSweeps
  <2>2. /\ github' \in Identity /\ copilot' \in Identity
        /\ (~inGrace /\ sweep.at = "idle") \/ UNCHANGED <<github, copilot, sweep>>
    BY <1>1 DEF TypeOK, MarkAuthDegraded, Identity, live, NobodyIsLive
  <2> QED
    BY <2>1, <2>2
<1>2. CASE sweep' = SweepAt("read") /\ ~UNCHANGED sweep
  <2>1. DropsNow
    BY <1>2 DEF DropsNow, MarkAuthDegraded, live, NobodyIsLive
  <2>2. SweepKeeps
    BY <1>2, <2>1, SweepShapes DEF SweepKeeps, Dropping, Trying
  <2>3. github' = None /\ copilot' = None /\ ~inGrace /\ sweep.at = "idle"
    BY <1>2 DEF MarkAuthDegraded, live, NobodyIsLive
  <2> QED
    BY <2>2, <2>3 DEF Identity
<1> QED
  BY <1>1, <1>2 DEF MarkAuthDegraded, live, NobodyIsLive

LEMMA TriesNextSweeps ==
  ASSUME TypeOK, CarriedOK, NEW rest \in SUBSET Keys, TriesNext(rest)
  PROVE  SweepKeeps /\ auth' \in AuthState /\ github' \in Identity /\ copilot' \in Identity
<1>1. CASE /\ rest # {}
           /\ \E a \in rest : sweep' = [at |-> "preflight", of |-> a, rest |-> rest \ {a}]
           /\ UNCHANGED session
  <2>1. PICK a \in rest : sweep' = [at |-> "preflight", of |-> a, rest |-> rest \ {a}]
    BY <1>1
  <2> QED
    BY <1>1, <2>1 DEF SweepKeeps, Sweep, Identity, Dropping, session, TypeOK, live
<1>2. CASE sweep' = NoSweep /\ github' = None /\ copilot' = None /\ auth' = Error
  BY <1>2, SweepShapes DEF SweepKeeps, Trying, Dropping, Error, AuthState, Identity
<1> QED
  BY <1>1, <1>2 DEF TriesNext, NobodyIsLive

LEMMA MovesSweeps ==
  ASSUME TypeOK, CarriedOK, NEW from \in Trying, NEW to \in Trying, RecoveryMoves(from, to)
  PROVE  SweepKeeps
<1>1. /\ sweep \in Sweep /\ sweep.at = from /\ sweep' = [sweep EXCEPT !.at = to]
      /\ sweep.of \in Keys
  BY DEF TypeOK, CarriedOK, RecoveryMoves
<1>2. sweep' \in Sweep /\ sweep'.at = to /\ sweep'.of = sweep.of
  BY <1>1 DEF Sweep, Trying
<1> QED
  BY <1>1, <1>2 DEF SweepKeeps, Trying, Dropping

LEMMA GivesUpSweeps ==
  ASSUME TypeOK, CarriedOK, sweep.at \in {"read", "write"}, GivesUp
  PROVE  SweepKeeps /\ auth' \in AuthState
<1>1. CASE sweep' = SweepAt("list") /\ UNCHANGED auth
  BY <1>1, PlainSweeps DEF Dropping, TypeOK
<1>2. CASE sweep' = NoSweep /\ auth' = Error
  <2>1. auth'.kind # "polling" /\ auth' \in AuthState
    BY <1>2 DEF Error, AuthState
  <2> QED
    BY <1>2, <2>1, PlainSweeps DEF NoSweep
<1> QED
  BY <1>1, <1>2 DEF GivesUp

LEMMA CopilotReadyTypes ==
  ASSUME TypeOK, NEW a \in Identity, CopilotReady(a)
  PROVE  /\ copilot' \in Identity
         /\ clear' \in [Clears -> {"free", "read", "write"}]
         /\ \A c \in Clears : clear'[c] = "write" => clear[c] = "write"
  BY DEF CopilotReady, SpawnClear, TypeOK

LEMMA CandidatesAreKeys == Candidates \in SUBSET Keys
  BY DEF Candidates

\* What every step but a restart keeps of the session
SessionKeeps ==
  /\ auth' \in AuthState
  /\ github' \in Identity /\ copilot' \in Identity
  /\ inGrace' \in BOOLEAN
  /\ clear' \in [Clears -> {"free", "read", "write"}]
  /\ SweepKeeps

ClearsKept == \A c \in Clears : clear'[c] = "write" => clear[c] = "write"

\* A step of the sweep itself
LEMMA SweepStepTypes ==
  ASSUME TypeOK, CarriedOK, SweepStep
  PROVE  SessionKeeps /\ ClearsKept
<1>0. /\ auth \in AuthState /\ github \in Identity /\ copilot \in Identity
      /\ inGrace \in BOOLEAN /\ clear \in [Clears -> {"free", "read", "write"}]
      /\ sweep \in Sweep /\ sweep.of \in Identity
  BY DEF TypeOK, Sweep
<1>1. CASE SweepReads
  <2>1. CASE GivesUp
    BY <1>0, <1>1, <2>1, GivesUpSweeps DEF SweepReads, env, SessionKeeps, ClearsKept, live
  <2>2. CASE sweep' = SweepAt("write") /\ UNCHANGED auth
    <3>1. SweepKeeps
      BY <1>1, <2>2, PlainSweeps DEF SweepReads, Dropping, live
    <3> QED
      BY <1>0, <1>1, <2>2, <3>1 DEF SweepReads, env, SessionKeeps, ClearsKept, live
  <2> QED
    BY <1>1, <2>1, <2>2 DEF SweepReads, live
<1>2. CASE SweepWrites
  BY <1>0, <1>2, GivesUpSweeps DEF SweepWrites, env, SessionKeeps, ClearsKept, live
<1>3. CASE RecoveryLists
  BY <1>0, <1>3, CandidatesAreKeys, TriesNextSweeps DEF RecoveryLists, env, SessionKeeps, ClearsKept
<1>4. CASE CandidateFails
  BY <1>0, <1>4, MovesSweeps DEF CandidateFails, session, env, Trying, SessionKeeps, ClearsKept, live
<1>5. CASE CandidatePasses
  <2>1. SweepKeeps
    BY <1>5, MovesSweeps DEF CandidatePasses, Trying
  <2>2. CASE CopilotReady(sweep.of)
    BY <1>0, <1>5, <2>1, <2>2, CopilotReadyTypes DEF CandidatePasses, env, SessionKeeps, ClearsKept
  <2>3. CASE UNCHANGED <<copilot, clear>>
    BY <1>0, <1>5, <2>1, <2>3 DEF CandidatePasses, env, SessionKeeps, ClearsKept
  <2> QED
    BY <1>5, <2>2, <2>3 DEF CandidatePasses
<1>6. CASE CandidateMints
  <2>1. SweepKeeps
    BY <1>6, MovesSweeps DEF CandidateMints, Trying, live
  <2> QED
    BY <1>0, <1>6, <2>1, CopilotReadyTypes DEF CandidateMints, env, SessionKeeps, ClearsKept, live
<1>7. CASE RecoveryReads \/ PinWrites
  BY <1>0, <1>7, MovesSweeps
     DEF RecoveryReads, PinWrites, session, env, Trying, SessionKeeps, ClearsKept, live
<1>8. CASE FlagWrites
  <2>0. sweep.rest \in SUBSET Keys
    BY <1>0 DEF Sweep
  <2>1. CASE TriesNext(sweep.rest)
    BY <1>0, <1>8, <2>0, <2>1, TriesNextSweeps
       DEF FlagWrites, env, SessionKeeps, ClearsKept, live
  <2>2. CASE sweep' = NoSweep /\ auth' = Error /\ UNCHANGED <<github, copilot, registry>>
    BY <1>0, <1>8, <2>2, SweepShapes
       DEF FlagWrites, env, SweepKeeps, Trying, Dropping, Error, AuthState,
           SessionKeeps, ClearsKept, live
  <2> QED
    BY <1>8, <2>1, <2>2 DEF FlagWrites, live
<1>9. CASE RecoverySignsIn
  <2>1. sweep.of \in Keys
    BY <1>9 DEF RecoverySignsIn, CarriedOK, Trying, live
  <2>2. /\ auth' \in AuthState /\ auth'.kind = "signed-in"
        /\ sweep' = NoSweep /\ inGrace' = TRUE
    BY <1>9, <2>1 DEF RecoverySignsIn, AuthState, SignedIn, live
  <2> QED
    BY <1>0, <1>9, <2>2, SweepShapes
       DEF RecoverySignsIn, SweepKeeps, Trying, Dropping, SessionKeeps, ClearsKept, live
<1>10. SweepReads \/ SweepWrites \/ RecoveryStep
  BY DEF SweepStep
<1> QED
  BY <1>1, <1>2, <1>3, <1>4, <1>5, <1>6, <1>7, <1>8, <1>9, <1>10 DEF RecoveryStep

LEMMA ResumedType ==
  ASSUME TypeOK, NEW f \in Flows, NEW otherwise \in AuthState
  PROVE  Resumed(f, otherwise) \in AuthState
<1>1. flow[f].resume \in Identity
  BY DEF TypeOK, Flow
<1> QED
  BY <1>1 DEF Resumed, Identity, AuthState

\* A step of a flow
LEMMA FlowStepTypes ==
  ASSUME TypeOK, CarriedOK, NEW f \in Flows,
         StartDeviceFlow(f) \/ FlowStep(f) \/ FlowExpires(f)
  PROVE  SessionKeeps /\ ClearsKept
<1>0. /\ auth \in AuthState /\ github \in Identity /\ copilot \in Identity
      /\ inGrace \in BOOLEAN /\ clear \in [Clears -> {"free", "read", "write"}]
      /\ Error \in AuthState /\ Polling(f) \in AuthState
  BY DEF TypeOK, AuthState
<1>1. CASE PollThrows(f) \/ VerifyThrows(f) \/ AddAccountThrows(f)
  <2>1. PollerFails(f)
    BY <1>1 DEF PollThrows, VerifyThrows, AddAccountThrows
  <2>2. auth' \in AuthState
    BY <1>0, <2>1, ResumedType DEF PollerFails, flowFailureState, live
  <2> QED
    BY <1>0, <2>1, <2>2, UnchangedSweeps
       DEF PollerFails, tails, env, SessionKeeps, ClearsKept, live
<1>2. CASE AddAccountWrites(f)
  <2>1. flow[f].account \in Keys
    BY <1>2 DEF AddAccountWrites, CarriedOK, Approved, live
  <2>2. SweepKeeps
    BY <1>2, UnchangedSweeps DEF AddAccountWrites, live
  <2>3. CASE CopilotReady(flow[f].account)
    BY <1>0, <1>2, <2>1, <2>2, <2>3, CopilotReadyTypes
       DEF AddAccountWrites, env, SessionKeeps, ClearsKept, Identity, live
  <2>4. CASE UNCHANGED <<copilot, clear, loops>>
    BY <1>0, <1>2, <2>1, <2>2, <2>4
       DEF AddAccountWrites, env, SessionKeeps, ClearsKept, Identity, live
  <2> QED
    BY <1>2, <2>3, <2>4 DEF AddAccountWrites, live
<1>3. CASE PollerMints(f)
  <2>1. flow[f].account \in Identity
    BY DEF TypeOK, Flow
  <2> QED
    BY <1>0, <1>3, <2>1, CopilotReadyTypes, UnchangedSweeps
       DEF PollerMints, env, SessionKeeps, ClearsKept, live
<1>4. CASE PollerMintRejected(f)
  BY <1>0, <1>4, DegradeSweeps DEF PollerMintRejected, env, SessionKeeps, ClearsKept
<1>5. CASE PollerSignsIn(f)
  <2>1. auth' \in AuthState
    BY <1>5 DEF PollerSignsIn, CarriedOK, Approved, AuthState, live
  <2> QED
    BY <1>0, <1>5, <2>1, UnchangedSweeps DEF PollerSignsIn, tails, env, SessionKeeps, ClearsKept, live
<1>6. CASE DeviceCodeIssued(f)
  BY <1>0, <1>6, UnchangedSweeps DEF DeviceCodeIssued, tails, env, SessionKeeps, ClearsKept, live
<1>7. CASE UNCHANGED <<auth, github, copilot, tails, env>>
  BY <1>0, <1>7, UnchangedSweeps DEF tails, env, SessionKeeps, ClearsKept
<1>8. CASE FlowStep(f) /\ ~PollerMintRejected(f) /\ ~PollerMints(f) /\ ~AddAccountWrites(f)
           /\ ~DeviceCodeIssued(f) /\ ~PollerSignsIn(f)
           /\ ~PollThrows(f) /\ ~VerifyThrows(f) /\ ~AddAccountThrows(f)
  BY <1>7, <1>8
     DEF FlowStep, DeviceCodeFails, PollReturns, VerifyReturns, AddAccountReads,
         PollerMintThrows, PollerDegraded, session, live
<1>9. CASE StartDeviceFlow(f) \/ FlowExpires(f)
  BY <1>7, <1>9 DEF StartDeviceFlow, FlowExpires, session, live
<1> QED
  BY <1>1, <1>2, <1>3, <1>4, <1>5, <1>6, <1>8, <1>9

\* A step of a loop, a completion, the boot, the user or the clock
LEMMA OtherStepTypes ==
  ASSUME TypeOK, CarriedOK,
         \/ \E l \in Loops : LoopStep(l)
         \/ \E r \in Requests : RequestStep(r)
         \/ BootStep
         \/ cancelDeviceFlow \/ SignOut \/ SignOutStep \/ GraceExpires \/ UNCHANGED vars
  PROVE  SessionKeeps /\ ClearsKept
<1>0. /\ auth \in AuthState /\ github \in Identity /\ copilot \in Identity
      /\ inGrace \in BOOLEAN /\ clear \in [Clears -> {"free", "read", "write"}]
      /\ SignedOut \in AuthState /\ userName \in Identity
  BY DEF TypeOK, AuthState
<1>1. ASSUME NEW ls, NEW fs, MarkAuthDegraded(ls, fs), UNCHANGED <<auth, inGrace, clear>>
      PROVE  SessionKeeps /\ ClearsKept
  BY <1>0, <1>1, DegradeSweeps DEF SessionKeeps, ClearsKept
<1>2. CASE UNCHANGED <<auth, github, copilot, clear, sweep, inGrace>>
  BY <1>0, <1>2, UnchangedSweeps DEF SessionKeeps, ClearsKept
<1>3. CASE \E l \in Loops : LoopStep(l)
  <2>1. PICK l \in Loops : LoopStep(l)
    BY <1>3
  <2>2. CASE LoopRefreshes(l)
    <3>1. loop[l].sent \in Identity
      BY DEF TypeOK, Loop
    <3>2. clear' \in [Clears -> {"free", "read", "write"}] /\ ClearsKept
      BY <1>0, <2>2 DEF LoopRefreshes, SpawnClear, ClearsKept, live
    <3> QED
      BY <1>0, <2>2, <3>1, <3>2, UnchangedSweeps DEF LoopRefreshes, env, SessionKeeps, live
  <2>3. CASE LoopEscalates(l)
    BY <1>1, <2>3 DEF LoopEscalates, env
  <2> QED
    BY <1>2, <2>1, <2>2, <2>3
       DEF LoopStep, LoopRequests, LoopRejected, LoopThrows, LoopEnds, tails, env,
           session, live
<1>4. CASE \E r \in Requests : RequestStep(r)
  BY <1>1, <1>2, <1>4
     DEF RequestStep, RequestSent, RequestServed, RequestRejected, tails, session, live
<1>5. CASE BootStep
  <2>1. CASE BootReadsToken
    <3>1. github' \in Identity
      BY <2>1, TakenRegistry DEF BootReadsToken, TypeOK
    <3> QED
      BY <1>0, <2>1, <3>1, UnchangedSweeps
         DEF BootReadsToken, tails, SessionKeeps, ClearsKept
  <2>2. CASE BootFails
    BY <1>0, <2>2, UnchangedSweeps
       DEF BootFails, tails, SessionKeeps, ClearsKept, Identity
  <2>3. CASE BootMints
    BY <1>0, <2>3, CopilotReadyTypes, UnchangedSweeps
       DEF BootMints, SessionKeeps, ClearsKept, live
  <2>4. CASE BootRejected
    BY <1>1, <2>4 DEF BootRejected
  <2>5. CASE BootSignsIn
    <3>1. auth' \in AuthState
      BY <1>0, <2>5 DEF BootSignsIn, Identity, AuthState, live
    <3>2. copilot' \in Identity /\ inGrace' \in BOOLEAN
      BY <1>0, <2>5 DEF BootSignsIn, Identity, live
    <3> QED
      BY <1>0, <2>5, <3>1, <3>2, UnchangedSweeps
         DEF BootSignsIn, tails, SessionKeeps, ClearsKept, live
  <2> QED
    BY <1>2, <1>5, <2>1, <2>2, <2>3, <2>4, <2>5
       DEF BootStep, BootFindsUser, BootDegraded, tails, session, live
<1>6. CASE cancelDeviceFlow
  <2>1. CurrentFlow \in Flows
    BY <1>6, AuthShape DEF cancelDeviceFlow, live
  <2>2. auth' \in AuthState
    BY <1>0, <1>6, <2>1, ResumedType DEF cancelDeviceFlow, live
  <2> QED
    BY <1>0, <1>6, <2>2, UnchangedSweeps
       DEF cancelDeviceFlow, tails, env, SessionKeeps, ClearsKept, live
<1>7. CASE SignOut
  BY <1>0, <1>7, UnchangedSweeps DEF SignOut, env, SessionKeeps, ClearsKept, Identity, NobodyIsLive
<1>8. CASE SignOutStep
  BY <1>2, <1>8 DEF SignOutStep, SignOutReads, SignOutWrites, env, session, live
<1>9. CASE GraceExpires
  BY <1>0, <1>9, UnchangedSweeps DEF GraceExpires, session, tails, SessionKeeps, ClearsKept, live
<1>10. CASE UNCHANGED vars
  BY <1>2, <1>10 DEF vars, env, tails, session, live
<1> QED
  BY <1>3, <1>4, <1>5, <1>6, <1>7, <1>8, <1>9, <1>10

-----------------------------------------------------------------------------
(* What the helpers hold, and the accounts flows and sweep carry.          *)
HeldBy(h) == \A g \in Helpers : g # h => held'[g] = held[g]

LEMMA HeldSteps ==
  ASSUME RegistriesOK
  PROVE  /\ \A f \in Flows : StartDeviceFlow(f) \/ FlowStep(f) \/ FlowExpires(f) => HeldBy(f)
         /\ \A c \in Clears : ClearStep(c) => HeldBy(c)
         /\ SignOutStep => HeldBy("signOut")
         /\ SweepStep => HeldBy("sweep")
<1>0. ASSUME NEW h \in Helpers, UNCHANGED held \/ Hold(h) \/ LetGo(h) PROVE HeldBy(h)
  BY <1>0, HoldHolds, LetGoHolds DEF HeldBy
<1>1. ASSUME NEW f \in Flows, StartDeviceFlow(f) \/ FlowStep(f) \/ FlowExpires(f)
      PROVE  HeldBy(f)
  <2>1. UNCHANGED held \/ Hold(f) \/ LetGo(f)
    BY <1>1
       DEF StartDeviceFlow, FlowStep, FlowExpires, DeviceCodeIssued, DeviceCodeFails,
           PollThrows, PollReturns, VerifyThrows, VerifyReturns, AddAccountReads,
           AddAccountThrows, AddAccountWrites, PollerMints, PollerMintThrows,
           PollerMintRejected, PollerDegraded, PollerSignsIn, PollerFails, disk, live
  <2> QED
    BY <1>0, <2>1, HelpersHere
<1>2. ASSUME NEW c \in Clears, ClearStep(c) PROVE HeldBy(c)
  <2>1. UNCHANGED held \/ Hold(c) \/ LetGo(c)
    BY <1>2 DEF ClearStep, ClearReads, ClearWrites
  <2> QED
    BY <1>0, <2>1, HelpersHere
<1>3. SignOutStep => HeldBy("signOut")
  BY <1>0, HelpersHere DEF SignOutStep, SignOutReads, SignOutWrites
<1>4. SweepStep => HeldBy("sweep")
  BY <1>0, HelpersHere
     DEF SweepStep, SweepReads, SweepWrites, RecoveryStep, RecoveryLists, CandidateFails,
         CandidatePasses, CandidateMints, RecoveryReads, PinWrites, FlagWrites,
         RecoverySignsIn, disk, live
<1> QED
  BY <1>1, <1>2, <1>3, <1>4

\* The steps of nobody who holds a registry
Bystander ==
  \/ \E l \in Loops : LoopStep(l)
  \/ \E r \in Requests : RequestStep(r)
  \/ BootStep
  \/ cancelDeviceFlow \/ SignOut \/ GraceExpires \/ UNCHANGED vars

LEMMA BystanderHolds ==
  ASSUME Bystander
  PROVE  UNCHANGED held /\ (signOut' = "write" => signOut = "write")
<1>1. CASE \E l \in Loops : LoopStep(l)
  BY <1>1 DEF LoopStep, LoopRequests, LoopRefreshes, LoopRejected, LoopEscalates,
              LoopThrows, LoopEnds, disk, tails, live
<1>2. CASE \E r \in Requests : RequestStep(r)
  BY <1>2 DEF RequestStep, RequestSent, RequestServed, RequestRejected, disk, tails
<1>3. CASE BootStep
  BY <1>3 DEF BootStep, BootReadsToken, BootFails, BootFindsUser, BootMints, BootRejected,
              BootDegraded, BootSignsIn, disk, tails, live, TakesStored, TakesGiven
<1>4. CASE cancelDeviceFlow \/ SignOut \/ GraceExpires \/ UNCHANGED vars
  BY <1>4 DEF cancelDeviceFlow, SignOut, GraceExpires, vars, disk, tails, live, NobodyIsLive
<1> QED
  BY <1>1, <1>2, <1>3, <1>4 DEF Bystander

LEMMA NextSteps ==
  ASSUME [Next]_vars
  PROVE  \/ \E f \in Flows : StartDeviceFlow(f) \/ FlowStep(f) \/ FlowExpires(f)
         \/ \E c \in Clears : ClearStep(c)
         \/ SignOutStep
         \/ SweepStep
         \/ Bystander
         \/ Restart
  BY DEF Next, Bystander

\* Outside its own steps the sweep stays, or begins.
LEMMA SweepElsewhere ==
  ASSUME [Next]_vars, ~SweepStep, ~Restart
  PROVE  UNCHANGED sweep \/ sweep'.at = "read"
<1>0. ASSUME NEW ls, NEW fs, MarkAuthDegraded(ls, fs)
      PROVE  UNCHANGED sweep \/ sweep'.at = "read"
  BY <1>0, SweepShapes DEF MarkAuthDegraded, live, NobodyIsLive
<1>1. CASE \E f \in Flows : StartDeviceFlow(f) \/ FlowStep(f) \/ FlowExpires(f)
  BY <1>0, <1>1
     DEF StartDeviceFlow, FlowStep, FlowExpires, DeviceCodeIssued, DeviceCodeFails,
         PollThrows, PollReturns, VerifyThrows, VerifyReturns, AddAccountReads,
         AddAccountThrows, AddAccountWrites, PollerMints, PollerMintThrows,
         PollerMintRejected, PollerDegraded, PollerSignsIn, PollerFails, tails, live
<1>2. CASE \E l \in Loops : LoopStep(l)
  BY <1>0, <1>2 DEF LoopStep, LoopRequests, LoopRefreshes, LoopRejected, LoopEscalates,
                    LoopThrows, LoopEnds, tails, live
<1>3. CASE \E r \in Requests : RequestStep(r)
  BY <1>0, <1>3 DEF RequestStep, RequestSent, RequestServed, RequestRejected, tails
<1>4. CASE BootStep
  BY <1>0, <1>4 DEF BootStep, BootReadsToken, BootFails, BootFindsUser, BootMints,
                    BootRejected, BootDegraded, BootSignsIn, tails, live, TakesStored, TakesGiven
<1>5. CASE cancelDeviceFlow \/ SignOut \/ GraceExpires \/ UNCHANGED vars
  BY <1>5 DEF cancelDeviceFlow, SignOut, GraceExpires, vars, tails, live, NobodyIsLive
<1>6. CASE SignOutStep \/ \E c \in Clears : ClearStep(c)
  BY <1>6 DEF SignOutStep, SignOutReads, SignOutWrites, ClearStep, ClearReads, ClearWrites
<1> QED
  BY <1>1, <1>2, <1>3, <1>4, <1>5, <1>6, NextSteps DEF Bystander

LEMMA FlowGoesSomewhere ==
  ASSUME TypeOK, CarriedOK, NEW f \in Flows, StartDeviceFlow(f) \/ FlowStep(f)
  PROVE  \E at : Goes(f, at) /\ (at = "write" => AddAccountReads(f))
<1>1. flow[f].at \in Approved => flow[f].account \in Keys
  BY DEF CarriedOK
<1>2. CASE StartDeviceFlow(f)
  BY <1>2, StartGoes
<1>3. CASE \E a \in Keys : PollReturns(f, a)
  BY <1>3, ReturnsGoes
<1>4. CASE PollerMintRejected(f)
  BY <1>1, <1>4, RejectedGoes DEF PollerMintRejected, Approved
<1>5. CASE DeviceCodeIssued(f) \/ DeviceCodeFails(f) \/ PollerFails(f) \/ PollerDegraded(f)
           \/ VerifyReturns(f)
  BY <1>5, PollerGoes
<1>6. CASE AddAccountReads(f)
  BY <1>6, PollerGoes
<1>7. CASE AddAccountWrites(f) \/ PollerMints(f) \/ PollerMintThrows(f) \/ PollerSignsIn(f)
  BY <1>7, PollerGoes
<1> QED
  BY <1>2, <1>3, <1>4, <1>5, <1>6, <1>7 DEF FlowStep, PollThrows, VerifyThrows, AddAccountThrows

\* What a step does to the flows, whoever takes it
LEMMA FlowsMove ==
  ASSUME TypeOK, CarriedOK, [Next]_vars, ~Restart
  PROVE  /\ flow' \in [Flows -> Flow]
         /\ \A g \in Flows : flow'[g].at = "write" => Kept(g) \/ AddAccountReads(g)
         /\ \A g \in Flows : flow'[g].at \in Approved => flow'[g].account \in Keys
<1>1. CASE AllKept
  BY <1>1 DEF AllKept, Kept, CarriedOK
<1>2. CASE \E f \in Flows : StartDeviceFlow(f) \/ FlowStep(f)
  <2>1. PICK f \in Flows : StartDeviceFlow(f) \/ FlowStep(f)
    BY <1>2
  <2>2. PICK at : Goes(f, at) /\ (at = "write" => AddAccountReads(f))
    BY <2>1, FlowGoesSomewhere
  <2> QED
    BY <2>1, <2>2 DEF Goes, Kept, CarriedOK
<1> QED
  BY <1>1, <1>2, OtherStepsKeep

LEMMA SessionStep ==
  ASSUME TypeOK, CarriedOK, [Next]_vars, ~Restart
  PROVE  /\ SessionKeeps
         /\ (\E c \in Clears : ClearStep(c)) \/ ClearsKept
<1>1. CASE \E c \in Clears : ClearStep(c)
  <2>1. PICK c \in Clears : ClearStep(c)
    BY <1>1
  <2>2. UNCHANGED <<session, sweep, env>>
    BY <2>1 DEF ClearStep, ClearReads, ClearWrites
  <2>3. clear' \in [Clears -> {"free", "read", "write"}]
    BY <2>1 DEF TypeOK, ClearStep, ClearReads, ClearWrites
  <2> QED
    BY <1>1, <2>2, <2>3, UnchangedSweeps DEF SessionKeeps, TypeOK, session, env, live
<1>2. CASE \E f \in Flows : StartDeviceFlow(f) \/ FlowStep(f) \/ FlowExpires(f)
  BY <1>2, FlowStepTypes
<1>3. CASE SweepStep
  BY <1>3, SweepStepTypes
<1>4. CASE Bystander \/ SignOutStep
  BY <1>4, OtherStepTypes DEF Bystander
<1> QED
  BY <1>1, <1>2, <1>3, <1>4, NextSteps

LEMMA CarriedStep ==
  ASSUME TypeOK, CarriedOK, [Next]_vars
  PROVE  CarriedOK'
<1>1. CASE Restart
  <2>1. sweep' = NoSweep /\ \A f \in Flows : flow'[f] = NewFlow
    BY <1>1 DEF Restart, NobodyIsLive
  <2>2. NewFlow.at = "new" /\ NoSweep.at = "idle"
    BY SweepShapes DEF NewFlow
  <2> QED
    BY <2>1, <2>2 DEF CarriedOK, Approved, Trying
<1>2. CASE ~Restart
  BY <1>2, FlowsMove, SessionStep DEF CarriedOK, SessionKeeps, SweepKeeps
<1> QED
  BY <1>1, <1>2

LEMMA HeldStep ==
  ASSUME TypeOK, RegistriesOK, HeldOK, CarriedOK, [Next]_vars
  PROVE  HeldOK'
<1>1. CASE Restart
  <2>1. sweep' = NoSweep /\ signOut' = "idle"
        /\ (\A f \in Flows : flow'[f] = NewFlow) /\ (\A c \in Clears : clear'[c] = "free")
    BY <1>1 DEF Restart, NobodyIsLive
  <2>2. NewFlow.at = "new" /\ NoSweep.at = "idle"
    BY SweepShapes DEF NewFlow
  <2> QED
    BY <2>1, <2>2 DEF HeldOK
<1>2. CASE ~Restart
  <2>0. /\ \A g \in Flows : flow'[g].at = "write" => flow[g].at = "write" \/ AddAccountReads(g)
        /\ ~SweepStep => UNCHANGED sweep \/ sweep'.at = "read"
        /\ (\E c \in Clears : ClearStep(c)) \/ ClearsKept
    BY <1>2, FlowsMove, SweepElsewhere, SessionStep DEF Kept
  <2>1. CASE \E f \in Flows : StartDeviceFlow(f) \/ FlowStep(f) \/ FlowExpires(f)
    <3>1. PICK f \in Flows : StartDeviceFlow(f) \/ FlowStep(f) \/ FlowExpires(f)
      BY <2>1
    <3>2. HeldBy(f) /\ ClearsKept
      BY <3>1, HeldSteps, FlowStepTypes
    <3>3. UNCHANGED signOut /\ (UNCHANGED sweep \/ sweep'.at = "read")
      <4>1. UNCHANGED signOut
        BY <3>1
           DEF StartDeviceFlow, FlowStep, FlowExpires, DeviceCodeIssued, DeviceCodeFails,
               PollThrows, PollReturns, VerifyThrows, VerifyReturns, AddAccountReads,
               AddAccountThrows, AddAccountWrites, PollerMints, PollerMintThrows,
               PollerMintRejected, PollerDegraded, PollerSignsIn, PollerFails, tails, live
      <4>2. UNCHANGED sweep \/ sweep'.at = "read"
        BY <3>1, SweepShapes
           DEF StartDeviceFlow, FlowStep, FlowExpires, DeviceCodeIssued, DeviceCodeFails,
               PollThrows, PollReturns, VerifyThrows, VerifyReturns, AddAccountReads,
               AddAccountThrows, AddAccountWrites, PollerMints, PollerMintThrows,
               PollerMintRejected, PollerDegraded, PollerSignsIn, PollerFails, tails,
               MarkAuthDegraded, live, NobodyIsLive
      <4> QED
        BY <4>1, <4>2
    <3>4. ASSUME NEW g \in Flows, flow'[g].at = "write" PROVE held'[g] # None
      <4>1. CASE AddAccountReads(g)
        BY <4>1, HoldHolds, HelpersHere DEF AddAccountReads
      <4>2. CASE flow[g].at = "write" /\ ~AddAccountReads(g)
        <5>1. CASE g # f
          BY <4>2, <5>1, <3>2, HelpersHere DEF HeldBy, HeldOK
        <5>2. CASE g = f
          <6>1. CASE FlowExpires(f)
            BY <4>2, <5>2, <6>1 DEF FlowExpires, disk, HeldOK
          <6>2. CASE StartDeviceFlow(f)
            BY <4>2, <5>2, <6>2 DEF StartDeviceFlow
          <6>3. CASE FlowStep(f)
            <7>1. PICK at : Goes(f, at) /\ (at = "write" => AddAccountReads(f))
              BY <6>3, FlowGoesSomewhere
            <7> QED
              BY <3>4, <4>2, <5>2, <7>1 DEF Goes
          <6> QED
            BY <3>1, <5>2, <6>1, <6>2, <6>3
        <5> QED
          BY <5>1, <5>2
      <4> QED
        BY <2>0, <3>4, <4>1, <4>2
    <3>5. /\ \A c \in Clears : c # f
          /\ f # "sweep" /\ f # "signOut"
      BY ActivitiesAssumption
    <3>6. /\ \A c \in Clears : held'[c] = held[c]
          /\ held'["sweep"] = held["sweep"] /\ held'["signOut"] = held["signOut"]
      BY <3>2, <3>5, HelpersHere DEF HeldBy
    <3> QED
      BY <3>2, <3>3, <3>4, <3>6 DEF HeldOK, ClearsKept
  <2>2. CASE \E c \in Clears : ClearStep(c)
    <3>1. PICK c \in Clears : ClearStep(c)
      BY <2>2
    <3>2. HeldBy(c) /\ UNCHANGED <<flow, signOut, sweep>>
      BY <3>1, HeldSteps DEF ClearStep, ClearReads, ClearWrites
    <3>3. /\ \A f \in Flows : held'[f] = held[f]
          /\ held'["sweep"] = held["sweep"] /\ held'["signOut"] = held["signOut"]
      BY <3>2, HelpersHere, ActivitiesAssumption DEF HeldBy
    <3>4. ASSUME NEW d \in Clears, clear'[d] = "write" PROVE Pointed(held'[d])
      <4>1. CASE d # c
        <5>1. clear[d] = "write"
          BY <3>1, <3>4, <4>1 DEF ClearStep, ClearReads, ClearWrites, TypeOK
        <5> QED
          BY <3>2, <4>1, <5>1, HelpersHere DEF HeldBy, HeldOK
      <4>2. CASE d = c
        <5>1. Hold(c) /\ registry.activeKey # NoKey
          BY <3>1, <3>4, <4>2 DEF ClearStep, ClearReads, ClearWrites, TypeOK
        <5>2. held'[c] = registry /\ held'[c] # None
          BY <5>1, HoldHolds, HelpersHere
        <5> QED
          BY <4>2, <5>1, <5>2 DEF Pointed
      <4> QED
        BY <4>1, <4>2
    <3> QED
      BY <3>2, <3>3, <3>4 DEF HeldOK
  <2>3. CASE SignOutStep
    <3>1. HeldBy("signOut") /\ UNCHANGED <<flow, clear, sweep>>
      BY <2>3, HeldSteps DEF SignOutStep, SignOutReads, SignOutWrites
    <3>2. /\ \A f \in Flows : held'[f] = held[f]
          /\ \A c \in Clears : held'[c] = held[c]
          /\ held'["sweep"] = held["sweep"]
      BY <3>1, HelpersHere, ActivitiesAssumption DEF HeldBy
    <3>3. signOut' = "write" => held'["signOut"] # None
      BY <2>3, HoldHolds, HelpersHere DEF SignOutStep, SignOutReads, SignOutWrites
    <3> QED
      BY <3>1, <3>2, <3>3 DEF HeldOK
  <2>4. CASE SweepStep
    <3>1. HeldBy("sweep") /\ ClearsKept
      BY <2>4, HeldSteps, SweepStepTypes
    <3>2. UNCHANGED <<flow, signOut>>
      BY <2>4
         DEF SweepStep, SweepReads, SweepWrites, RecoveryStep, RecoveryLists, CandidateFails,
             CandidatePasses, CandidateMints, RecoveryReads, PinWrites, FlagWrites,
             RecoverySignsIn, live
    <3>3. /\ \A f \in Flows : held'[f] = held[f]
          /\ \A c \in Clears : held'[c] = held[c]
          /\ held'["signOut"] = held["signOut"]
      BY <3>1, HelpersHere, ActivitiesAssumption DEF HeldBy
    <3>4. sweep'.at = "write" => Pointed(held'["sweep"])
      <4>1. ASSUME sweep'.at = "write" PROVE Hold("sweep") /\ registry.activeKey # NoKey
        BY <2>4, <4>1, SweepShapes
           DEF SweepStep, SweepReads, SweepWrites, RecoveryStep, RecoveryLists,
               CandidateFails, CandidatePasses, CandidateMints, RecoveryReads, PinWrites,
               FlagWrites, RecoverySignsIn, GivesUp, TriesNext, RecoveryMoves, TypeOK, Sweep, live, NobodyIsLive
      <4>2. Hold("sweep") => held'["sweep"] = registry /\ held'["sweep"] # None
        BY HoldHolds, HelpersHere
      <4> QED
        BY <4>1, <4>2 DEF Pointed
    <3>5. sweep'.at \in {"pinWrite", "flagWrite"} => held'["sweep"] # None
      <4>1. ASSUME sweep'.at \in {"pinWrite", "flagWrite"} PROVE Hold("sweep")
        BY <2>4, <4>1, SweepShapes
           DEF SweepStep, SweepReads, SweepWrites, RecoveryStep, RecoveryLists,
               CandidateFails, CandidatePasses, CandidateMints, RecoveryReads, PinWrites,
               FlagWrites, RecoverySignsIn, GivesUp, TriesNext, RecoveryMoves, TypeOK, Sweep, live, NobodyIsLive
      <4> QED
        BY <4>1, HoldHolds, HelpersHere
    <3> QED
      BY <3>1, <3>2, <3>3, <3>4, <3>5 DEF HeldOK, ClearsKept
  <2>5. CASE Bystander
    <3>1. UNCHANGED held /\ (signOut' = "write" => signOut = "write") /\ ClearsKept
      BY <2>5, BystanderHolds, OtherStepTypes DEF Bystander
    <3>2. sweep' = sweep \/ sweep'.at = "read" \/ SweepStep
      BY <2>0
    <3>3. ASSUME NEW g \in Flows, flow'[g].at = "write" PROVE held'[g] # None
      <4>1. CASE AddAccountReads(g)
        BY <4>1, HoldHolds, HelpersHere DEF AddAccountReads
      <4> QED
        BY <2>0, <3>1, <3>3, <4>1 DEF HeldOK
    <3>4. CASE sweep' = sweep \/ sweep'.at = "read"
      BY <3>1, <3>3, <3>4 DEF HeldOK, ClearsKept
    <3> QED
      BY <2>4, <3>2, <3>4
  <2> QED
    BY <1>2, <2>1, <2>2, <2>3, <2>4, <2>5, NextSteps
<1> QED
  BY <1>1, <1>2

-----------------------------------------------------------------------------
(* Who may change the state shown, the credential, the window and the boot. *)
Moves ==
  /\ UNCHANGED auth \/ auth'.kind # "polling" \/ \E f \in Flows : DeviceCodeIssued(f)
  /\ \/ UNCHANGED github \/ github' = None \/ CandidatePasses \/ BootReadsToken
     \/ \E f \in Flows : AddAccountWrites(f)
  /\ \/ UNCHANGED inGrace \/ ~inGrace' \/ RecoverySignsIn
     \/ BootSignsIn /\ userName # None /\ auth' = SignedIn(userName)
  /\ UNCHANGED boot \/ BootStep

LEMMA NotPolling ==
  /\ SignedOut.kind # "polling" /\ Error.kind # "polling"
  /\ \A a : SignedIn(a).kind # "polling"
  /\ \A f, otherwise : otherwise.kind # "polling" => Resumed(f, otherwise).kind # "polling"
  BY DEF SignedOut, Error, SignedIn, Resumed

LEMMA NextMoves ==
  ASSUME [Next]_vars, ~Restart
  PROVE  Moves
<1>0. ASSUME NEW ls, NEW fs, MarkAuthDegraded(ls, fs)
      PROVE  UNCHANGED github \/ github' = None
  BY <1>0 DEF MarkAuthDegraded, live, NobodyIsLive
<1>1. CASE \E f \in Flows : StartDeviceFlow(f) \/ FlowStep(f) \/ FlowExpires(f)
  <2>1. PICK f \in Flows : StartDeviceFlow(f) \/ FlowStep(f) \/ FlowExpires(f)
    BY <1>1
  <2>2. UNCHANGED <<inGrace, boot>>
    BY <2>1
       DEF StartDeviceFlow, FlowStep, FlowExpires, DeviceCodeIssued, DeviceCodeFails,
           PollThrows, PollReturns, VerifyThrows, VerifyReturns, AddAccountReads,
           AddAccountThrows, AddAccountWrites, PollerMints, PollerMintThrows,
           PollerMintRejected, PollerDegraded, PollerSignsIn, PollerFails, env, live
  <2>3. UNCHANGED github \/ github' = None \/ AddAccountWrites(f)
    BY <1>0, <2>1
       DEF StartDeviceFlow, FlowStep, FlowExpires, DeviceCodeIssued, DeviceCodeFails,
           PollThrows, PollReturns, VerifyThrows, VerifyReturns, AddAccountReads,
           AddAccountThrows, PollerMints, PollerMintThrows,
           PollerMintRejected, PollerDegraded, PollerSignsIn, PollerFails, session, live
  <2>4. UNCHANGED auth \/ auth'.kind # "polling" \/ DeviceCodeIssued(f)
    BY <2>1, NotPolling
       DEF StartDeviceFlow, FlowStep, FlowExpires, DeviceCodeFails,
           PollThrows, PollReturns, VerifyThrows, VerifyReturns, AddAccountReads,
           AddAccountThrows, AddAccountWrites, PollerMints, PollerMintThrows,
           PollerMintRejected, PollerDegraded, PollerSignsIn, PollerFails, session,
           flowFailureState, live
  <2> QED
    BY <2>2, <2>3, <2>4 DEF Moves
<1>2. CASE (\E c \in Clears : ClearStep(c)) \/ SignOutStep
  BY <1>2 DEF ClearStep, ClearReads, ClearWrites, SignOutStep, SignOutReads,
              SignOutWrites, session, env, Moves, live
<1>3. CASE SweepStep
  <2>1. UNCHANGED boot /\ (UNCHANGED inGrace \/ RecoverySignsIn)
    BY <1>3
       DEF SweepStep, SweepReads, SweepWrites, RecoveryStep, RecoveryLists, CandidateFails,
           CandidatePasses, CandidateMints, RecoveryReads, PinWrites, FlagWrites,
           RecoverySignsIn, env, live
  <2>2. UNCHANGED github \/ github' = None \/ CandidatePasses
    BY <1>3
       DEF SweepStep, SweepReads, SweepWrites, RecoveryStep, RecoveryLists, CandidateFails,
           CandidateMints, RecoveryReads, PinWrites, FlagWrites,
           RecoverySignsIn, session, TriesNext, live, NobodyIsLive
  <2>3. UNCHANGED auth \/ auth'.kind # "polling"
    BY <1>3, NotPolling
       DEF SweepStep, SweepReads, SweepWrites, RecoveryStep, RecoveryLists, CandidateFails,
           CandidatePasses, CandidateMints, RecoveryReads, PinWrites, FlagWrites,
           RecoverySignsIn, session, TriesNext, GivesUp, live, NobodyIsLive
  <2> QED
    BY <2>1, <2>2, <2>3 DEF Moves
<1>4. CASE \E l \in Loops : LoopStep(l)
  <2>1. UNCHANGED <<auth, inGrace, boot>> /\ (UNCHANGED github \/ github' = None)
    BY <1>0, <1>4
       DEF LoopStep, LoopRequests, LoopRefreshes, LoopRejected, LoopEscalates,
           LoopThrows, LoopEnds, session, env, live
  <2> QED
    BY <2>1 DEF Moves
<1>5. CASE \E r \in Requests : RequestStep(r)
  <2>1. UNCHANGED <<auth, inGrace, boot>> /\ (UNCHANGED github \/ github' = None)
    BY <1>0, <1>5 DEF RequestStep, RequestSent, RequestServed, RequestRejected, session, live
  <2> QED
    BY <2>1 DEF Moves
<1>6. CASE BootStep
  <2>1. UNCHANGED github \/ github' = None \/ BootReadsToken
    BY <1>0, <1>6
       DEF BootStep, BootFails, BootFindsUser, BootMints, BootRejected, BootDegraded,
           BootSignsIn, session, live
  <2>2. UNCHANGED inGrace \/ (BootSignsIn /\ userName # None /\ auth' = SignedIn(userName))
    BY <1>6
       DEF BootStep, BootReadsToken, BootFails, BootFindsUser, BootMints, BootRejected,
           BootDegraded, BootSignsIn, live, TakesStored, TakesGiven
  <2>3. UNCHANGED auth \/ auth'.kind # "polling"
    BY <1>6, NotPolling
       DEF BootStep, BootReadsToken, BootFails, BootFindsUser, BootMints, BootRejected,
           BootDegraded, BootSignsIn, session, live, TakesStored, TakesGiven
  <2> QED
    BY <1>6, <2>1, <2>2, <2>3 DEF Moves
<1>7. CASE cancelDeviceFlow \/ SignOut
  BY <1>7, NotPolling DEF cancelDeviceFlow, SignOut, env, Moves, live, NobodyIsLive
<1>8. CASE GraceExpires \/ UNCHANGED vars
  BY <1>8 DEF GraceExpires, vars, session, env, Moves, live
<1> QED
  BY <1>1, <1>2, <1>3, <1>4, <1>5, <1>6, <1>7, <1>8, NextSteps DEF Bystander

-----------------------------------------------------------------------------
(* The pending flow and its poller.                                        *)
\* A step that leaves the pending flow f shown takes it where it may be.
LEMMA PendingGoes ==
  ASSUME TypeOK, CarriedOK, FlowsOK, NEW f \in Flows, f = CurrentFlow, UNCHANGED auth,
         StartDeviceFlow(f) \/ FlowStep(f)
  PROVE  /\ flow'[f].at \in {"new", "code", "done"} => flow'[f].aborted
         /\ inGrace' => flow'[f].at \in {"poll", "done"}
         /\ flow'[f].at = "degrade" /\ ~flow'[f].aborted => sweep'.at # "idle"
<1>0. /\ flow[f].at \in {"new", "code", "done"} => flow[f].aborted
      /\ inGrace => flow[f].at \in {"poll", "done"}
      /\ flow[f].at = "degrade" /\ ~flow[f].aborted => sweep.at # "idle"
  BY NoneAssumption DEF FlowsOK, PendingFlowIsPolled
<1>1. UNCHANGED inGrace
  BY DEF StartDeviceFlow, FlowStep, DeviceCodeIssued, DeviceCodeFails,
         PollThrows, PollReturns, VerifyThrows, VerifyReturns, AddAccountReads,
         AddAccountThrows, AddAccountWrites, PollerMints, PollerMintThrows,
         PollerMintRejected, PollerDegraded, PollerSignsIn, PollerFails, env, live
<1>2. auth.kind = "polling"
  BY NoneAssumption DEF CurrentFlow
<1>3. CASE StartDeviceFlow(f)
  BY <1>0, <1>1, <1>3, StartGoes DEF Goes, StaysAborted, StartDeviceFlow
<1>4. CASE DeviceCodeIssued(f)
  BY <1>4, PollerGoes DEF Goes
<1>5. CASE DeviceCodeFails(f)
  BY <1>0, <1>5, PollerGoes DEF Goes, StaysAborted, DeviceCodeFails
<1>6. CASE PollerFails(f)
  <2>1. flow[f].aborted
    BY <1>2, <1>6, NotPolling DEF PollerFails, flowFailureState, live
  <2> QED
    BY <1>6, <2>1, PollerGoes DEF Goes, StaysAborted
<1>7. CASE PollerDegraded(f)
  BY <1>0, <1>7, PollerGoes DEF Goes, StaysAborted, PollerDegraded
<1>8. CASE \E a \in Keys : PollReturns(f, a)
  <2>1. Goes(f, "verify") /\ ~inGrace
    BY <1>8, ReturnsGoes DEF PollReturns
  <2> QED
    BY <1>1, <2>1 DEF Goes
<1>9. CASE VerifyReturns(f)
  <2>1. ~inGrace
    BY <1>0, <1>9 DEF VerifyReturns
  <2> QED
    BY <1>1, <1>9, <2>1, PollerGoes DEF Goes, StaysAborted
<1>10. CASE AddAccountReads(f) \/ AddAccountWrites(f) \/ PollerMints(f) \/ PollerMintThrows(f)
  <2>1. ~inGrace
    BY <1>0, <1>10 DEF AddAccountReads, AddAccountWrites, PollerMints, PollerMintThrows, live
  <2> QED
    BY <1>1, <1>10, <2>1, PollerGoes DEF Goes, StaysAborted
<1>11. CASE PollerMintRejected(f)
  <2>1. ~inGrace /\ Goes(f, "degrade") /\ StaysAborted(f)
    BY <1>0, <1>11, RejectedGoes DEF PollerMintRejected, CarriedOK, Approved
  <2>2. CASE sweep.at # "idle" /\ UNCHANGED sweep
    BY <1>1, <2>1, <2>2 DEF Goes
  <2>3. CASE flow' = AbortCurrent(Moved(f, "degrade"))
    <3>1. Moved(f, "degrade") \in [Flows -> Flow]
      BY <1>11, MovedGoes DEF PollerMintRejected, CarriedOK, Approved
    <3>2. flow'[f].aborted
      BY <2>3, <3>1, AbortCurrentKeeps
    <3> QED
      BY <1>1, <2>1, <3>2 DEF Goes
  <2> QED
    BY <1>11, <2>1, <2>2, <2>3 DEF PollerMintRejected, MarkAuthDegraded, live, NobodyIsLive
<1>12. CASE PollerSignsIn(f)
  BY <1>2, <1>12, NotPolling DEF PollerSignsIn, live
<1> QED
  BY <1>3, <1>4, <1>5, <1>6, <1>7, <1>8, <1>9, <1>10, <1>11, <1>12
     DEF FlowStep, PollThrows, VerifyThrows, AddAccountThrows

LEMMA FlowsStep ==
  ASSUME TypeOK, CarriedOK, FlowsOK, [Next]_vars
  PROVE  FlowsOK'
<1>1. CASE auth'.kind # "polling"
  BY <1>1, NoneAssumption DEF FlowsOK, PendingFlowIsPolled, CurrentFlow
<1>2. CASE \E f \in Flows : DeviceCodeIssued(f)
  <2>1. PICK f \in Flows : DeviceCodeIssued(f)
    BY <1>2
  <2>2. CurrentFlow' = f /\ flow'[f].at = "poll"
    BY <2>1, PollerGoes DEF DeviceCodeIssued, Polling, CurrentFlow, Goes, live
  <2> QED
    BY <2>2 DEF FlowsOK, PendingFlowIsPolled
<1>3. CASE UNCHANGED auth /\ auth'.kind = "polling" /\ ~Restart
  <2>1. CurrentFlow' = CurrentFlow /\ CurrentFlow \in Flows
    BY <1>3, AuthShape DEF CurrentFlow, TypeOK, AuthState, Polling, SignedIn, SignedOut, Error
  <2> DEFINE f == CurrentFlow
  <2>2. Moves /\ SessionKeeps
    BY <1>3, NextMoves, SessionStep
  <2>3. (inGrace' => inGrace) /\ (sweep.at # "idle" => sweep'.at # "idle")
    BY <1>3, <2>2, NotPolling DEF Moves, SessionKeeps, SweepKeeps, RecoverySignsIn, live
  <2>4. CASE Kept(f)
    BY <2>1, <2>3, <2>4, NoneAssumption DEF Kept, FlowsOK, PendingFlowIsPolled
  <2>5. CASE StartDeviceFlow(f) \/ FlowStep(f)
    BY <1>3, <2>1, <2>5, PendingGoes DEF FlowsOK, PendingFlowIsPolled
  <2>6. Kept(f) \/ StartDeviceFlow(f) \/ FlowStep(f)
    <3>1. CASE AllKept
      BY <2>1, <3>1 DEF AllKept
    <3>2. CASE \E g \in Flows : StartDeviceFlow(g) \/ FlowStep(g)
      <4>1. PICK g \in Flows : StartDeviceFlow(g) \/ FlowStep(g)
        BY <3>2
      <4>2. PICK at : Goes(g, at)
        BY <4>1, FlowGoesSomewhere
      <4> QED
        BY <2>1, <4>1, <4>2 DEF Goes
    <3> QED
      BY <1>3, <3>1, <3>2, OtherStepsKeep
  <2> QED
    BY <2>4, <2>5, <2>6
<1>4. CASE Restart
  BY <1>1, <1>4, NotPolling DEF Restart, NobodyIsLive
<1> QED
  BY <1>1, <1>2, <1>3, <1>4, NextMoves DEF Moves

-----------------------------------------------------------------------------
(* The boot and the grace window.                                          *)
\* While the process starts, no flow is under way.
LEMMA BootingFlows ==
  ASSUME boot # "up", \A f \in Flows : flow[f].at = "new"
  PROVE  \A f \in Flows : ~StartDeviceFlow(f) /\ ~FlowStep(f)
  BY DEF StartDeviceFlow, FlowStep, DeviceCodeIssued, DeviceCodeFails, PollThrows,
         PollReturns, VerifyThrows, VerifyReturns, AddAccountReads, AddAccountThrows,
         AddAccountWrites, PollerMints, PollerMintThrows, PollerMintRejected,
         PollerDegraded, PollerSignsIn, live

\* Before the boot has read the credential, no sweep, loop or completion is.
LEMMA BootingQuiet ==
  ASSUME TypeOK, BootOK, boot = "start", boot' = "start", [Next]_vars, ~Restart
  PROVE  UNCHANGED <<sweep, loop, request>>
<1>1. CASE (\E f \in Flows : StartDeviceFlow(f) \/ FlowStep(f) \/ FlowExpires(f))
  <2>1. PICK f \in Flows : FlowExpires(f)
    BY <1>1, BootingFlows DEF BootOK
  <2> QED
    BY <2>1 DEF FlowExpires, loops, tails, env
<1>2. CASE (\E c \in Clears : ClearStep(c)) \/ SignOutStep
  BY <1>2 DEF ClearStep, ClearReads, ClearWrites, SignOutStep, SignOutReads,
              SignOutWrites, loops, env
<1>3. ~SweepStep
  BY DEF BootOK, SweepStep, SweepReads, SweepWrites, RecoveryStep, RecoveryLists,
         CandidateFails, CandidatePasses, CandidateMints, RecoveryReads, PinWrites,
         FlagWrites, RecoverySignsIn, RecoveryMoves, live
<1>4. ASSUME NEW l \in Loops PROVE ~LoopStep(l)
  BY DEF BootOK, LoopStep, LoopRequests, LoopRefreshes, LoopRejected, LoopEscalates,
         LoopThrows, LoopEnds, Asking, live
<1>5. ASSUME NEW r \in Requests PROVE ~RequestStep(r)
  BY DEF BootOK, RequestStep, RequestSent, RequestServed, RequestRejected, Answered
<1>6. ~BootStep
  BY DEF BootStep, BootReadsToken, BootFails, BootFindsUser, BootMints, BootRejected,
         BootDegraded, BootSignsIn, live, TakesStored, TakesGiven
<1>7. ~cancelDeviceFlow /\ ~SignOut
  BY DEF cancelDeviceFlow, SignOut, live, NobodyIsLive
<1>8. CASE GraceExpires \/ UNCHANGED vars
  BY <1>8 DEF GraceExpires, vars, loops, tails, env
<1> QED
  BY <1>1, <1>2, <1>3, <1>4, <1>5, <1>6, <1>7, <1>8, NextSteps DEF Bystander

\* Of the boot's later steps, only a sweep's moves the two together.
LEMMA NamedStep ==
  ASSUME TypeOK, BootOK, [Next]_vars, ~Restart, boot' \in {"mint", "degrade", "models"}
  PROVE  userName' = github'
<1>1. CASE BootStep
  BY <1>1 DEF BootStep, BootReadsToken, BootFails, BootFindsUser, BootMints, BootRejected,
              BootDegraded, BootSignsIn, MarkAuthDegraded, NobodyIsLive, BootOK, session, live
<1>2. CASE ~BootStep
  <2>1. UNCHANGED boot
    BY <1>2, NextMoves DEF Moves
  <2>2. userName = github /\ \A f \in Flows : flow[f].at = "new"
    BY <2>1 DEF BootOK
  <2>3. CASE UNCHANGED live \/ NobodyIsLive
    BY <2>2, <2>3 DEF live, NobodyIsLive
  <2>4. ASSUME NEW ls, NEW fs, MarkAuthDegraded(ls, fs) PROVE UNCHANGED live \/ NobodyIsLive
    BY <2>4 DEF MarkAuthDegraded
  <2>5. CASE \E f \in Flows : StartDeviceFlow(f) \/ FlowStep(f) \/ FlowExpires(f)
    <3>1. PICK f \in Flows : FlowExpires(f)
      BY <2>1, <2>2, <2>5, BootingFlows
    <3> QED
      BY <2>3, <3>1 DEF FlowExpires, session
  <2>6. CASE SweepStep
    <3>1. CASE CandidatePasses
      BY <3>1 DEF CandidatePasses
    <3> QED
      BY <2>3, <2>6, <3>1
         DEF SweepStep, SweepReads, SweepWrites, RecoveryStep, RecoveryLists,
             CandidateFails, CandidateMints, RecoveryReads, PinWrites, FlagWrites,
             RecoverySignsIn, TriesNext, session
  <2>7. CASE (\E l \in Loops : LoopStep(l)) \/ (\E r \in Requests : RequestStep(r))
    BY <2>3, <2>4, <2>7
       DEF LoopStep, LoopRequests, LoopRefreshes, LoopRejected, LoopEscalates, LoopThrows,
           LoopEnds, RequestStep, RequestSent, RequestServed, RequestRejected, session
  <2>8. CASE (\E c \in Clears : ClearStep(c)) \/ SignOutStep \/ cancelDeviceFlow \/ SignOut
             \/ GraceExpires \/ UNCHANGED vars
    BY <2>3, <2>8
       DEF ClearStep, ClearReads, ClearWrites, SignOutStep, SignOutReads, SignOutWrites,
           cancelDeviceFlow, SignOut, GraceExpires, vars, session
  <2> QED
    BY <1>2, <2>5, <2>6, <2>7, <2>8, NextSteps DEF Bystander
<1> QED
  BY <1>1, <1>2

LEMMA BootKeeps ==
  ASSUME TypeOK, CarriedOK, BootOK, [Next]_vars
  PROVE  BootOK'
<1>1. CASE Restart
  <2>1. /\ \A f \in Flows : flow'[f] = NewFlow
        /\ \A l \in Loops : loop'[l] = FreeLoop
        /\ \A r \in Requests : request'[r] = "idle"
        /\ sweep' = NoSweep /\ ~inGrace' /\ github' = None /\ boot' = "start"
    BY <1>1 DEF Restart, NobodyIsLive
  <2>2. NewFlow.at = "new" /\ FreeLoop.at = "free" /\ NoSweep.at = "idle"
    BY SweepShapes DEF NewFlow, FreeLoop
  <2> QED
    BY <2>1, <2>2 DEF BootOK, Dropping
<1>2. CASE ~Restart
  <2>0. Moves /\ SessionKeeps
    BY <1>2, NextMoves, SessionStep
  <2>1. boot' # "up" => boot # "up"
    BY <2>0 DEF Moves, BootStep, BootReadsToken, BootFails, BootFindsUser, BootMints,
                BootRejected, BootDegraded, BootSignsIn, live, TakesStored, TakesGiven
  <2>2. boot' = "start" => boot = "start"
    BY <2>0 DEF Moves, BootStep, BootReadsToken, BootFails, BootFindsUser, BootMints,
                BootRejected, BootDegraded, BootSignsIn, live, TakesStored, TakesGiven
  <2>3. ASSUME boot' # "up", NEW f \in Flows PROVE flow'[f].at = "new"
    <3>1. AllKept
      BY <1>2, <2>1, <2>3, BootingFlows, OtherStepsKeep DEF BootOK
    <3> QED
      BY <2>1, <2>3, <3>1 DEF AllKept, Kept, BootOK
  <2>4. ASSUME boot' = "start"
        PROVE  /\ github' = None /\ sweep'.at = "idle"
               /\ \A l \in Loops : loop'[l].at = "free"
               /\ \A r \in Requests : request'[r] = "idle"
    <3>1. /\ boot = "start" /\ UNCHANGED <<sweep, loop, request>>
          /\ github = None /\ sweep.at = "idle" /\ \A f \in Flows : flow[f].at = "new"
      BY <1>2, <2>2, <2>4, BootingQuiet DEF BootOK
    <3>2. /\ ~CandidatePasses /\ ~BootReadsToken
          /\ \A f \in Flows : ~AddAccountWrites(f)
      BY <2>4, <3>1 DEF CandidatePasses, RecoveryMoves, BootReadsToken, AddAccountWrites, live, TakesStored, TakesGiven
    <3>3. github' = None
      BY <2>0, <3>1, <3>2 DEF Moves
    <3> QED
      BY <3>1, <3>3 DEF BootOK
  <2>5. ASSUME boot' # "up", sweep'.at \in Dropping PROVE github' = None
    <3>1. CASE DropsNow
      BY <3>1 DEF DropsNow
    <3>2. CASE sweep.at \in Dropping
      <4>1. github = None /\ \A f \in Flows : flow[f].at = "new"
        BY <2>1, <2>5, <3>2 DEF BootOK
      <4>2. ~CandidatePasses
        BY <3>2 DEF CandidatePasses, RecoveryMoves, Dropping
      <4>3. ~BootReadsToken
        BY <3>2 DEF BootReadsToken, BootOK, Dropping, TakesStored, TakesGiven
      <4>4. \A f \in Flows : ~AddAccountWrites(f)
        BY <4>1 DEF AddAccountWrites, live
      <4> QED
        BY <2>0, <4>1, <4>2, <4>3, <4>4 DEF Moves
    <3> QED
      BY <2>0, <2>5, <3>1, <3>2 DEF SessionKeeps, SweepKeeps
  <2>6. ASSUME inGrace', sweep'.at \in Dropping PROVE FALSE
    <3>1. sweep.at \in Dropping /\ ~inGrace
      BY <2>0, <2>6 DEF SessionKeeps, SweepKeeps, DropsNow, BootOK
    <3>2. CASE RecoverySignsIn
      BY <3>1, <3>2 DEF RecoverySignsIn, Dropping, live
    <3>3. CASE BootSignsIn /\ userName # None
      BY <3>1, <3>3 DEF BootSignsIn, BootOK, live
    <3> QED
      BY <2>0, <2>6, <3>1, <3>2, <3>3 DEF Moves
  <2> QED
    BY <1>2, <2>3, <2>4, <2>5, <2>6, NamedStep DEF BootOK
<1> QED
  BY <1>1, <1>2

-----------------------------------------------------------------------------
(* Types of the rest.                                                      *)
Rest == <<signOut, request, boot, autoRecover>>

RestType ==
  /\ signOut \in {"idle", "read", "write"}
  /\ request \in [Requests -> {"idle", "sent"}]
  /\ boot \in {"start", "user", "mint", "degrade", "models", "up"}
  /\ autoRecover \in BOOLEAN

LEMMA RestStep ==
  ASSUME RestType, [Next]_vars
  PROVE  RestType'
<1>0. CASE UNCHANGED Rest
  BY <1>0 DEF Rest, RestType
<1>1. CASE \E f \in Flows : StartDeviceFlow(f) \/ FlowStep(f) \/ FlowExpires(f)
  BY <1>0, <1>1
     DEF StartDeviceFlow, FlowStep, FlowExpires, DeviceCodeIssued, DeviceCodeFails,
         PollThrows, PollReturns, VerifyThrows, VerifyReturns, AddAccountReads,
         AddAccountThrows, AddAccountWrites, PollerMints, PollerMintThrows,
         PollerMintRejected, PollerDegraded, PollerSignsIn, PollerFails, env, tails, Rest, live
<1>2. CASE SweepStep
  BY <1>0, <1>2
     DEF SweepStep, SweepReads, SweepWrites, RecoveryStep, RecoveryLists, CandidateFails,
         CandidatePasses, CandidateMints, RecoveryReads, PinWrites, FlagWrites,
         RecoverySignsIn, env, Rest, live
<1>3. CASE \E l \in Loops : LoopStep(l)
  BY <1>0, <1>3 DEF LoopStep, LoopRequests, LoopRefreshes, LoopRejected, LoopEscalates,
                    LoopThrows, LoopEnds, env, tails, Rest, live
<1>4. CASE \E c \in Clears : ClearStep(c)
  BY <1>0, <1>4 DEF ClearStep, ClearReads, ClearWrites, env, Rest
<1>5. CASE SignOutStep
  <2>1. UNCHANGED env /\ signOut' \in {"idle", "read", "write"}
    BY <1>5 DEF SignOutStep, SignOutReads, SignOutWrites
  <2> QED
    BY <2>1 DEF env, RestType
<1>6. CASE SignOut
  <2>1. UNCHANGED env /\ signOut' = "read"
    BY <1>6 DEF SignOut, NobodyIsLive
  <2> QED
    BY <2>1 DEF env, RestType
<1>7. CASE \E r \in Requests : RequestStep(r)
  <2>1. PICK r \in Requests : RequestStep(r)
    BY <1>7
  <2>2. /\ UNCHANGED <<signOut, boot, autoRecover>>
        /\ request' \in [Requests -> {"idle", "sent"}]
    BY <2>1 DEF RequestStep, RequestSent, RequestServed, RequestRejected, Answered, tails,
                RestType
  <2> QED
    BY <2>2 DEF RestType
<1>8. CASE BootStep
  <2>1. UNCHANGED <<signOut, request, autoRecover>>
    BY <1>8 DEF BootStep, BootReadsToken, BootFails, BootFindsUser, BootMints,
                BootRejected, BootDegraded, BootSignsIn, tails, live, TakesStored, TakesGiven
  <2>2. boot' \in {"user", "mint", "degrade", "models", "up"}
    BY <1>8 DEF BootStep, BootReadsToken, BootFails, BootFindsUser, BootMints,
                BootRejected, BootDegraded, BootSignsIn, live, TakesStored, TakesGiven
  <2> QED
    BY <2>1, <2>2 DEF RestType
<1>9. CASE Restart
  <2>1. /\ signOut' = "idle" /\ boot' = "start" /\ UNCHANGED autoRecover
        /\ request' = [r \in Requests |-> "idle"]
    BY <1>9 DEF Restart, NobodyIsLive
  <2> QED
    BY <2>1 DEF RestType
<1>10. CASE cancelDeviceFlow \/ GraceExpires \/ UNCHANGED vars
  BY <1>0, <1>10 DEF cancelDeviceFlow, GraceExpires, vars, env, tails, Rest, live
<1> QED
  BY <1>1, <1>2, <1>3, <1>4, <1>5, <1>6, <1>7, <1>8, <1>9, <1>10, NextSteps DEF Bystander

LEMMA RacedStep ==
  ASSUME raced \in BOOLEAN, [Next]_vars
  PROVE  raced' \in BOOLEAN
<1>0. /\ \A self : NoteRace(self) => raced' \in BOOLEAN
      /\ \A h : Hold(h) => raced' \in BOOLEAN
      /\ NoteRecovery => raced' \in BOOLEAN
  BY DEF NoteRace, Hold, NoteRecovery
<1>1. CASE UNCHANGED raced
  BY <1>1
<1>2. CASE \E f \in Flows : StartDeviceFlow(f) \/ FlowStep(f) \/ FlowExpires(f)
  BY <1>0, <1>1, <1>2
     DEF StartDeviceFlow, FlowStep, FlowExpires, DeviceCodeIssued, DeviceCodeFails,
         PollThrows, PollReturns, VerifyThrows, VerifyReturns, AddAccountReads,
         AddAccountThrows, AddAccountWrites, PollerMints, PollerMintThrows,
         PollerMintRejected, PollerDegraded, PollerSignsIn, PollerFails, live
<1>3. CASE SweepStep
  BY <1>0, <1>1, <1>3
     DEF SweepStep, SweepReads, SweepWrites, RecoveryStep, RecoveryLists, CandidateFails,
         CandidatePasses, CandidateMints, RecoveryReads, PinWrites, FlagWrites,
         RecoverySignsIn, live
<1>4. CASE \E l \in Loops : LoopStep(l)
  BY <1>0, <1>1, <1>4 DEF LoopStep, LoopRequests, LoopRefreshes, LoopRejected,
                          LoopEscalates, LoopThrows, LoopEnds, live
<1>5. CASE (\E c \in Clears : ClearStep(c)) \/ SignOutStep
  BY <1>0, <1>1, <1>5 DEF ClearStep, ClearReads, ClearWrites, SignOutStep, SignOutReads,
                          SignOutWrites
<1>6. CASE \E r \in Requests : RequestStep(r)
  BY <1>0, <1>1, <1>6 DEF RequestStep, RequestSent, RequestServed, RequestRejected
<1>7. CASE BootStep
  BY <1>0, <1>1, <1>7 DEF BootStep, BootReadsToken, BootFails, BootFindsUser, BootMints,
                          BootRejected, BootDegraded, BootSignsIn, live, TakesStored, TakesGiven
<1>8. CASE Restart \/ cancelDeviceFlow \/ SignOut \/ GraceExpires \/ UNCHANGED vars
  BY <1>0, <1>1, <1>8 DEF Restart, cancelDeviceFlow, SignOut, GraceExpires, vars, live, NobodyIsLive
<1> QED
  BY <1>2, <1>3, <1>4, <1>5, <1>6, <1>7, <1>8, NextSteps DEF Bystander

-----------------------------------------------------------------------------
(* The invariant.                                                          *)
LEMMA AuthInit == Init => AuthInv
<1> SUFFICES ASSUME Init PROVE AuthInv
  OBVIOUS
<1>1. /\ \A f \in Flows : flow[f] = NewFlow
      /\ \A l \in Loops : loop[l] = FreeLoop
      /\ \A c \in Clears : clear[c] = "free"
      /\ \A r \in Requests : request[r] = "idle"
      /\ \A h \in Helpers : held[h] = None
      /\ sweep = NoSweep /\ signOut = "idle" /\ boot = "start"
      /\ auth = SignedOut /\ github = None /\ inGrace = FALSE
  BY DEF Init
<1>2. /\ NewFlow.at = "new" /\ NewFlow \in Flow
      /\ FreeLoop.at = "free" /\ FreeLoop \in Loop
      /\ NoSweep.at = "idle" /\ NoSweep \in Sweep
      /\ SignedOut.kind = "signed-out" /\ SignedOut \in AuthState
  BY SweepShapes, FreeLoopType
     DEF NewFlow, Flow, Identity, FreeLoop, SignedOut, AuthState
<1>3. CurrentFlow = None
  BY <1>1, <1>2 DEF CurrentFlow
<1>4. registry \in Sound /\ held \in [Helpers -> Sound \cup {None}]
  BY DEF Init, Stored, Sound
<1>5. TypeOK
  <2>1. /\ registry \in AccountRegistries
        /\ held \in [Helpers -> AccountRegistries \cup {None}]
    BY DEF Init
  <2>2. /\ flow \in [Flows -> Flow] /\ loop \in [Loops -> Loop]
        /\ clear \in [Clears -> {"free", "read", "write"}]
        /\ request \in [Requests -> {"idle", "sent"}]
    BY <1>2 DEF Init
  <2> QED
    BY <1>2, <2>1, <2>2 DEF Init, TypeOK, Identity
<1>6. HeldOK /\ CarriedOK
  BY <1>1, <1>2 DEF HeldOK, CarriedOK, Approved, Trying
<1>7. LoopsOK
  BY <1>1, <1>2 DEF LoopsOK, LoopSingleton, EscalatesOnlyWhenPersistent
<1>8. FlowsOK
  BY <1>3, NoneAssumption DEF FlowsOK, PendingFlowIsPolled
<1>9. BootOK
  BY <1>1, <1>2 DEF BootOK, Dropping
<1> QED
  BY <1>4, <1>5, <1>6, <1>7, <1>8, <1>9 DEF AuthInv, RegistriesOK

\* The account usage is booked on is that of a flow, of a sweep or the live one.
LEMMA NamesStep ==
  ASSUME TypeOK, CarriedOK, [Next]_vars, ~Restart
  PROVE  userName' \in Identity /\ outside' \in BOOLEAN
<1>0. /\ userName \in Identity /\ outside \in BOOLEAN /\ github \in Identity
      /\ None \in Identity /\ sweep.of \in Identity
      /\ \A f \in Flows : flow[f].account \in Identity
  BY DEF TypeOK, Flow, Sweep, Identity
<1>1. CASE UNCHANGED <<userName, outside>>
  BY <1>0, <1>1
<1>2. CASE NobodyIsLive
  BY <1>0, <1>2 DEF NobodyIsLive
<1>3. ASSUME NEW ls, NEW fs, MarkAuthDegraded(ls, fs) PROVE UNCHANGED live \/ NobodyIsLive
  BY <1>3 DEF MarkAuthDegraded
<1>4. CASE \E f \in Flows : StartDeviceFlow(f) \/ FlowStep(f) \/ FlowExpires(f)
  <2>1. PICK f \in Flows : StartDeviceFlow(f) \/ FlowStep(f) \/ FlowExpires(f)
    BY <1>4
  <2>2. CASE VerifyThrows(f) \/ VerifyReturns(f) \/ AddAccountWrites(f)
    BY <1>0, <2>2 DEF VerifyThrows, VerifyReturns, AddAccountWrites, PollerFails, session, live
  <2> QED
    BY <1>1, <1>2, <1>3, <2>1, <2>2
       DEF StartDeviceFlow, FlowStep, FlowExpires, DeviceCodeIssued, DeviceCodeFails,
           PollThrows, PollReturns, AddAccountReads, AddAccountThrows, PollerMints,
           PollerMintThrows, PollerMintRejected, PollerDegraded, PollerSignsIn,
           PollerFails, session, live
<1>5. CASE SweepStep
  <2>1. CASE CandidatePasses
    BY <1>0, <2>1 DEF CandidatePasses
  <2> QED
    BY <1>1, <1>2, <1>5, <2>1
       DEF SweepStep, SweepReads, SweepWrites, RecoveryStep, RecoveryLists, CandidateFails,
           CandidateMints, RecoveryReads, PinWrites, FlagWrites, RecoverySignsIn,
           TriesNext, session, live
<1>6. CASE BootStep
  <2>1. CASE BootReadsToken \/ BootFails \/ BootFindsUser \/ BootSignsIn
    BY <1>0, <2>1
       DEF BootReadsToken, TakesStored, TakesGiven, BootFails, BootFindsUser, BootSignsIn, live
  <2> QED
    BY <1>1, <1>2, <1>3, <1>6, <2>1
       DEF BootStep, BootMints, BootRejected, BootDegraded, session, live
<1>7. CASE (\E l \in Loops : LoopStep(l)) \/ (\E r \in Requests : RequestStep(r))
  BY <1>1, <1>2, <1>3, <1>7
     DEF LoopStep, LoopRequests, LoopRefreshes, LoopRejected, LoopEscalates, LoopThrows,
         LoopEnds, RequestStep, RequestSent, RequestServed, RequestRejected, session, live
<1>8. CASE (\E c \in Clears : ClearStep(c)) \/ SignOutStep \/ cancelDeviceFlow \/ SignOut
           \/ GraceExpires \/ UNCHANGED vars
  BY <1>1, <1>2, <1>8
     DEF ClearStep, ClearReads, ClearWrites, SignOutStep, SignOutReads, SignOutWrites,
         cancelDeviceFlow, SignOut, GraceExpires, vars, session, live
<1> QED
  BY <1>4, <1>5, <1>6, <1>7, <1>8, NextSteps DEF Bystander

LEMMA TypeStep ==
  ASSUME AuthInv, [Next]_vars
  PROVE  TypeOK'
<1>1. /\ registry' \in AccountRegistries
      /\ held' \in [Helpers -> AccountRegistries \cup {None}]
  BY RegistriesStep DEF AuthInv, RegistriesOK, Sound
<1>2. loop' \in [Loops -> Loop] /\ current' \in Loops \cup {None}
  BY LoopsStep DEF AuthInv, LoopsGood
<1>3. RestType' /\ raced' \in BOOLEAN
  BY RestStep, RacedStep DEF AuthInv, TypeOK, RestType
<1>4. CASE ~Restart
  <2>1. userName' \in Identity /\ outside' \in BOOLEAN
    BY <1>4, NamesStep DEF AuthInv
  <2> QED
    BY <1>1, <1>2, <1>3, <1>4, <2>1, FlowsMove, SessionStep
       DEF AuthInv, TypeOK, RestType, SessionKeeps, SweepKeeps
<1>5. CASE Restart
  <2>1. /\ auth' = SignedOut /\ github' = None /\ copilot' = None /\ inGrace' = FALSE
        /\ userName' = None /\ outside' = FALSE
        /\ flow' = [f \in Flows |-> NewFlow]
        /\ clear' = [c \in Clears |-> "free"] /\ sweep' = NoSweep
    BY <1>5 DEF Restart, NobodyIsLive
  <2>2. SignedOut \in AuthState /\ NewFlow \in Flow /\ NoSweep \in Sweep /\ None \in Identity
    BY SweepShapes DEF AuthState, NewFlow, Flow, Identity
  <2> QED
    BY <1>1, <1>2, <1>3, <2>1, <2>2 DEF TypeOK, RestType
<1> QED
  BY <1>4, <1>5

LEMMA AuthNext == AuthInv /\ [Next]_vars => AuthInv'
<1> SUFFICES ASSUME AuthInv, [Next]_vars PROVE AuthInv'
  OBVIOUS
<1>1. TypeOK'
  BY TypeStep
<1>2. RegistriesOK' /\ HeldOK' /\ CarriedOK'
  BY RegistriesStep, HeldStep, CarriedStep DEF AuthInv
<1>3. LoopsOK'
  BY LoopsStep DEF AuthInv, LoopsGood, LoopsOK, LoopSingleton, EscalatesOnlyWhenPersistent
<1>4. FlowsOK' /\ BootOK'
  BY FlowsStep, BootKeeps DEF AuthInv
<1> QED
  BY <1>1, <1>2, <1>3, <1>4 DEF AuthInv

LEMMA AuthAlways == Spec => []AuthInv
  BY AuthInit, AuthNext, PTL DEF Spec

(* The bearer has one keeper, a pending flow has its poller, and the       *)
(* active pointer on disk never dangles.                                   *)
THEOREM SessionIsSound == Spec => []SessionInvariant
<1>1. AuthInv => SessionInvariant
  BY DEF AuthInv, SessionInvariant, LoopsOK, FlowsOK, RegistriesOK, ActiveIsStored, Sound
<1> QED
  BY <1>1, AuthAlways, PTL

(* A refresh loop that gives its credential up has met MaxFatal rejections *)
(* in a row.                                                               *)
THEOREM EscalationIsPersistent == Spec => []EscalatesOnlyWhenPersistent
<1>1. AuthInv => EscalatesOnlyWhenPersistent
  BY DEF AuthInv, LoopsOK
<1> QED
  BY <1>1, AuthAlways, PTL

(* A poller aborted before it stored its account leaves the session that   *)
(* is shown, its tokens and the registry as they are.                      *)
THEOREM AbortLeavesNoTrace == Spec => AbortedFlowIsSilent
<1>1. ASSUME AuthInv, [Next]_vars, NEW f \in Flows,
             flow[f].aborted, flow[f].at \in {"poll", "verify"},
             flow'[f].at # flow[f].at
      PROVE  \/ flow'[f].at = "done" /\ UNCHANGED <<auth, github, copilot, registry>>
             \/ boot' = "start"
  <2>1. CASE Restart
    BY <2>1 DEF Restart, NobodyIsLive
  <2>2. CASE AllKept
    BY <1>1, <2>2 DEF AllKept, Kept
  <2>3. CASE \E g \in Flows : StartDeviceFlow(g) \/ FlowStep(g)
    <3>1. PICK g \in Flows : StartDeviceFlow(g) \/ FlowStep(g)
      BY <2>3
    <3>2. PICK at : Goes(g, at)
      BY <1>1, <3>1, FlowGoesSomewhere DEF AuthInv
    <3>3. g = f
      BY <1>1, <3>2 DEF Goes, Kept
    <3>4. PollThrows(f) \/ VerifyThrows(f) \/ VerifyReturns(f)
      BY <1>1, <3>1, <3>3
         DEF StartDeviceFlow, FlowStep, DeviceCodeIssued, DeviceCodeFails, PollReturns,
             AddAccountReads, AddAccountThrows, AddAccountWrites, PollerMints,
             PollerMintThrows, PollerMintRejected, PollerDegraded, PollerSignsIn, live
    <3>5. flow' = Ended(f) /\ UNCHANGED <<auth, github, copilot, registry>>
      BY <1>1, <3>4 DEF PollThrows, VerifyThrows, VerifyReturns, PollerFails, session, disk, live
    <3>6. Goes(f, "done")
      BY <1>1, <3>5, EndedGoes DEF AuthInv
    <3> QED
      BY <3>5, <3>6 DEF Goes
  <2> QED
    BY <1>1, <2>1, <2>2, <2>3, OtherStepsKeep DEF AuthInv
<1>2. AuthInv /\ [Next]_vars =>
        [\A f \in Flows :
           /\ flow[f].aborted /\ flow[f].at \in {"poll", "verify"}
           /\ flow'[f].at # flow[f].at
           => \/ flow'[f].at = "done" /\ UNCHANGED <<auth, github, copilot, registry>>
              \/ boot' = "start"]_vars
  BY <1>1
<1> QED
  BY <1>2, AuthAlways, PTL DEF Spec, AbortedFlowIsSilent

(* No rejection takes the session away in the grace window; outside a      *)
(* recovery that tries a candidate, only the user does.                    *)
THEOREM GraceKeepsSession == Spec => NoSweepInGrace
<1>1. ASSUME AuthInv, [Next]_vars, inGrace, sweep.of = None, github # None, github' = None
      PROVE  auth'.kind = "signed-out"
  <2>0. SignedOut.kind = "signed-out"
    BY DEF SignedOut
  <2>1. CASE Restart
    BY <2>0, <2>1 DEF Restart, NobodyIsLive
  <2>2. ASSUME NEW ls, NEW fs, MarkAuthDegraded(ls, fs) PROVE FALSE
    BY <1>1, <2>2 DEF MarkAuthDegraded, live, NobodyIsLive
  <2>3. CASE \E f \in Flows : StartDeviceFlow(f) \/ FlowStep(f) \/ FlowExpires(f)
    <3>1. PICK f \in Flows : StartDeviceFlow(f) \/ FlowStep(f) \/ FlowExpires(f)
      BY <2>3
    <3>2. ~AddAccountWrites(f)
      <4>1. AddAccountWrites(f) => github' \in Keys
        BY <1>1 DEF AddAccountWrites, AuthInv, CarriedOK, Approved, live
      <4> QED
        BY <1>1, <4>1, NoneAssumption
    <3> QED
      BY <1>1, <2>2, <3>1, <3>2
         DEF StartDeviceFlow, FlowStep, FlowExpires, DeviceCodeIssued, DeviceCodeFails,
             PollThrows, PollReturns, VerifyThrows, VerifyReturns, AddAccountReads,
             AddAccountThrows, PollerMints, PollerMintThrows, PollerMintRejected,
             PollerDegraded, PollerSignsIn, PollerFails, session, live
  <2>4. CASE SweepStep
    <3>1. sweep.at \notin Trying /\ sweep.at \notin Dropping
      BY <1>1, NoneAssumption DEF AuthInv, CarriedOK, BootOK
    <3> QED
      BY <2>4, <3>1
         DEF SweepStep, SweepReads, SweepWrites, RecoveryStep, RecoveryLists,
             CandidateFails, CandidatePasses, CandidateMints, RecoveryReads, PinWrites,
             FlagWrites, RecoverySignsIn, RecoveryMoves, Trying, Dropping, live
  <2>5. CASE \E l \in Loops : LoopStep(l)
    BY <1>1, <2>2, <2>5 DEF LoopStep, LoopRequests, LoopRefreshes, LoopRejected,
                            LoopEscalates, LoopThrows, LoopEnds, session, live
  <2>6. CASE \E r \in Requests : RequestStep(r)
    BY <1>1, <2>2, <2>6 DEF RequestStep, RequestSent, RequestServed, RequestRejected, session, live
  <2>7. CASE BootStep
    <3>1. boot # "start"
      BY <1>1 DEF AuthInv, BootOK
    <3> QED
      BY <1>1, <2>0, <2>2, <2>7, <3>1
         DEF BootStep, BootReadsToken, BootFails, BootFindsUser, BootMints, BootRejected,
             BootDegraded, BootSignsIn, session, live, TakesStored, TakesGiven
  <2>8. CASE (\E c \in Clears : ClearStep(c)) \/ SignOutStep
    BY <1>1, <2>8 DEF ClearStep, ClearReads, ClearWrites, SignOutStep, SignOutReads,
                      SignOutWrites, session, live
  <2>9. CASE cancelDeviceFlow \/ SignOut \/ GraceExpires \/ UNCHANGED vars
    BY <1>1, <2>0, <2>9 DEF cancelDeviceFlow, SignOut, GraceExpires, vars, session, live, NobodyIsLive
  <2> QED
    BY <1>1, <2>1, <2>3, <2>4, <2>5, <2>6, <2>7, <2>8, <2>9, NextSteps DEF Bystander
<1>2. AuthInv /\ [Next]_vars =>
        [(inGrace /\ sweep.of = None /\ github # None /\ github' = None)
           => auth'.kind = "signed-out"]_vars
  BY <1>1
<1> QED
  BY <1>2, AuthAlways, PTL DEF Spec, NoSweepInGrace

-----------------------------------------------------------------------------
(* Histories without an overlap: what holds as long as nothing raced.      *)
\* What a helper holds is what is on disk, and it alone holds something.
HeldFresh ==
  \A h \in Helpers : held[h] # None
    => held[h] = registry /\ \A g \in Helpers : held[g] # None => g = h

\* No flow whose poller could still sign in is pending.
NobodyPending == CurrentFlow # None => flow[CurrentFlow].aborted

\* The places of a poller that is about to sign in
Live == {"read", "write", "mint", "models"}

\* A poller that still counts is the pending flow's; a call that waits for a
\* code will resume what is there now, and nothing else is pending.
PollersAgree ==
  \A f \in Flows :
    /\ flow[f].at \in {"poll", "verify"} => flow[f].aborted \/ f = CurrentFlow
    /\ flow[f].at \in Live => ~flow[f].aborted /\ f = CurrentFlow
    /\ flow[f].at = "code" => /\ NobodyPending
                              /\ flow[f].resume = captureResumeTarget
                              /\ \A g \in Flows : flow[g].at = "code" => g = f

\* Neither a sweep nor a sign-out meets a flow that counts, nor each other.
OneAtATime ==
  /\ sweep.at # "idle" => /\ signOut = "idle" /\ NobodyPending
                          /\ \A f \in Flows : flow[f].at # "code"
  /\ signOut # "idle" => /\ auth = SignedOut /\ github = None
                         /\ \A f \in Flows : flow[f].at # "code"

\* No sweep is under way, the boot is past the point where it sets the state,
\* and no sign-in has its credential live and its state still to set.
Settled ==
  /\ sweep.at = "idle" /\ boot \in {"degrade", "up"}
  /\ \A f \in Flows : flow[f].at \notin {"mint", "models"}

\* The live credential is the one a flow would resume.
CredentialsAgree ==
  /\ Settled => captureResumeTarget = github
  /\ \A f \in Flows : flow[f].at \in {"mint", "models"} => github = flow[f].account

\* The live credential is the one on disk, unless a boot was given another.
StoredAgrees ==
  sweep.at = "idle" /\ github # None => registry.activeKey = github \/ outside

\* A sweep has no credential, or its candidate's, and its candidates are stored.
SweepAgrees ==
  /\ sweep.at \in Dropping => github = None
  /\ sweep.at \in {"mint", "pinRead", "pinWrite", "models"} => github = sweep.of
  /\ sweep.at = "models" => registry.activeKey = sweep.of
  /\ sweep.at \in Trying => \A a \in {sweep.of} \cup sweep.rest : HasAccount(registry, a)

\* Before the boot has a credential accepted, there is nothing else.
Starting ==
  /\ boot \in {"start", "user", "mint"} =>
       /\ sweep.at = "idle" /\ auth = SignedOut /\ ~inGrace
       /\ \A l \in Loops : loop[l].at = "free"
       /\ \A r \in Requests : request[r] = "idle"
  /\ boot # "up" => signOut = "idle"
  /\ boot = "start" => /\ \A c \in Clears : clear[c] = "free"
                       /\ \A h \in Helpers : held[h] = None

Agrees == PollersAgree /\ OneAtATime /\ CredentialsAgree /\ SweepAgrees
Unraced == ~raced => HeldFresh /\ Agrees /\ StoredAgrees

\* raced is history: only a restart forgets it, and a step that did not set it
\* began while nothing was settling.
LEMMA RacedIsKept ==
  ASSUME [Next]_vars, ~Restart, raced
  PROVE  raced'
<1>0. /\ \A self : NoteRace(self) => raced'
      /\ \A h : Hold(h) => raced'
      /\ NoteRecovery => raced'
  BY DEF NoteRace, Hold, NoteRecovery
<1>1. CASE UNCHANGED raced
  BY <1>1
<1>2. CASE \E f \in Flows : StartDeviceFlow(f) \/ FlowStep(f) \/ FlowExpires(f)
  BY <1>0, <1>1, <1>2
     DEF StartDeviceFlow, FlowStep, FlowExpires, DeviceCodeIssued, DeviceCodeFails,
         PollThrows, PollReturns, VerifyThrows, VerifyReturns, AddAccountReads,
         AddAccountThrows, AddAccountWrites, PollerMints, PollerMintThrows,
         PollerMintRejected, PollerDegraded, PollerSignsIn, PollerFails, live
<1>3. CASE SweepStep
  BY <1>0, <1>1, <1>3
     DEF SweepStep, SweepReads, SweepWrites, RecoveryStep, RecoveryLists, CandidateFails,
         CandidatePasses, CandidateMints, RecoveryReads, PinWrites, FlagWrites,
         RecoverySignsIn, live
<1>4. CASE \E l \in Loops : LoopStep(l)
  BY <1>0, <1>1, <1>4 DEF LoopStep, LoopRequests, LoopRefreshes, LoopRejected,
                          LoopEscalates, LoopThrows, LoopEnds, live
<1>5. CASE (\E c \in Clears : ClearStep(c)) \/ SignOutStep
  BY <1>0, <1>1, <1>5 DEF ClearStep, ClearReads, ClearWrites, SignOutStep, SignOutReads,
                          SignOutWrites
<1>6. CASE \E r \in Requests : RequestStep(r)
  BY <1>0, <1>1, <1>6 DEF RequestStep, RequestSent, RequestServed, RequestRejected
<1>7. CASE BootStep
  BY <1>0, <1>1, <1>7 DEF BootStep, BootReadsToken, BootFails, BootFindsUser, BootMints,
                          BootRejected, BootDegraded, BootSignsIn, live, TakesStored, TakesGiven
<1>8. CASE cancelDeviceFlow \/ SignOut \/ GraceExpires \/ UNCHANGED vars
  BY <1>0, <1>1, <1>8 DEF cancelDeviceFlow, SignOut, GraceExpires, vars, live, NobodyIsLive
<1> QED
  BY <1>2, <1>3, <1>4, <1>5, <1>6, <1>7, <1>8, NextSteps DEF Bystander

LEMMA NothingSettling ==
  ASSUME NEW self, NoteRace(self), ~raced'
  PROVE  /\ signOut = "idle" /\ sweep.at = "idle"
         /\ \A f \in Flows \ self : flow[f].at \notin Committing
  BY DEF NoteRace, Settling

-----------------------------------------------------------------------------
(* What a helper holds.                                                    *)
LEMMA FreshHold ==
  ASSUME RegistriesOK, HeldFresh, NEW h \in Helpers, Hold(h), UNCHANGED registry, ~raced'
  PROVE  HeldFresh'
<1>1. \A g \in Helpers : held[g] = None
  BY DEF Hold
<1>2. held'[h] = registry /\ \A g \in Helpers : g # h => held'[g] = held[g]
  BY HoldHolds
<1> QED
  BY <1>1, <1>2 DEF HeldFresh

LEMMA FreshLetGo ==
  ASSUME RegistriesOK, HeldFresh, NEW h \in Helpers, LetGo(h), held[h] # None \/ UNCHANGED registry
  PROVE  HeldFresh'
<1>1. /\ held'[h] = None
      /\ \A g \in Helpers : g # h => held'[g] = held[g]
  BY LetGoHolds DEF LetGo, RegistriesOK
<1>2. CASE held[h] # None
  <2>1. \A g \in Helpers : held'[g] = None
    BY <1>1, <1>2 DEF HeldFresh
  <2> QED
    BY <2>1 DEF HeldFresh
<1>3. CASE UNCHANGED registry
  BY <1>1, <1>3 DEF HeldFresh
<1> QED
  BY <1>2, <1>3

LEMMA HeldFreshStep ==
  ASSUME TypeOK, RegistriesOK, HeldOK, Starting, HeldFresh, [Next]_vars, ~raced'
  PROVE  HeldFresh'
<1>1. CASE UNCHANGED disk
  BY <1>1 DEF disk, HeldFresh
<1>2. ASSUME NEW h \in Helpers, Hold(h), UNCHANGED registry PROVE HeldFresh'
  BY <1>2, FreshHold
<1>3. ASSUME NEW h \in Helpers, LetGo(h), held[h] # None \/ UNCHANGED registry PROVE HeldFresh'
  BY <1>3, FreshLetGo
<1>4. CASE \E f \in Flows : StartDeviceFlow(f) \/ FlowStep(f) \/ FlowExpires(f)
  <2>1. PICK f \in Flows : StartDeviceFlow(f) \/ FlowStep(f) \/ FlowExpires(f)
    BY <1>4
  <2>2. f \in Helpers
    BY HelpersHere
  <2>3. CASE PollerFails(f)
    BY <1>3, <2>2, <2>3 DEF PollerFails, live
  <2>4. CASE AddAccountReads(f)
    BY <1>2, <2>2, <2>4 DEF AddAccountReads
  <2>5. CASE AddAccountWrites(f)
    BY <1>3, <2>2, <2>5 DEF AddAccountWrites, HeldOK, live
  <2> QED
    BY <1>1, <2>1, <2>3, <2>4, <2>5
       DEF StartDeviceFlow, FlowStep, FlowExpires, DeviceCodeIssued, DeviceCodeFails,
           PollThrows, VerifyThrows, AddAccountThrows, PollReturns, VerifyReturns,
           PollerMints, PollerMintThrows, PollerMintRejected, PollerDegraded, PollerSignsIn, live
<1>5. CASE \E c \in Clears : ClearStep(c)
  <2>1. PICK c \in Clears : ClearStep(c)
    BY <1>5
  <2>2. c \in Helpers
    BY HelpersHere
  <2>3. CASE ClearReads(c)
    BY <1>1, <1>2, <2>2, <2>3 DEF ClearReads, disk
  <2>4. CASE ClearWrites(c)
    BY <1>3, <2>2, <2>4 DEF ClearWrites, HeldOK, Pointed
  <2> QED
    BY <2>1, <2>3, <2>4 DEF ClearStep
<1>6. CASE SignOutStep
  <2>1. CASE SignOutReads
    BY <1>1, <1>2, <2>1, HelpersHere DEF SignOutReads, disk
  <2>2. CASE SignOutWrites
    BY <1>3, <2>2, HelpersHere DEF SignOutWrites, HeldOK
  <2> QED
    BY <1>6, <2>1, <2>2 DEF SignOutStep
<1>7. CASE SweepStep
  <2>1. CASE SweepReads
    BY <1>1, <1>2, <2>1, HelpersHere DEF SweepReads, disk, live
  <2>2. CASE SweepWrites
    BY <1>3, <2>2, HelpersHere DEF SweepWrites, HeldOK, Pointed, live
  <2>3. CASE PinWrites \/ FlagWrites
    <3>1. held["sweep"] # None /\ LetGo("sweep")
      BY <2>3 DEF PinWrites, FlagWrites, RecoveryMoves, HeldOK, live
    <3> QED
      BY <1>3, <3>1, HelpersHere
  <2>4. CASE RecoveryReads
    BY <1>2, <2>4, HelpersHere DEF RecoveryReads
  <2> QED
    BY <1>1, <1>7, <2>1, <2>2, <2>3, <2>4
       DEF SweepStep, RecoveryStep, RecoveryLists, CandidateFails, CandidatePasses,
           CandidateMints, RecoverySignsIn, live
<1>8. CASE Bystander
  <2>0. CASE BootReadsToken
    BY <2>0 DEF BootReadsToken, Starting, HeldFresh
  <2>1. CASE ~BootReadsToken
    <3> SUFFICES UNCHANGED disk
      BY <1>1
    <3> QED BY <1>8, <2>1
       DEF Bystander, LoopStep, LoopRequests, LoopRefreshes, LoopRejected, LoopEscalates,
           LoopThrows, LoopEnds, RequestStep, RequestSent, RequestServed, RequestRejected,
           BootStep, BootReadsToken, BootFails, BootFindsUser, BootMints, BootRejected,
           BootDegraded, BootSignsIn, cancelDeviceFlow, SignOut, GraceExpires, vars
  <2> QED
    BY <2>0, <2>1
<1>9. CASE Restart
  BY <1>9 DEF Restart, HeldFresh, NobodyIsLive
<1> QED
  BY <1>4, <1>5, <1>6, <1>7, <1>8, <1>9, NextSteps

-----------------------------------------------------------------------------
(* Before the boot has a credential accepted.                              *)
Early == {"start", "user", "mint"}

LEMMA EarlySteps ==
  ASSUME TypeOK, BootOK, Starting, boot \in Early, [Next]_vars, ~Restart
  PROVE  (boot # "start" /\ \E c \in Clears : ClearStep(c)) \/ BootStep \/ UNCHANGED vars
<1>0. boot = "start" => \A c \in Clears : ~ClearStep(c)
  BY DEF Starting, ClearStep, ClearReads, ClearWrites
<1>1. \A f \in Flows : ~StartDeviceFlow(f) /\ ~FlowStep(f)
  BY BootingFlows DEF BootOK, Early
<1>2. \A f \in Flows : ~FlowExpires(f)
  <2>1. CurrentFlow = None
    BY DEF Starting, Early, SignedOut, CurrentFlow
  <2> QED
    BY <2>1, NoneAssumption DEF FlowExpires
<1>3. ~SweepStep
  BY DEF Starting, Early, SweepStep, SweepReads, SweepWrites, RecoveryStep, RecoveryLists,
         CandidateFails, CandidatePasses, CandidateMints, RecoveryReads, PinWrites,
         FlagWrites, RecoverySignsIn, RecoveryMoves, live
<1>4. \A l \in Loops : ~LoopStep(l)
  BY DEF Starting, Early, LoopStep, LoopRequests, LoopRefreshes, LoopRejected,
         LoopEscalates, LoopThrows, LoopEnds, Asking, live
<1>5. \A r \in Requests : ~RequestStep(r)
  BY DEF Starting, Early, RequestStep, RequestSent, RequestServed, RequestRejected, Answered
<1>6. ~cancelDeviceFlow /\ ~SignOut /\ ~SignOutStep /\ ~GraceExpires
  BY DEF Starting, Early, cancelDeviceFlow, SignOut, SignOutStep, SignOutReads,
         SignOutWrites, GraceExpires, live, NobodyIsLive
<1> QED
  BY <1>0, <1>1, <1>2, <1>3, <1>4, <1>5, <1>6 DEF Next

LEMMA StartingStep ==
  ASSUME TypeOK, BootOK, Starting, [Next]_vars
  PROVE  Starting'
<1>1. CASE Restart
  <2>1. /\ \A l \in Loops : loop'[l] = FreeLoop
        /\ \A r \in Requests : request'[r] = "idle"
        /\ sweep' = NoSweep /\ ~inGrace' /\ auth' = SignedOut /\ signOut' = "idle"
        /\ boot' = "start" /\ \A c \in Clears : clear'[c] = "free"
        /\ \A h \in Helpers : held'[h] = None
    BY <1>1 DEF Restart, NobodyIsLive
  <2>2. FreeLoop.at = "free" /\ NoSweep.at = "idle" /\ SignedOut' = SignedOut
    BY SweepShapes DEF FreeLoop, SignedOut
  <2> QED
    BY <2>1, <2>2 DEF Starting
<1>2. ASSUME ~Restart, boot' # "up" PROVE boot # "up" /\ (boot' \in Early => boot \in Early)
  BY <1>2, NextMoves
     DEF Moves, Early, BootStep, BootReadsToken, BootFails, BootFindsUser, BootMints,
         BootRejected, BootDegraded, BootSignsIn, live, TakesStored, TakesGiven
<1>3. ASSUME ~Restart, boot' \in Early
      PROVE  /\ sweep'.at = "idle" /\ auth' = SignedOut /\ ~inGrace'
             /\ \A l \in Loops : loop'[l].at = "free"
             /\ \A r \in Requests : request'[r] = "idle"
  <2>1. boot \in Early
    BY <1>2, <1>3 DEF Early
  <2>2. (\E c \in Clears : ClearStep(c)) \/ BootReadsToken \/ BootFindsUser \/ UNCHANGED vars
    BY <1>3, <2>1, EarlySteps
       DEF BootStep, BootFails, BootMints, BootRejected, BootDegraded, BootSignsIn, Early, live
  <2>3. UNCHANGED <<sweep, auth, inGrace, loop, request>>
    BY <2>2 DEF ClearStep, ClearReads, ClearWrites, BootReadsToken, BootFindsUser, vars,
                session, loops, tails, env, live, TakesStored, TakesGiven
  <2> QED
    BY <2>1, <2>3 DEF Starting, Early
<1>4. ASSUME ~Restart, boot' # "up" PROVE signOut' = "idle"
  <2>1. signOut = "idle" /\ boot # "up"
    BY <1>2, <1>4 DEF Starting
  <2>2. ~SignOut /\ ~SignOutStep
    BY <2>1 DEF SignOut, SignOutStep, SignOutReads, SignOutWrites, NobodyIsLive
  <2>3. UNCHANGED signOut
    <3>1. CASE \E f \in Flows : StartDeviceFlow(f) \/ FlowStep(f) \/ FlowExpires(f)
      BY <3>1
         DEF StartDeviceFlow, FlowStep, FlowExpires, DeviceCodeIssued, DeviceCodeFails,
             PollThrows, PollReturns, VerifyThrows, VerifyReturns, AddAccountReads,
             AddAccountThrows, AddAccountWrites, PollerMints, PollerMintThrows,
             PollerMintRejected, PollerDegraded, PollerSignsIn, PollerFails, tails, live
    <3>2. CASE (\E c \in Clears : ClearStep(c)) \/ SweepStep
      BY <3>2
         DEF ClearStep, ClearReads, ClearWrites, SweepStep, SweepReads, SweepWrites,
             RecoveryStep, RecoveryLists, CandidateFails, CandidatePasses, CandidateMints,
             RecoveryReads, PinWrites, FlagWrites, RecoverySignsIn, live
    <3>3. CASE Bystander
      BY <2>2, <3>3
         DEF Bystander, LoopStep, LoopRequests, LoopRefreshes, LoopRejected, LoopEscalates,
             LoopThrows, LoopEnds, RequestStep, RequestSent, RequestServed,
             RequestRejected, BootStep, BootReadsToken, BootFails, BootFindsUser,
             BootMints, BootRejected, BootDegraded, BootSignsIn, cancelDeviceFlow,
             GraceExpires, vars, tails, live, TakesStored, TakesGiven
    <3> QED
      BY <1>4, <2>2, <3>1, <3>2, <3>3, NextSteps
  <2> QED
    BY <2>1, <2>3
<1>5. ASSUME ~Restart, boot' = "start" PROVE UNCHANGED <<clear, held, boot>>
  <2>1. boot = "start"
    BY <1>2, <1>5, NextMoves
       DEF Moves, BootStep, BootReadsToken, BootFails, BootFindsUser, BootMints,
           BootRejected, BootDegraded, BootSignsIn
  <2> QED
    BY <1>5, <2>1, EarlySteps
       DEF Early, BootStep, BootReadsToken, BootFails, BootFindsUser, BootMints,
           BootRejected, BootDegraded, BootSignsIn, vars, disk, tails, env
<1> QED
  BY <1>1, <1>3, <1>4, <1>5 DEF Starting, Early

-----------------------------------------------------------------------------
(* Who is pending, what it resumes, and what a step leaves of a flow.      *)
Same(g) ==
  /\ flow'[g].at = flow[g].at /\ flow'[g].account = flow[g].account
  /\ flow'[g].aborted = flow[g].aborted /\ flow'[g].resume = flow[g].resume

\* Aborted if it was pending, and otherwise the same
AbortedIfPending(g) ==
  /\ flow'[g].at = flow[g].at /\ flow'[g].account = flow[g].account
  /\ flow'[g].aborted = (flow[g].aborted \/ g = CurrentFlow)
  /\ flow'[g].resume = flow[g].resume

LEMMA AbortCurrentResume ==
  ASSUME NEW fs \in [Flows -> Flow], NEW g \in Flows
  PROVE  AbortCurrent(fs)[g].resume = fs[g].resume
<1>1. AbortCurrent(fs)[g] = [fs[g] EXCEPT !.aborted = @ \/ g = CurrentFlow]
  BY DEF AbortCurrent
<1> QED
  BY <1>1 DEF Flow

LEMMA AbortEffect ==
  ASSUME TypeOK, flow' = AbortCurrent(flow)
  PROVE  \A g \in Flows : AbortedIfPending(g)
<1>1. flow \in [Flows -> Flow]
  BY DEF TypeOK
<1> QED
  BY <1>1, AbortCurrentKeeps, AbortCurrentResume DEF AbortedIfPending

LEMMA MovedEffect ==
  ASSUME TypeOK, CarriedOK, NEW f \in Flows,
         NEW at \in {"poll"} \cup Approved, at \in Approved => flow[f].at \in Approved
  PROVE  LET fs == Moved(f, at) IN
         /\ fs \in [Flows -> Flow]
         /\ fs[f].at = at /\ fs[f].account = flow[f].account
         /\ fs[f].aborted = flow[f].aborted /\ fs[f].resume = flow[f].resume
         /\ \A g \in Flows : g # f => fs[g] = flow[g]
<1>1. at \in Approved => flow[f].account \in Keys
  BY DEF CarriedOK
<1>2. Moved(f, at)[f].resume = flow[f].resume
  BY DEF Moved, TypeOK, Flow
<1> QED
  BY <1>1, <1>2, MovedGoes

LEMMA EndedEffect ==
  ASSUME TypeOK, NEW f \in Flows, flow' = Ended(f)
  PROVE  /\ flow'[f].at = "done"
         /\ f = CurrentFlow => /\ flow'[f].resume = flow[f].resume
                               /\ flow'[f].aborted = flow[f].aborted
         /\ \A g \in Flows : g # f => flow'[g] = flow[g]
<1>1. flow[f] \in Flow /\ flow \in [Flows -> Flow]
  BY DEF TypeOK
<1>2. CASE f = CurrentFlow
  <2> DEFINE mid == [flow[f] EXCEPT !.at = "done"]
             new == [mid EXCEPT !.account = None]
  <2>1. flow' = [flow EXCEPT ![f] = new]
    BY <1>1, <1>2 DEF Ended
  <2>2. /\ mid \in Flow /\ mid.at = "done" /\ mid.resume = flow[f].resume
        /\ mid.aborted = flow[f].aborted
    BY <1>1 DEF Flow
  <2> HIDE DEF mid
  <2>3. new.at = "done" /\ new.resume = mid.resume /\ new.aborted = mid.aborted
    BY <2>2 DEF Flow
  <2> HIDE DEF new
  <2> QED
    BY <1>1, <2>1, <2>2, <2>3
<1>3. CASE f # CurrentFlow
  <2> DEFINE new == [NewFlow EXCEPT !.at = "done"]
  <2>1. flow' = [flow EXCEPT ![f] = new] /\ new.at = "done"
    BY <1>1, <1>3, DoneFlow DEF Ended
  <2> HIDE DEF new
  <2> QED
    BY <1>1, <1>3, <2>1
<1> QED
  BY <1>2, <1>3

LEMMA CaptureSame ==
  ASSUME TypeOK, UNCHANGED auth,
         CurrentFlow # None => flow'[CurrentFlow].resume = flow[CurrentFlow].resume
  PROVE  CurrentFlow' = CurrentFlow /\ captureResumeTarget' = captureResumeTarget
<1>1. CurrentFlow' = CurrentFlow
  BY DEF CurrentFlow
<1> QED
  BY <1>1 DEF captureResumeTarget

\* The state shown, by its kind
LEMMA Shown ==
  ASSUME TypeOK
  PROVE  /\ auth \in {SignedOut, Error} => CurrentFlow = None /\ captureResumeTarget = None
         /\ \A a : auth = SignedIn(a) => CurrentFlow = None /\ captureResumeTarget = a
         /\ auth' \in {SignedOut, Error}
              => CurrentFlow' = None /\ captureResumeTarget' = None
         /\ \A a : auth' = SignedIn(a) => CurrentFlow' = None /\ captureResumeTarget' = a
         /\ \A f \in Flows : auth' = Polling(f)
              => CurrentFlow' = f /\ captureResumeTarget' = flow'[f].resume
  BY NoneAssumption DEF CurrentFlow, captureResumeTarget, SignedOut, Error, SignedIn, Polling

\* The registry keeps its pointer, and no account leaves it.
SameRegistry ==
  /\ registry'.activeKey = registry.activeKey
  /\ \A a \in Keys : HasAccount(registry, a) => HasAccount(registry', a)

\* A poller that is about to sign in has the stage to itself.
LEMMA LiveAlone ==
  ASSUME TypeOK, BootOK, Starting, Agrees, NEW f \in Flows, flow[f].at \in Live
  PROVE  /\ f = CurrentFlow /\ ~flow[f].aborted
         /\ sweep.at = "idle" /\ signOut = "idle" /\ boot = "up"
         /\ \A g \in Flows : /\ flow[g].at # "code"
                             /\ g # f => /\ flow[g].at \notin Live
                                         /\ flow[g].at \in {"poll", "verify"} => flow[g].aborted
<1>1. f = CurrentFlow /\ ~flow[f].aborted /\ f # None
  BY NoneAssumption DEF Agrees, PollersAgree
<1>2. ~NobodyPending
  BY <1>1 DEF NobodyPending
<1>3. auth # SignedOut
  BY <1>1 DEF CurrentFlow, SignedOut
<1> QED
  BY <1>1, <1>2, <1>3 DEF Agrees, PollersAgree, OneAtATime, BootOK, Live

LEMMA AgreesFrame ==
  ASSUME TypeOK, CarriedOK, Agrees, UNCHANGED <<auth, github, signOut, sweep>>,
         \A g \in Flows : Same(g), SameRegistry,
         boot' \in {"degrade", "up"} => boot \in {"degrade", "up"}
  PROVE  Agrees'
<1>1. CurrentFlow' = CurrentFlow /\ captureResumeTarget' = captureResumeTarget
  BY CaptureSame, AuthShape DEF Same
<1>2. NobodyPending' <=> NobodyPending
  BY <1>1, AuthShape DEF NobodyPending, Same
<1>3. PollersAgree'
  BY <1>1, <1>2 DEF Agrees, PollersAgree, Same
<1>4. OneAtATime'
  <2>1. SignedOut' = SignedOut
    BY DEF SignedOut
  <2> QED
    BY <1>2, <2>1 DEF Agrees, OneAtATime, Same
<1>5. CredentialsAgree'
  BY <1>1 DEF Agrees, CredentialsAgree, Settled, Same, SameRegistry
<1>6. SweepAgrees'
  <2>1. sweep.at \in Trying => {sweep.of} \cup sweep.rest \subseteq Keys
    BY DEF TypeOK, Sweep, CarriedOK
  <2> QED
    BY <2>1 DEF Agrees, SweepAgrees, SameRegistry, Dropping, Trying
<1> QED
  BY <1>3, <1>4, <1>5, <1>6 DEF Agrees

-----------------------------------------------------------------------------
(* markAuthDegraded.  Nothing else is under way when it begins, but the    *)
(* poller whose mint was rejected.                                         *)
LEMMA DegradeAgrees ==
  ASSUME TypeOK, CarriedOK, FlowsOK, Starting, Agrees,
         NEW ls, NEW fs \in [Flows -> Flow], MarkAuthDegraded(ls, fs),
         \A g \in Flows : /\ fs[g].resume = flow[g].resume
                          /\ fs[g].aborted = flow[g].aborted
                          /\ fs[g].account = flow[g].account
                          /\ \/ fs[g].at = flow[g].at /\ flow[g].at \notin Committing
                             \/ fs[g].at = "degrade" /\ flow[g].at = "mint",
         signOut = "idle", sweep.at = "idle", UNCHANGED <<auth, registry, signOut>>,
         boot' = boot \/ (boot = "mint" /\ boot' = "degrade")
  PROVE  Agrees'
<1>1. CASE inGrace
  <2>1. boot # "mint"
    BY <1>1 DEF Starting
  <2>2. flow' = fs /\ UNCHANGED <<github, sweep>>
    BY <1>1 DEF MarkAuthDegraded, live, NobodyIsLive
  <2>3. ASSUME NEW g \in Flows PROVE flow[g].at # "mint"
    BY <1>1 DEF Agrees, PollersAgree, Live, FlowsOK
  <2>4. \A g \in Flows : Same(g)
    BY <2>2, <2>3 DEF Same
  <2>5. SameRegistry
    BY DEF SameRegistry
  <2> QED
    BY <2>1, <2>2, <2>4, <2>5, AgreesFrame
<1>2. CASE ~inGrace
  <2>1. /\ flow' = AbortCurrent(fs) /\ github' = None
        /\ sweep' = SweepAt("read") \/ (auth = Error /\ UNCHANGED sweep)
    BY <1>2 DEF MarkAuthDegraded, live, NobodyIsLive
  <2>2. ASSUME NEW g \in Flows
        PROVE  /\ flow'[g].aborted = (flow[g].aborted \/ g = CurrentFlow)
               /\ flow'[g].resume = flow[g].resume
               /\ flow'[g].at \notin Live \cup {"code"}
               /\ flow'[g].at \in {"poll", "verify"} => flow'[g].at = flow[g].at
    BY <2>1, AbortCurrentKeeps, AbortCurrentResume DEF Live, Committing
  <2>3. CurrentFlow' = CurrentFlow /\ captureResumeTarget' = captureResumeTarget
    BY <2>2, CaptureSame, AuthShape
  <2>4. NobodyPending'
    BY <2>2, <2>3, AuthShape DEF NobodyPending
  <2>5. PollersAgree'
    BY <2>2, <2>3 DEF Agrees, PollersAgree, Live
  <2>6. OneAtATime'
    BY <2>2, <2>4 DEF OneAtATime
  <2>7. CredentialsAgree'
    <3>1. \A g \in Flows : flow'[g].at \notin {"mint", "models"}
      BY <2>2 DEF Live
    <3>2. Settled' => captureResumeTarget' = None
      BY <2>1, <2>3, Shown, SweepShapes DEF Settled
    <3> QED
      BY <2>1, <3>1, <3>2 DEF CredentialsAgree
  <2>8. SweepAgrees'
    BY <2>1, SweepShapes DEF SweepAgrees, Dropping, Trying
  <2> QED
    BY <2>5, <2>6, <2>7, <2>8 DEF Agrees
<1> QED
  BY <1>1, <1>2

-----------------------------------------------------------------------------
(* The flows.                                                              *)
LEMMA StartAgrees ==
  ASSUME TypeOK, CarriedOK, Agrees, NEW f \in Flows, StartDeviceFlow(f), ~raced'
  PROVE  Agrees'
<1> DEFINE fs == AbortCurrent(flow)
           mid == [fs[f] EXCEPT !.at = "code"]
           new == [mid EXCEPT !.resume = captureResumeTarget]
<1>1. /\ signOut = "idle" /\ sweep.at = "idle"
      /\ \A g \in Flows : flow[g].at \notin Committing
  BY NothingSettling DEF StartDeviceFlow
<1>2. /\ fs \in [Flows -> Flow]
      /\ \A g \in Flows :
           /\ fs[g].at = flow[g].at /\ fs[g].account = flow[g].account
           /\ fs[g].aborted = (flow[g].aborted \/ g = CurrentFlow)
           /\ fs[g].resume = flow[g].resume
  BY AbortCurrentKeeps, AbortCurrentResume DEF TypeOK
<1>3. flow' = [fs EXCEPT ![f] = new]
  BY <1>2 DEF StartDeviceFlow
<1> HIDE DEF fs
<1>4. mid \in Flow /\ mid.at = "code" /\ mid.aborted = fs[f].aborted
  BY <1>2 DEF Flow
<1> HIDE DEF mid
<1>5. new.at = "code" /\ new.aborted = fs[f].aborted /\ new.resume = captureResumeTarget
  BY <1>4, AuthShape DEF Flow
<1> HIDE DEF new
<1>6. /\ flow'[f].at = "code" /\ flow'[f].resume = captureResumeTarget
      /\ flow'[f].aborted = (flow[f].aborted \/ f = CurrentFlow)
      /\ \A g \in Flows : g # f => AbortedIfPending(g)
  BY <1>2, <1>3, <1>5 DEF AbortedIfPending
<1>7. UNCHANGED <<auth, github, sweep, signOut, registry, boot>>
  BY DEF StartDeviceFlow, session, tails, disk, env, live
<1>8. CurrentFlow' = CurrentFlow /\ captureResumeTarget' = captureResumeTarget
  <2>1. CASE CurrentFlow = f
    <3>1. captureResumeTarget = flow[f].resume
      BY <2>1, NoneAssumption DEF captureResumeTarget
    <3> QED
      BY <1>6, <1>7, <2>1, <3>1, CaptureSame
  <2>2. CASE CurrentFlow # f
    BY <1>6, <1>7, <2>2, CaptureSame, AuthShape DEF AbortedIfPending
  <2> QED
    BY <2>1, <2>2
<1>9. NobodyPending'
  BY <1>6, <1>8, AuthShape DEF NobodyPending, AbortedIfPending
<1>10. PollersAgree'
  <2>1. ASSUME NEW g \in Flows, g # f
        PROVE  /\ flow'[g].at = flow[g].at /\ flow[g].at \notin Live \cup {"code"}
               /\ flow'[g].at \in {"poll", "verify"} => flow'[g].aborted \/ g = CurrentFlow'
    BY <1>1, <1>6, <1>8, <2>1 DEF Agrees, PollersAgree, AbortedIfPending, Committing, Live
  <2> QED
    BY <1>6, <1>8, <1>9, <2>1 DEF PollersAgree, Live
<1>11. OneAtATime'
  BY <1>1, <1>7 DEF OneAtATime
<1>12. CredentialsAgree'
  BY <1>1, <1>6, <1>7, <1>8
     DEF Agrees, CredentialsAgree, Settled, AbortedIfPending, Committing
<1>13. SweepAgrees'
  BY <1>1, <1>7 DEF SweepAgrees, Dropping, Trying
<1> QED
  BY <1>10, <1>11, <1>12, <1>13 DEF Agrees

LEMMA CodeIssuedAgrees ==
  ASSUME TypeOK, CarriedOK, BootOK, Starting, Agrees, NEW f \in Flows, DeviceCodeIssued(f)
  PROVE  Agrees'
<1>1. /\ flow'[f].at = "poll" /\ flow'[f].resume = flow[f].resume
      /\ \A g \in Flows : g # f => flow'[g] = flow[g]
  BY MovedEffect DEF DeviceCodeIssued, Approved, live
<1>2. /\ auth' = Polling(f) /\ flow[f].at = "code"
      /\ UNCHANGED <<github, sweep, signOut, registry, boot>>
  BY DEF DeviceCodeIssued, tails, disk, env, live
<1>3. CurrentFlow' = f /\ captureResumeTarget' = captureResumeTarget
  BY <1>1, <1>2, Shown DEF Agrees, PollersAgree
<1>4. /\ sweep.at = "idle" /\ signOut = "idle" /\ boot = "up"
      /\ \A g \in Flows : flow[g].at \notin Live
      /\ \A g \in Flows : flow[g].at \in {"poll", "verify"} => flow[g].aborted
      /\ \A g \in Flows : flow[g].at = "code" => g = f
  <2>1. NobodyPending /\ \A g \in Flows : flow[g].at = "code" => g = f
    BY <1>2 DEF Agrees, PollersAgree
  <2>2. ASSUME NEW g \in Flows, flow[g].at \in Live \cup {"poll", "verify"} PROVE flow[g].aborted
    BY <2>1, <2>2, NoneAssumption DEF Agrees, PollersAgree, NobodyPending
  <2>3. \A g \in Flows : flow[g].at \notin Live
    BY <2>2 DEF Agrees, PollersAgree
  <2> QED
    BY <1>2, <2>1, <2>2, <2>3 DEF Agrees, OneAtATime, BootOK
<1>5. PollersAgree'
  BY <1>1, <1>3, <1>4 DEF PollersAgree, Live
<1>6. OneAtATime'
  BY <1>2, <1>4 DEF OneAtATime
<1>7. CredentialsAgree'
  BY <1>1, <1>2, <1>3, <1>4 DEF Agrees, CredentialsAgree, Settled, Live
<1>8. SweepAgrees'
  BY <1>2, <1>4 DEF SweepAgrees, Dropping, Trying
<1> QED
  BY <1>5, <1>6, <1>7, <1>8 DEF Agrees

\* A poller that ends on its own leaves the pending state as it was.
LEMMA EndedAgrees ==
  ASSUME TypeOK, CarriedOK, Agrees, NEW f \in Flows, flow' = Ended(f),
         flow[f].at \notin {"mint", "models"} \/ flow[f].aborted,
         UNCHANGED <<auth, github, sweep, signOut, registry, boot>>
  PROVE  Agrees'
<1>1. /\ flow'[f].at = "done"
      /\ f = CurrentFlow => flow'[f].resume = flow[f].resume /\ flow'[f].aborted = flow[f].aborted
      /\ \A g \in Flows : g # f => flow'[g] = flow[g]
  BY EndedEffect
<1>2. CurrentFlow' = CurrentFlow /\ captureResumeTarget' = captureResumeTarget
  BY <1>1, CaptureSame, AuthShape
<1>3. NobodyPending' <=> NobodyPending
  BY <1>1, <1>2, AuthShape DEF NobodyPending
<1>4. PollersAgree'
  BY <1>1, <1>2, <1>3 DEF Agrees, PollersAgree, Live
<1>5. OneAtATime'
  <2>1. SignedOut' = SignedOut
    BY DEF SignedOut
  <2> QED
    BY <1>1, <1>3, <2>1 DEF Agrees, OneAtATime
<1>6. flow[f].at \notin {"mint", "models"}
  BY DEF Agrees, PollersAgree, Live
<1>7. CredentialsAgree'
  BY <1>1, <1>2, <1>6 DEF Agrees, CredentialsAgree, Settled
<1>8. SweepAgrees'
  BY AgreesFrame DEF Agrees, SweepAgrees
<1> QED
  BY <1>4, <1>5, <1>7, <1>8 DEF Agrees

\* A failed one that still counts puts the user back.
LEMMA FailedAgrees ==
  ASSUME TypeOK, CarriedOK, BootOK, Starting, Agrees, NEW f \in Flows, PollerFails(f),
         flow[f].at \in {"poll", "verify", "write"}
  PROVE  Agrees'
<1>0. /\ flow' = Ended(f) /\ UNCHANGED <<github, sweep, signOut, registry, boot>>
      /\ auth' = IF flow[f].aborted THEN auth ELSE flowFailureState(f)
  BY DEF PollerFails, loops, tails, env, live
<1>1. CASE flow[f].aborted
  BY <1>0, <1>1, EndedAgrees
<1>2. CASE ~flow[f].aborted
  <2>1. f = CurrentFlow
    BY <1>2 DEF Agrees, PollersAgree, Live
  <2>2. /\ sweep.at = "idle" /\ signOut = "idle" /\ boot = "up"
        /\ \A g \in Flows : /\ flow[g].at # "code"
                            /\ flow[g].at \in Live \cup {"poll", "verify"} => g = f \/ flow[g].aborted
    <3>1. ~NobodyPending /\ auth # SignedOut
      BY <1>2, <2>1, NoneAssumption DEF NobodyPending, CurrentFlow, SignedOut
    <3> QED
      BY <1>2, <2>1, <3>1 DEF Agrees, PollersAgree, OneAtATime, BootOK
  <2>3. ASSUME NEW g \in Flows PROVE flow[g].at \in Live => g = f
    BY <2>1 DEF Agrees, PollersAgree
  <2>4. captureResumeTarget = github /\ captureResumeTarget = flow[f].resume
    <3>1. Settled
      BY <2>2, <2>3 DEF Settled, Live
    <3>2. captureResumeTarget = flow[f].resume
      BY <2>1, NoneAssumption DEF captureResumeTarget
    <3> QED
      BY <3>1, <3>2 DEF Agrees, CredentialsAgree
  <2>5. CurrentFlow' = None /\ captureResumeTarget' = flow[f].resume
    BY <1>0, <1>2, Shown DEF flowFailureState, Resumed
  <2>6. /\ flow'[f].at = "done" /\ \A g \in Flows : g # f => flow'[g] = flow[g]
    BY <1>0, EndedEffect
  <2>7. PollersAgree'
    BY <2>2, <2>3, <2>5, <2>6 DEF PollersAgree, Live
  <2>8. OneAtATime'
    BY <1>0, <2>2 DEF OneAtATime
  <2>9. CredentialsAgree'
    BY <1>0, <2>3, <2>4, <2>5, <2>6 DEF Agrees, CredentialsAgree, Live
  <2>10. SweepAgrees'
    BY <1>0, <2>2 DEF SweepAgrees, Dropping, Trying
  <2> QED
    BY <2>7, <2>8, <2>9, <2>10 DEF Agrees
<1> QED
  BY <1>1, <1>2

\* A pending flow that nobody aborted has the stage to itself.
LEMMA PendingAlone ==
  ASSUME TypeOK, Agrees, NEW f \in Flows, f = CurrentFlow, ~flow[f].aborted
  PROVE  /\ sweep.at = "idle" /\ signOut = "idle"
         /\ \A g \in Flows :
              /\ flow[g].at # "code"
              /\ g # f => /\ flow[g].at \notin Live
                          /\ flow[g].at \in {"poll", "verify"} => flow[g].aborted
<1>1. ~NobodyPending
  BY NoneAssumption DEF NobodyPending
<1>2. auth # SignedOut
  BY NoneAssumption DEF CurrentFlow, SignedOut
<1> QED
  BY <1>1, <1>2 DEF Agrees, PollersAgree, OneAtATime

\* A poller that goes on towards its sign-in, with its credential live from
\* the moment it is stored
LEMMA AdvanceAgrees ==
  ASSUME TypeOK, CarriedOK, Agrees, NEW f \in Flows, NEW at \in Live,
         flow[f].at \in {"verify"} \cup Live, ~flow[f].aborted, flow' = Moved(f, at),
         UNCHANGED <<auth, sweep, signOut>>,
         boot' \in {"degrade", "up"} => boot \in {"degrade", "up"},
         at \in {"read", "write"} =>
           UNCHANGED <<github, registry>> /\ flow[f].at \notin {"mint", "models"},
         at \in {"mint", "models"} => github' = flow[f].account
  PROVE  Agrees'
<1>1. f = CurrentFlow
  BY DEF Agrees, PollersAgree
<1>2. /\ sweep.at = "idle" /\ signOut = "idle"
      /\ \A g \in Flows :
           /\ flow[g].at # "code"
           /\ g # f => /\ flow[g].at \notin Live
                       /\ flow[g].at \in {"poll", "verify"} => flow[g].aborted
  BY <1>1, PendingAlone
<1>3. /\ flow'[f].at = at /\ flow'[f].account = flow[f].account
      /\ flow'[f].aborted = flow[f].aborted /\ flow'[f].resume = flow[f].resume
      /\ \A g \in Flows : g # f => flow'[g] = flow[g]
  BY MovedEffect DEF Live, Approved
<1>4. CurrentFlow' = CurrentFlow /\ captureResumeTarget' = captureResumeTarget
  BY <1>1, <1>3, CaptureSame
<1>5. PollersAgree'
  BY <1>1, <1>2, <1>3, <1>4 DEF PollersAgree, Live
<1>6. OneAtATime'
  BY <1>2 DEF OneAtATime
<1>7. CredentialsAgree'
  <2>1. CASE at \in {"read", "write"}
    BY <1>2, <1>3, <1>4, <2>1 DEF Agrees, CredentialsAgree, Settled
  <2>2. CASE at \in {"mint", "models"}
    BY <1>2, <1>3, <1>4, <2>2 DEF CredentialsAgree, Settled, Live
  <2> QED
    BY <2>1, <2>2 DEF Live
<1>8. SweepAgrees'
  BY <1>2 DEF SweepAgrees, Dropping, Trying
<1> QED
  BY <1>5, <1>6, <1>7, <1>8 DEF Agrees

LEMMA ReturnsAgrees ==
  ASSUME TypeOK, CarriedOK, Agrees, NEW f \in Flows, NEW a \in Keys, PollReturns(f, a)
  PROVE  Agrees'
<1> DEFINE mid == [flow[f] EXCEPT !.at = "verify"]
           new == [mid EXCEPT !.account = a]
<1>1. /\ flow[f].at = "poll" /\ ~flow[f].aborted /\ flow' = [flow EXCEPT ![f] = new]
      /\ UNCHANGED <<auth, github, sweep, signOut, registry, boot>>
  BY DEF PollReturns, session, disk, tails, env, TypeOK, live
<1>2. flow[f] \in Flow /\ flow \in [Flows -> Flow]
  BY DEF TypeOK
<1>3. /\ mid \in Flow /\ mid.at = "verify" /\ mid.aborted = flow[f].aborted
      /\ mid.resume = flow[f].resume
  BY <1>2 DEF Flow
<1> HIDE DEF mid
<1>4. new.at = "verify" /\ new.aborted = flow[f].aborted /\ new.resume = flow[f].resume
  BY <1>3 DEF Flow
<1> HIDE DEF new
<1>5. /\ flow'[f].at = "verify" /\ flow'[f].aborted = flow[f].aborted
      /\ flow'[f].resume = flow[f].resume
      /\ \A g \in Flows : g # f => flow'[g] = flow[g]
  BY <1>1, <1>2, <1>4
<1>6. f = CurrentFlow
  BY <1>1 DEF Agrees, PollersAgree
<1>7. /\ sweep.at = "idle" /\ signOut = "idle" /\ \A g \in Flows : flow[g].at # "code"
  BY <1>1, <1>6, PendingAlone
<1>8. CurrentFlow' = CurrentFlow /\ captureResumeTarget' = captureResumeTarget
  BY <1>1, <1>5, CaptureSame, AuthShape
<1>9. PollersAgree'
  BY <1>5, <1>6, <1>7, <1>8 DEF Agrees, PollersAgree, Live
<1>10. OneAtATime'
  BY <1>1, <1>7 DEF OneAtATime
<1>11. CredentialsAgree'
  BY <1>1, <1>5, <1>8 DEF Agrees, CredentialsAgree, Settled
<1>12. SweepAgrees'
  BY <1>1, <1>7 DEF SweepAgrees, Dropping, Trying
<1> QED
  BY <1>9, <1>10, <1>11, <1>12 DEF Agrees

LEMMA WritesAgrees ==
  ASSUME TypeOK, CarriedOK, Agrees, NEW f \in Flows, AddAccountWrites(f)
  PROVE  Agrees'
<1>1. ~flow[f].aborted /\ flow[f].at = "write"
  BY DEF AddAccountWrites, Agrees, PollersAgree, Live, live
<1>2. /\ github' = flow[f].account
      /\ UNCHANGED <<auth, sweep, signOut, boot>>
      /\ flow' = Moved(f, "mint") \/ flow' = Moved(f, "models")
  BY <1>1 DEF AddAccountWrites, AfterMint, env, live
<1> QED
  BY <1>1, <1>2, AdvanceAgrees DEF Live

LEMMA MintsAgrees ==
  ASSUME TypeOK, CarriedOK, Agrees, NEW f \in Flows, PollerMints(f) \/ PollerMintThrows(f)
  PROVE  Agrees'
<1>1. /\ ~flow[f].aborted /\ flow[f].at = "mint" /\ f = CurrentFlow
      /\ github = flow[f].account /\ flow[f].account \in Keys
  BY DEF PollerMints, PollerMintThrows, Agrees, PollersAgree, CredentialsAgree, Live,
         CarriedOK, Approved, live
<1>2. UNCHANGED <<auth, github, registry, sweep, signOut, boot>> /\ flow' = Moved(f, "models")
  BY <1>1 DEF PollerMints, PollerMintThrows, AfterMint, env, session, disk, tails, live
<1> QED
  BY <1>1, <1>2, AdvanceAgrees DEF Live

LEMMA MintRejectedAgrees ==
  ASSUME TypeOK, CarriedOK, FlowsOK, Starting, Agrees, NEW f \in Flows,
         PollerMintRejected(f), ~raced'
  PROVE  Agrees'
<1> DEFINE fs == Moved(f, "degrade")
<1>1. /\ flow[f].at = "mint" /\ MarkAuthDegraded(loop, fs)
      /\ UNCHANGED <<auth, registry, signOut, boot>>
  BY DEF PollerMintRejected, disk, env
<1>2. /\ signOut = "idle" /\ sweep.at = "idle"
      /\ \A g \in Flows : g # f => flow[g].at \notin Committing
  BY NothingSettling DEF PollerMintRejected
<1>3. /\ fs \in [Flows -> Flow]
      /\ fs[f].at = "degrade" /\ fs[f].account = flow[f].account
      /\ fs[f].aborted = flow[f].aborted /\ fs[f].resume = flow[f].resume
      /\ \A g \in Flows : g # f => fs[g] = flow[g]
  BY <1>1, MovedEffect DEF Approved
<1> HIDE DEF fs
<1> QED
  BY <1>1, <1>2, <1>3, DegradeAgrees

LEMMA SignsInAgrees ==
  ASSUME TypeOK, CarriedOK, Agrees, NEW f \in Flows, PollerSignsIn(f)
  PROVE  Agrees'
<1>1. /\ ~flow[f].aborted /\ flow[f].at = "models" /\ f = CurrentFlow
      /\ github = flow[f].account /\ flow[f].account \in Keys
  BY DEF PollerSignsIn, Agrees, PollersAgree, CredentialsAgree, Live, CarriedOK, Approved, live
<1>2. /\ sweep.at = "idle" /\ signOut = "idle"
      /\ \A g \in Flows :
           /\ flow[g].at # "code"
           /\ g # f => /\ flow[g].at \notin Live
                       /\ flow[g].at \in {"poll", "verify"} => flow[g].aborted
  BY <1>1, PendingAlone
<1>3. /\ auth' = SignedIn(flow[f].account)
      /\ UNCHANGED <<github, registry, sweep, signOut, boot>>
  BY DEF PollerSignsIn, disk, tails, env, live
<1>4. flow'[f].at = "done" /\ \A g \in Flows : g # f => flow'[g] = flow[g]
  BY DoneFlow DEF PollerSignsIn, TypeOK, live
<1>5. CurrentFlow' = None /\ captureResumeTarget' = github
  BY <1>1, <1>3, Shown
<1>6. PollersAgree'
  BY <1>2, <1>4 DEF PollersAgree, Live
<1>7. OneAtATime'
  BY <1>2, <1>3 DEF OneAtATime
<1>8. CredentialsAgree'
  BY <1>2, <1>3, <1>4, <1>5 DEF Agrees, CredentialsAgree, Live
<1>9. SweepAgrees'
  BY <1>2, <1>3 DEF SweepAgrees, Dropping, Trying
<1> QED
  BY <1>6, <1>7, <1>8, <1>9 DEF Agrees

\* A step of a flow
LEMMA FlowAgrees ==
  ASSUME TypeOK, CarriedOK, FlowsOK, BootOK, Starting, Agrees, NEW f \in Flows,
         StartDeviceFlow(f) \/ FlowStep(f) \/ FlowExpires(f), ~raced'
  PROVE  Agrees'
<1>1. CASE StartDeviceFlow(f)
  BY <1>1, StartAgrees
<1>2. CASE DeviceCodeIssued(f)
  BY <1>2, CodeIssuedAgrees
<1>3. CASE DeviceCodeFails(f) \/ PollerDegraded(f)
  <2>1. /\ flow' = Ended(f) /\ flow[f].at \in {"code", "degrade"}
        /\ UNCHANGED <<auth, github, sweep, signOut, registry, boot>>
    BY <1>3 DEF DeviceCodeFails, PollerDegraded, session, tails, disk, env, live
  <2> QED
    BY <2>1, EndedAgrees
<1>4. CASE PollThrows(f) \/ VerifyThrows(f) \/ AddAccountThrows(f)
  BY <1>4, FailedAgrees DEF PollThrows, VerifyThrows, AddAccountThrows
<1>5. CASE \E a \in Keys : PollReturns(f, a)
  BY <1>5, ReturnsAgrees
<1>6. CASE VerifyReturns(f)
  <2>1. UNCHANGED <<auth, github, sweep, signOut, registry, boot>> /\ flow[f].at = "verify"
    BY <1>6 DEF VerifyReturns, session, tails, disk, env, live
  <2>2. CASE flow[f].aborted
    BY <1>6, <2>1, <2>2, EndedAgrees DEF VerifyReturns
  <2>3. CASE ~flow[f].aborted
    BY <1>6, <2>1, <2>3, AdvanceAgrees DEF VerifyReturns, Live
  <2> QED
    BY <2>2, <2>3
<1>7. CASE AddAccountReads(f)
  <2>1. /\ UNCHANGED <<auth, github, sweep, signOut, registry, boot>>
        /\ flow[f].at = "read" /\ flow' = Moved(f, "write") /\ ~flow[f].aborted
    BY <1>7 DEF AddAccountReads, session, tails, env, Agrees, PollersAgree, Live, live
  <2> QED
    BY <2>1, AdvanceAgrees DEF Live
<1>8. CASE AddAccountWrites(f)
  BY <1>8, WritesAgrees
<1>9. CASE PollerMints(f) \/ PollerMintThrows(f)
  BY <1>9, MintsAgrees
<1>10. CASE PollerMintRejected(f)
  BY <1>10, MintRejectedAgrees
<1>11. CASE PollerSignsIn(f)
  BY <1>11, SignsInAgrees
<1>12. CASE FlowExpires(f)
  <2> DEFINE new == [flow[f] EXCEPT !.expired = TRUE]
  <2>1. /\ flow' = [flow EXCEPT ![f] = new] /\ flow[f] \in Flow
        /\ UNCHANGED <<auth, github, sweep, signOut, registry, boot>>
    BY <1>12 DEF FlowExpires, session, tails, disk, env, TypeOK, live
  <2>2. /\ new.at = flow[f].at /\ new.account = flow[f].account
        /\ new.aborted = flow[f].aborted /\ new.resume = flow[f].resume
    BY <2>1 DEF Flow
  <2> HIDE DEF new
  <2>3. \A g \in Flows : Same(g)
    BY <2>1, <2>2 DEF Same, TypeOK
  <2>4. SameRegistry
    BY <2>1 DEF SameRegistry
  <2> QED
    BY <2>1, <2>3, <2>4, AgreesFrame
<1> QED
  BY <1>1, <1>2, <1>3, <1>4, <1>5, <1>6, <1>7, <1>8, <1>9, <1>10, <1>11, <1>12 DEF FlowStep

-----------------------------------------------------------------------------
(* The sweep.                                                              *)
\* A flag moves no pointer and loses no account.
LEMMA FlagKeepsAccounts ==
  ASSUME NEW r \in AccountRegistries, NEW k \in Keys, NEW flag \in BOOLEAN
  PROVE  /\ flagAccount(r, k, flag).activeKey = r.activeKey
         /\ \A a \in Keys : HasAccount(r, a) => HasAccount(flagAccount(r, k, flag), a)
<1> DEFINE new == flagAccount(r, k, flag)
           rec == [token |-> r.accounts[k].token, needsReauth |-> flag]
<1>1. CASE ~HasAccount(r, k)
  BY <1>1 DEF flagAccount
<1>2. CASE HasAccount(r, k)
  <2>1. rec \in AccountRecord
    BY <1>2 DEF HasAccount, AccountRegistries, AccountRecord
  <2>2. rec # NoRecord
    BY <2>1, NoRecordAssumption
  <2> HIDE DEF rec
  <2>3. new = [r EXCEPT !.accounts = [r.accounts EXCEPT ![k] = rec]]
    BY <1>2 DEF flagAccount, AccountRegistries, rec
  <2>4. /\ new.activeKey = r.activeKey
        /\ new.accounts = [r.accounts EXCEPT ![k] = rec]
    BY <2>3 DEF AccountRegistries
  <2> HIDE DEF new
  <2>5. \A a \in Keys : HasAccount(r, a) => HasAccount(new, a)
    BY <2>2, <2>4 DEF HasAccount, AccountRegistries
  <2> QED
    BY <2>4, <2>5 DEF new
<1> QED
  BY <1>1, <1>2

LEMMA ActivateKeepsAccounts ==
  ASSUME NEW r \in AccountRegistries, NEW k \in Keys, HasAccount(r, k)
  PROVE  /\ setActive(r, k) \in AccountRegistries
         /\ setActive(r, k).activeKey = k
         /\ \A a \in Keys : HasAccount(r, a) => HasAccount(setActive(r, k), a)
  BY DEF setActive, HasAccount, AccountRegistries

\* While a sweep is under way no flow counts.
LEMMA SweepStage ==
  ASSUME TypeOK, Agrees, sweep.at # "idle"
  PROVE  /\ signOut = "idle" /\ NobodyPending
         /\ \A f \in Flows : /\ flow[f].at \notin Live \cup {"code"}
                             /\ flow[f].at \in {"poll", "verify"} => flow[f].aborted
<1>1. /\ signOut = "idle" /\ NobodyPending /\ \A f \in Flows : flow[f].at # "code"
  BY DEF Agrees, OneAtATime
<1>2. \A f \in Flows : f = CurrentFlow => flow[f].aborted
  BY <1>1, NoneAssumption DEF NobodyPending
<1> QED
  BY <1>1, <1>2 DEF Agrees, PollersAgree

\* So a step of the sweep has to answer for the credential alone.
LEMMA SweepFrame ==
  ASSUME TypeOK, Agrees, sweep.at # "idle", UNCHANGED <<flow, signOut, boot>>,
         \/ sweep'.at # "idle" /\ UNCHANGED auth
         \/ sweep'.at = "idle" /\ captureResumeTarget' = github',
         SweepAgrees'
  PROVE  Agrees'
<1>1. /\ signOut = "idle" /\ NobodyPending
      /\ \A f \in Flows : /\ flow[f].at \notin Live \cup {"code"}
                          /\ flow[f].at \in {"poll", "verify"} => flow[f].aborted
  BY SweepStage
<1>2. PollersAgree'
  BY <1>1 DEF PollersAgree, Live
<1>3. sweep'.at # "idle" => NobodyPending'
  <2>1. UNCHANGED auth => NobodyPending'
    BY <1>1 DEF NobodyPending, CurrentFlow
  <2> QED
    BY <2>1
<1>4. OneAtATime'
  BY <1>1, <1>3 DEF OneAtATime
<1>5. CredentialsAgree'
  BY <1>1 DEF CredentialsAgree, Settled, Live
<1> QED
  BY <1>2, <1>4, <1>5 DEF Agrees

LEMMA GivesUpAgrees ==
  ASSUME TypeOK, Agrees, sweep.at \in Dropping, GivesUp, UNCHANGED <<github, flow, signOut, boot>>
  PROVE  Agrees'
<1>1. sweep.at # "idle" /\ github' = None
  BY DEF Agrees, SweepAgrees, Dropping
<1>2. CASE sweep' = SweepAt("list") /\ UNCHANGED auth
  <2>1. sweep'.at = "list"
    BY <1>2, SweepShapes
  <2>2. SweepAgrees'
    BY <1>1, <2>1 DEF SweepAgrees, Dropping, Trying
  <2> QED
    BY <1>1, <1>2, <2>1, <2>2, SweepFrame
<1>3. CASE sweep' = NoSweep /\ auth' = Error
  <2>1. sweep'.at = "idle" /\ captureResumeTarget' = None
    BY <1>3, SweepShapes, Shown
  <2>2. SweepAgrees'
    BY <2>1 DEF SweepAgrees, Dropping, Trying
  <2> QED
    BY <1>1, <2>1, <2>2, SweepFrame
<1> QED
  BY <1>2, <1>3 DEF GivesUp

LEMMA TriesNextAgrees ==
  ASSUME TypeOK, Agrees, sweep.at # "idle", NEW rest \in SUBSET Keys, TriesNext(rest),
         UNCHANGED <<flow, signOut, boot>>, \A a \in rest : HasAccount(registry', a)
  PROVE  Agrees'
<1>1. CASE /\ rest # {}
           /\ \E a \in rest : sweep' = [at |-> "preflight", of |-> a, rest |-> rest \ {a}]
           /\ UNCHANGED session
  <2>1. PICK a \in rest : sweep' = [at |-> "preflight", of |-> a, rest |-> rest \ {a}]
    BY <1>1
  <2>2. sweep'.at = "preflight" /\ {sweep'.of} \cup sweep'.rest \subseteq rest
    BY <2>1
  <2>3. SweepAgrees'
    BY <2>2 DEF SweepAgrees, Dropping, Trying
  <2> QED
    BY <1>1, <2>2, <2>3, SweepFrame DEF session, live
<1>2. CASE sweep' = NoSweep /\ github' = None /\ copilot' = None /\ auth' = Error
  <2>1. sweep'.at = "idle" /\ captureResumeTarget' = None
    BY <1>2, SweepShapes, Shown
  <2>2. SweepAgrees'
    BY <2>1 DEF SweepAgrees, Dropping, Trying
  <2> QED
    BY <1>2, <2>1, <2>2, SweepFrame
<1> QED
  BY <1>1, <1>2 DEF TriesNext, NobodyIsLive

\* A candidate goes on: its credential is live from the mint to the sign-in.
LEMMA CandidateAgrees ==
  ASSUME TypeOK, CarriedOK, Agrees, NEW from \in Trying, NEW to \in Trying, RecoveryMoves(from, to),
         UNCHANGED <<auth, flow, signOut, boot>>,
         to \in {"mint", "pinRead", "pinWrite", "models"} => github' = sweep.of,
         to = "models" => registry'.activeKey = sweep.of,
         \A a \in Keys : HasAccount(registry, a) => HasAccount(registry', a)
  PROVE  Agrees'
<1>1. /\ sweep.at = from /\ sweep'.at = to /\ sweep'.of = sweep.of /\ sweep'.rest = sweep.rest
  BY DEF RecoveryMoves, TypeOK, Sweep
<1>2. {sweep.of} \cup sweep.rest \subseteq Keys
  BY <1>1 DEF TypeOK, Sweep, CarriedOK
<1>3. SweepAgrees'
  BY <1>1, <1>2 DEF Agrees, SweepAgrees, Dropping, Trying
<1> QED
  BY <1>1, <1>3, SweepFrame DEF Trying

LEMMA SweepStepAgrees ==
  ASSUME TypeOK, RegistriesOK, HeldOK, CarriedOK, HeldFresh, Agrees, SweepStep, ~raced'
  PROVE  Agrees'
<1>0. /\ UNCHANGED <<flow, signOut, boot>> /\ registry \in AccountRegistries
      /\ sweep.of \in Identity /\ sweep.rest \in SUBSET Keys
      /\ held["sweep"] # None => held["sweep"] = registry
  <2>1. UNCHANGED <<flow, signOut, boot>>
    BY DEF SweepStep, SweepReads, SweepWrites, RecoveryStep, RecoveryLists, CandidateFails,
           CandidatePasses, CandidateMints, RecoveryReads, PinWrites, FlagWrites,
           RecoverySignsIn, env, live
  <2> QED
    BY <2>1, HelpersHere DEF TypeOK, Sweep, HeldFresh
<1>1. CASE SweepReads
  <2>1. CASE GivesUp
    BY <1>0, <1>1, <2>1, GivesUpAgrees DEF SweepReads, Dropping, live
  <2>2. CASE sweep' = SweepAt("write") /\ UNCHANGED auth
    <3>1. sweep'.at = "write" /\ sweep.at # "idle" /\ github' = None
      BY <1>1, <2>2, SweepShapes DEF SweepReads, Agrees, SweepAgrees, Dropping, live
    <3>2. SweepAgrees'
      BY <3>1 DEF SweepAgrees, Dropping, Trying
    <3> QED
      BY <1>0, <2>2, <3>1, <3>2, SweepFrame
  <2> QED
    BY <1>1, <2>1, <2>2 DEF SweepReads, live
<1>2. CASE SweepWrites
  BY <1>0, <1>2, GivesUpAgrees DEF SweepWrites, Dropping, live
<1>3. CASE RecoveryLists
  <2>1. \A a \in Candidates : HasAccount(registry', a)
    BY <1>3 DEF RecoveryLists, disk, Candidates
  <2> QED
    BY <1>0, <1>3, <2>1, CandidatesAreKeys, TriesNextAgrees DEF RecoveryLists
<1>4. CASE CandidateFails
  <2>1. UNCHANGED <<auth, registry>>
    BY <1>4 DEF CandidateFails, session, disk, live
  <2> QED
    BY <1>0, <1>4, <2>1, CandidateAgrees DEF CandidateFails, Trying
<1>5. CASE CandidatePasses
  <2>1. UNCHANGED <<auth, registry>> /\ github' = sweep.of
    BY <1>5 DEF CandidatePasses, disk
  <2> QED
    BY <1>0, <1>5, <2>1, CandidateAgrees DEF CandidatePasses, Trying
<1>6. CASE CandidateMints
  <2>1. UNCHANGED <<auth, registry>> /\ github' = sweep.of
    BY <1>6 DEF CandidateMints, RecoveryMoves, disk, Agrees, SweepAgrees, live
  <2> QED
    BY <1>0, <1>6, <2>1, CandidateAgrees DEF CandidateMints, Trying, live
<1>7. CASE RecoveryReads
  <2>1. UNCHANGED <<auth, registry>>
    BY <1>7 DEF RecoveryReads, session, live
  <2>2. CASE RecoveryMoves("pinRead", "pinWrite")
    <3>1. github' = sweep.of
      BY <1>7, <2>2 DEF RecoveryReads, RecoveryMoves, session, Agrees, SweepAgrees, live
    <3> QED
      BY <1>0, <2>1, <2>2, <3>1, CandidateAgrees DEF Trying
  <2>3. CASE RecoveryMoves("flagRead", "flagWrite")
    BY <1>0, <2>1, <2>3, CandidateAgrees DEF Trying
  <2> QED
    BY <1>7, <2>2, <2>3 DEF RecoveryReads
<1>8. CASE PinWrites
  <2>1. /\ sweep.at = "pinWrite" /\ UNCHANGED <<auth, github>> /\ github = sweep.of
        /\ held["sweep"] = registry /\ sweep.of \in Keys /\ HasAccount(registry, sweep.of)
    BY <1>0, <1>8
       DEF PinWrites, RecoveryMoves, session, HeldOK, CarriedOK, Trying, Agrees, SweepAgrees, live
  <2>2. CASE /\ RecoveryMoves("pinWrite", "models")
             /\ registry' = clearNeedsReauth(setActive(held["sweep"], sweep.of), sweep.of)
    <3> DEFINE mid == setActive(registry, sweep.of)
    <3>1. /\ mid \in AccountRegistries /\ mid.activeKey = sweep.of
          /\ \A a \in Keys : HasAccount(registry, a) => HasAccount(mid, a)
      BY <1>0, <2>1, ActivateKeepsAccounts
    <3>2. registry' = flagAccount(mid, sweep.of, FALSE)
      BY <2>1, <2>2 DEF clearNeedsReauth
    <3> HIDE DEF mid
    <3>3. /\ registry'.activeKey = sweep.of
          /\ \A a \in Keys : HasAccount(registry, a) => HasAccount(registry', a)
      BY <2>1, <3>1, <3>2, FlagKeepsAccounts
    <3> QED
      BY <1>0, <2>1, <2>2, <3>3, CandidateAgrees DEF Trying
  <2>3. CASE RecoveryMoves("pinWrite", "flagRead") /\ UNCHANGED registry
    BY <1>0, <2>1, <2>3, CandidateAgrees DEF Trying
  <2> QED
    BY <1>8, <2>2, <2>3 DEF PinWrites
<1>9. CASE FlagWrites
  <2>1. /\ sweep.at = "flagWrite" /\ held["sweep"] = registry /\ sweep.of \in Keys
        /\ \A a \in sweep.rest : HasAccount(registry, a)
    BY <1>0, <1>9 DEF FlagWrites, HeldOK, CarriedOK, Trying, Agrees, SweepAgrees, live
  <2>2. registry' = markNeedsReauth(registry, sweep.of) /\ TriesNext(sweep.rest)
    BY <1>9, <2>1 DEF FlagWrites, live
  <2>3. \A a \in sweep.rest : HasAccount(registry', a)
    BY <1>0, <2>1, <2>2, FlagKeepsAccounts DEF markNeedsReauth
  <2> QED
    BY <1>0, <2>1, <2>2, <2>3, TriesNextAgrees
<1>10. CASE RecoverySignsIn
  <2>1. /\ sweep.at = "models" /\ github' = sweep.of /\ registry'.activeKey = sweep.of
        /\ auth' = SignedIn(sweep.of) /\ sweep' = NoSweep
    BY <1>10 DEF RecoverySignsIn, disk, Agrees, SweepAgrees, live
  <2>2. sweep'.at = "idle" /\ captureResumeTarget' = sweep.of
    BY <2>1, SweepShapes, Shown
  <2>3. SweepAgrees'
    BY <2>2 DEF SweepAgrees, Dropping, Trying
  <2> QED
    BY <1>0, <2>1, <2>2, <2>3, SweepFrame
<1> QED
  BY <1>1, <1>2, <1>3, <1>4, <1>5, <1>6, <1>7, <1>8, <1>9, <1>10 DEF SweepStep, RecoveryStep

-----------------------------------------------------------------------------
(* The user, the boot and the rest.                                        *)
LEMMA LoopAgrees ==
  ASSUME TypeOK, CarriedOK, FlowsOK, Starting, Agrees, NEW l \in Loops, LoopStep(l), ~raced'
  PROVE  Agrees'
<1>1. CASE LoopEscalates(l)
  <2>1. /\ signOut = "idle" /\ sweep.at = "idle"
        /\ \A g \in Flows : flow[g].at \notin Committing
    BY <1>1, NothingSettling, ActivitiesAssumption DEF LoopEscalates
  <2>2. MarkAuthDegraded(Escalated(l), flow) /\ UNCHANGED <<auth, registry, signOut, boot>>
    BY <1>1 DEF LoopEscalates, disk, env
  <2>3. flow \in [Flows -> Flow]
    BY DEF TypeOK
  <2> QED
    BY <2>1, <2>2, <2>3, DegradeAgrees
<1>2. CASE ~LoopEscalates(l)
  <2>1. UNCHANGED <<auth, github, flow, signOut, sweep, registry, boot>>
    BY <1>2 DEF LoopStep, LoopRequests, LoopRefreshes, LoopRejected, LoopThrows, LoopEnds,
                session, disk, tails, env, live
  <2> QED
    BY <2>1, AgreesFrame DEF Same, SameRegistry
<1> QED
  BY <1>1, <1>2

LEMMA RequestAgrees ==
  ASSUME TypeOK, CarriedOK, FlowsOK, Starting, Agrees, NEW r \in Requests, RequestStep(r), ~raced'
  PROVE  Agrees'
<1>1. CASE RequestRejected(r)
  <2>1. /\ signOut = "idle" /\ sweep.at = "idle"
        /\ \A g \in Flows : flow[g].at \notin Committing
    BY <1>1, NothingSettling DEF RequestRejected
  <2>2. MarkAuthDegraded(loop, flow) /\ UNCHANGED <<auth, registry, signOut, boot>>
    BY <1>1 DEF RequestRejected, disk
  <2>3. flow \in [Flows -> Flow]
    BY DEF TypeOK
  <2> QED
    BY <2>1, <2>2, <2>3, DegradeAgrees
<1>2. CASE ~RequestRejected(r)
  <2>1. UNCHANGED <<auth, github, flow, signOut, sweep, registry, boot>>
    BY <1>2 DEF RequestStep, RequestSent, RequestServed, session, disk, tails, live
  <2> QED
    BY <2>1, AgreesFrame DEF Same, SameRegistry
<1> QED
  BY <1>1, <1>2

LEMMA ClearKeepsRegistry ==
  ASSUME TypeOK, HeldOK, HeldFresh, NEW c \in Clears, ClearStep(c)
  PROVE  SameRegistry
<1>1. CASE UNCHANGED registry
  BY <1>1 DEF SameRegistry
<1>2. CASE ClearWrites(c) /\ ~UNCHANGED registry
  <2>1. held[c] = registry /\ registry.activeKey \in Keys /\ registry \in AccountRegistries
    <3>1. held[c] # None /\ held[c].activeKey # NoKey
      BY <1>2 DEF ClearWrites, HeldOK, Pointed
    <3>2. held[c] = registry
      BY <3>1, HelpersHere DEF HeldFresh
    <3> QED
      BY <3>1, <3>2 DEF TypeOK, AccountRegistries
  <2>2. registry' = flagAccount(registry, registry.activeKey, FALSE)
    BY <1>2, <2>1 DEF ClearWrites, clearNeedsReauth
  <2> QED
    BY <2>1, <2>2, FlagKeepsAccounts DEF SameRegistry
<1> QED
  BY <1>1, <1>2 DEF ClearStep, ClearReads

LEMMA ClearAgrees ==
  ASSUME TypeOK, HeldOK, CarriedOK, HeldFresh, Agrees, NEW c \in Clears, ClearStep(c)
  PROVE  Agrees'
<1>1. UNCHANGED <<auth, github, flow, signOut, sweep, boot>>
  BY DEF ClearStep, ClearReads, ClearWrites, session, env, live
<1> QED
  BY <1>1, ClearKeepsRegistry, AgreesFrame DEF Same

LEMMA SignOutAgrees ==
  ASSUME TypeOK, Agrees, SignOut, ~raced'
  PROVE  Agrees'
<1>1. /\ signOut = "idle" /\ sweep.at = "idle"
      /\ \A g \in Flows : flow[g].at \notin Committing
  BY NothingSettling DEF SignOut, NobodyIsLive
<1>2. /\ auth' = SignedOut /\ github' = None
      /\ UNCHANGED sweep /\ \A g \in Flows : AbortedIfPending(g)
  BY AbortEffect DEF SignOut, NobodyIsLive
<1>3. CurrentFlow' = None /\ captureResumeTarget' = None /\ SignedOut' = SignedOut
  BY <1>2, Shown DEF SignedOut
<1>4. PollersAgree'
  <2>1. ASSUME NEW g \in Flows
        PROVE  /\ flow'[g].at = flow[g].at /\ flow[g].at \notin Live \cup {"code"}
               /\ flow'[g].at \in {"poll", "verify"} => flow'[g].aborted
    BY <1>1, <1>2, <1>3 DEF Agrees, PollersAgree, AbortedIfPending, Committing, Live
  <2> QED
    BY <2>1 DEF PollersAgree, Live
<1>5. OneAtATime'
  BY <1>1, <1>2, <1>3 DEF OneAtATime, AbortedIfPending, Committing
<1>6. CredentialsAgree'
  BY <1>1, <1>2, <1>3 DEF CredentialsAgree, AbortedIfPending, Committing
<1>7. SweepAgrees'
  BY <1>1, <1>2 DEF SweepAgrees, Dropping, Trying
<1> QED
  BY <1>4, <1>5, <1>6, <1>7 DEF Agrees

LEMMA SignOutStepAgrees ==
  ASSUME TypeOK, Agrees, SignOutStep
  PROVE  Agrees'
<1>1. /\ signOut # "idle" /\ UNCHANGED <<auth, github, flow, sweep, boot>>
  BY DEF SignOutStep, SignOutReads, SignOutWrites, session, env, live
<1>2. /\ auth = SignedOut /\ github = None /\ sweep.at = "idle"
      /\ \A f \in Flows : flow[f].at # "code"
  BY <1>1 DEF Agrees, OneAtATime
<1>3. /\ CurrentFlow' = CurrentFlow /\ captureResumeTarget' = captureResumeTarget
      /\ SignedOut' = SignedOut
  BY <1>1, CaptureSame DEF SignedOut
<1>4. PollersAgree'
  BY <1>1, <1>2, <1>3 DEF Agrees, PollersAgree
<1>5. OneAtATime'
  BY <1>1, <1>2, <1>3 DEF OneAtATime
<1>6. CredentialsAgree'
  BY <1>1, <1>2, <1>3 DEF Agrees, CredentialsAgree, Settled
<1>7. SweepAgrees'
  BY <1>1, <1>2 DEF SweepAgrees, Dropping, Trying
<1> QED
  BY <1>4, <1>5, <1>6, <1>7 DEF Agrees

LEMMA CancelAgrees ==
  ASSUME TypeOK, Agrees, cancelDeviceFlow, ~raced'
  PROVE  Agrees'
<1>1. /\ signOut = "idle" /\ sweep.at = "idle" /\ boot = "up" /\ CurrentFlow # None
      /\ \A g \in Flows : flow[g].at \notin Committing
  BY NothingSettling DEF cancelDeviceFlow, live
<1>2. /\ auth' = Resumed(CurrentFlow, SignedOut)
      /\ UNCHANGED <<github, sweep, signOut, registry>>
      /\ \A g \in Flows : AbortedIfPending(g)
  BY AbortEffect DEF cancelDeviceFlow, disk, tails, live
<1>3. captureResumeTarget = github /\ captureResumeTarget = flow[CurrentFlow].resume
  <2>1. Settled
    BY <1>1 DEF Settled, Committing
  <2> QED
    BY <1>1, <2>1 DEF Agrees, CredentialsAgree, captureResumeTarget
<1>4. CurrentFlow' = None /\ captureResumeTarget' = github
  BY <1>2, <1>3, Shown DEF Resumed
<1>5. PollersAgree'
  <2>1. ASSUME NEW g \in Flows
        PROVE  /\ flow'[g].at = flow[g].at /\ flow[g].at \notin Live \cup {"code"}
               /\ flow'[g].at \in {"poll", "verify"} => flow'[g].aborted
    BY <1>1, <1>2, <1>4 DEF Agrees, PollersAgree, AbortedIfPending, Committing, Live
  <2> QED
    BY <2>1 DEF PollersAgree, Live
<1>6. OneAtATime'
  BY <1>1, <1>2 DEF OneAtATime
<1>7. CredentialsAgree'
  BY <1>1, <1>2, <1>4 DEF Agrees, CredentialsAgree, AbortedIfPending, Committing
<1>8. SweepAgrees'
  BY <1>1, <1>2 DEF SweepAgrees, Dropping, Trying
<1> QED
  BY <1>5, <1>6, <1>7, <1>8 DEF Agrees

\* Where the boot sets the state, no flow was ever begun.
LEMMA BootFrame ==
  ASSUME TypeOK, signOut = "idle", \A f \in Flows : flow[f].at = "new",
         UNCHANGED <<flow, signOut, sweep>>, CurrentFlow' = None,
         Settled' => captureResumeTarget' = github',
         SweepAgrees'
  PROVE  Agrees'
<1>1. PollersAgree'
  BY DEF PollersAgree, Live
<1>2. OneAtATime'
  BY DEF OneAtATime, NobodyPending
<1>3. CredentialsAgree'
  BY DEF CredentialsAgree
<1> QED
  BY <1>1, <1>2, <1>3 DEF Agrees

LEMMA BootAgrees ==
  ASSUME TypeOK, CarriedOK, FlowsOK, BootOK, Starting, Agrees, BootStep, ~raced'
  PROVE  Agrees'
<1>0. /\ signOut = "idle" /\ \A f \in Flows : flow[f].at = "new"
  BY DEF BootStep, BootReadsToken, BootFails, BootFindsUser, BootMints, BootRejected,
         BootDegraded, BootSignsIn, BootOK, Starting, live, TakesStored, TakesGiven
<1>1. CASE BootReadsToken
  <2>1. /\ sweep.at = "idle" /\ auth' = SignedOut
        /\ UNCHANGED <<flow, signOut, sweep>>
        /\ github' # None => boot' = "user"
    BY <1>1 DEF BootReadsToken, Starting, tails
  <2>2. CurrentFlow' = None /\ captureResumeTarget' = None
    BY <2>1, Shown
  <2>3. SweepAgrees'
    BY <2>1 DEF SweepAgrees, Dropping, Trying
  <2>4. Settled' => captureResumeTarget' = github'
    BY <2>1, <2>2 DEF Settled
  <2> QED
    BY <1>0, <2>1, <2>2, <2>3, <2>4, BootFrame
<1>2. ASSUME NoteRecovery PROVE sweep.at \notin Trying
  BY <1>2, NoneAssumption DEF NoteRecovery, CarriedOK
<1>3. CASE BootFails
  <2>1. /\ auth' = SignedOut /\ github' = None /\ sweep.at \notin Trying
        /\ UNCHANGED <<flow, signOut, sweep, registry>>
    BY <1>2, <1>3 DEF BootFails, disk, tails
  <2>2. CurrentFlow' = None /\ captureResumeTarget' = None
    BY <2>1, Shown
  <2>3. SweepAgrees'
    BY <2>1 DEF SweepAgrees, Dropping, Trying
  <2> QED
    BY <1>0, <2>1, <2>2, <2>3, BootFrame
<1>4. CASE BootSignsIn
  <2>1. /\ sweep.at \notin Trying
        /\ UNCHANGED <<flow, signOut, sweep, registry>>
        /\ \/ github' # None /\ auth' = SignedIn(github')
           \/ github' = None /\ auth' = SignedOut
    BY <1>2, <1>4 DEF BootSignsIn, disk, tails, live, BootOK
  <2>2. CurrentFlow' = None /\ captureResumeTarget' = github'
    BY <2>1, Shown
  <2>3. SweepAgrees'
    <3>1. sweep.at \in Dropping => github' = None
      BY <1>4 DEF BootSignsIn, live, Agrees, SweepAgrees
    <3> QED
      BY <2>1, <3>1 DEF SweepAgrees, Trying
  <2> QED
    BY <1>0, <2>1, <2>2, <2>3, BootFrame
<1>5. CASE BootRejected
  <2>1. /\ MarkAuthDegraded(loop, flow) /\ boot = "mint" /\ boot' = "degrade"
        /\ UNCHANGED <<auth, registry, signOut>> /\ sweep.at = "idle"
    BY <1>5 DEF BootRejected, disk, Starting
  <2>2. flow \in [Flows -> Flow] /\ \A g \in Flows : flow[g].at \notin Committing
    BY <1>0 DEF TypeOK, Committing
  <2> QED
    BY <1>0, <2>1, <2>2, DegradeAgrees
<1>6. CASE BootFindsUser \/ BootMints \/ BootDegraded
  <2>1. /\ UNCHANGED <<auth, github, flow, signOut, sweep, registry>>
        /\ boot' \in {"degrade", "up"} => boot \in {"degrade", "up"}
    BY <1>6 DEF BootFindsUser, BootMints, BootDegraded, session, disk, tails, live
  <2> QED
    BY <2>1, AgreesFrame DEF Same, SameRegistry
<1> QED
  BY <1>1, <1>3, <1>4, <1>5, <1>6 DEF BootStep

LEMMA AgreesStep ==
  ASSUME AuthInv, Starting, HeldFresh, Agrees, [Next]_vars, ~Restart, ~raced'
  PROVE  Agrees'
<1>0. TypeOK /\ RegistriesOK /\ HeldOK /\ CarriedOK /\ FlowsOK /\ BootOK
  BY DEF AuthInv
<1>1. CASE \E f \in Flows : StartDeviceFlow(f) \/ FlowStep(f) \/ FlowExpires(f)
  BY <1>0, <1>1, FlowAgrees
<1>2. CASE \E c \in Clears : ClearStep(c)
  BY <1>0, <1>2, ClearAgrees
<1>3. CASE SweepStep
  BY <1>0, <1>3, SweepStepAgrees
<1>4. CASE \E l \in Loops : LoopStep(l)
  BY <1>0, <1>4, LoopAgrees
<1>5. CASE \E r \in Requests : RequestStep(r)
  BY <1>0, <1>5, RequestAgrees
<1>6. CASE BootStep
  BY <1>0, <1>6, BootAgrees
<1>7. CASE SignOut \/ SignOutStep \/ cancelDeviceFlow
  BY <1>0, <1>7, SignOutAgrees, SignOutStepAgrees, CancelAgrees
<1>8. CASE GraceExpires \/ UNCHANGED vars
  <2>1. UNCHANGED <<auth, github, flow, signOut, sweep, registry, boot>>
    BY <1>8 DEF GraceExpires, vars, session, disk, tails, env, live
  <2> QED
    BY <1>0, <2>1, AgreesFrame DEF Same, SameRegistry
<1> QED
  BY <1>1, <1>2, <1>3, <1>4, <1>5, <1>6, <1>7, <1>8, NextSteps DEF Bystander

-----------------------------------------------------------------------------
\* The live credential moves with the pointer, but for one a boot was given.
LEMMA StoredStep ==
  ASSUME AuthInv, Starting, HeldFresh, Agrees, StoredAgrees, [Next]_vars, ~Restart, ~raced'
  PROVE  StoredAgrees'
<1> SUFFICES ASSUME sweep'.at = "idle", github' # None
             PROVE  registry'.activeKey = github' \/ outside'
  BY DEF StoredAgrees
<1>0. TypeOK /\ HeldOK /\ registry \in AccountRegistries
  BY DEF AuthInv, TypeOK
<1>1. CASE UNCHANGED <<live, sweep>> /\ SameRegistry
  BY <1>1 DEF StoredAgrees, live, SameRegistry
<1>2. CASE UNCHANGED <<live, sweep, registry>>
  BY <1>1, <1>2 DEF SameRegistry
<1>3. ASSUME NEW ls, NEW fs, MarkAuthDegraded(ls, fs) PROVE UNCHANGED <<live, sweep>>
  BY <1>3 DEF MarkAuthDegraded, NobodyIsLive
<1>4. CASE \E f \in Flows : StartDeviceFlow(f) \/ FlowStep(f) \/ FlowExpires(f)
  <2>1. PICK f \in Flows : StartDeviceFlow(f) \/ FlowStep(f) \/ FlowExpires(f)
    BY <1>4
  <2>2. CASE AddAccountWrites(f)
    BY <2>2 DEF AddAccountWrites, addAndActivate
  <2>3. CASE ~AddAccountWrites(f)
    <3>1. UNCHANGED <<github, outside, sweep, registry>>
      BY <1>3, <2>1, <2>3
         DEF StartDeviceFlow, FlowStep, FlowExpires, DeviceCodeIssued, DeviceCodeFails,
             PollThrows, PollReturns, VerifyThrows, VerifyReturns, AddAccountReads,
             AddAccountThrows, PollerMints, PollerMintThrows, PollerMintRejected,
             PollerDegraded, PollerSignsIn, PollerFails, session, live, disk, tails
    <3> QED
      BY <3>1 DEF StoredAgrees
  <2> QED
    BY <2>2, <2>3
<1>5. CASE \E c \in Clears : ClearStep(c)
  <2>1. UNCHANGED <<live, sweep>>
    BY <1>5 DEF ClearStep, ClearReads, ClearWrites, session
  <2> QED
    BY <1>0, <1>1, <1>5, <2>1, ClearKeepsRegistry
<1>6. CASE SweepStep
  <2>1. CASE SweepReads \/ SweepWrites
    <3>1. github = None
      BY <2>1 DEF SweepReads, SweepWrites, Agrees, SweepAgrees, Dropping
    <3> QED
      BY <2>1, <3>1 DEF SweepReads, SweepWrites, live
  <2>2. ASSUME NEW rest PROVE ~TriesNext(rest)
    BY SweepShapes DEF TriesNext, NobodyIsLive
  <2>3. ASSUME NEW from, NEW to, to # "idle" PROVE ~RecoveryMoves(from, to)
    BY <1>0, <2>3 DEF RecoveryMoves, TypeOK, Sweep
  <2>4. CASE RecoverySignsIn
    BY <2>4 DEF RecoverySignsIn, Agrees, SweepAgrees, live, disk
  <2> QED
    BY <1>6, <2>1, <2>2, <2>3, <2>4
       DEF SweepStep, RecoveryStep, RecoveryLists, CandidateFails, CandidatePasses,
           CandidateMints, RecoveryReads, PinWrites, FlagWrites
<1>7. CASE BootStep
  <2>1. CASE BootReadsToken
    BY <1>0, <2>1, TakenRegistry DEF BootReadsToken
  <2>2. CASE BootFails
    BY <2>2 DEF BootFails
  <2>3. CASE BootFindsUser \/ BootSignsIn
    <3>1. UNCHANGED <<github, outside, sweep, registry>>
      BY <2>3 DEF BootFindsUser, BootSignsIn, live, disk, tails
    <3> QED
      BY <3>1 DEF StoredAgrees
  <2> QED
    BY <1>2, <1>3, <1>7, <2>1, <2>2, <2>3
       DEF BootStep, BootMints, BootRejected, BootDegraded, session, disk, tails
<1>8. CASE (\E l \in Loops : LoopStep(l)) \/ (\E r \in Requests : RequestStep(r))
  BY <1>2, <1>3, <1>8
     DEF LoopStep, LoopRequests, LoopRefreshes, LoopRejected, LoopEscalates, LoopThrows,
         LoopEnds, RequestStep, RequestSent, RequestServed, RequestRejected, session,
         disk, tails
<1>9. CASE SignOutStep
  <2>1. github = None
    BY <1>9 DEF SignOutStep, SignOutReads, SignOutWrites, Agrees, OneAtATime
  <2> QED
    BY <1>9, <2>1 DEF SignOutStep, SignOutReads, SignOutWrites, session, live
<1>10. CASE cancelDeviceFlow \/ SignOut \/ GraceExpires \/ UNCHANGED vars
  BY <1>2, <1>10 DEF cancelDeviceFlow, SignOut, NobodyIsLive, GraceExpires, vars, session,
                     disk, tails
<1> QED
  BY <1>4, <1>5, <1>6, <1>7, <1>8, <1>9, <1>10, NextSteps DEF Bystander

\* A process that has just started
LEMMA FreshProcess ==
  ASSUME auth = SignedOut, github = None, sweep = NoSweep, signOut = "idle", boot = "start",
         \A f \in Flows : flow[f] = NewFlow, \A h \in Helpers : held[h] = None
  PROVE  HeldFresh /\ Agrees /\ StoredAgrees
<1>1. /\ sweep.at = "idle" /\ \A f \in Flows : flow[f].at = "new"
  BY SweepShapes DEF NewFlow
<1>2. HeldFresh
  BY DEF HeldFresh
<1>3. PollersAgree /\ OneAtATime /\ SweepAgrees
  BY <1>1 DEF PollersAgree, OneAtATime, SweepAgrees, Live, Dropping, Trying
<1>4. CredentialsAgree /\ StoredAgrees
  BY <1>1 DEF CredentialsAgree, StoredAgrees, Settled
<1> QED
  BY <1>2, <1>3, <1>4 DEF Agrees

RaceInv == AuthInv /\ Starting /\ Unraced

LEMMA RaceInit == Init => RaceInv
<1> SUFFICES ASSUME Init PROVE RaceInv
  OBVIOUS
<1>1. HeldFresh /\ Agrees /\ StoredAgrees
  BY FreshProcess DEF Init
<1>2. Starting
  <2>1. NoSweep.at = "idle" /\ FreeLoop.at = "free"
    BY SweepShapes DEF FreeLoop
  <2> QED
    BY <2>1 DEF Init, Starting
<1> QED
  BY <1>1, <1>2, AuthInit DEF RaceInv, Unraced

LEMMA RaceNext == RaceInv /\ [Next]_vars => RaceInv'
<1> SUFFICES ASSUME RaceInv, [Next]_vars PROVE RaceInv'
  OBVIOUS
<1>1. AuthInv' /\ Starting'
  BY AuthNext, StartingStep DEF RaceInv, AuthInv
<1>2. CASE Restart
  <2>1. HeldFresh' /\ Agrees' /\ StoredAgrees'
    <3>1. /\ auth' = SignedOut /\ github' = None /\ sweep' = NoSweep /\ signOut' = "idle"
          /\ boot' = "start"
          /\ \A f \in Flows : flow'[f] = NewFlow
          /\ \A h \in Helpers : held'[h] = None
      BY <1>2 DEF Restart, NobodyIsLive
    <3>2. NoSweep.at = "idle" /\ NewFlow.at = "new"
      BY SweepShapes DEF NewFlow
    <3>3. HeldFresh'
      BY <3>1 DEF HeldFresh
    <3>4. PollersAgree' /\ OneAtATime' /\ SweepAgrees'
      BY <3>1, <3>2 DEF PollersAgree, OneAtATime, SweepAgrees, Live, Dropping, Trying
    <3>5. CredentialsAgree' /\ StoredAgrees'
      BY <3>1, <3>2 DEF CredentialsAgree, StoredAgrees, Settled
    <3> QED
      BY <3>3, <3>4, <3>5 DEF Agrees
  <2> QED
    BY <1>1, <2>1 DEF RaceInv, Unraced
<1>3. CASE ~Restart
  <2>1. ASSUME ~raced' PROVE HeldFresh' /\ Agrees' /\ StoredAgrees'
    <3>1. HeldFresh /\ Agrees /\ StoredAgrees
      BY <1>3, <2>1, RacedIsKept DEF RaceInv, Unraced
    <3>2. HeldFresh'
      BY <2>1, <3>1, HeldFreshStep DEF RaceInv, AuthInv
    <3>3. Agrees'
      BY <1>3, <2>1, <3>1, AgreesStep DEF RaceInv
    <3>4. StoredAgrees'
      BY <1>3, <2>1, <3>1, StoredStep DEF RaceInv
    <3> QED
      BY <3>2, <3>3, <3>4
  <2> QED
    BY <1>1, <2>1 DEF RaceInv, Unraced
<1> QED
  BY <1>2, <1>3

LEMMA RaceAlways == Spec => []RaceInv
  BY RaceInit, RaceNext, PTL DEF Spec

(* Unless operations overlapped, a session shown as signed in runs on that *)
(* account's credential, which is the one the next boot will read from the *)
(* registry unless this boot was given it from elsewhere.                  *)
THEOREM SignedInHasCredential == Spec => []SignedInIsBacked
<1>1. ASSUME RaceInv, auth.kind = "signed-in", Quiet, ~raced
      PROVE  github = auth.of /\ (registry.activeKey = auth.of \/ outside)
  <2>1. TypeOK /\ Agrees /\ StoredAgrees
    BY <1>1 DEF RaceInv, AuthInv, Unraced
  <2>2. PICK a \in Keys : auth = SignedIn(a)
    BY <1>1, <2>1 DEF TypeOK, AuthState, SignedOut, Error, Polling
  <2>3. captureResumeTarget = a /\ auth.of = a /\ a # None
    BY <2>1, <2>2, Shown, NoneAssumption DEF SignedIn
  <2>4. Settled /\ sweep.at = "idle"
    BY <1>1 DEF Quiet, Settling, Settled, Committing
  <2> QED
    BY <2>1, <2>3, <2>4 DEF Agrees, CredentialsAgree, StoredAgrees
<1>2. RaceInv => SignedInIsBacked
  BY <1>1 DEF SignedInIsBacked
<1> QED
  BY <1>2, RaceAlways, PTL

\* The state shown moves on only where no sweep is left, or to a new flow.
LEMMA ShownAfterSweep ==
  ASSUME RaceInv, [Next]_vars, ~Restart, ~raced, ~raced', boot = "up",
         ~UNCHANGED auth, auth'.kind # "polling",
         \A f \in Flows : flow[f].at # "models"
  PROVE  sweep'.at = "idle"
<1>0. TypeOK /\ CarriedOK /\ Agrees
  BY DEF RaceInv, AuthInv, Unraced
<1>1. CASE \E f \in Flows : StartDeviceFlow(f) \/ FlowStep(f) \/ FlowExpires(f)
  <2>1. PICK f \in Flows : StartDeviceFlow(f) \/ FlowStep(f) \/ FlowExpires(f)
    BY <1>1
  <2>2. Polling(f).kind = "polling"
    BY DEF Polling
  <2>3. PollerFails(f) /\ ~flow[f].aborted /\ flow[f].at \in {"poll", "verify", "write"}
    BY <2>1, <2>2
       DEF StartDeviceFlow, FlowStep, FlowExpires, DeviceCodeIssued, DeviceCodeFails,
           PollThrows, PollReturns, VerifyThrows, VerifyReturns, AddAccountReads,
           AddAccountThrows, AddAccountWrites, PollerMints, PollerMintThrows,
           PollerMintRejected, PollerDegraded, PollerSignsIn, PollerFails, session, live
  <2>4. f = CurrentFlow
    BY <1>0, <2>3 DEF Agrees, PollersAgree, Live
  <2> QED
    BY <1>0, <2>3, <2>4, PendingAlone DEF PollerFails, tails, live
<1>2. CASE SweepStep
  BY <1>2, SweepShapes
     DEF SweepStep, SweepReads, SweepWrites, RecoveryStep, RecoveryLists, CandidateFails,
         CandidatePasses, CandidateMints, RecoveryReads, PinWrites, FlagWrites,
         RecoverySignsIn, GivesUp, TriesNext, session, live, NobodyIsLive
<1>3. CASE cancelDeviceFlow \/ SignOut
  BY <1>3, NothingSettling DEF cancelDeviceFlow, SignOut, tails, live, NobodyIsLive
<1>4. CASE (\E c \in Clears : ClearStep(c)) \/ SignOutStep
  BY <1>4 DEF ClearStep, ClearReads, ClearWrites, SignOutStep, SignOutReads,
              SignOutWrites, session, live
<1>5. CASE BootStep
  BY <1>5 DEF BootStep, BootReadsToken, BootFails, BootFindsUser, BootMints, BootRejected,
              BootDegraded, BootSignsIn, live, TakesStored, TakesGiven
<1>6. CASE (\E l \in Loops : LoopStep(l)) \/ (\E r \in Requests : RequestStep(r))
  BY <1>6 DEF LoopStep, LoopRequests, LoopRefreshes, LoopRejected, LoopEscalates,
              LoopThrows, LoopEnds, RequestStep, RequestSent, RequestServed,
              RequestRejected, session, live
<1>7. CASE GraceExpires \/ UNCHANGED vars
  BY <1>7 DEF GraceExpires, vars, session, live
<1> QED
  BY <1>1, <1>2, <1>3, <1>4, <1>5, <1>6, <1>7, NextSteps DEF Bystander

(* A sign-in that comes to nothing puts the user back on the account whose *)
(* credential is live, and on none if there is none.                       *)
THEOREM AbandonedSignInResumes == Spec => AbandonedFlowResumes
<1>1. ASSUME RaceInv, RaceInv', [Next]_vars,
             CurrentFlow # None, flow[CurrentFlow].at \in {"poll", "verify"},
             auth'.kind # "polling", ~raced'
      PROVE  IF github' # None THEN auth' = SignedIn(github') ELSE auth'.kind # "signed-in"
  <2>0. SignedOut.kind = "signed-out"
    BY DEF SignedOut
  <2>1. CASE Restart
    BY <2>0, <2>1 DEF Restart, NobodyIsLive
  <2>2. CASE ~Restart
    <3>1. /\ TypeOK /\ CurrentFlow \in Flows /\ ~raced /\ Agrees
          /\ TypeOK' /\ Agrees' /\ CarriedOK
      BY <1>1, <2>2, AuthShape, RacedIsKept DEF RaceInv, AuthInv, Unraced
    <3>2. /\ \A f \in Flows : flow[f].at \notin Live
      BY <1>1, <3>1 DEF Agrees, PollersAgree, Live
    <3>3. boot = "up" /\ boot' = "up"
      <4>1. boot = "up"
        BY <1>1, <3>1 DEF RaceInv, AuthInv, BootOK
      <4> QED
        BY <1>1, <2>2, <4>1, NextMoves
           DEF Moves, BootStep, BootReadsToken, BootFails, BootFindsUser, BootMints,
               BootRejected, BootDegraded, BootSignsIn, live, TakesStored, TakesGiven
    <3>4. ~UNCHANGED auth
      BY <1>1 DEF CurrentFlow
    <3>5. sweep'.at = "idle"
      BY <1>1, <2>2, <3>1, <3>2, <3>3, <3>4, ShownAfterSweep DEF Live
    <3>6. CurrentFlow' = None
      BY <1>1 DEF CurrentFlow
    <3>7. \A f \in Flows : flow'[f].at \notin {"mint", "models"}
      BY <3>1, <3>6, NoneAssumption DEF Agrees, PollersAgree, Live
    <3>8. captureResumeTarget' = github'
      BY <3>1, <3>3, <3>5, <3>7 DEF Agrees, CredentialsAgree, Settled
    <3>9. auth' \in {SignedOut, Error} \/ \E a \in Keys : auth' = SignedIn(a)
      BY <1>1, <3>1 DEF TypeOK, AuthState, Polling
    <3>10. CASE auth' \in {SignedOut, Error}
      BY <3>1, <3>8, <3>10, Shown DEF SignedOut, Error
    <3>11. CASE \E a \in Keys : auth' = SignedIn(a)
      BY <3>1, <3>8, <3>11, Shown, NoneAssumption
    <3> QED
      BY <3>9, <3>10, <3>11
  <2> QED
    BY <2>1, <2>2
<1>2. RaceInv /\ RaceInv' /\ [Next]_vars =>
        [(/\ CurrentFlow # None /\ flow[CurrentFlow].at \in {"poll", "verify"}
          /\ auth'.kind # "polling" /\ ~raced')
           => IF github' # None THEN auth' = SignedIn(github')
                                ELSE auth'.kind # "signed-in"]_vars
  BY <1>1
<1> QED
  BY <1>2, RaceAlways, PTL DEF Spec, AbandonedFlowResumes
=============================================================================
