-------------------------- MODULE AccountRegistry --------------------------
(***************************************************************************)
(* The value kept in accounts.json (src/lib/auth/github-token-store.ts)    *)
(* and the pure operations on it.  A registry maps every account key       *)
(* (login@host) to its record and points at the active one.  A record is   *)
(* reduced to what the code branches on: the credential and the            *)
(* needs-reauth flag (lastError is set and cleared together with it).      *)
(* Display data (login, host, addedVia, obtainedAt) is left out.           *)
(***************************************************************************)
CONSTANTS
  Keys,      \* account keys, login@host
  Tokens,    \* GitHub credentials
  NoKey,     \* activeKey: null
  NoRecord   \* a key that is not in reg.accounts

ASSUME NoKeyAssumption == NoKey \notin Keys

AccountRecord == [token : Tokens, needsReauth : BOOLEAN]

ASSUME NoRecordAssumption == NoRecord \notin AccountRecord

AccountRegistries ==
  [activeKey : Keys \cup {NoKey}, accounts : [Keys -> AccountRecord \cup {NoRecord}]]

\* `key in reg.accounts`
HasAccount(reg, key) == reg.accounts[key] # NoRecord

\* The keys of reg.accounts
AccountKeys(reg) == {key \in Keys : HasAccount(reg, key)}

emptyRegistry == [activeKey |-> NoKey, accounts |-> [key \in Keys |-> NoRecord]]

makeAccountRecord(token) == [token |-> token, needsReauth |-> FALSE]

addAndActivate(reg, key, token) ==
  [activeKey |-> key,
   accounts  |-> [reg.accounts EXCEPT ![key] = makeAccountRecord(token)]]

setActive(reg, key) ==
  IF HasAccount(reg, key) THEN [reg EXCEPT !.activeKey = key] ELSE reg

(* Mutated form: the active pointer survives its account.                  *)
removeAccount_KeepsActive(reg, key) == [reg EXCEPT !.accounts[key] = NoRecord]

removeAccount(reg, key) ==
  [activeKey |-> IF reg.activeKey = key THEN NoKey ELSE reg.activeKey,
   accounts  |-> [reg.accounts EXCEPT ![key] = NoRecord]]

deactivate(reg) == [reg EXCEPT !.activeKey = NoKey]

flagAccount(reg, key, flag) ==
  IF HasAccount(reg, key)
  THEN [reg EXCEPT !.accounts[key] =
          [token |-> reg.accounts[key].token, needsReauth |-> flag]]
  ELSE reg

(* Mutated form: what the code's comments call the old bug, a rejected     *)
(* credential deleted instead of flagged.                                  *)
markNeedsReauth_Deletes(reg, key) == [reg EXCEPT !.accounts[key] = NoRecord]

markNeedsReauth(reg, key) == flagAccount(reg, key, TRUE)

clearNeedsReauth(reg, key) == flagAccount(reg, key, FALSE)

\* getActiveRecord: the active record, or NoRecord when nothing is active
getActiveRecord(reg) ==
  IF reg.activeKey = NoKey THEN NoRecord ELSE reg.accounts[reg.activeKey]

\* The credential stored for an account, or NoRecord
Credential(reg, key) ==
  IF HasAccount(reg, key) THEN reg.accounts[key].token ELSE NoRecord

\* What every registry the code builds promises: the pointer never dangles.
WellFormed(reg) == reg.activeKey = NoKey \/ HasAccount(reg, reg.activeKey)
=============================================================================
