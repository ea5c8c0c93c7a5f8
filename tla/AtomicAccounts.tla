-------------------------- MODULE AtomicAccounts ---------------------------
(***************************************************************************)
(* What the helpers of github-token-store.ts promise their callers: the    *)
(* registry on disk changes by one whole operation at a time, applied to   *)
(* the registry as it is, and a helper that fails changes nothing.         *)
(* AccountStore is shown to implement this as long as helpers of one       *)
(* process do not overlap.                                                 *)
(***************************************************************************)
EXTENDS AccountRegistry

VARIABLE registry

Init == registry = emptyRegistry

Add(a, t) == registry' = addAndActivate(registry, a, t)

Switch(a) == registry' = setActive(registry, a)

Remove(a) == registry' = removeAccount(registry, a)

SignOut == registry' = deactivate(registry)

Flag(a) == registry' = markNeedsReauth(registry, a)

ClearActive ==
  /\ registry.activeKey # NoKey
  /\ registry' = clearNeedsReauth(registry, registry.activeKey)

Recover(a) == registry' = clearNeedsReauth(setActive(registry, a), a)

Next ==
  \/ \E a \in Keys, t \in Tokens : Add(a, t)
  \/ \E a \in Keys : Switch(a) \/ Remove(a) \/ Flag(a) \/ Recover(a)
  \/ SignOut
  \/ ClearActive

Spec == Init /\ [][Next]_registry
=============================================================================
