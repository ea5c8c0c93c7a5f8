-------------------------- MODULE MCSessionAdapter --------------------------
EXTENDS SessionAdapter, TLC

CONSTANTS a1, a2, c1, c2

(* Two calls of one client, so that they lose their session together. *)
MCOwnerOf == c1 :> a1 @@ c2 :> a1

(* Slots are interchangeable too. *)
Symmetry == Permutations({c1, c2}) \cup Permutations(Sessions)

=============================================================================
