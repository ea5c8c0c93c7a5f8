-------------------------- MODULE MCAuthController --------------------------
(* TLC instance of AuthController: a credential is its account's key.      *)
EXTENDS AuthController, TLC

Symmetry == Permutations(Flows) \cup Permutations(Loops)
=============================================================================
