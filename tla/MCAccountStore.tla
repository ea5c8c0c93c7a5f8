--------------------------- MODULE MCAccountStore ---------------------------
(* TLC instance of AccountStore: two accounts, two credentials.            *)
EXTENDS AccountStore, TLC
=============================================================================
