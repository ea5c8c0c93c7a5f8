--------------------------- MODULE MCShellSidecar ---------------------------
(* TLC instance of ShellSidecar: one host of each kind that matters.       *)
EXTENDS ShellSidecar

MCHosts == {<<"Production", TRUE>>, <<"Development", FALSE>>}
=============================================================================
