----------------------------- MODULE MCWebTools -----------------------------
EXTENDS WebTools
=============================================================================
