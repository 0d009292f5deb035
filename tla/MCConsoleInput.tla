--------------------------- MODULE MCConsoleInput ---------------------------
(* ConsoleInput with a few keys, for TLC.                                  *)
EXTENDS ConsoleInput, TLC
=============================================================================
