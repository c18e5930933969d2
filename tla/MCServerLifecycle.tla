------------------------- MODULE MCServerLifecycle --------------------------
(***************************************************************************)
(* Instances of ServerLifecycle for TLC: one caller that starts the server *)
(* (the dev command), and one or two that stop it (the SIGINT and SIGTERM  *)
(* handlers).                                                              *)
(***************************************************************************)
EXTENDS ServerLifecycle

CONSTANTS main, sigint, sigterm
=============================================================================
