-------------------------- MODULE MCRemoteVerifier --------------------------
(* Two requests at a time, and three keys: the provider's, and two before. *)
EXTENDS RemoteVerifier

CONSTANTS r1, r2
=============================================================================
