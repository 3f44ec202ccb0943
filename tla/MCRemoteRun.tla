---------------------------- MODULE MCRemoteRun ----------------------------
(* The remote iterate server with two runs and two prompts. *)
EXTENDS RemoteRun, TLC
=============================================================================
