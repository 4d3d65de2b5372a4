---------------------------- MODULE MCIpcClient ----------------------------
(* Instances of IpcClient for TLC. *)
EXTENDS IpcClient, TLC

CONSTANTS c1, c2, a1
=============================================================================
