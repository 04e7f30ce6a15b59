-------------------------- MODULE MCPendingActions --------------------------
(***************************************************************************)
(* PendingActions for TLC.                                                 *)
(***************************************************************************)
EXTENDS PendingActions
=============================================================================
