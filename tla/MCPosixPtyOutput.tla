-------------------------- MODULE MCPosixPtyOutput --------------------------
(***************************************************************************)
(* The limits native_backend_io_core derives for a     *)
(* headroom of 5 and reads of at most 3, with replays of one unit, so that *)
(* one replay takes several callbacks and a read sized before a pause may  *)
(* not fit the paused FIFO any more.                                       *)
(***************************************************************************)
EXTENDS PosixPtyOutput
=============================================================================
