---------------------------- MODULE MCOutputFlow ----------------------------
(* Small instances of OutputFlow: see OutputFlow.cfg and its companions. *)
EXTENDS OutputFlow
=============================================================================
