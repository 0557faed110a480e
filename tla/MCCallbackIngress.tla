-------------------------- MODULE MCCallbackIngress --------------------------
(***************************************************************************)
(* CallbackIngress.cfg: two units and two commands fill the queue, so that *)
(* three units and an error reach the hard limit through bytes and through *)
(* commands; two frontiers can be open at a time; both threads can be in   *)
(* the session when it closes.                                             *)
(***************************************************************************)
EXTENDS CallbackIngress
=============================================================================
