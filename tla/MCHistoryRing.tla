----------------------------- MODULE MCHistoryRing -----------------------------
(***************************************************************************)
(* HistoryRing.cfg: records of one to three bytes, half a block at most,   *)
(* so that a block holds two to six of them and one commit may forget      *)
(* several; a capacity of one byte is useless.  Sequences run to their end *)
(* after several turns of the smaller block.                               *)
(***************************************************************************)
EXTENDS HistoryRing
===============================================================================
