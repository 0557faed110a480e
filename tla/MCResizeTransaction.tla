--------------------------- MODULE MCResizeTransaction -------------------------
(***************************************************************************)
(* Two grids and three resizes: one that runs, one that waits, one that      *)
(* displaces it, the first grid asked for again among them.  With writes two *)
(* calls in all: an input after an interrupt, or either with a resize.       *)
(***************************************************************************)
EXTENDS ResizeTransaction
================================================================================
