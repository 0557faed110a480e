---------------------------- MODULE OutputStream ----------------------------
(***************************************************************************)
(* What a source of terminal output promises to whoever consumes it: the   *)
(* consumer receives the accepted output from its beginning and in order,  *)
(* the end-of-process event comes after all of it and once, and a closed   *)
(* stream delivers nothing more.                                           *)
(***************************************************************************)
EXTENDS Naturals, Sequences, SequencesExt

VARIABLES
    accepted,   \* the output the source has taken responsibility for
    delivered,  \* what the consumer has received
    ended,      \* the consumer has received the end of the process
    closed      \* the consumer has closed the stream

vars == <<accepted, delivered, ended, closed>>

Init == accepted = <<>> /\ delivered = <<>> /\ ended = FALSE /\ closed = FALSE

Accept ==
    /\ ~ended \/ closed
    /\ IsStrictPrefix(accepted, accepted')
    /\ UNCHANGED <<delivered, ended, closed>>

Deliver ==
    /\ ~ended /\ ~closed
    /\ IsStrictPrefix(delivered, delivered')
    /\ IsPrefix(delivered', accepted)
    /\ UNCHANGED <<accepted, ended, closed>>

\* The end may be handed over together with the last of the output.
End ==
    /\ ~ended /\ ~closed
    /\ IsPrefix(delivered, accepted)
    /\ delivered' = accepted
    /\ ended' = TRUE
    /\ UNCHANGED <<accepted, closed>>

Close ==
    /\ closed' = TRUE
    /\ UNCHANGED <<accepted, delivered, ended>>

Next == Accept \/ Deliver \/ End \/ Close

Spec == Init /\ [][Next]_vars
=============================================================================
