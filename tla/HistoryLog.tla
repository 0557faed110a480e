------------------------------ MODULE HistoryLog ------------------------------
(***************************************************************************)
(* What a bounded history promises: its records are never changed, never   *)
(* reordered and never come back; it keeps the newest of them that fit,    *)
(* and forgets from the oldest end, no more than it must or is told to.    *)
(***************************************************************************)
EXTENDS Naturals, Sequences, SequencesExt

CONSTANT Share      \* a record takes at most capacity \div Share

VARIABLES
    capacity,
    log,        \* the records it keeps, oldest first
    next        \* where the next record begins

vars == <<capacity, log, next>>

Size(q) == FoldLeft(LAMBDA n, r : n + r.size, 0, q)

Keepable(q, c) == Size(q) <= c /\ \A i \in DOMAIN q : q[i].size <= c \div Share

\* The longest end of q that a capacity of c can keep.
Newest(q, c) ==
    LET from == {i \in 1..Len(q) + 1 : Keepable(SubSeq(q, i, Len(q)), c)}
    IN  SubSeq(q, CHOOSE i \in from : \A j \in from : i <= j, Len(q))

Init == log = <<>> /\ next = 0

Add ==
    /\ next' > next
    /\ log' = Newest(Append(log, [seq |-> next, size |-> next' - next]), capacity)
    /\ UNCHANGED capacity

Drop ==
    /\ \E n \in 1..Len(log) : log' = SubSeq(log, n + 1, Len(log))
    /\ UNCHANGED <<capacity, next>>

Resize ==
    /\ log' = Newest(log, capacity')
    /\ UNCHANGED next

Next == Add \/ Drop \/ Resize

Spec == Init /\ [][Next]_vars
===============================================================================
