-------------------------- MODULE MCResizeArbitration --------------------------
(***************************************************************************)
(* Two kinds of output.  Exams are for the parser: every cut of every pair *)
(* of tokens, and of a macro's definition, a token and an invocation.  In  *)
(* interplays a few notifications meet requests, errors and the exit.      *)
(***************************************************************************)
EXTENDS SessionDeliveries

Definitions == {
    <<"90", "0", "!", "z", "E2", "9C">>,
    <<"90", "1", ";", ";", "1", "!", "z", "h9B", "h0", "h*", "hz", "9C">>,
    <<"90", "0", ";", ";", "1", "!", "z", "h9B", "h1", "h*", "hz", "9C">>}
Invocations == {<<"9B", "0", "*", "z">>, <<"9B", "1", "*", "z">>}
Tokens ==
    Definitions \cup Invocations
    \cup {<<b>> : b \in {"ESC", "BEL", "CAN", "M", "0", "!", "9B", "9C", "E2", "E0", "A5", "c", "C3"}}
    \cup {<<"ESC", "[">>, <<"ESC", "\\">>, <<"ESC", "P">>, <<"9D", "0", ";">>}

Exam(bytes) == [bytes |-> bytes, cuts |-> 1..Len(bytes), requests |-> 0, errors |-> 0,
                policies |-> 0, exits |-> 0, eager |-> FALSE]
Exams ==
    {Exam(s \o t) : s, t \in Tokens}
    \cup {Exam(d \o s \o t) : d \in Definitions, s \in Tokens, t \in Invocations}

Name(kind) == <<"9D", kind, ";", "M", "9C">>
Interplay(bytes, cuts, req, err, pol, ex) ==
    [bytes |-> bytes, cuts |-> cuts, requests |-> req, errors |-> err,
     policies |-> pol, exits |-> ex, eager |-> TRUE]
Interplays == {
    Interplay(<<>>, {}, 4, 0, 0, 0),
    Interplay(Name("0"), {5}, 2, 1, 0, 1),
    Interplay(<<"BEL", "BEL">>, {1, 2}, 1, 1, 1, 1),
    Interplay(Name("0") \o Name("1") \o <<"9D", "0", ";", "BEL">>, {5, 10, 14}, 0, 2, 0, 1)}

MCOutputs == Exams \cup Interplays
===============================================================================
