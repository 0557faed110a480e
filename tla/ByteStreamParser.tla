---------------------------- MODULE ByteStreamParser ----------------------------
(***************************************************************************)
(* The parser of terminal output: bytes in, actions out.  A call parses    *)
(* the bytes it is given with whatever the calls before it left over: an   *)
(* incomplete sequence or scalar (prefix), a string whose end has not come *)
(* (family, payload and the UTF-8 state of its scan), a sequence being     *)
(* discarded, macros being replayed.                                       *)
(*                                                                         *)
(* A byte is named by its character or its code; one of each kind the      *)
(* parser tells apart.  "h9B" stands for the two hexadecimal digits of a   *)
(* byte in a macro's definition.  Sixel images, SGR, the commands of OSC   *)
(* other than names, and the private markers of CSI are left out.          *)
(***************************************************************************)
EXTENDS Integers, Sequences, FiniteSets, SequencesExt, FiniteSetsExt

CONSTANTS
    PendingLimit,       \* k_control_sequence_pending_limit_bytes
    PayloadLimit,       \* payload_limit_for_family
    MacroLimit,         \* k_macro_storage_limit_bytes
    ExpansionLimit      \* k_macro_expansion_limit_bytes

Hex(b) == CASE b = "h9B" -> "9B" [] b = "h0" -> "0" [] b = "h1" -> "1" [] b = "h*" -> "*" [] b = "hz" -> "z"
            [] b = "hESC" -> "ESC" [] b = "hE2" -> "E2"
HexPairs == {"h9B", "h0", "h1", "h*", "hz", "hESC", "hE2"}

Controls == {"BEL", "CAN", "ESC"}               \* below 0x20
Intermediates == {"!", "*"}                     \* 0x20-0x2f
Parameters == {"0", "1", ";"}                   \* 0x30-0x3f
Letters == {"[", "\\", "]", "P", "c", "M", "z"}   \* 0x40-0x7e
Printable == Intermediates \cup Parameters \cup Letters \cup HexPairs
Introducers == {"9B", "90", "9C", "9D"}         \* C1 controls, continuation bytes as well
Text8 == {"A5"}                                 \* a continuation byte only
Leads == {"C3", "E0", "E2"}
Bytes == Controls \cup Printable \cup Introducers \cup Text8 \cup Leads

StringOf(b) == CASE b = "9D" -> "OSC" [] b = "90" -> "DCS" [] OTHER -> "NONE"        \* c1_string_family
EscStringOf(b) == CASE b = "]" -> "OSC" [] b = "P" -> "DCS" [] OTHER -> "NONE"       \* esc_string_family

\* The rest of a sequence from an index on.
From(s, i) == SubSeq(s, i, Len(s))

\* The bytes that are in a set.
Only(S, bytes) == FlattenSeq([i \in DOMAIN bytes |-> IF bytes[i] \in S THEN <<bytes[i]>> ELSE <<>>])

\* The first index whose byte is in a set, or the one after the last.
FirstIn(s, S, from) == Min({i \in from..Len(s) : s[i] \in S} \cup {Len(s) + 1})
-------------------------------------------------------------------------------
(***************************************************************************)
(* UTF-8.                                                                  *)
(***************************************************************************)
Reset == [left |-> 0, high |-> FALSE]

\* utf8_scan_start_sequence; the byte after E0 is at least A0.
Started(b) ==
    CASE b = "C3" -> [left |-> 1, high |-> FALSE]
      [] b = "E2" -> [left |-> 2, high |-> FALSE]
      [] b = "E0" -> [left |-> 2, high |-> TRUE]
      [] OTHER    -> Reset

Continues(b, u) == u.left > 0 /\ (b \in Text8 \/ (b \in Introducers /\ ~u.high))

\* utf8_scan_consumes_byte.
Consumes(b, u) == IF u.left > 0 THEN Continues(b, u) ELSE b \in Leads
After(b, u) ==
    IF u.left = 0 THEN Started(b)
    ELSE IF Continues(b, u) THEN [left |-> u.left - 1, high |-> FALSE] ELSE Reset

\* The scan state after each byte.
ScanStates(u, bytes) ==
    LET f[i \in 0..Len(bytes)] == IF i = 0 THEN u ELSE After(bytes[i], f[i - 1]) IN f

\* How many bytes at the beginning make up a scalar or the beginning of one.
ScalarRun(bytes) ==
    LET u == ScanStates(Reset, bytes)
    IN  Max({k \in 1..Len(bytes) : \A i \in 2..k : Continues(bytes[i], u[i - 1])})
-------------------------------------------------------------------------------
(***************************************************************************)
(* The parser and its actions.  A result is a parser, the bytes it did not *)
(* take, its actions, and whether it stopped at a boundary.                *)
(***************************************************************************)
NoMacros == [id \in {"0", "1"} |-> <<>>]

Fresh == [prefix |-> <<>>, family |-> "NONE", payload |-> <<>>, over |-> FALSE, header |-> FALSE,
          utf8 |-> Reset, discard |-> "NONE", macros |-> NoMacros, frames |-> <<>>, expansion |-> 0]

\* The states of a parser, and the bytes it may be given.
Parser == [prefix : Seq(Bytes), family : {"NONE", "OSC", "DCS"}, payload : Seq(Bytes), over : BOOLEAN,
           header : BOOLEAN, utf8 : [left : 0..2, high : BOOLEAN], discard : {"NONE", "CSI", "ESC"},
           macros : [{"0", "1"} -> Seq(Bytes)], frames : Seq([id : {"0", "1"}, bytes : Seq(Bytes)]),
           expansion : 0..ExpansionLimit]
Input == Seq(Bytes)

Action(kind, about) == << <<kind, about>> >>
Diagnostic(family, what) == << <<"diagnostic", family, what>> >>

Took(p, rest, out) == [p |-> p, rest |-> rest, out |-> out, stop |-> FALSE]
Then(out, result) == [result EXCEPT !.out = out \o @]

\* append_c0_control_action, of the controls among some bytes.
ControlActions(bytes) == FlattenSeq([i \in DOMAIN bytes |->
    IF bytes[i] = "BEL" THEN Action("control", "BEL") \o Action("notify", "BELL") ELSE <<>>])

(***************************************************************************)
(* Sequences being discarded.                                              *)
(***************************************************************************)
\* continue_discarded_csi, to the final byte or before the next introducer.
DiscardCsi(p, bytes) ==
    LET i == FirstIn(bytes, Letters \cup {"ESC", "9B"}, 1)
        final == i <= Len(bytes) /\ bytes[i] \in Letters
    IN  Took([p EXCEPT !.discard = IF i > Len(bytes) THEN "CSI" ELSE "NONE"],
             From(bytes, IF final THEN i + 1 ELSE i), <<>>)

\* continue_discarded_escape.
DiscardEscape(p, bytes) ==
    LET i == FirstIn(bytes, Bytes \ Intermediates, 1)
        final == i <= Len(bytes) /\ bytes[i] \in Parameters \cup Letters
    IN  Took([p EXCEPT !.discard = IF i > Len(bytes) THEN "ESC" ELSE "NONE"],
             From(bytes, IF final THEN i + 1 ELSE i), <<>>)
-------------------------------------------------------------------------------
(***************************************************************************)
(* Macros.                                                                 *)
(***************************************************************************)
\* The digit of a macro's parameter, "0" if it has none.
Parameter(header, k) ==
    LET of == {i \in DOMAIN header : header[i] # ";" /\
                   Cardinality({j \in 1..i : header[j] = ";"}) = k}
    IN  IF of = {} THEN "0" ELSE header[Max(of)]

\* A body is text, or hexadecimal pairs.
Encoded(body, hex) ==
    \A i \in DOMAIN body :
        body[i] \in (IF hex THEN HexPairs ELSE Printable \cup Text8 \cup Leads)
Decoded(body, hex) == IF hex THEN [i \in DOMAIN body |-> Hex(body[i])] ELSE body

Stored(macros) == Len(macros["0"]) + Len(macros["1"])

\* The end of the header of a definition, 0 if the payload is none.
HeaderEnd(payload) ==
    LET ends == {i \in 1..Len(payload) - 1 : payload[i] = "!" /\ payload[i + 1] = "z"}
    IN  IF ends # {} /\ \A i \in 1..Min(ends) - 1 : payload[i] \in Parameters
        THEN Min(ends) ELSE 0

\* define_macro, of a payload with a header: a definition that is malformed or does not
\* fit leaves the macros alone.
Defined(macros, payload) ==
    LET end == HeaderEnd(payload)
        header == SubSeq(payload, 1, end - 1)
        hex == Parameter(header, 2) = "1"
        kept == IF Parameter(header, 1) = "1" THEN NoMacros
                ELSE [macros EXCEPT ![Parameter(header, 0)] = <<>>]
        body == Decoded(From(payload, end + 2), hex)
    IN  IF /\ Cardinality({i \in DOMAIN header : header[i] = ";"}) <= 2
           /\ Encoded(From(payload, end + 2), hex)
           /\ Stored(kept) + Len(body) <= MacroLimit
        THEN [kept EXCEPT ![Parameter(header, 0)] = body]
        ELSE macros

\* invoke_macro.
Invoke(p, parameters, rest) ==
    LET id == Parameter(parameters, 0)
        size == Len(p.macros[id])
    IN  CASE \E i \in DOMAIN parameters : parameters[i] = ";" ->
                 Took(p, rest, Diagnostic("CSI", "malformed"))
          [] size = 0 -> Took(p, rest, <<>>)
          [] size # 0 /\ \E i \in DOMAIN p.frames : p.frames[i].id = id ->
                 Took(p, rest, Diagnostic("CSI", "recursive"))
          [] OTHER ->
                 IF p.expansion + size > ExpansionLimit
                 THEN Took(p, rest, Diagnostic("CSI", "expansion"))
                 ELSE [Took([p EXCEPT !.expansion = @ + size,
                                      !.frames = Append(@, [id |-> id, bytes |-> p.macros[id]])],
                            rest, <<>>) EXCEPT !.stop = TRUE]
-------------------------------------------------------------------------------
(***************************************************************************)
(* CSI and escape sequences.                                               *)
(***************************************************************************)
\* parse_csi_dispatch_parts: parameters, then intermediates, then nothing else.
WellFormed(body) ==
    /\ \A i \in DOMAIN body : body[i] \in Parameters \cup Intermediates
    /\ \A i, j \in DOMAIN body : i < j /\ body[i] \in Intermediates => body[j] \notin Parameters

\* finish_csi_sequence, of what came between the introducer and the final byte.
FinishCsi(p, between, final, rest) ==
    LET body == Only(Bytes \ Controls, between)
        parameters == Only(Parameters, body)
        intermediates == Only(Intermediates, body)
    IN  IF ~WellFormed(body) THEN Took(p, rest, Diagnostic("CSI", "malformed"))
        ELSE IF final = "z" /\ intermediates = <<"*">> THEN Invoke(p, parameters, rest)
        ELSE Took(p, rest, << <<"CSI", parameters, intermediates, final>> >>)

\* Controls inside the sequence take effect at once, and are not kept with its beginning.
Csi(p, bytes) ==
    LET from == IF bytes[1] = "9B" THEN 2 ELSE 3
        bad == FirstIn(bytes, Letters \cup {"ESC", "9B"}, from)
        i == Min({bad, Max({from, PendingLimit + 1})})
        between == SubSeq(bytes, from, i - 1)
        done == ControlActions(between)
    IN  CASE i > Len(bytes) ->
                 Took([p EXCEPT !.prefix = <<bytes[1]>> \o Only(Bytes \ Controls, Tail(bytes))],
                      <<>>, done)
          [] i <= Len(bytes) /\ i > PendingLimit ->
                 Took([p EXCEPT !.discard = "CSI"], From(bytes, i), done \o Diagnostic("CSI", "limit"))
          [] i <= Len(bytes) /\ i <= PendingLimit /\ bytes[i] \in {"ESC", "9B"} ->
                 Took(p, From(bytes, i), done \o Diagnostic("CSI", "unsupported"))
          [] i <= Len(bytes) /\ i <= PendingLimit /\ bytes[i] \in Letters ->
                 Then(done, FinishCsi(p, between, bytes[i], From(bytes, i + 1)))

\* An escape sequence with its intermediates.
Escape(p, bytes) ==
    LET i == FirstIn(bytes, Bytes \ Intermediates, 2)
        size == Min({i, Len(bytes)})
    IN  CASE size > PendingLimit ->
                 Took([p EXCEPT !.discard = "ESC"], From(bytes, i), Diagnostic("ESC", "limit"))
          [] size <= PendingLimit /\ i > Len(bytes) -> Took([p EXCEPT !.prefix = bytes], <<>>, <<>>)
          [] size <= PendingLimit /\ i <= Len(bytes) ->
                 IF bytes[i] \notin Parameters \cup Letters
                 THEN Took(p, From(bytes, i), Diagnostic("ESC", "unsupported"))
                 ELSE Took(IF i = 2 /\ bytes[i] = "c" THEN [p EXCEPT !.macros = NoMacros] ELSE p,
                           From(bytes, i + 1),
                           IF i = 2 /\ bytes[i] = "M" THEN << <<"ESC", "M">> >>
                           ELSE Diagnostic("ESC", "unsupported"))
-------------------------------------------------------------------------------
(***************************************************************************)
(* Strings.                                                                *)
(***************************************************************************)
\* classify_dcs_header: the header counts against the limit byte by byte.
ClassifyHeader(p, bytes) ==
    LET end == FirstIn(bytes, Bytes \ ({"0", "1", ";", "BEL"}), 1)
        room == PayloadLimit - Len(p.payload)
    IN  IF ~p.header THEN Took(p, bytes, <<>>)
        ELSE IF end > room + 1
             THEN Took([p EXCEPT !.payload = <<>>, !.over = TRUE, !.header = FALSE], bytes,
                       Diagnostic("DCS", "limit"))
             ELSE Took([p EXCEPT !.header = end > Len(bytes)], bytes, <<>>)

\* append_string_payload.
AppendPayload(p, added) ==
    IF added = <<>> \/ p.over THEN Took(p, <<>>, <<>>)
    ELSE IF Len(p.payload) + Len(added) > PayloadLimit
    THEN Took([p EXCEPT !.payload = <<>>, !.over = TRUE], <<>>, Diagnostic(p.family, "limit"))
    ELSE Took([p EXCEPT !.payload = @ \o added], <<>>, <<>>)

\* What ends the string at a byte, if anything does (find_string_terminator).
Terminator(family, bytes, i) ==
    LET next == IF i < Len(bytes) THEN bytes[i + 1] ELSE "none"
    IN  CASE bytes[i] = "BEL" -> IF family = "OSC" THEN "ST" ELSE "none"
          [] bytes[i] = "9C"  -> "ST"
          [] bytes[i] = "9B"  -> "RECOVERY"
          [] bytes[i] = "CAN" -> IF family = "DCS" THEN "CANCEL" ELSE "none"
          [] bytes[i] = "ESC" -> IF next = "\\" THEN "ST"
                                 ELSE IF next = "[" \/ (family = "DCS" /\ next # "none") THEN "RECOVERY"
                                 ELSE "none"
          [] OTHER            -> "none"

\* handle_osc_payload: OSC 0 names the icon and the window, OSC 1 the icon.
OscActions(payload) ==
    LET name == From(payload, 3)
        icon == << <<"icon", name>>, <<"notify", "ICON", name>> >>
    IN  IF Len(payload) >= 2 /\ payload[2] = ";" /\ payload[1] = "0"
        THEN icon \o << <<"title", name>>, <<"notify", "TITLE", name>> >>
        ELSE IF Len(payload) >= 2 /\ payload[2] = ";" /\ payload[1] = "1" THEN icon
        ELSE Diagnostic("OSC", "unsupported")

\* finish_string.
FinishString(p, end, rest) ==
    LET closed == [p EXCEPT !.family = "NONE", !.payload = <<>>, !.over = FALSE, !.header = FALSE,
                            !.utf8 = Reset]
    IN  CASE p.over \/ end = "CANCEL" -> Took(closed, rest, <<>>)
          [] ~p.over /\ end = "RECOVERY" -> Took(closed, rest, Diagnostic(p.family, "recovery"))
          [] ~p.over /\ end = "ST" /\ p.family = "OSC" -> Took(closed, rest, OscActions(p.payload))
          [] ~p.over /\ end = "ST" /\ p.family = "DCS" ->
                 IF HeaderEnd(p.payload) # 0
                 THEN Took([closed EXCEPT !.macros = Defined(@, p.payload)], rest, <<>>)
                 ELSE Took(closed, rest, Diagnostic("DCS", "unsupported"))

Forgotten(u, bytes) == Reset        \* mutant: every chunk's scan starts afresh
Carried(u, bytes) == u[Len(bytes)]

\* The string in bytes whose scan states are u, and that it may end at: an ESC the bytes
\* end on may begin the terminator, and is kept.
AppendUntil(p, bytes, u, ends) ==
    LET open == bytes # <<>> /\ Last(bytes) = "ESC"
        at == Min(ends)
        end == Terminator(p.family, bytes, at)
        taken == CASE end = "RECOVERY" -> 0
                   [] end = "ST" /\ bytes[at] = "ESC" -> 2
                   [] OTHER -> 1
        Finish(appended) ==
            Then(appended.out,
                 IF ends = {}
                 THEN Took([appended.p EXCEPT !.utf8 = Carried(u, bytes),
                                              !.prefix = IF open THEN <<"ESC">> ELSE <<>>], <<>>, <<>>)
                 ELSE FinishString(appended.p, end, From(bytes, at + taken)))
    IN  Finish(AppendPayload(p, IF ends # {} THEN SubSeq(bytes, 1, at - 1)
                                ELSE IF open THEN Front(bytes) ELSE bytes))

\* continue_string.
ContinueString(q, bytes) ==
    LET Ends(u) == {i \in DOMAIN bytes : /\ ~Consumes(bytes[i], u[i - 1])
                                         /\ Terminator(q.family, bytes, i) # "none"}
        Appended(classified, u) == Then(classified.out, AppendUntil(classified.p, bytes, u, Ends(u)))
    IN  Appended(ClassifyHeader(q, bytes), ScanStates(q.utf8, bytes))

\* start_string.
StartString(p, family, bytes) ==
    ContinueString([p EXCEPT !.family = family, !.payload = <<>>, !.over = FALSE,
                             !.header = (family = "DCS"), !.utf8 = Reset], bytes)
-------------------------------------------------------------------------------
(***************************************************************************)
(* The parse loop.  Its two recursive functions take what they are of as   *)
(* one tuple: a parser, bytes, and in the second a budget.                 *)
(***************************************************************************)
Text(bytes) == << <<"text", bytes>> >>

\* A scalar; the incomplete one the bytes end on; or a byte that is neither
\* (decode_utf8_scalar, should_buffer_incomplete_utf8).
Scalar(p, bytes) ==
    LET run == ScalarRun(bytes)
        whole == bytes[1] \in Leads /\ run = Started(bytes[1]).left + 1
    IN  IF whole THEN Took(p, From(bytes, run + 1), Text(SubSeq(bytes, 1, run)))
        ELSE IF bytes[1] \in Leads /\ run = Len(bytes) THEN Took([p EXCEPT !.prefix = bytes], <<>>, <<>>)
        ELSE Took(p, Tail(bytes), Text(<<"replacement">>) \o Diagnostic("PRINTABLE", "malformed"))

\* One turn of ingest_buffer's loop.
Turn(p, bytes) ==
    LET b == bytes[1]
        next == IF Len(bytes) > 1 THEN bytes[2] ELSE "none"
    IN  CASE p.discard = "CSI"  -> DiscardCsi(p, bytes)
          [] p.discard = "ESC"  -> DiscardEscape(p, bytes)
          [] p.discard = "NONE" /\ p.family # "NONE" -> ContinueString(p, bytes)
          [] OTHER ->
               CASE b \in Printable          -> Took(p, Tail(bytes), Text(<<b>>))
                 [] StringOf(b) # "NONE"     -> StartString(p, StringOf(b), Tail(bytes))
                 [] b = "9B"                 -> Csi(p, bytes)
                 [] b = "ESC"                ->
                      IF next = "none" THEN Took([p EXCEPT !.prefix = bytes], <<>>, <<>>)
                      ELSE IF EscStringOf(next) # "NONE" THEN StartString(p, EscStringOf(next), From(bytes, 3))
                      ELSE IF next = "[" THEN Csi(p, bytes) ELSE Escape(p, bytes)
                 [] b \in {"BEL", "CAN"}     -> Took(p, Tail(bytes), ControlActions(<<b>>))
                 [] OTHER                    -> Scalar(p, bytes)

\* ingest_buffer, to the end of the bytes or a boundary.
Buffer[of \in Parser \X Input] ==
    LET Go(turn) == IF turn.stop THEN turn ELSE Then(turn.out, Buffer[<<turn.p, turn.rest>>])
    IN  IF of[2] = <<>> THEN Took(of[1], <<>>, <<>>) ELSE Go(Turn(of[1], of[2]))

\* ingest_source: what an earlier call left over goes first, and may be left again.
Source(p, bytes) ==
    LET Return(r, left) ==
            IF left > 0
            THEN [r EXCEPT !.p.prefix = SubSeq(r.rest, 1, left), !.rest = bytes]
            ELSE r
        Result(r) == Return(r, Len(r.rest) - Len(bytes))
    IN  Result(Buffer[<< [p EXCEPT !.prefix = <<>>], p.prefix \o bytes >>])

\* A replayed macro goes when it is at its end, unless it invoked another.
Replayed(p, n, left) ==
    IF Len(p.frames) = n /\ left = <<>> THEN [p EXCEPT !.frames = Front(@)]
    ELSE [p EXCEPT !.frames[n].bytes = left]

\* ingest, until the bytes and the macros are used up or the budget of macro bytes is
\* (the loop of Terminal_screen_model::ingest).
Ingest[of \in Parser \X Input \X (0..ExpansionLimit)] ==
    LET p == of[1]
        bytes == of[2]
        budget == of[3]
        n == Len(p.frames)
        top == p.frames[n].bytes
        given == SubSeq(top, 1, Min({Len(top), budget}))
        Parsed(r) == Then(r.out, Ingest[<<r.p, r.rest, budget>>])
        Expanded(r, taken) ==
            Then(r.out, Ingest[<<Replayed(r.p, n, From(top, taken + 1)), bytes, budget - taken>>])
        ExpandedBy(r) == Expanded(r, Len(given) - Len(r.rest))
    IN  CASE n = 0 /\ bytes = <<>>             -> Took(p, <<>>, <<>>)
          [] n = 0 /\ bytes # <<>>             -> Parsed(Source(p, bytes))
          [] n # 0 /\ top = <<>>               -> Ingest[<< [p EXCEPT !.frames = Front(@)], bytes, budget >>]
          [] n # 0 /\ top # <<>> /\ budget = 0 -> Took(p, bytes, <<>>)
          [] OTHER                             -> ExpandedBy(Source(p, given))

\* begin_macro_expansion_scope, when an operation begins.
Operation(p) == [p EXCEPT !.expansion = 0]

\* What a parser makes of all the bytes at once.
Whole(bytes) == Ingest[<<Fresh, bytes, ExpansionLimit>>].out
===============================================================================
