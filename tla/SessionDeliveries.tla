---------------------------- MODULE SessionDeliveries ----------------------------
(***************************************************************************)
(* From the bytes of the program to the host's handlers.  The session      *)
(* parses what the backend delivers, a slice at a time; the parser's       *)
(* notifications, the ends of the session and its errors wait in a bounded *)
(* queue that coalesces some kinds in place; the surface takes the queue   *)
(* together with the arbitration events and replays both in the order in   *)
(* which they were recorded.                                               *)
(*                                                                         *)
(* The parser is ByteStreamParser, the arbitration ResizeArbitration, whose *)
(* actions are steps of this module.  Output that arrives while a request  *)
(* is held waits outside: SessionRunner models the hold's tail.            *)
(***************************************************************************)
EXTENDS ResizeArbitration, FiniteSets, SequencesExt, FiniteSetsExt

CONSTANTS
    PendingLimit, PayloadLimit, MacroLimit, ExpansionLimit,     \* the parser's
    NotificationLimit,  \* k_pending_notification_limit
    Outputs             \* bound: the programs, each with
                        \*   bytes, and cuts, where a callback may end
                        \*   requests, errors, policies, exits: how many of each
                        \*   eager: the surface delivers before all is parsed

ASSUME LimitsAssumption ==
    {PendingLimit, PayloadLimit, MacroLimit, ExpansionLimit, NotificationLimit} \subseteq Nat \ {0}

P == INSTANCE ByteStreamParser

ASSUME OutputsAssumption ==
    \A o \in Outputs : o.bytes \in Seq(P!Bytes) /\ o.cuts \subseteq 1..Len(o.bytes)

Kinds == {"OUTPUT_ACTIVITY", "BELL", "TITLE", "ICON", "PROCESS_EXITED", "BACKEND_ERROR"}
Coalescing == {"OUTPUT_ACTIVITY", "BELL", "TITLE", "ICON"}

VARIABLES
    output,         \* the program: an element of Outputs
    read, chunk,    \* bytes delivered so far, and those of them not yet parsed
    parser,         \* the state of the byte-stream parser
    applied,        \* what it made of them, action by action
    common,         \* m_pending_common_deliveries
    order,          \* the last delivery order given out
    eventOrder,     \* delivery_order of each element of events
    batchOrder,     \* and of batch
    others,         \* common deliveries taken and not yet replayed
    audible, rung,  \* the bell's policy, and its events in the current window
    errors, policies, exited,
    title, icon, sawExit,   \* the host's view
    seen,           \* the order of the last delivery replayed
    owed,           \* ghost: an audible bell is recorded and not played
    lost            \* ghost: the kinds the limit made the session forget

input == <<output, read, chunk, parser, applied>>
bell == <<audible, rung>>
queue == <<common, order, lost>>
taken == <<batchOrder, others>>
counts == <<errors, policies, exited>>
view == <<title, icon, sawExit, seen>>
allVars == <<vars, input, bell, queue, eventOrder, taken, counts, view, owed>>

DeliveriesInit ==
    /\ Init
    /\ output \in Outputs
    /\ read = 0 /\ chunk = <<>> /\ parser = P!Fresh /\ applied = <<>>
    /\ common = <<>> /\ order = 0 /\ lost = {}
    /\ eventOrder = <<>> /\ batchOrder = <<>> /\ others = <<>>
    /\ audible = TRUE /\ rung = 0
    /\ errors = 0 /\ policies = 0 /\ exited = FALSE
    /\ title = <<>> /\ icon = <<>> /\ sawExit = FALSE /\ seen = 0
    /\ owed = FALSE

ParserIdle == chunk = <<>> /\ parser.frames = <<>>
-------------------------------------------------------------------------------
(***************************************************************************)
(* The queue of notifications.                                             *)
(***************************************************************************)
Notification(kind, value) == [kind |-> kind, value |-> value]

FirstTitleStays(q, i, n) == q.common[i]     \* mutant: the queue keeps the older value
Superseded(q, i, n) ==
    [kind |-> n.kind, order |-> q.order + 1,
     value |-> IF n.kind = "BELL" THEN n.value \/ q.common[i].value ELSE n.value]

\* record_pending_notification: an equal kind is superseded where it stands; at the limit
\* the first delivery of a coalescing kind gives its place up, or else the first of all.
Recorded(q, n) ==
    LET same == {i \in DOMAIN q.common : q.common[i].kind = n.kind}
        calm == {i \in DOMAIN q.common : q.common[i].kind \in Coalescing}
        new == [kind |-> n.kind, value |-> n.value, order |-> q.order + 1]
        next == [q EXCEPT !.order = @ + 1]
        forget(i) == [next EXCEPT !.lost = @ \cup {q.common[i].kind}]
    IN  IF n.kind \in Coalescing /\ same # {}
        THEN [next EXCEPT !.common[Min(same)] = Superseded(q, Min(same), n)]
        ELSE IF Len(q.common) < NotificationLimit THEN [next EXCEPT !.common = Append(@, new)]
        ELSE IF calm # {} THEN [forget(Min(calm)) EXCEPT !.common[Min(calm)] = new]
        ELSE [forget(1) EXCEPT !.common = Append(Tail(@), new)]

Pending == [common |-> common, order |-> order, lost |-> lost, rung |-> rung, owed |-> owed]
Keep(q) == common' = q.common /\ order' = q.order /\ lost' = q.lost
Record(n) == Keep(Recorded(Pending, n))

\* handle_bell_request, record_bell_event: one bell a window, audible if the policy says so,
\* visible always.
Rung(q) ==
    IF q.rung >= 1 THEN q
    ELSE [Recorded(q, Notification("BELL", audible)) EXCEPT !.rung = @ + 1, !.owed = @ \/ audible]

\* handle_parser_actions, of the notifications among some actions.
Notified(q, actions) ==
    LET f[i \in 0..Len(actions)] ==
            IF i = 0 THEN q
            ELSE IF actions[i][1] # "notify" THEN f[i - 1]
            ELSE IF actions[i][2] = "BELL" THEN Rung(f[i - 1])
            ELSE Recorded(f[i - 1], Notification(actions[i][2], actions[i][3]))
    IN  f[Len(actions)]
-------------------------------------------------------------------------------
(***************************************************************************)
(* The session.                                                            *)
(***************************************************************************)

\* A callback's output is admitted, and its activity recorded before it is parsed.
OutputArrives ==
    /\ ~Held /\ ParserIdle /\ ~exited
    /\ read' \in {k \in output.cuts : k > read}
    /\ chunk' = SubSeq(output.bytes, read + 1, read')
    /\ parser' = P!Operation(parser)
    /\ Record(Notification("OUTPUT_ACTIVITY", <<>>))
    /\ UNCHANGED <<vars, output, applied, bell, eventOrder, taken, counts, view, owed>>

\* ingest_backend_output_bytes: as much as a slice's budget of macro bytes allows.
Parse ==
    /\ ~ParserIdle
    /\ \E budget \in {1, ExpansionLimit} :
           \E r \in {P!Ingest[<<parser, chunk, budget>>]} : \E q \in {Notified(Pending, r.out)} :
               /\ parser' = r.p /\ chunk' = r.rest /\ applied' = applied \o r.out
               /\ Keep(q) /\ rung' = q.rung /\ owed' = q.owed
    /\ UNCHANGED <<vars, output, read, audible, eventOrder, taken, counts, view>>

\* record_backend_error.
RecordError ==
    /\ errors < output.errors /\ errors' = errors + 1
    /\ Record(Notification("BACKEND_ERROR", <<>>))
    /\ UNCHANGED <<vars, input, bell, eventOrder, taken, policies, exited, view, owed>>

\* The end of an exit's operation: all the output is parsed, the hold released.
ProcessExits ==
    /\ ~exited /\ output.exits > 0 /\ ~Held /\ ParserIdle
    /\ exited' = TRUE
    /\ Record(Notification("PROCESS_EXITED", <<>>))
    /\ UNCHANGED <<vars, input, bell, eventOrder, taken, errors, policies, view, owed>>

\* The bell's coalescing window is over.
WindowEnds ==
    /\ rung > 0 /\ rung' = 0
    /\ UNCHANGED <<vars, input, audible, queue, eventOrder, taken, counts, view, owed>>

\* set_bell_policy opens a new window.
SetBellPolicy ==
    /\ policies < output.policies /\ policies' = policies + 1
    /\ audible' = ~audible /\ rung' = 0
    /\ UNCHANGED <<vars, input, queue, eventOrder, taken, errors, exited, view, owed>>

\* An arbitration event takes its place in the order when it is recorded.
Numbered ==
    /\ IF Len(events') > Len(events)
       THEN order' = order + 1 /\ eventOrder' = Append(eventOrder, order + 1)
       ELSE order' = order /\ eventOrder' = SubSeq(eventOrder, 1, Len(events'))
    /\ UNCHANGED <<input, bell, common, lost, taken, counts, view, owed>>

\* Output meets a request: what follows it is captured.
RequestArrives == Arm /\ armed < output.requests /\ ParserIdle /\ ~exited /\ Numbered

HoldEnds == (SessionSettles \/ HostAnswers) /\ Numbered
DeadlinePasses == TimerFires /\ Numbered

TimeoutChanges ==
    /\ SetTimeout /\ output.requests > 0
    /\ UNCHANGED <<input, bell, queue, eventOrder, taken, counts, view, owed>>
-------------------------------------------------------------------------------
(***************************************************************************)
(* The surface: the delivery loop of sync_from_session.                    *)
(***************************************************************************)
AsQueued(deliveries) == deliveries      \* mutant: the batch is not sorted
InOrder(deliveries) ==
    LET Earlier(n) == {i \in DOMAIN deliveries : deliveries[i].order < n.order}
    IN  [i \in DOMAIN deliveries |->
            CHOOSE n \in Range(deliveries) : Cardinality(Earlier(n)) = i - 1]

\* take_pending_deliveries, once the batch before is replayed.
TakeAll ==
    /\ others = <<>>
    /\ ~output.eager => read = Len(output.bytes) /\ ParserIdle
    /\ \/ TakeDeliveries
       \/ batch = <<>> /\ events = <<>> /\ common # <<>> /\ UNCHANGED vars
    /\ others' = InOrder(common) /\ common' = <<>>
    /\ batchOrder' = eventOrder /\ eventOrder' = <<>>
    /\ UNCHANGED <<input, bell, order, lost, counts, view, owed>>

EventIsDue == batch # <<>> /\ (others # <<>> => Head(batchOrder) < Head(others).order)

ReplayEvent ==
    /\ EventIsDue
    /\ PresentRequest \/ SkipRequest \/ ReportSettlement
    /\ batchOrder' = Tail(batchOrder) /\ seen' = Head(batchOrder)
    /\ UNCHANGED <<input, bell, queue, eventOrder, others, counts, title, icon, sawExit, owed>>

\* replay_session_notification.
ReplayCommon ==
    /\ others # <<>> /\ ~EventIsDue
    /\ LET n == Head(others)
       IN  /\ title' = IF n.kind = "TITLE" THEN n.value ELSE title
           /\ icon' = IF n.kind = "ICON" THEN n.value ELSE icon
           /\ sawExit' = (sawExit \/ n.kind = "PROCESS_EXITED")
           /\ owed' = (owed /\ (n.kind = "BELL" => ~n.value))
           /\ seen' = n.order
    /\ others' = Tail(others)
    /\ UNCHANGED <<vars, input, bell, queue, eventOrder, batchOrder, counts>>

DeliverAll == TakeAll \/ ReplayEvent \/ ReplayCommon
-------------------------------------------------------------------------------
DeliveriesNext ==
    \/ OutputArrives \/ Parse \/ RecordError \/ ProcessExits \/ WindowEnds \/ SetBellPolicy
    \/ RequestArrives \/ HoldEnds \/ DeadlinePasses \/ TimeoutChanges
    \/ DeliverAll

\* The delivery loop runs on; every drain ends in sync_from_session; a timer fires.
DeliveriesSpec ==
    /\ DeliveriesInit /\ [][DeliveriesNext]_allVars
    /\ WF_allVars(DeliverAll) /\ WF_allVars(DeadlinePasses)
-------------------------------------------------------------------------------
(***************************************************************************)
(* Properties.                                                             *)
(***************************************************************************)

\* Two limits count differently.  Macros expand up to a limit in one callback, so that
\* several may expand more; and the controls inside a sequence count against its length
\* in the chunk that has them, and no longer in the next.
LimitCounts(actions) ==
    \E i \in DOMAIN actions :
        \/ actions[i] = <<"diagnostic", "CSI", "expansion">>
        \/ /\ actions[i] = <<"diagnostic", "CSI", "limit">>
           /\ \E j \in 1..read : output.bytes[j] \in {"BEL", "CAN"}

\* However the output was cut into callbacks and the replay of macros into slices, the
\* parser made of it what it makes of the whole at once.
ChunksDoNotMatter ==
    ParserIdle => LET whole == P!Whole(SubSeq(output.bytes, 1, read))
                  IN  applied = whole \/ LimitCounts(whole)

\* The host's handlers see deliveries in the order of their recording, though the queue
\* replaces them in place and the batch mixes two kinds.
DeliveredInOrder == [][seen' # seen => seen' > seen]_allVars

LastName(kind) ==
    LET named == {i \in DOMAIN applied : applied[i][1] = "notify" /\ applied[i][2] = kind}
    IN  IF named = {} THEN <<>> ELSE applied[Max(named)][3]

\* When nothing waits, and in any case when it has been told of the exit, the host has
\* the last names of the output; when nothing waits it was told of the exit and has
\* played the bells: coalescing loses no final state, only the limit does.
HostIsCaughtUp ==
    LET quiet == common = <<>> /\ others = <<>>
    IN  /\ quiet \/ sawExit => /\ title = LastName("TITLE") \/ "TITLE" \in lost
                               /\ icon = LastName("ICON") \/ "ICON" \in lost
        /\ quiet => /\ exited => sawExit \/ "PROCESS_EXITED" \in lost
                    /\ owed => "BELL" \in lost
===============================================================================
