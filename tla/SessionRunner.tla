----------------------------- MODULE SessionRunner -----------------------------
(***************************************************************************)
(* The session's command runner: Terminal_session on the GUI thread, as    *)
(* the ordering boundary between backend callbacks, the screen model and   *)
(* the host's input.                                                       *)
(*                                                                         *)
(*   callback ingress -> m_pending_commands -> m_operation -> screen model *)
(*                                                    \-> replies, backend *)
(*                                                                         *)
(* Callbacks arrive at any time (CallbackIngress is their queue); the rest *)
(* runs under m_mutex, one public call after another.  An output callback  *)
(* carries units: printable text, a query the terminal replies to, an      *)
(* image that may outlast the step that meets it, a text-area resize       *)
(* request, whole or in two halves.  A window of a budgeted step is one    *)
(* unit.  A captured request holds the output behind it until the host     *)
(* answers, the hold overflows or the process exits.                       *)
(*                                                                         *)
(* Left out: queue limits (OutputFlow), how a request is presented to the  *)
(* host (ResizeArbitration), START, RESIZE, calls made from inside another *)
(* one's processing, publication, and macros.                              *)
(***************************************************************************)
EXTENDS Integers, Sequences, FiniteSets, SequencesExt

CONSTANTS
    Outputs,        \* what an output callback may carry: sequences of units
    Others,         \* kinds of the other callbacks that happen
    HoldLimit,      \* hold_limit_bytes
    MaxCallbacks, MaxInputs, MaxScopes      \* bounds

Kinds == {"text", "query", "image", "request", "half", "rest"}

\* A reader ends at an empty read and so delivers no empty output.
ASSUME RunnerAssumption ==
    /\ Outputs \subseteq Seq(Kinds) \ {<<>>}
    /\ HoldLimit \in Nat /\ MaxCallbacks \in Nat
    /\ Others \subseteq {"error", "exit", "overflow"}

Everything == MaxCallbacks + 1      \* no target, no frontier

VARIABLES
    sent, taken,            \* callbacks by epoch; those up to taken left the ingress
    pending, sequence,      \* m_pending_commands, the last sequence given out
    op,                     \* m_operation
    hold,                   \* request of m_text_area_resize_arbitration, <<>> if none
    tail,                   \* m_text_area_resize_tail: held, or released and to be replayed
    stash,                  \* the scanner's candidate in m_text_area_resize_arena
    work,                   \* parser_work_pending() of the model
    stopped, windowTaken, window,   \* in a step: the model stopped, a window was taken,
                                    \* what is left of it
    replies,                \* m_operation_replies
    processed, ready, incomplete,   \* m_last_processed_, m_ready_processed_ and
                                    \* m_incomplete_..._backend_callback_epoch
    stopRequested, stopSequence,    \* m_stop_requested, m_stop_requested_sequence
    exited,                 \* m_exit_status
    gui, call,              \* where the public call in progress is, and which it is
    draining, timed, target,        \* its drain policy, deadline, target or frontier
    frames,                 \* m_input_frontier_stack: the surface's open handlers
    answer,                 \* the request a settlement in progress answers
    inputs,                 \* inputs and stops asked for so far
    applied, ignored, captured  \* history: units in the model, ignored after a stop, and
                            \* ever captured by a hold

ingress == <<sent, taken>>
queue   == <<pending, sequence>>
text    == <<hold, tail, stash, work>>
step    == <<stopped, windowTaken, window>>
epochs  == <<processed, ready, incomplete>>
stops   == <<stopRequested, stopSequence, exited>>
calls   == <<call, draining, timed, target, frames, answer, inputs>>
history == <<applied, ignored, captured>>
vars == <<ingress, queue, op, text, step, replies, epochs, stops, gui, calls, history>>

NoOperation == [kind |-> "none", epoch |-> 0, seq |-> 0, left |-> <<>>, request |-> <<>>,
                phase |-> "retired", owns |-> FALSE, rearm |-> FALSE]

\* A unit with its place in the output.
Unit(e, i, k) == [epoch |-> e, at |-> i, kind |-> k]

UnitsOf(e) == {Unit(e, i, sent[e].units[i]) : i \in DOMAIN sent[e].units}

Elements(q) == {q[i] : i \in DOMAIN q}

Command(kind, epoch, units, request) ==
    [kind |-> kind, epoch |-> epoch, seq |-> sequence',
     left |-> [i \in DOMAIN units |-> Unit(epoch, i, units[i])], request |-> request]

Init ==
    /\ sent = <<>> /\ taken = 0
    /\ pending = <<>> /\ sequence = 0 /\ op = NoOperation
    /\ hold = <<>> /\ tail = <<>> /\ stash = <<>> /\ work = FALSE
    /\ stopped = FALSE /\ windowTaken = FALSE /\ window = 0
    /\ replies = <<>>
    /\ processed = 0 /\ ready = 0 /\ incomplete = 0
    /\ stopRequested = FALSE /\ stopSequence = 0 /\ exited = FALSE
    /\ gui = "idle" /\ call = "none" /\ draining = FALSE /\ timed = FALSE /\ target = Everything
    /\ frames = <<>> /\ answer = <<>> /\ inputs = 0
    /\ applied = <<>> /\ ignored = {} /\ captured = {}
-------------------------------------------------------------------------------
(***************************************************************************)
(* The processed epoch.                                                    *)
(***************************************************************************)
Later(a, b) == IF a > b THEN a ELSE b

\* pending_backend_callback_blocks_processed_callback_epoch.
Blocked(e) ==
    \/ op'.epoch # 0 /\ op'.epoch < e
    \/ \E i \in DOMAIN pending' : pending'[i].epoch \in 1..e

\* flush_ready_processed_backend_callback_epoch, with e ready.
FlushReady(e) ==
    IF e = 0 \/ (incomplete' # 0 /\ e >= incomplete') \/ Blocked(e)
    THEN ready' = e /\ UNCHANGED processed
    ELSE ready' = 0 /\ processed' = Later(processed, e)

\* advance_processed_backend_callback_epoch.
Advance(e) == FlushReady(Later(ready, e))

CompleteLate(e) ==              \* mutant: the incomplete epoch is never cleared
    UNCHANGED incomplete /\ Advance(e)

\* complete_processing_backend_output_side_effects.
CompleteOutput(e) ==
    /\ incomplete' = IF e > incomplete THEN 0 ELSE incomplete
    /\ Advance(e)

\* record_incomplete_processing_backend_output_side_effects.
RecordIncomplete(e) ==
    /\ incomplete' = IF incomplete = 0 \/ e < incomplete THEN e ELSE incomplete
    /\ UNCHANGED <<processed, ready>>

OutputOpen == op.owns                                       \* output_operation_open
Settled(e) == ~OutputOpen /\ processed >= e                 \* backend_output_settled

\* input_frontier_ready.
FrontierReady(e) ==
    /\ ~OutputOpen /\ op.epoch \notin 1..e
    /\ \A i \in DOMAIN pending : pending[i].epoch \notin 1..e
    /\ taken >= e

\* has_pending_backend_callback_events.
HasPending == OutputOpen \/ pending # <<>> \/ taken < Len(sent)

\* should_ignore_backend_output_after_stop.
Ignored(seq) == stopSequence # 0 /\ seq > stopSequence
-------------------------------------------------------------------------------
(***************************************************************************)
(* Callbacks: output until an overflow, and an exit behind all output.     *)
(***************************************************************************)
Callback(kind, units) ==
    /\ Len(sent) < MaxCallbacks
    /\ kind \in {"output", "overflow"} =>
         \A e \in DOMAIN sent : sent[e].kind \notin {"overflow", "exit"}
    /\ kind = "exit" => \A e \in DOMAIN sent : sent[e].kind # "exit"
    /\ sent' = Append(sent, [kind |-> kind, units |-> units])
    /\ UNCHANGED <<taken, queue, op, text, step, replies, epochs, stops, gui, calls, history>>

OutputReceived == \E us \in Outputs : Callback("output", us)
OtherCallback == \E k \in Others : Callback(k, <<>>)
-------------------------------------------------------------------------------
(***************************************************************************)
(* Public calls.                                                           *)
(***************************************************************************)
Idle == gui = "idle"

Untouched == UNCHANGED <<ingress, op, text, step, replies, epochs, stops, history>>

\* m_input_frontier_epoch, and the one a call seals.
Frontier == IF frames = <<>> THEN Everything ELSE Last(frames)
Seal == Len(sent)               \* capture_backend_callback_frontier
SealedFrontier == IF frames = <<>> THEN Seal ELSE Last(frames)

\* A handler of the surface, or one called from inside it, seals its frontier.
ScopeBegins ==
    /\ Idle /\ Len(frames) < MaxScopes
    /\ frames' = Append(frames, Seal)
    /\ UNCHANGED <<gui, queue, call, draining, timed, target, answer, inputs>> /\ Untouched

ScopeEnds ==
    /\ Idle /\ frames # <<>>
    /\ frames' = Front(frames)
    /\ UNCHANGED <<gui, queue, call, draining, timed, target, answer, inputs>> /\ Untouched

Begin(name, epoch) ==
    /\ Idle
    /\ call' = name /\ target' = epoch /\ draining' = TRUE
    /\ answer' = IF name = "settle" THEN hold ELSE <<>>
    /\ UNCHANGED <<queue, frames>> /\ Untouched

\* process_backend_callback_events, process_backend_callback_events_for.
PostedDrain ==
    /\ HasPending
    /\ Begin("posted", Frontier)
    /\ timed' \in BOOLEAN
    /\ gui' = "drain"
    /\ UNCHANGED inputs

\* The catch-up of a frame: process_backend_callback_events_until_epoch.
FrameDrain ==
    /\ ~Settled(SealedFrontier)
    /\ Begin("frame", SealedFrontier)
    /\ timed' = TRUE
    /\ gui' = "drain"
    /\ UNCHANGED inputs

\* process_backend_callback_events_to_current_epoch, then the call's command.
DrainThenDispatch(name) ==
    /\ Begin(name, SealedFrontier)
    /\ timed' = FALSE
    /\ gui' = IF Settled(SealedFrontier) THEN "dispatch" ELSE "drain"

\* write_user_bytes, and any input like it.
Input ==
    /\ inputs < MaxInputs
    /\ inputs' = inputs + 1
    /\ DrainThenDispatch("input")

\* settle_text_area_resize_arbitration for the request in flight.
Settle ==
    /\ hold # <<>>
    /\ DrainThenDispatch("settle")
    /\ UNCHANGED inputs

\* terminate: the drain comes before its sequence.
Terminate ==
    /\ inputs < MaxInputs /\ ~stopRequested /\ ~exited
    /\ Begin("terminate", Everything)
    /\ timed' = FALSE
    /\ gui' = "drain"
    /\ inputs' = inputs + 1

EndCall ==
    /\ gui' = "idle" /\ call' = "none" /\ draining' = FALSE /\ timed' = FALSE
    /\ target' = Everything /\ answer' = <<>>
    /\ UNCHANGED <<frames, inputs>>

BehindEverything(command) ==    \* mutant: enqueue_command without the rotation
    Append(pending, command)

\* The input is behind its frontier and before every later callback.
BehindFrontier(command) ==
    LET i == CHOOSE j \in 1..(Len(pending) + 1) :
               /\ \A k \in 1..(j - 1) : pending[k].epoch <= target
               /\ j <= Len(pending) => pending[j].epoch > target
    IN  InsertAt(pending, i, command)

\* enqueue_and_process_synchronous_command, KEEP_CALLBACKS_QUEUED.  A settlement
\* runs a single step.
Dispatch ==
    /\ gui = "dispatch" /\ call \in {"input", "settle"} /\ FrontierReady(target)
    /\ sequence' = sequence + 1
    /\ pending' = BehindFrontier(
                    IF call = "input" THEN Command("write", 0, <<>>, <<>>)
                    ELSE Command("settle", 0, <<>>, answer))
    /\ draining' = FALSE /\ timed' = (call = "settle")
    /\ gui' = "admit"
    /\ UNCHANGED <<call, target, frames, answer, inputs>> /\ Untouched

EnqueueTerminate ==
    /\ gui = "dispatch" /\ call = "terminate"
    /\ sequence' = sequence + 1
    /\ pending' = Append(pending, Command("terminate", 0, <<>>, <<>>))
    /\ gui' = "drain" /\ call' = "posted"
    /\ UNCHANGED <<draining, timed, target, frames, answer, inputs>> /\ Untouched
-------------------------------------------------------------------------------
(***************************************************************************)
(* drain_backend_callback_commands: the ingress into m_pending_commands.   *)
(***************************************************************************)
NextEpoch == taken + 1
CanTake == taken < Len(sent) /\ NextEpoch <= target

DrainNext ==
    /\ gui = "drain" /\ CanTake
    /\ taken' = NextEpoch /\ sequence' = sequence + 1
    /\ UNCHANGED <<sent, op, text, step, replies, incomplete, exited, gui, calls, applied, captured>>

\* handle_output_overflow: the stop takes effect ahead of what is queued.
DrainOverflow ==
    /\ DrainNext /\ sent[NextEpoch].kind = "overflow"
    /\ stopRequested' = TRUE
    /\ stopSequence' = IF stopSequence = 0 THEN sequence' ELSE stopSequence
    /\ UNCHANGED <<pending, ignored>>
    /\ Advance(NextEpoch)

DrainIgnored ==
    /\ DrainNext /\ sent[NextEpoch].kind = "output" /\ Ignored(sequence')
    /\ ignored' = ignored \cup UnitsOf(NextEpoch)
    /\ UNCHANGED <<pending, stopRequested, stopSequence>>
    /\ Advance(NextEpoch)

DrainQueued ==
    /\ DrainNext
    /\ sent[NextEpoch].kind # "overflow" /\ ~(sent[NextEpoch].kind = "output" /\ Ignored(sequence'))
    /\ pending' = Append(pending, Command(sent[NextEpoch].kind, NextEpoch, sent[NextEpoch].units, <<>>))
    /\ UNCHANGED <<processed, ready, stopRequested, stopSequence, ignored>>

DrainEnds ==
    /\ gui = "drain" /\ ~CanTake
    /\ gui' = IF call = "terminate" THEN "dispatch" ELSE "admit"
    /\ UNCHANGED <<queue, calls>> /\ Untouched
-------------------------------------------------------------------------------
(***************************************************************************)
(* process_pending_commands: one operation at a time.                      *)
(***************************************************************************)
Finish ==
    IF draining /\ call \in {"input", "settle"}
    THEN gui' = "dispatch" /\ UNCHANGED calls
    ELSE EndCall

NothingToAdmit == op.kind = "none" /\ (pending # <<>> => Head(pending).epoch > target)

RunEnds ==
    /\ gui = "admit" /\ NothingToAdmit
    /\ Finish
    /\ UNCHANGED queue /\ Untouched

\* admit_front_command, unless an operation is open; then run_operation_step.
StepBegins ==
    /\ gui = "admit" /\ ~NothingToAdmit
    /\ IF op.kind # "none" THEN UNCHANGED <<op, pending>>
       ELSE LET c == Head(pending) IN
            /\ op' = [kind |-> c.kind, epoch |-> c.epoch, seq |-> c.seq, left |-> c.left,
                      request |-> c.request, phase |-> "new", owns |-> FALSE, rearm |-> FALSE]
            /\ pending' = Tail(pending)
    /\ stopped' = FALSE /\ windowTaken' = FALSE /\ window' = 0
    /\ gui' = IF op'.phase = "new" THEN "step" ELSE "loop"
    /\ UNCHANGED <<sequence, ingress, text, replies, epochs, stops, calls, history>>

\* stop_after_step: the deadline of a settlement has always passed.
MoreToDo == op.kind # "none" \/ pending # <<>> \/ (draining /\ taken < Len(sent))
TargetReached == draining /\ target # Everything /\ Settled(target)

StepStops ==
    /\ gui = "check"
    /\ TargetReached \/ (timed /\ MoreToDo)
    /\ Finish
    /\ UNCHANGED queue /\ Untouched

StepGoesOn ==
    /\ gui = "check"
    /\ ~TargetReached /\ ~(MoreToDo /\ timed /\ call = "settle")
    /\ gui' = IF draining THEN "drain" ELSE "admit"
    /\ UNCHANGED <<queue, calls>> /\ Untouched
-------------------------------------------------------------------------------
(***************************************************************************)
(* admit_operation.                                                        *)
(***************************************************************************)
Admits(kind) ==
    /\ gui = "step" /\ op.kind = kind
    /\ gui' = "loop"
    /\ UNCHANGED <<ingress, queue, tail, stash, work, step, replies, incomplete, calls, captured>>

Retired == op' = [op EXCEPT !.phase = "retired"]

\* admit_backend_output.
AdmitOutput ==
    /\ Admits("output") /\ ~Ignored(op.seq)
    /\ op' = [op EXCEPT !.phase = "source", !.owns = TRUE]
    /\ UNCHANGED <<hold, processed, ready, stops, applied, ignored>>

AdmitIgnoredOutput ==
    /\ Admits("output") /\ Ignored(op.seq)
    /\ op' = [op EXCEPT !.phase = "retired", !.owns = TRUE, !.left = <<>>]
    /\ ignored' = ignored \cup UnitsOf(op.epoch)
    /\ UNCHANGED <<hold, stops, applied>>
    /\ Advance(op.epoch)

ReleaseForgetsTail(rearm) ==    \* mutant: the operation does not turn to the tail
    /\ hold' = <<>>
    /\ applied' = applied \o hold
    /\ op' = [op EXCEPT !.phase = "retired", !.owns = TRUE, !.rearm = rearm]

\* release_text_area_resize_arbitration: the request takes effect, its tail follows.
Release(rearm) ==
    /\ hold' = <<>>
    /\ applied' = applied \o hold
    /\ op' = [op EXCEPT !.phase = "tail", !.owns = TRUE, !.rearm = rearm]

\* process_text_area_resize_arbitration_command: the request is checked again.
AdmitSettle ==
    /\ Admits("settle")
    /\ IF hold # <<>> /\ hold = op.request THEN Release(TRUE)
       ELSE Retired /\ UNCHANGED <<hold, applied>>
    /\ UNCHANGED <<processed, ready, stops, ignored>>

\* apply_backend_exit: the sequence of a stop stays.
ApplyExit == exited' = TRUE /\ stopRequested' = FALSE /\ UNCHANGED stopSequence

ExitBeforeTail ==               \* mutant: the exit does not wait for the released tail
    /\ Admits("exit")
    /\ IF hold # <<>> THEN Release(FALSE) ELSE Retired /\ UNCHANGED <<hold, applied>>
    /\ ApplyExit
    /\ UNCHANGED <<processed, ready, ignored>>

\* process_backend_exit_command; the ingress takes a single exit.
AdmitExit ==
    /\ Admits("exit")
    /\ IF hold # <<>> THEN Release(FALSE) /\ UNCHANGED stops
       ELSE Retired /\ ApplyExit /\ UNCHANGED <<hold, applied>>
    /\ UNCHANGED <<processed, ready, ignored>>

\* process_write_command, process_backend_error_command.
AdmitOther ==
    /\ \E kind \in {"write", "error"} : Admits(kind)
    /\ Retired
    /\ UNCHANGED <<hold, processed, ready, stops, applied, ignored>>

\* process_terminate_command: a backend that refuses may have stopped all the same.
AdmitTerminate ==
    /\ Admits("terminate")
    /\ Retired
    /\ \/ ~stopRequested /\ ~exited
          /\ stopRequested' = TRUE /\ stopSequence' = op.seq /\ UNCHANGED exited
       \/ ~stopRequested /\ ~exited
          /\ stopRequested' = FALSE /\ stopSequence' = 0 /\ UNCHANGED exited
       \/ (stopRequested \/ exited) /\ UNCHANGED stops
    /\ UNCHANGED <<hold, processed, ready, applied, ignored>>
-------------------------------------------------------------------------------
(***************************************************************************)
(* run_operation_step.                                                     *)
(***************************************************************************)
Runs == gui = "loop" /\ op.phase # "retired" /\ ~stopped
Stays == UNCHANGED <<ingress, queue, calls>>

\* advance_pending_parser_work: a budgeted step may leave some of it.
WorkFinishes ==
    /\ Runs /\ work
    /\ work' = FALSE
    /\ UNCHANGED <<op, hold, tail, stash, step, replies, epochs, stops, gui, history>> /\ Stays

WorkOutlastsStep ==
    /\ Runs /\ work /\ timed
    /\ stopped' = TRUE
    /\ UNCHANGED <<op, text, windowTaken, window, replies, epochs, stops, gui, history>> /\ Stays

\* step_backend_output_source: a hold takes all of it or is released.
WholeHoldHasRoom == Len(op.left) <= HoldLimit      \* mutant: what is held is not counted
HoldHasRoom == Len(op.left) <= HoldLimit - Len(tail)

HoldCaptures ==
    /\ Runs /\ ~work /\ op.phase = "source" /\ ~windowTaken
    /\ hold # <<>> /\ HoldHasRoom
    /\ tail' = tail \o op.left
    /\ windowTaken' = TRUE
    /\ op' = [op EXCEPT !.left = <<>>, !.phase = "retired"]
    /\ captured' = captured \cup Elements(op.left)
    /\ UNCHANGED <<hold, stash, work, stopped, window, replies, stops, gui, applied, ignored>> /\ Stays
    /\ CompleteOutput(op.epoch)

HoldOverflows ==
    /\ Runs /\ ~work /\ op.phase = "source" /\ ~windowTaken
    /\ hold # <<>> /\ ~HoldHasRoom
    /\ Release(TRUE)
    /\ UNCHANGED <<tail, stash, work, step, replies, epochs, stops, gui, ignored, captured>> /\ Stays

\* A window: all there is, or some of it in a budgeted step.
Windows(q) == IF timed THEN 1..Len(q) ELSE {Len(q)}

TakeWindow ==
    /\ Runs /\ ~work /\ ~windowTaken /\ hold = <<>>
    /\ \/ op.phase = "source" /\ op.left # <<>> /\ window' \in Windows(op.left)
       \/ op.phase = "tail" /\ tail # <<>> /\ window' \in Windows(tail)
    /\ windowTaken' = TRUE
    /\ gui' = "window"
    /\ UNCHANGED <<op, text, stopped, replies, epochs, stops, history>> /\ Stays

EmptyWindowStays ==             \* mutant: only a window with bytes can end the source
    /\ Runs /\ ~work /\ ~windowTaken /\ hold = <<>>
    /\ op.phase = "source" /\ op.left = <<>>
    /\ windowTaken' = TRUE
    /\ UNCHANGED <<op, text, stopped, window, replies, epochs, stops, gui, history>> /\ Stays

\* The model stopped in the last unit of the source: an empty window ends it.
SourceIsEmpty ==
    /\ Runs /\ ~work /\ ~windowTaken /\ hold = <<>>
    /\ op.phase = "source" /\ op.left = <<>>
    /\ Retired
    /\ windowTaken' = TRUE
    /\ UNCHANGED <<text, stopped, window, replies, stops, gui, history>> /\ Stays
    /\ CompleteOutput(op.epoch)

LeaveReplies == UNCHANGED replies       \* mutant: a step yields with its replies unwritten
DisposeReplies == replies' = <<>>       \* dispose_operation_replies

\* finish_released_tail: after an exit's tail, a candidate is applied as it stands.
TailFinishes ==
    /\ Runs /\ ~work /\ op.phase = "tail"
    /\ hold # <<>> \/ tail = <<>>
    /\ LET flushed == IF hold = <<>> /\ ~op.rearm THEN stash ELSE <<>> IN
       /\ applied' = applied \o flushed
       /\ stash' = IF flushed # <<>> THEN <<>> ELSE stash
    /\ op' = [op EXCEPT !.phase = CASE op.kind = "output" -> "source"
                                    [] op.kind = "exit"   -> "exit"
                                    [] OTHER              -> "retired"]
    /\ UNCHANGED <<hold, tail, work, step, replies, epochs, stops, gui, ignored, captured>> /\ Stays

\* The exit follows every effect of its released tail, its replies included.
ExitEffects ==
    /\ Runs /\ ~work /\ op.phase = "exit"
    /\ DisposeReplies
    /\ Retired /\ ApplyExit
    /\ UNCHANGED <<text, step, epochs, gui, history>> /\ Stays

LoopEnds ==
    /\ gui = "loop"
    /\ \/ op.phase = "retired" \/ stopped
       \/ windowTaken /\ ~work /\ op.phase = "source"
       \/ windowTaken /\ ~work /\ op.phase = "tail" /\ hold = <<>> /\ tail # <<>>
    /\ gui' = "end"
    /\ UNCHANGED <<op, text, step, replies, epochs, stops, history>> /\ Stays

\* dispose_operation_replies and retire_operation.
StepEnds ==
    /\ gui = "end"
    /\ DisposeReplies /\ stopped' = FALSE
    /\ gui' = "check"
    /\ UNCHANGED <<text, windowTaken, window, incomplete, stops, history>> /\ Stays
    /\ IF op.phase # "retired" THEN UNCHANGED <<op, processed, ready>>
       ELSE /\ op' = NoOperation
            /\ IF op.epoch # 0 /\ op.kind # "output" THEN Advance(op.epoch) ELSE FlushReady(ready)
-------------------------------------------------------------------------------
(***************************************************************************)
(* Units of a window: ingest_backend_output_bytes, scan_backend_output_    *)
(* span.  A candidate that may become a request waits in the arena.        *)
(***************************************************************************)
Source == IF op.phase = "source" THEN op.left ELSE tail

Request(u) == CASE u.kind = "request" -> <<u>>
                [] u.kind = "rest" -> IF stash # <<>> THEN stash \o <<u>> ELSE <<>>
                [] OTHER -> <<>>

\* text_area_resize_arbitration_armable, and the rest of the source must fit.
Arms(u) ==
    /\ Request(u) # <<>>
    /\ op.phase = "source" \/ op.rearm
    /\ Len(Tail(Source)) <= HoldLimit

\* The candidate in the arena is flushed by the unit that cannot complete it.
Flushed(u) == IF u.kind = "rest" THEN <<>> ELSE stash

InWindow == gui = "window" /\ UNCHANGED <<stops, ignored>> /\ Stays

\* What an own source's last window completes, unless the model stopped in it.
WindowEndsSource ==
    IF op.phase = "source" /\ op'.left = <<>> /\ ~stopped'
    THEN IF stash' # <<>> THEN RecordIncomplete(op.epoch) ELSE CompleteOutput(op.epoch)
    ELSE UNCHANGED epochs

RestOfSource(q) == Tail(q)              \* mutant: more than the window is captured
RestOfWindow(q) == SubSeq(q, 2, window)

\* The request is captured, and with it what is left of the window.
ArmHold ==
    /\ InWindow /\ UNCHANGED <<work, replies, stopped, windowTaken>>
    /\ LET u == Head(Source) IN
       /\ Arms(u)
       /\ hold' = Request(u)
       /\ applied' = applied \o Flushed(u)
       /\ stash' = <<>>
    /\ tail' = IF op.phase = "source" THEN RestOfWindow(op.left) ELSE Tail(tail)
    /\ captured' = captured \cup Elements(tail')
    /\ LET left == IF op.phase = "source" THEN SubSeq(op.left, window + 1, Len(op.left)) ELSE op.left
       IN  op' = [op EXCEPT !.left = left,
                            !.phase = IF @ = "source" /\ left = <<>> THEN "retired" ELSE @]
    /\ window' = 0 /\ gui' = "loop"
    /\ WindowEndsSource

\* One unit leaves the window; at its end the loop goes on.
Consume(stops_here) ==
    /\ tail' = IF op.phase = "tail" THEN Tail(tail) ELSE tail
    /\ LET left == IF op.phase = "source" THEN Tail(op.left) ELSE op.left
       IN  op' = [op EXCEPT !.left = left,
                            !.phase = IF @ = "source" /\ left = <<>> /\ ~stops_here
                                      THEN "retired" ELSE @]
    /\ stopped' = stops_here
    /\ window' = IF stops_here THEN 0 ELSE window - 1
    /\ gui' = IF window' = 0 THEN "loop" ELSE "window"
    /\ UNCHANGED windowTaken
    /\ WindowEndsSource

StashCandidate ==
    /\ InWindow /\ UNCHANGED <<work, hold, replies, captured>>
    /\ Head(Source).kind = "half"
    /\ applied' = applied \o stash
    /\ stash' = <<Head(Source)>>
    /\ Consume(FALSE)

\* A request that cannot be captured is declined, which is applying it.
ApplyUnit ==
    /\ InWindow /\ UNCHANGED <<hold, captured>>
    /\ LET u == Head(Source) IN
       /\ u.kind # "half" /\ ~Arms(u)
       /\ applied' = applied \o stash \o <<u>>
       /\ replies' = IF u.kind = "query" THEN Append(replies, u) ELSE replies
       /\ stash' = <<>>
       /\ work' \in (IF u.kind = "image" /\ timed THEN BOOLEAN ELSE {work})
       /\ Consume(work')
-------------------------------------------------------------------------------
Callbacks == OutputReceived \/ OtherCallback

Requests == ScopeBegins \/ FrameDrain \/ Input \/ Terminate

Steps ==
    \/ Dispatch \/ EnqueueTerminate
    \/ DrainOverflow \/ DrainIgnored \/ DrainQueued \/ DrainEnds
    \/ RunEnds \/ StepBegins \/ StepStops \/ StepGoesOn
    \/ AdmitOutput \/ AdmitIgnoredOutput \/ AdmitSettle \/ AdmitExit \/ AdmitOther \/ AdmitTerminate
    \/ WorkFinishes \/ WorkOutlastsStep \/ HoldCaptures \/ HoldOverflows \/ TakeWindow
    \/ SourceIsEmpty \/ TailFinishes \/ ExitEffects \/ LoopEnds \/ StepEnds
    \/ ArmHold \/ StashCandidate \/ ApplyUnit

Next == Callbacks \/ Requests \/ ScopeEnds \/ PostedDrain \/ Settle \/ Steps

Spec == Init /\ [][Next]_vars

(***************************************************************************)
(* A call runs to its end; budgeted steps finish an image; queued drains   *)
(* and the host's answer (or its timeout) get their turn in the event      *)
(* loop.  A handler returns, whatever handlers it makes run inside it.     *)
(***************************************************************************)
Fairness ==
    /\ WF_vars(Steps) /\ SF_vars(WorkFinishes)
    /\ SF_vars(PostedDrain) /\ SF_vars(Settle)
    /\ \A depth \in 1..MaxScopes : SF_vars(ScopeEnds /\ Len(frames) = depth)

FairSpec == Spec /\ Fairness
-------------------------------------------------------------------------------
(***************************************************************************)
(* Properties.                                                             *)
(***************************************************************************)
Before(u, v) == u.epoch < v.epoch \/ (u.epoch = v.epoch /\ u.at < v.at)

\* What has become of a unit: in the model, ignored after a stop, captured by the hold
\* in progress, or the end of a replayed tail that begins a sequence.
Disposed(u) ==
    \/ u \in Elements(applied) \cup ignored
    \/ hold # <<>> /\ u \in Elements(hold) \cup Elements(tail)
    \/ u \in Elements(stash) \cap captured

\* Output takes effect once and in the order it was sent, through drains cut short,
\* holds, their replay and requests met inside a replay; and what has not taken effect
\* has one owner.  The arena holds a captured request or a candidate, never both; a
\* hold keeps its limit and meets no model work; a tail without a hold belongs to the
\* open operation, ahead of that operation's own bytes.
OutputOrder ==
    /\ \A i \in DOMAIN applied : i > 1 => Before(applied[i - 1], applied[i])
    /\ hold # <<>> => stash = <<>> /\ ~work /\ Len(tail) <= HoldLimit
    /\ hold = <<>> /\ tail # <<>> => OutputOpen /\ op.phase = "tail"

\* Input reaches the backend after everything its frontier seals took effect, and its
\* replies were written; only a hold still waiting for the host, or the beginning of a
\* sequence whose rest has not come, is left.
InputFollowsOutput ==
    [][op.kind # "write" /\ op'.kind = "write" =>
        /\ replies = <<>> /\ ~work
        /\ tail # <<>> => hold # <<>>
        /\ \A e \in 1..target : \A u \in UnitsOf(e) : Disposed(u) \/ u \in Elements(stash)]_vars

\* Outside a call the frontier of an input is always settled by the drain before it,
\* and the call returns with its command done: no write or settlement waits behind
\* later callbacks.  What is settled (backend_output_settled) has taken effect or is
\* owned by the hold, and nothing of it waits in the model or as a reply.
CallsComplete ==
    /\ gui = "dispatch" /\ call \in {"input", "settle"} => FrontierReady(target)
    /\ Idle => \A i \in DOMAIN pending : pending[i].epoch # 0
    /\ ~OutputOpen =>
         /\ ~work /\ (gui \in {"idle", "drain", "admit"} => replies = <<>>)
         /\ \A e \in 1..processed : \A u \in UnitsOf(e) : Disposed(u)

\* The exit is the last effect: everything sent before it is in the model or ignored,
\* its replies disposed of, no hold, no tail.
ExitIsLast ==
    [][exited' # exited =>
        /\ hold' = <<>> /\ tail = <<>> /\ replies' = <<>> /\ ~work
        /\ \A e \in 1..op.epoch : \A u \in UnitsOf(e) :
             u \in Elements(applied) \cup ignored \cup Elements(stash)]_vars

\* What a callback carries takes effect before what came after it, an input or the exit.
EffectsInOrder == InputFollowsOutput /\ ExitIsLast

\* Every callback settles, unless the output ends inside a sequence whose rest has not
\* come; and every call returns.
CallbacksSettle ==
    /\ \A e \in 1..MaxCallbacks :
         e <= Len(sent) ~> processed >= e \/ stash # <<>>
    /\ gui # "idle" ~> gui = "idle"

\* A hold ends and what it captured is replayed.
HeldOutputReplays == hold # <<>> \/ tail # <<>> ~> hold = <<>> /\ tail = <<>>
===============================================================================
