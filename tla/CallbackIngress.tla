---------------------------- MODULE CallbackIngress ----------------------------
(***************************************************************************)
(* Terminal_session_callback_lifetime: the bounded queue through which the *)
(* backend's threads hand output, errors and the exit to the session, and  *)
(* the barrier that keeps callbacks out of a session being destroyed.      *)
(*                                                                         *)
(* Each method runs under the lifetime's own mutex and is one action.  A   *)
(* callback is three: begin_callback, enqueue, end_callback.  The session  *)
(* takes commands with whatever room its own queues have left, up to the   *)
(* callback epoch an input operation has sealed (a frontier).              *)
(*                                                                         *)
(* Output units are numbered in the order the backend delivers them: one   *)
(* thread at a time and nothing after the exit (PosixPtyOutput).  "error"  *)
(* stands for every callback that is neither output nor exit.  Epochs are  *)
(* 64 bits wide in the code and do not wrap here.                          *)
(***************************************************************************)
EXTENDS Naturals, Sequences, FiniteSets, SequencesExt

CONSTANTS
    HardBytes,      \* hard_limit_bytes of output_queue_limits
    HardCommands,   \* hard_limit_commands
    Coalescing,     \* m_coalesce_output_callbacks
    MaxUnits,       \* bound: output units the backend delivers
    MaxErrors,      \* bound: errors and resize completions it reports
    MaxFrontiers    \* bound: frontiers captured at a time

ASSUME IngressAssumption ==
    /\ HardBytes \in Nat \ {0} /\ HardCommands \in Nat \ {0}
    /\ Coalescing \in BOOLEAN
    /\ MaxUnits \in Nat /\ MaxErrors \in Nat
    /\ MaxFrontiers \in Nat

VARIABLES
    pending,            \* m_pending_commands
    captureFailure,     \* epoch of m_pending_backend_output_capture_failure, or 0
    captureReported,
    bytes, commands,    \* m_pending_callback_queue: what is reserved
    epoch,              \* m_last_enqueued_backend_callback_epoch
    unreserved,         \* epochs of the queued commands that hold no reservation
    overflowReported,
    outputStopped, callbacksStopped,
    exitAfterStop,      \* m_backend_exit_after_stop_enqueued
    frontiers,          \* captured frontiers: an epoch and the units before it
    accepting, active,  \* m_accepting_callbacks, m_active_callbacks
    closer,             \* close(): "open" | "asleep" | "woken" | "closed"
    pc,                 \* [Thread -> "idle" | "begun" | "inside"]
    admitted,           \* [Thread -> begin_callback returned the session]
    produced, errors,   \* callbacks made so far; every unit, each error
    exited,             \* the exit callback was made: "no" | "lost" | "queued"
    accepted,           \* number of units the queue accepted
    taken,              \* units the session took
    reports,            \* what else it took
    ended               \* it took the exit before output was stopped

queue    == <<pending, bytes, commands, epoch, unreserved>>
capture  == <<captureFailure, captureReported>>
stops    == <<overflowReported, outputStopped, callbacksStopped, exitAfterStop>>
barrier  == <<accepting, active, closer>>
threads  == <<pc, admitted>>
source   == <<produced, errors, exited, accepted>>
session  == <<taken, reports, ended>>
vars == <<queue, capture, stops, frontiers, barrier, threads, source, session>>

Thread == {"reader", "waiter"}
Kind   == {"output", "error", "exit", "overflow", "capture"}
Units  == 1..MaxUnits
MaxEpoch == MaxUnits + MaxErrors + 4

Command == [kind : Kind, units : Seq(Units), epoch : 1..MaxEpoch]

TypeOK ==
    /\ pending \in Seq(Command)
    /\ captureFailure \in 0..MaxEpoch /\ captureReported \in BOOLEAN
    /\ bytes \in 0..HardBytes /\ commands \in 0..HardCommands
    /\ epoch \in 0..MaxEpoch /\ unreserved \subseteq 1..MaxEpoch
    /\ {overflowReported, outputStopped, callbacksStopped, exitAfterStop,
        accepting, ended} \subseteq BOOLEAN
    /\ frontiers \in Seq([epoch : 0..MaxEpoch, mark : 0..MaxUnits])
    /\ Len(frontiers) <= MaxFrontiers
    /\ active \in 0..Cardinality(Thread)
    /\ closer \in {"open", "asleep", "woken", "closed"}
    /\ pc \in [Thread -> {"idle", "begun", "inside"}]
    /\ admitted \in [Thread -> BOOLEAN]
    /\ produced \in 0..MaxUnits /\ errors \in 0..MaxErrors
    /\ exited \in {"no", "lost", "queued"}
    /\ accepted \in 0..produced
    /\ taken \in Seq(Units)
    /\ reports \subseteq Kind \ {"output"}

Init ==
    /\ pending = <<>> /\ captureFailure = 0 /\ captureReported = FALSE
    /\ bytes = 0 /\ commands = 0 /\ epoch = 0 /\ unreserved = {}
    /\ overflowReported = FALSE /\ outputStopped = FALSE
    /\ callbacksStopped = FALSE /\ exitAfterStop = FALSE
    /\ frontiers = <<>>
    /\ accepting = TRUE /\ active = 0 /\ closer = "open"
    /\ pc = [t \in Thread |-> "idle"] /\ admitted = [t \in Thread |-> FALSE]
    /\ produced = 0 /\ errors = 0 /\ exited = "no" /\ accepted = 0
    /\ taken = <<>> /\ reports = {} /\ ended = FALSE
-----------------------------------------------------------------------------
(***************************************************************************)
(* begin_callback, end_callback and close().                               *)
(***************************************************************************)
\* The backend has something to call back with.
MayCall(t) ==
    CASE t = "reader" -> exited = "no" /\ produced < MaxUnits
      [] t = "waiter" -> exited = "no" \/ errors < MaxErrors

BeginCallback(t) ==
    /\ pc[t] = "idle" /\ MayCall(t)
    /\ pc' = [pc EXCEPT ![t] = "begun"]
    /\ admitted' = [admitted EXCEPT ![t] = accepting]
    /\ active' = IF accepting THEN active + 1 ELSE active
    /\ UNCHANGED <<queue, capture, stops, frontiers, accepting, closer, source, session>>

EndCallbackSilently(t) ==    \* mutant: the last callback does not wake close()
    /\ pc[t] = "inside"
    /\ pc' = [pc EXCEPT ![t] = "idle"]
    /\ active' = IF admitted[t] THEN active - 1 ELSE active
    /\ UNCHANGED <<queue, capture, stops, frontiers, accepting, closer, admitted, source, session>>

\* The callback leaves the session (pause request, notification) and returns.
EndCallback(t) ==
    /\ pc[t] = "inside"
    /\ pc' = [pc EXCEPT ![t] = "idle"]
    /\ active' = IF admitted[t] THEN active - 1 ELSE active
    /\ closer' = IF closer = "asleep" /\ active' = 0 THEN "woken" ELSE closer
    /\ UNCHANGED <<queue, capture, stops, frontiers, accepting, admitted, source, session>>

CloseWithoutWaiting ==       \* mutant: close() does not wait for callbacks
    /\ closer = "open"
    /\ accepting' = FALSE
    /\ pending' = <<>> /\ captureFailure' = 0
    /\ closer' = "closed"
    /\ UNCHANGED <<bytes, commands, epoch, unreserved, captureReported, stops, frontiers, active,
                   threads, source, session>>

Close ==
    /\ closer = "open"
    /\ accepting' = FALSE
    /\ pending' = <<>> /\ captureFailure' = 0
    /\ closer' = IF active = 0 THEN "closed" ELSE "asleep"
    /\ UNCHANGED <<bytes, commands, epoch, unreserved, captureReported, stops, frontiers, active,
                   threads, source, session>>

CloseWakes ==
    /\ closer = "woken"
    /\ pending' = <<>> /\ captureFailure' = 0
    /\ closer' = IF active = 0 THEN "closed" ELSE "asleep"
    /\ UNCHANGED <<bytes, commands, epoch, unreserved, captureReported, stops, frontiers, accepting,
                   active, threads, source, session>>
-----------------------------------------------------------------------------
(***************************************************************************)
(* enqueue.                                                                *)
(***************************************************************************)
Message(kind, units) == [kind |-> kind, units |-> units, epoch |-> epoch + 1]

\* Bounded_terminal_command_queue::would_accept.
WouldAccept(size, count) ==
    /\ commands + count <= HardCommands
    /\ bytes + size <= HardBytes

\* No captured frontier seals a command with this epoch.
Unsealed(e) == \A f \in DOMAIN frontiers : frontiers[f].epoch < e

MayAppendUnsealed(kind) ==   \* mutant: output joins the back whatever is sealed
    /\ Coalescing /\ kind = "output"
    /\ pending # <<>> /\ Last(pending).kind = "output"

MayAppend(kind) ==
    /\ Coalescing /\ kind = "output"
    /\ pending # <<>> /\ Last(pending).kind = "output"
    /\ Unsealed(Last(pending).epoch)

DropsOutput(p) == FlattenSeq([i \in DOMAIN p |-> IF p[i].kind = "output" THEN <<>> ELSE <<p[i]>>])

UnitsOf(p) == FlattenSeq([i \in DOMAIN p |-> p[i].units])

PendingBytes(p) == Len(UnitsOf(p))

Outputs(p) == Cardinality({i \in DOMAIN p : p[i].kind = "output"})

\* drop_pending_output_locked.
DropPendingOutput ==
    /\ bytes' = bytes - PendingBytes(pending)
    /\ commands' = commands - Outputs(pending)

RefuseAllButOutput(kind) ==    \* mutant: stopped output still comes in
    \/ ~accepting
    \/ callbacksStopped /\ (kind # "exit" \/ exitAfterStop)

\* The callback is taken and dropped without a report to the backend.
Refuse(kind) ==
    \/ ~accepting
    \/ callbacksStopped /\ (kind # "exit" \/ exitAfterStop)
    \/ ~callbacksStopped /\ outputStopped /\ kind = "output"

EnqueueRefused(kind) ==
    /\ Refuse(kind)
    /\ UNCHANGED <<queue, stops, accepted>>

\* enqueue_exit_after_stop_locked: the exit outside the queue's capacity.
EnqueueExitAfterStop(kind) ==
    /\ ~Refuse(kind) /\ callbacksStopped
    /\ pending' = Append(pending, Message(kind, <<>>))
    /\ epoch' = epoch + 1
    /\ unreserved' = unreserved \cup {epoch + 1}
    /\ exitAfterStop' = TRUE
    /\ UNCHANGED <<bytes, commands, overflowReported, outputStopped, callbacksStopped, accepted>>

EnqueueAccepted(kind, units) ==
    LET joined == MayAppend(kind) IN
    /\ ~Refuse(kind) /\ ~callbacksStopped
    /\ WouldAccept(Len(units), IF joined THEN 0 ELSE 1)
    /\ epoch' = epoch + 1
    /\ bytes' = bytes + Len(units)
    /\ commands' = IF joined THEN commands ELSE commands + 1
    /\ pending' =
         IF joined
         THEN [pending EXCEPT ![Len(pending)].units = @ \o units,
                              ![Len(pending)].epoch = epoch + 1]
         ELSE Append(pending, Message(kind, units))
    /\ accepted' = accepted + Len(units)
    /\ UNCHANGED <<unreserved, stops>>

OverflowForgettingExit(kind, units) ==   \* mutant: the command that did not fit is lost
    /\ ~Refuse(kind) /\ ~callbacksStopped
    /\ ~WouldAccept(Len(units), IF MayAppend(kind) THEN 0 ELSE 1)
    /\ outputStopped' = TRUE /\ overflowReported' = TRUE
    /\ callbacksStopped' = (kind # "output")
    /\ DropPendingOutput
    /\ pending' = IF overflowReported THEN DropsOutput(pending)
                  ELSE Append(DropsOutput(pending), Message("overflow", <<>>))
    /\ unreserved' = IF overflowReported THEN unreserved ELSE unreserved \cup {epoch + 1}
    /\ epoch' = IF overflowReported THEN epoch ELSE epoch + 1
    /\ UNCHANGED <<exitAfterStop, accepted>>

\* The hard limit: output stops, what is queued of it is dropped, one fatal
\* error and - when it is what did not fit - the exit go in without a
\* reservation.
EnqueueOverflow(kind, units) ==
    LET reported == ~overflowReported
        exiting  == kind = "exit" /\ ~exitAfterStop
        error    == IF reported THEN <<Message("overflow", <<>>)>> ELSE <<>>
        last     == epoch + Len(error)
        exit     == IF exiting THEN <<[kind |-> kind, units |-> <<>>, epoch |-> last + 1]>> ELSE <<>>
    IN
    /\ ~Refuse(kind) /\ ~callbacksStopped
    /\ ~WouldAccept(Len(units), IF MayAppend(kind) THEN 0 ELSE 1)
    /\ outputStopped' = TRUE /\ overflowReported' = TRUE
    /\ callbacksStopped' = (kind # "output")
    /\ exitAfterStop' = (exitAfterStop \/ exiting)
    /\ DropPendingOutput
    /\ pending' = DropsOutput(pending) \o error \o exit
    /\ epoch' = last + Len(exit)
    /\ unreserved' = unreserved \cup (epoch + 1)..(last + Len(exit))
    /\ UNCHANGED accepted

Enqueue(kind, units) ==
    \/ EnqueueRefused(kind)
    \/ EnqueueExitAfterStop(kind)
    \/ EnqueueAccepted(kind, units)
    \/ EnqueueOverflow(kind, units)

\* A callback without the session enqueues nothing.
Callback(t, kind, units) ==
    /\ pc[t] = "begun"
    /\ pc' = [pc EXCEPT ![t] = "inside"]
    /\ \/ admitted[t] /\ Enqueue(kind, units)
       \/ ~admitted[t] /\ UNCHANGED <<queue, stops, accepted>>
    /\ UNCHANGED <<capture, frontiers, barrier, admitted, session>>

OutputReceived ==
    /\ exited = "no"
    /\ \E n \in 1..(MaxUnits - produced) :
         /\ Callback("reader", "output", [i \in 1..n |-> produced + i])
         /\ produced' = produced + n
    /\ UNCHANGED <<errors, exited>>

ErrorReported ==
    /\ errors < MaxErrors
    /\ Callback("waiter", "error", <<>>)
    /\ errors' = errors + 1
    /\ UNCHANGED <<produced, exited>>

\* The backend reports the exit once, when no output callback is running.
ProcessExited ==
    /\ exited = "no" /\ pc["reader"] = "idle"
    /\ Callback("waiter", "exit", <<>>)
    /\ exited' = IF admitted["waiter"] /\ accepting THEN "queued" ELSE "lost"
    /\ UNCHANGED <<produced, errors>>

\* enqueue_backend_output_capture_failure, from the capture of an output chunk.
CaptureFails ==
    /\ pc["reader"] = "begun" /\ admitted["reader"]
    /\ ~captureReported
    /\ captureFailure' = epoch + 1
    /\ epoch' = epoch + 1
    /\ captureReported' = TRUE
    /\ UNCHANGED <<pending, bytes, commands, unreserved, stops, frontiers, barrier, threads, source, session>>
-----------------------------------------------------------------------------
(***************************************************************************)
(* The session's side.                                                     *)
(***************************************************************************)
\* take_pending_commands first inserts the capture failure by its epoch.
LowerBound ==
    CHOOSE i \in 1..(Len(pending) + 1) :
        /\ i <= Len(pending) => pending[i].epoch >= captureFailure
        /\ \A j \in 1..(i - 1) : pending[j].epoch < captureFailure

CaptureCommand == [kind |-> "capture", units |-> <<>>, epoch |-> captureFailure]

WithCaptureFailure ==
    IF captureFailure = 0 THEN pending ELSE InsertAt(pending, LowerBound, CaptureCommand)

\* The command at i may be taken with those before it: it is not beyond the
\* sealed target and, if output, it fits what the session can still queue.
Fits(p, i, roomBytes, roomCommands, target) ==
    LET first == SubSeq(p, 1, i) IN
    /\ (\E f \in DOMAIN frontiers : frontiers[f].epoch = target) => p[i].epoch <= target
    /\ p[i].kind = "output" =>
         PendingBytes(first) <= roomBytes /\ Outputs(first) <= roomCommands

TakeCount(p, roomBytes, roomCommands, target) ==
    Len(p) - Cardinality({k \in DOMAIN p :
        \E i \in 1..k : ~Fits(p, i, roomBytes, roomCommands, target)})

ReleaseEverything(batch, exempt) ==    \* mutant: unreserved commands are released too
    /\ bytes' = bytes - PendingBytes(batch)
    /\ commands' = IF commands < Len(batch) THEN 0 ELSE commands - Len(batch)

\* The reservations of a batch, the commands that hold none exempted.
ReleaseBatch(batch, exempt) ==
    /\ bytes' = bytes - PendingBytes(batch)
    /\ commands' = commands - Cardinality({i \in DOMAIN batch : batch[i].epoch \notin exempt})

\* take_pending_commands, when k commands fit.
TakePendingCommands(k) ==
    LET p     == WithCaptureFailure
        batch == SubSeq(p, 1, k)
        kinds == {batch[i].kind : i \in DOMAIN batch}
        exempt == unreserved \cup ({captureFailure} \ {0})
    IN
    /\ closer = "open"
    /\ pending' = SubSeq(p, k + 1, Len(p))
    /\ captureFailure' = 0
    /\ unreserved' = exempt \ {batch[i].epoch : i \in DOMAIN batch}
    /\ ReleaseBatch(batch, exempt)
    /\ taken' = taken \o UnitsOf(batch)
    /\ reports' = reports \cup (kinds \ {"output"})
    /\ ended' = (ended \/ ("exit" \in kinds /\ ~outputStopped))
    /\ UNCHANGED <<epoch, captureReported, stops, frontiers, barrier, threads, source>>

CaptureFrontier ==
    /\ closer = "open"
    /\ Len(frontiers) < MaxFrontiers
    /\ frontiers' = Append(frontiers, [epoch |-> epoch, mark |-> accepted])
    /\ UNCHANGED <<queue, capture, stops, barrier, threads, source, session>>

ReleaseFrontier ==
    /\ closer = "open"
    /\ \E i \in DOMAIN frontiers : frontiers' = RemoveAt(frontiers, i)
    /\ UNCHANGED <<queue, capture, stops, barrier, threads, source, session>>

\* stop_backend_output, from handle_output_overflow.
StopBackendOutput ==
    /\ closer = "open" /\ "overflow" \in reports
    /\ outputStopped' = TRUE
    /\ DropPendingOutput
    /\ pending' = DropsOutput(pending)
    /\ UNCHANGED <<epoch, unreserved, capture, overflowReported, callbacksStopped, exitAfterStop,
                   frontiers, barrier, threads, source, session>>
-----------------------------------------------------------------------------
BackendStep(t) == BeginCallback(t) \/ EndCallback(t)

Deliver == OutputReceived \/ ErrorReported \/ ProcessExited

\* A target that is not sealed limits nothing; one stands for all of them.
Targets == {frontiers[i].epoch : i \in DOMAIN frontiers} \cup {MaxEpoch + 1}

\* The drain takes what fits the room the session's own queues happen to have.
Take ==
    \E k \in {TakeCount(WithCaptureFailure, roomBytes, roomCommands, target) :
              roomBytes \in 0..HardBytes, roomCommands \in 0..HardCommands, target \in Targets} :
        TakePendingCommands(k)

SessionStep == Take \/ CaptureFrontier \/ ReleaseFrontier \/ StopBackendOutput

Next ==
    \/ \E t \in Thread : BackendStep(t)
    \/ Deliver \/ CaptureFails
    \/ SessionStep \/ Close \/ CloseWakes

Spec == Init /\ [][Next]_vars

\* A callback that has begun returns, and close() continues once woken.
Fairness ==
    /\ \A t \in Thread : WF_vars(EndCallback(t))
    /\ WF_vars(CloseWakes)
    /\ WF_vars(OutputReceived) /\ WF_vars(ErrorReported \/ ProcessExited)

FairSpec == Spec /\ Fairness
-----------------------------------------------------------------------------
(***************************************************************************)
(* The accounting is exact while callbacks are accepted: the reserved      *)
(* bytes and commands are those of the queued commands that hold a         *)
(* reservation.  release() saturates, so an error here would silently      *)
(* raise or lower the hard limit instead of failing.                       *)
(***************************************************************************)
ReservationsExact ==
    accepting =>
        /\ bytes = PendingBytes(pending)
        /\ commands = Cardinality({i \in DOMAIN pending : pending[i].epoch \notin unreserved})

(***************************************************************************)
(* A captured frontier splits the output: what was queued before it stays  *)
(* at or below its epoch, what comes later stays above it, whatever is     *)
(* coalesced or inserted meanwhile.  Epochs rise strictly along the queue  *)
(* and name one command each: the insertion of the capture failure by      *)
(* binary search, the recognition of unreserved commands and the drain up  *)
(* to an epoch all rest on it.                                             *)
(***************************************************************************)
EpochsRise ==
    /\ \A i \in DOMAIN pending : i > 1 => pending[i - 1].epoch < pending[i].epoch
    /\ pending # <<>> => Last(pending).epoch <= epoch
    /\ captureFailure # 0 => \A i \in DOMAIN pending : pending[i].epoch # captureFailure

FrontierSplits ==
    \A f \in DOMAIN frontiers : \A i \in DOMAIN pending :
        \A n \in Range(pending[i].units) :
            n <= frontiers[f].mark <=> pending[i].epoch <= frontiers[f].epoch

\* The three together: what Terminal_session_callback_lifetime keeps true of its queue
\* (terminal_session.cpp:1837-1898, 1924-2038).
QueueIsSound == ReservationsExact /\ EpochsRise /\ FrontierSplits

(***************************************************************************)
(* A full queue cannot swallow the end of the process: an exit the session *)
(* was there to receive waits in the queue or has been taken.              *)
(***************************************************************************)
ExitSurvives ==
    accepting /\ exited = "queued" =>
        "exit" \in reports \/ \E i \in DOMAIN pending : pending[i].kind = "exit"

(***************************************************************************)
(* Once close() has returned no callback is in the session and none is     *)
(* queued for it, so its members can be destroyed.                         *)
(***************************************************************************)
ClosedIsQuiescent ==
    closer = "closed" =>
        /\ \A t \in Thread : pc[t] # "idle" => ~admitted[t]
        /\ pending = <<>> /\ captureFailure = 0

(***************************************************************************)
(* close() returns once the callbacks in the session do.                   *)
(***************************************************************************)
CloseReturns == (closer # "open") ~> (closer = "closed")

(***************************************************************************)
(* The queue is an output stream for the session: it keeps the order and   *)
(* the end of the backend's stream, and closes it on overflow.             *)
(***************************************************************************)
Stream == INSTANCE OutputStream WITH
    accepted <- [i \in 1..accepted |-> i],
    delivered <- taken,
    closed <- outputStopped \/ ~accepting

ImplementsStream == Stream!Spec
=============================================================================
