--------------------------- MODULE PosixPtyOutput ---------------------------
(***************************************************************************)
(* The output side of Posix_pty_backend::Impl: the reader thread, the      *)
(* waiter thread, the product thread that pauses, resumes, terminates and  *)
(* destroys the backend, and the cleanup worker that shuts it down, around *)
(* the paused-output FIFO of native_backend_io_core.                       *)
(*                                                                         *)
(* Output bytes are the numbers 1..StreamLength in the order the child     *)
(* writes them.  A section under m_mutex is one action; callbacks run      *)
(* outside it, so a delivery is three steps (snapshot, gate, return) that  *)
(* interleave with everything else.  The wake pipe of the writer thread    *)
(* and its input queue are in PtyInput; m_stopping of the failed start     *)
(* paths in BackendStart.                                                  *)
(***************************************************************************)
EXTENDS Naturals, Sequences, FiniteSets

CONSTANTS
    StreamLength,   \* bound: units the child and its descendants may write
    HighWater,      \* high_watermark_bytes of the paused-output FIFO
    DeliveryChunk,  \* delivery_chunk_bytes of one replay
    ReadChunk,      \* read_chunk_bytes of one read
    MaxPauses       \* bound: pauses the session asks for

ASSUME OutputAssumption ==
    /\ StreamLength \in Nat
    /\ HighWater \in Nat \ {0}
    /\ DeliveryChunk \in 1..HighWater
    /\ ReadChunk \in Nat \ {0}
    /\ MaxPauses \in Nat

VARIABLES
    \* the kernel and the processes of the terminal
    written,        \* units written to the slave so far
    pty,            \* units the PTY accepted and the reader has not read
    peers,          \* a process still holds the slave side
    root,           \* "running" | "exited" | "lost" (wait ownership lost)
    admission,      \* the PTY still accepts output (tcflow not issued)
    \* members of Impl guarded by m_mutex
    callbacks,      \* m_callbacks is not empty
    running, stopping, processStopping, childExited, exitReported,
    paused,         \* m_output_paused
    fifo,           \* m_paused_output
    replaying,      \* m_paused_output_delivery_in_progress
    deadline,       \* m_exit_output_drain_deadline: "none" | "armed" | "passed"
    overridden,     \* m_exit_reason_override holds TERMINATED
    readerFinished,
    \* m_output_cv, the reader's wake pipe and the callback gate
    asleep,         \* threads blocked in m_output_cv.wait
    wake,           \* a byte is in the read wake pipe
    accepting,      \* m_callback_gate admits invocations
    \* the threads
    pc,             \* [Thread -> location]
    chunk,          \* [Thread -> units the thread holds in a local]
    caller,         \* [Replayer -> the function its replay belongs to]
    sawDeadline,    \* the reader's local final_drain_deadline has a value
    closed,         \* the reader's local output_admission_closed
    want,           \* the reader's local bytes_to_read
    facade,         \* "alive" | "revoking" | "released" | "shutdown" | "disposed"
    \* what the session received
    backpressure,   \* the session asked for a pause it has not taken back
    pauses,         \* pauses asked for so far
    delivered,      \* units, in the order of the output callbacks
    exit            \* "none" | "exited" | "terminated"

kernel  == <<written, pty, peers, root, admission>>
flags   == <<callbacks, running, stopping, processStopping, childExited, exitReported, overridden>>
replay  == <<paused, fifo, replaying>>
drain   == <<deadline, readerFinished, sawDeadline, closed, want>>
signals == <<asleep, wake>>
gate    == <<accepting, facade>>
stacks  == <<pc, chunk, caller>>
asked   == <<backpressure, pauses>>
output  == <<delivered, exit>>
session == <<asked, output>>
vars == <<kernel, flags, replay, drain, signals, gate, stacks, session>>

Thread   == {"reader", "waiter", "product"}
Replayer == {"waiter", "product"}

Units == 1..StreamLength

TypeOK ==
    /\ written \in 0..StreamLength
    /\ pty \in Seq(Units) /\ fifo \in Seq(Units) /\ delivered \in Seq(Units)
    /\ chunk \in [Thread -> Seq(Units)]
    /\ Len(fifo) <= HighWater
    /\ root \in {"running", "exited", "lost"}
    /\ {peers, admission, callbacks, running, stopping, processStopping, childExited,
        exitReported, overridden, paused, replaying, readerFinished, wake,
        accepting, sawDeadline, closed} \subseteq BOOLEAN
    /\ deadline \in {"none", "armed", "passed"}
    /\ asleep \subseteq {"reader", "waiter"}
    /\ want \in 0..ReadChunk
    /\ backpressure \in BOOLEAN /\ pauses \in 0..MaxPauses
    /\ pc \in [Thread -> {"idle", "park", "check", "poll", "admit", "snapshot", "enter",
                          "callback", "finish", "break", "waitRoot", "waitReader", "window",
                          "drain", "report", "exitSnapshot", "enterExit", "settle", "stop",
                          "done"}]
    /\ caller \in [Replayer -> {"none", "resume", "terminate", "rootExit", "drain"}]
    /\ facade \in {"alive", "revoking", "released", "shutdown", "disposed"}
    /\ exit \in {"none", "exited", "terminated"}

\* The state start() leaves behind: flags reset, workers past the startup gate.
Init ==
    /\ written = 0 /\ pty = <<>> /\ peers = TRUE /\ root = "running" /\ admission = TRUE
    /\ callbacks = TRUE /\ running = TRUE /\ stopping = FALSE /\ processStopping = FALSE
    /\ childExited = FALSE /\ exitReported = FALSE /\ overridden = FALSE
    /\ paused = FALSE /\ fifo = <<>> /\ replaying = FALSE
    /\ deadline = "none" /\ readerFinished = FALSE /\ sawDeadline = FALSE /\ closed = FALSE
    /\ want = 0 /\ backpressure = FALSE /\ pauses = 0
    /\ asleep = {} /\ wake = FALSE
    /\ accepting = TRUE /\ facade = "alive"
    /\ pc = [t \in Thread |-> CASE t = "reader" -> "park" [] t = "waiter" -> "waitRoot"
                                [] t = "product" -> "idle"]
    /\ chunk = [t \in Thread |-> <<>>]
    /\ caller = [t \in Replayer |-> "none"]
    /\ delivered = <<>> /\ exit = "none"
-----------------------------------------------------------------------------
(***************************************************************************)
(* Helpers.                                                                *)
(***************************************************************************)
Smaller(a, b) == IF a < b THEN a ELSE b

Goto(t, l) == pc' = [pc EXCEPT ![t] = l]

\* m_output_cv.notify_all and wake_io_threads; a full pipe stays one wake-up.
NotifyOutput == asleep' = {}
WakeIo == wake' = TRUE

ReplayStopOfWindows == stopping    \* mutant: the other backend's predicate

\* The stop predicate of this backend's replays.
ReplayStop == processStopping \/ stopping

ReplayHead == SubSeq(fifo, 1, Smaller(Len(fifo), DeliveryChunk))
ReplayRest == SubSeq(fifo, Smaller(Len(fifo), DeliveryChunk) + 1, Len(fifo))

TakeConcurrently(t, function) ==   \* mutant: a replay in progress is not seen
    /\ fifo # <<>>
    /\ fifo' = ReplayRest
    /\ replaying' = TRUE
    /\ chunk' = [chunk EXCEPT ![t] = ReplayHead]
    /\ caller' = [caller EXCEPT ![t] = function]
    /\ Goto(t, "snapshot")

\* take_native_backend_paused_output_for_delivery_locked, then on to deliver.
Take(t, function) ==
    /\ ~replaying /\ fifo # <<>>
    /\ fifo' = ReplayRest
    /\ replaying' = TRUE
    /\ chunk' = [chunk EXCEPT ![t] = ReplayHead]
    /\ caller' = [caller EXCEPT ![t] = function]
    /\ Goto(t, "snapshot")

SkipTakeAlways(t, next) ==     \* mutant: the stop does not flush the FIFO
    /\ UNCHANGED <<fifo, replaying, chunk, caller>>
    /\ Goto(t, next)

\* Nothing to take: the thread goes straight to what follows its replay.
SkipTake(t, next) ==
    /\ replaying \/ fifo = <<>>
    /\ UNCHANGED <<fifo, replaying, chunk, caller>>
    /\ Goto(t, next)
-----------------------------------------------------------------------------
(***************************************************************************)
(* The kernel and the processes of the terminal (external).                *)
(***************************************************************************)
ChildWrites ==
    /\ peers /\ admission
    /\ written < StreamLength
    /\ written' = written + 1
    /\ pty' = Append(pty, written + 1)
    /\ UNCHANGED <<peers, root, admission, flags, replay, drain, signals, gate, stacks, session>>

\* The root exits, or the process owner loses its wait observation.  A
\* detached descendant may keep the slave open.
RootEnds ==
    /\ root = "running"
    /\ root' \in {"exited", "lost"}
    /\ peers' \in BOOLEAN
    /\ UNCHANGED <<written, pty, admission, flags, replay, drain, signals, gate, stacks, session>>

DescendantsClose ==
    /\ root # "running" /\ peers
    /\ peers' = FALSE
    /\ UNCHANGED <<written, pty, root, admission, flags, replay, drain, signals, gate, stacks, session>>

\* The steady clock reaches the deadline the waiter published.
DeadlinePasses ==
    /\ deadline = "armed"
    /\ deadline' = "passed"
    /\ UNCHANGED <<kernel, flags, replay, readerFinished, sawDeadline, closed, want, signals, gate, stacks, session>>
-----------------------------------------------------------------------------
(***************************************************************************)
(* Delivering one chunk: deliver_native_backend_output_with_snapshot       *)
(* copies m_callbacks under the lock, the guarded copy enters the gate,    *)
(* the callback runs and returns.  The reader has copied its snapshot in   *)
(* the section that decided to deliver directly.                           *)
(***************************************************************************)
AfterCallback(t) ==
    CASE t = "reader" -> "park"
      [] t # "reader" /\ caller[t] = "none" -> "settle"    \* the exit callback
      [] OTHER -> "finish"

SnapshotCallbacks(t) ==
    /\ pc[t] = "snapshot"
    /\ \/ callbacks /\ Goto(t, "enter") /\ UNCHANGED chunk
       \/ ~callbacks /\ Goto(t, "finish") /\ chunk' = [chunk EXCEPT ![t] = <<>>]
    /\ UNCHANGED <<kernel, flags, replay, drain, signals, gate, caller, session>>

EnterCallbackUngated(t) ==     \* mutant: the snapshot counts as admission
    /\ pc[t] = "enter"
    /\ chunk' = [chunk EXCEPT ![t] = <<>>]
    /\ delivered' = delivered \o chunk[t] /\ Goto(t, "callback")
    /\ UNCHANGED <<kernel, flags, replay, drain, signals, gate, caller, asked, exit>>

EnterCallback(t) ==
    /\ pc[t] = "enter"
    /\ chunk' = [chunk EXCEPT ![t] = <<>>]
    /\ \/ accepting /\ delivered' = delivered \o chunk[t] /\ Goto(t, "callback")
       \/ ~accepting /\ UNCHANGED delivered /\ Goto(t, AfterCallback(t))
    /\ UNCHANGED <<kernel, flags, replay, drain, signals, gate, caller, asked, exit>>

\* The session's output_received returns.  The product thread stays in it
\* while it destroys the backend from there.
CallbackReturns(t) ==
    /\ pc[t] = "callback"
    /\ t = "product" => facade # "revoking"
    /\ Goto(t, AfterCallback(t))
    /\ UNCHANGED <<kernel, flags, replay, drain, signals, gate, chunk, caller, session>>

\* One round of finish_native_backend_paused_output_delivery: the next chunk,
\* or the end of the replay with its wake-ups.
ContinueReplay(t) ==
    /\ pc[t] = "finish"
    /\ ~paused \/ ReplayStop
    /\ fifo # <<>>
    /\ fifo' = ReplayRest
    /\ chunk' = [chunk EXCEPT ![t] = ReplayHead]
    /\ Goto(t, "snapshot")
    /\ UNCHANGED <<kernel, flags, paused, replaying, drain, signals, gate, caller, session>>

AfterReplay(t) ==
    CASE caller[t] = "resume"    -> "idle"
      [] caller[t] = "terminate" -> "stop"
      [] caller[t] = "rootExit"  -> "waitReader"
      [] caller[t] = "drain"     -> "drain"

EndReplaySilently(t) ==     \* mutant: the replay ends without waking the reader
    /\ pc[t] = "finish"
    /\ (paused /\ ~ReplayStop) \/ fifo = <<>>
    /\ replaying' = FALSE
    /\ Goto(t, AfterReplay(t))
    /\ caller' = [caller EXCEPT ![t] = "none"]
    /\ UNCHANGED <<kernel, flags, paused, fifo, drain, signals, gate, chunk, session>>

EndReplay(t) ==
    /\ pc[t] = "finish"
    /\ (paused /\ ~ReplayStop) \/ fifo = <<>>
    /\ replaying' = FALSE
    /\ NotifyOutput /\ WakeIo
    /\ Goto(t, AfterReplay(t))
    /\ caller' = [caller EXCEPT ![t] = "none"]
    /\ UNCHANGED <<kernel, flags, paused, fifo, drain, gate, chunk, session>>
-----------------------------------------------------------------------------
(***************************************************************************)
(* The product thread: set_output_paused, terminate, the destructor.       *)
(***************************************************************************)
SetOutputPaused(value) ==
    /\ facade = "alive" /\ pc["product"] = "idle"
    /\ IF value THEN pauses < MaxPauses ELSE backpressure
    /\ backpressure' = value
    /\ pauses' = IF value THEN pauses + 1 ELSE pauses
    /\ paused' = (value /\ ~ReplayStop)
    /\ \/ ~paused' /\ Take("product", "resume") /\ UNCHANGED signals
       \/ /\ paused' \/ replaying \/ fifo = <<>>
          /\ IF ~value \/ ReplayStop THEN NotifyOutput /\ WakeIo ELSE UNCHANGED signals
          /\ UNCHANGED <<fifo, replaying, stacks>>
    /\ UNCHANGED <<kernel, flags, drain, gate, output>>

\* Backpressure: the session asks for a pause from inside its output callback,
\* on whatever thread delivers.  It never has a FIFO to take there (OneReplay).
PauseFromCallback(t) ==
    /\ facade = "alive" /\ pc[t] = "callback" /\ exit = "none"
    /\ pauses < MaxPauses
    /\ backpressure' = TRUE
    /\ pauses' = pauses + 1
    /\ paused' = ~ReplayStop
    /\ IF ReplayStop THEN NotifyOutput /\ WakeIo ELSE UNCHANGED signals
    /\ UNCHANGED <<kernel, flags, fifo, replaying, drain, gate, stacks, output>>

Terminate ==
    /\ facade = "alive" /\ pc["product"] = "idle"
    /\ running /\ ~processStopping /\ ~stopping
    /\ processStopping' = TRUE
    /\ paused' = FALSE
    /\ overridden' = TRUE
    /\ Take("product", "terminate") \/ SkipTake("product", "stop")
    /\ NotifyOutput /\ WakeIo
    /\ UNCHANGED <<kernel, callbacks, running, stopping, childExited, exitReported, drain, gate, session>>

\* m_owner->stop signals the process tree and reports back; the root's end is
\* seen by the waiter only.
StopReturns ==
    /\ pc["product"] = "stop"
    /\ Goto("product", "idle")
    /\ UNCHANGED <<kernel, flags, replay, drain, signals, gate, chunk, caller, session>>

\* ~Posix_pty_backend, also from inside a callback on the product thread:
\* revoke_callbacks clears the callbacks, wakes everyone and closes the gate.
Destroy ==
    /\ facade = "alive" /\ pc["product"] \in {"idle", "callback"}
    /\ facade' = "revoking"
    /\ stopping' = TRUE /\ paused' = FALSE /\ callbacks' = FALSE
    /\ accepting' = FALSE
    /\ NotifyOutput /\ WakeIo
    /\ UNCHANGED <<kernel, running, processStopping, childExited, exitReported, overridden,
                   fifo, replaying, drain, stacks, session>>

HandOverAfterAll ==      \* mutant: the drain counts the revoker's own callback
    /\ facade = "revoking"
    /\ \A t \in Thread : pc[t] # "callback"
    /\ facade' = "released"
    /\ UNCHANGED <<kernel, flags, replay, drain, signals, accepting, stacks, session>>

\* revoke_and_drain returns when only the caller's own invocation is left, and
\* the reservation is released to the cleanup worker.
HandOver ==
    /\ facade = "revoking"
    /\ \A t \in Thread \ {"product"} : pc[t] # "callback"
    /\ facade' = "released"
    /\ UNCHANGED <<kernel, flags, replay, drain, signals, accepting, stacks, session>>

\* The cleanup worker waits for public calls to unwind, then shutdown().  Its
\* owner.stop(0, 0) kills what is left of the process tree.
Shutdown ==
    /\ facade = "released" /\ pc["product"] = "idle"
    /\ stopping' = TRUE /\ processStopping' = TRUE /\ paused' = FALSE /\ replaying' = FALSE
    /\ callbacks' = FALSE
    /\ root' \in (IF root = "running" THEN {"exited", "lost"} ELSE {root})
    /\ facade' = "shutdown"
    /\ NotifyOutput /\ WakeIo
    /\ UNCHANGED <<written, pty, peers, admission, running, childExited, exitReported, overridden,
                   fifo, drain, accepting, stacks, session>>

\* The workers are joined, the descriptors closed, the Impl deleted.
Dispose ==
    /\ facade = "shutdown"
    /\ pc["reader"] = "done" /\ pc["waiter"] = "done"
    /\ facade' = "disposed"
    /\ running' = FALSE
    /\ UNCHANGED <<kernel, callbacks, stopping, processStopping, childExited, exitReported,
                   overridden, replay, drain, signals, accepting, stacks, session>>
-----------------------------------------------------------------------------
(***************************************************************************)
(* The reader thread: read_loop and deliver_or_buffer_output.              *)
(***************************************************************************)
ReaderMayProceed ==
    ~replaying /\ ((~paused /\ fifo = <<>>) \/ Len(fifo) < HighWater)

\* The top of the loop, under the lock: leave, latch the deadline and the
\* size of the next read, or wait.
Park ==
    /\ pc["reader"] = "park" /\ "reader" \notin asleep
    /\ \/ stopping /\ Goto("reader", "break") /\ UNCHANGED <<asleep, sawDeadline, want>>
       \/ /\ ~stopping /\ ReaderMayProceed
          /\ sawDeadline' = (deadline # "none")
          /\ want' = IF (paused \/ fifo # <<>>) /\ Len(fifo) < HighWater
                        THEN Smaller(ReadChunk, HighWater - Len(fifo)) ELSE ReadChunk
          /\ Goto("reader", "check")
          /\ UNCHANGED asleep
       \/ /\ ~stopping /\ ~ReaderMayProceed
          /\ asleep' = asleep \cup {"reader"}
          /\ UNCHANGED <<pc, sawDeadline, want>>
    /\ UNCHANGED <<kernel, flags, replay, deadline, readerFinished, closed, wake, gate, chunk, caller, session>>

DeadlineSeen == sawDeadline /\ deadline = "passed"

\* Past the deadline the reader stops the slave's output once, then drains
\* the prefix the PTY has accepted.
CheckDeadline ==
    /\ pc["reader"] = "check"
    /\ IF ~closed /\ DeadlineSeen
         THEN admission' = FALSE /\ closed' = TRUE
         ELSE UNCHANGED <<admission, closed>>
    /\ Goto("reader", "poll")
    /\ UNCHANGED <<written, pty, peers, root, flags, replay, deadline, readerFinished, sawDeadline,
                   want, signals, gate, chunk, caller, session>>

\* poll reports the wake pipe: drain it and look at the flags again.
PollWake ==
    /\ pc["reader"] = "poll" /\ wake
    /\ wake' = FALSE
    /\ Goto("reader", "park")
    /\ UNCHANGED <<kernel, flags, replay, drain, asleep, gate, chunk, caller, session>>

\* poll times out, or output gets ready, as the deadline passes.
PollDeadline ==
    /\ pc["reader"] = "poll" /\ ~wake /\ ~closed /\ DeadlineSeen
    /\ Goto("reader", "park")
    /\ UNCHANGED <<kernel, flags, replay, drain, signals, gate, chunk, caller, session>>

\* poll reports output; the read returns some of it.
ReadOutput ==
    /\ pc["reader"] = "poll" /\ ~wake /\ (closed \/ ~DeadlineSeen)
    /\ \E n \in 1..Smaller(want, Len(pty)) :
         /\ chunk' = [chunk EXCEPT !["reader"] = SubSeq(pty, 1, n)]
         /\ pty' = SubSeq(pty, n + 1, Len(pty))
    /\ Goto("reader", "admit")
    /\ UNCHANGED <<written, peers, root, admission, flags, replay, drain, signals, gate, caller, session>>

\* End of file, or the drained prefix of a closed PTY: leave the loop.  A poll,
\* read or tcflow error leaves it too and abandons what the PTY holds.
LeaveReadLoop ==
    /\ pc["reader"] \in {"check", "poll"}
    /\ Goto("reader", "break")
    /\ UNCHANGED <<kernel, flags, replay, drain, signals, gate, chunk, caller, session>>

OutputEnds ==
    /\ pc["reader"] = "poll" /\ ~wake /\ pty = <<>>
    /\ closed \/ (~peers /\ ~DeadlineSeen)
    /\ LeaveReadLoop

\* deliver_or_buffer_native_backend_output, the section under the lock.
OutputPending == paused \/ replaying \/ fifo # <<>>

CanBuffer == Len(fifo) + Len(chunk["reader"]) <= HighWater

Admit ==
    /\ pc["reader"] = "admit" /\ "reader" \notin asleep
    /\ \/ /\ stopping
          /\ chunk' = [chunk EXCEPT !["reader"] = <<>>]
          /\ Goto("reader", "park")
          /\ UNCHANGED <<fifo, asleep>>
       \/ /\ ~stopping /\ OutputPending /\ CanBuffer
          /\ fifo' = fifo \o chunk["reader"]
          /\ chunk' = [chunk EXCEPT !["reader"] = <<>>]
          /\ Goto("reader", "park")
          /\ UNCHANGED asleep
       \/ /\ ~stopping /\ OutputPending /\ ~CanBuffer
          /\ asleep' = asleep \cup {"reader"}
          /\ UNCHANGED <<fifo, chunk, pc>>
       \/ /\ ~stopping /\ ~OutputPending
          /\ Goto("reader", "enter")
          /\ UNCHANGED <<fifo, chunk, asleep>>
    /\ UNCHANGED <<kernel, flags, paused, replaying, drain, wake, gate, caller, session>>

FinishReading ==
    /\ pc["reader"] = "break"
    /\ readerFinished' = TRUE
    /\ Goto("reader", "done")
    /\ UNCHANGED <<kernel, flags, replay, deadline, sawDeadline, closed, want, signals, gate, chunk, caller, session>>
-----------------------------------------------------------------------------
(***************************************************************************)
(* The waiter thread: wait_loop, the final drain and report_exit_once.     *)
(***************************************************************************)
\* wait_root returned: publish the deadline and the stop before anything that
\* can block.  A lost observation does the same without confirming an exit.
ObserveRoot ==
    /\ pc["waiter"] = "waitRoot" /\ root # "running"
    /\ deadline' = "armed"
    /\ childExited' = (root = "exited")
    /\ processStopping' = TRUE
    /\ paused' = FALSE
    /\ Take("waiter", "rootExit") \/ SkipTake("waiter", "waitReader")
    /\ NotifyOutput /\ WakeIo
    /\ UNCHANGED <<kernel, callbacks, running, stopping, exitReported, overridden,
                   readerFinished, sawDeadline, closed, want, gate, session>>

ReaderSeenFinished ==
    /\ pc["waiter"] = "waitReader" /\ readerFinished
    /\ Goto("waiter", IF root = "exited" THEN "window" ELSE "drain")
    /\ UNCHANGED <<kernel, flags, replay, drain, signals, gate, chunk, caller, session>>

\* wait_out_exit_drain_window.
WindowEnds ==
    /\ pc["waiter"] = "window"
    /\ deadline = "passed" \/ stopping
    /\ Goto("waiter", "drain")
    /\ UNCHANGED <<kernel, flags, replay, drain, signals, gate, chunk, caller, session>>

\* drain_native_backend_paused_output_before_exit_report.
MayDrain == ~replaying /\ (fifo = <<>> \/ ~paused \/ ReplayStop)

DrainIgnoringReplay ==    \* mutant: a replay in progress does not hold the exit back
    /\ pc["waiter"] = "drain"
    /\ fifo = <<>>
    /\ Goto("waiter", IF root = "exited" THEN "report" ELSE "done")
    /\ UNCHANGED <<kernel, flags, replay, drain, signals, gate, chunk, caller, session>>

DrainBeforeExit ==
    /\ pc["waiter"] = "drain" /\ "waiter" \notin asleep
    /\ \/ ~MayDrain /\ asleep' = asleep \cup {"waiter"} /\ UNCHANGED <<fifo, replaying, stacks>>
       \/ MayDrain /\ Take("waiter", "drain") /\ UNCHANGED asleep
       \/ /\ MayDrain /\ fifo = <<>>
          /\ Goto("waiter", IF root = "exited" THEN "report" ELSE "done")
          /\ UNCHANGED <<fifo, replaying, chunk, caller, asleep>>
    /\ UNCHANGED <<kernel, flags, paused, drain, wake, gate, session>>

\* report_exit_once: the once-section, then a fresh callback snapshot.
ReportExit ==
    /\ pc["waiter"] = "report"
    /\ exitReported' = TRUE /\ running' = FALSE /\ stopping' = TRUE /\ paused' = FALSE
    /\ processStopping' = TRUE
    /\ NotifyOutput /\ WakeIo
    /\ Goto("waiter", "exitSnapshot")
    /\ UNCHANGED <<kernel, callbacks, childExited, overridden, fifo, replaying, drain, gate,
                   chunk, caller, session>>

SnapshotExitCallback ==
    /\ pc["waiter"] = "exitSnapshot"
    /\ Goto("waiter", IF callbacks THEN "enterExit" ELSE "settle")
    /\ UNCHANGED <<kernel, flags, replay, drain, signals, gate, chunk, caller, session>>

EnterExitCallback ==
    /\ pc["waiter"] = "enterExit"
    /\ \/ /\ accepting
          /\ exit' = IF overridden THEN "terminated" ELSE "exited"
          /\ Goto("waiter", "callback")
       \/ ~accepting /\ UNCHANGED exit /\ Goto("waiter", "settle")
    /\ UNCHANGED <<kernel, flags, replay, drain, signals, gate, chunk, caller, asked, delivered>>

\* m_owner->finish() keeps the remaining native obligations.
Settle ==
    /\ pc["waiter"] = "settle"
    /\ Goto("waiter", "done")
    /\ UNCHANGED <<kernel, flags, replay, drain, signals, gate, chunk, caller, session>>
-----------------------------------------------------------------------------
ReplayStep(t) == SnapshotCallbacks(t) \/ ContinueReplay(t) \/ EndReplay(t)

DeliveryStep(t) == EnterCallback(t) \/ CallbackReturns(t)

ReaderStep ==
    Park \/ CheckDeadline \/ PollWake \/ PollDeadline \/ ReadOutput \/ OutputEnds
    \/ Admit \/ FinishReading \/ DeliveryStep("reader")

WaiterStep ==
    ObserveRoot \/ ReaderSeenFinished \/ WindowEnds \/ DrainBeforeExit \/ ReportExit
    \/ SnapshotExitCallback \/ EnterExitCallback \/ Settle
    \/ ReplayStep("waiter") \/ DeliveryStep("waiter")

ProductStep == StopReturns \/ ReplayStep("product") \/ DeliveryStep("product")

CleanupStep == HandOver \/ Shutdown \/ Dispose

Next ==
    \/ ChildWrites \/ RootEnds \/ DescendantsClose \/ DeadlinePasses
    \/ \E value \in BOOLEAN : SetOutputPaused(value)
    \/ \E t \in Thread : PauseFromCallback(t)
    \/ Terminate \/ Destroy
    \/ LeaveReadLoop
    \/ ReaderStep \/ WaiterStep \/ ProductStep \/ CleanupStep

Spec == Init /\ [][Next]_vars

(***************************************************************************)
(* The threads of the backend run, a callback the product thread is in     *)
(* returns, and the clock advances.  The child, its descendants and the    *)
(* session owe nothing: no write, exit, resume or terminate is fair.       *)
(***************************************************************************)
Fairness ==
    /\ WF_vars(ReaderStep) /\ WF_vars(WaiterStep) /\ WF_vars(ProductStep)
    /\ WF_vars(CleanupStep) /\ WF_vars(DeadlinePasses)

FairSpec == Spec /\ Fairness
-----------------------------------------------------------------------------
(***************************************************************************)
(* A backend that is not destroyed reports the exit its waiter observes,   *)
(* even if descendants keep the terminal open silently, the session never  *)
(* resumes, or a pause comes in during the final drain.                    *)
(***************************************************************************)
ExitIsReported == (root = "exited") ~> (exit # "none" \/ facade # "alive")

(***************************************************************************)
(* Destruction ends: the gate drains, the public calls unwind, every       *)
(* worker leaves its waits and the implementation is deleted.              *)
(***************************************************************************)
DestructionEnds == (facade = "revoking") ~> (facade = "disposed")

(***************************************************************************)
(* No worker waits for ever: a backend reports its exit or is disposed of. *)
(***************************************************************************)
WorkersFinish == ExitIsReported /\ DestructionEnds

(***************************************************************************)
(* What the child has written reaches the session once the session stops   *)
(* asking for pauses and while the reader reads: no resume, replay or exit *)
(* leaves the reader asleep with nobody to wake it.                        *)
(***************************************************************************)
Reading == pc["reader"] \notin {"break", "done"}

ResumedOutputArrives ==
    <>[](~paused /\ facade = "alive" /\ Reading) =>
        \A n \in Units : (written >= n) ~> (Len(delivered) >= n)

(***************************************************************************)
(* The backend implements the output stream it promises the session: what  *)
(* the reader has taken is accepted, the callbacks deliver it in order,    *)
(* whoever carries it - the reader, a resume, a terminate or the final     *)
(* drain -, the exit ends it when none is left in the paused FIFO or in a  *)
(* thread's hands, and the revoked gate closes it.                         *)
(***************************************************************************)
Stream == INSTANCE OutputStream WITH
    accepted <- [i \in 1..(written - Len(pty)) |-> i],
    ended <- exit # "none",
    closed <- ~accepting

ImplementsStream == Stream!Spec
=============================================================================
