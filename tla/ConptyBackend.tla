----------------------------- MODULE ConptyBackend -----------------------------
(***************************************************************************)
(* The Windows backend after start has returned: the writer and its         *)
(* interrupts, the resize worker, the waiter that closes the pseudoconsole  *)
(* and reports the exit with its reason.  Sections under m_mutex are one    *)
(* action; what a thread does between two of them (WriteFile, ReadFile,     *)
(* ResizePseudoConsole, ClosePseudoConsole) is a step of its own.  The      *)
(* paused-output FIFO is the code PosixPtyOutput models: here the reader    *)
(* only reads, or may be parked behind a pause.                             *)
(***************************************************************************)
EXTENDS Integers, Sequences, SequencesExt

CONSTANTS
    Grids,          \* the grid sizes asked for
    FirstGrid,      \* the grid the process is started with
    MaxCalls        \* bound: writes and interrupts asked for, resizes with them

ASSUME ConptyAssumption == FirstGrid \in Grids /\ MaxCalls \in Nat

VARIABLES
    running, stopping,      \* m_running, m_stopping
    paused,                 \* m_output_paused
    override,               \* m_exit_reason_override
    exit,                   \* the reason reported, once m_exit_reported
    queue,                  \* m_write_queue
    interrupts,             \* m_pending_interrupt_writes
    writerFailed,           \* m_writer_failed; m_input_write is reset with it
    byCode,                 \* m_interrupt_delivery_exit_code_pending
    answerable,             \* m_interrupt_clear_waits_for_output
    writer,                 \* the writer: place, write in hand, output seen since it was taken
    reader,                 \* the reader's place
    waiter,                 \* the waiter's place
    slot,                   \* m_queued_resize
    worker,                 \* the resize worker: place, request in hand, its result, stop seen
    conpty,                 \* the pseudoconsole
    child,                  \* the child lives
    native,                 \* the pseudoconsole's grid
    callbacks,              \* completions and the exit, handed to the session in order
    asked, reached          \* writes asked for; an interrupt has reached the pipe

None == [id |-> 0, grid |-> FirstGrid]
Completion(req, ok, superseded) ==
    [kind |-> "resize", id |-> req.id, grid |-> req.grid, ok |-> ok, superseded |-> superseded]
ExitCallback == [kind |-> "exit"]

\* A thread with nothing in hand.
WriterAt(place) == [at |-> place, item |-> "input", seen |-> FALSE]
WorkerAt(place) == [at |-> place, req |-> None, ok |-> TRUE, stopped |-> FALSE]

flags == <<running, stopping, paused>>
reasons == <<override, exit>>
input == <<queue, interrupts, writerFailed, byCode, answerable, writer, asked, reached>>
resizing == <<slot, worker, native>>
ending == <<reader, waiter, conpty, child>>
backend == <<flags, reasons, input, resizing, ending, callbacks>>

BackendInit ==
    /\ running = TRUE /\ stopping = FALSE /\ paused = FALSE
    /\ override = "none" /\ exit = "none"
    /\ queue = <<>> /\ interrupts = 0 /\ writerFailed = FALSE
    /\ byCode = FALSE /\ answerable = FALSE
    /\ writer = WriterAt("wait")
    /\ asked = 0 /\ reached = FALSE
    /\ reader = "read" /\ waiter = "wait"
    /\ conpty = "open" /\ child = "alive"
    /\ slot = None /\ native = FirstGrid
    /\ worker = WorkerAt("wait")
    /\ callbacks = <<>>
-------------------------------------------------------------------------------
(***************************************************************************)
(* The session's calls.                                                    *)
(***************************************************************************)
Ready == running /\ ~stopping
Writable == Ready /\ ~writerFailed

Ask(item) ==
    /\ Writable
    /\ asked' = asked + 1
    /\ queue' = Append(queue, item)
    /\ UNCHANGED <<flags, reasons, writerFailed, byCode, answerable, writer, reached,
                   resizing, ending, callbacks>>

Write == Ask("input") /\ UNCHANGED interrupts
Interrupt == Ask("interrupt") /\ interrupts' = interrupts + 1

SetOutputPaused(on) ==                                      \* set_output_paused
    /\ paused' = (on /\ ~stopping)
    /\ UNCHANGED <<running, stopping, reasons, input, resizing, ending, callbacks>>

QueueWhenIdle(req) ==       \* mutant: a request that waits is not replaced
    /\ slot' = IF slot = None THEN req ELSE slot
    /\ UNCHANGED <<flags, reasons, input, worker, native, ending, callbacks>>

\* dispatch_resize, when it accepts: it replaces the request that waits.  What
\* it then reports of that one it reports outside the mutex.
Queue(req) ==
    /\ slot' = req
    /\ UNCHANGED <<flags, reasons, input, worker, native, ending, callbacks>>

\* report_resize_completion on the session's own thread.
ReportInline(req) ==
    /\ callbacks' = Append(callbacks, Completion(req, TRUE, TRUE))
    /\ UNCHANGED <<flags, reasons, input, resizing, ending>>

\* terminate, when it accepts.
Terminate ==
    /\ stopping' = TRUE /\ paused' = FALSE
    /\ override' = "terminated"
    /\ slot' = None
    /\ UNCHANGED <<running, exit, input, worker, native, ending, callbacks>>
-------------------------------------------------------------------------------
(***************************************************************************)
(* write_loop.                                                             *)
(***************************************************************************)
writing == <<flags, exit, resizing, ending, callbacks, asked>>

TakeWrite ==
    /\ writer.at = "wait" /\ (stopping \/ queue # <<>>)
    /\ IF stopping THEN writer' = WriterAt("done") /\ UNCHANGED queue
       ELSE /\ writer' = [at |-> IF Head(queue) = "interrupt" THEN "start" ELSE "write",
                          item |-> Head(queue), seen |-> FALSE]
            /\ queue' = Tail(queue)
    /\ UNCHANGED <<writing, override, interrupts, writerFailed, byCode, answerable, reached>>

MarkStartedAnyway ==        \* mutant: whatever has stopped meanwhile
    /\ writer.at = "start"
    /\ writer' = [writer EXCEPT !.at = "write"]
    /\ override' = "interrupted"
    /\ UNCHANGED <<writing, queue, interrupts, writerFailed, byCode, answerable, reached>>

MarkStarted ==                                  \* mark_interrupt_write_started
    /\ writer.at = "start"
    /\ writer' = [writer EXCEPT !.at = "write"]
    /\ override' = IF ~stopping /\ exit = "none" THEN "interrupted" ELSE override
    /\ UNCHANGED <<writing, queue, interrupts, writerFailed, byCode, answerable, reached>>

CheckWritable ==                                \* write_all, before WriteFile
    /\ writer.at = "write"
    /\ writer' = [writer EXCEPT !.at = IF stopping THEN "failed" ELSE "file"]
    /\ UNCHANGED <<writing, override, queue, interrupts, writerFailed, byCode, answerable,
                   reached>>

WriteFile == \E ok \in BOOLEAN :
    /\ writer.at = "file"
    /\ writer' = [writer EXCEPT !.at = IF ok THEN "written" ELSE "failed"]
    /\ reached' = (reached \/ (ok /\ writer.item = "interrupt"))
    /\ UNCHANGED <<writing, override, queue, interrupts, writerFailed, byCode, answerable>>

IsInterrupt == writer.item = "interrupt"
Fewer == IF interrupts > 0 THEN interrupts - 1 ELSE 0
Reset == IF exit = "none" /\ override = "interrupted" THEN "none" ELSE override

MarkFailedOnly ==           \* mutant: the override is cleared in no section of the failure
    /\ writer.at = "failed"
    /\ writer' = WriterAt("done")
    /\ writerFailed' = (writerFailed \/ ~stopping)
    /\ interrupts' = IF IsInterrupt THEN Fewer ELSE interrupts
    /\ UNCHANGED <<writing, override, queue, byCode, answerable, reached>>

MarkWriterFailed ==                             \* mark_writer_failed_after_write_failure
    /\ writer.at = "failed"
    /\ writer' = WriterAt("done")
    /\ writerFailed' = (writerFailed \/ ~stopping)
    /\ interrupts' = IF IsInterrupt THEN Fewer ELSE interrupts
    /\ override' = IF IsInterrupt THEN Reset ELSE override
    /\ UNCHANGED <<writing, queue, byCode, answerable, reached>>

MarkInterruptDelivered ==
    /\ writer.at = "written" /\ IsInterrupt
    /\ writer' = WriterAt("wait")
    /\ interrupts' = Fewer
    /\ byCode' = (byCode \/ exit = "none")
    /\ answerable' = (answerable /\ exit # "none")
    /\ override' = Reset
    /\ UNCHANGED <<writing, queue, writerFailed, reached>>

\* mark_non_interrupt_write_delivered: output that came while it was written
\* may answer it already.
MarkInputDelivered ==
    /\ writer.at = "written" /\ ~IsInterrupt
    /\ writer' = WriterAt("wait")
    /\ LET counts == ~stopping /\ exit = "none" /\ byCode
       IN  /\ byCode' = (byCode /\ ~(counts /\ writer.seen))
           /\ answerable' = IF counts THEN ~writer.seen ELSE answerable
    /\ UNCHANGED <<writing, override, queue, interrupts, writerFailed, reached>>

Writing == TakeWrite \/ MarkStarted \/ CheckWritable \/ WriteFile \/ MarkWriterFailed
           \/ MarkInterruptDelivered \/ MarkInputDelivered
-------------------------------------------------------------------------------
(***************************************************************************)
(* read_loop.                                                              *)
(***************************************************************************)
Parked == paused        \* the FIFO may be full
Broken == conpty = "closed"

\* ReadFile returns output, of the child or of the console host after it:
\* mark_child_output_observed.
ReadOutput ==
    /\ reader = "read" /\ ~Broken
    /\ writer' = [writer EXCEPT !.seen = @ \/ writer.at \notin {"wait", "done"}]
    /\ LET answers == ~stopping /\ exit = "none" /\ byCode /\ answerable
       IN  byCode' = (byCode /\ ~answers) /\ answerable' = (answerable /\ ~answers)
    /\ UNCHANGED <<flags, reasons, queue, interrupts, writerFailed, asked, reached, resizing,
                   ending, callbacks>>

\* ReadFile fails: the pipe is broken, or the waiter has lost its patience with the
\* close (cancel_blocking_io).
ReaderEnds ==
    /\ reader = "read" /\ ~Parked
    /\ Broken \/ waiter = "reader"
    /\ reader' = "done"
    /\ UNCHANGED <<flags, reasons, input, resizing, waiter, conpty, child, callbacks>>
-------------------------------------------------------------------------------
(***************************************************************************)
(* resize_loop.                                                            *)
(***************************************************************************)
resizer == <<flags, reasons, input, ending>>

TakeResize ==
    /\ worker.at = "wait" /\ (stopping \/ slot # None)
    /\ worker' = [worker EXCEPT !.req = slot,
                    !.at = IF ~stopping THEN "resize"
                           ELSE IF slot # None THEN "cancelled" ELSE "done"]
    /\ slot' = None
    /\ UNCHANGED <<resizer, native, callbacks>>

ReportCancelled ==
    /\ worker.at = "cancelled"
    /\ worker' = WorkerAt("done")
    /\ callbacks' = Append(callbacks, Completion(worker.req, TRUE, TRUE))
    /\ UNCHANGED <<resizer, slot, native>>

\* resize, up to ResizePseudoConsole: counts an active call, if it may.
BeginResize ==
    /\ worker.at = "resize"
    /\ worker' = IF Ready /\ conpty = "open" THEN [worker EXCEPT !.at = "native"]
                 ELSE [worker EXCEPT !.at = "returned", !.ok = FALSE]
    /\ UNCHANGED <<resizer, slot, native, callbacks>>

ResizePseudoConsole == \E ok \in BOOLEAN :      \* and finish_conpty_call
    /\ worker.at = "native"
    /\ worker' = [worker EXCEPT !.at = "returned", !.ok = ok]
    /\ native' = IF ok THEN worker.req.grid ELSE native
    /\ UNCHANGED <<resizer, slot, callbacks>>

ReadStopping ==
    /\ worker.at = "returned"
    /\ worker' = [worker EXCEPT !.at = "report", !.stopped = stopping]
    /\ UNCHANGED <<resizer, slot, native, callbacks>>

ReportResize ==
    /\ worker.at = "report"
    /\ worker' = WorkerAt(IF worker.stopped THEN "done" ELSE "wait")
    /\ callbacks' = Append(callbacks, Completion(worker.req, worker.ok, worker.stopped))
    /\ UNCHANGED <<resizer, slot, native>>

Resizing == TakeResize \/ ReportCancelled \/ BeginResize \/ ReadStopping \/ ReportResize
ActiveCalls == IF worker.at = "native" THEN 1 ELSE 0
-------------------------------------------------------------------------------
(***************************************************************************)
(* wait_loop, the child, and what closes the pseudoconsole.                *)
(***************************************************************************)
ChildExits ==
    /\ child = "alive" /\ child' = "dead"
    /\ UNCHANGED <<flags, reasons, input, resizing, reader, waiter, conpty, callbacks>>

\* clear_queued_writes_locked.
Unsent == interrupts - Len(SelectSeq(queue, LAMBDA item : item = "interrupt"))

ObserveExitStillPaused ==   \* mutant: the pause outlives the child
    /\ waiter = "wait" /\ child = "dead"
    /\ waiter' = "close"
    /\ stopping' = TRUE
    /\ queue' = <<>> /\ interrupts' = Unsent
    /\ override' = IF Unsent = 0 /\ override = "interrupted" THEN "none" ELSE override
    /\ UNCHANGED <<running, paused, exit, writerFailed, byCode, answerable, writer, asked,
                   reached, resizing, reader, conpty, child, callbacks>>

ObserveExit ==
    /\ waiter = "wait" /\ child = "dead"
    /\ waiter' = "close"
    /\ stopping' = TRUE /\ paused' = FALSE
    /\ queue' = <<>> /\ interrupts' = Unsent
    /\ override' = IF Unsent = 0 /\ override = "interrupted" THEN "none" ELSE override
    /\ UNCHANGED <<running, exit, writerFailed, byCode, answerable, writer, asked, reached,
                   resizing, reader, conpty, child, callbacks>>

waiting == <<running, stopping, paused, override, exit, input, resizing, child, callbacks>>

\* request_conpty_close: no call begins once m_conpty is null ...
TakeConsole ==
    /\ waiter = "close" /\ waiter' = "calls"
    /\ conpty' = "taken"
    /\ UNCHANGED <<waiting, reader>>

SubmitCloseAtOnce ==        \* mutant: without waiting for the active calls
    /\ waiter = "calls"
    /\ waiter' = "reader" /\ conpty' = "submitted"
    /\ UNCHANGED <<waiting, reader>>

\* ... and the close is submitted when none is active.
SubmitClose ==
    /\ waiter = "calls" /\ ActiveCalls = 0
    /\ waiter' = "reader" /\ conpty' = "submitted"
    /\ UNCHANGED <<waiting, reader>>

ClosePseudoConsole ==                           \* on the close owner's thread
    /\ conpty = "submitted" /\ conpty' = "closed"
    /\ UNCHANGED <<waiting, reader, waiter>>

\* The reader has finished and the process tree has settled: report_exit_once.
Reason(code) == IF override # "none" THEN override
                ELSE IF byCode /\ code = "interrupt" THEN "interrupted" ELSE "exited"

ReportExit == \E code \in {"interrupt", "other"} :     \* GetExitCodeProcess
    /\ waiter = "reader" /\ reader = "done"
    /\ waiter' = "done"
    /\ exit' = Reason(code)
    /\ running' = FALSE /\ stopping' = TRUE /\ paused' = FALSE
    /\ callbacks' = Append(callbacks, ExitCallback)
    /\ UNCHANGED <<override, input, resizing, reader, conpty, child>>

Waiting == ObserveExit \/ TakeConsole \/ SubmitClose \/ ReportExit

Backend == \/ Writing \/ ReadOutput \/ ReaderEnds
           \/ Resizing \/ ResizePseudoConsole
           \/ ChildExits \/ Waiting \/ ClosePseudoConsole

-------------------------------------------------------------------------------
BackendTypeOK ==
    /\ {running, stopping, paused, writerFailed, byCode, answerable, reached} \subseteq BOOLEAN
    /\ override \in {"none", "interrupted", "terminated"}
    /\ exit \in {"none", "interrupted", "terminated", "exited"}
    /\ queue \in Seq({"input", "interrupt"})
    /\ interrupts \in 0..MaxCalls /\ asked \in 0..MaxCalls
    /\ writer \in [at : {"wait", "start", "write", "file", "written", "failed", "done"},
                   item : {"input", "interrupt"}, seen : BOOLEAN]
    /\ reader \in {"read", "done"}
    /\ waiter \in {"wait", "close", "calls", "reader", "done"}
    /\ slot \in [id : Nat, grid : Grids] /\ native \in Grids
    /\ worker \in [at : {"wait", "resize", "native", "returned", "report", "cancelled", "done"},
                   req : [id : Nat, grid : Grids], ok : BOOLEAN, stopped : BOOLEAN]
    /\ conpty \in {"open", "taken", "submitted", "closed"}
    /\ child \in {"alive", "dead"}

\* ResizePseudoConsole is never called on a pseudoconsole that is closed or being
\* closed (request_conpty_close, windows_conpty_backend.cpp:1963-1992).
CallsUseTheConsole == ActiveCalls > 0 => conpty \in {"open", "taken"}

\* The reason an exit is reported with is true.  It is an interrupt only if one has
\* reached the child or is in the writer's hands: one that only waits, or that the
\* writer has failed to write and said so, does not count.  And what the session has
\* terminated stays terminated, whatever the writer still had in hand (the comments of
\* mark_interrupt_write_started and mark_writer_failed_after_write_failure, terminate,
\* clear_queued_writes_locked; windows_conpty_backend.cpp:1713, 2184-2318).
ReasonIsTrue ==
    [][/\ exit' # exit /\ exit' = "interrupted" =>
            reached \/ (IsInterrupt /\ writer.at \in {"write", "file", "failed"})
       /\ override = "terminated" => override' = "terminated"]_backend

\* The exit of a child is reported, whatever the session has paused and whichever
\* resize is under way (wait_loop, windows_conpty_backend.cpp:2391-2458).
ExitIsReported == child = "dead" ~> exit # "none"
================================================================================
