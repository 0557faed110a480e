------------------------ MODULE ResizeTransactionProofs ------------------------
(***************************************************************************)
(* What ResizeTransaction and ConptyBackend keep true, for any grids and   *)
(* any number of resizes, writes and interrupts.                           *)
(*                                                                         *)
(* Four invariants, one for each property: what is pending and recorded    *)
(* (session only), where the pseudoconsole is on its way to be closed,     *)
(* which requests may still change the grid, and why an exit would be      *)
(* called an interrupt.                                                    *)
(***************************************************************************)
EXTENDS ResizeTransaction, SequenceTheorems, TLAPS

Request == [id : Nat, grid : Grids]
Callback == [kind : {"resize"}, id : Nat, grid : Grids, ok : BOOLEAN, superseded : BOOLEAN]
            \cup {ExitCallback}

LEMMA NoneIsARequest == None \in Request
  BY ConptyAssumption DEF None, Request
-------------------------------------------------------------------------------
(***************************************************************************)
(* Each resize is recorded once: what is pending has an id of its own that *)
(* was given out, and every other id given out has been recorded.          *)
(***************************************************************************)
Counted ==
    /\ used \in 0..MaxResizes /\ asked \in Nat /\ grid \in Grids
    /\ records \in [Ids -> Nat]
    /\ pending \subseteq [id : 1..used, grid : Grids]
    /\ \A p, q \in pending : p.id = q.id => p = q

RecordsInv == Counted /\ RecordedOnce

PendingIds(p) == {req.id : req \in p}

LEMMA RecordsInit == Init => RecordsInv
  BY ResizesAssumption, ConptyAssumption
     DEF Init, BackendInit, RecordsInv, Counted, RecordedOnce, Ids

\* A request newly given out, recorded at once or pending.
LEMMA DispatchKeepsRecords ==
    ASSUME RecordsInv, NEW g \in Grids, used < MaxResizes, used' = used + 1,
           asked' = asked, grid' = g, Dispatch([id |-> used + 1, grid |-> g])
    PROVE  RecordsInv'
  <1> DEFINE req == [id |-> used + 1, grid |-> g]
  <1> USE ResizesAssumption, ConptyAssumption
  <1>1. used' \in 1..MaxResizes /\ used' \in Ids
    BY DEF RecordsInv, Counted, Ids
  <1>2. CASE Ready /\ conpty = "open"
    <2>1. pending' = pending \union {req} /\ records' = records
      BY <1>2 DEF Dispatch
    <2>2. Counted'
      BY <1>1, <2>1 DEF RecordsInv, Counted
    <2>3. RecordedOnce'
      BY <1>1, <2>1 DEF RecordsInv, Counted, RecordedOnce, Ids
    <2> QED BY <2>2, <2>3 DEF RecordsInv
  <1>3. CASE ~(Ready /\ conpty = "open")
    <2>1. pending' = pending
          /\ records' = [id \in Ids |-> IF id \in {req.id} THEN records[id] + 1 ELSE records[id]]
      BY <1>3 DEF Dispatch, Record
    <2>2. Counted'
      BY <1>1, <2>1 DEF RecordsInv, Counted
    <2>3. RecordedOnce'
      BY <1>1, <2>1 DEF RecordsInv, Counted, RecordedOnce, Ids
    <2> QED BY <2>2, <2>3 DEF RecordsInv
  <1> QED BY <1>2, <1>3

LEMMA RejectKeepsRecords ==
    ASSUME RecordsInv, used < MaxResizes, used' = used + 1, asked' = asked,
           grid' \in Grids, Record({used + 1}, "failed"), pending' = pending
    PROVE  RecordsInv'
  BY ResizesAssumption, ConptyAssumption DEF RecordsInv, Counted, RecordedOnce, Ids, Record

LEMMA CancelKeepsRecords ==
    ASSUME RecordsInv, CancelPending, used' = used, asked' = asked, grid' = grid
    PROVE  RecordsInv'
  <1>1. pending' = {}
        /\ records' = [id \in Ids |-> IF id \in PendingIds(pending)
                                      THEN records[id] + 1 ELSE records[id]]
    BY DEF CancelPending, Record, PendingIds
  <1>2. \A id \in PendingIds(pending) : id \in 1..used
    BY DEF PendingIds, RecordsInv, Counted
  <1> QED
    BY <1>1, <1>2 DEF RecordsInv, Counted, RecordedOnce, PendingIds, Ids

LEMMA BeginHasRoom == RecordsInv /\ Begin => used < MaxResizes /\ used' = used + 1
  BY ResizesAssumption, ConptyAssumption DEF Begin, RecordsInv, Counted

LEMMA RecordsStep == RecordsInv /\ [Next]_vars => RecordsInv'
  <1> SUFFICES ASSUME RecordsInv, [Next]_vars PROVE RecordsInv'
    OBVIOUS
  <1> USE DEF session, transaction
  <1>1. ASSUME NEW g \in Grids, HostResize(g) PROVE RecordsInv'
    <2>1. asked' = asked
      BY <1>1 DEF HostResize, Dispatch, Queue, backend, input
    <2>2. used < MaxResizes /\ used' = used + 1
      BY <1>1, BeginHasRoom DEF HostResize
    <2>3. grid \in Grids
      BY DEF RecordsInv, Counted
    <2>4. CASE Running
      BY <1>1, <2>1, <2>2, <2>4, DispatchKeepsRecords DEF HostResize
    <2>5. CASE ~Running
      BY <1>1, <2>1, <2>2, <2>3, <2>5, RejectKeepsRecords DEF HostResize
    <2> QED BY <2>4, <2>5
  <1>2. ASSUME NEW g \in Grids, FromOutput(g) PROVE RecordsInv'
    <2>1. asked' = asked
      BY <1>2 DEF FromOutput, Dispatch, Queue, backend, input
    <2>2. used < MaxResizes /\ used' = used + 1
      BY <1>2, BeginHasRoom DEF FromOutput
    <2>3. grid \in Grids
      BY DEF RecordsInv, Counted
    <2>4. CASE Running
      BY <1>2, <2>1, <2>2, <2>4, DispatchKeepsRecords DEF FromOutput
    <2>5. CASE ~Running
      BY <1>2, <2>1, <2>2, <2>3, <2>5, RejectKeepsRecords DEF FromOutput
    <2> QED BY <2>4, <2>5
  <1>3. CASE StopProcess
    <2>1. used' = used /\ asked' = asked /\ grid' = grid
      BY <1>3 DEF StopProcess, Terminate, input
    <2> QED BY <1>3, <2>1, CancelKeepsRecords DEF StopProcess
  <1>4. CASE HandleExit
    <2>1. used' = used /\ asked' = asked /\ grid' = grid
      BY <1>4 DEF HandleExit, Handled, input
    <2> QED BY <1>4, <2>1, CancelKeepsRecords DEF HandleExit
  <1>5. CASE HandleCompletion
    <2> DEFINE req == [id |-> NextCallback.id, grid |-> NextCallback.grid]
    <2>1. used' = used /\ asked' = asked /\ grid' = grid
      BY <1>5 DEF HandleCompletion, Handled, input
    <2>2. CASE req \notin pending
      BY <1>5, <2>1, <2>2 DEF HandleCompletion, RecordsInv, Counted, RecordedOnce
    <2>3. CASE req \in pending
      <3>1. pending' = pending \ {req}
            /\ records' = [id \in Ids |-> IF id \in {req.id} THEN records[id] + 1 ELSE records[id]]
        BY <1>5, <2>3 DEF HandleCompletion, Complete, Record
      <3>2. Counted'
        BY <2>1, <3>1 DEF RecordsInv, Counted
      <3>3. \A id \in Ids : id \in PendingIds(pending') <=> id \in PendingIds(pending) /\ id # req.id
        BY <2>3, <3>1 DEF RecordsInv, Counted, PendingIds
      <3>4. req.id \in 1..used /\ req.id \in PendingIds(pending)
        BY <2>3 DEF RecordsInv, Counted, PendingIds
      <3>5. RecordedOnce'
        BY <2>1, <3>1, <3>3, <3>4 DEF RecordsInv, Counted, RecordedOnce, PendingIds
      <3> QED BY <3>2, <3>5 DEF RecordsInv
    <2> QED BY <2>2, <2>3
  <1>6. CASE HostInput
    <2>1. asked' = asked + 1 /\ UNCHANGED session
      BY <1>6 DEF HostInput, Write, Interrupt, Ask
    <2> QED BY <2>1 DEF RecordsInv, Counted, RecordedOnce
  <1>7. ASSUME asked' = asked, UNCHANGED <<used, records, pending, grid>> PROVE RecordsInv'
    BY <1>7 DEF RecordsInv, Counted, RecordedOnce
  <1>8. CASE ReportDisplaced
    BY <1>7, <1>8 DEF ReportDisplaced, ReportInline, input
  <1>9. CASE Overflow
    BY <1>7, <1>9 DEF Overflow, Terminate, backend, input
  <1>10. ASSUME NEW on \in BOOLEAN, Backpressure(on) PROVE RecordsInv'
    BY <1>7, <1>10 DEF Backpressure, SetOutputPaused, input
  <1>11. CASE Backend /\ UNCHANGED session
    <2>1. asked' = asked
      BY <1>11 DEF Backend, Writing, TakeWrite, MarkStarted, CheckWritable, WriteFile,
           MarkWriterFailed, MarkInterruptDelivered, MarkInputDelivered, writing, ReadOutput,
           ReaderEnds, Resizing, TakeResize, ReportCancelled, BeginResize, ReadStopping,
           ReportResize, ResizePseudoConsole, resizer, ChildExits, Waiting, ObserveExit,
           TakeConsole, SubmitClose, ReportExit, ClosePseudoConsole, waiting, input
    <2> QED BY <1>7, <1>11, <2>1
  <1>12. CASE UNCHANGED vars
    BY <1>7, <1>12 DEF vars, backend, input
  <1> QED
    BY <1>1, <1>2, <1>3, <1>4, <1>5, <1>6, <1>8, <1>9, <1>10, <1>11, <1>12
       DEF RecordsInv, Counted, Next, Session, TextAreaResize, RetryResize
\* Whatever displaces, cancels, overtakes or ends a resize, it is recorded once
\* (finalize_resize_transaction, cancel_pending_backend_resizes,
\* terminal_session.cpp:5823-5886).
THEOREM EachResizeIsRecordedOnce == Spec => []RecordedOnce
  <1>1. RecordsInv => RecordedOnce
    BY DEF RecordsInv
  <1> QED BY RecordsInit, RecordsStep, <1>1, PTL DEF Spec
-------------------------------------------------------------------------------
(***************************************************************************)
(* Where the pseudoconsole is on its way out, and why no native call can   *)
(* begin or go on behind its close.                                        *)
(***************************************************************************)
ConsoleInv ==
    /\ waiter \in {"wait", "close", "calls", "reader", "done"}
    /\ waiter \in {"wait", "close"} => conpty = "open"
    /\ waiter = "calls" => conpty = "taken"
    /\ waiter \in {"reader", "done"} => conpty \in {"submitted", "closed"}
    /\ CallsUseTheConsole

LEMMA ConsoleInit == Init => ConsoleInv
  BY DEF Init, BackendInit, ConsoleInv, CallsUseTheConsole, ActiveCalls, WorkerAt

LEMMA ConsoleFrame ==
    ASSUME ConsoleInv, UNCHANGED <<waiter, conpty>>,
           worker' = worker \/ worker'.at # "native"
    PROVE  ConsoleInv'
  BY DEF ConsoleInv, CallsUseTheConsole, ActiveCalls

LEMMA SessionKeepsTheConsole ==
    ASSUME Session PROVE UNCHANGED <<waiter, conpty, worker, native>>
  <1> USE DEF resizing, ending, input, backend
  <1>1. ASSUME NEW g \in Grids, HostResize(g) \/ FromOutput(g)
        PROVE  UNCHANGED <<waiter, conpty, worker, native>>
    BY <1>1 DEF HostResize, FromOutput, Dispatch, Queue
  <1>2. ASSUME RetryResize PROVE UNCHANGED <<waiter, conpty, worker, native>>
    BY <1>2 DEF RetryResize, FromOutput, Dispatch, Queue
  <1>3. CASE ReportDisplaced
    BY <1>3 DEF ReportDisplaced, ReportInline
  <1>4. CASE StopProcess
    BY <1>4 DEF StopProcess, Terminate
  <1>5. CASE Overflow
    BY <1>5 DEF Overflow, Terminate
  <1>6. ASSUME NEW on \in BOOLEAN, Backpressure(on)
        PROVE  UNCHANGED <<waiter, conpty, worker, native>>
    BY <1>6 DEF Backpressure, SetOutputPaused
  <1>7. CASE HostInput
    BY <1>7 DEF HostInput, Write, Interrupt, Ask
  <1>8. CASE HandleCompletion \/ HandleExit
    BY <1>8 DEF HandleCompletion, HandleExit, Handled
  <1> QED
    BY <1>1, <1>2, <1>3, <1>4, <1>5, <1>6, <1>7, <1>8 DEF Session, TextAreaResize

LEMMA ConsoleStep == ConsoleInv /\ [Next]_vars => ConsoleInv'
  <1> SUFFICES ASSUME ConsoleInv, [Next]_vars PROVE ConsoleInv'
    OBVIOUS
  <1> USE DEF resizing, ending
  <1>1. CASE Session
    BY <1>1, SessionKeepsTheConsole, ConsoleFrame
  <1>2. CASE Writing
    BY <1>2, ConsoleFrame
       DEF Writing, TakeWrite, MarkStarted, CheckWritable, WriteFile, MarkWriterFailed,
           MarkInterruptDelivered, MarkInputDelivered, writing
  <1>3. CASE ReadOutput \/ ReaderEnds \/ ChildExits \/ ObserveExit \/ ReportExit
    <2>1. CASE ReadOutput \/ ReaderEnds \/ ChildExits
      BY <1>3, <2>1, ConsoleFrame DEF ReadOutput, ReaderEnds, ChildExits
    <2>2. CASE ObserveExit \/ ReportExit
      BY <2>2 DEF ObserveExit, ReportExit, ConsoleInv, CallsUseTheConsole, ActiveCalls
    <2> QED BY <1>3, <2>1, <2>2
  <1>4. CASE TakeResize \/ ReportCancelled \/ ReadStopping \/ ReportResize
    <2>1. UNCHANGED <<waiter, conpty>> /\ (worker' = worker \/ worker'.at # "native")
      <3>1. CASE TakeResize
        <4>1. UNCHANGED <<waiter, conpty>>
              /\ worker' = [worker EXCEPT !.req = slot,
                    !.at = IF ~stopping THEN "resize"
                           ELSE IF slot # None THEN "cancelled" ELSE "done"]
          BY <3>1 DEF TakeResize, resizer
        <4> QED BY <4>1
      <3>2. CASE ReadStopping
        <4>1. UNCHANGED <<waiter, conpty>>
              /\ worker' = [worker EXCEPT !.at = "report", !.stopped = stopping]
          BY <3>2 DEF ReadStopping, resizer
        <4> QED BY <4>1
      <3>3. CASE ReportCancelled \/ ReportResize
        <4>1. UNCHANGED resizer /\ \E place \in {"done", "wait"} : worker' = WorkerAt(place)
          BY <3>3 DEF ReportCancelled, ReportResize
        <4>2. UNCHANGED <<waiter, conpty>>
          BY <4>1 DEF resizer
        <4>3. worker'.at \in {"done", "wait"}
          BY <4>1 DEF WorkerAt
        <4> QED BY <4>2, <4>3
      <3> QED BY <1>4, <3>1, <3>2, <3>3
    <2> QED BY <2>1, ConsoleFrame
  <1>5. CASE BeginResize
    <2>1. UNCHANGED <<waiter, conpty>> /\ (conpty = "open" \/ worker'.at # "native")
      BY <1>5 DEF BeginResize, resizer
    <2> QED BY <2>1 DEF ConsoleInv, CallsUseTheConsole, ActiveCalls
  <1>6. CASE ResizePseudoConsole
    <2>1. UNCHANGED <<waiter, conpty>> /\ worker'.at # "native"
      BY <1>6 DEF ResizePseudoConsole, resizer
    <2> QED BY <2>1, ConsoleFrame
  <1>7. CASE TakeConsole \/ SubmitClose \/ ClosePseudoConsole
    BY <1>7 DEF TakeConsole, SubmitClose, ClosePseudoConsole, waiting, ConsoleInv,
                CallsUseTheConsole, ActiveCalls
  <1>8. CASE UNCHANGED vars
    BY <1>8, ConsoleFrame DEF vars, backend
  <1> QED
    BY <1>1, <1>2, <1>3, <1>4, <1>5, <1>6, <1>7, <1>8 DEF Next, Backend, Resizing, Waiting

\* ResizePseudoConsole is never under way on a console whose close was submitted
\* (request_conpty_close and finish_conpty_call, windows_conpty_backend.cpp:1963-1992).
THEOREM NoCallBehindTheClose == Spec => []CallsUseTheConsole
  <1>1. ConsoleInv => CallsUseTheConsole
    BY DEF ConsoleInv
  <1> QED BY ConsoleInit, ConsoleStep, <1>1, PTL DEF Spec
-------------------------------------------------------------------------------
(***************************************************************************)
(* Why an exit may be called an interrupt: one has reached the pipe, or is *)
(* in the writer's hands.  It holds until the exit is reported; a write    *)
(* that fails later leaves the override behind, where nobody reads it.     *)
(***************************************************************************)
Writers == [at : {"wait", "start", "write", "file", "written", "failed", "done"},
            item : {"input", "interrupt"}, seen : BOOLEAN]

InHand == IsInterrupt /\ writer.at \in {"write", "file", "failed"}

InputTypes ==
    /\ writer \in Writers /\ queue \in Seq({"input", "interrupt"})
    /\ stopping \in BOOLEAN /\ byCode \in BOOLEAN /\ reached \in BOOLEAN

ReasonInv ==
    /\ InputTypes
    /\ waiter # "done" => exit = "none"
    /\ override = "terminated" => stopping
    /\ byCode => reached
    /\ writer.at = "start" => IsInterrupt
    /\ writer.at = "written" /\ IsInterrupt => reached
    /\ exit = "none" /\ override = "interrupted" => reached \/ InHand

ReasonStep ==
    /\ exit' # exit /\ exit' = "interrupted" =>
         reached \/ (IsInterrupt /\ writer.at \in {"write", "file", "failed"})
    /\ override = "terminated" => override' = "terminated"

LEMMA ReasonInit == Init => ReasonInv
  <1> SUFFICES ASSUME Init PROVE ReasonInv
    OBVIOUS
  <1>1. queue \in Seq({"input", "interrupt"})
    BY EmptySeq DEF Init, BackendInit
  <1>2. writer \in Writers /\ writer.at = "wait"
    BY DEF Init, BackendInit, WriterAt, Writers
  <1> QED
    BY <1>1, <1>2 DEF Init, BackendInit, ReasonInv, InputTypes, InHand

LEMMA WriterPlaces ==
    \A place \in {"wait", "start", "write", "file", "written", "failed", "done"} :
        /\ WriterAt(place) \in Writers
        /\ WriterAt(place).at = place
        /\ writer \in Writers =>
             /\ [writer EXCEPT !.at = place] \in Writers
             /\ [writer EXCEPT !.at = place].at = place
             /\ [writer EXCEPT !.at = place].item = writer.item
  BY DEF WriterAt, Writers

\* What the writer does not touch, and what the others leave it.
LEMMA ReasonFrame ==
    ASSUME ReasonInv, UNCHANGED <<writer, queue, byCode, reached, waiter, exit>>,
           stopping' = stopping \/ stopping' = TRUE,
           \/ override' = override
           \/ override # "terminated" /\ override' = "none"
           \/ override' = "terminated" /\ stopping'
    PROVE  ReasonInv' /\ ReasonStep
  <1> USE DEF ReasonInv, InputTypes, InHand, IsInterrupt
  <1>1. stopping' \in BOOLEAN /\ (stopping => stopping')
    OBVIOUS
  <1>2. InputTypes'
    BY <1>1 DEF InputTypes
  <1>3. override' = "terminated" => stopping'
    BY <1>1
  <1> QED BY <1>2, <1>3 DEF ReasonStep

LEMMA WriterKeepsReason == ReasonInv /\ Writing => ReasonInv' /\ ReasonStep
  <1> SUFFICES ASSUME ReasonInv, Writing PROVE ReasonInv' /\ ReasonStep
    OBVIOUS
  <1> USE WriterPlaces DEF ReasonInv, InputTypes, InHand, IsInterrupt, ReasonStep, writing, flags, ending
  <1>1. CASE TakeWrite
    <2>1. CASE stopping
      BY <1>1, <2>1 DEF TakeWrite
    <2>2. CASE ~stopping
      <3>1. queue # <<>> /\ queue' = Tail(queue)
            /\ writer' = [at |-> IF Head(queue) = "interrupt" THEN "start" ELSE "write",
                          item |-> Head(queue), seen |-> FALSE]
        BY <1>1, <2>2 DEF TakeWrite
      <3>2. Head(queue) \in {"input", "interrupt"} /\ queue' \in Seq({"input", "interrupt"})
        BY <3>1, HeadTailProperties
      <3>3. writer' \in Writers /\ writer'.item = Head(queue)
            /\ writer'.at = IF Head(queue) = "interrupt" THEN "start" ELSE "write"
        BY <3>1, <3>2 DEF Writers
      <3>4. UNCHANGED <<stopping, byCode, reached, waiter, exit, override>>
        BY <1>1 DEF TakeWrite
      <3>5. ~InHand
        BY <1>1 DEF TakeWrite
      <3> QED BY <3>2, <3>3, <3>4, <3>5
    <2> QED BY <2>1, <2>2
  <1>2. CASE MarkStarted
    <2>1. UNCHANGED <<stopping, byCode, reached, waiter, exit, queue>> /\ writer.at = "start"
          /\ writer' = [writer EXCEPT !.at = "write"]
          /\ override' = IF ~stopping /\ exit = "none" THEN "interrupted" ELSE override
      BY <1>2 DEF MarkStarted
    <2>2. writer' \in Writers /\ writer'.at = "write" /\ writer'.item = writer.item
      BY <2>1
    <2> QED BY <2>1, <2>2
  <1>3. CASE CheckWritable
    <2>1. UNCHANGED <<stopping, byCode, reached, waiter, exit, queue, override>>
          /\ writer.at = "write"
          /\ writer' = [writer EXCEPT !.at = IF stopping THEN "failed" ELSE "file"]
      BY <1>3 DEF CheckWritable
    <2>2. writer' \in Writers /\ writer'.at \in {"failed", "file"} /\ writer'.item = writer.item
      BY <2>1
    <2> QED BY <2>1, <2>2
  <1>4. CASE WriteFile
    <2>1. PICK ok \in BOOLEAN :
            /\ writer.at = "file"
            /\ writer' = [writer EXCEPT !.at = IF ok THEN "written" ELSE "failed"]
            /\ reached' = (reached \/ (ok /\ writer.item = "interrupt"))
            /\ UNCHANGED <<stopping, byCode, waiter, exit, queue, override>>
      BY <1>4 DEF WriteFile
    <2>2. writer' \in Writers /\ writer'.item = writer.item
          /\ writer'.at = IF ok THEN "written" ELSE "failed"
      BY <2>1
    <2> QED BY <2>1, <2>2
  <1>5. CASE MarkWriterFailed
    <2>1. UNCHANGED <<stopping, byCode, reached, waiter, exit, queue>>
          /\ writer' = WriterAt("done")
          /\ override' = IF IsInterrupt THEN Reset ELSE override
      BY <1>5 DEF MarkWriterFailed
    <2> QED BY <2>1 DEF Reset
  <1>6. CASE MarkInterruptDelivered
    <2>1. UNCHANGED <<stopping, reached, waiter, exit, queue>>
          /\ writer.at = "written" /\ IsInterrupt /\ writer' = WriterAt("wait")
          /\ byCode' = (byCode \/ exit = "none") /\ override' = Reset
      BY <1>6 DEF MarkInterruptDelivered
    <2> QED BY <2>1 DEF Reset
  <1>7. CASE MarkInputDelivered
    <2>1. UNCHANGED <<stopping, reached, waiter, exit, queue, override>>
          /\ writer.at = "written" /\ ~IsInterrupt /\ writer' = WriterAt("wait")
          /\ \E counts \in BOOLEAN : byCode' = (byCode /\ ~(counts /\ writer.seen))
      BY <1>7 DEF MarkInputDelivered
    <2>2. byCode' \in BOOLEAN /\ (byCode' => byCode)
      BY <2>1
    <2> QED BY <2>1, <2>2
  <1> QED BY <1>1, <1>2, <1>3, <1>4, <1>5, <1>6, <1>7 DEF Writing

LEMMA SessionKeepsReason == ReasonInv /\ Session => ReasonInv' /\ ReasonStep
  <1> SUFFICES ASSUME ReasonInv, Session PROVE ReasonInv' /\ ReasonStep
    OBVIOUS
  <1> DEFINE kept == UNCHANGED <<writer, queue, byCode, reached, waiter, exit>>
             still == UNCHANGED <<writer, queue, byCode, reached, waiter, exit, stopping, override>>
  <1> USE DEF input, ending, flags, reasons, resizing
  <1>1. ASSUME NEW g \in Grids, HostResize(g) \/ FromOutput(g) PROVE still
    BY <1>1 DEF HostResize, FromOutput, Dispatch, Queue, backend
  <1>2. ASSUME RetryResize PROVE still
    BY <1>2 DEF RetryResize, FromOutput, Dispatch, Queue, backend
  <1>3. ASSUME ReportDisplaced PROVE still
    BY <1>3 DEF ReportDisplaced, ReportInline
  <1>4. ASSUME StopProcess
        PROVE  kept /\ stopping' = TRUE /\ override' = "terminated"
    BY <1>4 DEF StopProcess, Terminate
  <1>5. ASSUME Overflow
        PROVE  still \/ (kept /\ stopping' = TRUE /\ override' = "terminated")
    BY <1>5 DEF Overflow, Terminate, backend
  <1>6. ASSUME NEW on \in BOOLEAN, Backpressure(on) PROVE still
    BY <1>6 DEF Backpressure, SetOutputPaused
  <1>7. ASSUME HandleCompletion \/ HandleExit PROVE still
    BY <1>7 DEF HandleCompletion, HandleExit, Handled
  <1>8. ASSUME HostInput PROVE ReasonInv' /\ ReasonStep
    <2>1. UNCHANGED <<writer, byCode, reached, waiter, exit, stopping, override>>
          /\ \E item \in {"input", "interrupt"} : queue' = Append(queue, item)
      BY <1>8 DEF HostInput, Write, Interrupt, Ask
    <2>2. queue' \in Seq({"input", "interrupt"})
      BY <2>1, AppendProperties DEF ReasonInv, InputTypes
    <2> QED
      BY <2>1, <2>2 DEF ReasonInv, InputTypes, InHand, IsInterrupt, ReasonStep
  <1>9. still => ReasonInv' /\ ReasonStep
    BY ReasonFrame
  <1>10. ASSUME kept, stopping' = TRUE, override' = "terminated" PROVE ReasonInv' /\ ReasonStep
    BY <1>10, ReasonFrame
  <1> HIDE DEF kept, still
  <1> QED
    BY <1>1, <1>2, <1>3, <1>4, <1>5, <1>6, <1>7, <1>8, <1>9, <1>10
       DEF Session, TextAreaResize

LEMMA ReasonKept == ReasonInv /\ [Next]_vars => ReasonInv' /\ [ReasonStep]_backend
  <1> SUFFICES ASSUME ReasonInv, [Next]_vars PROVE ReasonInv' /\ ReasonStep
    OBVIOUS
  <1> USE DEF input, ending, flags, reasons, resizing
  <1>1. CASE Session
    BY <1>1, SessionKeepsReason
  <1>2. CASE Writing
    BY <1>2, WriterKeepsReason
  <1>3. CASE ReadOutput
    <2>1. UNCHANGED <<queue, stopping, reached, waiter, exit, override>>
          /\ writer' = [writer EXCEPT !.seen = @ \/ writer.at \notin {"wait", "done"}]
          /\ \E answers \in BOOLEAN : byCode' = (byCode /\ ~answers)
      BY <1>3 DEF ReadOutput
    <2>2. writer' \in Writers /\ writer'.at = writer.at /\ writer'.item = writer.item
      BY <2>1 DEF ReasonInv, InputTypes, Writers
    <2>3. byCode' \in BOOLEAN /\ (byCode' => byCode)
      BY <2>1 DEF ReasonInv, InputTypes
    <2> QED
      BY <2>1, <2>2, <2>3 DEF ReasonInv, InputTypes, InHand, IsInterrupt, ReasonStep
  <1>4. CASE ReaderEnds \/ ChildExits \/ ClosePseudoConsole
    BY <1>4, ReasonFrame DEF ReaderEnds, ChildExits, ClosePseudoConsole, waiting
  <1>5. CASE Resizing \/ ResizePseudoConsole
    <2>1. UNCHANGED resizer
      BY <1>5 DEF Resizing, TakeResize, ReportCancelled, BeginResize, ReadStopping, ReportResize,
                  ResizePseudoConsole
    <2> QED BY <2>1, ReasonFrame DEF resizer
  <1>6. CASE ObserveExit
    <2>1. UNCHANGED <<writer, byCode, reached, exit>> /\ waiter = "wait" /\ waiter' = "close"
          /\ queue' = <<>> /\ stopping' = TRUE
          /\ (override' = override \/ (override = "interrupted" /\ override' = "none"))
      BY <1>6 DEF ObserveExit
    <2> QED
      BY <2>1, EmptySeq DEF ReasonInv, InputTypes, InHand, IsInterrupt, ReasonStep
  <1>7. CASE TakeConsole \/ SubmitClose
    <2>1. UNCHANGED <<writer, queue, byCode, reached, exit, stopping, override>>
          /\ waiter # "done"
      BY <1>7 DEF TakeConsole, SubmitClose, waiting
    <2> QED
      BY <2>1 DEF ReasonInv, InputTypes, InHand, IsInterrupt, ReasonStep
  <1>8. CASE ReportExit
    <2>1. PICK code \in {"interrupt", "other"} :
            /\ waiter = "reader" /\ waiter' = "done"
            /\ exit' = Reason(code)
            /\ stopping' = TRUE
            /\ UNCHANGED <<writer, queue, byCode, reached, override>>
      BY <1>8 DEF ReportExit
    <2>2. exit' # "none" /\ (exit' = "interrupted" => override = "interrupted" \/ byCode)
      BY <2>1 DEF Reason
    <2> QED
      BY <2>1, <2>2 DEF ReasonInv, InputTypes, InHand, IsInterrupt, ReasonStep
  <1>9. CASE UNCHANGED vars
    BY <1>9, ReasonFrame DEF vars, backend
  <1> QED
    BY <1>1, <1>2, <1>3, <1>4, <1>5, <1>6, <1>7, <1>8, <1>9 DEF Next, Backend, Waiting

\* Whatever is written, fails to be written or comes back meanwhile: an exit is
\* called an interrupt only when one reached the child or was being written, and a
\* termination is not renamed (mark_interrupt_write_started,
\* mark_writer_failed_after_write_failure, windows_conpty_backend.cpp:2184-2318).
THEOREM ReasonsAreTrue == Spec => ReasonIsTrue
  <1>1. [ReasonStep]_backend =>
          [/\ exit' # exit /\ exit' = "interrupted" =>
                reached \/ (IsInterrupt /\ writer.at \in {"write", "file", "failed"})
           /\ override = "terminated" => override' = "terminated"]_backend
    BY DEF ReasonStep
  <1> QED BY ReasonInit, ReasonKept, <1>1, PTL DEF Spec, ReasonIsTrue
-------------------------------------------------------------------------------
(***************************************************************************)
(* A request is in one place at a time, and those before it in line are    *)
(* older.  So when the newest one is answered nothing waits behind it, and *)
(* its grid is the console's.                                              *)
(***************************************************************************)
Places == {"wait", "resize", "native", "returned", "report", "cancelled", "done"}
WorkersState == [at : Places, req : Request, ok : BOOLEAN, stopped : BOOLEAN]

InFlight == worker.at \in {"resize", "native", "returned", "report", "cancelled"}
Calling == worker.at \in {"resize", "native"}
Returned == worker.at \in {"returned", "report"} /\ worker.ok

\* The console has that grid, and nothing is about to change it.
AtRest(g) == native = g /\ slot = None /\ ~Calling

Accepted(c) == c.kind = "resize" /\ c.ok /\ ~c.superseded

SyncTypes ==
    /\ slot \in Request /\ inline \in Request
    /\ worker \in WorkersState
    /\ native \in Grids /\ grid \in Grids
    /\ callbacks \in Seq(Callback)
    /\ latest \in Nat /\ used \in Nat
    /\ inSync \in BOOLEAN /\ stopping \in BOOLEAN

GivenOut(id) == id \in 1..used

OnlyGivenOut ==
    /\ latest <= used
    /\ slot # None => GivenOut(slot.id)
    /\ inline # None => GivenOut(inline.id)
    /\ InFlight => GivenOut(worker.req.id)
    /\ \A i \in DOMAIN callbacks : callbacks[i].kind = "resize" => GivenOut(callbacks[i].id)

NewestIsLast ==
    /\ InFlight /\ worker.req.id = latest => slot = None
    /\ Returned /\ worker.req.id = latest => native = worker.req.grid
    /\ \A i \in DOMAIN callbacks :
         Accepted(callbacks[i]) /\ callbacks[i].id = latest => AtRest(callbacks[i].grid)

SyncInv == SyncTypes /\ OnlyGivenOut /\ NewestIsLast /\ (inSync => AtRest(grid))

LEMMA SyncInit == Init => SyncInv
  <1> SUFFICES ASSUME Init PROVE SyncInv
    OBVIOUS
  <1>1. slot = None /\ inline = None /\ callbacks = <<>> /\ worker = WorkerAt("wait")
        /\ native = FirstGrid /\ grid = FirstGrid /\ latest = 0 /\ used = 0
        /\ inSync = TRUE /\ stopping = FALSE
    BY DEF Init, BackendInit
  <1>2. worker \in WorkersState /\ worker.at = "wait"
    BY <1>1, NoneIsARequest DEF WorkerAt, WorkersState, Places
  <1>3. callbacks \in Seq(Callback) /\ DOMAIN callbacks = {}
    BY <1>1, EmptySeq
  <1>4. SyncTypes
    BY <1>1, <1>2, <1>3, NoneIsARequest, ConptyAssumption DEF SyncTypes
  <1>5. OnlyGivenOut
    BY <1>1, <1>2, <1>3 DEF OnlyGivenOut, InFlight
  <1>6. NewestIsLast
    BY <1>1, <1>2, <1>3 DEF NewestIsLast, InFlight, Returned
  <1>7. AtRest(grid)
    BY <1>1, <1>2 DEF AtRest, Calling
  <1> QED
    BY <1>4, <1>5, <1>6, <1>7 DEF SyncInv

LEMMA AppendedCallback ==
    ASSUME NEW s \in Seq(Callback), NEW c \in Callback, NEW P,
           P = Append(s, c)
    PROVE  /\ P \in Seq(Callback)
           /\ \A i \in DOMAIN P : (i \in DOMAIN s /\ P[i] = s[i]) \/ P[i] = c
  BY AppendProperties

LEMMA RemovedCallback ==
    ASSUME NEW s \in Seq(Callback), s # <<>>
    PROVE  /\ Tail(s) \in Seq(Callback) /\ Head(s) = s[1] /\ 1 \in DOMAIN s
           /\ Head(s) \in Callback
           /\ \A i \in DOMAIN Tail(s) : i + 1 \in DOMAIN s /\ Tail(s)[i] = s[i + 1]
  BY HeadTailProperties

syncVars == <<slot, inline, worker, native, grid, callbacks, latest, used, inSync>>

LEMMA SyncFrame ==
    ASSUME SyncInv, UNCHANGED syncVars, stopping' \in BOOLEAN
    PROVE  SyncInv'
  BY DEF SyncInv, SyncTypes, OnlyGivenOut, NewestIsLast, AtRest, InFlight, Calling, Returned,
         GivenOut, Accepted, syncVars

\* A request given out and handed over, or refused: it is the newest.
LEMMA GiveOutKeepsSync ==
    ASSUME SyncInv, NEW g \in Grids,
           used' = used + 1, latest' \in {used + 1, latest}, grid' = g \/ grid' = grid,
           inSync' = FALSE \/ UNCHANGED <<inSync, grid, slot>>,
           \/ slot' = [id |-> used + 1, grid |-> g] /\ inline' = slot /\ latest' = used + 1
           \/ UNCHANGED <<slot, inline>>,
           UNCHANGED <<worker, native, callbacks, stopping>>
    PROVE  SyncInv'
  <1> USE DEF SyncInv
  <1> DEFINE req == [id |-> used + 1, grid |-> g]
  <1>1. used \in Nat /\ latest \in Nat
    BY DEF SyncTypes
  <1>2. req \in Request /\ req.id = used + 1
    BY <1>1 DEF Request
  <1>3. slot' \in Request /\ inline' \in Request
    BY <1>2 DEF SyncTypes
  <1>4. used' \in Nat /\ latest' \in Nat /\ latest' <= used'
    BY <1>1 DEF OnlyGivenOut
  <1>5. \A id : GivenOut(id) => GivenOut(id)'
    BY <1>1 DEF GivenOut
  <1>6. SyncTypes'
    BY <1>3, <1>4 DEF SyncTypes
  <1>7. OnlyGivenOut'
    <2>1. used + 1 \in 1..used'
      BY <1>1
    <2>2. (slot # None => GivenOut(slot.id))' /\ (inline # None => GivenOut(inline.id))'
      BY <1>2, <1>5, <2>1 DEF OnlyGivenOut, GivenOut
    <2>3. (InFlight => GivenOut(worker.req.id))'
      BY <1>5 DEF OnlyGivenOut, InFlight
    <2>4. (\A i \in DOMAIN callbacks : callbacks[i].kind = "resize" => GivenOut(callbacks[i].id))'
      BY <1>5 DEF OnlyGivenOut
    <2> QED BY <1>4, <2>2, <2>3, <2>4 DEF OnlyGivenOut
  <1>8. InFlight' = InFlight /\ Returned' = Returned /\ Calling' = Calling
    BY DEF InFlight, Returned, Calling
  <1>9. CASE latest' = used + 1
    <2>1. \A i \in DOMAIN callbacks' : Accepted(callbacks[i])' => callbacks'[i].id # latest'
      BY <1>9 DEF OnlyGivenOut, GivenOut, SyncTypes, Accepted
    <2>2. InFlight' => worker'.req.id # latest'
      BY <1>8, <1>9 DEF OnlyGivenOut, GivenOut, SyncTypes
    <2>3. Returned' => InFlight'
      BY DEF Returned, InFlight
    <2>4. NewestIsLast'
      BY <2>1, <2>2, <2>3 DEF NewestIsLast, Accepted
    <2>5. (inSync => AtRest(grid))'
      BY <1>8 DEF AtRest
    <2> QED BY <1>6, <1>7, <2>4, <2>5
  <1>10. CASE latest' = latest
    <2>1. UNCHANGED <<slot, inline>>
      BY <1>10 DEF OnlyGivenOut, SyncTypes
    <2>2. NewestIsLast'
      BY <1>8, <1>10, <2>1 DEF NewestIsLast, Accepted, AtRest
    <2>3. (inSync => AtRest(grid))'
      BY <1>8, <2>1 DEF AtRest
    <2> QED BY <1>6, <1>7, <2>2, <2>3
  <1> QED BY <1>9, <1>10

\* Nothing is in sync and no request is the newest: what is under way may go on.
LEMMA ForgetNewestKeepsSync ==
    ASSUME SyncInv, latest' = 0, inSync' = FALSE,
           \/ UNCHANGED <<slot, inline, callbacks>>
           \/ slot' = None /\ inline' = slot /\ UNCHANGED callbacks
           \/ callbacks # <<>> /\ callbacks' = Tail(callbacks) /\ UNCHANGED <<slot, inline>>,
           stopping' \in BOOLEAN, UNCHANGED <<worker, native, grid, used>>
    PROVE  SyncInv'
  <1> USE DEF SyncInv
  <1>1. /\ callbacks' \in Seq(Callback)
        /\ \A i \in DOMAIN callbacks' : \E j \in DOMAIN callbacks : callbacks'[i] = callbacks[j]
    BY RemovedCallback DEF SyncTypes
  <1>2. SyncTypes'
    BY <1>1, NoneIsARequest DEF SyncTypes
  <1>3. OnlyGivenOut'
    BY <1>1 DEF SyncTypes, OnlyGivenOut, GivenOut, InFlight
  <1>4. NewestIsLast'
    <2>1. \A i \in DOMAIN callbacks' : Accepted(callbacks[i])' => callbacks'[i].id # latest'
      BY <1>3 DEF OnlyGivenOut, GivenOut, Accepted
    <2>2. InFlight' => worker'.req.id # latest'
      BY <1>3 DEF OnlyGivenOut, GivenOut
    <2>3. Returned' => InFlight'
      BY DEF Returned, InFlight
    <2> QED BY <2>1, <2>2, <2>3 DEF NewestIsLast, Accepted
  <1> QED BY <1>2, <1>3, <1>4

LEMMA CompletionKeepsSync == SyncInv /\ HandleCompletion => SyncInv'
  <1> SUFFICES ASSUME SyncInv, HandleCompletion PROVE SyncInv'
    OBVIOUS
  <1> USE DEF SyncInv
  <1> DEFINE c == Head(callbacks)
  <1>1. UNCHANGED <<slot, inline, worker, native, grid, latest, used, stopping>>
        /\ callbacks # <<>> /\ callbacks' = Tail(callbacks) /\ c.kind = "resize"
    BY DEF HandleCompletion, Handled, NextCallback, resizing, flags
  <1>2. /\ callbacks' \in Seq(Callback) /\ c = callbacks[1] /\ 1 \in DOMAIN callbacks
        /\ c \in Callback
        /\ \A i \in DOMAIN callbacks' : i + 1 \in DOMAIN callbacks /\ callbacks'[i] = callbacks[i + 1]
    BY <1>1, RemovedCallback DEF SyncTypes
  <1>3. c.ok \in BOOLEAN /\ c.superseded \in BOOLEAN
    BY <1>1, <1>2 DEF Callback, ExitCallback
  <1>4. inSync' \in BOOLEAN
        /\ (inSync' => inSync \/ (Accepted(c) /\ c.id = latest /\ c.grid = grid))
    <2> DEFINE req == [id |-> c.id, grid |-> c.grid]
    <2>1. CASE req \notin pending
      BY <1>1, <2>1 DEF HandleCompletion, NextCallback, SyncTypes
    <2>2. CASE req \in pending
      <3>1. inSync' = IF c.id = latest
                      THEN (c.ok /\ ~c.superseded) /\ (c.id = latest /\ Running /\ grid = c.grid)
                      ELSE inSync
        BY <1>1, <2>2 DEF HandleCompletion, NextCallback, Complete, IsLatest
      <3> QED BY <1>1, <1>3, <3>1 DEF Accepted, Running, SyncTypes
    <2> QED BY <2>1, <2>2
  <1>5. inSync' => AtRest(grid)
    BY <1>2, <1>4 DEF NewestIsLast
  <1>6. SyncTypes'
    BY <1>1, <1>2, <1>4 DEF SyncTypes
  <1>7. OnlyGivenOut'
    BY <1>1, <1>2 DEF OnlyGivenOut, GivenOut, InFlight
  <1>8. NewestIsLast'
    BY <1>1, <1>2 DEF NewestIsLast, AtRest, InFlight, Calling, Returned, Accepted
  <1> QED BY <1>1, <1>5, <1>6, <1>7, <1>8 DEF AtRest, Calling

\* A completion or the exit, handed to the session and not an acceptance of the newest.
LEMMA HandOverKeepsSync ==
    ASSUME SyncInv, NEW c \in Callback, callbacks' = Append(callbacks, c),
           c.kind = "resize" => GivenOut(c.id),
           Accepted(c) /\ c.id = latest => AtRest(c.grid),
           worker' = worker \/ (worker' \in WorkersState /\ worker'.at \in {"wait", "done"}),
           inline' = inline \/ inline' = None,
           stopping' \in BOOLEAN, UNCHANGED <<slot, native, grid, latest, used, inSync>>
    PROVE  SyncInv'
  <1> USE DEF SyncInv
  <1>1. /\ callbacks' \in Seq(Callback)
        /\ \A i \in DOMAIN callbacks' : (i \in DOMAIN callbacks /\ callbacks'[i] = callbacks[i])
                                        \/ callbacks'[i] = c
    BY AppendedCallback DEF SyncTypes
  <1>2. /\ worker' \in WorkersState
        /\ InFlight' => InFlight /\ worker' = worker
        /\ Returned' => Returned /\ worker' = worker
        /\ Calling' => Calling
    BY DEF SyncTypes, InFlight, Returned, Calling
  <1>3. SyncTypes'
    BY <1>1, <1>2, NoneIsARequest DEF SyncTypes
  <1>4. OnlyGivenOut'
    <2>1. (\A i \in DOMAIN callbacks : callbacks[i].kind = "resize" => GivenOut(callbacks[i].id))'
      BY <1>1 DEF OnlyGivenOut, GivenOut
    <2> QED BY <1>2, <2>1 DEF OnlyGivenOut, GivenOut
  <1>5. NewestIsLast'
    <2>1. ASSUME NEW i \in DOMAIN callbacks', Accepted(callbacks'[i]), callbacks'[i].id = latest
          PROVE  AtRest(callbacks'[i].grid)
      BY <1>1, <2>1 DEF NewestIsLast
    <2>2. ASSUME NEW g, AtRest(g) PROVE native' = g /\ slot' = None /\ ~Calling'
      BY <1>2, <2>2 DEF AtRest
    <2> QED BY <1>2, <2>1, <2>2 DEF NewestIsLast, AtRest, Accepted
  <1> QED BY <1>2, <1>3, <1>4, <1>5 DEF AtRest

LEMMA IdleWorker ==
    \A place \in {"wait", "done"} :
        WorkerAt(place) \in WorkersState /\ WorkerAt(place).at = place
  BY NoneIsARequest DEF WorkerAt, WorkersState, Places

LEMMA ResizerKeepsSync == SyncInv /\ (Resizing \/ ResizePseudoConsole) /\ UNCHANGED session => SyncInv'
  <1> SUFFICES ASSUME SyncInv, Resizing \/ ResizePseudoConsole, UNCHANGED session
               PROVE  SyncInv'
    OBVIOUS
  <1> USE DEF SyncInv
  <1>1. UNCHANGED <<inline, grid, latest, used, inSync>>
    BY DEF session, transaction
  <1>2. UNCHANGED stopping
    BY DEF Resizing, TakeResize, ReportCancelled, BeginResize, ReadStopping, ReportResize,
           ResizePseudoConsole, resizer, flags
  <1>3. worker \in WorkersState /\ stopping \in BOOLEAN /\ slot \in Request
    BY DEF SyncTypes
  <1>4. CASE TakeResize
    <2>1. /\ worker.at = "wait" /\ (stopping \/ slot # None)
          /\ worker' = [worker EXCEPT !.req = slot,
                          !.at = IF ~stopping THEN "resize"
                                 ELSE IF slot # None THEN "cancelled" ELSE "done"]
          /\ slot' = None /\ UNCHANGED <<native, callbacks>>
      BY <1>4 DEF TakeResize
    <2>2. /\ worker' \in WorkersState /\ worker'.req = slot
          /\ worker'.at = IF ~stopping THEN "resize"
                          ELSE IF slot # None THEN "cancelled" ELSE "done"
      BY <1>3, <2>1 DEF WorkersState, Places
    <2>3. SyncTypes'
      BY <1>1, <1>2, <2>1, <2>2, NoneIsARequest DEF SyncTypes
    <2>4. OnlyGivenOut'
      BY <1>1, <2>1, <2>2 DEF OnlyGivenOut, GivenOut, InFlight
    <2>5. ASSUME NEW g, AtRest(g) PROVE native' = g /\ slot' = None /\ ~Calling'
      BY <2>1, <2>2, <2>5 DEF AtRest, Calling
    <2>6. NewestIsLast'
      BY <1>1, <2>1, <2>2, <2>5 DEF NewestIsLast, Returned, Accepted, AtRest
    <2> QED BY <1>1, <2>3, <2>4, <2>5, <2>6 DEF AtRest
  <1>5. CASE ReportCancelled
    <2> DEFINE c == Completion(worker.req, TRUE, TRUE)
    <2>1. c \in Callback /\ ~Accepted(c) /\ c.id = worker.req.id
      BY <1>3 DEF Completion, Callback, Accepted, WorkersState, Request
    <2>2. GivenOut(c.id)
      BY <1>5, <2>1 DEF ReportCancelled, OnlyGivenOut, InFlight
    <2>3. callbacks' = Append(callbacks, c) /\ worker' = WorkerAt("done")
          /\ UNCHANGED <<slot, native>>
      BY <1>5 DEF ReportCancelled
    <2> HIDE DEF c
    <2> QED BY <1>1, <1>2, <1>3, <2>1, <2>2, <2>3, HandOverKeepsSync, IdleWorker
  <1>6. CASE BeginResize
    <2>1. worker.at = "resize" /\ UNCHANGED <<slot, native, callbacks>>
          /\ worker' \in {[worker EXCEPT !.at = "native"],
                          [worker EXCEPT !.at = "returned", !.ok = FALSE]}
      BY <1>6 DEF BeginResize
    <2>2. /\ worker' \in WorkersState /\ worker'.req = worker.req
          /\ worker'.at = "native" \/ (worker'.at = "returned" /\ ~worker'.ok)
      BY <1>3, <2>1 DEF WorkersState, Places
    <2>3. Calling /\ InFlight /\ ~Returned'
      BY <2>1, <2>2 DEF Calling, InFlight, Returned
    <2>4. SyncTypes'
      BY <1>1, <1>2, <2>1, <2>2 DEF SyncTypes
    <2>5. OnlyGivenOut'
      BY <1>1, <2>1, <2>2, <2>3 DEF OnlyGivenOut, GivenOut
    <2>6. NewestIsLast'
      BY <1>1, <2>1, <2>2, <2>3 DEF NewestIsLast, Accepted, AtRest
    <2> QED BY <1>1, <2>3, <2>4, <2>5, <2>6 DEF AtRest
  <1>7. CASE ResizePseudoConsole
    <2>1. PICK ok \in BOOLEAN :
            /\ worker.at = "native" /\ UNCHANGED <<slot, callbacks>>
            /\ worker' = [worker EXCEPT !.at = "returned", !.ok = ok]
            /\ native' = IF ok THEN worker.req.grid ELSE native
      BY <1>7 DEF ResizePseudoConsole
    <2>2. /\ worker' \in WorkersState /\ worker'.req = worker.req
          /\ worker'.at = "returned" /\ worker'.ok = ok
      BY <1>3, <2>1 DEF WorkersState, Places
    <2>3. Calling /\ InFlight
      BY <2>1 DEF Calling, InFlight
    <2>4. SyncTypes'
      BY <1>1, <1>2, <1>3, <2>1, <2>2 DEF SyncTypes, WorkersState, Request
    <2>5. OnlyGivenOut'
      BY <1>1, <2>1, <2>2, <2>3 DEF OnlyGivenOut, GivenOut
    <2>6. NewestIsLast'
      BY <1>1, <2>1, <2>2, <2>3 DEF NewestIsLast, Accepted, AtRest, Returned
    <2> QED BY <1>1, <2>3, <2>4, <2>5, <2>6 DEF AtRest
  <1>8. CASE ReadStopping
    <2>1. worker.at = "returned" /\ UNCHANGED <<slot, native, callbacks>>
          /\ worker' = [worker EXCEPT !.at = "report", !.stopped = stopping]
      BY <1>8 DEF ReadStopping
    <2>2. /\ worker' \in WorkersState /\ worker'.req = worker.req
          /\ worker'.at = "report" /\ worker'.ok = worker.ok
      BY <1>3, <2>1 DEF WorkersState, Places
    <2>3. Calling' = Calling /\ InFlight' = InFlight /\ Returned' = Returned
      BY <2>1, <2>2 DEF Calling, InFlight, Returned
    <2>4. SyncTypes'
      BY <1>1, <1>2, <2>1, <2>2 DEF SyncTypes
    <2>5. OnlyGivenOut'
      BY <1>1, <2>1, <2>2, <2>3 DEF OnlyGivenOut, GivenOut
    <2>6. NewestIsLast'
      BY <1>1, <2>1, <2>2, <2>3 DEF NewestIsLast, Accepted, AtRest
    <2> QED BY <1>1, <2>1, <2>3, <2>4, <2>5, <2>6 DEF AtRest
  <1>9. CASE ReportResize
    <2> DEFINE c == Completion(worker.req, worker.ok, worker.stopped)
    <2>1. c \in Callback /\ c.id = worker.req.id /\ c.grid = worker.req.grid
          /\ (Accepted(c) => worker.ok)
      BY <1>3 DEF Completion, Callback, Accepted, WorkersState, Request
    <2>2. worker.at = "report" /\ callbacks' = Append(callbacks, c)
          /\ UNCHANGED <<slot, native>>
          /\ \E place \in {"wait", "done"} : worker' = WorkerAt(place)
      BY <1>9 DEF ReportResize
    <2>3. InFlight /\ ~Calling /\ (worker.ok => Returned)
      BY <2>2 DEF InFlight, Calling, Returned
    <2>4. GivenOut(c.id)
      BY <2>1, <2>3 DEF OnlyGivenOut
    <2>5. Accepted(c) /\ c.id = latest => AtRest(c.grid)
      BY <2>1, <2>3 DEF NewestIsLast, AtRest
    <2> HIDE DEF c
    <2> QED BY <1>1, <1>2, <1>3, <2>1, <2>2, <2>4, <2>5, HandOverKeepsSync, IdleWorker
  <1> QED BY <1>4, <1>5, <1>6, <1>7, <1>8, <1>9 DEF Resizing

LEMMA SessionKeepsSync == SyncInv /\ RecordsInv /\ Session => SyncInv'
  <1> SUFFICES ASSUME SyncInv, RecordsInv, Session PROVE SyncInv'
    OBVIOUS
  <1> USE DEF resizing, flags
  <1>1. grid \in Grids /\ used \in Nat /\ stopping \in BOOLEAN
    BY DEF SyncInv, SyncTypes
  <1>2. ASSUME NEW g \in Grids, used' = used + 1, Dispatch([id |-> used + 1, grid |-> g]),
               grid' = g
        PROVE  SyncInv'
    <2>1. latest' = used + 1 /\ inSync' = FALSE
          /\ UNCHANGED <<worker, native, callbacks, stopping>>
          /\ \/ slot' = [id |-> used + 1, grid |-> g] /\ inline' = slot
             \/ UNCHANGED <<slot, inline>>
      BY <1>2 DEF Dispatch, Queue, backend
    <2> QED BY <1>2, <2>1, GiveOutKeepsSync
  <1>3. ASSUME NEW g \in Grids, HostResize(g) PROVE SyncInv'
    <2>1. used' = used + 1
      BY <1>3, BeginHasRoom DEF HostResize
    <2>2. CASE Running
      BY <1>2, <1>3, <2>1, <2>2 DEF HostResize
    <2>3. CASE ~Running
      <3>1. UNCHANGED <<grid, inSync, latest, inline, slot, worker, native, callbacks, stopping>>
        BY <1>3, <2>3 DEF HostResize, backend
      <3> QED BY <2>1, <3>1, GiveOutKeepsSync
    <2> QED BY <2>2, <2>3
  <1>4. ASSUME NEW g \in Grids, FromOutput(g) PROVE SyncInv'
    <2>1. used' = used + 1
      BY <1>4, BeginHasRoom DEF FromOutput
    <2>2. CASE Running
      BY <1>2, <1>4, <2>1, <2>2 DEF FromOutput
    <2>3. CASE ~Running
      <3>1. grid' = g /\ inSync' = FALSE
            /\ UNCHANGED <<latest, inline, slot, worker, native, callbacks, stopping>>
        BY <1>4, <2>3 DEF FromOutput, backend
      <3> QED BY <2>1, <3>1, GiveOutKeepsSync
    <2> QED BY <2>2, <2>3
  <1>5. CASE ReportDisplaced
    <2> DEFINE c == Completion(inline, TRUE, TRUE)
    <2>1. inline \in Request /\ (inline # None => GivenOut(inline.id))
      BY DEF SyncInv, SyncTypes, OnlyGivenOut
    <2>2. c \in Callback /\ ~Accepted(c) /\ c.id = inline.id
      BY <2>1 DEF Completion, Callback, Accepted, Request
    <2>3. inline # None /\ callbacks' = Append(callbacks, c) /\ inline' = None
          /\ UNCHANGED <<slot, worker, native, grid, latest, used, inSync, stopping>>
      BY <1>5 DEF ReportDisplaced, ReportInline, Idle
    <2> HIDE DEF c
    <2> QED BY <1>1, <2>1, <2>2, <2>3, HandOverKeepsSync
  <1>6. CASE StopProcess
    <2>1. latest' = 0 /\ inSync' = FALSE /\ slot' = None /\ inline' = slot /\ stopping' = TRUE
          /\ UNCHANGED <<callbacks, worker, native, grid, used>>
      BY <1>6 DEF StopProcess, Terminate, CancelPending
    <2> QED BY <2>1, ForgetNewestKeepsSync
  <1>7. CASE Overflow
    <2>1. UNCHANGED <<callbacks, worker, native, grid, latest, used, inSync>>
          /\ \/ slot' = None /\ inline' = slot /\ stopping' = TRUE
             \/ UNCHANGED <<slot, inline, stopping>>
      BY <1>7 DEF Overflow, Terminate, backend
    <2>2. CASE UNCHANGED <<slot, inline, stopping>>
      BY <1>1, <2>1, <2>2, SyncFrame DEF syncVars
    <2>3. CASE slot' = None /\ inline' = slot /\ stopping' = TRUE
      <3> USE DEF SyncInv
      <3>1. SyncTypes'
        BY <2>1, <2>3, NoneIsARequest DEF SyncTypes
      <3>2. OnlyGivenOut'
        BY <2>1, <2>3 DEF OnlyGivenOut, GivenOut, InFlight
      <3>3. NewestIsLast'
        BY <2>1, <2>3 DEF NewestIsLast, AtRest, InFlight, Calling, Returned, Accepted
      <3>4. (inSync => AtRest(grid))'
        BY <2>1, <2>3 DEF AtRest, Calling
      <3> QED BY <3>1, <3>2, <3>3, <3>4
    <2> QED BY <2>1, <2>2, <2>3
  <1>8. ASSUME NEW on \in BOOLEAN, Backpressure(on) PROVE SyncInv'
    BY <1>1, <1>8, SyncFrame DEF Backpressure, SetOutputPaused, session, transaction, syncVars
  <1>9. CASE HostInput
    BY <1>1, <1>9, SyncFrame
       DEF HostInput, Write, Interrupt, Ask, session, transaction, syncVars
  <1>10. CASE HandleCompletion
    BY <1>10, CompletionKeepsSync
  <1>11. CASE HandleExit
    <2>1. latest' = 0 /\ inSync' = FALSE /\ callbacks # <<>> /\ callbacks' = Tail(callbacks)
          /\ UNCHANGED <<slot, inline, worker, native, grid, used, stopping>>
      BY <1>11 DEF HandleExit, Handled, CancelPending
    <2> QED BY <1>1, <2>1, ForgetNewestKeepsSync
  <1> QED
    BY <1>1, <1>3, <1>4, <1>5, <1>6, <1>7, <1>8, <1>9, <1>10, <1>11
       DEF Session, TextAreaResize, RetryResize

LEMMA SyncStep == SyncInv /\ RecordsInv /\ [Next]_vars => SyncInv'
  <1> SUFFICES ASSUME SyncInv, RecordsInv, [Next]_vars PROVE SyncInv'
    OBVIOUS
  <1>1. CASE Session
    BY <1>1, SessionKeepsSync
  <1>2. CASE (Resizing \/ ResizePseudoConsole) /\ UNCHANGED session
    BY <1>2, ResizerKeepsSync
  <1>3. ASSUME UNCHANGED session, UNCHANGED <<slot, worker, native, callbacks>>,
               stopping' = stopping \/ stopping' = TRUE
        PROVE  SyncInv'
    <2>1. stopping' \in BOOLEAN
      BY <1>3 DEF SyncInv, SyncTypes
    <2> QED BY <1>3, <2>1, SyncFrame DEF session, transaction, syncVars
  <1>4. CASE Writing /\ UNCHANGED session
    <2>1. UNCHANGED writing
      BY <1>4 DEF Writing, TakeWrite, MarkStarted, CheckWritable, WriteFile, MarkWriterFailed,
                  MarkInterruptDelivered, MarkInputDelivered
    <2> QED BY <1>3, <1>4, <2>1 DEF writing, resizing, flags
  <1>5. CASE (ReadOutput \/ ReaderEnds \/ ChildExits \/ ObserveExit) /\ UNCHANGED session
    BY <1>3, <1>5 DEF ReadOutput, ReaderEnds, ChildExits, ObserveExit, resizing, flags
  <1>6. CASE (TakeConsole \/ SubmitClose \/ ClosePseudoConsole) /\ UNCHANGED session
    BY <1>3, <1>6 DEF TakeConsole, SubmitClose, ClosePseudoConsole, waiting, resizing
  <1>7. CASE ReportExit /\ UNCHANGED session
    <2>1. callbacks' = Append(callbacks, ExitCallback) /\ stopping' = TRUE
          /\ UNCHANGED <<slot, inline, worker, native, grid, latest, used, inSync>>
      BY <1>7 DEF ReportExit, resizing, session, transaction
    <2>2. ExitCallback \in Callback /\ ExitCallback.kind # "resize"
      BY DEF Callback, ExitCallback
    <2> QED BY <2>1, <2>2, HandOverKeepsSync DEF Accepted
  <1>8. CASE UNCHANGED vars
    BY <1>3, <1>8 DEF vars, backend, resizing, flags
  <1> QED
    BY <1>1, <1>2, <1>4, <1>5, <1>6, <1>7, <1>8 DEF Next, Backend, Waiting

\* What the session takes for in sync is: however many completions are late,
\* superseded, failed or overtaken (process_backend_resize_completion_command,
\* terminal_session.cpp:7799-7873).
THEOREM GeometryInSyncIsTrue == Spec => []InSyncIsTrue
  <1>1. SyncInv => InSyncIsTrue
    BY DEF SyncInv, AtRest, Calling, InSyncIsTrue
  <1> QED BY RecordsInit, RecordsStep, SyncInit, SyncStep, <1>1, PTL DEF Spec
===============================================================================
