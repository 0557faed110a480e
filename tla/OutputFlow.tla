------------------------------ MODULE OutputFlow ------------------------------
(***************************************************************************)
(* Backpressure between the session and a POSIX PTY backend: how many      *)
(* bytes of output are where, and who pauses and resumes the backend.      *)
(*                                                                         *)
(*   PTY -> reader -> (paused FIFO) -> callback ingress -> session queue   *)
(*                                                                         *)
(* PosixPtyOutput and CallbackIngress keep the order and the identity of   *)
(* the bytes; here only their number matters.  From PosixPtyOutput comes   *)
(* that a direct delivery and a replay never overlap: one thread at a time *)
(* delivers.  The GUI thread holds the session's m_mutex from GuiLocks to  *)
(* GuiUnlocks; what a callback does under m_mutex is one action.           *)
(* Command counts, text-area holds and frontiers are left out.             *)
(***************************************************************************)
EXTENDS NativeOutputLimits

CONSTANTS
    High, Hard,     \* output_queue_limits of the session, in bytes
    PtyCapacity,    \* what the kernel holds of the child's output
    MaxWritten      \* bound: bytes the child writes

ASSUME FlowAssumption ==
    /\ High \in Nat \ {0} /\ Hard \in Nat /\ High < Hard
    /\ PtyCapacity \in Nat /\ MaxWritten \in Nat

VARIABLES
    written, pty,       \* bytes the child wrote, and those not read yet
    paused, fifo,       \* backend: m_output_paused, bytes in m_paused_output
    processStopping,    \* backend: m_process_stopping (root exit, terminate)
    held,               \* bytes the reader has read and not passed on
    deliverer,          \* thread in a delivery: "none" | "reader" | "waiter" | "gui"
    stage, chunk,       \* where that delivery is, and its bytes
    ingress,            \* bytes queued in the callback lifetime
    overflow,           \* "none" | "queued" | "handled"
    gui,                \* the GUI thread in process_pending_commands, or "idle"
    batch,              \* bytes taken from the ingress and not queued yet
    queued,             \* m_output_queue, the open operation's rest included
    active,             \* m_output_backpressure_active
    stopRequested,      \* m_stop_requested
    processed           \* bytes the session has consumed

backend  == <<paused, fifo, processStopping>>
delivery == <<deliverer, stage, chunk>>
kernel   == <<written, pty>>
session  == <<batch, queued, processed>>
vars == <<kernel, backend, held, delivery, ingress, overflow, gui, session, active, stopRequested>>

Read   == ReadChunk(High, Hard)
Budget == PausedBudget(High, Hard)
Replay == ReplayChunk(High, Hard)

TypeOK ==
    /\ written \in 0..MaxWritten /\ pty \in 0..PtyCapacity
    /\ paused \in BOOLEAN /\ processStopping \in BOOLEAN
    /\ fifo \in 0..Budget
    /\ deliverer \in {"none", "reader", "waiter", "gui"}
    /\ stage \in {"none", "deliver", "ask", "next"}
    /\ held \in 0..Read
    /\ chunk \in 0..(IF Read < Replay THEN Replay ELSE Read)
    /\ ingress \in 0..Hard
    /\ overflow \in {"none", "queued", "handled"}
    /\ gui \in {"idle", "drain", "enqueue", "step", "retire", "terminate"}
    /\ batch \in 0..Hard /\ queued \in 0..Hard
    /\ active \in BOOLEAN /\ stopRequested \in BOOLEAN
    /\ processed \in 0..MaxWritten

Init ==
    /\ written = 0 /\ pty = 0
    /\ paused = FALSE /\ fifo = 0 /\ processStopping = FALSE
    /\ deliverer = "none" /\ stage = "none" /\ chunk = 0 /\ held = 0
    /\ ingress = 0 /\ overflow = "none"
    /\ gui = "idle" /\ batch = 0 /\ queued = 0 /\ processed = 0
    /\ active = FALSE /\ stopRequested = FALSE
-------------------------------------------------------------------------------
(***************************************************************************)
(* Backpressure, decided under m_mutex.                                    *)
(***************************************************************************)
\* output_backpressure_required.
Required(inIngress, inQueue) == inIngress >= High \/ inQueue >= High

\* A replay by t begins with the first chunk of the FIFO.
StartReplay(t) ==
    /\ deliverer' = t /\ stage' = "deliver"
    /\ chunk' = Least(fifo, Replay)
    /\ fifo' = fifo - chunk'

\* Terminal_backend::set_output_paused, called by t.  A resumed backend
\* replays what it retains on the caller's thread.
SetOutputPaused(t, value) ==
    /\ paused' = (value /\ ~processStopping)
    /\ \/ ~paused' /\ deliverer = "none" /\ fifo > 0 /\ StartReplay(t)
       \/ (paused' \/ deliverer # "none" \/ fifo = 0) /\ UNCHANGED <<fifo, delivery>>

BackendUntouched == UNCHANGED <<paused, fifo, delivery>>

\* set_output_backpressure_active(required) on the GUI thread; the flag falls
\* before the replay that may raise it again.
SetBackpressure(required) ==
    /\ active' = required
    /\ \/ active # required /\ ~stopRequested /\ SetOutputPaused("gui", required)
       \/ (active = required \/ stopRequested) /\ BackendUntouched

StepKeepsBackpressure ==    \* mutant: processing output does not look at the queues
    UNCHANGED active /\ BackendUntouched

\* After a step, and again when the operation retires.
StepBackpressure == SetBackpressure(Required(ingress, queued'))

PauseUnchecked ==    \* mutant: the pause is not reconsidered under m_mutex
    /\ active' = TRUE
    /\ paused' = IF stopRequested THEN paused ELSE ~processStopping

\* pause_backend_output_from_callback_ingress: the queues are looked at again
\* under m_mutex, as the GUI thread may have emptied them since.
PauseFromIngress ==
    /\ active' = (active \/ Required(ingress, queued))
    /\ paused' = IF Required(ingress, queued) /\ ~stopRequested
                 THEN ~processStopping ELSE paused
-------------------------------------------------------------------------------
(***************************************************************************)
(* The child, and its exit or the loss of its observation.                 *)
(***************************************************************************)
ChildWrites ==
    /\ written < MaxWritten /\ pty < PtyCapacity
    /\ written' = written + 1 /\ pty' = pty + 1
    /\ UNCHANGED <<backend, held, delivery, ingress, overflow, gui, session, active, stopRequested>>

\* The waiter stops the pauses and replays what is retained, once: a replay in
\* progress goes on to the end of the FIFO.
RootExits ==
    /\ ~processStopping
    /\ processStopping' = TRUE /\ paused' = FALSE
    /\ \/ deliverer = "none" /\ fifo > 0 /\ StartReplay("waiter")
       \/ (deliverer # "none" \/ fifo = 0) /\ UNCHANGED <<fifo, delivery>>
    /\ UNCHANGED <<kernel, held, ingress, overflow, gui, session, active, stopRequested>>
-------------------------------------------------------------------------------
(***************************************************************************)
(* Deliveries.                                                             *)
(***************************************************************************)
\* The most one read asks for: what still fits the FIFO if it goes there.
ReadSize ==
    Least(pty, IF paused \/ fifo > 0 THEN Least(Read, Budget - fifo) ELSE Read)

ReaderReads ==
    /\ held = 0 /\ deliverer = "none"
    /\ (~paused /\ fifo = 0) \/ fifo < Budget
    /\ \E n \in 1..ReadSize : held' = n /\ pty' = pty - n
    /\ UNCHANGED <<written, backend, delivery, ingress, overflow, gui, session, active, stopRequested>>

\* deliver_or_buffer_native_backend_output: behind what is retained or being
\* replayed, waiting for room, or else at once.
OutputPending == paused \/ deliverer # "none" \/ fifo > 0

ReaderBuffers ==
    /\ held > 0 /\ OutputPending /\ fifo + held <= Budget
    /\ fifo' = fifo + held /\ held' = 0
    /\ UNCHANGED <<kernel, paused, processStopping, delivery, ingress, overflow, gui, session,
                   active, stopRequested>>

ReaderDelivers ==
    /\ held > 0 /\ ~OutputPending
    /\ deliverer' = "reader" /\ stage' = "deliver"
    /\ chunk' = held /\ held' = 0
    /\ UNCHANGED <<kernel, backend, ingress, overflow, gui, session, active, stopRequested>>

AsksWhenFull(size) == size >= Hard     \* mutant: the callback asks at the hard limit only

\* The callback asks for a pause when its bytes reach the high water.
Asks(size) == size >= High

\* output_received: the bytes enter the ingress, or do not fit and end the
\* output, or arrive after its end and are dropped.
CallbackQueues ==
    /\ stage = "deliver"
    /\ chunk' = 0
    /\ \/ /\ overflow = "none" /\ ingress + chunk <= Hard
          /\ ingress' = ingress + chunk
          /\ stage' = IF Asks(ingress') THEN "ask" ELSE "next"
          /\ UNCHANGED overflow
       \/ /\ overflow = "none" /\ ingress + chunk > Hard
          /\ ingress' = 0 /\ overflow' = "queued"
          /\ stage' = "ask"
       \/ /\ overflow # "none"
          /\ stage' = "next"
          /\ UNCHANGED <<ingress, overflow>>
    /\ UNCHANGED <<kernel, held, backend, deliverer, gui, session, active, stopRequested>>

\* Another thread than the GUI thread waits for m_mutex.
CallbackAsks ==
    /\ stage = "ask" /\ (deliverer = "gui" \/ gui = "idle")
    /\ PauseFromIngress
    /\ stage' = "next"
    /\ UNCHANGED <<kernel, held, fifo, processStopping, deliverer, chunk, ingress, overflow, gui, session,
                   stopRequested>>

\* The callback returns; a replay goes on unless it has been paused.
DeliveryContinues ==
    /\ stage = "next" /\ deliverer # "reader" /\ fifo > 0 /\ (~paused \/ processStopping)
    /\ StartReplay(deliverer)
    /\ UNCHANGED <<kernel, held, paused, processStopping, ingress, overflow, gui, session, active,
                   stopRequested>>

DeliveryEnds ==
    /\ stage = "next" /\ (deliverer = "reader" \/ fifo = 0 \/ (paused /\ ~processStopping))
    /\ deliverer' = "none" /\ stage' = "none"
    /\ UNCHANGED <<kernel, held, backend, chunk, ingress, overflow, gui, session, active, stopRequested>>
-------------------------------------------------------------------------------
(***************************************************************************)
(* The GUI thread: process_pending_commands.  It does not go on while it   *)
(* is inside a replay.                                                     *)
(***************************************************************************)
GuiAt(l) == gui = l /\ deliverer # "gui"

HasWork == ingress > 0 \/ queued > 0 \/ overflow = "queued"

GuiLocks ==
    /\ GuiAt("idle") /\ HasWork
    /\ gui' = "drain"
    /\ UNCHANGED <<kernel, held, backend, delivery, ingress, overflow, session, active, stopRequested>>

Room == Hard - queued

\* take_pending_commands: whole commands that fit the room.  With the whole
\* queue free the first one always does.
DrainTakes ==
    /\ GuiAt("drain") /\ overflow # "queued"
    /\ \E n \in (IF queued = 0 /\ ingress > 0 THEN 1 ELSE 0)..Least(ingress, Room) :
         /\ batch' = n /\ ingress' = ingress - n
         /\ gui' = IF n = 0 THEN "step" ELSE "enqueue"
    /\ UNCHANGED <<kernel, held, backend, delivery, overflow, queued, processed, active, stopRequested>>

\* handle_output_overflow.  The backend rejects a terminate once it is
\* stopping by itself.
DrainHandlesOverflow ==
    /\ GuiAt("drain") /\ overflow = "queued"
    /\ overflow' = "handled" /\ stopRequested' = TRUE
    /\ IF stopRequested \/ processStopping
       THEN UNCHANGED <<backend, delivery>>
       ELSE /\ processStopping' = TRUE /\ paused' = FALSE
            /\ \/ deliverer = "none" /\ fifo > 0 /\ StartReplay("gui")
               \/ (deliverer # "none" \/ fifo = 0) /\ UNCHANGED <<fifo, delivery>>
    /\ UNCHANGED <<kernel, held, ingress, gui, session, active>>

\* enqueue_command for one command of the batch; output sequenced after the
\* stop is ignored.
DrainEnqueues ==
    /\ GuiAt("enqueue")
    /\ \E n \in 1..batch :
         /\ batch' = batch - n
         /\ \/ stopRequested /\ UNCHANGED <<queued, active>> /\ BackendUntouched
            \/ ~stopRequested /\ queued' = queued + n
               /\ SetBackpressure(Required(ingress, queued'))
    /\ gui' = IF batch' = 0 THEN "drain" ELSE "enqueue"
    /\ UNCHANGED <<kernel, held, processStopping, ingress, overflow, processed, stopRequested>>

\* run_operation_step: a window of the head operation's output, then the
\* queues again.
StepConsumes ==
    /\ GuiAt("step") /\ queued > 0
    /\ \E n \in 1..queued :
         /\ queued' = queued - n /\ processed' = processed + n
         /\ StepBackpressure
    /\ gui' = "retire"
    /\ UNCHANGED <<kernel, held, processStopping, ingress, overflow, batch, stopRequested>>

\* retire_operation looks once more; an operation with bytes left, or a drain
\* past its deadline, does not get there.
StepRetires ==
    /\ GuiAt("retire")
    /\ UNCHANGED <<kernel, held, processStopping, ingress, overflow, session, stopRequested>>
    /\ \/ StepBackpressure
       \/ queued > 0 /\ UNCHANGED active /\ BackendUntouched
    /\ gui' \in {"drain", "idle"}

GuiUnlocks ==
    /\ GuiAt("step") /\ queued = 0
    /\ gui' = "idle"
    /\ UNCHANGED <<kernel, held, backend, delivery, ingress, overflow, session, active, stopRequested>>

\* process_terminate_command and Posix_pty_backend::terminate.
GuiTerminates ==
    /\ GuiAt("idle") /\ ~stopRequested /\ ~processStopping
    /\ stopRequested' = TRUE /\ processStopping' = TRUE /\ paused' = FALSE
    /\ \/ deliverer = "none" /\ fifo > 0 /\ StartReplay("gui")
       \/ (deliverer # "none" \/ fifo = 0) /\ UNCHANGED <<fifo, delivery>>
    /\ gui' = "terminate"
    /\ UNCHANGED <<kernel, held, ingress, overflow, session, active>>

TerminateReturns ==
    /\ GuiAt("terminate")
    /\ gui' = "idle"
    /\ UNCHANGED <<kernel, held, backend, delivery, ingress, overflow, session, active, stopRequested>>
-------------------------------------------------------------------------------
Deliver == CallbackQueues \/ CallbackAsks \/ DeliveryContinues \/ DeliveryEnds

Drain ==
    \/ GuiLocks \/ DrainTakes \/ DrainHandlesOverflow \/ DrainEnqueues
    \/ StepConsumes \/ StepRetires \/ GuiUnlocks \/ TerminateReturns

Reader == ReaderReads \/ ReaderBuffers \/ ReaderDelivers

Next == ChildWrites \/ RootExits \/ Reader \/ Deliver \/ Drain \/ GuiTerminates

Spec == Init /\ [][Next]_vars

\* The backend's threads run, callbacks return, and the GUI thread drains
\* while there is something to drain.
Fairness == WF_vars(Reader) /\ WF_vars(Deliver) /\ WF_vars(Drain)

FairSpec == Spec /\ Fairness
-------------------------------------------------------------------------------
(***************************************************************************)
(* While the process runs and nobody stops it, its output never meets the  *)
(* hard limit, which would terminate it: every delivery begins below the   *)
(* high water and ends below the hard limit, however callbacks, pauses,    *)
(* replays and the drain interleave.                                       *)
(***************************************************************************)
RunningOutputFits == overflow # "none" => processStopping

(***************************************************************************)
(* The second hard limit, of the session's own queue, is never met by what *)
(* the drain took from the first: nothing taken is lost between the two.   *)
(***************************************************************************)
TakenOutputFits == queued + batch <= Hard

(***************************************************************************)
(* Whenever m_mutex is free and no callback is on its way to a pause, the  *)
(* backend of a running process is paused exactly when backpressure is     *)
(* recorded and exactly when a queue is at its high water.  A pause is     *)
(* never left behind by queues that drained meanwhile, nor a full queue    *)
(* without a pause.                                                        *)
(***************************************************************************)
BackpressureTracksQueues ==
    gui = "idle" /\ stage # "ask" /\ ~processStopping =>
        /\ active <=> paused
        /\ active <=> Required(ingress, queued)

(***************************************************************************)
(* What a running process writes is processed, or the process is stopped:  *)
(* no pause is for ever.                                                   *)
(***************************************************************************)
OutputIsProcessed ==
    \A n \in 1..MaxWritten : (written >= n) ~> (processed >= n \/ processStopping)

(***************************************************************************)
(* Reserving one read under the hard limit is documented to keep the exit  *)
(* drain within what the session can hold before it drains.                *)
(***************************************************************************)
ExitDrainFits == overflow = "none"
===============================================================================
