--------------------------- MODULE OutputFlowProofs ---------------------------
(***************************************************************************)
(* For any thresholds of the session's queue and any size of a read: a     *)
(* running process never meets the hard limit, nothing taken is lost       *)
(* between the queues, and backpressure tracks the queues.                 *)
(***************************************************************************)
EXTENDS OutputFlow, TLAPS

(***************************************************************************)
(* What derive_native_backend_output_delivery_limits promises: a read, or  *)
(* one chunk of a replay, that begins below the high water ends within the *)
(* hard limit; and one read on top of a full pause keeps within it too.    *)
(***************************************************************************)
LEMMA LimitsFit ==
    /\ Read \in Nat \ {0} /\ Budget \in Nat \ {0}
    /\ Replay \in 1..Budget
    /\ High - 1 + Read <= Hard
    /\ High - 1 + Replay <= Hard
    /\ High - 1 + Read + Budget <= Hard
BY FlowAssumption, ReadChunkAssumption
   DEF Read, Budget, Replay, ReadChunk, PausedBudget, ReplayChunk, Headroom, Least

Running == ~processStopping

FlowTypes ==
    /\ ingress \in Nat /\ queued \in Nat /\ batch \in Nat
    /\ chunk \in Nat /\ held \in Nat /\ fifo \in Nat
    /\ paused \in BOOLEAN /\ active \in BOOLEAN
    /\ processStopping \in BOOLEAN /\ stopRequested \in BOOLEAN
    /\ overflow \in {"none", "queued", "handled"}
    /\ stage \in {"none", "deliver", "ask", "next"}
    /\ deliverer \in {"none", "reader", "waiter", "gui"}
    /\ gui \in {"idle", "drain", "enqueue", "step", "retire", "terminate"}
    /\ pty \in Nat

\* What is on its way is never more than fits above the high water.
ChunksFit ==
    /\ held <= Read
    /\ High - 1 + chunk <= Hard
    /\ stage = "none" <=> deliverer = "none"

\* A running process delivers only while the ingress has room, and is paused
\* before the next delivery when it has none.
RoomWhileRunning ==
    Running =>
        /\ overflow = "none" /\ ~stopRequested
        /\ stage = "deliver" => ingress < High
        /\ ~paused /\ stage # "ask" => ingress < High

\* The drain holds a batch only while it queues it.
BatchFits ==
    /\ gui # "enqueue" => batch = 0
    /\ queued + batch <= Hard

\* The flag and the backend agree, and follow the queues except between a take
\* and the next command queued, and between a delivery and its pause.
FlagFollows ==
    Running =>
        /\ active <=> paused
        /\ gui # "enqueue" /\ active => Required(ingress, queued)
        /\ gui # "enqueue" /\ stage # "ask" /\ Required(ingress, queued) => active

FlowInv == FlowTypes /\ ChunksFit /\ RoomWhileRunning /\ BatchFits /\ FlagFollows
-------------------------------------------------------------------------------
\* A chunk of a replay comes from the FIFO and fits above the high water.
LEMMA ReplayChunkFits ==
    ASSUME FlowTypes, NEW t \in {"waiter", "gui"}, StartReplay(t)
    PROVE  /\ chunk' \in Nat /\ fifo' \in Nat
           /\ High - 1 + chunk' <= Hard
           /\ deliverer' = t /\ stage' = "deliver"
BY LimitsFit, FlowAssumption DEF FlowTypes, StartReplay, Least

\* set_output_backpressure_active leaves flag and backend in agreement, and
\* starts a replay only from a backend it resumes.
LEMMA BackpressureStep ==
    ASSUME FlowTypes, ChunksFit, NEW required \in BOOLEAN, SetBackpressure(required)
    PROVE  /\ active' = required
           /\ fifo' \in Nat /\ chunk' \in Nat /\ paused' \in BOOLEAN
           /\ High - 1 + chunk' <= Hard
           /\ stage' = "none" <=> deliverer' = "none"
           /\ stage' \in {"none", "deliver", "ask", "next"}
           /\ deliverer' \in {"none", "reader", "waiter", "gui"}
           /\ Running /\ ~stopRequested /\ (active <=> paused) => (active' <=> paused')
           /\ Running /\ stage' # stage => ~required /\ stage' = "deliver"
<1>1. CASE active # required /\ ~stopRequested /\ SetOutputPaused("gui", required)
  <2>1. CASE ~paused' /\ StartReplay("gui")
    <3>1. /\ chunk' \in Nat /\ fifo' \in Nat /\ High - 1 + chunk' <= Hard
          /\ deliverer' = "gui" /\ stage' = "deliver"
      BY <2>1, ReplayChunkFits
    <3>2. active' = required /\ paused' = (required /\ ~processStopping) /\ ~paused'
      BY <1>1, <2>1 DEF SetBackpressure, SetOutputPaused
    <3> QED BY <1>1, <3>1, <3>2 DEF FlowTypes, Running
  <2>2. CASE UNCHANGED <<fifo, delivery>>
    BY <1>1, <2>2
       DEF SetBackpressure, SetOutputPaused, FlowTypes, Running, ChunksFit, delivery
  <2> QED BY <1>1, <2>1, <2>2 DEF SetOutputPaused
<1>2. CASE (active = required \/ stopRequested) /\ BackendUntouched
  BY <1>2 DEF SetBackpressure, BackendUntouched, FlowTypes, ChunksFit, Running, delivery
<1> QED BY <1>1, <1>2 DEF SetBackpressure

\* Whatever the GUI thread has done to its own queue, deciding backpressure
\* restores the agreement of queues, flag and backend.
LEMMA BackpressureKeeps ==
    ASSUME FlowInv, queued' \in Nat, SetBackpressure(Required(ingress, queued')),
           UNCHANGED <<processStopping, ingress, overflow, stopRequested, held>>
    PROVE  /\ fifo' \in Nat /\ chunk' \in Nat /\ paused' \in BOOLEAN /\ active' \in BOOLEAN
           /\ stage' \in {"none", "deliver", "ask", "next"}
           /\ deliverer' \in {"none", "reader", "waiter", "gui"}
           /\ ChunksFit' /\ RoomWhileRunning' /\ FlagFollows'
<1> DEFINE required == Required(ingress, queued')
<1>1. required \in BOOLEAN
  BY DEF Required
<1>2. /\ active' = required
      /\ fifo' \in Nat /\ chunk' \in Nat /\ paused' \in BOOLEAN
      /\ High - 1 + chunk' <= Hard
      /\ stage' = "none" <=> deliverer' = "none"
      /\ stage' \in {"none", "deliver", "ask", "next"}
      /\ deliverer' \in {"none", "reader", "waiter", "gui"}
      /\ Running /\ ~stopRequested /\ (active <=> paused) => (active' <=> paused')
      /\ Running /\ stage' # stage => ~required /\ stage' = "deliver"
  BY <1>1, BackpressureStep DEF FlowInv
<1>3. ChunksFit'
  BY <1>2 DEF FlowInv, ChunksFit
<1>4. Running' => (active' <=> paused') /\ overflow' = "none" /\ ~stopRequested'
  BY <1>2 DEF FlowInv, FlagFollows, RoomWhileRunning, Running
<1>5. required <=> Required(ingress', queued')
  BY DEF Required
<1>6. FlagFollows'
  BY <1>2, <1>4, <1>5 DEF FlagFollows
<1>7. RoomWhileRunning'
  <2>1. ~required => ingress' < High
    BY FlowAssumption DEF Required, FlowInv, FlowTypes
  <2>2. Running' /\ stage' = "deliver" => ingress' < High
    BY <1>2, <2>1 DEF FlowInv, RoomWhileRunning, Running
  <2> QED BY <1>2, <1>4, <2>1, <2>2 DEF RoomWhileRunning
<1> QED BY <1>1, <1>2, <1>3, <1>6, <1>7

LEMMA FlowInit == Init => FlowInv
<1> SUFFICES ASSUME Init PROVE FlowInv
  OBVIOUS
<1>1. FlowTypes
  BY DEF Init, FlowTypes
<1>2. ChunksFit
  BY LimitsFit, FlowAssumption DEF Init, ChunksFit
<1>3. RoomWhileRunning
  BY FlowAssumption DEF Init, RoomWhileRunning
<1>4. BatchFits
  BY FlowAssumption DEF Init, BatchFits
<1>5. FlagFollows
  BY FlowAssumption DEF Init, FlagFollows, Required
<1> QED BY <1>1, <1>2, <1>3, <1>4, <1>5 DEF FlowInv

LEMMA FlowStep == FlowInv /\ [Next]_vars => FlowInv'
<1> SUFFICES ASSUME FlowInv, [Next]_vars PROVE FlowInv'
  OBVIOUS
<1> USE FlowAssumption, LimitsFit DEF FlowInv
<1>1. CASE ChildWrites
  BY <1>1 DEF ChildWrites, backend, delivery, session, FlowTypes, ChunksFit, RoomWhileRunning,
     BatchFits, FlagFollows, Running, Required
<1>2. CASE RootExits
  <2>1. CASE StartReplay("waiter")
    BY <1>2, <2>1, ReplayChunkFits
       DEF RootExits, StartReplay, kernel, session, FlowTypes, ChunksFit, RoomWhileRunning,
       BatchFits, FlagFollows, Running
  <2>2. CASE UNCHANGED <<fifo, delivery>>
    BY <1>2, <2>2 DEF RootExits, kernel, delivery, session, FlowTypes, ChunksFit,
       RoomWhileRunning, BatchFits, FlagFollows, Running
  <2> QED BY <1>2, <2>1, <2>2 DEF RootExits
<1>3. CASE ReaderReads
  BY <1>3 DEF ReaderReads, ReadSize, Least, backend, delivery, session, FlowTypes, ChunksFit,
     RoomWhileRunning, BatchFits, FlagFollows, Running, Required
<1>4. CASE ReaderBuffers
  BY <1>4 DEF ReaderBuffers, kernel, delivery, session, FlowTypes, ChunksFit, RoomWhileRunning,
     BatchFits, FlagFollows, Running, Required
<1>5. CASE ReaderDelivers
  BY <1>5 DEF ReaderDelivers, OutputPending, kernel, backend, session, FlowTypes, ChunksFit,
     RoomWhileRunning, BatchFits, FlagFollows, Running, Required
<1>6. CASE CallbackQueues
  BY <1>6 DEF CallbackQueues, Asks, kernel, backend, session, FlowTypes, ChunksFit,
     RoomWhileRunning, BatchFits, FlagFollows, Running, Required
<1>7. CASE CallbackAsks
  <2>1. /\ stage = "ask" /\ stage' = "next"
        /\ UNCHANGED <<pty, held, fifo, processStopping, deliverer, chunk, ingress, overflow, gui,
                       batch, queued, stopRequested>>
    BY <1>7 DEF CallbackAsks, kernel, session
  <2>2. CASE Required(ingress, queued)
    <3>1. active' = TRUE /\ paused' \in BOOLEAN /\ (Running => paused' = TRUE)
      BY <1>7, <2>2 DEF CallbackAsks, PauseFromIngress, FlowTypes, RoomWhileRunning, Running
    <3> QED BY <2>1, <2>2, <3>1 DEF FlowTypes, ChunksFit, RoomWhileRunning, BatchFits,
       FlagFollows, Running, Required
  <2>3. CASE ~Required(ingress, queued)
    <3>1. active' = active /\ paused' = paused
      BY <1>7, <2>3 DEF CallbackAsks, PauseFromIngress, FlowTypes
    <3> QED BY <2>1, <2>3, <3>1 DEF FlowTypes, ChunksFit, RoomWhileRunning, BatchFits,
       FlagFollows, Running, Required
  <2> QED BY <2>2, <2>3
<1>8. CASE DeliveryContinues
  <2>1. StartReplay(deliverer) /\ deliverer \in {"waiter", "gui"}
    BY <1>8 DEF DeliveryContinues, FlowTypes, ChunksFit
  <2>2. /\ chunk' \in Nat /\ fifo' \in Nat /\ High - 1 + chunk' <= Hard
        /\ deliverer' = deliverer /\ stage' = "deliver"
    BY <2>1, ReplayChunkFits
  <2> QED BY <1>8, <2>1, <2>2 DEF DeliveryContinues, kernel, session, FlowTypes,
     ChunksFit, RoomWhileRunning, BatchFits, FlagFollows, Running, Required
<1>9. CASE DeliveryEnds
  BY <1>9 DEF DeliveryEnds, kernel, backend, session, FlowTypes, ChunksFit, RoomWhileRunning,
     BatchFits, FlagFollows, Running, Required
<1>10. CASE GuiLocks \/ GuiUnlocks \/ TerminateReturns
  BY <1>10 DEF GuiLocks, GuiUnlocks, TerminateReturns, GuiAt, kernel, backend, delivery, session,
     FlowTypes, ChunksFit, RoomWhileRunning, BatchFits, FlagFollows, Running, Required
<1>11. CASE DrainTakes
  BY <1>11 DEF DrainTakes, GuiAt, Room, Least, kernel, backend, delivery, session, FlowTypes,
     ChunksFit, RoomWhileRunning, BatchFits, FlagFollows, Running, Required
<1>12. CASE DrainHandlesOverflow
  <2>1. processStopping /\ UNCHANGED <<backend, delivery>>
    BY <1>12 DEF DrainHandlesOverflow, FlowTypes, RoomWhileRunning, Running
  <2> QED BY <1>12, <2>1 DEF DrainHandlesOverflow, kernel, backend, delivery, session, FlowTypes,
     ChunksFit, RoomWhileRunning, BatchFits, FlagFollows, Running
<1>13. CASE DrainEnqueues
  <2>1. PICK n \in 1..batch :
          /\ batch' = batch - n
          /\ \/ stopRequested /\ UNCHANGED <<queued, active>> /\ BackendUntouched
             \/ ~stopRequested /\ queued' = queued + n
                /\ SetBackpressure(Required(ingress, queued'))
    BY <1>13 DEF DrainEnqueues
  <2>2. /\ batch' \in Nat /\ gui = "enqueue" /\ gui' \in {"drain", "enqueue"}
        /\ gui' # "enqueue" => batch' = 0
        /\ UNCHANGED <<pty, held, processStopping, ingress, overflow, stopRequested>>
    BY <1>13, <2>1 DEF DrainEnqueues, GuiAt, kernel, FlowTypes
  <2>3. CASE stopRequested /\ UNCHANGED <<queued, active>> /\ BackendUntouched
    BY <2>1, <2>2, <2>3 DEF BackendUntouched, delivery, FlowTypes, ChunksFit, RoomWhileRunning,
       BatchFits, FlagFollows, Running
  <2>4. CASE queued' = queued + n /\ SetBackpressure(Required(ingress, queued'))
    <3>1. queued' \in Nat /\ BatchFits'
      BY <2>1, <2>2, <2>4 DEF FlowTypes, BatchFits
    <3> QED BY <2>2, <2>4, <3>1, BackpressureKeeps DEF FlowTypes
  <2> QED BY <2>1, <2>3, <2>4
<1>14. CASE StepConsumes
  <2>1. PICK n \in 1..queued : queued' = queued - n /\ StepBackpressure
    BY <1>14 DEF StepConsumes
  <2>2. /\ gui = "step" /\ gui' = "retire" /\ batch' = batch
        /\ UNCHANGED <<pty, held, processStopping, ingress, overflow, stopRequested>>
    BY <1>14 DEF StepConsumes, GuiAt, kernel
  <2>3. queued' \in Nat /\ BatchFits'
    BY <2>1, <2>2 DEF FlowTypes, BatchFits
  <2> QED BY <2>1, <2>2, <2>3, BackpressureKeeps DEF FlowTypes, StepBackpressure
<1>15. CASE StepRetires
  <2>1. /\ gui = "retire" /\ gui' \in {"drain", "idle"} /\ UNCHANGED <<batch, queued>>
        /\ UNCHANGED <<pty, held, processStopping, ingress, overflow, stopRequested>>
    BY <1>15 DEF StepRetires, GuiAt, kernel, session
  <2>2. queued' \in Nat /\ BatchFits'
    BY <2>1 DEF FlowTypes, BatchFits
  <2>3. CASE StepBackpressure
    BY <2>1, <2>2, <2>3, BackpressureKeeps DEF FlowTypes, StepBackpressure
  <2>4. CASE UNCHANGED active /\ BackendUntouched
    BY <2>1, <2>2, <2>4 DEF BackendUntouched, delivery, FlowTypes, ChunksFit, RoomWhileRunning,
       FlagFollows, Running, Required
  <2> QED BY <1>15, <2>3, <2>4 DEF StepRetires
<1>16. CASE GuiTerminates
  <2>1. CASE StartReplay("gui")
    BY <1>16, <2>1, ReplayChunkFits
       DEF GuiTerminates, GuiAt, StartReplay, kernel, session, FlowTypes, ChunksFit,
       RoomWhileRunning, BatchFits, FlagFollows, Running
  <2>2. CASE UNCHANGED <<fifo, delivery>>
    BY <1>16, <2>2 DEF GuiTerminates, GuiAt, kernel, delivery, session, FlowTypes, ChunksFit,
       RoomWhileRunning, BatchFits, FlagFollows, Running
  <2> QED BY <1>16, <2>1, <2>2 DEF GuiTerminates
<1>17. CASE UNCHANGED vars
  BY <1>17 DEF vars, kernel, backend, delivery, session, FlowTypes, ChunksFit, RoomWhileRunning,
     BatchFits, FlagFollows, Running, Required
<1> QED BY <1>1, <1>2, <1>3, <1>4, <1>5, <1>6, <1>7, <1>8, <1>9, <1>10, <1>11, <1>12, <1>13,
   <1>14, <1>15, <1>16, <1>17 DEF Next, Reader, Deliver, Drain

THEOREM FlowInvariant == Spec => []FlowInv
<1>1. Init => FlowInv
  BY FlowInit
<1>2. FlowInv /\ [Next]_vars => FlowInv'
  BY FlowStep
<1> QED BY <1>1, <1>2, PTL DEF Spec

(***************************************************************************)
(* The output of a running process never meets the hard limit, for any     *)
(* thresholds and read size: pause, replay and drain keep every delivery   *)
(* within the headroom above the high water.                               *)
(***************************************************************************)
THEOREM RunningProcessIsNotOverflowed == Spec => []RunningOutputFits
<1>1. FlowInv => RunningOutputFits
  BY DEF FlowInv, RoomWhileRunning, Running, RunningOutputFits
<1> QED BY <1>1, FlowInvariant, PTL

(***************************************************************************)
(* The session's own queue has room for all that the drain takes from the  *)
(* callback ingress, for any thresholds.                                   *)
(***************************************************************************)
THEOREM NothingTakenIsLost == Spec => []TakenOutputFits
<1>1. FlowInv => TakenOutputFits
  BY DEF FlowInv, BatchFits, TakenOutputFits
<1> QED BY <1>1, FlowInvariant, PTL

(***************************************************************************)
(* With m_mutex free, a running backend is paused exactly when the flag is *)
(* set and exactly when a queue is at its high water, for any thresholds.  *)
(***************************************************************************)
THEOREM NoPauseIsLeftBehind == Spec => []BackpressureTracksQueues
<1>1. FlowInv => BackpressureTracksQueues
  BY DEF FlowInv, FlowTypes, FlagFollows, Running, BackpressureTracksQueues
<1> QED BY <1>1, FlowInvariant, PTL
-------------------------------------------------------------------------------
Chunk == 0..(IF Read < Replay THEN Replay ELSE Read)

InBackend == pty + held + (chunk + fifo)
InSession == ingress + (processed + queued + batch)

\* Every byte is in one place at a time, and only what was written is anywhere.
Conserved == InBackend + InSession <= written

Limits ==
    /\ written \in 0..MaxWritten /\ pty <= PtyCapacity /\ processed \in Nat
    /\ fifo <= Budget /\ ingress <= Hard
    /\ chunk \in Chunk
    /\ stage # "deliver" => chunk = 0

Bounds == Limits /\ Conserved

\* A replay at most moves bytes from the FIFO to the chunk.
Replays ==
    /\ fifo' <= Budget /\ chunk' \in Chunk
    /\ stage' # "deliver" => chunk' = 0
    /\ chunk' + fifo' = chunk + fifo

LEMMA ReplayMoves ==
    ASSUME FlowTypes, Limits, stage # "deliver", NEW t \in {"waiter", "gui"}, StartReplay(t)
    PROVE  Replays
BY LimitsFit, FlowAssumption DEF FlowTypes, Limits, Chunk, StartReplay, Least, Replays

LEMMA BackpressureMoves ==
    ASSUME FlowInv, Limits, NEW required \in BOOLEAN,
           SetBackpressure(required) \/ BackendUntouched
    PROVE  Replays
<1>1. CASE deliverer = "none" /\ StartReplay("gui")
  BY <1>1, ReplayMoves DEF FlowInv, ChunksFit
<1>2. CASE UNCHANGED <<fifo, delivery>>
  BY <1>2 DEF Limits, delivery, Replays
<1> QED BY <1>1, <1>2 DEF SetBackpressure, SetOutputPaused, BackendUntouched, delivery

\* Bytes that go from one place to the next, or are thrown away.
LEMMA SumKept ==
    ASSUME NEW p \in Nat, NEW h \in Nat, NEW c \in Nat, NEW f \in Nat, NEW i \in Nat,
           NEW r \in Nat, NEW q \in Nat, NEW b \in Nat, NEW w \in Nat,
           NEW c2 \in Nat, NEW f2 \in Nat, NEW i2 \in Nat,
           NEW r2 \in Nat, NEW q2 \in Nat, NEW b2 \in Nat,
           \/ i2 = i /\ c2 + f2 = c + f
           \/ i2 <= i + c /\ c2 = 0 /\ f2 = f,
           r2 + q2 + b2 <= r + q + b,
           p + h + (c + f) + (i + (r + q + b)) <= w
    PROVE  p + h + (c2 + f2) + (i2 + (r2 + q2 + b2)) <= w
OBVIOUS

\* What a delivery, a replay or a step of the session leaves to check.
LEMMA BytesMove ==
    ASSUME FlowTypes, FlowTypes', Bounds, processed' \in Nat, UNCHANGED <<kernel, held>>,
           \/ ingress' = ingress /\ chunk' + fifo' = chunk + fifo
           \/ ingress' <= ingress + chunk /\ chunk' = 0 /\ fifo' = fifo,
           processed' + queued' + batch' <= processed + queued + batch
    PROVE  Conserved'
<1>1. /\ written' = written /\ pty' = pty /\ held' = held
      /\ written \in Nat /\ processed \in Nat /\ Conserved
  BY FlowAssumption DEF kernel, Bounds, Limits
<1>2. PICK c2 \in Nat, f2 \in Nat, i2 \in Nat :
          c2 = chunk' /\ f2 = fifo' /\ i2 = ingress'
  BY DEF FlowTypes
<1>3. PICK r2 \in Nat, q2 \in Nat, b2 \in Nat :
          r2 = processed' /\ q2 = queued' /\ b2 = batch'
  BY DEF FlowTypes
<1>4. /\ \/ i2 = ingress /\ c2 + f2 = chunk + fifo
         \/ i2 <= ingress + chunk /\ c2 = 0 /\ f2 = fifo
      /\ r2 + q2 + b2 <= processed + queued + batch
  BY <1>2, <1>3
<1>5. /\ pty \in Nat /\ held \in Nat /\ chunk \in Nat /\ fifo \in Nat
      /\ ingress \in Nat /\ queued \in Nat /\ batch \in Nat
  BY DEF FlowTypes
<1>6. pty + held + (c2 + f2) + (i2 + (r2 + q2 + b2)) <= written
  BY <1>1, <1>4, <1>5, SumKept DEF Conserved, InBackend, InSession
<1> QED BY <1>1, <1>2, <1>3, <1>6 DEF Conserved, InBackend, InSession

\* A step of the session or a replay: everything else stands still.
LEMMA ReplayKeepsBounds ==
    ASSUME FlowTypes, FlowTypes', Bounds, Replays, processed' \in Nat,
           UNCHANGED <<kernel, held, ingress>>,
           processed' + queued' + batch' <= processed + queued + batch
    PROVE  Bounds'
<1>1. Conserved'
  BY BytesMove DEF Replays
<1>2. Limits'
  BY DEF Replays, Bounds, Limits, kernel
<1> QED BY <1>1, <1>2 DEF Bounds

LEMMA BoundsInit == Init => Bounds
BY LimitsFit, FlowAssumption DEF Init, Bounds, Limits, Chunk, Conserved, InBackend, InSession

LEMMA BoundsStep == FlowInv /\ FlowInv' /\ Bounds /\ [Next]_vars => Bounds'
<1> SUFFICES ASSUME FlowInv, FlowInv', Bounds, [Next]_vars PROVE Bounds'
  OBVIOUS
<1> USE DEF Bounds, Conserved, InBackend, InSession
<1>T. /\ FlowTypes /\ FlowTypes' /\ ChunksFit /\ Limits
      /\ processed \in Nat /\ queued \in Nat /\ batch \in Nat
  BY DEF FlowInv, FlowTypes, Limits
<1>1. CASE ChildWrites
  BY <1>1, <1>T, FlowAssumption DEF ChildWrites, backend, delivery, session, FlowTypes, Limits
<1>2. CASE RootExits \/ DrainHandlesOverflow \/ GuiTerminates \/ DeliveryContinues
  <2>1. UNCHANGED <<kernel, held, ingress, session>>
    BY <1>2 DEF RootExits, DrainHandlesOverflow, GuiTerminates, DeliveryContinues
  <2>2. Replays
    <3>1. CASE UNCHANGED <<fifo, delivery>>
      BY <3>1, <1>T DEF Limits, delivery, Replays
    <3>2. CASE stage # "deliver" /\ (StartReplay("waiter") \/ StartReplay("gui"))
      BY <3>2, <1>T, ReplayMoves
    <3> QED BY <1>2, <3>1, <3>2, <1>T
       DEF RootExits, DrainHandlesOverflow, GuiTerminates, DeliveryContinues, backend, ChunksFit,
       FlowTypes
  <2>3. processed' \in Nat /\ processed' + queued' + batch' <= processed + queued + batch
    BY <2>1, <1>T DEF session
  <2> QED BY <2>1, <2>2, <2>3, <1>T, ReplayKeepsBounds
<1>3. CASE ReaderReads
  <2>1. PICK n \in 1..ReadSize : held' = n /\ pty' = pty - n
    BY <1>3 DEF ReaderReads
  <2>2. /\ held = 0 /\ written' = written
        /\ UNCHANGED <<fifo, delivery, ingress, session>>
    BY <1>3 DEF ReaderReads, backend
  <2>3. n \in Nat /\ n <= pty /\ pty \in Nat
    <3>1. pty \in Nat /\ fifo \in Nat
      BY <1>T DEF FlowTypes
    <3>2. ReadSize <= pty /\ ReadSize \in Int
      BY <3>1, LimitsFit DEF ReadSize, Least
    <3> QED BY <2>1, <3>1, <3>2
  <2> QED BY <2>1, <2>2, <2>3, <1>T, FlowAssumption DEF delivery, session, FlowTypes, Limits
<1>4. CASE ReaderBuffers
  BY <1>4, <1>T DEF ReaderBuffers, kernel, delivery, session, FlowTypes, Limits
<1>5. CASE ReaderDelivers
  <2>1. chunk = 0
    BY <1>5, <1>T DEF ReaderDelivers, OutputPending, Limits, ChunksFit
  <2> QED BY <1>5, <2>1, <1>T, LimitsFit
     DEF ReaderDelivers, kernel, backend, session, FlowTypes, ChunksFit, Limits, Chunk
<1>6. CASE CallbackQueues
  <2>1. chunk' = 0 /\ ingress' \in 0..Hard /\ ingress' <= ingress + chunk
    BY <1>6, <1>T, FlowAssumption DEF CallbackQueues, FlowTypes, Limits, Chunk
  <2>2. UNCHANGED <<kernel, fifo, held, session>>
    BY <1>6 DEF CallbackQueues, backend
  <2>3. processed' \in Nat /\ processed' + queued' + batch' <= processed + queued + batch
    BY <2>2, <1>T DEF session
  <2>4. Conserved'
    BY <2>1, <2>2, <2>3, <1>T, BytesMove
  <2>5. Limits'
    BY <2>1, <2>2, <1>T, LimitsFit DEF kernel, session, Limits, Chunk
  <2> QED BY <2>4, <2>5
<1>7. CASE CallbackAsks \/ DeliveryEnds \/ GuiLocks \/ GuiUnlocks \/ TerminateReturns
  BY <1>7, <1>T DEF CallbackAsks, DeliveryEnds, GuiLocks, GuiUnlocks, TerminateReturns, kernel,
     backend, delivery, session, Limits
<1>8. CASE DrainTakes
  BY <1>8, <1>T, FlowAssumption
     DEF DrainTakes, Room, Least, GuiAt, FlowInv, BatchFits, kernel, backend, delivery,
     FlowTypes, Limits
<1>9. CASE DrainEnqueues
  <2>1. PICK n \in 1..batch :
          /\ batch' = batch - n
          /\ \/ stopRequested /\ UNCHANGED <<queued, active>> /\ BackendUntouched
             \/ ~stopRequested /\ queued' = queued + n
                /\ SetBackpressure(Required(ingress, queued'))
    BY <1>9 DEF DrainEnqueues
  <2>2. UNCHANGED <<kernel, held, ingress, processed>>
    BY <1>9 DEF DrainEnqueues
  <2>3. processed' \in Nat /\ processed' + queued' + batch' <= processed + queued + batch
    BY <2>1, <2>2, <1>T
  <2>4. Replays
    BY <2>1, <1>T, BackpressureMoves DEF Required
  <2> QED BY <2>2, <2>3, <2>4, <1>T, ReplayKeepsBounds
<1>10. CASE StepConsumes
  <2>1. PICK n \in 1..queued :
          queued' = queued - n /\ processed' = processed + n /\ StepBackpressure
    BY <1>10 DEF StepConsumes
  <2>2. UNCHANGED <<kernel, held, ingress, batch>>
    BY <1>10 DEF StepConsumes
  <2>3. processed' \in Nat /\ processed' + queued' + batch' <= processed + queued + batch
    BY <2>1, <2>2, <1>T
  <2>4. Replays
    BY <2>1, <1>T, BackpressureMoves DEF Required, StepBackpressure
  <2> QED BY <2>2, <2>3, <2>4, <1>T, ReplayKeepsBounds
<1>11. CASE StepRetires
  <2>1. UNCHANGED <<kernel, held, ingress, session>>
    BY <1>11 DEF StepRetires
  <2>2. processed' \in Nat /\ processed' + queued' + batch' <= processed + queued + batch
    BY <2>1, <1>T DEF session
  <2>3. Replays
    BY <1>11, <1>T, BackpressureMoves DEF StepRetires, Required, StepBackpressure
  <2> QED BY <2>1, <2>2, <2>3, <1>T, ReplayKeepsBounds
<1>12. CASE UNCHANGED vars
  BY <1>12, <1>T DEF vars, kernel, backend, delivery, session, Limits
<1> QED BY <1>1, <1>2, <1>3, <1>4, <1>5, <1>6, <1>7, <1>8, <1>9, <1>10, <1>11, <1>12
   DEF Next, Reader, Deliver, Drain

(***************************************************************************)
(* Every queue on the way keeps its bound, for any thresholds: the paused  *)
(* FIFO its budget, a read and a replay their chunks, the two queues of    *)
(* the session the hard limit; and no byte is in two of them.              *)
(***************************************************************************)
THEOREM QueuesKeepTheirBounds == Spec => [](TypeOK /\ Conserved)
<1>1. Init => Bounds
  BY BoundsInit
<1>2. FlowInv /\ FlowInv' /\ Bounds /\ [Next]_vars => Bounds'
  BY BoundsStep
<1>3. FlowInv /\ Bounds => TypeOK /\ Conserved
  <2> SUFFICES ASSUME FlowInv, Bounds PROVE TypeOK /\ Conserved
    OBVIOUS
  <2>1. /\ FlowTypes /\ held <= Read /\ Limits /\ Conserved
        /\ queued + batch <= Hard /\ queued \in Nat /\ batch \in Nat
    BY DEF FlowInv, FlowTypes, ChunksFit, BatchFits, Bounds
  <2>2. batch \in 0..Hard /\ queued \in 0..Hard
    BY <2>1, FlowAssumption
  <2>3. processed \in 0..MaxWritten
    <3>1. InBackend \in Nat /\ ingress \in Nat /\ written \in Nat
      BY <2>1, FlowAssumption DEF InBackend, FlowTypes, Limits
    <3>2. processed <= InSession /\ InSession \in Nat /\ processed \in Nat
      BY <2>1, <3>1 DEF InSession, Limits
    <3> QED BY <2>1, <3>1, <3>2, FlowAssumption DEF Conserved, Limits
  <2> QED BY <2>1, <2>2, <2>3, LimitsFit, FlowAssumption DEF FlowTypes, Limits, Chunk, TypeOK
<1> QED BY <1>1, <1>2, <1>3, FlowInvariant, PTL DEF Spec
===============================================================================
