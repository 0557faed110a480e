---------------------------- MODULE BackendLifetime ----------------------------
(***************************************************************************)
(* One POSIX PTY backend from its construction to the deletion of its      *)
(* Impl: start with its gate, its launch and its workers, the public calls *)
(* in flight, the callbacks (CallbackGate) and the cleanup worker that     *)
(* inherits the Impl (CleanupOwner).  Product threads and workers run host *)
(* code in callbacks and error handlers, and host code may call back into  *)
(* the backend or destroy it.  What the workers transfer meanwhile is in   *)
(* PosixPtyOutput.                                                         *)
(***************************************************************************)
EXTENDS Naturals, FiniteSets, Sequences, SequencesExt

CONSTANTS
    Products,     \* the host's own threads
    Workers,      \* the reader, writer and wait threads
    NoThread,
    MaxFrames,    \* bound on the frames of one thread's stack
    MaxDepth,     \* bound on the callbacks among them
    backend       \* its reservation

Threads == Products \cup Workers

VARIABLES
    accepting, activeCalls, frames, revoker, ownDepth, draining, revokedBy,
    owner, impl, requested, released, cancelled, complete, worker, asleep, registry, unloaded,
    facade,       \* the facade holds m_impl
    stack,        \* [Threads -> open calls, callbacks and error handlers]
    armed,        \* threads between the snapshot of m_callbacks and its call
    handing,      \* what follows the revocation in progress
    startAttempted, startInProgress, running, stopping, aborted,
    callbacks,    \* m_callbacks is set
    latch,        \* the startup gate is open
    loops,        \* [Workers -> state of the thread]
    process,      \* the native side: "none", "alive", "stopped"
    births,       \* processes launched
    outcome,      \* of the start that was attempted
    shutdownStarted

Gate == INSTANCE CallbackGate WITH asleep <- draining
Owner == INSTANCE CleanupOwner WITH Job <- {backend}

ASSUME LifetimeAssumption == Gate!GateAssumption /\ MaxFrames \in Nat

gate  == <<accepting, activeCalls, frames, revoker, ownDepth, draining, revokedBy>>
own   == <<owner, impl, requested, released, cancelled, complete, worker, asleep, registry, unloaded>>
begin == <<startAttempted, startInProgress, running, aborted, latch, births, outcome>>
flags == <<stopping, callbacks>>
down  == <<loops, process, shutdownStarted>>
vars  == <<gate, own, begin, flags, down, facade, stack, armed, handing>>

\* Native_backend_public_call_guard: m_public_call_depth counts these frames.  A start
\* is the step it is at, a call that has nothing left to do is at "return".
Calls == {"call", "return", "start", "check", "launch", "ready", "spawn", "open", "cleanup"}

TypeOK ==
    /\ Gate!TypeOK /\ Owner!TypeOK
    /\ stack \in [Threads -> Seq(Calls \cup {"callback", "handler"})]
    /\ armed \subseteq Threads
    /\ handing \in {"none", "request", "release"}
    /\ loops \in [Workers -> {"none", "gated", "running", "done"}]
    /\ process \in {"none", "alive", "stopped"}
    /\ births \in Nat
    /\ outcome \in {"none", "accepted", "rejected"}
    /\ {facade, startAttempted, startInProgress, running, stopping, aborted, callbacks,
        latch, shutdownStarted} \subseteq BOOLEAN

Init ==
    /\ Gate!Init /\ Owner!Init
    /\ facade = FALSE
    /\ stack = [t \in Threads |-> <<>>]
    /\ armed = {}
    /\ handing = "none" /\ outcome = "none"
    /\ startAttempted = FALSE /\ startInProgress = FALSE /\ running = FALSE
    /\ stopping = FALSE /\ aborted = FALSE /\ callbacks = FALSE /\ latch = FALSE
    /\ loops = [w \in Workers |-> "none"]
    /\ process = "none" /\ births = 0
    /\ shutdownStarted = FALSE
-----------------------------------------------------------------------------
Top(t) == IF stack[t] = <<>> THEN "none" ELSE Last(stack[t])

Push(t, f) == stack' = [stack EXCEPT ![t] = Append(@, f)]
Pop(t) == stack' = [stack EXCEPT ![t] = Front(@)]
At(t, step) == Front(stack[t]) \o <<step>>
Become(t, step) == stack' = [stack EXCEPT ![t] = At(t, step)]

Free(t) == t # revoker /\ t \notin armed

\* Host code runs: a product thread outside the backend, a callback, a handler.
AtHost(t) ==
    /\ Free(t)
    /\ Top(t) \in {"callback", "handler"} \/ (t \in Products /\ stack[t] = <<>>)

OpenCalls == {t \in Threads : \E i \in DOMAIN stack[t] : stack[t][i] \in Calls}

\* Posix_pty_backend(): the Impl reserves its cleanup worker before anything else.
Construct ==
    /\ Owner!Reserve(backend)
    /\ facade' = TRUE
    /\ UNCHANGED <<gate, begin, flags, down, stack, armed, handing>>

\* A public method, start or another; while it runs it may deliver output (terminate,
\* resume), and a start may report.
EnterCall(t) ==
    /\ facade /\ AtHost(t)
    /\ \/ Len(stack[t]) < MaxFrames /\ Push(t, "call")
       \/ Len(stack[t]) + 1 < MaxFrames /\ Push(t, "start")
    /\ UNCHANGED <<gate, own, begin, flags, down, facade, armed, handing>>

LeaveCall(t) ==
    /\ Top(t) \in {"call", "return"} /\ Free(t)
    /\ Pop(t)
    /\ UNCHANGED <<gate, own, begin, flags, down, facade, armed, handing>>

\* deliver_native_backend_output_with_snapshot: m_callbacks is copied under the lock
\* and called after it.
Snapshot(t) ==
    /\ callbacks /\ Free(t) /\ Len(stack[t]) < MaxFrames
    /\ \/ Top(t) = "call"
       \/ t \in Workers /\ stack[t] = <<>> /\ loops[t] = "running"
    /\ armed' = armed \cup {t}
    /\ UNCHANGED <<gate, own, begin, flags, down, facade, stack, handing>>

\* A guarded callback: the gate admits it, or nothing is called.
Guarded(t, rest) ==
    \/ Gate!Enter(t)
       /\ stack' = [stack EXCEPT ![t] = Append(rest, "callback")]
    \/ ~accepting /\ UNCHANGED gate /\ stack' = [stack EXCEPT ![t] = rest]

Invoke(t) ==
    /\ t \in armed
    /\ armed' = armed \ {t}
    /\ Guarded(t, stack[t])
    /\ UNCHANGED <<own, begin, flags, down, facade, handing>>

CallbackReturns(t) ==
    /\ Top(t) = "callback" /\ Free(t)
    /\ Gate!Leave(t)
    /\ Pop(t)
    /\ UNCHANGED <<own, begin, flags, down, facade, armed, handing>>

HandlerReturns(t) ==
    /\ Top(t) = "handler" /\ Free(t)
    /\ Pop(t)
    /\ UNCHANGED <<gate, own, begin, flags, down, facade, armed, handing>>
-----------------------------------------------------------------------------
(***************************************************************************)
(* start, inside its public call.                                          *)
(***************************************************************************)
Repeated == running \/ startAttempted \/ startInProgress

Starting(t, step) == Top(t) = step /\ Free(t)

\* An invalid configuration, or a backend that was started before: the error handler
\* is called as it came.
Refuse(t) ==
    /\ Starting(t, "start")
    /\ stack' = [stack EXCEPT ![t] = Append(At(t, "return"), "handler")]
    /\ UNCHANGED <<gate, own, begin, flags, down, facade, armed, handing>>

Admit(t) ==
    /\ Starting(t, "start") /\ ~Repeated
    /\ Become(t, "check")
    /\ startInProgress' = TRUE
    /\ UNCHANGED <<gate, own, startAttempted, running, aborted, latch, births, outcome,
                   flags, down, facade, armed, handing>>

\* The working directory, the grid size, the arguments, the executable or a wake
\* pipe: reject_native_backend_start_attempt, and the backend may be started again.
RejectEarly(t) ==
    /\ Starting(t, "check")
    /\ startInProgress' = FALSE
    /\ \/ Guarded(t, At(t, "return"))
       \/ stack' = [stack EXCEPT ![t] = Append(At(t, "return"), "handler")] /\ UNCHANGED gate
    /\ UNCHANGED <<own, startAttempted, running, aborted, latch, births, outcome,
                   flags, down, facade, armed, handing>>

AttemptUnmarked(t) ==   \* mutant: only a start that succeeds counts as an attempt
    /\ Starting(t, "check")
    /\ Become(t, "launch")
    /\ UNCHANGED <<gate, own, begin, flags, down, facade, armed, handing>>

Attempt(t) ==
    /\ Starting(t, "check")
    /\ startAttempted' = TRUE
    /\ Become(t, "launch")
    /\ UNCHANGED <<gate, own, startInProgress, running, aborted, latch, births, outcome,
                   flags, down, facade, armed, handing>>

\* m_owner->launch: a process is born, the owner refuses, or what became of it is
\* not known.
Launch(t) ==
    /\ Starting(t, "launch")
    /\ \E born \in BOOLEAN, accepted \in BOOLEAN :
        /\ accepted => born
        /\ process' = IF born THEN "alive" ELSE process
        /\ births' = IF born THEN births + 1 ELSE births
        /\ \/ accepted /\ Become(t, "ready") /\ UNCHANGED <<gate, startInProgress>>
           \/ ~accepted /\ startInProgress' = FALSE /\ Guarded(t, At(t, "cleanup"))
    /\ UNCHANGED <<own, startAttempted, running, aborted, latch, outcome, flags, loops,
                   shutdownStarted, facade, armed, handing>>

\* O_NONBLOCK or the drain peer fails.
RejectLate(t) ==
    /\ Starting(t, "ready")
    /\ startInProgress' = FALSE
    /\ Guarded(t, At(t, "cleanup"))
    /\ UNCHANGED <<own, startAttempted, running, aborted, latch, births, outcome, flags, down,
                   facade, armed, handing>>

\* Every member is set, over what a destruction meanwhile wrote into them.
Commit(t) ==
    /\ Starting(t, "ready")
    /\ Become(t, "spawn")
    /\ startInProgress' = FALSE /\ startAttempted' = TRUE /\ running' = TRUE
    /\ stopping' = FALSE /\ aborted' = FALSE /\ callbacks' = TRUE
    /\ UNCHANGED <<gate, own, latch, births, outcome, down, facade, armed, handing>>

\* start_native_backend_workers: the threads wait at the latch until all are there.
SpawnWorker(t) ==
    /\ Starting(t, "spawn")
    /\ \E w \in Workers : loops[w] = "none" /\ loops' = [loops EXCEPT ![w] = "gated"]
    /\ UNCHANGED <<gate, own, begin, flags, process, shutdownStarted, facade, stack, armed, handing>>

AllSpawned == \A w \in Workers : loops[w] # "none"

OpenLatch(t) ==
    /\ Starting(t, "spawn") /\ AllSpawned
    /\ Become(t, "return")
    /\ latch' = TRUE /\ outcome' = "accepted"
    /\ UNCHANGED <<gate, own, startAttempted, startInProgress, running, aborted, births,
                   flags, down, facade, armed, handing>>

\* A thread cannot be created: the abort is recorded, then the gate opened ...
AbortGate(t) ==
    /\ Starting(t, "spawn") /\ ~AllSpawned
    /\ Become(t, "open")
    /\ aborted' = TRUE
    /\ UNCHANGED <<gate, own, startAttempted, startInProgress, running, latch, births, outcome,
                   flags, down, facade, armed, handing>>

\* ... and the failure reported, if a destruction has left m_callbacks.
OpenAborted(t) ==
    /\ Starting(t, "open")
    /\ latch' = TRUE
    /\ \/ callbacks /\ Guarded(t, At(t, "cleanup"))
       \/ ~callbacks /\ Become(t, "cleanup") /\ UNCHANGED gate
    /\ UNCHANGED <<own, startAttempted, startInProgress, running, aborted, births, outcome,
                   flags, down, facade, armed, handing>>

\* request_deferred_cleanup.
Fail(t) ==
    /\ Starting(t, "cleanup")
    /\ Become(t, "return")
    /\ outcome' = "rejected"
    /\ Gate!BeginRevoke(t)
    /\ stopping' = TRUE /\ callbacks' = FALSE
    /\ handing' = "request"
    /\ UNCHANGED <<own, startAttempted, startInProgress, running, aborted, latch, births,
                   down, facade, armed>>
-----------------------------------------------------------------------------
(***************************************************************************)
(* ~Posix_pty_backend: release_to_cleanup.  Of two revocations that meet   *)
(* the second waits for the first here; in the code both wait for the same *)
(* calls.  Nothing asks whether a call is open.  What a call that is still *)
(* open does after the deletion is undefined: here it goes on as before.   *)
(***************************************************************************)
Destroy(t) ==
    /\ facade /\ AtHost(t)
    /\ facade' = FALSE
    /\ Gate!BeginRevoke(t)
    /\ stopping' = TRUE /\ callbacks' = FALSE
    /\ handing' = "release"
    /\ UNCHANGED <<own, begin, down, stack, armed>>

SleepUntilDrained ==
    /\ Gate!SleepUntilDrained
    /\ UNCHANGED <<own, begin, flags, down, facade, stack, armed, handing>>

\* revoke_and_drain returns, and the reservation is told.
HandOver ==
    /\ Gate!FinishRevoke
    /\ \/ handing = "request" /\ owner[backend] = "held" /\ Owner!Request(backend)
       \/ handing = "request" /\ owner[backend] = "gone" /\ UNCHANGED own
       \/ handing = "release" /\ Owner!Release(backend)
    /\ handing' = "none"
    /\ UNCHANGED <<begin, flags, down, facade, stack, armed>>
-----------------------------------------------------------------------------
(***************************************************************************)
(* The workers.                                                            *)
(***************************************************************************)
AdmitWorker(w) ==
    /\ loops[w] = "gated" /\ latch
    /\ loops' = [loops EXCEPT ![w] = IF aborted THEN "done" ELSE "running"]
    /\ UNCHANGED <<gate, own, begin, flags, process, shutdownStarted, facade, stack, armed, handing>>

\* A loop ends with the process or with the backend.
WorkerEnds(w) ==
    /\ loops[w] = "running" /\ stack[w] = <<>> /\ Free(w)
    /\ loops' = [loops EXCEPT ![w] = "done"]
    /\ UNCHANGED <<gate, own, begin, flags, process, shutdownStarted, facade, stack, armed, handing>>
-----------------------------------------------------------------------------
(***************************************************************************)
(* The cleanup worker of this backend: its public calls drain, then        *)
(* shutdown stops the owner and joins the workers.                         *)
(***************************************************************************)
BeginShutdownAtOnce ==   \* mutant: shutdown does not wait for the public calls
    /\ worker[backend] = "cleanup" /\ ~shutdownStarted
    /\ shutdownStarted' = TRUE /\ process' = "stopped"
    /\ stopping' = TRUE /\ callbacks' = FALSE
    /\ UNCHANGED <<gate, own, begin, loops, facade, stack, armed, handing>>

BeginShutdown ==
    /\ worker[backend] = "cleanup" /\ ~shutdownStarted
    /\ OpenCalls = {}
    /\ shutdownStarted' = TRUE /\ process' = "stopped"
    /\ stopping' = TRUE /\ callbacks' = FALSE
    /\ UNCHANGED <<gate, own, begin, loops, facade, stack, armed, handing>>

EndShutdown ==
    /\ shutdownStarted
    /\ \A w \in Workers : loops[w] \in {"none", "done"}
    /\ Owner!CleanUp(backend)
    /\ running' = FALSE
    /\ UNCHANGED <<gate, startAttempted, startInProgress, aborted, latch, births, outcome,
                   flags, down, facade, stack, armed, handing>>

WorkerOfOwner == Owner!Gate(backend) \/ Owner!Settle(backend) \/ Owner!Hold(backend) \/ Owner!Dispose(backend)

\* The other steps of the cleanup worker, and of its registry.
CleanupStep == WorkerOfOwner /\ UNCHANGED <<gate, begin, flags, down, facade, stack, armed, handing>>

RegistryStep ==
    /\ Owner!ReserveFails(backend) \/ Owner!Observe \/ Owner!Unload
    /\ UNCHANGED <<gate, begin, flags, down, facade, stack, armed, handing>>
-----------------------------------------------------------------------------
StartStep(t) ==
    \/ Refuse(t) \/ Admit(t) \/ RejectEarly(t) \/ Attempt(t) \/ Launch(t) \/ RejectLate(t)
    \/ Commit(t) \/ SpawnWorker(t) \/ OpenLatch(t) \/ AbortGate(t) \/ OpenAborted(t) \/ Fail(t)

HostReturns(t) == CallbackReturns(t) \/ HandlerReturns(t)

ThreadStep(t) == LeaveCall(t) \/ Invoke(t) \/ HostReturns(t) \/ StartStep(t)

Next ==
    \/ Construct \/ SleepUntilDrained \/ HandOver
    \/ BeginShutdown \/ EndShutdown \/ CleanupStep \/ RegistryStep
    \/ \E t \in Threads : EnterCall(t) \/ Snapshot(t) \/ Destroy(t) \/ ThreadStep(t)
    \/ \E w \in Workers : AdmitWorker(w) \/ WorkerEnds(w)

Spec == Init /\ [][Next]_vars

\* Every thread keeps being scheduled: a product thread, a worker, whose loop ends
\* because it was told to, the one inside a revocation, the cleanup worker.  Host code
\* in callbacks and handlers returns, after finitely many calls of its own.  Nobody
\* has to call, to start or to destroy.
Fairness ==
    /\ WF_vars(SleepUntilDrained \/ HandOver)
    /\ WF_vars(BeginShutdown \/ EndShutdown \/ CleanupStep)
    /\ \A t \in Products : WF_vars(ThreadStep(t))
    /\ \A w \in Workers : WF_vars(ThreadStep(w) \/ AdmitWorker(w) \/ (stopping /\ WorkerEnds(w)))
    /\ \A t \in Threads : SF_vars(HostReturns(t))

FairSpec == Spec /\ Fairness
-----------------------------------------------------------------------------
(***************************************************************************)
(* The Impl outlives the facade and the cleanup worker that use it.  When  *)
(* it is deleted none of its workers runs, the process it launched is      *)
(* stopped and no start is at one of its steps.  No other public call is   *)
(* open either, unless the start was rejected: its cleanup has waited for  *)
(* the calls before the host destroys the backend (RetainedWhileInUse).    *)
(***************************************************************************)
ImplOutlivesUsers ==
    /\ Owner!ImplOutlivesUsers
    /\ owner[backend] # "none" /\ ~impl[backend] =>
         /\ \A w \in Workers : loops[w] \in {"none", "done"}
         /\ process # "alive"
         /\ \A t \in OpenCalls : \A i \in DOMAIN stack[t] :
              stack[t][i] \in Calls => stack[t][i] \in {"call", "start", "return"}
         /\ outcome = "rejected" \/ OpenCalls = {}

(***************************************************************************)
(* What docs/backend_lifecycle_and_signals.md:452 promises: the cleanup    *)
(* reservation retains the Impl until active public calls and worker       *)
(* threads have drained, including destruction from inside a callback.     *)
(* The code does not keep it when the start was rejected.                  *)
(***************************************************************************)
RetainedWhileInUse ==
    owner[backend] # "none" /\ ~impl[backend] =>
        OpenCalls = {} /\ \A w \in Workers : loops[w] \in {"none", "done"}

(***************************************************************************)
(* A backend gives birth to one process at most, whatever starts race or   *)
(* follow a start that failed, and to none once its shutdown has begun.    *)
(***************************************************************************)
OneBirth ==
    /\ births <= 1
    /\ shutdownStarted => process # "alive"

(***************************************************************************)
(* A start that answers REJECTED leaves no worker running and no guarded   *)
(* callback to come.                                                       *)
(***************************************************************************)
RejectedStartIsSilent ==
    outcome = "rejected" /\ handing = "none" =>
        ~accepting /\ \A w \in Workers : loops[w] # "running"

\* The properties of the parts, in every context a backend gives them.
CallbacksQuiescent == Gate!CallbacksQuiescent
ErasedMeansSettled == Owner!ErasedMeansSettled
UnloadIsQuiet == Owner!UnloadIsQuiet

(***************************************************************************)
(* A destroyed backend is deleted, wherever its start, its calls, its      *)
(* callbacks and its workers are when the host destroys it: the revocation *)
(* returns, the calls drain, the workers end and the worker disposes.      *)
(***************************************************************************)
DestroyedIsDeleted == ~facade /\ impl[backend] ~> ~impl[backend]
=============================================================================
