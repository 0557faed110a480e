----------------------------- MODULE CleanupOwner -----------------------------
(***************************************************************************)
(* Native_backend_cleanup_reservation: the cleanup worker a native backend *)
(* reserves before it creates a process, and the registry that owns the    *)
(* join handle of every such worker.                                       *)
(*                                                                         *)
(* A product thread asks for cleanup while it still uses the Impl (a       *)
(* failed start) and hands the Impl over later (the facade's destructor).  *)
(* The worker cleans up, records whether the native side confirmed it, and *)
(* deletes the Impl only once it was handed over.  What cleanup does and   *)
(* when it returns is in PosixPtyOutput.                                   *)
(***************************************************************************)
CONSTANT Job    \* the reservations a process makes

VARIABLES
    owner,      \* [Job -> "none" | "held" | "gone"]: the facade's use of the Impl
    impl,       \* [Job -> the Impl exists]
    requested, released, cancelled,
    complete,   \* native_complete
    worker,     \* [Job -> location of the worker thread]
    asleep,     \* workers blocked in changed.wait
    registry,   \* m_jobs
    unloaded    \* ~Registry has returned

requests == <<requested, released, cancelled>>
jobs     == <<owner, impl, requests, complete, worker, asleep>>
vars     == <<jobs, registry, unloaded>>

TypeOK ==
    /\ owner \in [Job -> {"none", "held", "gone"}]
    /\ impl \in [Job -> BOOLEAN] /\ complete \in [Job -> BOOLEAN]
    /\ requested \in [Job -> BOOLEAN]
    /\ released \in [Job -> BOOLEAN]
    /\ cancelled \in [Job -> BOOLEAN]
    /\ worker \in [Job -> {"none", "gate", "cleanup", "settle", "hold", "dispose", "finished"}]
    /\ asleep \subseteq Job
    /\ registry \subseteq {j \in Job : owner[j] # "none"}
    /\ unloaded \in BOOLEAN

Init ==
    /\ owner = [j \in Job |-> "none"]
    /\ impl = [j \in Job |-> FALSE]
    /\ requested = [j \in Job |-> FALSE]
    /\ released = [j \in Job |-> FALSE]
    /\ cancelled = [j \in Job |-> FALSE]
    /\ complete = [j \in Job |-> FALSE]
    /\ worker = [j \in Job |-> "none"]
    /\ asleep = {}
    /\ registry = {}
    /\ unloaded = FALSE
-----------------------------------------------------------------------------
(***************************************************************************)
(* The registry, under its mutex.                                          *)
(***************************************************************************)
Finished(j) == worker[j] = "finished"

ReapedOnComplete ==      \* mutant: a confirmed task is taken for a finished one
    {j \in registry : ~(cancelled[j] /\ Finished(j)) /\ ~complete[j]}

\* reap_finished_locked: what remains of m_jobs.
Reaped == {j \in registry : ~(Finished(j) /\ (cancelled[j] \/ complete[j]))}

Reserve(j) ==
    /\ owner[j] = "none" /\ ~unloaded
    /\ registry' = Reaped \cup {j}
    /\ owner' = [owner EXCEPT ![j] = "held"]
    /\ impl' = [impl EXCEPT ![j] = TRUE]
    /\ worker' = [worker EXCEPT ![j] = "gate"]
    /\ UNCHANGED <<requests, complete, asleep, unloaded>>

\* The worker's thread cannot be created: the job is popped, reserve throws.
ReserveFails(j) ==
    /\ owner[j] = "none" /\ ~unloaded
    /\ registry' = Reaped
    /\ UNCHANGED <<jobs, unloaded>>

\* retained_tasks, unconfirmed_tasks, each round of wait_until_idle.
Observe ==
    /\ ~unloaded
    /\ registry' = Reaped
    /\ UNCHANGED <<jobs, unloaded>>

\* ~Registry joins every worker it still owns.
Unload ==
    /\ ~unloaded
    /\ \A j \in registry : Finished(j)
    /\ unloaded' = TRUE
    /\ UNCHANGED <<jobs, registry>>
-----------------------------------------------------------------------------
(***************************************************************************)
(* The ticket, a member of the Impl.                                       *)
(***************************************************************************)
Notify(j) == asleep' = asleep \ {j}

Request(j) ==
    /\ owner[j] = "held"
    /\ requested' = [requested EXCEPT ![j] = TRUE]
    /\ Notify(j)
    /\ UNCHANGED <<owner, impl, released, cancelled, complete, worker, registry, unloaded>>

ReleaseSilently(j) ==        \* mutant: the hand-over does not wake the worker
    /\ owner[j] = "held"
    /\ released' = [released EXCEPT ![j] = TRUE]
    /\ requested' = [requested EXCEPT ![j] = TRUE]
    /\ owner' = [owner EXCEPT ![j] = "gone"]
    /\ UNCHANGED <<impl, cancelled, complete, worker, asleep, registry, unloaded>>

\* The facade gives the Impl up.
Release(j) ==
    /\ owner[j] = "held"
    /\ released' = [released EXCEPT ![j] = TRUE]
    /\ requested' = [requested EXCEPT ![j] = TRUE]
    /\ owner' = [owner EXCEPT ![j] = "gone"]
    /\ Notify(j)
    /\ UNCHANGED <<impl, cancelled, complete, worker, registry, unloaded>>

\* The Impl is destroyed before any request: its ticket cancels the worker.
Abandon(j) ==
    /\ owner[j] = "held" /\ ~requested[j]
    /\ cancelled' = [cancelled EXCEPT ![j] = TRUE]
    /\ owner' = [owner EXCEPT ![j] = "gone"]
    /\ impl' = [impl EXCEPT ![j] = FALSE]
    /\ Notify(j)
    /\ UNCHANGED <<requested, released, complete, worker, registry, unloaded>>
-----------------------------------------------------------------------------
(***************************************************************************)
(* The worker.                                                             *)
(***************************************************************************)
Goto(j, location) == worker' = [worker EXCEPT ![j] = location]

Gate(j) ==
    /\ worker[j] = "gate" /\ j \notin asleep
    /\ \/ cancelled[j] /\ Goto(j, "finished") /\ UNCHANGED asleep
       \/ ~cancelled[j] /\ requested[j] /\ Goto(j, "cleanup") /\ UNCHANGED asleep
       \/ /\ ~cancelled[j] /\ ~requested[j]
          /\ asleep' = asleep \cup {j}
          /\ UNCHANGED worker
    /\ UNCHANGED <<owner, impl, requests, complete, registry, unloaded>>

CleanUp(j) ==
    /\ worker[j] = "cleanup"
    /\ Goto(j, "settle")
    /\ UNCHANGED <<owner, impl, requests, complete, asleep, registry, unloaded>>

\* The native owner confirms its obligations, or does not.
Settle(j) ==
    /\ worker[j] = "settle"
    /\ \E confirmed \in BOOLEAN : complete' = [complete EXCEPT ![j] = confirmed]
    /\ Goto(j, "hold")
    /\ UNCHANGED <<owner, impl, requests, asleep, registry, unloaded>>

HoldUntilRequested(j) ==     \* mutant: the request counts as the hand-over
    /\ worker[j] = "hold"
    /\ Goto(j, "dispose")
    /\ UNCHANGED <<owner, impl, requests, complete, asleep, registry, unloaded>>

Hold(j) ==
    /\ worker[j] = "hold" /\ j \notin asleep
    /\ \/ released[j] /\ Goto(j, "dispose") /\ UNCHANGED asleep
       \/ ~released[j] /\ asleep' = asleep \cup {j} /\ UNCHANGED worker
    /\ UNCHANGED <<owner, impl, requests, complete, registry, unloaded>>

\* dispose deletes the Impl, its ticket with it.
Dispose(j) ==
    /\ worker[j] = "dispose"
    /\ impl' = [impl EXCEPT ![j] = FALSE]
    /\ cancelled' = [cancelled EXCEPT ![j] = @ \/ ~requested[j]]
    /\ Goto(j, "finished")
    /\ UNCHANGED <<owner, requested, released, complete, asleep, registry, unloaded>>
-----------------------------------------------------------------------------
Product(j) == Reserve(j) \/ ReserveFails(j) \/ Request(j) \/ Release(j) \/ Abandon(j)

Worker(j) == Gate(j) \/ CleanUp(j) \/ Settle(j) \/ Hold(j) \/ Dispose(j)

Next == Observe \/ Unload \/ \E j \in Job : Product(j) \/ Worker(j)

Spec == Init /\ [][Next]_vars

-----------------------------------------------------------------------------
(***************************************************************************)
(* The Impl outlives everybody who uses it: the facade until it hands the  *)
(* Impl over, and the worker through cleanup, settlement and disposal.     *)
(***************************************************************************)
ImplOutlivesUsers ==
    \A j \in Job :
        owner[j] = "held" \/ worker[j] \in {"cleanup", "settle", "hold", "dispose"} => impl[j]

(***************************************************************************)
(* A reservation leaves the registry only when nothing of it is left: its  *)
(* worker has ended, its Impl is gone, and it was cancelled before a       *)
(* process existed or its native side confirmed the cleanup.  An empty     *)
(* registry (wait_until_idle) is a proof of settlement.                    *)
(***************************************************************************)
ErasedMeansSettled ==
    \A j \in Job :
        owner[j] # "none" /\ j \notin registry =>
            Finished(j) /\ ~impl[j] /\ (cancelled[j] \/ complete[j])

(***************************************************************************)
(* No cleanup worker outlives the module's registry.                       *)
(***************************************************************************)
UnloadIsQuiet == unloaded => \A j \in Job : worker[j] \in {"none", "finished"}

=============================================================================
