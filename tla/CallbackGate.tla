---------------------------- MODULE CallbackGate ----------------------------
(***************************************************************************)
(* Native_backend_callback_gate: the admission gate every callback of a    *)
(* native PTY backend passes through.  Reader, writer and waiter threads   *)
(* enter callbacks concurrently, a callback may nest another one on its    *)
(* own thread, and the owner of the public backend revokes the gate, often *)
(* from inside one of the callbacks.  The native implementation outlives   *)
(* the facade, so only the gate stops a callback from reaching a dead      *)
(* session.                                                                *)
(***************************************************************************)
EXTENDS Naturals, FiniteSets

CONSTANTS
    Threads,      \* native workers and product threads that run callbacks
    MaxDepth,     \* bound on the callbacks nested on one thread
    NoThread      \* no revocation is in progress

\* What a backend that has a gate assures of them.
GateAssumption ==
    /\ IsFiniteSet(Threads)
    /\ MaxDepth \in Nat \ {0}
    /\ NoThread \notin Threads

VARIABLES
    accepting,    \* m_accepting
    activeCalls,  \* m_active_calls
    frames,       \* the admitted Invocation objects alive, <<thread, level>>
    revoker,      \* the thread inside revoke_and_drain, or NoThread
    ownDepth,     \* own_depth, the revoker's count of its own invocations
    asleep,       \* the revoker is blocked in m_drained.wait
    revokedBy     \* the threads a revoke_and_drain has returned on

vars == <<accepting, activeCalls, frames, revoker, ownDepth, asleep, revokedBy>>

Frame == Threads \X (1..MaxDepth)

\* The Invocation entries of one thread, linked through s_current/m_previous.
FramesOf(t) == {f \in frames : f[1] = t}

CurrentDepth(t) == Cardinality(FramesOf(t))

TypeOK ==
    /\ accepting \in BOOLEAN
    /\ activeCalls \in Nat
    /\ frames \in SUBSET Frame
    /\ revoker \in Threads \cup {NoThread}
    /\ ownDepth \in Nat
    /\ asleep \in BOOLEAN
    /\ revokedBy \in SUBSET Threads

Init ==
    /\ accepting = TRUE
    /\ activeCalls = 0
    /\ frames = {}
    /\ revoker = NoThread
    /\ ownDepth = 0
    /\ asleep = FALSE
    /\ revokedBy = {}

-----------------------------------------------------------------------------
(***************************************************************************)
(* A thread blocked in revoke_and_drain runs nothing else.  Constructing   *)
(* an Invocation admits the call, or finds the gate closed: then invoke    *)
(* skips the callback and nothing changes.                                 *)
(***************************************************************************)
EnterWithoutAdmission(t) ==    \* mutant: a copied wrapper counts as admission
    /\ t # revoker
    /\ CurrentDepth(t) < MaxDepth
    /\ activeCalls' = activeCalls + 1
    /\ frames' = frames \cup {<<t, CurrentDepth(t) + 1>>}
    /\ UNCHANGED <<accepting, revoker, ownDepth, asleep, revokedBy>>

Enter(t) ==
    /\ t # revoker
    /\ CurrentDepth(t) < MaxDepth
    /\ accepting
    /\ activeCalls' = activeCalls + 1
    /\ frames' = frames \cup {<<t, CurrentDepth(t) + 1>>}
    /\ UNCHANGED <<accepting, revoker, ownDepth, asleep, revokedBy>>

LeaveWakingWhenIdle(t) ==      \* mutant: waiters are woken by the last call only
    /\ t # revoker
    /\ FramesOf(t) # {}
    /\ activeCalls' = activeCalls - 1
    /\ frames' = frames \ {<<t, CurrentDepth(t)>>}
    /\ asleep' = (asleep /\ activeCalls' # 0)
    /\ UNCHANGED <<accepting, revoker, ownDepth, revokedBy>>

\* The callback returns: ~Invocation pops the entry and wakes every waiter.
Leave(t) ==
    /\ t # revoker
    /\ FramesOf(t) # {}
    /\ activeCalls' = activeCalls - 1
    /\ frames' = frames \ {<<t, CurrentDepth(t)>>}
    /\ asleep' = FALSE
    /\ UNCHANGED <<accepting, revoker, ownDepth, revokedBy>>

(***************************************************************************)
(* revoke_and_drain: own_depth is read before the lock, the gate closes,   *)
(* then the predicate wait.  The facade is destroyed by one thread, so two *)
(* revocations never overlap; a failed start revokes first and the         *)
(* destructor revokes again.                                               *)
(***************************************************************************)
BeginRevoke(t) ==
    /\ revoker = NoThread
    /\ revoker' = t
    /\ ownDepth' = CurrentDepth(t)
    /\ accepting' = FALSE
    /\ asleep' = FALSE
    /\ UNCHANGED <<activeCalls, frames, revokedBy>>

Drained == activeCalls = ownDepth

SleepUntilDrained ==
    /\ revoker # NoThread
    /\ ~asleep
    /\ ~Drained
    /\ asleep' = TRUE
    /\ UNCHANGED <<accepting, activeCalls, frames, revoker, ownDepth, revokedBy>>

FinishRevoke ==
    /\ revoker # NoThread
    /\ ~asleep
    /\ Drained
    /\ revokedBy' = revokedBy \cup {revoker}
    /\ revoker' = NoThread
    /\ UNCHANGED <<accepting, activeCalls, frames, ownDepth, asleep>>

Next ==
    \/ \E t \in Threads : Enter(t) \/ Leave(t) \/ BeginRevoke(t)
    \/ SleepUntilDrained
    \/ FinishRevoke

Spec == Init /\ [][Next]_vars

-----------------------------------------------------------------------------
(***************************************************************************)
(* Once revoke_and_drain has returned on a thread, no callback runs on any *)
(* other thread and none ever starts again: what is left on the stack are  *)
(* the revoker's own callbacks, which it excluded from its drain.  Only    *)
(* then may the session that the callbacks capture be destroyed.           *)
(***************************************************************************)
CallbacksQuiescent ==
    \A t \in revokedBy : ~accepting /\ frames \subseteq FramesOf(t)

(***************************************************************************)
(* m_active_calls counts exactly the admitted invocations that are alive,  *)
(* the nested ones of a thread included, and while a thread is inside      *)
(* revoke_and_drain the own_depth it read before taking the lock stays the *)
(* number of its own invocations.                                          *)
(***************************************************************************)
CountsExact ==
    /\ activeCalls = Cardinality(frames)
    /\ revoker # NoThread => ~accepting /\ ownDepth = CurrentDepth(revoker)

=============================================================================
