------------------------- MODULE BackendLifetimeProofs -------------------------
(***************************************************************************)
(* Proofs about BackendLifetime for any numbers of product threads and     *)
(* workers and stacks of any depth.                                        *)
(*                                                                         *)
(* A backend uses its gate and its reservation as CallbackGate and         *)
(* CleanupOwner say: each of its steps is a step or a stutter of both.  So *)
(* what is proved of the parts holds in the backend.                       *)
(***************************************************************************)
EXTENDS BackendLifetime, FiniteSetTheorems, TLAPS

\* A registry of any reservations: the backend's own is one of them.
Registry(Jobs) == INSTANCE CleanupOwner WITH Job <- Jobs

-----------------------------------------------------------------------------
(***************************************************************************)
(* The gate, for any finite set of threads and any nesting depth.  The     *)
(* inductive invariant adds to the two safety properties that the levels   *)
(* of a thread's invocations are 1, 2, ..., own depth, so that entering    *)
(* adds a new frame and leaving removes an existing one.                   *)
(***************************************************************************)
\* The invocations of thread t in the set F.
Of(F, t) == {f \in F : f[1] = t}

StackedOn(F, t) == Of(F, t) = {t} \X (1..Cardinality(Of(F, t)))

GateInv ==
    /\ Gate!TypeOK
    /\ IsFiniteSet(frames)
    /\ \A t \in Threads : StackedOn(frames, t)
    /\ Gate!CountsExact
    /\ Gate!CallbacksQuiescent

\* Pushing an invocation on top of a thread's stack adds exactly one frame.
LEMMA PushFrame ==
    ASSUME NEW F, IsFiniteSet(F), F \subseteq Threads \X Nat,
           NEW t \in Threads, StackedOn(F, t)
    PROVE  LET d == Cardinality(Of(F, t))
               G == F \cup {<<t, d + 1>>}
           IN  /\ d \in Nat
               /\ IsFiniteSet(G)
               /\ Cardinality(G) = Cardinality(F) + 1
               /\ StackedOn(G, t)
               /\ \A u \in Threads \ {t} : Of(G, u) = Of(F, u)
<1> DEFINE d == Cardinality(Of(F, t))
           G == F \cup {<<t, d + 1>>}
<1>1. IsFiniteSet(Of(F, t)) /\ d \in Nat
  BY FS_Subset, FS_CardinalityType DEF Of
<1>2. <<t, d + 1>> \notin Of(F, t)
  <2>1. d + 1 \notin 1..d  BY <1>1
  <2>2. Of(F, t) = {t} \X (1..d)  BY DEF StackedOn
  <2> QED  BY <2>1, <2>2
<1>3. <<t, d + 1>> \notin F
  BY <1>2 DEF Of
<1>4. IsFiniteSet(G) /\ Cardinality(G) = Cardinality(F) + 1
  BY <1>3, FS_AddElement
<1>5. Of(G, t) = Of(F, t) \cup {<<t, d + 1>>}
  BY DEF Of
<1>6. Cardinality(Of(G, t)) = d + 1
  BY <1>1, <1>2, <1>5, FS_AddElement
<1>7. Of(G, t) = {t} \X (1..(d + 1))
  <2>1. Of(F, t) = {t} \X (1..d)  BY DEF StackedOn
  <2>2. 1..(d + 1) = 1..d \cup {d + 1}  BY <1>1
  <2>3. {t} \X (1..d \cup {d + 1}) = ({t} \X (1..d)) \cup {<<t, d + 1>>}
    OBVIOUS
  <2> QED  BY <1>5, <2>1, <2>2, <2>3
<1>8. StackedOn(G, t)
  BY <1>6, <1>7 DEF StackedOn
<1>9. \A u \in Threads \ {t} : Of(G, u) = Of(F, u)
  BY DEF Of
<1> QED  BY <1>1, <1>4, <1>8, <1>9

\* Popping the top of a non-empty stack removes exactly one frame.
LEMMA PopFrame ==
    ASSUME NEW F, IsFiniteSet(F), F \subseteq Threads \X Nat,
           NEW t \in Threads, StackedOn(F, t), Of(F, t) # {}
    PROVE  LET d == Cardinality(Of(F, t))
               G == F \ {<<t, d>>}
           IN  /\ IsFiniteSet(G)
               /\ Cardinality(F) \in Nat \ {0}
               /\ Cardinality(G) = Cardinality(F) - 1
               /\ StackedOn(G, t)
               /\ \A u \in Threads \ {t} : Of(G, u) = Of(F, u)
<1> DEFINE d == Cardinality(Of(F, t))
           G == F \ {<<t, d>>}
<1>1. IsFiniteSet(Of(F, t)) /\ d \in Nat
  BY FS_Subset, FS_CardinalityType DEF Of
<1>2. d # 0
  BY <1>1, FS_EmptySet
<1>3. Of(F, t) = {t} \X (1..d)
  BY DEF StackedOn
<1>4. <<t, d>> \in Of(F, t)
  BY <1>1, <1>2, <1>3
<1>5. <<t, d>> \in F
  BY <1>4 DEF Of
<1>6. IsFiniteSet(G) /\ Cardinality(G) = Cardinality(F) - 1
  BY <1>5, FS_RemoveElement
<1>7. Cardinality(F) \in Nat \ {0}
  BY <1>5, FS_EmptySet, FS_CardinalityType
<1>8. Of(G, t) = Of(F, t) \ {<<t, d>>}
  BY DEF Of
<1>9. Cardinality(Of(G, t)) = d - 1
  <2>1. Cardinality(Of(F, t) \ {<<t, d>>}) = d - 1
    BY <1>1, <1>4, FS_RemoveElement
  <2> QED  BY <1>8, <2>1
<1>10. Of(G, t) = {t} \X (1..(d - 1))
  <2>1. 1..(d - 1) = (1..d) \ {d}  BY <1>1, <1>2
  <2>2. {t} \X ((1..d) \ {d}) = ({t} \X (1..d)) \ {<<t, d>>}
    OBVIOUS
  <2> QED  BY <1>3, <1>8, <2>1, <2>2
<1>11. StackedOn(G, t)
  BY <1>9, <1>10 DEF StackedOn
<1>12. \A u \in Threads \ {t} : Of(G, u) = Of(F, u)
  BY DEF Of
<1> QED  BY <1>6, <1>7, <1>11, <1>12
\* The gate's operators on finite sets are those of the theorems about them.
LEMMA SameSets ==
    /\ \A S : Gate!Cardinality(S) = Cardinality(S)
    /\ \A S : Gate!IsFiniteSet(S) = IsFiniteSet(S)
<1>1. \A S : Gate!IsFiniteSet(S) = IsFiniteSet(S)
  BY DEF Gate!IsFiniteSet, IsFiniteSet
<1>2. \A S : Gate!Cardinality(S) = Cardinality(S)
  BY <1>1 DEF Gate!Cardinality, Cardinality
<1> QED  BY <1>1, <1>2

\* The invariant holds initially.
LEMMA GateInvInit == Gate!Init => GateInv
<1> SUFFICES ASSUME Gate!Init PROVE GateInv
  OBVIOUS
<1>1. IsFiniteSet(frames) /\ Cardinality(frames) = 0
  BY FS_EmptySet DEF Gate!Init
<1>2. ASSUME NEW t \in Threads PROVE StackedOn(frames, t)
  <2>1. Of(frames, t) = {} /\ Cardinality(Of(frames, t)) = 0
    BY FS_EmptySet DEF Gate!Init, Of
  <2>2. {t} \X (1..0) = {}
    OBVIOUS
  <2> QED  BY <2>1, <2>2 DEF StackedOn
<1> QED
  BY <1>1, <1>2, SameSets DEF Gate!Init, GateInv, Gate!TypeOK, Gate!CountsExact, Gate!CallbacksQuiescent

\* What Gate!Enter and Gate!Leave do to the frames, read off the two stack lemmas.
LEMMA FramesFacts ==
    ASSUME Gate!TypeOK
    PROVE  /\ frames \subseteq Threads \X Nat
           /\ \A t : Gate!FramesOf(t) = Of(frames, t)
           /\ \A t : Gate!CurrentDepth(t) = Cardinality(Of(frames, t))
BY SameSets DEF Gate!TypeOK, Gate!Frame, Gate!FramesOf, Gate!CurrentDepth, Of

\* No step of the gate breaks it.
LEMMA GateInvStep == GateInv /\ [Gate!Next]_(Gate!vars) => GateInv'
<1> SUFFICES ASSUME GateInv, [Gate!Next]_(Gate!vars) PROVE GateInv'
  OBVIOUS
<1> USE LifetimeAssumption, SameSets DEF GateInv, LifetimeAssumption, Gate!GateAssumption
<1>F. /\ frames \subseteq Threads \X Nat
      /\ \A t : Gate!FramesOf(t) = Of(frames, t)
      /\ \A t : Gate!CurrentDepth(t) = Cardinality(Of(frames, t))
  BY FramesFacts
<1>P. ASSUME Gate!TypeOK'
      PROVE /\ \A t : Gate!FramesOf(t)' = Of(frames', t)
            /\ \A t : Gate!CurrentDepth(t)' = Cardinality(Of(frames', t))
  BY DEF Gate!FramesOf, Gate!CurrentDepth, Of
<1>1. ASSUME NEW t \in Threads, Gate!Enter(t) PROVE GateInv'
  <2> DEFINE d == Cardinality(Of(frames, t))
  <2>1. /\ d \in Nat
        /\ IsFiniteSet(frames')
        /\ Cardinality(frames') = Cardinality(frames) + 1
        /\ StackedOn(frames', t)
        /\ \A u \in Threads \ {t} : Of(frames', u) = Of(frames, u)
    BY <1>1, <1>F, PushFrame DEF Gate!Enter
  <2>2. Gate!TypeOK'
    BY <1>1, <1>F, <2>1 DEF Gate!Enter, Gate!TypeOK, Gate!Frame
  <2>3. \A u \in Threads : StackedOn(frames', u)
    BY <2>1 DEF StackedOn
  <2>4. Gate!CountsExact'
    BY <1>1, <1>F, <1>P, <2>1, <2>2 DEF Gate!Enter, Gate!CountsExact, Gate!TypeOK
  <2>5. Gate!CallbacksQuiescent'
    BY <1>1 DEF Gate!Enter, Gate!CallbacksQuiescent
  <2> QED  BY <2>1, <2>2, <2>3, <2>4, <2>5
<1>2. ASSUME NEW t \in Threads, Gate!Leave(t) PROVE GateInv'
  <2>1. /\ IsFiniteSet(frames')
        /\ Cardinality(frames) \in Nat \ {0}
        /\ Cardinality(frames') = Cardinality(frames) - 1
        /\ StackedOn(frames', t)
        /\ \A u \in Threads \ {t} : Of(frames', u) = Of(frames, u)
    BY <1>2, <1>F, PopFrame DEF Gate!Leave
  <2>2. Gate!TypeOK'
    <3>1. activeCalls' \in Nat
      BY <1>2, <2>1 DEF Gate!Leave, Gate!CountsExact
    <3>2. frames' \subseteq frames
      BY <1>2 DEF Gate!Leave
    <3> QED  BY <1>2, <3>1, <3>2 DEF Gate!Leave, Gate!TypeOK
  <2>3. \A u \in Threads : StackedOn(frames', u)
    BY <2>1 DEF StackedOn
  <2>4. Gate!CountsExact'
    BY <1>2, <1>F, <1>P, <2>1, <2>2 DEF Gate!Leave, Gate!CountsExact, Gate!TypeOK
  <2>5. Gate!CallbacksQuiescent'
    <3>1. frames' \subseteq frames /\ accepting' = accepting /\ revokedBy' = revokedBy
      BY <1>2 DEF Gate!Leave
    <3> QED  BY <3>1 DEF Gate!CallbacksQuiescent, Gate!FramesOf
  <2> QED  BY <2>1, <2>2, <2>3, <2>4, <2>5
<1>3. ASSUME NEW t \in Threads, Gate!BeginRevoke(t) PROVE GateInv'
  <2>1. frames' = frames /\ revokedBy' = revokedBy /\ activeCalls' = activeCalls
    BY <1>3 DEF Gate!BeginRevoke
  <2>2. Gate!CurrentDepth(t) \in Nat
    BY <1>F, FS_Subset, FS_CardinalityType DEF Of
  <2>3. Gate!TypeOK'
    BY <1>3, <2>2 DEF Gate!BeginRevoke, Gate!TypeOK
  <2>4. Gate!CountsExact'
    BY <1>3, <2>1 DEF Gate!BeginRevoke, Gate!CountsExact, Gate!CurrentDepth, Gate!FramesOf
  <2>5. Gate!CallbacksQuiescent'
    BY <1>3, <2>1 DEF Gate!BeginRevoke, Gate!CallbacksQuiescent, Gate!FramesOf
  <2> QED  BY <2>1, <2>3, <2>4, <2>5
<1>4. ASSUME Gate!SleepUntilDrained PROVE GateInv'
  BY <1>4 DEF Gate!SleepUntilDrained, Gate!TypeOK, Gate!CountsExact, Gate!CallbacksQuiescent,
     StackedOn, Of, Gate!FramesOf, Gate!CurrentDepth
<1>5. ASSUME Gate!FinishRevoke PROVE GateInv'
  <2>1. frames' = frames /\ activeCalls' = activeCalls /\ accepting' = accepting
    BY <1>5 DEF Gate!FinishRevoke
  <2>2. frames = Gate!FramesOf(revoker)
    \* equally many frames in all as on the revoker's own stack
    <3>1. Cardinality(frames) = Cardinality(Gate!FramesOf(revoker))
      BY <1>5 DEF Gate!FinishRevoke, Gate!Drained, Gate!CountsExact, Gate!CurrentDepth
    <3>2. Gate!FramesOf(revoker) \in SUBSET frames
      BY DEF Gate!FramesOf
    <3> QED  BY <3>1, <3>2, FS_Subset
  <2>3. Gate!CallbacksQuiescent'
    BY <1>5, <2>1, <2>2 DEF Gate!FinishRevoke, Gate!CallbacksQuiescent, Gate!CountsExact, Gate!FramesOf
  <2>4. Gate!TypeOK'
    BY <1>5 DEF Gate!FinishRevoke, Gate!TypeOK
  <2>5. Gate!CountsExact'
    BY <1>5, <2>1 DEF Gate!FinishRevoke, Gate!CountsExact, Gate!TypeOK
  <2> QED  BY <2>1, <2>3, <2>4, <2>5
<1>6. CASE UNCHANGED Gate!vars
  BY <1>6 DEF Gate!vars, Gate!TypeOK, Gate!CountsExact, Gate!CallbacksQuiescent, StackedOn, Of,
     Gate!FramesOf, Gate!CurrentDepth
<1> QED
  BY <1>1, <1>2, <1>3, <1>4, <1>5, <1>6 DEF Gate!Next

\* The gate's accounting is exact in every reachable state: the number
\* m_drained waits on is the number of callbacks really running.
THEOREM GateCountsExact == Gate!Spec => [](Gate!TypeOK /\ Gate!CountsExact)
<1>1. GateInv => Gate!TypeOK /\ Gate!CountsExact
  BY DEF GateInv
<1> QED
  BY <1>1, GateInvInit, GateInvStep, PTL DEF Gate!Spec

\* After revoke_and_drain has returned on a thread no other thread is inside
\* a callback, and none ever enters one.
THEOREM RevokedGateIsQuiescent == Gate!Spec => []Gate!CallbacksQuiescent
<1>1. GateInv => Gate!CallbacksQuiescent
  BY DEF GateInv
<1> QED
  BY <1>1, GateInvInit, GateInvStep, PTL DEF Gate!Spec
-----------------------------------------------------------------------------
(***************************************************************************)
(* The registry, for any set of reservations: the Impl outlives its users, *)
(* the registry forgets only what is settled, and no worker outlives it.   *)
(*                                                                         *)
(* The invariant follows one reservation through its life.  A facade that  *)
(* holds the Impl has neither released nor cancelled it; a worker past the *)
(* gate was requested and never cancelled; disposal comes after the        *)
(* hand-over; and a finished worker leaves no Impl behind.                 *)
(***************************************************************************)
Busy == {"cleanup", "settle", "hold", "dispose"}

Unborn(j) == owner[j] = "none" => worker[j] = "none" /\ ~impl[j] /\ ~released[j]

Held(j) ==
    owner[j] = "held" =>
        /\ impl[j] /\ ~released[j] /\ ~cancelled[j]
        /\ worker[j] \in {"gate", "cleanup", "settle", "hold"}

Working(j) == worker[j] \in Busy => impl[j] /\ requested[j] /\ ~cancelled[j]

Waiting(j) == worker[j] = "gate" => impl[j] \/ cancelled[j]

Disposing(j) == worker[j] \in {"dispose", "finished"} => owner[j] = "gone"

Cancelled(j) == cancelled[j] => ~requested[j] /\ ~impl[j] /\ owner[j] = "gone"

Erased(j) ==
    /\ worker[j] = "finished" => ~impl[j]
    /\ owner[j] # "none" /\ j \notin registry =>
         worker[j] = "finished" /\ (cancelled[j] \/ complete[j])

Life(j) ==
    /\ Unborn(j) /\ Held(j) /\ Working(j) /\ Waiting(j)
    /\ Disposing(j) /\ Cancelled(j) /\ Erased(j)

Unloaded(Jobs) == unloaded => \A j \in Jobs : owner[j] # "none" => worker[j] = "finished"

LifeInv(Jobs) == Registry(Jobs)!TypeOK /\ (\A j \in Jobs : Life(j)) /\ Unloaded(Jobs)

\* Initially no reservation exists.
LEMMA LifeInit == ASSUME NEW Jobs, Registry(Jobs)!Init PROVE LifeInv(Jobs)
  BY DEF Registry!Init, Registry!TypeOK, LifeInv, Life, Unborn, Held, Working, Waiting, Disposing,
         Cancelled, Erased, Busy, Unloaded

\* Every step of a product thread, a worker or the registry keeps it.
LEMMA LifeStep ==
    ASSUME NEW CONSTANT Jobs, LifeInv(Jobs), [Registry(Jobs)!Next]_(Registry(Jobs)!vars)
    PROVE  LifeInv(Jobs)'
<1> USE DEF LifeInv, Life, Unborn, Held, Working, Waiting, Disposing, Cancelled, Erased,
            Busy, Unloaded, Registry!TypeOK, Registry!Finished, Registry!requests, Registry!jobs
<1>1. CASE UNCHANGED Registry(Jobs)!vars
  BY <1>1 DEF Registry!vars
<1>2. CASE Registry(Jobs)!Observe
  BY <1>2 DEF Registry!Observe, Registry!Reaped
<1>3. CASE Registry(Jobs)!Unload
  BY <1>3 DEF Registry!Unload
<1>4. ASSUME NEW j \in Jobs, Registry(Jobs)!Product(j)
      PROVE  LifeInv(Jobs)'
  <2>1. CASE Registry(Jobs)!Reserve(j)
    BY <2>1 DEF Registry!Reserve, Registry!Reaped
  <2>2. CASE Registry(Jobs)!ReserveFails(j)
    BY <2>2 DEF Registry!ReserveFails, Registry!Reaped
  <2>3. CASE Registry(Jobs)!Request(j)
    BY <2>3 DEF Registry!Request, Registry!Notify
  <2>4. CASE Registry(Jobs)!Release(j)
    BY <2>4 DEF Registry!Release, Registry!Notify
  <2>5. CASE Registry(Jobs)!Abandon(j)
    BY <2>5 DEF Registry!Abandon, Registry!Notify
  <2> QED
    BY <1>4, <2>1, <2>2, <2>3, <2>4, <2>5 DEF Registry!Product
<1>5. ASSUME NEW j \in Jobs, Registry(Jobs)!Worker(j)
      PROVE  LifeInv(Jobs)'
  <2>1. CASE Registry(Jobs)!Gate(j)
    BY <2>1 DEF Registry!Gate, Registry!Goto
  <2>2. CASE Registry(Jobs)!CleanUp(j)
    BY <2>2 DEF Registry!CleanUp, Registry!Goto
  <2>3. CASE Registry(Jobs)!Settle(j)
    BY <2>3 DEF Registry!Settle, Registry!Goto
  <2>4. CASE Registry(Jobs)!Hold(j)
    BY <2>4 DEF Registry!Hold, Registry!Goto
  <2>5. CASE Registry(Jobs)!Dispose(j)
    BY <2>5 DEF Registry!Dispose, Registry!Goto
  <2> QED
    BY <1>5, <2>1, <2>2, <2>3, <2>4, <2>5 DEF Registry!Worker
<1> QED
  BY <1>1, <1>2, <1>3, <1>4, <1>5 DEF Registry!Next

\* The invariant holds of every registry.
LEMMA RegistryInvariant == ASSUME NEW CONSTANT Jobs PROVE Registry(Jobs)!Spec => []LifeInv(Jobs)
<1>1. Registry(Jobs)!Init => LifeInv(Jobs)
  BY LifeInit
<1>2. LifeInv(Jobs) /\ [Registry(Jobs)!Next]_(Registry(Jobs)!vars) => LifeInv(Jobs)'
  BY LifeStep
<1> QED  BY <1>1, <1>2, PTL DEF Registry!Spec

(***************************************************************************)
(* The Impl outlives the facade's use of it and the worker's.              *)
(***************************************************************************)
THEOREM HandedOverImplIsSafe ==
    ASSUME NEW CONSTANT Jobs
    PROVE  Registry(Jobs)!Spec => [](Registry(Jobs)!TypeOK /\ Registry(Jobs)!ImplOutlivesUsers)
<1>1. LifeInv(Jobs) => Registry(Jobs)!TypeOK /\ Registry(Jobs)!ImplOutlivesUsers
  BY DEF LifeInv, Life, Held, Working, Busy, Registry!ImplOutlivesUsers
<1> QED  BY <1>1, RegistryInvariant, PTL

(***************************************************************************)
(* What the registry forgot is settled: an empty registry proves it.       *)
(***************************************************************************)
THEOREM EmptyRegistryIsSettled ==
    ASSUME NEW CONSTANT Jobs PROVE Registry(Jobs)!Spec => []Registry(Jobs)!ErasedMeansSettled
<1>1. LifeInv(Jobs) => Registry(Jobs)!ErasedMeansSettled
  BY DEF LifeInv, Life, Erased, Registry!ErasedMeansSettled, Registry!Finished
<1> QED  BY <1>1, RegistryInvariant, PTL

(***************************************************************************)
(* After ~Registry no worker runs the module's code.                       *)
(***************************************************************************)
THEOREM NoWorkerOutlivesRegistry ==
    ASSUME NEW CONSTANT Jobs PROVE Registry(Jobs)!Spec => []Registry(Jobs)!UnloadIsQuiet
<1>1. LifeInv(Jobs) => Registry(Jobs)!UnloadIsQuiet
  BY DEF LifeInv, Life, Unborn, Unloaded, Registry!UnloadIsQuiet
<1> QED  BY <1>1, RegistryInvariant, PTL
-----------------------------------------------------------------------------
(***************************************************************************)
(* The backend's use of its parts.                                         *)
(***************************************************************************)
\* A guarded callback is admitted by the gate or leaves it alone.
LEMMA GuardedAtGate ==
    ASSUME NEW t \in Threads, NEW rest, Guarded(t, rest)
    PROVE  Gate!Enter(t) \/ UNCHANGED gate
  BY DEF Guarded

LEMMA GateStep == Next => Gate!Next \/ UNCHANGED gate
<1> SUFFICES ASSUME Next PROVE Gate!Next \/ UNCHANGED gate
  OBVIOUS
<1> USE DEF Gate!Next
<1>1. ASSUME Construct \/ BeginShutdown \/ EndShutdown \/ CleanupStep \/ RegistryStep
      PROVE  UNCHANGED gate
  BY <1>1 DEF Construct, BeginShutdown, EndShutdown, CleanupStep, RegistryStep
<1>2. ASSUME SleepUntilDrained PROVE Gate!Next
  BY <1>2 DEF SleepUntilDrained
<1>3. ASSUME HandOver PROVE Gate!Next
  BY <1>3 DEF HandOver
<1>4. ASSUME NEW t \in Threads, EnterCall(t) \/ Snapshot(t) \/ LeaveCall(t) \/ HandlerReturns(t)
      PROVE  UNCHANGED gate
  BY <1>4 DEF EnterCall, Snapshot, LeaveCall, HandlerReturns
<1>5. ASSUME NEW t \in Threads, Destroy(t) \/ Fail(t)
      PROVE  Gate!BeginRevoke(t)
  BY <1>5 DEF Destroy, Fail
<1>6. ASSUME NEW t \in Threads, CallbackReturns(t)
      PROVE  Gate!Leave(t)
  BY <1>6 DEF CallbackReturns
<1>7. ASSUME NEW t \in Threads, Invoke(t) \/ RejectEarly(t) \/ Launch(t) \/ RejectLate(t) \/ OpenAborted(t)
      PROVE  Gate!Enter(t) \/ UNCHANGED gate
  BY <1>7, GuardedAtGate DEF Invoke, RejectEarly, Launch, RejectLate, OpenAborted
<1>8. ASSUME NEW t \in Threads, Refuse(t) \/ Admit(t) \/ Attempt(t) \/ Commit(t) \/ SpawnWorker(t)
                                \/ OpenLatch(t) \/ AbortGate(t)
      PROVE  UNCHANGED gate
  BY <1>8 DEF Refuse, Admit, Attempt, Commit, SpawnWorker, OpenLatch, AbortGate
<1>9. ASSUME NEW w \in Workers, AdmitWorker(w) \/ WorkerEnds(w)
      PROVE  UNCHANGED gate
  BY <1>9 DEF AdmitWorker, WorkerEnds
<1>10. ASSUME NEW t \in Threads, EnterCall(t) \/ Snapshot(t) \/ Destroy(t) \/ ThreadStep(t)
       PROVE  Gate!Next \/ UNCHANGED gate
  BY <1>10, <1>4, <1>5, <1>6, <1>7, <1>8 DEF ThreadStep, HostReturns, StartStep
<1> QED
  BY <1>1, <1>2, <1>3, <1>9, <1>10 DEF Next

LEMMA OwnerStep == Next => Owner!Next \/ UNCHANGED own
<1> SUFFICES ASSUME Next PROVE Owner!Next \/ UNCHANGED own
  OBVIOUS
<1> USE DEF Owner!Next, Owner!Product, Owner!Worker
<1>1. ASSUME Construct \/ EndShutdown \/ CleanupStep \/ RegistryStep
      PROVE  Owner!Next
  BY <1>1 DEF Construct, EndShutdown, CleanupStep, WorkerOfOwner, RegistryStep
<1>2. ASSUME BeginShutdown \/ SleepUntilDrained PROVE UNCHANGED own
  BY <1>2 DEF BeginShutdown, SleepUntilDrained
<1>3. ASSUME HandOver PROVE Owner!Next \/ UNCHANGED own
  BY <1>3 DEF HandOver
<1>4. ASSUME NEW t \in Threads, EnterCall(t) \/ Snapshot(t) \/ Destroy(t) \/ LeaveCall(t) \/ Invoke(t) \/ HostReturns(t)
      PROVE  UNCHANGED own
  BY <1>4 DEF EnterCall, Snapshot, Destroy, LeaveCall, Invoke, HostReturns, CallbackReturns, HandlerReturns
<1>5. ASSUME NEW t \in Threads, StartStep(t)
      PROVE  UNCHANGED own
  BY <1>5 DEF StartStep, Refuse, Admit, RejectEarly, Attempt, Launch, RejectLate, Commit, SpawnWorker,
              OpenLatch, AbortGate, OpenAborted, Fail
<1>6. ASSUME NEW w \in Workers, AdmitWorker(w) \/ WorkerEnds(w)
      PROVE  UNCHANGED own
  BY <1>6 DEF AdmitWorker, WorkerEnds
<1> QED
  BY <1>1, <1>2, <1>3, <1>4, <1>5, <1>6 DEF Next, ThreadStep

\* The registry the backend uses is the one of its own reservation.
LEMMA SameOwner ==
    /\ Owner!Init => Registry({backend})!Init
    /\ Owner!Next \/ UNCHANGED own => [Registry({backend})!Next]_(Registry({backend})!vars)
    /\ Registry({backend})!UnloadIsQuiet => UnloadIsQuiet
<1>1. Owner!Init => Registry({backend})!Init
  BY DEF Owner!Init, Registry!Init
<1>2. Owner!Next => Registry({backend})!Next
  <2> USE DEF Owner!Reaped, Owner!Finished, Owner!Notify, Owner!Goto, Owner!requests, Owner!jobs,
              Registry!Reaped, Registry!Finished, Registry!Notify, Registry!Goto,
              Registry!requests, Registry!jobs
  <2>1. Owner!Observe \/ Owner!Unload => Registry({backend})!Observe \/ Registry({backend})!Unload
    BY DEF Owner!Observe, Owner!Unload, Registry!Observe, Registry!Unload
  <2>2. ASSUME NEW j \in {backend}, Owner!Product(j) PROVE Registry({backend})!Product(j)
    BY <2>2 DEF Owner!Product, Owner!Reserve, Owner!ReserveFails, Owner!Request, Owner!Release, Owner!Abandon,
         Registry!Product, Registry!Reserve, Registry!ReserveFails, Registry!Request,
         Registry!Release, Registry!Abandon
  <2>3. ASSUME NEW j \in {backend}, Owner!Worker(j) PROVE Registry({backend})!Worker(j)
    BY <2>3 DEF Owner!Worker, Owner!Gate, Owner!CleanUp, Owner!Settle, Owner!Hold, Owner!Dispose,
         Registry!Worker, Registry!Gate, Registry!CleanUp, Registry!Settle,
         Registry!Hold, Registry!Dispose
  <2> QED  BY <2>1, <2>2, <2>3 DEF Owner!Next, Registry!Next
<1>3. UNCHANGED own => UNCHANGED Registry({backend})!vars
  BY DEF own, Registry!vars, Registry!jobs, Registry!requests
<1>4. Registry({backend})!UnloadIsQuiet => UnloadIsQuiet
  BY DEF UnloadIsQuiet, Owner!UnloadIsQuiet, Registry!UnloadIsQuiet
<1> QED  BY <1>1, <1>2, <1>3, <1>4

(***************************************************************************)
(* What the gate promises holds in a backend: once revoke_and_drain has    *)
(* returned on a thread, after a failed start or a destruction, no other   *)
(* thread runs a callback and none ever does.                              *)
(***************************************************************************)
THEOREM BackendCallbacksQuiescent == Spec => []CallbacksQuiescent
<1>1. Init => GateInv
  BY GateInvInit DEF Init
<1>2. GateInv /\ [Next]_vars => GateInv'
  <2>1. [Next]_vars => Gate!Next \/ UNCHANGED gate
    BY GateStep DEF vars
  <2>2. UNCHANGED gate => UNCHANGED Gate!vars
    BY DEF gate, Gate!vars
  <2> QED
    BY <2>1, <2>2, GateInvStep
<1>3. GateInv => CallbacksQuiescent
  BY DEF GateInv, CallbacksQuiescent
<1> QED  BY <1>1, <1>2, <1>3, PTL DEF Spec

(***************************************************************************)
(* No cleanup worker of a backend runs the module's code after ~Registry.  *)
(***************************************************************************)
THEOREM BackendUnloadIsQuiet == Spec => []UnloadIsQuiet
<1>1. Init => LifeInv({backend})
  BY SameOwner, LifeInit DEF Init
<1>2. LifeInv({backend}) /\ [Next]_vars => LifeInv({backend})'
  <2>1. [Next]_vars => Owner!Next \/ UNCHANGED own
    BY OwnerStep DEF vars
  <2> QED
    BY <2>1, SameOwner, LifeStep
<1>3. LifeInv({backend}) => UnloadIsQuiet
  BY SameOwner DEF LifeInv, Life, Unborn, Unloaded,
     Registry!Finished, Registry!UnloadIsQuiet
<1> QED  BY <1>1, <1>2, <1>3, PTL DEF Spec
-----------------------------------------------------------------------------
(***************************************************************************)
(* Stacks.  A start in progress is a frame at one of its steps; StepsAt is *)
(* where those frames are.                                                 *)
(***************************************************************************)
Kinds == Calls \cup {"callback", "handler"}
Steps == {"check", "launch", "ready", "spawn", "open", "cleanup"}

StackOK == stack \in [Threads -> Seq(Kinds)]

StepsAt == {x \in Threads \X Nat \X Steps : x[2] \in DOMAIN stack[x[1]] /\ stack[x[1]][x[2]] = x[3]}

\* What is pushed last is on top.
LEMMA PushedOnTop ==
    ASSUME NEW K, NEW h \in Seq(K), NEW x \in K
    PROVE  (h \o <<x>>)[Len(h) + 1] = x
OBVIOUS

\* A step of a start: the frame on top changes, and host code may be called on it.
LEMMA MoveEffect ==
    ASSUME StackOK, NEW t \in Threads, NEW a \in Calls, Top(t) = a,
           NEW k \in Steps \cup {"return"}, NEW f \in {"callback", "handler"},
           \/ stack' = [stack EXCEPT ![t] = At(t, k)]
           \/ stack' = [stack EXCEPT ![t] = Append(At(t, k), f)]
    PROVE  /\ StackOK'
           /\ OpenCalls' \subseteq OpenCalls
           /\ a \in Steps => <<t, Len(stack[t]), a>> \in StepsAt
           /\ StepsAt' \subseteq (StepsAt \ {<<t, Len(stack[t]), a>>}) \cup {<<t, Len(stack[t]), k>>}
           /\ k \notin Steps => <<t, Len(stack[t]), k>> \notin StepsAt'
<1> DEFINE s == stack[t]
           n == Len(s)
           r == At(t, k)
<1>1. s \in Seq(Kinds) /\ s # <<>> /\ n \in Nat \ {0} /\ s[n] = a /\ k \in Kinds /\ f \in Kinds
  BY DEF StackOK, Top, Last, Kinds, Calls, Steps
<1>2. /\ r \in Seq(Kinds) /\ Len(r) = n /\ r[n] = k
      /\ \A i \in 1..(n - 1) : r[i] = s[i]
  <2> DEFINE h == Front(s)
  <2>1. h \in Seq(Kinds) /\ Len(h) = n - 1 /\ \A i \in 1..(n - 1) : h[i] = s[i]
    BY <1>1 DEF Front
  <2>2. r = h \o <<k>>
    BY DEF At
  <2> HIDE DEF h
  <2>3. <<k>> \in Seq(Kinds) /\ Len(<<k>>) = 1 /\ <<k>>[1] = k
    BY <1>1
  <2>4. r \in Seq(Kinds) /\ Len(r) = n
    BY <1>1, <2>1, <2>2, <2>3
  <2>5. r[n] = k
    <3>1. (h \o <<k>>)[Len(h) + 1] = k
      BY <1>1, <2>1, PushedOnTop
    <3> QED  BY <1>1, <2>1, <2>2, <3>1
  <2>6. ASSUME NEW i \in 1..(n - 1) PROVE r[i] = s[i]
    BY <1>1, <2>1, <2>2, <2>3
  <2> QED  BY <2>4, <2>5, <2>6
<1>3. /\ Append(r, f) \in Seq(Kinds) /\ Len(Append(r, f)) = n + 1
      /\ Append(r, f)[n + 1] = f /\ Append(r, f)[n] = k
      /\ \A i \in 1..(n - 1) : Append(r, f)[i] = s[i]
  BY <1>1, <1>2
<1>4. PICK q \in Seq(Kinds) :
        /\ stack' = [stack EXCEPT ![t] = q]
        /\ q[n] = k
        /\ \A i \in 1..(n - 1) : q[i] = s[i]
        /\ Len(q) = n \/ (Len(q) = n + 1 /\ q[n + 1] \notin Calls)
  <2>1. f \notin Calls  BY DEF Calls
  <2> QED  BY <1>2, <1>3, <2>1
<1>5. StackOK'
  BY <1>4 DEF StackOK
<1>6. stack'[t] = q /\ \A u \in Threads \ {t} : stack'[u] = stack[u]
  BY <1>4 DEF StackOK
<1>7. OpenCalls' \subseteq OpenCalls
  <2>1. t \in OpenCalls
    BY <1>1 DEF OpenCalls
  <2>2. \A u \in Threads \ {t} : u \in OpenCalls' => u \in OpenCalls
    BY <1>6 DEF OpenCalls
  <2> QED  BY <2>1, <2>2 DEF OpenCalls
<1>8. a \in Steps => <<t, n, a>> \in StepsAt
  BY <1>1 DEF StepsAt
<1>9. ASSUME NEW x \in StepsAt' PROVE x = <<t, n, k>> \/ (x \in StepsAt /\ x # <<t, n, a>>)
  <2>1. x \in Threads \X Nat \X Steps /\ x[2] \in DOMAIN stack'[x[1]] /\ stack'[x[1]][x[2]] = x[3]
    BY DEF StepsAt
  <2>2. CASE x[1] # t
    <3>1. x \in StepsAt  BY <2>1, <2>2, <1>6 DEF StepsAt
    <3>2. x # <<t, n, a>>  BY <2>2
    <3> QED  BY <3>1, <3>2
  <2>3. CASE x[1] = t
    <3>1. x[2] \in 1..Len(q) /\ q[x[2]] = x[3]  BY <2>1, <2>3, <1>6
    <3>2. x[3] \in Calls  BY <2>1 DEF Steps, Calls
    <3>3. x[2] \in 1..n  BY <3>1, <3>2, <1>4, <1>1
    <3>4. CASE x[2] = n
      BY <2>1, <2>3, <3>1, <3>4, <1>4
    <3>5. CASE x[2] # n
      <4>1. x[2] \in 1..(n - 1)  BY <3>3, <3>5, <1>1
      <4>2. x[2] \in DOMAIN s  BY <4>1, <1>1
      <4>5. s[x[2]] = x[3]  BY <4>1, <3>1, <1>4
      <4>3. x \in StepsAt  BY <4>2, <4>5, <2>1, <2>3 DEF StepsAt
      <4>4. x # <<t, n, a>>  BY <3>5
      <4> QED  BY <4>3, <4>4
    <3> QED  BY <3>4, <3>5
  <2> QED  BY <2>2, <2>3
<1>10. k \notin Steps => <<t, n, k>> \notin StepsAt'
  BY DEF StepsAt
<1> QED  BY <1>5, <1>7, <1>8, <1>9, <1>10

\* A frame that is not a step of a start is pushed.
LEMMA PushEffect ==
    ASSUME StackOK, NEW t \in Threads, NEW f \in Kinds \ Steps,
           stack' = [stack EXCEPT ![t] = Append(stack[t], f)]
    PROVE  /\ StackOK'
           /\ f \notin Calls => OpenCalls' \subseteq OpenCalls
           /\ StepsAt' \subseteq StepsAt
<1> DEFINE s == stack[t]
           n == Len(s)
           q == Append(s, f)
<1>1. s \in Seq(Kinds) /\ n \in Nat
  BY DEF StackOK
<1>2. q \in Seq(Kinds) /\ Len(q) = n + 1 /\ q[n + 1] = f /\ \A i \in 1..n : q[i] = s[i]
  BY <1>1
<1>3. StackOK'
  BY <1>2 DEF StackOK
<1>4. stack'[t] = q /\ \A u \in Threads \ {t} : stack'[u] = stack[u]
  BY DEF StackOK
<1>5. ASSUME f \notin Calls, NEW u \in OpenCalls' PROVE u \in OpenCalls
  <2>1. u \in Threads /\ \E i \in DOMAIN stack'[u] : stack'[u][i] \in Calls
    BY DEF OpenCalls
  <2>2. CASE u # t
    BY <2>1, <2>2, <1>4 DEF OpenCalls
  <2>3. CASE u = t
    <3>1. PICK i \in 1..(n + 1) : q[i] \in Calls  BY <2>1, <2>3, <1>2, <1>4
    <3>2. i \in 1..n  BY <3>1, <1>2, <1>5, <1>1
    <3>3. i \in DOMAIN s /\ s[i] \in Calls  BY <3>1, <3>2, <1>1, <1>2
    <3> QED  BY <3>3, <2>3 DEF OpenCalls
  <2> QED  BY <2>2, <2>3
<1>6. ASSUME NEW x \in StepsAt' PROVE x \in StepsAt
  <2>1. x \in Threads \X Nat \X Steps /\ x[2] \in DOMAIN stack'[x[1]] /\ stack'[x[1]][x[2]] = x[3]
    BY DEF StepsAt
  <2>2. CASE x[1] # t
    BY <2>1, <2>2, <1>4 DEF StepsAt
  <2>3. CASE x[1] = t
    <3>1. x[2] \in 1..(n + 1) /\ q[x[2]] = x[3]  BY <2>1, <2>3, <1>2, <1>4
    <3>2. x[2] # n + 1  BY <3>1, <1>2, <2>1
    <3>3. x[2] \in 1..n  BY <3>1, <3>2, <1>1
    <3>4. x[2] \in DOMAIN s /\ s[x[2]] = x[3]  BY <3>1, <3>3, <1>1, <1>2
    <3> QED  BY <3>4, <2>1, <2>3 DEF StepsAt
  <2> QED  BY <2>2, <2>3
<1> QED  BY <1>3, <1>5, <1>6

\* The frame on top goes.
LEMMA PopEffect ==
    ASSUME StackOK, NEW t \in Threads, stack[t] # <<>>, stack' = [stack EXCEPT ![t] = Front(stack[t])]
    PROVE  /\ StackOK'
           /\ OpenCalls' \subseteq OpenCalls
           /\ StepsAt' \subseteq StepsAt
<1> DEFINE s == stack[t]
           n == Len(s)
           q == Front(s)
<1>1. s \in Seq(Kinds) /\ n \in Nat \ {0}
  BY DEF StackOK
<1>2. q \in Seq(Kinds) /\ Len(q) = n - 1 /\ \A i \in 1..(n - 1) : q[i] = s[i]
  BY <1>1 DEF Front
<1>3. StackOK'
  BY <1>2 DEF StackOK
<1>4. stack'[t] = q /\ \A u \in Threads \ {t} : stack'[u] = stack[u]
  BY DEF StackOK
<1>5. \A i \in DOMAIN q : i \in DOMAIN s /\ q[i] = s[i]
  BY <1>1, <1>2
<1>6. \A u \in Threads : \A i \in DOMAIN stack'[u] : i \in DOMAIN stack[u] /\ stack'[u][i] = stack[u][i]
  BY <1>4, <1>5
<1>7. OpenCalls' \subseteq OpenCalls
  BY <1>6 DEF OpenCalls
<1>8. StepsAt' \subseteq StepsAt
  BY <1>6 DEF StepsAt
<1> QED  BY <1>3, <1>7, <1>8
-----------------------------------------------------------------------------
(***************************************************************************)
(* Starts.  At most one is in progress, and its step tells what the        *)
(* members hold: nothing was attempted before it, nothing launched before  *)
(* its launch, no worker let in before the latch.                          *)
(***************************************************************************)
Idle == \A w \in Workers : loops[w] = "none"
Quiet == \A w \in Workers : loops[w] # "running"

StepFacts(k) ==
    /\ k \in {"check", "launch", "ready"} => startInProgress /\ Idle
    /\ k = "check" <=> ~startAttempted
    /\ k = "launch" => births = 0
    /\ k \in {"launch", "ready", "spawn", "open"} => ~latch
    /\ k = "open" => aborted
    /\ k = "cleanup" => Quiet /\ (aborted \/ Idle)

OneStart == \A x, y \in StepsAt : x = y

Unattempted == ~startAttempted => births = 0 /\ Idle /\ ~latch /\ outcome = "none"

Latched == ~latch => Quiet

Rejected ==
    outcome = "rejected" =>
        StepsAt = {} /\ startAttempted /\ ~accepting /\ Quiet /\ (aborted \/ Idle)

Shut ==
    shutdownStarted =>
        /\ StepsAt = {} /\ process # "alive"
        /\ startAttempted \/ (~facade /\ OpenCalls = {})

Members ==
    /\ births \in Nat /\ births <= 1
    /\ startAttempted \in BOOLEAN /\ startInProgress \in BOOLEAN /\ latch \in BOOLEAN
    /\ aborted \in BOOLEAN /\ facade \in BOOLEAN /\ shutdownStarted \in BOOLEAN
    /\ loops \in [Workers -> {"none", "gated", "running", "done"}]

StartInv ==
    /\ StackOK /\ Members /\ OneStart
    /\ \A x \in StepsAt : StepFacts(x[3])
    /\ Unattempted /\ Latched /\ Rejected /\ Shut

(***************************************************************************)
(* The destruction: which member tells what of the reservation, and that   *)
(* the cleanup worker passes its stages only after what they need.         *)
(***************************************************************************)
Told ==
    /\ handing = "request" => outcome = "rejected"
    /\ handing = "release" => ~facade
    /\ facade => owner[backend] = "held"
    /\ requested[backend] => outcome = "rejected" \/ ~facade
    /\ released[backend] => ~facade
    /\ ~cancelled[backend]
    /\ owner[backend] # "none" => worker[backend] # "none"
    /\ owner[backend] = "none" =>
          ~shutdownStarted /\ handing = "none" /\ OpenCalls = {} /\ ~requested[backend]

Stages ==
    /\ shutdownStarted => requested[backend]
    /\ worker[backend] \in {"settle", "hold", "dispose", "finished"} =>
          shutdownStarted /\ \A w \in Workers : loops[w] \in {"none", "done"}

Emptied == shutdownStarted => OpenCalls = {} \/ outcome = "rejected"

LifetimeInv == StartInv /\ LifeInv({backend}) /\ Told /\ Stages /\ Emptied

LEMMA LifetimeInit == Init => LifetimeInv
<1> SUFFICES ASSUME Init PROVE LifetimeInv
  OBVIOUS
<1>1. LifeInv({backend})
  BY SameOwner, LifeInit DEF Init
<1>2. StackOK /\ StepsAt = {}
  BY DEF Init, StackOK, StepsAt
<1>3. Members
  <2>1. births = 0 /\ 0 \in Nat /\ 0 <= 1  BY DEF Init
  <2> QED  BY <2>1 DEF Init, Members
<1>4. StartInv
  BY <1>2, <1>3 DEF Init, StartInv, OneStart, Unattempted, Idle, Latched, Quiet, Rejected, Shut
<1>5. Told /\ Stages /\ Emptied
  <2>1. OpenCalls = {}  BY DEF Init, OpenCalls
  <2> QED  BY <2>1 DEF Init, Owner!Init, Told, Stages, Emptied
<1> QED  BY <1>1, <1>4, <1>5 DEF LifetimeInv

\* A step of the one start in progress.
LEMMA Advance ==
    ASSUME StartInv, NEW t \in Threads, NEW a \in Steps, Starting(t, a),
           NEW k \in Steps \cup {"return"}, NEW f \in {"callback", "handler"},
           \/ stack' = [stack EXCEPT ![t] = At(t, k)]
           \/ stack' = [stack EXCEPT ![t] = Append(At(t, k), f)]
    PROVE  /\ StackOK' /\ OneStart'
           /\ OpenCalls' \subseteq OpenCalls
           /\ StepsAt # {} /\ StepFacts(a)
           /\ \A x \in StepsAt' : x[3] = k
           /\ k = "return" => StepsAt' = {}
<1> DEFINE n == Len(stack[t])
<1>1. StackOK /\ OneStart /\ a \in Calls /\ Top(t) = a
  BY DEF StartInv, Starting, Steps, Calls
<1>2. /\ StackOK' /\ OpenCalls' \subseteq OpenCalls
      /\ <<t, n, a>> \in StepsAt
      /\ StepsAt' \subseteq (StepsAt \ {<<t, n, a>>}) \cup {<<t, n, k>>}
      /\ k \notin Steps => <<t, n, k>> \notin StepsAt'
  BY <1>1, MoveEffect
<1>3. StepsAt = {<<t, n, a>>}
  BY <1>1, <1>2 DEF OneStart
<1>4. StepsAt' \subseteq {<<t, n, k>>}
  BY <1>2, <1>3
<1>5. OneStart'
  BY <1>4 DEF OneStart
<1>6. k = "return" => StepsAt' = {}
  BY <1>2, <1>4 DEF Steps
<1> QED  BY <1>2, <1>3, <1>4, <1>5, <1>6 DEF StartInv

\* What the members of StartInv and the stages depend on.
Starts == <<births, startAttempted, startInProgress, latch, aborted, outcome, loops>>

\* Steps that move no start: frames of other kinds come and go.
LEMMA StartKept ==
    ASSUME StartInv, StackOK', StepsAt' \subseteq StepsAt,
           UNCHANGED Starts, facade' \in BOOLEAN, UNCHANGED shutdownStarted, UNCHANGED process,
           ~accepting => ~accepting',
           shutdownStarted /\ ~startAttempted => ~facade' /\ OpenCalls' = {}
    PROVE  StartInv'
<1>1. OneStart'
  BY DEF StartInv, OneStart
<1>2. \A x \in StepsAt' : StepFacts(x[3])'
  BY DEF StartInv, StepFacts, Starts, Idle, Quiet
<1>3. Members'
  BY DEF StartInv, Members, Starts
<1>4. Unattempted' /\ Latched'
  BY DEF StartInv, Unattempted, Latched, Starts, Idle, Quiet
<1>5. Rejected'
  BY DEF StartInv, Rejected, Starts, Idle, Quiet
<1>6. Shut'
  BY DEF StartInv, Shut, Starts, Members
<1> QED  BY <1>1, <1>2, <1>3, <1>4, <1>5, <1>6 DEF StartInv

\* The frames of a thread that is in host code or that a callback returns to.
LEMMA HostFrames ==
    ASSUME StartInv, NEW t \in Threads,
           \/ EnterCall(t) \/ LeaveCall(t) \/ Invoke(t) \/ HostReturns(t)
    PROVE  /\ StackOK' /\ StepsAt' \subseteq StepsAt
           /\ ~facade => OpenCalls' \subseteq OpenCalls
<1> USE DEF StartInv
<1>1. CASE EnterCall(t)
  <2>1. PICK f \in {"call", "start"} : stack' = [stack EXCEPT ![t] = Append(stack[t], f)]
    BY <1>1 DEF EnterCall, Push
  <2>2. f \in Kinds \ Steps  BY DEF Kinds, Calls, Steps
  <2>3. facade  BY <1>1 DEF EnterCall
  <2> QED  BY <2>1, <2>2, <2>3, PushEffect
<1>2. CASE LeaveCall(t) \/ HostReturns(t)
  <2>1. stack' = [stack EXCEPT ![t] = Front(stack[t])]
    BY <1>2 DEF LeaveCall, HostReturns, CallbackReturns, HandlerReturns, Pop
  <2>2. stack[t] # <<>>
    BY <1>2 DEF LeaveCall, HostReturns, CallbackReturns, HandlerReturns, Top
  <2> QED  BY <2>1, <2>2, PopEffect
<1>3. CASE Invoke(t)
  <2>1. CASE stack' = [stack EXCEPT ![t] = Append(stack[t], "callback")]
    <3>1. "callback" \in Kinds \ Steps /\ "callback" \notin Calls  BY DEF Kinds, Calls, Steps
    <3> QED  BY <2>1, <3>1, PushEffect
  <2>2. CASE stack' = [stack EXCEPT ![t] = stack[t]]
    <3>1. stack' = stack  BY <2>2 DEF StackOK
    <3>2. StackOK' /\ StepsAt' = StepsAt /\ OpenCalls' = OpenCalls
      BY <3>1 DEF StackOK, StepsAt, OpenCalls
    <3> QED  BY <3>2
  <2> QED  BY <1>3, <2>1, <2>2 DEF Invoke, Guarded
<1> QED  BY <1>1, <1>2, <1>3

\* A guarded callback leaves a closed gate closed, and pushes its frame or nothing.
LEMMA GuardedEffect ==
    ASSUME NEW t \in Threads, NEW rest, Guarded(t, rest)
    PROVE  /\ ~accepting => ~accepting'
           /\ \/ stack' = [stack EXCEPT ![t] = rest]
              \/ stack' = [stack EXCEPT ![t] = Append(rest, "callback")]
  BY DEF Guarded, Gate!Enter, gate

\* What is left to show of a step of a start.
LEMMA Moved ==
    ASSUME StartInv, StepsAt # {}, NEW k, \A x \in StepsAt' : x[3] = k, StackOK', OneStart',
           Members', StepsAt' = {} \/ StepFacts(k)', Unattempted', Latched',
           outcome' # "rejected" \/ outcome' = outcome, UNCHANGED shutdownStarted
    PROVE  StartInv'
<1>1. ~shutdownStarted /\ outcome # "rejected"
  BY DEF StartInv, Shut, Rejected, Members
<1>2. \A x \in StepsAt' : StepFacts(x[3])'
  OBVIOUS
<1>3. Rejected' /\ Shut'
  BY <1>1 DEF Rejected, Shut
<1> QED  BY <1>2, <1>3 DEF StartInv

LEMMA StartStepKeeps ==
    ASSUME StartInv, NEW t \in Threads, StartStep(t)
    PROVE  StartInv' /\ OpenCalls' \subseteq OpenCalls
<1>a. /\ StackOK /\ Members /\ OneStart
      /\ \A x \in StepsAt : StepFacts(x[3])
      /\ Unattempted /\ Latched /\ Rejected /\ Shut
  BY DEF StartInv
<1> DEFINE MovedTo(k) ==
             /\ StackOK' /\ OneStart' /\ OpenCalls' \subseteq OpenCalls
             /\ \A x \in StepsAt' : x[3] = k
             /\ k = "return" => StepsAt' = {}
<1>0. shutdownStarted => StepsAt = {}
  BY <1>a DEF Shut
<1>1. CASE Refuse(t)
  <2>1. stack' = [stack EXCEPT ![t] = Append(At(t, "return"), "handler")] /\ Top(t) = "start"
    BY <1>a, <1>1 DEF Refuse, Starting
  <2>2. "start" \in Calls /\ "start" \notin Steps /\ "return" \notin Steps
    BY <1>a DEF Calls, Steps
  <2>5. /\ StackOK' /\ OpenCalls' \subseteq OpenCalls
        /\ StepsAt' \subseteq (StepsAt \ {<<t, Len(stack[t]), "start">>}) \cup {<<t, Len(stack[t]), "return">>}
        /\ <<t, Len(stack[t]), "return">> \notin StepsAt'
    BY <1>a, <2>1, <2>2, MoveEffect
  <2>3. StepsAt' \subseteq StepsAt
    BY <1>a, <2>5
  <2>4. UNCHANGED <<Starts, facade, shutdownStarted, process, accepting>>
    BY <1>a, <1>1 DEF Refuse, begin, down, gate, Starts
  <2>6. shutdownStarted /\ ~startAttempted => ~facade' /\ OpenCalls' = {}
    BY <1>a, <2>4, <2>5 DEF Shut
  <2>7. UNCHANGED Starts /\ facade' \in BOOLEAN /\ UNCHANGED shutdownStarted /\ UNCHANGED process
        /\ (~accepting => ~accepting')
    BY <1>a, <2>4 DEF Members
  <2> QED  BY <2>3, <2>5, <2>6, <2>7, StartKept
<1>2. CASE Admit(t)
  <2>1. stack' = [stack EXCEPT ![t] = At(t, "check")] /\ Top(t) = "start" /\ ~Repeated
    BY <1>a, <1>2 DEF Admit, Starting, Become
  <2>2. "start" \in Calls /\ "start" \notin Steps /\ "check" \in Steps
    BY <1>a DEF Calls, Steps
  <2>3. /\ StackOK' /\ OpenCalls' \subseteq OpenCalls
        /\ StepsAt' \subseteq StepsAt \cup {<<t, Len(stack[t]), "check">>}
    BY <1>a, <2>1, <2>2, MoveEffect
  <2>4. StepsAt = {}
    BY <1>a, <2>1 DEF StepFacts, Repeated, Steps, StepsAt
  <2>5. OneStart' /\ \A x \in StepsAt' : x[3] = "check"
    BY <1>a, <2>3, <2>4 DEF OneStart
  <2>6. t \in OpenCalls
    BY <1>a, <2>1, <2>2 DEF OpenCalls, Top, Last, StackOK
  <2>7. ~shutdownStarted
    BY <1>a, <2>1, <2>6 DEF Shut, Repeated
  <2>8. /\ startInProgress' = TRUE /\ UNCHANGED <<births, startAttempted, latch, aborted, outcome, loops>>
        /\ UNCHANGED <<accepting, facade, shutdownStarted, process>>
    BY <1>a, <1>2 DEF Admit, gate, down
  <2>9. ~startAttempted  BY <2>1 DEF Repeated
  <2>10. \A x \in StepsAt' : StepFacts(x[3])'
    BY <1>a, <2>5, <2>8, <2>9 DEF StepFacts, Unattempted, Idle
  <2>11. Members'
    BY <1>a, <2>8 DEF Members
  <2>12. Unattempted' /\ Latched'
    BY <1>a, <2>8 DEF Unattempted, Latched, Idle, Quiet
  <2>13. Rejected'
    BY <1>a, <2>8, <2>9 DEF Rejected, Unattempted
  <2>14. Shut'
    BY <2>7, <2>8 DEF Shut
  <2> QED
    BY <2>3, <2>5, <2>10, <2>11, <2>12, <2>13, <2>14 DEF StartInv
<1>3. CASE RejectEarly(t)
  <2>1. \/ stack' = [stack EXCEPT ![t] = At(t, "return")]
        \/ stack' = [stack EXCEPT ![t] = Append(At(t, "return"), "callback")]
        \/ stack' = [stack EXCEPT ![t] = Append(At(t, "return"), "handler")]
    BY <1>a, <1>3, GuardedEffect DEF RejectEarly
  <2>2. Starting(t, "check") /\ "check" \in Steps
    BY <1>a, <1>3 DEF RejectEarly, Steps
  <2>3. MovedTo("return") /\ StepsAt # {} /\ StepFacts("check")
    BY <1>a, <2>1, <2>2, Advance
  <2>4. /\ UNCHANGED <<births, startAttempted, latch, aborted, outcome, loops>>
        /\ UNCHANGED <<facade, shutdownStarted, process>> /\ startInProgress' = FALSE
    BY <1>a, <1>3 DEF RejectEarly, down
  <2>5. ~accepting => ~accepting'
    BY <1>a, <1>3, GuardedEffect DEF RejectEarly, gate
  <2>21. Members'
    BY <1>a, <2>3, <2>4, <2>5 DEF Members
  <2>22. Unattempted'
    BY <1>a, <2>3, <2>4, <2>5 DEF StepFacts, Unattempted, Idle
  <2>23. Latched'
    BY <1>a, <2>3, <2>4, <2>5 DEF Latched, Quiet
  <2> QED
    BY <2>3, <2>4, <2>5, <2>21, <2>22, <2>23, Moved
<1>4. CASE Attempt(t)
  <2>1. MovedTo("launch") /\ StepsAt # {} /\ StepFacts("check")
    BY <1>a, <1>4, Advance DEF Attempt, Become, Steps
  <2>2. /\ startAttempted' = TRUE /\ UNCHANGED <<births, startInProgress, latch, aborted, outcome, loops>>
        /\ UNCHANGED <<accepting, facade, shutdownStarted, process>>
    BY <1>a, <1>4 DEF Attempt, gate, down
  <2>3. ~startAttempted /\ startInProgress /\ Idle
    BY <1>a, <2>1 DEF StepFacts
  <2>21. Members'
    BY <1>a, <2>1, <2>2, <2>3 DEF Members
  <2>22. Unattempted'
    BY <1>a, <2>1, <2>2, <2>3 DEF StepFacts, Unattempted, Idle
  <2>23. Latched'
    BY <1>a, <2>1, <2>2, <2>3 DEF Latched, Quiet
  <2>24. StepFacts("launch")'
    BY <1>a, <2>1, <2>2, <2>3 DEF StepFacts, Idle, Unattempted
  <2> QED
    BY <2>1, <2>2, <2>3, <2>21, <2>22, <2>23, <2>24, Moved
<1>5. CASE Launch(t)
  <2>1. Starting(t, "launch") /\ "launch" \in Steps /\ "ready" \in Steps /\ "cleanup" \in Steps
    BY <1>a, <1>5 DEF Launch, Steps
  <2>2. /\ births' \in {births, births + 1}
        /\ \/ /\ stack' = [stack EXCEPT ![t] = At(t, "ready")]
              /\ UNCHANGED <<startInProgress, accepting>>
           \/ /\ Guarded(t, At(t, "cleanup"))
              /\ startInProgress' = FALSE
    BY <1>a, <1>5 DEF Launch, Become, gate
  <2>3. UNCHANGED <<startAttempted, latch, aborted, outcome, loops, facade, shutdownStarted>>
    BY <1>a, <1>5 DEF Launch
  <2>4. CASE stack' = [stack EXCEPT ![t] = At(t, "ready")] /\ UNCHANGED <<startInProgress, accepting>>
    <3>1. MovedTo("ready") /\ StepsAt # {} /\ StepFacts("launch")
      BY <1>a, <2>1, <2>4, Advance
    <3>2. births = 0 /\ births' \in Nat /\ births' <= 1 /\ startAttempted /\ Idle /\ ~latch /\ startInProgress
      BY <1>a, <2>2, <3>1 DEF StepFacts
    <3>3. Members'
      BY <1>a, <2>3, <2>4, <3>1, <3>2 DEF Members
    <3>4. Unattempted'
      BY <1>a, <2>3, <2>4, <3>1, <3>2 DEF Unattempted
    <3>5. Latched'
      BY <1>a, <2>3, <2>4, <3>1, <3>2 DEF Latched, Quiet
    <3>6. StepFacts("ready")'
      BY <1>a, <2>3, <2>4, <3>1, <3>2 DEF StepFacts, Idle, Quiet
    <3> QED
      BY <2>3, <2>4, <3>1, <3>2, <3>3, <3>4, <3>5, <3>6, Moved
  <2>5. CASE Guarded(t, At(t, "cleanup")) /\ startInProgress' = FALSE
    <3>1. MovedTo("cleanup") /\ StepsAt # {} /\ StepFacts("launch") /\ (~accepting => ~accepting')
      BY <1>a, <2>1, <2>5, GuardedEffect, Advance
    <3>2. births = 0 /\ births' \in Nat /\ births' <= 1 /\ startAttempted /\ Idle /\ ~latch
      BY <1>a, <2>2, <3>1 DEF StepFacts
    <3>3. Members'
      BY <1>a, <2>3, <2>5, <3>1, <3>2 DEF Members
    <3>4. Unattempted'
      BY <1>a, <2>3, <2>5, <3>1, <3>2 DEF Unattempted
    <3>5. Latched'
      BY <1>a, <2>3, <2>5, <3>1, <3>2 DEF Latched, Quiet
    <3>6. StepFacts("cleanup")'
      BY <1>a, <2>3, <2>5, <3>1, <3>2 DEF StepFacts, Idle, Quiet
    <3> QED
      BY <2>3, <2>5, <3>1, <3>2, <3>3, <3>4, <3>5, <3>6, Moved
  <2> QED  BY <2>2, <2>4, <2>5
<1>6. CASE RejectLate(t)
  <2>1. MovedTo("cleanup") /\ StepsAt # {} /\ StepFacts("ready") /\ (~accepting => ~accepting')
    BY <1>a, <1>6, GuardedEffect, Advance DEF RejectLate, Steps
  <2>2. /\ startInProgress' = FALSE /\ UNCHANGED <<births, startAttempted, latch, aborted, outcome, loops>>
        /\ UNCHANGED <<facade, shutdownStarted, process>>
    BY <1>a, <1>6 DEF RejectLate, down
  <2>21. Members'
    BY <1>a, <2>1, <2>2 DEF Members
  <2>22. Unattempted'
    BY <1>a, <2>1, <2>2 DEF StepFacts, Unattempted, Idle
  <2>23. Latched'
    BY <1>a, <2>1, <2>2 DEF Latched, Quiet
  <2>24. StepFacts("cleanup")'
    BY <1>a, <2>1, <2>2 DEF StepFacts, Idle, Quiet, Latched
  <2> QED
    BY <2>1, <2>2, <2>21, <2>22, <2>23, <2>24, Moved
<1>7. CASE Commit(t)
  <2>1. MovedTo("spawn") /\ StepsAt # {} /\ StepFacts("ready")
    BY <1>a, <1>7, Advance DEF Commit, Become, Steps
  <2>2. /\ startInProgress' = FALSE /\ startAttempted' = TRUE /\ aborted' = FALSE
        /\ UNCHANGED <<births, latch, outcome, loops, accepting, facade, shutdownStarted, process>>
    BY <1>a, <1>7 DEF Commit, gate, down
  <2>21. Members'
    BY <1>a, <2>1, <2>2 DEF Members
  <2>22. Unattempted'
    BY <1>a, <2>1, <2>2 DEF StepFacts, Unattempted, Idle
  <2>23. Latched'
    BY <1>a, <2>1, <2>2 DEF Latched, Quiet
  <2>24. StepFacts("spawn")'
    BY <1>a, <2>1, <2>2 DEF StepFacts, Idle, Quiet, Latched
  <2> QED
    BY <2>1, <2>2, <2>21, <2>22, <2>23, <2>24, Moved
<1>8. CASE SpawnWorker(t)
  <2>1. stack' = stack /\ UNCHANGED <<births, startAttempted, startInProgress, latch, aborted, outcome>>
        /\ UNCHANGED <<accepting, facade, shutdownStarted, process>>
    BY <1>a, <1>8 DEF SpawnWorker, begin, gate
  <2>2. PICK w \in Workers : loops[w] = "none" /\ loops' = [loops EXCEPT ![w] = "gated"]
    BY <1>a, <1>8 DEF SpawnWorker
  <2>3. StackOK' /\ OpenCalls' = OpenCalls /\ StepsAt' = StepsAt
    BY <1>a, <2>1 DEF StackOK, OpenCalls, StepsAt
  <2>4. <<t, Len(stack[t]), "spawn">> \in StepsAt
    BY <1>a, <1>8 DEF SpawnWorker, Starting, Top, Last, StepsAt, Steps, StackOK
  <2>5. \A x \in StepsAt : x[3] = "spawn"
    BY <1>a, <2>4 DEF OneStart
  <2>6. startAttempted /\ ~latch
    BY <1>a, <2>4 DEF StepFacts
  <2>7. Members'
    BY <1>a, <2>1, <2>2 DEF Members
  <2>8. \A v \in Workers : loops'[v] = "running" => loops[v] = "running"
    BY <1>a, <2>2 DEF Members
  <2>9. Latched'
    BY <1>a, <2>1, <2>8 DEF Latched, Quiet
  <2>10. StepFacts("spawn")' /\ Unattempted'
    BY <1>a, <2>1, <2>6 DEF StepFacts, Unattempted
  <2>11. OneStart' /\ StepsAt # {} /\ \A x \in StepsAt' : x[3] = "spawn"
    BY <1>a, <2>3, <2>4, <2>5 DEF OneStart
  <2> QED
    BY <2>1, <2>3, <2>7, <2>9, <2>10, <2>11, Moved
<1>9. CASE OpenLatch(t)
  <2>1. MovedTo("return") /\ StepsAt # {} /\ StepFacts("spawn")
    BY <1>a, <1>9, Advance DEF OpenLatch, Become, Steps
  <2>2. /\ latch' = TRUE /\ outcome' = "accepted"
        /\ UNCHANGED <<births, startAttempted, startInProgress, aborted, loops>>
        /\ UNCHANGED <<accepting, facade, shutdownStarted, process>>
    BY <1>a, <1>9 DEF OpenLatch, gate, down
  <2>21. Members'
    BY <1>a, <2>1, <2>2 DEF Members
  <2>22. Unattempted'
    BY <1>a, <2>1, <2>2 DEF StepFacts, Unattempted, Idle
  <2>23. Latched'
    BY <1>a, <2>1, <2>2 DEF Latched, Quiet
  <2> QED
    BY <2>1, <2>2, <2>21, <2>22, <2>23, Moved
<1>10. CASE AbortGate(t)
  <2>1. MovedTo("open") /\ StepsAt # {} /\ StepFacts("spawn")
    BY <1>a, <1>10, Advance DEF AbortGate, Become, Steps
  <2>2. /\ aborted' = TRUE
        /\ UNCHANGED <<births, startAttempted, startInProgress, latch, outcome, loops>>
        /\ UNCHANGED <<accepting, facade, shutdownStarted, process>>
    BY <1>a, <1>10 DEF AbortGate, gate, down
  <2>21. Members'
    BY <1>a, <2>1, <2>2 DEF Members
  <2>22. Unattempted'
    BY <1>a, <2>1, <2>2 DEF StepFacts, Unattempted, Idle
  <2>23. Latched'
    BY <1>a, <2>1, <2>2 DEF Latched, Quiet
  <2>24. StepFacts("open")'
    BY <1>a, <2>1, <2>2 DEF StepFacts, Idle, Quiet, Latched
  <2> QED
    BY <2>1, <2>2, <2>21, <2>22, <2>23, <2>24, Moved
<1>11. CASE OpenAborted(t)
  <2>1. /\ \/ stack' = [stack EXCEPT ![t] = At(t, "cleanup")]
           \/ stack' = [stack EXCEPT ![t] = Append(At(t, "cleanup"), "callback")]
        /\ ~accepting => ~accepting'
    BY <1>a, <1>11, GuardedEffect DEF OpenAborted, Become, gate
  <2>2. MovedTo("cleanup") /\ StepsAt # {} /\ StepFacts("open")
    BY <1>a, <1>11, <2>1, Advance DEF OpenAborted, Steps
  <2>3. /\ latch' = TRUE
        /\ UNCHANGED <<births, startAttempted, startInProgress, aborted, outcome, loops>>
        /\ UNCHANGED <<facade, shutdownStarted, process>>
    BY <1>a, <1>11 DEF OpenAborted, down
  <2>21. Members'
    BY <1>a, <2>1, <2>2, <2>3 DEF Members
  <2>22. Unattempted'
    BY <1>a, <2>1, <2>2, <2>3 DEF StepFacts, Unattempted, Idle
  <2>23. Latched'
    BY <1>a, <2>1, <2>2, <2>3 DEF Latched, Quiet
  <2>24. StepFacts("cleanup")'
    BY <1>a, <2>1, <2>2, <2>3 DEF StepFacts, Idle, Quiet, Latched
  <2> QED
    BY <2>1, <2>2, <2>3, <2>21, <2>22, <2>23, <2>24, Moved
<1>12. CASE Fail(t)
  <2>1. MovedTo("return") /\ StepsAt # {} /\ StepFacts("cleanup")
    BY <1>a, <1>12, Advance DEF Fail, Become, Steps
  <2>2. /\ outcome' = "rejected" /\ accepting' = FALSE
        /\ UNCHANGED <<births, startAttempted, startInProgress, latch, aborted, loops>>
        /\ UNCHANGED <<facade, shutdownStarted, process>>
    BY <1>a, <1>12 DEF Fail, Gate!BeginRevoke, down
  <2>21. Members'
    BY <1>a, <2>1, <2>2 DEF Members
  <2>22. Unattempted'
    BY <1>a, <2>1, <2>2 DEF StepFacts, Unattempted, Idle
  <2>23. Latched'
    BY <1>a, <2>1, <2>2 DEF Latched, Quiet
  <2>24. startAttempted /\ Quiet /\ (aborted \/ Idle) /\ ~shutdownStarted
    BY <1>a, <1>0, <2>1 DEF StepFacts, Members
  <2>25. Rejected'
    BY <2>1, <2>2, <2>24 DEF Rejected, Quiet, Idle
  <2>26. Shut'
    BY <2>2, <2>24 DEF Shut
  <2>27. \A x \in StepsAt' : StepFacts(x[3])'
    BY <2>1
  <2> QED
    BY <2>1, <2>21, <2>22, <2>23, <2>25, <2>26, <2>27 DEF StartInv
<1> QED
  BY <1>a, <1>1, <1>2, <1>3, <1>4, <1>5, <1>6, <1>7, <1>8, <1>9, <1>10, <1>11, <1>12 DEF StartStep

\* A step of a worker's loop lets nobody run whom the latch or the abort keeps out.
LEMMA LoopKeeps ==
    ASSUME StartInv, NEW w \in Workers, AdmitWorker(w) \/ WorkerEnds(w)
    PROVE  StartInv' /\ OpenCalls' = OpenCalls
<1>a. /\ StackOK /\ Members /\ OneStart
      /\ \A x \in StepsAt : StepFacts(x[3])
      /\ Unattempted /\ Latched /\ Rejected /\ Shut
  BY DEF StartInv
<1>1. /\ stack' = stack
      /\ UNCHANGED <<births, startAttempted, startInProgress, latch, aborted, outcome>>
      /\ UNCHANGED <<accepting, facade, shutdownStarted, process>>
  BY DEF AdmitWorker, WorkerEnds, gate, begin
<1>2. StackOK' /\ StepsAt' = StepsAt /\ OpenCalls' = OpenCalls
  BY <1>1, <1>a DEF StackOK, StepsAt, OpenCalls
<1>3. /\ loops' \in [Workers -> {"none", "gated", "running", "done"}]
      /\ loops[w] # "none"
      /\ \A v \in Workers \ {w} : loops'[v] = loops[v]
      /\ loops'[w] = "running" => latch /\ ~aborted
  BY <1>a DEF AdmitWorker, WorkerEnds, Members
<1>4. Members'
  BY <1>a, <1>1, <1>3 DEF Members
<1>5. ~Idle
  BY <1>3 DEF Idle
<1>6. startAttempted
  BY <1>a, <1>5 DEF Unattempted
<1>7. aborted /\ Quiet => Quiet'
  BY <1>3 DEF Quiet
<1>8. ~latch => Quiet'
  BY <1>a, <1>3 DEF Latched, Quiet
<1>9. \A x \in StepsAt' : StepFacts(x[3])'
  BY <1>a, <1>1, <1>2, <1>5, <1>7 DEF StepFacts
<1>10. Unattempted' /\ Latched'
  BY <1>1, <1>6, <1>8 DEF Unattempted, Latched
<1>11. Rejected'
  BY <1>a, <1>1, <1>2, <1>5, <1>7 DEF Rejected
<1>12. Shut' /\ OneStart'
  BY <1>a, <1>1, <1>2 DEF Shut, OneStart
<1> QED
  BY <1>2, <1>4, <1>9, <1>10, <1>11, <1>12 DEF StartInv

\* Steps of the host and of the revocation.
LEMMA HostKeeps ==
    ASSUME StartInv, NEW t \in Threads,
           \/ SleepUntilDrained \/ HandOver \/ RegistryStep \/ CleanupStep
           \/ EnterCall(t) \/ Snapshot(t) \/ Destroy(t) \/ LeaveCall(t) \/ Invoke(t) \/ HostReturns(t)
    PROVE  StartInv' /\ (~facade => OpenCalls' \subseteq OpenCalls) /\ facade' \in {facade, FALSE}
<1>a. StackOK /\ Shut /\ Members
  BY DEF StartInv
<1>1. UNCHANGED Starts /\ UNCHANGED shutdownStarted /\ UNCHANGED process
  BY DEF SleepUntilDrained, HandOver, RegistryStep, CleanupStep, EnterCall, Snapshot, Destroy, LeaveCall,
         Invoke, HostReturns, CallbackReturns, HandlerReturns, begin, down, Starts
<1>2. facade' \in {facade, FALSE}
  BY DEF SleepUntilDrained, HandOver, RegistryStep, CleanupStep, EnterCall, Snapshot, Destroy, LeaveCall,
         Invoke, HostReturns, CallbackReturns, HandlerReturns
<1>3. ~accepting => ~accepting'
  <2>1. ASSUME Invoke(t) PROVE ~accepting => ~accepting'
    BY <2>1, GuardedEffect DEF Invoke
  <2> QED
    BY <2>1 DEF SleepUntilDrained, HandOver, RegistryStep, CleanupStep, EnterCall, Snapshot, Destroy, LeaveCall,
       HostReturns, CallbackReturns, HandlerReturns, gate,
       Gate!SleepUntilDrained, Gate!FinishRevoke, Gate!BeginRevoke, Gate!Leave
<1>4. StackOK' /\ StepsAt' \subseteq StepsAt /\ (~facade => OpenCalls' \subseteq OpenCalls)
  <2>1. CASE EnterCall(t) \/ LeaveCall(t) \/ Invoke(t) \/ HostReturns(t)
    BY <2>1, HostFrames
  <2>2. CASE stack' = stack
    BY <2>2, <1>a DEF StackOK, StepsAt, OpenCalls
  <2> QED
    BY <2>1, <2>2 DEF SleepUntilDrained, HandOver, RegistryStep, CleanupStep, Snapshot, Destroy
<1>5. shutdownStarted /\ ~startAttempted => ~facade' /\ OpenCalls' = {}
  BY <1>a, <1>2, <1>4 DEF Shut
<1>6. facade' \in BOOLEAN
  BY <1>a, <1>2 DEF Members
<1> QED
  BY <1>1, <1>2, <1>3, <1>4, <1>5, <1>6, StartKept

LEMMA OwnKeeps ==
    ASSUME LifetimeInv, [Next]_vars
    PROVE  LifeInv({backend})'
<1>1. Owner!Next \/ UNCHANGED own
  BY OwnerStep DEF vars
<1> QED
  BY <1>1, SameOwner, LifeStep DEF LifetimeInv

\* What the proofs of CleanupOwner say of this backend's reservation.
LEMMA Reservation ==
    ASSUME LifeInv({backend})
    PROVE  /\ owner[backend] \in {"none", "held", "gone"}
           /\ owner[backend] = "none" => worker[backend] = "none" /\ ~released[backend]
           /\ worker[backend] \in {"cleanup", "dispose"} => requested[backend]
           /\ worker[backend] \in {"dispose", "finished"} => owner[backend] = "gone"
           /\ owner[backend] = "held" => impl[backend]
           /\ worker[backend] \in {"cleanup", "settle", "hold", "dispose"} => impl[backend]
           /\ worker[backend] = "gate" => impl[backend] \/ cancelled[backend]
           /\ worker[backend] \in {"none", "gate", "cleanup", "settle", "hold", "dispose", "finished"}
           /\ requested \in [{backend} -> BOOLEAN] /\ released \in [{backend} -> BOOLEAN]
           /\ cancelled \in [{backend} -> BOOLEAN] /\ owner \in [{backend} -> {"none", "held", "gone"}]
           /\ worker \in [{backend} -> {"none", "gate", "cleanup", "settle", "hold", "dispose", "finished"}]
  BY DEF LifeInv, Registry!TypeOK, Life, Unborn, Held,
         Working, Waiting, Disposing, Cancelled,
         Busy

Ended(w) == loops[w] \in {"none", "done"}

\* Steps that leave the reservation and the shutdown alone.
LEMMA OwnersKept ==
    ASSUME LifetimeInv, UNCHANGED own, UNCHANGED shutdownStarted,
           handing' = handing \/ (handing' = "request" /\ outcome' = "rejected" /\ owner[backend] # "none")
                              \/ (handing' = "release" /\ ~facade' /\ owner[backend] # "none"),
           facade' => facade,
           \A w \in Workers : Ended(w) /\ shutdownStarted => Ended(w)',
           ~facade => OpenCalls' \subseteq OpenCalls,
           outcome = "rejected" => outcome' = "rejected"
    PROVE  Told' /\ Stages' /\ Emptied'
<1> USE DEF LifetimeInv
<1>1. Told'
  <2>1. UNCHANGED <<owner, requested, released, cancelled, worker>>
    BY DEF own
  <2>2. owner[backend] = "none" => ~facade /\ OpenCalls' = {} /\ handing' = "none" /\ ~shutdownStarted'
    BY DEF Told
  <2>3. /\ handing' = "request" => outcome' = "rejected"
        /\ handing' = "release" => ~facade'
    BY DEF Told
  <2>4. /\ facade' => facade
        /\ facade => owner[backend] = "held"
        /\ requested[backend] => outcome' = "rejected" \/ ~facade'
        /\ released[backend] => ~facade'
    BY DEF Told
  <2> QED  BY <2>1, <2>2, <2>3, <2>4 DEF Told
<1>2. Stages'
  BY DEF Stages, own, Ended
<1>3. Emptied'
  <2>1. shutdownStarted => outcome = "rejected" \/ ~facade
    BY DEF Stages, Told
  <2> QED  BY <2>1 DEF Emptied
<1> QED  BY <1>1, <1>2, <1>3

LEMMA LifetimeStep == LifetimeInv /\ [Next]_vars => LifetimeInv'
<1> SUFFICES ASSUME LifetimeInv, [Next]_vars PROVE LifetimeInv'
  OBVIOUS
<1> DEFINE Rest == StartInv' /\ Told' /\ Stages' /\ Emptied'
<1>a. StartInv /\ LifeInv({backend}) /\ Told /\ Stages /\ Emptied /\ LifeInv({backend})'
  BY OwnKeeps DEF LifetimeInv
<1>b. StackOK /\ Members /\ Shut
  BY <1>a DEF StartInv
<1>c. UNCHANGED stack => StackOK' /\ StepsAt' = StepsAt /\ OpenCalls' = OpenCalls
  BY <1>b DEF StackOK, StepsAt, OpenCalls
<1>1. CASE UNCHANGED vars
  <2>1. UNCHANGED <<stack, Starts, facade, shutdownStarted, process, accepting, own, handing, loops>>
    BY <1>1 DEF vars, begin, down, gate, Starts
  <2>2. StartInv'
    BY <1>a, <1>b, <1>c, <2>1, StartKept DEF Members, Shut
  <2>3. Told' /\ Stages' /\ Emptied'
    BY <1>c, <2>1, OwnersKept DEF Starts, Ended
  <2> QED  BY <2>2, <2>3, <1>a DEF LifetimeInv
<1>2. CASE Construct
  <2>1. /\ owner[backend] = "none" /\ facade' = TRUE
        /\ owner' = [owner EXCEPT ![backend] = "held"] /\ worker' = [worker EXCEPT ![backend] = "gate"]
        /\ UNCHANGED <<requested, released, cancelled>>
        /\ UNCHANGED <<stack, Starts, shutdownStarted, process, accepting, handing, loops>>
    BY <1>2 DEF Construct, Owner!Reserve, Owner!requests, gate, begin, down, Starts
  <2>2. ~shutdownStarted /\ handing = "none" /\ ~released[backend]
    BY <1>a, <2>1, Reservation DEF Told
  <2>3. StartInv'
    BY <1>a, <1>c, <2>1, <2>2, StartKept
  <2>4. owner'[backend] = "held" /\ worker'[backend] = "gate"
    BY <1>a, <2>1, Reservation
  <2>5. ~requested[backend]
    BY <1>a, <2>1 DEF Told
  <2>6. Told'
    BY <1>a, <2>1, <2>2, <2>4, <2>5 DEF Told, Starts
  <2>7. Stages' /\ Emptied'
    BY <2>1, <2>2, <2>4 DEF Stages, Emptied
  <2> QED  BY <2>3, <2>6, <2>7, <1>a DEF LifetimeInv
<1>3. ASSUME NEW t \in Threads, EnterCall(t) \/ Snapshot(t) \/ LeaveCall(t) \/ Invoke(t) \/ HostReturns(t)
                                \/ SleepUntilDrained
      PROVE  LifetimeInv'
  <2>1. UNCHANGED <<Starts, facade, shutdownStarted, own, handing>>
    BY <1>3 DEF EnterCall, Snapshot, LeaveCall, Invoke, HostReturns, CallbackReturns, HandlerReturns,
                SleepUntilDrained, begin, down, Starts
  <2>2. StartInv' /\ (~facade => OpenCalls' \subseteq OpenCalls)
    BY <1>3, <1>a, HostKeeps
  <2>3. Told' /\ Stages' /\ Emptied'
    BY <2>1, <2>2, OwnersKept DEF Starts, Ended
  <2> QED  BY <2>2, <2>3, <1>a DEF LifetimeInv
<1>4. ASSUME NEW t \in Threads, Destroy(t) PROVE LifetimeInv'
  <2>1. /\ UNCHANGED <<Starts, shutdownStarted, own, stack>> /\ facade /\ facade' = FALSE /\ handing' = "release"
    BY <1>4 DEF Destroy, begin, down, Starts
  <2>2. StartInv'
    BY <1>4, <1>a, HostKeeps
  <2>3. owner[backend] # "none"
    BY <1>a, <2>1 DEF Told
  <2>4. Told' /\ Stages' /\ Emptied'
    BY <1>c, <2>1, <2>3, OwnersKept DEF Starts, Ended
  <2> QED  BY <2>2, <2>4, <1>a DEF LifetimeInv
<1>5. ASSUME NEW t \in Threads, StartStep(t) PROVE LifetimeInv'
  <2>1. StartInv' /\ OpenCalls' \subseteq OpenCalls
    BY <1>5, <1>a, StartStepKeeps
  <2>2. UNCHANGED <<facade, shutdownStarted, own>> /\ (outcome = "rejected" => outcome' = "rejected")
    <3>1. UNCHANGED <<facade, shutdownStarted, own>>
      BY <1>5 DEF StartStep, Refuse, Admit, RejectEarly, Attempt, Launch, RejectLate, Commit, SpawnWorker,
                OpenLatch, AbortGate, OpenAborted, Fail, begin, down
    <3>2. CASE OpenLatch(t)
      <4>1. <<t, Len(stack[t]), "spawn">> \in StepsAt
        BY <1>b, <3>2 DEF OpenLatch, Starting, Top, Last, StepsAt, Steps, StackOK
      <4>2. outcome # "rejected"
        BY <1>a, <4>1 DEF StartInv, Rejected
      <4> QED  BY <3>1, <4>2
    <3>3. CASE ~OpenLatch(t)
      <4>1. outcome' = outcome \/ outcome' = "rejected"
        BY <1>5, <3>3 DEF StartStep, Refuse, Admit, RejectEarly, Attempt, Launch, RejectLate, Commit, SpawnWorker,
                  AbortGate, OpenAborted, Fail, begin
      <4> QED  BY <3>1, <4>1
    <3> QED  BY <3>2, <3>3
  <2>3. \A w \in Workers : Ended(w) /\ shutdownStarted => Ended(w)'
    <3>1. CASE SpawnWorker(t)
      <4>1. <<t, Len(stack[t]), "spawn">> \in StepsAt
        BY <1>b, <3>1 DEF SpawnWorker, Starting, Top, Last, StepsAt, Steps, StackOK
      <4> QED  BY <4>1, <1>b DEF Shut
    <3>2. CASE ~SpawnWorker(t)
      <4>1. loops' = loops
        BY <1>5, <3>2 DEF StartStep, Refuse, Admit, RejectEarly, Attempt, Launch, RejectLate, Commit,
              OpenLatch, AbortGate, OpenAborted, Fail, down
      <4> QED  BY <4>1 DEF Ended
    <3> QED  BY <3>1, <3>2
  <2>4. handing' = handing \/ (handing' = "request" /\ outcome' = "rejected" /\ owner[backend] # "none")
    <3>1. CASE Fail(t)
      <4>1. <<t, Len(stack[t]), "cleanup">> \in StepsAt
        BY <1>b, <3>1 DEF Fail, Starting, Top, Last, StepsAt, Steps, StackOK
      <4>2. handing' = "request" /\ outcome' = "rejected"
        BY <3>1 DEF Fail
      <4>3. owner[backend] # "none"
        <5>1. t \in OpenCalls
          BY <4>1 DEF OpenCalls, StepsAt, Steps, Calls
        <5> QED  BY <1>a, <5>1 DEF Told
      <4> QED  BY <4>2, <4>3
    <3>2. CASE ~Fail(t)
      BY <1>5, <3>2 DEF StartStep, Refuse, Admit, RejectEarly, Attempt, Launch, RejectLate, Commit, SpawnWorker,
              OpenLatch, AbortGate, OpenAborted
    <3> QED  BY <3>1, <3>2
  <2>5. Told' /\ Stages' /\ Emptied'
    BY <2>1, <2>2, <2>3, <2>4, OwnersKept
  <2> QED  BY <2>1, <2>5, <1>a DEF LifetimeInv
<1>6. ASSUME NEW w \in Workers, AdmitWorker(w) \/ WorkerEnds(w) PROVE LifetimeInv'
  <2>1. StartInv' /\ OpenCalls' = OpenCalls
    BY <1>6, <1>a, LoopKeeps
  <2>2. UNCHANGED <<facade, shutdownStarted, own, handing, outcome>>
    BY <1>6 DEF AdmitWorker, WorkerEnds, begin
  <2>3. \A v \in Workers : Ended(v) => Ended(v)'
    BY <1>6, <1>b DEF AdmitWorker, WorkerEnds, Ended, Members
  <2>4. Told' /\ Stages' /\ Emptied'
    BY <2>1, <2>2, <2>3, OwnersKept
  <2> QED  BY <2>1, <2>4, <1>a DEF LifetimeInv
<1>7. CASE HandOver
  <2>1. UNCHANGED <<Starts, facade, shutdownStarted, stack>> /\ handing' = "none"
    BY <1>7 DEF HandOver, begin, down, Starts
  <2>2. StartInv'
    <3>1. Gate!FinishRevoke  BY <1>7 DEF HandOver
    <3>2. UNCHANGED <<accepting, process>>  BY <1>7, <3>1 DEF HandOver, Gate!FinishRevoke, down
    <3> QED  BY <1>a, <1>b, <1>c, <2>1, <3>2, StartKept DEF Shut, Members
  <2>3. /\ UNCHANGED <<worker, cancelled>>
        /\ owner[backend] # "none"
        /\ owner'[backend] \in {owner[backend], "gone"}
        /\ owner'[backend] = "gone" /\ owner[backend] = "held" => ~facade
        /\ requested'[backend] => requested[backend] \/ outcome = "rejected" \/ ~facade
        /\ requested[backend] => requested'[backend]
        /\ released'[backend] => released[backend] \/ ~facade
    <3>1. CASE handing = "request" /\ owner[backend] = "held" /\ Owner!Request(backend)
      BY <1>a, <3>1, Reservation DEF Owner!Request, Told
    <3>2. CASE handing = "request" /\ owner[backend] = "gone" /\ UNCHANGED own
      BY <1>a, <3>2, Reservation DEF own, Told
    <3>3. CASE handing = "release" /\ Owner!Release(backend)
      BY <1>a, <3>3, Reservation DEF Owner!Release, Told
    <3> QED  BY <1>7, <3>1, <3>2, <3>3 DEF HandOver
  <2>4. Told'
    BY <1>a, <1>b, <1>c, <2>1, <2>3 DEF Told, Starts, Members
  <2>5. Stages'
    BY <1>a, <2>1, <2>3 DEF Stages, Starts
  <2>6. Emptied'
    BY <1>a, <1>c, <2>1 DEF Emptied, Starts
  <2> QED  BY <2>2, <2>4, <2>5, <2>6, <1>a DEF LifetimeInv
<1>8. CASE BeginShutdown
  <2>1. /\ worker[backend] = "cleanup" /\ OpenCalls = {}
        /\ shutdownStarted' = TRUE /\ process' = "stopped"
        /\ UNCHANGED <<stack, Starts, facade, own, handing, accepting, loops>>
    BY <1>8 DEF BeginShutdown, begin, gate, Starts
  <2>2. requested[backend] /\ owner[backend] # "none"
    BY <1>a, <2>1, Reservation
  <2>3. startAttempted \/ ~facade
    BY <1>a, <2>2 DEF Told, StartInv, Rejected
  <2>4. StepsAt = {}
    BY <2>1 DEF StepsAt, OpenCalls, Steps, Calls
  <2>5. Members' /\ OneStart' /\ (\A x \in StepsAt' : StepFacts(x[3])')
    BY <1>b, <1>c, <2>1, <2>4 DEF Members, OneStart, Starts
  <2>6. Unattempted' /\ Latched' /\ Rejected'
    BY <1>a, <1>c, <2>1 DEF StartInv, Unattempted, Latched, Rejected, Starts, Idle, Quiet
  <2>7. Shut'
    BY <1>c, <2>1, <2>3, <2>4 DEF Shut, Starts
  <2>8. StartInv'
    BY <1>c, <2>1, <2>5, <2>6, <2>7 DEF StartInv
  <2>9. Told' /\ Stages' /\ Emptied'
    BY <1>a, <1>c, <2>1, <2>2 DEF Told, Stages, Emptied, own, Starts
  <2> QED  BY <2>8, <2>9, <1>a DEF LifetimeInv
<1>9. CASE EndShutdown \/ CleanupStep \/ RegistryStep
  <2>1. /\ UNCHANGED <<stack, Starts, facade, shutdownStarted, process, accepting, handing, loops>>
        /\ UNCHANGED <<requested, released>>
    BY <1>9 DEF EndShutdown, CleanupStep, WorkerOfOwner, RegistryStep, gate, begin, down, Starts,
       Owner!CleanUp, Owner!Gate, Owner!Settle, Owner!Hold, Owner!Dispose, Owner!ReserveFails, Owner!Observe,
       Owner!Unload, Owner!jobs, Owner!requests
  <2>2. UNCHANGED owner /\ ~cancelled'[backend]
    <3>0. ~cancelled[backend] /\ cancelled \in [{backend} -> BOOLEAN]
      BY <1>a, Reservation DEF Told
    <3>1. EndShutdown => UNCHANGED <<owner, cancelled>>
      BY DEF EndShutdown, Owner!CleanUp, Owner!requests
    <3>2. ASSUME Owner!Gate(backend) \/ Owner!Settle(backend) \/ Owner!Hold(backend)
          PROVE  UNCHANGED <<owner, cancelled>>
      BY <3>2 DEF Owner!Gate, Owner!Settle, Owner!Hold, Owner!requests
    <3>3. ASSUME Owner!Dispose(backend) PROVE UNCHANGED owner /\ ~cancelled'[backend]
      BY <3>0, <3>3, <1>a, Reservation DEF Owner!Dispose
    <3>4. RegistryStep => UNCHANGED <<owner, cancelled>>
      BY DEF RegistryStep, Owner!ReserveFails, Owner!Observe, Owner!Unload, Owner!jobs, Owner!requests
    <3> QED  BY <1>9, <3>0, <3>1, <3>2, <3>3, <3>4 DEF CleanupStep, WorkerOfOwner
  <2>3. StartInv'
    BY <1>a, <1>b, <1>c, <2>1, StartKept DEF Shut, Members
  <2>4. /\ worker[backend] # "none" => worker'[backend] # "none"
        /\ worker'[backend] \in {"settle", "hold", "dispose", "finished"} =>
             \/ worker[backend] \in {"settle", "hold", "dispose", "finished"}
             \/ shutdownStarted /\ \A w \in Workers : loops[w] \in {"none", "done"}
    <3>1. CASE EndShutdown
      BY <3>1, <1>a, Reservation DEF EndShutdown, Owner!CleanUp, Owner!Goto
    <3>2. CASE RegistryStep
      BY <3>2 DEF RegistryStep, Owner!ReserveFails, Owner!Observe, Owner!Unload, Owner!jobs
    <3>3. CASE CleanupStep
      <4>1. ~cancelled[backend]  BY <1>a DEF Told
      <4> QED
        BY <3>3, <4>1, <1>a, Reservation
        DEF CleanupStep, WorkerOfOwner, Owner!Gate, Owner!Settle, Owner!Hold, Owner!Dispose, Owner!Goto
    <3> QED  BY <1>9, <3>1, <3>2, <3>3
  <2>5. Told'
    BY <1>a, <1>c, <2>1, <2>2, <2>4 DEF Told, Starts
  <2>6. Stages' /\ Emptied'
    BY <1>a, <1>c, <2>1, <2>4 DEF Stages, Emptied, Starts
  <2> QED  BY <2>3, <2>5, <2>6, <1>a DEF LifetimeInv
<1>10. ASSUME Next PROVE LifetimeInv'
  <2>1. ASSUME NEW t \in Threads, EnterCall(t) \/ Snapshot(t) \/ Destroy(t) \/ ThreadStep(t)
        PROVE  LifetimeInv'
    BY <2>1, <1>3, <1>4, <1>5 DEF ThreadStep
  <2>2. CASE SleepUntilDrained
    <3>1. StartInv'
      <4>1. UNCHANGED <<Starts, facade, shutdownStarted, process, stack>> /\ (~accepting => ~accepting')
        BY <2>2 DEF SleepUntilDrained, Gate!SleepUntilDrained, begin, down, Starts
      <4> QED  BY <1>a, <1>b, <1>c, <4>1, StartKept DEF Shut, Members
    <3>2. UNCHANGED <<stack, Starts, facade, shutdownStarted, own, handing>>
      BY <2>2 DEF SleepUntilDrained, begin, down, Starts
    <3>3. Told' /\ Stages' /\ Emptied'
      BY <1>c, <3>2, OwnersKept DEF Starts, Ended
    <3> QED  BY <3>1, <3>3, <1>a DEF LifetimeInv
  <2> QED  BY <1>10, <2>1, <2>2, <1>2, <1>6, <1>7, <1>8, <1>9 DEF Next
<1> QED  BY <1>1, <1>10

(***************************************************************************)
(* The backend launches one process at most, and none once its shutdown    *)
(* has begun, for any threads that start, call and destroy it in any order.*)
(***************************************************************************)
THEOREM OneBirthEver == Spec => []OneBirth
<1>1. LifetimeInv => OneBirth
  BY DEF LifetimeInv, StartInv, Members, Shut, OneBirth
<1> QED  BY <1>1, LifetimeInit, LifetimeStep, PTL DEF Spec

(***************************************************************************)
(* A start that has answered REJECTED has closed the gate, and no worker   *)
(* it created gets past its own.                                           *)
(***************************************************************************)
THEOREM RejectedIsSilent == Spec => []RejectedStartIsSilent
<1>1. LifetimeInv => RejectedStartIsSilent
  BY DEF LifetimeInv, StartInv, Rejected, Quiet, RejectedStartIsSilent
<1> QED  BY <1>1, LifetimeInit, LifetimeStep, PTL DEF Spec

(***************************************************************************)
(* When the Impl is deleted its workers have ended, its process is stopped *)
(* and no start is under way; and no other public call is open unless the  *)
(* start was rejected.                                                     *)
(***************************************************************************)
THEOREM ImplIsDeletedLast == Spec => []ImplOutlivesUsers
<1>1. LifetimeInv => ImplOutlivesUsers
  <2> SUFFICES ASSUME LifetimeInv PROVE ImplOutlivesUsers
    OBVIOUS
  <2>1. Owner!ImplOutlivesUsers
    BY Reservation DEF LifetimeInv, Owner!ImplOutlivesUsers
  <2>2. ASSUME owner[backend] # "none", ~impl[backend]
        PROVE  /\ outcome = "rejected" \/ OpenCalls = {}
               /\ \A w \in Workers : loops[w] \in {"none", "done"}
               /\ process # "alive"
               /\ StepsAt = {}
    <3>1. worker[backend] = "finished"
      BY <2>2, Reservation DEF LifetimeInv, Told
    <3>2. shutdownStarted /\ (\A w \in Workers : loops[w] \in {"none", "done"})
      BY <3>1 DEF LifetimeInv, Stages
    <3> QED  BY <3>2 DEF LifetimeInv, StartInv, Shut, Emptied
  <2>3. ASSUME StepsAt = {}, NEW t \in Threads, NEW i \in DOMAIN stack[t], stack[t][i] \in Calls
        PROVE  stack[t][i] \in {"call", "start", "return"}
    <3>1. i \in Nat
      BY DEF LifetimeInv, StartInv, StackOK
    <3>2. stack[t][i] \in Steps => <<t, i, stack[t][i]>> \in StepsAt
      BY <3>1 DEF StepsAt
    <3> QED  BY <2>3, <3>2 DEF Steps, Calls
  <2>4. OpenCalls \subseteq Threads
    BY DEF OpenCalls
  <2> QED  BY <2>1, <2>2, <2>3, <2>4 DEF ImplOutlivesUsers
<1> QED  BY <1>1, LifetimeInit, LifetimeStep, PTL DEF Spec
=============================================================================
