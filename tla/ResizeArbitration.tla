---------------------------- MODULE ResizeArbitration ----------------------------
(***************************************************************************)
(* How a captured text-area resize request reaches the host and how its    *)
(* end is reported.  The session queues REQUESTED and SETTLED events; the  *)
(* surface takes them in batches, presents a request the session still     *)
(* holds, runs the deadline of the presented one and passes settlements    *)
(* on.                                                                     *)
(*                                                                         *)
(*   QUEUED --take_pending_deliveries--> CLAIMABLE --mark--> PRESENTED     *)
(*                                                                         *)
(* Everything runs on the GUI thread, and interleaves because the host's   *)
(* handlers call back into the surface while it delivers: they answer,     *)
(* drain output, change the timeout, or let a nested event loop run.       *)
(* What the hold does to output is in SessionRunner.                       *)
(***************************************************************************)
EXTENDS Integers, Sequences

CONSTANTS
    MaxRequests,        \* bound: requests the output carries
    MaxTimeoutChanges   \* bound

ASSUME BoundsAssumption == MaxRequests \in Nat /\ MaxTimeoutChanges \in Nat

VARIABLES
    holding,        \* request_id of m_text_area_resize_arbitration, 0 if there is none
    delivery,       \* its delivery_state
    armed,          \* requests armed so far: the last id given out
    events,         \* m_pending_text_area_resize_arbitration_events
    batch,          \* deliveries taken and not yet replayed
    timeout,        \* text_area_resize_arbitration_timeout_ms is positive
    timer,          \* text_area_resize_arbitration_timer is active
    changes,        \* changes of the timeout so far
    shown, told     \* the host's: the last request shown, the last settlement told

session == <<holding, delivery, armed>>
deadline == <<timeout, timer, changes>>
host == <<shown, told>>
vars == <<session, events, batch, deadline, host>>

Requested(id) == [kind |-> "REQUESTED", id |-> id]
SettledEvent(id) == [kind |-> "SETTLED", id |-> id]
Event == [kind : {"REQUESTED", "SETTLED"}, id : Nat]

TypeOK ==
    /\ holding \in Nat /\ armed \in Nat
    /\ delivery \in {"QUEUED", "CLAIMABLE", "PRESENTED"}
    /\ events \in Seq(Event) /\ batch \in Seq(Event)
    /\ Len(events) <= 2    \* asserted by record_text_area_resize_arbitration_event
    /\ timeout \in BOOLEAN /\ timer \in BOOLEAN
    /\ changes \in Nat
    /\ shown \in Nat /\ told \in Nat

Init ==
    /\ holding = 0 /\ delivery = "QUEUED" /\ armed = 0
    /\ events = <<>>
    /\ batch = <<>>
    /\ timeout = TRUE /\ timer = FALSE /\ changes = 0
    /\ shown = 0 /\ told = 0

Held == holding # 0
Presented == Held /\ delivery = "PRESENTED"     \* presented_text_area_resize_arbitration
-------------------------------------------------------------------------------
(***************************************************************************)
(* The session.                                                            *)
(***************************************************************************)

\* arm_text_area_resize_arbitration: output met a request nobody holds.
Arm ==
    /\ ~Held /\ armed < MaxRequests
    /\ armed' = armed + 1
    /\ holding' = armed + 1 /\ delivery' = "QUEUED"
    /\ events' = Append(events, Requested(armed + 1))
    /\ UNCHANGED <<batch, deadline, host>>

WithdrawAll == <<>>         \* mutant: a waiting settlement is withdrawn too

\* withdraw_unpresented_text_area_resize_arbitration_request: the request of the hold
\* is the last event, if it was not taken.
Withdrawn ==
    IF events # <<>> /\ events[Len(events)] = Requested(holding)
    THEN SubSeq(events, 1, Len(events) - 1)
    ELSE events

\* release_text_area_resize_arbitration: only a presented request gets a settlement.
Release ==
    /\ holding' = 0
    /\ events' = IF Presented THEN Append(events, SettledEvent(holding)) ELSE Withdrawn
    /\ UNCHANGED <<delivery, armed>>

\* The hold overflows, the process exits, the host gives up resizing or arbitration.
SessionSettles ==
    /\ Held
    /\ Release
    /\ UNCHANGED <<batch, deadline, host>>

\* respond_text_area_resize, settle_text_area_resize_arbitration_locked: the host
\* answers a request it was shown, perhaps one that is over.
HostAnswers ==
    /\ Presented /\ holding = shown
    /\ Release
    /\ UNCHANGED <<batch, deadline, host>>
-------------------------------------------------------------------------------
(***************************************************************************)
(* The surface.                                                            *)
(***************************************************************************)
Claim ==
    IF Held /\ delivery = "QUEUED" /\ events # <<>> /\ events[Len(events)] = Requested(holding)
    THEN "CLAIMABLE" ELSE delivery

\* take_pending_deliveries, by the one loop of sync_from_session that delivers.
TakeDeliveries ==
    /\ batch = <<>> /\ events # <<>>
    /\ batch' = events /\ events' = <<>>
    /\ delivery' = Claim
    /\ UNCHANGED <<holding, armed, deadline, host>>

\* mark_text_area_resize_arbitration_presented.
MayPresent(id) == Held /\ holding = id /\ delivery = "CLAIMABLE"

\* replay_text_area_resize_arbitration_event: a request.
PresentRequest ==
    /\ batch # <<>> /\ Head(batch).kind = "REQUESTED" /\ MayPresent(Head(batch).id)
    /\ batch' = Tail(batch)
    /\ delivery' = "PRESENTED"
    /\ timer' = (timeout \/ timer)
    /\ shown' = Head(batch).id
    /\ UNCHANGED <<holding, armed, events, timeout, changes, told>>

\* A request that ended before it was presented.
SkipRequest ==
    /\ batch # <<>> /\ Head(batch).kind = "REQUESTED" /\ ~MayPresent(Head(batch).id)
    /\ batch' = Tail(batch)
    /\ UNCHANGED <<session, events, deadline, host>>

ReportSettlement ==
    /\ batch # <<>> /\ Head(batch).kind = "SETTLED"
    /\ batch' = Tail(batch)
    /\ timer' = FALSE
    /\ told' = Head(batch).id
    /\ UNCHANGED <<session, events, timeout, changes, shown>>

\* handle_text_area_resize_arbitration_timeout; the timer is single-shot.
TimerFires ==
    /\ timer /\ timer' = FALSE
    /\ IF Presented THEN Release ELSE UNCHANGED <<session, events>>
    /\ UNCHANGED <<batch, timeout, changes, host>>

DroppedTimer == IF Presented THEN FALSE ELSE timer      \* mutant: no new deadline starts
ChangedTimer == IF Presented THEN timeout' ELSE timer

\* set_text_area_resize_arbitration_timeout_ms, between none and some.
SetTimeout ==
    /\ changes < MaxTimeoutChanges /\ changes' = changes + 1
    /\ timeout' = ~timeout
    /\ timer' = ChangedTimer
    /\ UNCHANGED <<session, events, batch, host>>
-------------------------------------------------------------------------------
Deliver == TakeDeliveries \/ PresentRequest \/ SkipRequest \/ ReportSettlement

Next == Arm \/ SessionSettles \/ HostAnswers \/ Deliver \/ TimerFires \/ SetTimeout

Spec == Init /\ [][Next]_vars
-------------------------------------------------------------------------------
(***************************************************************************)
(* Properties.                                                             *)
(***************************************************************************)

\* The host sees requests and settlements alternate: it is shown a request only when
\* the last one it was shown is settled for it ...
OneActionable == [][shown' # shown => told = shown /\ shown' > shown]_vars

\* ... and told a settlement once, of the request it was shown last.
SettledOnce == [][told' # told => told # shown /\ told' = shown]_vars

\* A request that is not presented yet will be: it waits in the queue or in the batch
\* the surface is replaying.
RequestWaits ==
    Held => CASE delivery = "QUEUED"    -> \E i \in DOMAIN events : events[i] = Requested(holding)
              [] delivery = "CLAIMABLE" -> \E i \in DOMAIN batch : batch[i] = Requested(holding)
              [] delivery = "PRESENTED" -> shown = holding

\* A request before the host has its deadline running, also across a change of the
\* timeout and the settlement of the request before it.
DeadlineRuns == Presented => timer = timeout

\* Unless the host runs without a timeout, no request holds output for ever.
HoldsEnd == []<>~Held \/ <>[]~timeout
===============================================================================
