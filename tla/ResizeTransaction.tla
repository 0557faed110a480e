--------------------------- MODULE ResizeTransaction ---------------------------
(***************************************************************************)
(* A resize from the session to the Windows backend and back.  The session  *)
(* changes its own grid at once and hands the backend a request; whether    *)
(* the pseudoconsole has followed it learns from a completion, which may     *)
(* arrive after newer requests, a terminate, an overflow or the exit.       *)
(***************************************************************************)
EXTENDS ConptyBackend

CONSTANT MaxResizes         \* bound: resizes asked for where nothing is written

ASSUME ResizesAssumption == MaxResizes \in Nat /\ MaxResizes >= MaxCalls

VARIABLES
    process,        \* m_process_state, "running" or "exited"
    stop,           \* m_stop_requested; m_backend_ready is its opposite while running
    grid,           \* m_grid_size, and the screen model's
    inSync,         \* m_backend_geometry_in_sync
    latest,         \* m_latest_backend_resize_id
    pending,        \* m_pending_backend_resizes
    inline,         \* the request a call in progress still has to report, or None
    used,           \* m_next_resize_id - 1
    records,        \* how often the outcome of each transaction was recorded
    failed          \* the newest of those recorded has failed

transaction == <<grid, inSync, latest, pending, inline, used, records, failed>>
session == <<process, stop, transaction>>
vars == <<backend, session>>

Ids == 1..MaxResizes

Init ==
    /\ BackendInit
    /\ process = "running" /\ stop = FALSE
    /\ grid = FirstGrid /\ inSync = TRUE
    /\ latest = 0 /\ pending = {} /\ inline = None
    /\ used = 0 /\ records = [id \in Ids |-> 0] /\ failed = FALSE
-------------------------------------------------------------------------------
Running == process = "running" /\ ~stop
Idle == inline = None

\* record_resize_transaction, of those requests.
Record(ids, outcome) ==
    /\ records' = [id \in Ids |-> IF id \in ids THEN records[id] + 1 ELSE records[id]]
    /\ failed' = IF used' \in ids THEN outcome = "failed" ELSE failed

\* dispatch_backend_resize, and what its callers do with a rejection.
Dispatch(req) ==
    /\ latest' = req.id /\ inSync' = FALSE
    /\ IF Ready /\ conpty = "open"
       THEN /\ Queue(req)
            /\ inline' = slot
            /\ pending' = pending \union {req}
            /\ failed' = FALSE /\ UNCHANGED records
       ELSE /\ Record({req.id}, "failed")
            /\ UNCHANGED <<pending, inline, backend>>

Begin == /\ Idle
         /\ used + asked < IF asked = 0 THEN MaxResizes ELSE MaxCalls
         /\ used' = used + 1
         /\ UNCHANGED <<process, stop>>

\* resize_or_refresh_from_geometry, and process_resize_command behind it.
HostResize(g) ==
    /\ Begin
    /\ ~(Running /\ inSync /\ g = grid)
    /\ IF Running
       THEN grid' = g /\ Dispatch([id |-> used + 1, grid |-> g])
       ELSE /\ Record({used + 1}, "failed")
            /\ UNCHANGED <<grid, inSync, latest, pending, inline, backend>>

\* A CSI 8 t in the output.
FromOutput(g) ==
    /\ Begin
    /\ process = "running"
    /\ grid' = g
    /\ IF Running
       THEN Dispatch([id |-> used + 1, grid |-> g])
       ELSE /\ Record({used + 1}, "failed")
            /\ inSync' = FALSE
            /\ UNCHANGED <<latest, pending, inline, backend>>

\* consume_screen_model_resize_transition, when it asks for another grid ...
TextAreaResize(g) == g # grid /\ FromOutput(g)

\* ... and retry_text_area_resize_request, for one the backend has not followed.
RetryResize == ~inSync /\ FromOutput(grid)

\* The rest of dispatch_resize or terminate: the request it displaced.
ReportDisplaced ==
    /\ ~Idle
    /\ ReportInline(inline)
    /\ inline' = None
    /\ UNCHANGED <<process, stop, grid, inSync, latest, pending, used, records, failed>>

CancelKeepsPending ==       \* mutant: what is cancelled stays pending
    /\ Record({req.id : req \in pending}, "failed")
    /\ latest' = 0 /\ inSync' = FALSE
    /\ UNCHANGED pending

CancelPending ==                                \* cancel_pending_backend_resizes
    /\ Record({req.id : req \in pending}, "failed")
    /\ pending' = {} /\ latest' = 0 /\ inSync' = FALSE

\* process_terminate_command; a backend that refuses leaves everything as it was.
StopProcess ==
    /\ Idle /\ Running /\ Ready
    /\ stop' = TRUE
    /\ UNCHANGED <<process, grid, used>>
    /\ Terminate /\ inline' = slot
    /\ CancelPending

\* handle_output_overflow; the requests in flight stay pending.
Overflow ==
    /\ Idle /\ Running
    /\ stop' = TRUE
    /\ IF Ready THEN Terminate /\ inline' = slot ELSE UNCHANGED <<inline, backend>>
    /\ UNCHANGED <<process, grid, inSync, latest, pending, used, records, failed>>

\* set_output_backpressure_active.
Backpressure(on) ==
    /\ Idle /\ Running /\ paused # on
    /\ SetOutputPaused(on)
    /\ UNCHANGED session

HostInput == /\ Idle /\ Running /\ used + asked < MaxCalls
             /\ Write \/ Interrupt
             /\ UNCHANGED session
-------------------------------------------------------------------------------
NextCallback == Head(callbacks)
Handled == /\ Idle /\ callbacks # <<>>
           /\ callbacks' = Tail(callbacks)
           /\ UNCHANGED <<flags, reasons, input, resizing, ending, inline, grid, used>>

IsLatestByGrid(req) == req.grid = grid      \* mutant: whichever request asked for it
IsLatest(req) == req.id = latest

\* process_backend_resize_completion_command.
Complete(c, req) ==
    LET accepted == c.ok /\ ~c.superseded
        current == IsLatest(req) /\ Running /\ grid = req.grid
    IN  /\ Record({req.id}, IF accepted THEN "applied" ELSE "failed")
        /\ inSync' = IF IsLatest(req) THEN accepted /\ current ELSE inSync
        /\ pending' = pending \ {req}

HandleCompletion ==
    /\ Handled /\ NextCallback.kind = "resize"
    /\ LET req == [id |-> NextCallback.id, grid |-> NextCallback.grid]
       IN  IF req \in pending THEN Complete(NextCallback, req)
           ELSE UNCHANGED <<records, failed, inSync, pending>>  \* a stop or the exit has retired it
    /\ UNCHANGED <<process, stop, latest>>

HandleExit ==                                   \* apply_backend_exit
    /\ Handled /\ NextCallback.kind = "exit"
    /\ CancelPending
    /\ process' = "exited" /\ stop' = FALSE

Session == \/ \E g \in Grids : HostResize(g) \/ TextAreaResize(g)
           \/ RetryResize
           \/ ReportDisplaced \/ StopProcess \/ Overflow
           \/ \E on \in BOOLEAN : Backpressure(on)
           \/ HostInput
           \/ HandleCompletion \/ HandleExit

Next == Session \/ (Backend /\ UNCHANGED session)

\* The threads run and the event loop handles what they post.  What pauses the
\* output is drained (OutputFlow), and a ResizePseudoConsole that waits for room
\* returns when the reader reads again; only it may meet pause after pause.
Fairness ==
    /\ WF_vars(Resizing /\ UNCHANGED session)
    /\ WF_vars(Waiting /\ UNCHANGED session)
    /\ WF_vars(ReaderEnds /\ Broken /\ UNCHANGED session)
    /\ WF_vars(ClosePseudoConsole /\ UNCHANGED session)
    /\ SF_vars(ResizePseudoConsole /\ ~Parked /\ UNCHANGED session)
    /\ WF_vars(ReportDisplaced) /\ WF_vars(HandleCompletion \/ HandleExit)
    /\ WF_vars(Backpressure(FALSE))

Spec == Init /\ [][Next]_vars /\ Fairness
-------------------------------------------------------------------------------
TypeOK ==
    /\ BackendTypeOK
    /\ process \in {"running", "exited"} /\ {stop, inSync} \subseteq BOOLEAN
    /\ grid \in Grids
    /\ latest \in 0..MaxResizes /\ used \in 0..MaxResizes
    /\ pending \subseteq [id : Ids, grid : Grids]
    /\ inline = None \/ inline \in [id : Ids, grid : Grids]
    /\ records \in [Ids -> Nat] /\ failed \in BOOLEAN

\* What the session says is in sync is: the pseudoconsole has the session's grid, and
\* no request that could still change it waits or is under way, whichever completions
\* are late (process_backend_resize_completion_command, terminal_session.cpp:7799-7873).
InSyncIsTrue ==
    inSync => native = grid /\ slot = None /\ worker.at \notin {"resize", "native"}

\* Every resize transaction is recorded with one outcome, at once or when it stops
\* being pending: by its completion, by what displaced it, by the stop or by the exit
\* (finalize_resize_transaction, cancel_pending_backend_resizes,
\* terminal_session.cpp:5823-5886).
RecordedOnce ==
    \A id \in Ids : records[id] =
        IF id <= used /\ id \notin {req.id : req \in pending} THEN 1 ELSE 0

\* Resizes come to rest: a process that runs on has the session's grid, or the newest
\* request was recorded as failed; none is left in a queue that nobody serves
\* (dispatch_resize, resize_loop, windows_conpty_backend.cpp:1498-1614).
GeometryConverges ==
    <>[](Running => inSync \/ (records[used] = 1 /\ failed))

\* Whatever the session, the program and the workers have begun, the console comes to
\* an end of it: an exit that is reported, or a grid both sides agree on.
ConsoleSettles == ExitIsReported /\ GeometryConverges
================================================================================
