# A TLA+ verification of vnm_terminal

`vnm_terminal` is a Qt Quick terminal component. A child process runs behind a
PTY; its output goes through worker threads, a bounded callback queue and an
ordered command runner into a screen model, and the host's input goes the other
way. The models here follow the *control* of that path: who may act when, what
is queued where, what is told to whom, and what happens when it stops. Bytes, styles
and pixels are left to the tests; of a cell there is what decides where text goes.

```text
child process
  | PTY
  v
native backend        reader, writer, waiter threads; paused-output FIFO    PosixPtyOutput
  |   start, calls, callbacks, destruction, deletion                        BackendLifetime
  |     admission of every callback                                           CallbackGate
  |     who deletes the backend, and when                                     CleanupOwner
  |   on Windows: pseudoconsole, resize worker, writer                      ConptyBackend
  v
callback ingress      bounded queue, epochs, frontiers                      CallbackIngress
  |        ^ pauses, resumes: how many bytes are where                      OutputFlow
  v
command runner        operations in budgeted steps, held resizes            SessionRunner
  |        resizes to the backend and back                                  ResizeTransaction
  v
byte-stream parser    sequences, strings, macros, wherever they are cut     ByteStreamParser
  |        what it notifies, queued and coalesced for the host              SessionDeliveries
  v
screen model          rows and wide glyphs                                  ScreenRow
  |                     both grids, cursor, margins, control functions      ScreenGrid
  |                     resizing with reflow                                ScreenResize
  |                   the rows that scrolled off it                         HistoryRing
  |
  |-> search worker   the rows and what a query finds in them               SearchController
  v
snapshot, frame, renderer                                                   (not modelled)

surface <-> session   text-area resize requests, their deadline             ResizeArbitration
                      all deliveries in one order                           SessionDeliveries
```

`PROJECT.json` maps every definition to the lines it stands for, lists the
hazards of the code at their lines with the properties that cover them, and
gives a mutant (a plausible bug) for each property.

## Inventory

### Native backends (`native_backend_*`, `posix_*`, `windows_conpty_backend`)

| part | state | operations | what makes it correct |
|---|---|---|---|
| callback gate | `m_accepting`, `m_active_calls`, the thread's invocation chain | invoke, revoke and drain | after the drain no other thread is in a callback; the drain ends, also from inside a callback |
| cleanup owner | jobs with requested / released / cancelled / complete, the module's registry | reserve, request, release, abandon, reap, unload | the Impl outlives its users; the registry forgets only what is settled; unloading waits for every worker |
| POSIX output side | paused flag, FIFO, replay flag, drain deadline, exit flags | read, pause, resume, terminate, exit drain, shutdown | output in order and complete, then one exit; every wait ends |
| POSIX start and input side | start gate, write queue, writer state | start, write, write loop | one start; input in order; a full queue refuses |
| process owner | wait ownership, signals, foreground custody | stop, wait, finish, clean up | no signal to a reaped process; cleanup ends |
| ConPTY backend | pseudoconsole and process handles, queued resize, write queue, exit reason, workers | start, resize, write, interrupt, close | no call on a closing console; the newest resize wins; the exit is reported, with a true reason |

Hard: six threads, callbacks made outside the mutex, destruction from inside a
callback, exit racing replay, descendants that keep the terminal open.

### Session (`terminal_session`, `session_contract`)

| part | state | operations | what makes it correct |
|---|---|---|---|
| callback ingress | pending commands, reserved bytes and commands, epochs, frontiers, stops | enqueue, take, capture and release a frontier, stop, close | exact accounting; a frontier splits output; overflow leaves no hole; the exit survives; close is quiescent |
| backpressure | `m_output_backpressure_active`, thresholds | pause from a callback, resume from a drain | a running process never meets the hard limit; no pause without a reason |
| command runner | pending commands, the open operation, held tail, epochs, replies | drain, admit, step, retire, capture, release | output in order, once; what is settled is done; input after what it follows; the exit last |
| resize arbitration | held request, its delivery state, events | arm, withdraw, settle, deliver | one request before the host at a time, each ended once, none for ever |
| resize transactions | grid of backend and model, reflow | resize, roll back | the two grids agree |
| synchronized output, public projection | hold, intent, viewport | begin, end, force release | bounded holds; the host sees a coherent screen |
| notifications, bell | pending deliveries, rate window | record, coalesce, take | order and no loss of what matters |

Hard: calls made from the host's handlers, budgeted steps that stop anywhere,
callbacks that arrive during each of them, answers that come late.

### Model and rendering

| part | state | what makes it correct |
|---|---|---|
| byte-stream parser, sixel | left-over bytes, string, macros, decoder and sequence state, suspended work | the same result however the bytes are cut |
| screen model and snapshots | grids, cursors, margins, modes, buffers, provenance | no half of a wide glyph; a wrap leads to its own text; margins protect; reflow keeps the text; snapshots agree with the grid they were taken from |
| history ring | block, records, oldest and head sequence, reservation | a live record reads back as written; the newest that fit are kept |
| history row codec | (none) | a row survives encoding (tests) |
| search | query and source revisions, worker | a result belongs to the current query and source |
| repaint recovery, render retry | obligation, ticket, attempts | a stale ticket does nothing; retries are bounded |
| renderers, atlas, canvas, export | GPU and glyph resources | (pixels: tests) |

### Surface and the rest

The surface (`vnm_terminal_surface.cpp`) owns the session, posts its drains,
opens input frontiers around handlers, delivers notifications in one loop and
runs the timers. Selection, touch, viewport and wheel are state machines on the
GUI thread. The input encoder, fonts, colours, unicode tables, capture,
transcript and diagnostics have no state that the rest depends on.

### Interactions

- Workers call the session only through the gate and the ingress, outside the
  backend's mutex. The session calls the backend (pause, write, terminate) under
  its own `m_mutex`, and a resume delivers output on the calling thread.
- The GUI thread runs every session call. Handlers of the host call back into
  the surface; a frontier fixes which callbacks precede their input.
- Ownership of the backend's Impl moves from the facade to a cleanup worker; the
  session lives until its ingress has drained.

## Modules

| module | models | abstractions |
|---|---|---|
| `CallbackGate` | `Native_backend_callback_gate` | callbacks nest up to `MaxDepth` |
| `CleanupOwner` | `native_backend_cleanup_owner.h` | cleanup itself is one step |
| `BackendLifetime` | one POSIX backend from construction to deletion, with the gate and the owner in it | what its workers transfer is in `PosixPtyOutput` |
| `OutputStream` | abstract: what an output path promises | a sequence, its end, its closing |
| `PosixPtyOutput` | reader, waiter, product and cleanup threads of `posix_pty_backend.cpp` | bytes are numbered units; sections under `m_mutex` are one action |
| `ConptyBackend` | writer, resize worker, waiter of `windows_conpty_backend.cpp`, after start | what is read is not told apart |
| `ResizeTransaction` | a resize from the session to `ConptyBackend` and back | grids are names |
| `CallbackIngress` | `Terminal_session_callback_lifetime`, `Bounded_terminal_command_queue` | one thread delivers output, one errors and the exit |
| `NativeOutputLimits` | `derive_native_backend_output_delivery_limits` | the clamp to `qsizetype` |
| `OutputFlow` | byte counts from the PTY to the parser | counts only |
| `SessionRunner` | `process_pending_commands` and what it runs | an output is a sequence of a few kinds of unit |
| `ResizeArbitration` | the requests between session and surface | output is only the requests in it |
| `ByteStreamParser` | `terminal_byte_stream_parser.cpp`, as operators on a parser's state | one or two bytes of each class; no sixel, SGR or private marker; of OSC the names |
| `SessionDeliveries` | the pending notifications, the bell, the surface's delivery loop, with the two modules above in it | output under a hold waits outside |
| `ScreenRow` | the cells of a row and the operations that cut it | a cell is its kind and a glyph; no style, link or image |
| `ScreenGrid` | both screens and the control functions on them | as `ScreenRow`; default tab stops, no protection |
| `ScreenResize` | `apply_grid_resize`, with the reflow | a grid the model owns (not ConPTY's) |
| `HistoryRing` | `Terminal_history_ring` | a cell holds the sequence number of its byte; no header, footer or checks of them |
| `HistoryLog` | abstract: what a scrollback promises | records and the next sequence number only |
| `SearchController` | `terminal_search.cpp` and the session's updates for it | a row matches or does not |
| `...Proofs` | theorems about the module they extend | |
| `MC...` | the instance the `.cfg` of the same run checks | |

**CallbackGate.** `frames` are the live `Invocation` objects, `activeCalls` the
counter they maintain. `BeginRevoke` is the part of `revoke_and_drain` up to the
wait, `FinishRevoke` its return; a revoker asleep in `m_drained` is woken only by
`Leave`.

**CleanupOwner.** `owner` is the facade's use of the Impl, `worker` where the
job's thread is. `Reaped` is `reap_finished_locked`, which every operation of the
registry runs first.

**BackendLifetime.** `stack` holds each thread's open public calls, callbacks and
error handlers; a start is the step it is at (`check`, `launch`, `ready`, `spawn`,
`open`, `cleanup`). `armed` are the threads that have copied `m_callbacks` and not
yet called; `handing` says what follows the revocation that sleeps. The gate and the
owner are instances, and every action is a step of each of them or leaves it alone.
`latch` is the workers' startup gate: `AdmitWorker` passes it, and after an abort ends
the worker there. `Destroy` is the destructor (`posix_pty_backend.cpp:1880`): it asks
nothing, whatever calls are open. A call that is open when the Impl is deleted is
undefined in the code and goes on in the model. `ImplOutlivesUsers` says what the code
does keep; `RetainedWhileInUse` is what the documentation promises, and fails (below).

**PosixPtyOutput.** `pc` gives the place of each thread, `chunk` what it carries
in a local. A delivery is three steps, snapshot of the callbacks, entry through
the gate, return, because all of them happen outside the mutex. `fifo`, `paused`
and `replaying` are the members the three deliverers (reader, resume or
terminate on the product thread, waiter) agree through. The reader's wake pipe,
its sleep in `m_output_cv` and the exit drain's deadline are state.

**ConptyBackend, ResizeTransaction.** `slot` is `m_queued_resize`, `worker` the resize
worker with the request in its hands, `conpty` where the pseudoconsole is on its way
out: open, taken from the members, submitted to the close owner, closed. `writer` has
the place between the sections of `write_loop`, and whether output was seen since the
write was taken. What the backend calls back is queued in `callbacks`. The session
has `pending`, `latest` and `inSync` for `m_pending_backend_resizes`,
`m_latest_backend_resize_id` and `m_backend_geometry_in_sync`; `inline` is a displaced
request that the call which displaced it has yet to report. `records` and `failed` are
history variables over `record_resize_transaction`. A POSIX resize is the dispatch that
is answered within its call.

**CallbackIngress.** Each method under the lifetime's mutex is an action; a
callback is begin, enqueue, end. `EnqueueOverflow` is one action with everything
the full queue does: stop, drop, report, keep the exit. `Take` enumerates the
room the session happens to have and the frontier it may drain to.

**OutputFlow.** `ingress`, `queued`, `fifo`, `held`, `chunk`, `pty` count the
bytes at each place. `gui` is the place of the thread that holds `m_mutex`;
`SetBackpressure` is `set_output_backpressure_active` with the replay it may
start. That direct delivery and replay do not overlap comes from
`PosixPtyOutput`.

**SessionRunner.** `sent` are the callbacks by epoch. `gui` is the place in the
public call that is running: `drain`, `admit`, `step`, `loop`, `window`, `end`,
`check`, `dispatch`. `op` is `m_operation`, `tail` and `hold` the arbitration's
tail and request, `work` a parser suspended inside an image, `stash` a candidate
that may be the beginning of a request. A step handles one unit at a time and may
stop after any of them. `frames` are the surface's nested handlers, each with
the frontier it sealed. `applied`, `ignored`, `captured` are history variables.

**ResizeArbitration.** `delivery` is the request's delivery state, `events` what
the session has queued, `batch` what the surface has taken, `timer` the surface's
one timer. `shown` and `told` are what the host has seen. Every answer, timeout,
withdrawal and hold limit goes through `Release`.

**ByteStreamParser.** `Fresh` lists the parser's members. `Turn` is one turn of the loop
in `ingest_buffer`; every branch returns the parser it leaves, the bytes it did not take
and its actions. `Source` puts what was left over (`m_pending_prefix`) in front of the
next bytes and `Ingest` replays the macros' frames within a budget of bytes before it goes
on with them, until both are used up or the budget is. `Whole` is a fresh parser given
everything at once. A callback's output is one operation, so the limit on what macros
expand to counts from zero in each.

Two limits depend on how the output is cut, and `LimitCounts` excepts them. The limit of
a macro's expansion is per callback by design. The other is a corner of the code: an
unfinished control sequence is kept without the controls in it
(`csi_pending_prefix_without_c0`, `terminal_byte_stream_parser.cpp:839`), which took effect
already, so that they count against `k_control_sequence_pending_limit_bytes` only in the
callback that brought them. A sequence of 4097 bytes, some of them controls, is discarded
when it comes whole and accepted when it comes in two parts.

**SessionDeliveries.** `common` is `m_pending_common_deliveries`, `others` the part of a
batch that came from it; `eventOrder` and `batchOrder` are the delivery orders of the
arbitration's `events` and `batch`, whose own actions are the actions of
`ResizeArbitration`. `Recorded` is `record_pending_notification` with its three ways to
replace: an equal kind where it stands, at the limit the first of a coalescing kind, else
the first. `Outputs` gives the programs of a run. A replaced notification takes a new
order but keeps its place, so once the queue has overflowed its first place is not its
oldest notification: an exit that was put in an earlier place is dropped by the next
critical notification before older errors are. `lost` names what the limit dropped, and
`HostIsCaughtUp` asks nothing of it; the limit of 4096 makes this a corner.

**HistoryRing.** The variables are the members. `Reserve`, `ReleaseReservation`
and `Commit` follow a reservation; a commit forgets as many of the oldest records
as the new one needs (`Discards` is the result of the loop in `plan_room_for`).
`DiscardOldestRecords`, `Clear` and `ResizeCapacity` may come between a
reservation and its commit, except the resize, which the code refuses. `Readable`
and `ReadByte` are `read_record`: the check of the live range and of the record's
beginning, and the copy out of the block. An operation that is refused changes
nothing and is not an action.

**ScreenRow, ScreenGrid, ScreenResize.** A cell is blank, narrow, the lead or the rest of
a wide glyph, or a wide glyph squeezed into one cell. `ClearSpans`, `ClearSplit` and
`RepairSpans` are the helpers every cut goes through, and the row operations call them in
the code's order. A screen is a `screen_buffer_state_t`; the code copies the active one in
and out of members, the model leaves it in place. `lines` gives each new row the id
`retained_line_id` has; `next`, the row a soft wrap went on to, is the model's own, since
the code takes the row below for it. Each action of `ScreenGrid` is one control function,
from its clamps to the repair and the wraps it breaks. `Resize` is `apply_grid_resize`: it
joins soft-wrapped rows to lines, lays them out at the new width, places cursor and saved
cursor, archives what no longer fits above the cursor, cuts or pads the alternate screen.

One statement of the header is kept as an operator and in no run: `WrapsLead`, "this
many cells continue into the next row" (`terminal_screen_model.h:835`). A resize that cuts
the alternate screen to fewer rows leaves its last row marked as wrapped
(`terminal_screen_model.cpp:4876-4908`), so `WrapsStay` is about the steps that keep the
size.

**SearchController.** Four groups of variables for four owners: what the session has
published (`source`), the controller on its thread (`query`, `generation`, `revision`),
the state shared under the mutex (`desired`, `workGeneration`, `updates`, `result`) and
the worker's own (`corpus`, `job`, `taken`). `Take` is the start of a round of the drain;
`Begin` decides between a full scan, an incremental one and nothing; a scan is committed
or cancelled at its check of `workGeneration`. `Notify`, `Deliver` and
`ProcessCompletion` are `Search_completion_dispatch` and the posted handler.
`WriteRow`, `ScrollRow`, `ClearHistory` and `SwitchBuffer` are the session's
`update_search_source_from_published_model`, with the refresh in place of an idle
source. `Init` is after the first publication and the first query. The path at
`terminal_session.cpp:10595`, where an active row of the published grid has no history
handle or no text that can be read, is left out: rows of the screen model always have
both, so that no call gets there.

## Plan

1. *(done)* the output path: `CallbackGate`, `PosixPtyOutput` with `OutputStream`,
   `CallbackIngress`, `OutputFlow`; then `CleanupOwner`, `SessionRunner`,
   `ResizeArbitration`.
2. *(done)* `HistoryRing` with `HistoryLog`.
3. *(done)* `BackendLifetime`: start, calls and destruction, composed of the gate and
   the owner by refinement.
4. *(done)* `ConptyBackend` with `ResizeTransaction`; `ScreenRow`, `ScreenGrid`,
   `ScreenResize`; `SearchController`.
5. *(done)* `ByteStreamParser` and `SessionDeliveries`, composed with
   `ResizeArbitration`.
6. Next: the write queue of both backends and `ProcessOwner`; mode 2026 holds and the
   viewport and selection that follow them; the surface's other timers; `RenderRetry`
   (tickets between two threads); sixel images in the parser.

Composition: `BackendLifetime` is made of `CallbackGate` and `CleanupOwner`;
`PosixPtyOutput` and `CallbackIngress` both implement `OutputStream`, so the session
may rely on the abstract stream, and `OutputFlow` and `SessionRunner` are written
against it; `ResizeTransaction` extends `ConptyBackend`, `SessionDeliveries` extends
`ResizeArbitration` and calls `ByteStreamParser`, and `ScreenResize` extends
`ScreenGrid`, which extends `ScreenRow`.

Theorems still worth proving: `ImplementsStream` of `PosixPtyOutput`, and `WholeSpans`
through a resize.

## Runs

| run | question | bounds, and why they suffice |
|---|---|---|
| `backend_lifetime` | can a callback outlive the revocation, who deletes the backend under whom, can starts race to two processes, does destruction come through | two product threads, two workers, stacks of three frames, callbacks two deep: starts race with each other, with calls and with callbacks, and destroy from within; one reservation (`BackendLifetimeProofs` proves the registry's part for any number) |
| `rejected_backend` | is the Impl retained while a public call is open (it is not) | as `backend_lifetime` with one product thread, which suffices |
| `pty_output` | order, completeness, single exit; does every exit, destruction and resume come through | three units, one pause, a FIFO of two, replays of one: a replay takes several callbacks, and a read sized before a pause may not fit |
| `callback_ingress` | accounting, frontiers, overflow, exit, close, and that close returns | room for two units and two commands against three units and an error: both limits are met; two frontiers; both threads inside at close |
| `output_flow` | do pauses keep the bytes within the limits, and end | high water 3, hard limit 8, ten bytes: several rounds of pause and resume |
| `exit_drain` | is the exit drain within what the session can hold (it is not) | high water 4, hard limit 16, twenty bytes |
| `session_runner` | order, settlement, holds, input, exit; does everything settle and get replayed | two callbacks of mixed outputs (an image, half a request, and its rest with a request and a query in its tail: whole, cut and nested requests), error, exit, overflow, one input or stop, two nested handlers, a hold of one unit. Each action and each mutant's error happens within them; that order, effects and calls are right beyond them is proved for any bounds (`SessionRunnerProofs`) |
| `resize_arbitration` | does the parser make the same of the bytes however they are cut; does the host learn everything in order and end up to date; one request at a time, each ended once, none for ever | every cut of each pair of 22 tokens, and of a macro's definition, a token and an invocation; a queue of three notifications of five kinds, with names, bells, errors and the exit, so that it coalesces and overflows; four requests: one shown, one settled and one waiting can coexist; three changes of the timeout |
| `history_ring` | do live records read back, are the newest kept | capacities 1, 4 and 6 (1 is refused), a record takes half of the block at most, sequence numbers to 14: several turns, records of all sizes, several forgotten by one commit, resizes both ways |
| `screen` | wide glyphs whole, wraps true, margins respected, text kept by a resize | three control functions on three printed grids of 3 by 3 (a line over three rows with pushed wide glyphs, a line up to the margin, wide glyphs across a margin), six sizes to go to: every cut through a glyph, a wrap and a margin occurs |
| `conpty_resize` | is what is in sync true, is each resize recorded once, do resizes rest, is the exit reported with a true reason | two grids, three resizes (one runs, one waits, one displaces it) or two calls with writes and interrupts |
| `search` | is what is shown current, does a selection survive, does a search end | two texts, one query, two active rows and one retained, three changes: a row is rewritten, retained and evicted while scans of it go on |

Between them the passing runs fire every action. The bounds are constants named
`Max...`; `StreamLength` bounds the child's writes.

**Deadlock.** It is checked in `session_runner`, where a call must always be able to go
on. The history ring, the screen and the search stop when their
bound on changes is used up. The other systems stop when the child has written all it
may and everything is closed or settled, so their runs switch the check off and state
the endings as liveness.

### What the exit drain shows

`exit_drain` is a violation. `docs/backend_lifecycle_and_signals.md:190` says
that reserving one read under the hard limit keeps the exit drain from enqueueing
more than the session can hold. After the child exits
(`posix_pty_backend.cpp:1762`) pauses no longer latch. If the session does not
drain meanwhile, what it already has queued, the whole FIFO and the rest in the
kernel are delivered one after the other, pass the hard limit, and the overflow
drops the tail of the output. One read under the limit covers one overshoot, not
the rest.

### What the rejected backend shows

`rejected_backend` is a violation. `docs/backend_lifecycle_and_signals.md:452` says that
a cleanup reservation "retains the implementation until active public calls and worker
threads have drained, including destruction from inside a callback". The cleanup worker
waits for the calls once, before it shuts the backend down
(`posix_pty_backend.cpp:458`), and then waits to be released. A failed start has the
cleanup requested at once (`:631`), so that after it the wait is over while the facade is
still there. The trace: a start fails at the launch and returns; the worker finds no call
open, shuts down and settles; the host calls `start` again, is refused, and is told so by
`error_reported` inside that call (`native_backend_io_core.cpp:187`); it destroys the
backend there; `release_to_cleanup` releases the reservation and the worker deletes the
Impl, whose call guard the returning `start` has yet to run.
`must_defer_native_backend_destruction` (`native_backend_io_core.cpp:450`) tells that a
call is open, but nothing calls it. After a start that succeeded the request comes with
the destruction, and the calls are waited for: `ImplOutlivesUsers` says so.

## Fairness

- **Workers.** A runnable thread runs (`WF` on each thread's steps). Condition
  variables are state (`asleep`): a sleeper runs again only when some action has
  woken it, so a missing notification shows up as a violated property.
- **The clock** reaches the drain deadline (`DeadlinePasses`).
- **Callbacks return**: the session's callbacks only queue and ask for a pause. In
  `BackendLifetime` host code in callbacks and handlers makes finitely many calls and
  returns (`SF`, since calls of its own disable the return for a while).
- **The operating system.** `ClosePseudoConsole` returns, and the reader of a closed
  console's pipe ends; nothing says that it ends before. `ResizePseudoConsole` returns
  when the reader reads again (`SF` while it is not parked behind a pause).
- **The GUI thread** finishes a call it has begun. `SF` for the posted drain
  and the host's answer: they wait in the event loop and get their turn though other
  calls come between. `SF` for the end of the handlers of each depth: a handler of the
  host returns, whatever handlers it makes run inside it. A pause ends while the process runs,
  since what caused it is drained (`OutputFlow`). `SF` for the end of an image: a
  step that goes on decoding finishes it within a bounded number of bytes.
- **The pool's thread** runs its drain, and the session's thread handles what is posted.
- **Not fair**: what the child writes, when it exits, what the host asks for.

- **The surface** runs its delivery loop whenever something waits, since every drain ends
  in `sync_from_session`, and its single-shot timer fires.

`HoldsEnd` excepts a host that sets no timeout: then a request may be held for
ever by design. `GeometryConverges` excepts a session that goes on resizing, and a
newest request that was recorded as failed.

## Proofs

Checked by TLAPS for every value of the constants.

- **`BackendLifetimeProofs`**, first about the two parts the backend is made of: the gate
  `Gate(Threads, MaxDepth)` with any finite set of threads and the registry
  `Registry(Jobs)` with any reservations. `GateCountsExact`, `RevokedGateIsQuiescent`:
  `GateInv` says that the invocations of a thread are levels 1 to its depth, so entering
  adds a frame and leaving removes the top one; without it the counter and the set of
  frames could drift apart. `HandedOverImplIsSafe`, `EmptyRegistryIsSettled`,
  `NoWorkerOutlivesRegistry`: `LifeInv` follows one job: who holds the Impl has neither
  released nor cancelled it, a busy worker was requested, a finished one leaves no Impl.
  Then about the whole: `BackendCallbacksQuiescent`, `BackendUnloadIsQuiet`,
  `OneBirthEver`, `RejectedIsSilent`, `ImplIsDeletedLast`. `GateStep` and `OwnerStep` show
  that each step of the backend is a step or a stutter of the gate and of the owner; with
  the initial states that makes the parts' theorems hold in the backend.
  `LifetimeInv` says how the stages of a start, the startup latch, the flags and the
  workers go together, that an open call keeps the facade or its failed start, that once
  the shutdown is told a call is open only after a rejected start and at none of its
  steps, and that the shutdown was told to all workers. `ImplIsDeletedLast` follows, for
  any threads and without an assumption on when the host destroys the backend.
- **`CallbackIngressProofs`**: `QueueStaysSound`, `ExitStays`, `ClosedStaysQuiescent`,
  and the refinement `QueueIsAStream` (`Spec => ImplementsStream`). `IInv` says
  that the epochs rise along the queue and that no frontier, stop or failure lies beyond
  the newest one; that the accounting is that of the epochs that hold a reservation; which
  units lie on which side of a frontier; and that what was taken and what is queued, one
  behind the other, are the accepted units from the first on. `StreamStep` shows each
  action to be a step of the abstract stream or a stutter.
- **`OutputFlowProofs`**: `RunningProcessIsNotOverflowed`, `NothingTakenIsLost`,
  `NoPauseIsLeftBehind`, `QueuesKeepTheirBounds`. `LimitsFit` proves of the derived limits that a read or a
  replay chunk begun under the high water ends within the hard limit. `FlowInv`
  adds that a running process delivers only while the ingress has room, and that
  flag and backend agree except between a take and the next queued command.
  `QueuesKeepTheirBounds` gives the types and `Conserved`: the bytes in all places
  together never exceed what the child wrote, so no byte is queued twice.
  Assumes high water below hard limit, as the session's configuration does.
- **`SessionDeliveriesProofs`**, of three components that share the session's state.
  Of the arbitration: `TypeCorrect`, `OneAtATime`, `ToldOnce`,
  `NoRequestLost`, `DeadlineHolds`. `ArbitrationInv` lists what the two queues can
  hold: at most one settlement, of the request shown last, before at most one
  newer request. The queues' lengths and the host's view follow. `DeliveriesArbitrate`
  (`DeliveriesSpec => Spec`) carries all of it over to the whole session.

  Of the parser: `ParserAnswers`, for any state of a parser, any bytes, budget and limits.
  That a recursive function has a value where its definition says so is a theorem only if
  what it recurs on gets smaller; `Left` and `Work` are the measures. A turn of the loop
  takes bytes or leaves a mode (a string, a discarded sequence); a replay takes bytes of
  its frame, pops a frame, or expands a macro, of which the expansion's limit allows so
  many bytes, each frame no longer than they are. `TurnGoesOn` and its lemmas say this of
  each branch.

  Of the queue: `DeliveredRising` and `HostCaughtUp`, for any output, cut anywhere, and any
  limits. `OrderInv` says that what waits in either queue was recorded after all that was
  taken or replayed (`Floors`), that no order is given out twice, and that what was taken
  is sorted. A name that is replaced in place gets the newest order, so the queue is not
  sorted itself, and the sort of the batch is what makes the order true (`InOrderIs`: by
  ranks, which are all different, so that every rank is taken). `HostInv` follows the last
  name of each kind from the parser's actions to the host: unless the limit forgot one, all
  that waits of its kind has its value, and when nothing waits the host has it. Exit and
  names wait in any order in the queue; what keeps the promise at the exit is that no name
  is recorded after it. The two hold together with `ParsedInv`, and TLC checks them at the
  bounds of the run `resize_arbitration`. Assumes of an output only that it is bytes and
  that its cuts lie in it (`OutputsAssumption`).
- **`ResizeTransactionProofs`**: `EachResizeIsRecordedOnce`, `NoCallBehindTheClose`,
  `ReasonsAreTrue`, `GeometryInSyncIsTrue`. `SyncInv` is the interesting one: a request
  is in one place of its way at a time and has an id of its own, so the completion of the
  newest request finds no other in the slot or on the console, and the console's grid is
  the one it asked for. `ReasonInv` says of each place of the writer whether an interrupt
  has reached the pipe; it holds until the exit is reported, which is when the reason is
  read. The invariants hold for any grids and any number of calls.
- **`SessionRunnerProofs`**: `RunnerTypeCorrect`, `OutputStaysInOrder`,
  `CallsStayComplete`, `EffectsStayInOrder`. What makes the order true is one sequence:
  what is applied, held, stashed, in the tail and left of the open operation, put one
  behind the other, is what the callbacks brought so far, and what is queued follows it.
  No action reorders it; each only moves the borders. `RunnerInv` says so (`ChainOK`), and
  what it needs: which place owns the text, that the epochs rise along the queue, which
  stage of a call goes with which operation. TLC has checked it too, with three
  callbacks and two nested handlers (4.5 million states). Assumes that no
  output callback is empty: the backends call back only with bytes they have
  (`posix_pty_backend.cpp:1517`, `windows_conpty_backend.cpp:2078`).
- **`ScreenProofs`** extends the two stores of the screen model, `HistoryRing` and
  `ScreenGrid`, which share no variable (the ring's specification is `RingSpec`).
  Of the ring: `LiveRecordsReadBack`, `CommitFindsRoom`, and the refinement
  `RingIsALog` (`RingSpec => ImplementsLog`). `RingInv`
  says that the records lie in order between `oldest` and `head`, that this range
  fits the block, and that every live byte is in its place. A commit keeps it
  because two sequence numbers closer than the capacity have different remainders
  (`PlacesDiffer`), a resize because what it copies is within both blocks.
  `CommitFindsRoom` shows that the error return of `plan_room_for` for a ring
  without enough records cannot be taken. For the refinement, that the log's records are
  always the newest that fit is shown of the first record that stays, which is the least
  element of a set of numbers.

  Of the grid: `GridTypeCorrect`, `SpansStayWhole`, `MarginsAreHeld`,
  `WrapsStayTrue`, for grids of any size and any glyphs. First lemmas about a row: `ClearSpans`, `RepairSpans`,
  the shift of columns and the copy of an area leave a row of the right length in which
  no glyph is half there. `SpansStayWhole` puts them together, action by action: the
  code may cut a glyph at each of these places, and each place repairs what it cut.
  `MarginsAreHeld` says that outside the margins a control function leaves a cell as it was
  or, if a margin cuts the glyph it belongs to, clears it. It needs that the left
  margin is left of the right one: a wide glyph that does not fit wraps to the left margin
  and must fit there. `WrapsStayTrue` rests on two facts: most control functions only take
  wraps away (`Looser`), and rows that move take with them the row they lead to, but for
  the ends of what moves, where the code breaks the wrap or a scroll puts the new row
  there that the wrap names (`MovedUpLeads`, `MovedDownLeads`). The theorems are about the
  control functions (`Spec`); what a resize does is TLC's.

- **`SearchControllerProofs`**: `SearchIsInvariant`, `ResultStaysCurrent`,
  `SelectionStays`, for any rows, texts and queries. The worker's corpus is always
  somewhat old, and neither what it shows nor what a scan of it finds can be said of the
  published rows directly. `ChainInv` says that the updates that are queued or taken lead,
  one after the other, from the corpus to what the session has published (`Reaches`); every
  `UpdateFor` new rows continues this way (`PublishLeads`), be it a reset, rows that
  scrolled off, or a few rewritten ones. `ValidInv` says that the result the worker goes on
  from is that of the corpus but for the changes it has noted, so that what an incremental
  scan keeps and what it finds anew are what a full one would find (`MergeGoesOn`).
  `WorkInv` ties the job to the work asked for last: a commit checks it when no update is on
  its way any more, so the corpus shows the published rows. `ResultInv` follows: a result with the newest generation and revision is
  the scan of those rows, whether committed or refreshed in place. `SelInv` adds that a
  selection that still counts is held at every point: by the anchor of the scan in
  progress, or as the current match of the result. TLC checks `SearchInv` too, at the
  bounds of the run `search` (1.9 million states).

Each proof has the shape: the invariant holds initially, one lemma or case per
action preserves it, it implies the property. TLC checked the properties first.
Some facts are proved and not run: the type invariants, the counts of the
gate, the registry's settlement, the bounds of the queues, the deadline and the single
answer of a request, a rejected start's silence, the room a commit finds.

**Only model-checked**: liveness and anything with `ENABLED` (out of the prover's
reach); `ImplementsStream` of `PosixPtyOutput`, whose inductive invariant has to place
the units of six threads' locals; on the screen what a resize does,
with `ResizeKeepsText`, which compares texts that recursive functions compute; and
`ChunksDoNotMatter`, which compares what the parser makes of the same bytes cut differently:
an induction over the output with one case per pair of a place of the parse and a cut.
The library's induction theorems cannot be used with an operator as a parameter. Where a
proof needed a fact about sequences or calls of any length, it takes the least element of a
set of numbers, or shows that a set of numbers holds 0 and with each its successor
(`SetInduction`, `LeastNatural`). No module
declares a `RECURSIVE` operator; the parser's loops are recursive functions.

## Not modelled, and why

- Contents: styles, colours, links, images, glyph widths, encodings, layout. The tests
  compare them with tables and captures; a model would repeat the tables.
- GPU resources and pixels.
- Recording and diagnostics, except that a failed capture queues an error.
- A rejected `set_output_paused` and command counts in `OutputFlow`: they add an
  error notification, not a place for bytes.
- A second run of a process in the same session, and calls made from inside the
  runner's own notifications.
- In `ReasonIsTrue`, the moment between a write that failed and the lock under which
  the writer says so: the comment at `windows_conpty_backend.cpp:2203` accepts that an
  exit observed there is called an interrupt.
- The output overflow of a session that resizes drops output, not queued completions;
  a completion that is lost with the backend leaves its resize pending until the exit.
- In the screen: character protection and selective erase, programmed tab stops, the
  recovery of repaints into history, snapshots, and a backend that owns its screen
  buffers (`terminal_screen_model.cpp:4833, 5266`), which is ConPTY's setting.
- In the parser: sixel images and their budget (`SessionRunner` has a suspended image), SGR,
  private markers, hyperlinks, palettes and clipboard, repetitions in a macro. What is
  notified of backpressure and clipboard writes takes the paths of the modelled kinds. A
  batch is abandoned when a handler replaces the session: the host's own doing.
- In the search: spans within a row, the order and number of matches, revealing one.
- 64-bit sequence and epoch counters are not wrapped: at one callback per
  nanosecond they last for centuries.
- The parts marked `not_modelled` in `PROJECT.json`, in the order of the plan.
