--------------------------- MODULE SearchController ---------------------------
(***************************************************************************)
(* Terminal_search_controller: the session publishes the rows of its model *)
(* and the host's query; a pool thread keeps a copy of the rows (corpus)   *)
(* and scans it, all of it or what changed; a newer request cancels a scan *)
(* in progress; the session takes a completed result only for the query    *)
(* and the source it has by then.  A small change of an idle source is     *)
(* refreshed in place by the session's own thread.                         *)
(*                                                                         *)
(* A row matches or does not: the spans in a row and the order of matches  *)
(* within a retained line are left out, and where the code prefers a row   *)
(* near the viewport the model takes any.                                  *)
(***************************************************************************)
EXTENDS Naturals, Sequences, SequencesExt

CONSTANTS
    Text, Query,    \* contents of a row, queries of the host
    First,          \* what the rows hold at first
    NoQuery, None,
    Hits(_, _),     \* Hits(query, text)
    Rows,           \* rows of the active grid
    RetainedLimit,  \* retained rows the model keeps
    MaxChanges      \* bound on what the session is asked to do

Buffer == {"PRIMARY", "ALTERNATE"}
Active == 1..Rows

\* None is no match and no anchor.
ASSUME SearchAssumption ==
    /\ NoQuery \notin Query /\ First \in Text
    /\ Rows \in Nat \ {0} /\ RetainedLimit \in Nat
    /\ None \notin [active : BOOLEAN, position : Nat, handle : Nat]
    /\ None \notin [handle : Nat, buffer : Buffer, epoch : Nat]

VARIABLES
    source,      \* the published model: rows with the handles that name them
    queued,      \* the session's queued range and identity are set
    handles,     \* handles given out
    changes,     \* changes made
    \* Terminal_search_controller, on the session's thread
    query, generation, revision, available, searching,
    \* Search_completion_dispatch
    notifying,   \* drains that have ended and not notified yet
    posted,      \* m_queued
    handling,    \* the posted handler has cleared it and is about to read the result
    \* Shared_state
    desired, workGeneration, updates, scheduled, closed,
    corpus, valid, workerQuery, workerGeneration, result,
    \* drain, on the pool's thread
    pc, job, taken, changed, anchor, detached,
    chosen       \* the match the host selected last

session == <<source, queued, handles, changes, chosen>>
control == <<query, generation, revision, available, searching>>
dispatch == <<notifying, posted, handling>>
command == <<desired, workGeneration, updates, scheduled, closed>>
owned   == <<corpus, valid, workerQuery, workerGeneration>>
drain   == <<pc, job, taken, changed, anchor, detached>>
vars    == <<session, control, dispatch, command, owned, result, drain>>

Row(text, handle) == [text |-> text, handle |-> handle]

\* No result: a default-constructed one.
NoResult == [matches |-> {}, query |-> NoQuery, generation |-> 0, revision |-> 0,
             buffer |-> "PRIMARY", epoch |-> 0, current |-> None, ready |-> FALSE]

\* What a scan finds: retained rows by ordinal, active rows by their place.
Match(active, position, handle) == [active |-> active, position |-> position, handle |-> handle]

RetainedHits(rows, q) ==
    {Match(FALSE, rows.first + i, rows.retained[i].handle) :
        i \in {k \in DOMAIN rows.retained : Hits(q, rows.retained[k].text)}}

ActiveHits(rows, buffer, q) ==
    {Match(TRUE, r, rows.active[buffer][r].handle) :
        r \in {k \in DOMAIN rows.active[buffer] : Hits(q, rows.active[buffer][k].text)}}

Scan(rows, buffer, q) ==
    ActiveHits(rows, buffer, q) \cup (IF buffer = "PRIMARY" THEN RetainedHits(rows, q) ELSE {})

\* apply_updates: what a scan must look at again.
NoChange == [retained |-> {}, active |-> {}, resetActive |-> FALSE, rescan |-> FALSE]

\* The first rows are published and a query is set; the worker has both to take.
Init ==
    /\ \E q \in Query :
        /\ source = [buffer |-> "PRIMARY", epoch |-> 1, first |-> 0, retained |-> <<>>,
                     active |-> [b \in Buffer |-> [r \in Active |-> Row(First, r)]]]
        /\ query = q
        /\ updates = <<[buffer |-> "PRIMARY", epoch |-> 1, first |-> 0, end |-> 0,
                        resetRetained |-> TRUE, resetActive |-> TRUE, rescan |-> FALSE,
                        retained |-> <<>>, active |-> source.active["PRIMARY"]]>>
    /\ desired = [query |-> query, generation |-> 1, revision |-> 1, buffer |-> "PRIMARY",
                  epoch |-> 1, available |-> TRUE, work |-> 2]
    /\ generation = 1 /\ revision = 1 /\ workGeneration = 2
    /\ available = TRUE /\ searching = TRUE /\ queued = TRUE
    /\ scheduled = TRUE /\ pc = "take" /\ closed = FALSE
    /\ handles = Rows /\ changes = 0 /\ chosen = None
    /\ notifying = 0 /\ posted = FALSE /\ handling = FALSE
    /\ corpus = [first |-> 0, retained |-> <<>>, active |-> [b \in Buffer |-> <<>>],
                 buffer |-> "PRIMARY", epoch |-> 0, initialized |-> FALSE]
    /\ valid = FALSE /\ workerQuery = NoQuery /\ workerGeneration = 0
    /\ result = NoResult
    /\ job = None /\ taken = <<>> /\ changed = NoChange /\ anchor = None
    /\ detached = NoResult
-----------------------------------------------------------------------------
(***************************************************************************)
(* The session, on its own thread.                                         *)
(***************************************************************************)
CanChange == ~closed /\ changes < MaxChanges
Changed == changes' = changes + 1

Rewritten(rows, changedRows) ==
    [r \in DOMAIN rows |-> IF r \in DOMAIN changedRows THEN changedRows[r] ELSE rows[r]]

\* finish_result: the match the anchor names, else some match.
Currents(matches, wanted) ==
    LET same == {m \in matches : wanted # None /\ m.handle = wanted.handle}
    IN  IF same # {} THEN same ELSE IF matches # {} THEN matches ELSE {None}

Finished(matches, d, current) ==
    [matches |-> matches, query |-> d.query, generation |-> d.generation, revision |-> d.revision,
     buffer |-> d.buffer, epoch |-> d.epoch, current |-> current, ready |-> TRUE]

Desired(q, g, rev, src, avail) ==
    [query |-> q, generation |-> g, revision |-> rev, buffer |-> src.buffer,
     epoch |-> src.epoch, available |-> avail, work |-> workGeneration + 1]

\* request: newer work, for which a drain is started unless one is scheduled.
Request(d, us) ==
    /\ workGeneration' = workGeneration + 1
    /\ desired' = d /\ updates' = updates \o us
    /\ scheduled' = TRUE
    /\ pc' = IF scheduled THEN pc ELSE "take"
    /\ UNCHANGED <<closed, owned, result, job, taken, changed, anchor, detached>>

CanRefresh(d, u) ==
    /\ ~scheduled /\ updates = <<>> /\ valid
    /\ ~u.resetRetained /\ ~u.rescan /\ u.retained = <<>>
    /\ corpus.initialized
    /\ result.buffer = corpus.buffer /\ result.epoch = corpus.epoch
    /\ result.query = d.query /\ result.generation = d.generation
    /\ corpus.buffer = u.buffer /\ corpus.epoch = u.epoch
    /\ corpus.first = u.first /\ corpus.first + Len(corpus.retained) = u.end
    /\ DOMAIN u.active \subseteq DOMAIN corpus.active[u.buffer]

\* refresh_active_rows, under the three mutexes at once.
Refresh(d, u) ==
    LET rows == [corpus EXCEPT !.active[u.buffer] = Rewritten(@, u.active)]
        unchanged == {m \in result.matches : ~(m.active /\ m.position \in DOMAIN u.active)}
        refreshed == {m \in ActiveHits(rows, u.buffer, d.query) : m.position \in DOMAIN u.active}
        matches == unchanged \cup refreshed
    IN  /\ corpus' = rows
        /\ workGeneration' = d.work /\ desired' = d
        /\ \E m \in Currents(matches, result.current) : result' = Finished(matches, d, m)
        /\ UNCHANGED <<updates, scheduled, closed, valid, workerQuery, workerGeneration, drain>>

\* set_query, set_case_sensitive, clear and set_source_unavailable ask without an
\* update; each makes a new query generation.
AskQuery(q, avail) ==
    /\ query' = q /\ available' = avail
    /\ generation' = generation + 1
    /\ searching' = (avail /\ q # NoQuery)
    /\ Request(Desired(q, generation', revision, source, avail), <<>>)
    /\ UNCHANGED <<revision, dispatch, chosen>>

SetQuery ==
    /\ CanChange /\ Changed
    /\ \E q \in Query \cup {NoQuery} : AskQuery(q, available)
    /\ UNCHANGED <<source, queued, handles>>

\* The public projection is invalidated, or nothing safe can be shown; only the
\* first forgets the queued range.
SourceUnavailable ==
    /\ CanChange /\ Changed /\ query # NoQuery
    /\ AskQuery(query, FALSE)
    /\ \E kept \in BOOLEAN : queued' = (queued /\ kept)
    /\ UNCHANGED <<source, handles>>

\* update_search_source_from_published_model when a retained row cannot be read:
\* the row that was written is not published.
WriteUnread ==
    /\ CanChange /\ Changed /\ source.retained # <<>>
    /\ \E r \in Active, text \in Text :
        source' = [source EXCEPT !.active[source.buffer][r] = Row(text, handles + 1)]
    /\ handles' = handles + 1
    /\ AskQuery(query, FALSE)
    /\ queued' = FALSE

\* The update that leads from the rows published last to the new ones: what was appended
\* and what is dirty, or, when the queued range does not reach them, everything.
UpdateFor(new, dirty, resetRetained, rescan) ==
    LET end == source.first + Len(source.retained)
        newEnd == new.first + Len(new.retained)
        resetRows == resetRetained \/ ~queued \/ newEnd < end \/ new.first > end
        resetActive == resetRows \/ rescan \/ new.buffer # source.buffer \/ new.epoch # source.epoch
        from == IF resetRows \/ end <= new.first THEN 0 ELSE end - new.first
        rows == IF resetActive THEN Active ELSE dirty
    IN  [buffer |-> new.buffer, epoch |-> new.epoch, first |-> new.first,
         end |-> newEnd,
         resetRetained |-> resetRows, resetActive |-> resetActive, rescan |-> rescan,
         retained |-> SubSeq(new.retained, from + 1, Len(new.retained)),
         active |-> [r \in rows |-> new.active[new.buffer][r]]]

\* update_search_source_from_published_model, then update_source.
Publish(new, dirty, resetRetained, rescan) ==
    LET update == UpdateFor(new, dirty, resetRetained, rescan)
        d == Desired(query, generation, revision + 1, new, TRUE)
        refreshes == available /\ ~searching /\ query # NoQuery /\ CanRefresh(d, update)
    IN  /\ Changed
        /\ source' = new /\ queued' = TRUE
        /\ revision' = revision + 1 /\ available' = TRUE
        /\ \/ refreshes /\ Refresh(d, update) /\ searching' = FALSE
           \/ ~refreshes /\ Request(d, <<update>>) /\ searching' = (query # NoQuery)
        /\ UNCHANGED <<query, generation, dispatch, chosen>>

\* A row of the active grid is rewritten: a new content, a new handle.
WriteRow ==
    /\ CanChange
    /\ \E r \in Active, text \in Text :
        Publish([source EXCEPT !.active[source.buffer][r] = Row(text, handles + 1)], {r}, FALSE, FALSE)
    /\ handles' = handles + 1

\* The primary grid scrolls: its first row is retained, the oldest evicted.
ScrollRow ==
    /\ CanChange /\ source.buffer = "PRIMARY"
    /\ \E text \in Text :
        LET rows == source.active["PRIMARY"]
            kept == Append(source.retained, rows[1])
            lost == IF Len(kept) > RetainedLimit THEN 1 ELSE 0
            scrolled == [r \in Active |-> IF r < Rows THEN rows[r + 1] ELSE Row(text, handles + 1)]
        IN  Publish([source EXCEPT !.active["PRIMARY"] = scrolled,
                                   !.retained = SubSeq(kept, lost + 1, Len(kept)),
                                   !.first = @ + lost], Active, FALSE, FALSE)
    /\ handles' = handles + 1

ClearHistory ==
    /\ CanChange /\ source.retained # <<>>
    /\ Publish([source EXCEPT !.retained = <<>>, !.first = @ + Len(source.retained)], {}, TRUE, FALSE)
    /\ UNCHANGED handles

SwitchBuffer ==
    /\ CanChange
    /\ \E b \in Buffer \ {source.buffer} :
        Publish([source EXCEPT !.buffer = b, !.epoch = @ + 1], {}, FALSE, TRUE)
    /\ UNCHANGED handles

\* A match of the current result is selected; refused while searching.
SelectMatch ==
    /\ CanChange /\ Changed /\ ~searching
    /\ \E m \in result.matches :
        /\ m # result.current
        /\ result' = [result EXCEPT !.current = m]
        /\ chosen' = [handle |-> m.handle, generation |-> result.generation, epoch |-> result.epoch]
    /\ UNCHANGED <<source, queued, handles, control, dispatch, command, owned, drain>>

Close ==
    /\ ~closed
    /\ closed' = TRUE /\ updates' = <<>> /\ workGeneration' = workGeneration + 1
    /\ UNCHANGED <<session, control, dispatch, desired, scheduled, owned, result, drain>>
-----------------------------------------------------------------------------
(***************************************************************************)
(* The completion, posted by the worker and read on the session's thread.  *)
(***************************************************************************)
TakenAnyway ==      \* mutant: the completion is taken for whatever source there is
    result.ready /\ result.generation = generation

Accepted ==
    /\ result.ready
    /\ result.generation = generation /\ result.revision = revision

\* One notification is queued at a time.
Notify ==
    /\ notifying > 0
    /\ notifying' = notifying - 1 /\ posted' = TRUE
    /\ UNCHANGED <<session, control, handling, command, owned, result, drain>>

Deliver ==
    /\ posted /\ ~handling
    /\ posted' = FALSE /\ handling' = TRUE
    /\ UNCHANGED <<session, control, notifying, command, owned, result, drain>>

ProcessCompletion ==
    /\ handling
    /\ handling' = FALSE
    /\ searching' = (searching /\ ~Accepted)
    /\ result' = [result EXCEPT !.ready = @ /\ ~searching]
    /\ UNCHANGED <<session, query, generation, revision, available, notifying, posted, command, owned, drain>>
-----------------------------------------------------------------------------
(***************************************************************************)
(* drain, on a thread of the pool.                                         *)
(***************************************************************************)
Stop == pc' = "idle" /\ scheduled' = FALSE

Take ==
    /\ pc = "take"
    /\ \/ /\ closed /\ Stop
          /\ UNCHANGED <<updates, job, taken>>
       \/ /\ ~closed
          /\ job' = desired /\ taken' = updates /\ updates' = <<>>
          /\ pc' = "apply"
          /\ UNCHANGED scheduled
    /\ UNCHANGED <<session, control, dispatch, desired, workGeneration, closed, owned, result,
                   changed, anchor, detached>>

\* apply_updates, of one update: the corpus, and what a scan must look at again.
AppliedRows(c, u) ==
    LET fresh == ~c.initialized \/ u.resetRetained
        old == IF fresh THEN <<>> ELSE SubSeq(c.retained, u.first - c.first + 1, Len(c.retained))
        grid == IF u.resetActive THEN [r \in Active |-> Row(None, 0)] ELSE c.active[u.buffer]
    IN  [first |-> u.first, retained |-> old \o u.retained,
         active |-> [c.active EXCEPT ![u.buffer] = Rewritten(grid, u.active)],
         buffer |-> u.buffer, epoch |-> u.epoch, initialized |-> TRUE]

ChangesWithoutEpoch(c, u, ch) ==   \* mutant: a switch of the buffer keeps the old matches
    [retained |-> ch.retained \cup {u.end - i + 1 : i \in 1..Len(u.retained)},
     active |-> (IF u.resetActive THEN {} ELSE ch.active) \cup DOMAIN u.active,
     resetActive |-> ch.resetActive \/ u.resetActive,
     rescan |-> ch.rescan \/ ~c.initialized \/ u.resetRetained]

Changes(c, u, ch) ==
    [retained |-> ch.retained \cup {u.end - i + 1 : i \in 1..Len(u.retained)},
     active |-> (IF u.resetActive THEN {} ELSE ch.active) \cup DOMAIN u.active,
     resetActive |-> ch.resetActive \/ u.resetActive,
     rescan |-> \/ ch.rescan \/ u.rescan \/ ~c.initialized \/ u.resetRetained
                \/ (u.resetActive /\ (u.buffer # "PRIMARY" \/ c.epoch # u.epoch))
                \/ c.buffer # u.buffer]

\* With corpus_mutex held from here to the end of the scan.
ApplyUpdate ==
    /\ pc = "apply" /\ taken # <<>>
    /\ corpus' = AppliedRows(corpus, Head(taken))
    /\ changed' = Changes(corpus, Head(taken), changed)
    /\ taken' = Tail(taken)
    /\ UNCHANGED <<session, control, dispatch, command, valid, workerQuery, workerGeneration, result,
                   pc, job, anchor, detached>>

\* No query or no source: no matches.
Idle ==
    /\ pc = "apply" /\ taken = <<>>
    /\ job.query = NoQuery \/ ~job.available
    /\ anchor' = None /\ valid' = FALSE
    /\ workerQuery' = job.query /\ workerGeneration' = job.generation
    /\ pc' = "discard"
    /\ UNCHANGED <<session, control, dispatch, command, corpus, result, job, taken, changed, detached>>

AnchoredAfresh(kept, r) ==    \* mutant: what a cancelled scan had taken off the result is lost
    IF r.current # None /\ r.query = job.query /\ r.generation = job.generation
       /\ r.buffer = job.buffer /\ r.epoch = job.epoch
    THEN [handle |-> r.current.handle, buffer |-> r.buffer, epoch |-> r.epoch]
    ELSE None

\* The current match of a result for this query and buffer, unless a scan that was
\* cancelled has left its own.
Anchored(kept, r) ==
    IF kept = None /\ r.current # None /\ r.query = job.query /\ r.generation = job.generation
       /\ r.buffer = job.buffer /\ r.epoch = job.epoch
    THEN [handle |-> r.current.handle, buffer |-> r.buffer, epoch |-> r.epoch]
    ELSE kept

\* run_full_scan of the corpus, or run_incremental_scan of what changed.
Begin ==
    /\ pc = "apply" /\ taken = <<>>
    /\ job.query # NoQuery /\ job.available
    /\ LET same == workerQuery = job.query /\ workerGeneration = job.generation
           kept == IF same /\ anchor # None /\ anchor.buffer = job.buffer /\ anchor.epoch = job.epoch
                   THEN anchor ELSE None
       IN  \/ /\ valid /\ same /\ ~changed.rescan
             /\ anchor' = kept /\ pc' = "incremental"
          \/ /\ ~(valid /\ same /\ ~changed.rescan)
             /\ anchor' = Anchored(kept, result) /\ pc' = "full"
    /\ UNCHANGED <<session, control, dispatch, command, owned, result, job, taken, changed, detached>>

Discard ==
    /\ pc = "discard"
    /\ result' = NoResult /\ pc' = "end" /\ changed' = NoChange
    /\ UNCHANGED <<session, control, dispatch, command, owned, job, taken, anchor, detached>>

Cancelled == workGeneration # job.work

Cancel ==
    /\ pc \in {"full", "incremental", "merge"} /\ Cancelled
    /\ valid' = FALSE /\ pc' = "end"
    /\ detached' = NoResult /\ changed' = NoChange
    /\ UNCHANGED <<session, control, dispatch, command, corpus, workerQuery, workerGeneration,
                   result, job, taken, anchor>>

Commit(matches) ==
    /\ \E m \in Currents(matches, anchor) : result' = Finished(matches, job, m)
    /\ valid' = TRUE /\ anchor' = None
    /\ workerQuery' = job.query /\ workerGeneration' = job.generation
    /\ changed' = NoChange
    /\ pc' = "end"

CommitFull ==
    /\ pc = "full" /\ ~Cancelled
    /\ Commit(Scan(corpus, job.buffer, job.query))
    /\ UNCHANGED <<session, control, dispatch, command, corpus, job, taken, detached>>

Detach ==
    /\ pc = "incremental" /\ ~Cancelled
    /\ detached' = result /\ result' = NoResult
    /\ anchor' = Anchored(anchor, result)
    /\ pc' = "merge"
    /\ UNCHANGED <<session, control, dispatch, command, owned, job, taken, changed>>

\* The matches of rows that are still there and were not changed.
Kept(matches) ==
    {m \in matches :
        IF m.active THEN ~changed.resetActive /\ m.position \notin changed.active
        ELSE /\ m.position > corpus.first /\ m.position <= corpus.first + Len(corpus.retained)
             /\ m.position \notin changed.retained}

CommitIncremental ==
    /\ pc = "merge" /\ ~Cancelled
    /\ Commit(Kept(detached.matches)
              \cup {m \in RetainedHits(corpus, job.query) : m.position \in changed.retained}
              \cup {m \in ActiveHits(corpus, job.buffer, job.query) : m.position \in changed.active})
    /\ detached' = NoResult
    /\ UNCHANGED <<session, control, dispatch, command, corpus, job, taken>>

\* Nothing newer: the worker is done, and tells the session of a result.
Done ==
    /\ Stop
    /\ notifying' = IF ~closed /\ job.query # NoQuery /\ job.available THEN notifying + 1 ELSE notifying
    /\ anchor' = None /\ job' = None

EndAnyway ==      \* mutant: the worker stops without looking for newer work
    /\ pc = "end"
    /\ Done
    /\ UNCHANGED <<session, control, posted, handling, desired, workGeneration, updates, closed, owned,
                   result, taken, changed, detached>>

\* Else it goes round, with the anchor of a scan that was cancelled.
End ==
    /\ pc = "end"
    /\ \/ /\ closed \/ (~Cancelled /\ updates = <<>>)
          /\ Done
       \/ /\ ~closed /\ (Cancelled \/ updates # <<>>)
          /\ pc' = "take"
          /\ UNCHANGED <<scheduled, notifying, anchor, job>>
    /\ UNCHANGED <<session, control, posted, handling, desired, workGeneration, updates, closed, owned,
                   result, taken, changed, detached>>
-----------------------------------------------------------------------------
Change == SetQuery \/ SourceUnavailable \/ WriteUnread \/ WriteRow \/ ScrollRow \/ ClearHistory
          \/ SwitchBuffer \/ SelectMatch \/ Close

Completion == Notify \/ Deliver \/ ProcessCompletion

WorkerStep == Take \/ ApplyUpdate \/ Idle \/ Begin \/ Discard \/ Cancel \/ CommitFull \/ Detach
              \/ CommitIncremental \/ End

Next == Change \/ Completion \/ WorkerStep

Spec == Init /\ [][Next]_vars

\* The pool runs the drain, the event loop delivers what is posted.
FairSpec == Spec /\ WF_vars(Completion) /\ WF_vars(WorkerStep)
-----------------------------------------------------------------------------
TypeOK ==
    /\ source.buffer \in Buffer /\ Len(source.retained) <= RetainedLimit
    /\ {queued, available, searching, scheduled, closed, valid, posted, handling} \subseteq BOOLEAN
    /\ query \in Query \cup {NoQuery}
    /\ pc \in {"idle", "take", "apply", "discard", "full", "incremental", "merge", "end"}
    /\ scheduled <=> pc # "idle"
    /\ result.current # None => result.current \in result.matches

(***************************************************************************)
(* What the host is shown as a result is the matches of its query in the   *)
(* rows the session has published: never those of an older query, source   *)
(* or buffer, whichever scans were cancelled, merged or refreshed in place *)
(* to get there (result_state, current_match, spans_for_snapshot).         *)
(***************************************************************************)
Shown == ~searching /\ available /\ query # NoQuery

ResultIsCurrent == Shown => result.matches = Scan(source, source.buffer, query)

(***************************************************************************)
(* The match the host selected stays the current one, by the handle of its *)
(* row, while its query and its buffer stay and the row still matches: an  *)
(* output that scrolls it or that cancels a scan on the way does not move  *)
(* the selection (refresh_anchor, finish_result).                          *)
(***************************************************************************)
SelectionSurvives ==
    (/\ Shown /\ chosen # None
     /\ chosen.generation = generation /\ chosen.epoch = source.epoch
     /\ \E m \in result.matches : m.handle = chosen.handle)
    => result.current.handle = chosen.handle

(***************************************************************************)
(* A search that nothing follows ends: the worker's last completion finds  *)
(* the session waiting for exactly that query and source, and its          *)
(* notification is not lost against one being delivered.                   *)
(***************************************************************************)
SearchEnds == []<>(~searching \/ closed)
=============================================================================
