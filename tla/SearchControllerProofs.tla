------------------------- MODULE SearchControllerProofs -------------------------
(***************************************************************************)
(* For any rows, texts, queries and bounds: what the search shows as its   *)
(* result is what a scan of the rows the session has published finds, and  *)
(* the match the host selected stays selected.                             *)
(*                                                                         *)
(* The worker's corpus lags behind the rows the session publishes. The     *)
(* argument is that the updates on their way always lead from the one to   *)
(* the other (ChainInv); that what the worker keeps as valid matches are   *)
(* those of its corpus but for the changes it has noted, so that an        *)
(* incremental scan finds what a full one would (ValidInv); that a commit  *)
(* is taken only for the work asked for last, when nothing is on its way   *)
(* (WorkInv); and so that a result whose generation and revision are the   *)
(* newest is that of the published rows (ResultInv). SelInv adds that a    *)
(* selected match is held at every point between a cancelled scan and the  *)
(* next commit.                                                            *)
(***************************************************************************)
EXTENDS SearchController, SequenceTheorems, TLAPS

-------------------------------------------------------------------------------
(***************************************************************************)
(* Rows, updates and the corpus.                                           *)
(***************************************************************************)
\* What the session publishes, what it queues and what the worker keeps of it.
RowT == [text : Text, handle : Nat]
Grids == UNION {[D -> RowT] : D \in SUBSET Active}

SourceT == [buffer : Buffer, epoch : Nat, first : Nat, retained : Seq(RowT),
            active : [Buffer -> [Active -> RowT]]]

UpdateT == [buffer : Buffer, epoch : Nat, first : Nat, end : Nat, resetRetained : BOOLEAN,
            resetActive : BOOLEAN, rescan : BOOLEAN, retained : Seq(RowT), active : Grids]

CorpusT == [first : Nat, retained : Seq(RowT), active : [Buffer -> Grids], buffer : Buffer,
            epoch : Nat, initialized : BOOLEAN]

\* A corpus of which a scan of its buffer sees whole rows.
CorpusOK(c) == c \in CorpusT /\ (c.initialized => DOMAIN c.active[c.buffer] = Active)

\* The update fits the corpus it is applied to.
Sound(c, u) ==
    /\ u.resetActive => DOMAIN u.active = Active
    /\ ~c.initialized => u.resetRetained
    /\ u.resetRetained => u.resetActive /\ u.end = u.first + Len(u.retained)
    /\ ~u.resetRetained => /\ c.first <= u.first /\ u.first <= c.first + Len(c.retained)
                           /\ u.end = c.first + Len(c.retained) + Len(u.retained)
                           /\ (u.buffer # "PRIMARY" => u.retained = <<>>)
    /\ ~u.resetActive => u.buffer = c.buffer /\ u.epoch = c.epoch
    /\ u.resetActive /\ ~u.resetRetained => u.rescan \/ u.buffer # c.buffer \/ u.epoch # c.epoch

\* What a scan sees of the corpus is what the session published.
Synced(c, s) ==
    /\ c.initialized /\ c.buffer = s.buffer /\ c.epoch = s.epoch
    /\ c.first = s.first /\ c.retained = s.retained
    /\ c.active[s.buffer] = s.active[s.buffer]

\* A grid maps some of the active rows to rows.
LEMMA GridIs ==
    ASSUME NEW g
    PROVE  g \in Grids <=> \E D \in SUBSET Active : g \in [D -> RowT]
BY DEF Grids

\* The type, the length and the elements of a subsequence.
LEMMA SubSeqIs ==
    ASSUME NEW S, NEW s \in Seq(S), NEW m \in Nat \ {0}, NEW n \in 0..Len(s), m <= n + 1
    PROVE  /\ SubSeq(s, m, n) \in Seq(S)
           /\ Len(SubSeq(s, m, n)) = n - m + 1
           /\ \A i \in 1..(n - m + 1) : SubSeq(s, m, n)[i] = s[m + i - 1]
BY SubSeqProperties

\* The retained rows after an update: those it keeps, from its first on, then its own.
LEMMA RowsKept ==
    ASSUME NEW c, NEW u \in UpdateT, CorpusOK(c), Sound(c, u), ~u.resetRetained
    PROVE  LET kept == c.first + Len(c.retained) - u.first
           IN  /\ AppliedRows(c, u).retained \in Seq(RowT)
               /\ kept \in Nat
               /\ Len(AppliedRows(c, u).retained) = kept + Len(u.retained)
               /\ \A i \in 1..kept : AppliedRows(c, u).retained[i] = c.retained[u.first - c.first + i]
               /\ \A i \in 1..Len(u.retained) : AppliedRows(c, u).retained[kept + i] = u.retained[i]
<1> DEFINE kept == c.first + Len(c.retained) - u.first
           old == SubSeq(c.retained, u.first - c.first + 1, Len(c.retained))
<1>1. c.retained \in Seq(RowT) /\ u.retained \in Seq(RowT) /\ c.first \in Nat /\ u.first \in Nat
  BY DEF CorpusOK, CorpusT, UpdateT
<1>2. c.first <= u.first /\ u.first <= c.first + Len(c.retained) /\ c.initialized
  BY DEF Sound
<1>l. Len(c.retained) \in Nat
  BY <1>1
<1>3. /\ u.first - c.first + 1 \in Nat \ {0} /\ Len(c.retained) \in 0..Len(c.retained)
      /\ u.first - c.first + 1 <= Len(c.retained) + 1
      /\ Len(c.retained) - (u.first - c.first + 1) + 1 = kept
  BY <1>1, <1>2, <1>l
<1>4. /\ old \in Seq(RowT) /\ Len(old) = kept
      /\ \A i \in 1..kept : old[i] = c.retained[u.first - c.first + i]
  <2> DEFINE m == u.first - c.first + 1
             n == Len(c.retained)
  <2>1. m \in Nat \ {0} /\ n \in 0..Len(c.retained) /\ m <= n + 1 /\ n - m + 1 = kept
    BY <1>3
  <2>2. /\ SubSeq(c.retained, m, n) \in Seq(RowT)
        /\ Len(SubSeq(c.retained, m, n)) = n - m + 1
        /\ \A i \in 1..(n - m + 1) : SubSeq(c.retained, m, n)[i] = c.retained[m + i - 1]
    <3> HIDE DEF m, n
    <3> QED BY <1>1, <2>1, SubSeqIs
  <2>3. \A i \in 1..kept : m + i - 1 = u.first - c.first + i
    BY <1>1, <1>2
  <2>4. old = SubSeq(c.retained, m, n)
    OBVIOUS
  <2> HIDE DEF m, n, old, kept
  <2> QED BY <2>1, <2>2, <2>3, <2>4
<1>5. AppliedRows(c, u).retained = old \o u.retained
  BY <1>2 DEF AppliedRows
<1>6. kept \in Nat
  BY <1>1, <1>2
<1> HIDE DEF old, kept
<1>7. /\ Len(old \o u.retained) = kept + Len(u.retained) /\ old \o u.retained \in Seq(RowT)
      /\ \A i \in 1..(kept + Len(u.retained)) :
            (old \o u.retained)[i] = IF i <= kept THEN old[i] ELSE u.retained[i - kept]
  BY <1>1, <1>4, ConcatProperties
<1>8. \A i \in 1..kept : (old \o u.retained)[i] = c.retained[u.first - c.first + i]
  BY <1>4, <1>6, <1>7, <1>1
<1>9. \A i \in 1..Len(u.retained) : (old \o u.retained)[kept + i] = u.retained[i]
  BY <1>6, <1>7, <1>1
<1> QED BY <1>5, <1>6, <1>7, <1>8, <1>9 DEF kept

\* A reset leaves the retained rows of the update only.
LEMMA AppliedReset ==
    ASSUME NEW c, NEW u \in UpdateT, CorpusOK(c), u.resetRetained
    PROVE  AppliedRows(c, u).retained = u.retained
<1>1. u.retained \in Seq(RowT)
  BY DEF UpdateT
<1> QED BY <1>1 DEF AppliedRows

\* An update brings its buffer, its epoch and its first row.
LEMMA AppliedFields ==
    ASSUME NEW c, NEW u \in UpdateT, CorpusOK(c)
    PROVE  LET a == AppliedRows(c, u)
           IN  a.first = u.first /\ a.buffer = u.buffer /\ a.epoch = u.epoch /\ a.initialized
BY DEF AppliedRows

\* The rows of the buffer of an update: its own, else those that were there.
LEMMA AppliedActive ==
    ASSUME NEW c, NEW u \in UpdateT, CorpusOK(c), Sound(c, u)
    PROVE  LET a == AppliedRows(c, u)
           IN  /\ a.active[u.buffer] \in [Active -> RowT]
               /\ \A r \in DOMAIN u.active : a.active[u.buffer][r] = u.active[r]
               /\ \A r \in Active \ DOMAIN u.active :
                     /\ a.active[u.buffer][r] = c.active[u.buffer][r]
                     /\ ~u.resetActive /\ u.buffer = c.buffer
<1> DEFINE grid == IF u.resetActive THEN [r \in Active |-> Row(None, 0)] ELSE c.active[u.buffer]
<1>1. u.active \in Grids /\ c.active \in [Buffer -> Grids] /\ u.buffer \in Buffer
  BY DEF UpdateT, CorpusOK, CorpusT
<1>2. PICK D \in SUBSET Active : u.active \in [D -> RowT]
  BY <1>1, GridIs
<1>3. DOMAIN grid = Active
  BY DEF Sound, CorpusOK
<1>4. AppliedRows(c, u).active[u.buffer] = Rewritten(grid, u.active)
  BY <1>1 DEF AppliedRows
<1>5. ~u.resetActive => c.active[u.buffer] \in [Active -> RowT]
  <2> SUFFICES ASSUME ~u.resetActive PROVE c.active[u.buffer] \in [Active -> RowT]
    OBVIOUS
  <2>1. DOMAIN c.active[u.buffer] = Active
    BY DEF Sound, CorpusOK
  <2>2. PICK E \in SUBSET Active : c.active[u.buffer] \in [E -> RowT]
    BY <1>1, GridIs
  <2> QED BY <2>1, <2>2
<1>6. \A r \in Active \ DOMAIN u.active : ~u.resetActive /\ u.buffer = c.buffer
  BY DEF Sound
<1>7. \A r \in DOMAIN u.active : Rewritten(grid, u.active)[r] = u.active[r] /\ u.active[r] \in RowT
  BY <1>2, <1>3 DEF Rewritten
<1>8. \A r \in Active \ DOMAIN u.active :
         Rewritten(grid, u.active)[r] = c.active[u.buffer][r] /\ c.active[u.buffer][r] \in RowT
  BY <1>3, <1>5, <1>6 DEF Rewritten
<1>9. Rewritten(grid, u.active) = [r \in Active |-> Rewritten(grid, u.active)[r]]
  BY <1>3 DEF Rewritten
<1>10. \A r \in Active : Rewritten(grid, u.active)[r] \in RowT
  BY <1>7, <1>8
<1> HIDE DEF grid
<1>11. Rewritten(grid, u.active) \in [Active -> RowT]
  BY <1>9, <1>10
<1> QED BY <1>4, <1>6, <1>7, <1>8, <1>11

\* An update that fits a corpus leads to a corpus.
LEMMA AppliedIsCorpus ==
    ASSUME NEW c, NEW u \in UpdateT, CorpusOK(c), Sound(c, u)
    PROVE  CorpusOK(AppliedRows(c, u))
<1> DEFINE a == AppliedRows(c, u)
           g == a.active[u.buffer]
<1>1. a.retained \in Seq(RowT)
  BY RowsKept, AppliedReset DEF UpdateT
<1>2. g \in [Active -> RowT]
  BY AppliedActive
<1>3. g \in Grids
  BY <1>2, GridIs
<1>4. u.buffer \in Buffer /\ u.first \in Nat /\ u.epoch \in Nat /\ c.active \in [Buffer -> Grids]
  BY DEF UpdateT, CorpusOK, CorpusT
<1>5. a.active = [c.active EXCEPT ![u.buffer] = g]
  BY <1>4 DEF AppliedRows
<1>6. a.active \in [Buffer -> Grids]
  BY <1>3, <1>4, <1>5
<1>7. a = [first |-> u.first, retained |-> a.retained, active |-> a.active,
           buffer |-> u.buffer, epoch |-> u.epoch, initialized |-> TRUE]
  BY DEF AppliedRows
<1> HIDE DEF a, g
<1>8. a \in CorpusT
  <2>1. \A rr, ac : rr \in Seq(RowT) /\ ac \in [Buffer -> Grids] =>
           [first |-> u.first, retained |-> rr, active |-> ac,
            buffer |-> u.buffer, epoch |-> u.epoch, initialized |-> TRUE] \in CorpusT
    BY <1>4 DEF CorpusT
  <2> QED BY <1>1, <1>6, <1>7, <2>1, Zenon
<1>9. a.buffer = u.buffer
  BY <1>7
<1> QED BY <1>2, <1>8, <1>9 DEF CorpusOK, a, g

-------------------------------------------------------------------------------
(***************************************************************************)
(* Updates on their way.                                                   *)
(***************************************************************************)
\* Update by update, the updates lead from one corpus to the other.
Reaches(c, us, e) ==
    \E g : /\ g[0] = c /\ g[Len(us)] = e
           /\ \A i \in 1..Len(us) : Sound(g[i - 1], us[i]) /\ g[i] = AppliedRows(g[i - 1], us[i])

\* No updates lead nowhere else.
LEMMA ReachesNothing ==
    ASSUME NEW c, NEW e
    PROVE  Reaches(c, <<>>, e) <=> c = e
<1>1. Reaches(c, <<>>, e) => c = e
  BY DEF Reaches
<1>2. ASSUME c = e PROVE Reaches(c, <<>>, e)
  <2> DEFINE g == [i \in {0} |-> c]
  <2>1. g[0] = c /\ Len(<<>>) = 0 /\ 1..0 = {}
    OBVIOUS
  <2> HIDE DEF g
  <2>2. \A i \in 1..Len(<<>>) : Sound(g[i - 1], <<>>[i]) /\ g[i] = AppliedRows(g[i - 1], <<>>[i])
    BY <2>1
  <2> QED BY <1>2, <2>1, <2>2, Zenon DEF Reaches
<1> QED BY <1>1, <1>2

\* The worker takes the first of the updates.
LEMMA ReachesFirst ==
    ASSUME NEW c, NEW e, NEW S, NEW us \in Seq(S), us # <<>>, Reaches(c, us, e)
    PROVE  Sound(c, Head(us)) /\ Reaches(AppliedRows(c, Head(us)), Tail(us), e)
<1> PICK g : /\ g[0] = c /\ g[Len(us)] = e
             /\ \A i \in 1..Len(us) : Sound(g[i - 1], us[i]) /\ g[i] = AppliedRows(g[i - 1], us[i])
  BY Zenon DEF Reaches
<1> DEFINE n == Len(us)
           h == [i \in 0..(n - 1) |-> g[i + 1]]
<1>1. n \in Nat \ {0} /\ Head(us) = us[1]
  BY EmptySeq
<1>2. /\ Len(Tail(us)) = n - 1
      /\ \A i \in 1..(n - 1) : Tail(us)[i] = us[i + 1]
  BY HeadTailProperties
<1>3. Sound(c, us[1]) /\ g[1] = AppliedRows(c, us[1])
  <2>1. 1 \in 1..Len(us) /\ 1 - 1 = 0
    BY <1>1
  <2> QED BY <2>1
<1>4. h[0] = g[1] /\ h[n - 1] = g[n]
  BY <1>1
<1>5. \A i \in 1..(n - 1) : i + 1 \in 1..n /\ h[i] = g[i + 1] /\ h[i - 1] = g[i] /\ (i + 1) - 1 = i
  BY <1>1
<1> HIDE DEF n, h
<1>6. \A i \in 1..(n - 1) : Sound(h[i - 1], Tail(us)[i]) /\ h[i] = AppliedRows(h[i - 1], Tail(us)[i])
  <2> TAKE i \in 1..(n - 1)
  <2>1. i + 1 \in 1..Len(us) /\ h[i] = g[i + 1] /\ h[i - 1] = g[i] /\ (i + 1) - 1 = i
    BY <1>5 DEF n
  <2>2. Sound(g[(i + 1) - 1], us[i + 1]) /\ g[i + 1] = AppliedRows(g[(i + 1) - 1], us[i + 1])
    BY <2>1, Zenon
  <2> QED BY <1>2, <2>1, <2>2
<1>7. /\ h[0] = AppliedRows(c, Head(us)) /\ h[Len(Tail(us))] = e
      /\ \A i \in 1..Len(Tail(us)) : Sound(h[i - 1], Tail(us)[i]) /\ h[i] = AppliedRows(h[i - 1], Tail(us)[i])
  BY <1>1, <1>2, <1>3, <1>4, <1>6 DEF n
<1> QED BY <1>1, <1>3, <1>7, Zenon DEF Reaches

\* The session queues one update more.
LEMMA ReachesLast ==
    ASSUME NEW c, NEW e, NEW S, NEW us \in Seq(S), NEW u \in S, Reaches(c, us, e), Sound(e, u)
    PROVE  Reaches(c, Append(us, u), AppliedRows(e, u))
<1> PICK g : /\ g[0] = c /\ g[Len(us)] = e
             /\ \A i \in 1..Len(us) : Sound(g[i - 1], us[i]) /\ g[i] = AppliedRows(g[i - 1], us[i])
  BY Zenon DEF Reaches
<1> DEFINE n == Len(us)
           h == [i \in 0..(n + 1) |-> IF i <= n THEN g[i] ELSE AppliedRows(e, u)]
           vs == Append(us, u)
<1>1. /\ n \in Nat /\ Len(vs) = n + 1 /\ vs[n + 1] = u
      /\ \A i \in 1..n : vs[i] = us[i]
  BY AppendProperties
<1>2. h[0] = g[0] /\ h[n] = g[n] /\ h[n + 1] = AppliedRows(e, u)
  BY <1>1
<1>3. \A i \in 1..n : h[i] = g[i] /\ h[i - 1] = g[i - 1]
  BY <1>1
<1> HIDE DEF h, vs
<1>4. \A i \in 1..n : Sound(h[i - 1], vs[i]) /\ h[i] = AppliedRows(h[i - 1], vs[i])
  BY <1>1, <1>3
<1>5. Sound(h[n], vs[n + 1]) /\ h[n + 1] = AppliedRows(h[n], vs[n + 1])
  BY <1>1, <1>2
<1>6. \A i \in 1..(n + 1) : Sound(h[i - 1], vs[i]) /\ h[i] = AppliedRows(h[i - 1], vs[i])
  <2> TAKE i \in 1..(n + 1)
  <2>1. CASE i = n + 1
    <3>1. i - 1 = n
      BY <1>1, <2>1
    <3> QED BY <1>5, <2>1, <3>1
  <2>2. CASE i # n + 1
    <3>1. i \in 1..n
      BY <1>1, <2>2
    <3> QED BY <1>4, <3>1
  <2> QED BY <2>1, <2>2
<1>7. h[0] = c /\ h[Len(vs)] = AppliedRows(e, u)
  BY <1>1, <1>2
<1>8. \A i \in 1..Len(vs) : Sound(h[i - 1], vs[i]) /\ h[i] = AppliedRows(h[i - 1], vs[i])
  BY <1>1, <1>6
<1> QED BY <1>7, <1>8, Zenon DEF Reaches, vs

-----------------------------------------------------------------------------
\* What the session may publish next: what the four callers of Publish give it.
Publishable(new, dirty, resetRetained, rescan) ==
    /\ new \in SourceT /\ dirty \in SUBSET Active /\ resetRetained \in BOOLEAN /\ rescan \in BOOLEAN
    /\ ~rescan => /\ new.buffer = source.buffer /\ new.epoch = source.epoch
                  /\ \A r \in Active \ dirty :
                        new.active[source.buffer][r] = source.active[source.buffer][r]
    /\ rescan => new.epoch # source.epoch
    /\ ~resetRetained =>
         LET end == source.first + Len(source.retained)
             newEnd == new.first + Len(new.retained)
         IN  /\ source.first <= new.first
             /\ new.first <= end => \A i \in 1..(end - new.first) :
                                       new.retained[i] = source.retained[new.first - source.first + i]
             /\ new.buffer # "PRIMARY" => newEnd = end

\* What the update of new rows is: when it resets, and which rows it carries.
LEMMA UpdateHas ==
    ASSUME NEW new, NEW dirty, NEW rr, NEW rs, Publishable(new, dirty, rr, rs),
           source \in SourceT, queued \in BOOLEAN
    PROVE  LET u == UpdateFor(new, dirty, rr, rs)
               end == source.first + Len(source.retained)
               newEnd == new.first + Len(new.retained)
               reset == rr \/ ~queued \/ newEnd < end \/ new.first > end
           IN  /\ u \in UpdateT
               /\ u.buffer = new.buffer /\ u.epoch = new.epoch /\ u.first = new.first
               /\ u.end = newEnd
               /\ u.resetRetained = reset
               /\ u.resetActive = (reset \/ rs)
               /\ u.rescan = rs
               /\ DOMAIN u.active = IF reset \/ rs THEN Active ELSE dirty
               /\ \A r \in DOMAIN u.active : u.active[r] = new.active[new.buffer][r]
               /\ reset => u.retained = new.retained
               /\ ~reset => /\ Len(u.retained) = newEnd - end
                            /\ \A i \in 1..(newEnd - end) : u.retained[i] = new.retained[end - new.first + i]
<1> DEFINE end == source.first + Len(source.retained)
           newEnd == new.first + Len(new.retained)
           reset == rr \/ ~queued \/ newEnd < end \/ new.first > end
           from == IF reset \/ end <= new.first THEN 0 ELSE end - new.first
           rows == IF reset \/ rs THEN Active ELSE dirty
           act == [r \in rows |-> new.active[new.buffer][r]]
           ret == SubSeq(new.retained, from + 1, Len(new.retained))
           u == UpdateFor(new, dirty, rr, rs)
<1>1. /\ new.buffer \in Buffer /\ new.epoch \in Nat /\ new.first \in Nat /\ new.retained \in Seq(RowT)
      /\ new.active \in [Buffer -> [Active -> RowT]]
      /\ source.first \in Nat /\ source.retained \in Seq(RowT)
      /\ dirty \in SUBSET Active /\ rr \in BOOLEAN /\ rs \in BOOLEAN
  BY DEF Publishable, SourceT
<1>2. Len(new.retained) \in Nat /\ Len(source.retained) \in Nat
  BY <1>1
<1>3. (reset \/ rs \/ new.buffer # source.buffer \/ new.epoch # source.epoch) <=> (reset \/ rs)
  BY DEF Publishable
<1>4. u = [buffer |-> new.buffer, epoch |-> new.epoch, first |-> new.first, end |-> newEnd,
           resetRetained |-> reset, resetActive |-> (reset \/ rs), rescan |-> rs,
           retained |-> ret, active |-> act]
  <2>1. (IF reset \/ rs \/ new.buffer # source.buffer \/ new.epoch # source.epoch THEN Active ELSE dirty)
           = rows
    BY <1>3
  <2>2. (reset \/ rs \/ new.buffer # source.buffer \/ new.epoch # source.epoch) = (reset \/ rs)
    BY <1>3
  <2> QED BY <2>1, <2>2, Zenon DEF UpdateFor
<1>5. rows \in SUBSET Active /\ DOMAIN act = rows /\ act \in [rows -> RowT]
  BY <1>1
<1>6. act \in Grids
  <2> HIDE DEF act, rows
  <2> QED BY <1>5, GridIs
<1>7. from \in Nat /\ from <= Len(new.retained) /\ newEnd \in Nat /\ (~reset => from = end - new.first)
  <2>0. newEnd \in Nat /\ end \in Nat
    BY <1>1, <1>2
  <2>1. CASE reset
    BY <1>2, <2>0, <2>1
  <2>2. CASE ~reset
    <3>1. newEnd >= end /\ new.first <= end
      <4> HIDE DEF end, newEnd
      <4> QED BY <1>1, <2>0, <2>2
    <3>2. CASE end <= new.first
      BY <1>1, <1>2, <2>0, <2>2, <3>1, <3>2
    <3>3. CASE ~(end <= new.first)
      <4>1. from = end - new.first
        BY <2>2, <3>3
      <4>2. end - new.first <= Len(new.retained)
        BY <1>1, <1>2, <3>1
      <4> HIDE DEF from
      <4> QED BY <1>1, <1>2, <2>0, <3>3, <4>1, <4>2
    <3> QED BY <3>2, <3>3
  <2> QED BY <2>1, <2>2
<1>8. /\ ret \in Seq(RowT) /\ Len(ret) = Len(new.retained) - from
      /\ \A i \in 1..(Len(new.retained) - from) : ret[i] = new.retained[from + i]
  <2> DEFINE m == from + 1
             n == Len(new.retained)
  <2>1. m \in Nat \ {0} /\ n \in 0..Len(new.retained) /\ m <= n + 1 /\ n - m + 1 = Len(new.retained) - from
    BY <1>2, <1>7
  <2>2. /\ SubSeq(new.retained, m, n) \in Seq(RowT)
        /\ Len(SubSeq(new.retained, m, n)) = n - m + 1
        /\ \A i \in 1..(n - m + 1) : SubSeq(new.retained, m, n)[i] = new.retained[m + i - 1]
    <3> HIDE DEF m, n
    <3> QED BY <1>1, <2>1, SubSeqIs
  <2>3. \A i \in 1..(Len(new.retained) - from) : m + i - 1 = from + i
    BY <1>2, <1>7
  <2>4. ret = SubSeq(new.retained, m, n)
    OBVIOUS
  <2> HIDE DEF m, n, ret, from
  <2> QED BY <2>1, <2>2, <2>3, <2>4
<1>9. reset => ret = new.retained
  <2> SUFFICES ASSUME reset PROVE ret = new.retained
    OBVIOUS
  <2>1. from = 0 /\ Len(new.retained) - from = Len(new.retained)
    BY <1>2
  <2>2. \A i \in 1..Len(new.retained) : from + i = i
    BY <2>1
  <2> HIDE DEF ret, from, reset
  <2>3. Len(ret) = Len(new.retained) /\ \A i \in 1..Len(ret) : ret[i] = new.retained[i]
    BY <1>8, <2>1, <2>2
  <2> QED BY <1>1, <1>8, <2>3, SeqEqual
<1>10. ~reset => /\ Len(ret) = newEnd - end
                 /\ \A i \in 1..(newEnd - end) : ret[i] = new.retained[end - new.first + i]
  <2> SUFFICES ASSUME ~reset PROVE /\ Len(ret) = newEnd - end
                                   /\ \A i \in 1..(newEnd - end) : ret[i] = new.retained[end - new.first + i]
    OBVIOUS
  <2>1. from = end - new.first /\ Len(new.retained) - from = newEnd - end
    BY <1>1, <1>2, <1>7, SMTT(40)
  <2> HIDE DEF ret, from, reset, newEnd, end
  <2> QED BY <1>8, <2>1
<1>11. reset \in BOOLEAN /\ (reset \/ rs) \in BOOLEAN
  OBVIOUS
<1>12. \A r \in rows : act[r] = new.active[new.buffer][r]
  OBVIOUS
<1> HIDE DEF ret, act, rows, from, reset, newEnd, end, u
<1>13. u \in UpdateT
  BY <1>1, <1>4, <1>6, <1>7, <1>8, <1>11 DEF UpdateT
<1>14. /\ u.buffer = new.buffer /\ u.epoch = new.epoch /\ u.first = new.first /\ u.end = newEnd
       /\ u.resetRetained = reset /\ u.resetActive = (reset \/ rs) /\ u.rescan = rs
       /\ u.retained = ret /\ u.active = act
  BY <1>4
<1>15. DOMAIN u.active = IF reset \/ rs THEN Active ELSE dirty
  BY <1>5, <1>14 DEF rows
<1> QED BY <1>5, <1>9, <1>10, <1>12, <1>13, <1>14, <1>15 DEF u, reset, newEnd, end

\* The update of new rows fits what the updates before it lead to, and leads to the new rows.
LEMMA PublishLeads ==
    ASSUME NEW new, NEW dirty, NEW rr, NEW rs, Publishable(new, dirty, rr, rs),
           source \in SourceT, queued \in BOOLEAN,
           NEW e, CorpusOK(e), queued => Synced(e, source)
    PROVE  LET u == UpdateFor(new, dirty, rr, rs)
           IN  u \in UpdateT /\ Sound(e, u) /\ Synced(AppliedRows(e, u), new)
<1> DEFINE end == source.first + Len(source.retained)
           newEnd == new.first + Len(new.retained)
           reset == rr \/ ~queued \/ newEnd < end \/ new.first > end
           u == UpdateFor(new, dirty, rr, rs)
           a == AppliedRows(e, u)
<1>1. /\ u \in UpdateT
      /\ u.buffer = new.buffer /\ u.epoch = new.epoch /\ u.first = new.first
      /\ u.end = newEnd
      /\ u.resetRetained = reset
      /\ u.resetActive = (reset \/ rs)
      /\ u.rescan = rs
      /\ DOMAIN u.active = IF reset \/ rs THEN Active ELSE dirty
      /\ \A r \in DOMAIN u.active : u.active[r] = new.active[new.buffer][r]
      /\ reset => u.retained = new.retained
      /\ ~reset => /\ Len(u.retained) = newEnd - end
                   /\ \A i \in 1..(newEnd - end) : u.retained[i] = new.retained[end - new.first + i]
  <2> HIDE DEF u, reset, end, newEnd
  <2> QED BY UpdateHas DEF u, reset, end, newEnd
<1>2. /\ new.buffer \in Buffer /\ new.epoch \in Nat /\ new.first \in Nat /\ new.retained \in Seq(RowT)
      /\ new.active \in [Buffer -> [Active -> RowT]]
      /\ source.first \in Nat /\ source.retained \in Seq(RowT) /\ source.buffer \in Buffer
      /\ dirty \in SUBSET Active /\ rr \in BOOLEAN /\ rs \in BOOLEAN
  BY DEF Publishable, SourceT
<1>3. /\ Len(new.retained) \in Nat /\ Len(source.retained) \in Nat /\ u.retained \in Seq(RowT)
      /\ newEnd \in Nat /\ end \in Nat
  BY <1>1, <1>2 DEF UpdateT
<1>4. ~reset => /\ queued /\ ~rr /\ end <= newEnd /\ new.first <= end /\ source.first <= new.first
                /\ Synced(e, source)
                /\ \A i \in 1..(end - new.first) : new.retained[i] = source.retained[new.first - source.first + i]
                /\ new.buffer # "PRIMARY" => newEnd = end
  <2> SUFFICES ASSUME ~reset
               PROVE  /\ queued /\ ~rr /\ end <= newEnd /\ new.first <= end /\ source.first <= new.first
                      /\ Synced(e, source)
                      /\ \A i \in 1..(end - new.first) : new.retained[i] = source.retained[new.first - source.first + i]
                      /\ new.buffer # "PRIMARY" => newEnd = end
    OBVIOUS
  <2>1. queued /\ ~rr /\ end <= newEnd /\ new.first <= end
    <3> HIDE DEF end, newEnd
    <3> QED BY <1>2, <1>3
  <2> QED BY <2>1 DEF Publishable
<1>5. Sound(e, u)
  <2>1. ~reset => /\ e.first <= u.first /\ u.first <= e.first + Len(e.retained)
                  /\ u.end = e.first + Len(e.retained) + Len(u.retained)
                  /\ (u.buffer # "PRIMARY" => u.retained = <<>>)
    <3> SUFFICES ASSUME ~reset PROVE /\ e.first <= u.first /\ u.first <= e.first + Len(e.retained)
                                     /\ u.end = e.first + Len(e.retained) + Len(u.retained)
                                     /\ (u.buffer # "PRIMARY" => u.retained = <<>>)
      OBVIOUS
    <3>1. e.first = source.first /\ e.retained = source.retained
      BY <1>4 DEF Synced
    <3>2. Len(u.retained) = newEnd - end
      BY <1>1
    <3> HIDE DEF reset, u
    <3>3. u.buffer # "PRIMARY" => Len(u.retained) = 0
      BY <1>1, <1>3, <1>4, <3>2
    <3>4. u.buffer # "PRIMARY" => u.retained = <<>>
      BY <1>3, <3>3, EmptySeq
    <3> QED BY <1>1, <1>2, <1>3, <1>4, <3>1, <3>2, <3>4
  <2>2. reset => u.end = u.first + Len(u.retained)
    BY <1>1
  <2>3. ~(reset \/ rs) => u.buffer = e.buffer /\ u.epoch = e.epoch
    <3> SUFFICES ASSUME ~(reset \/ rs) PROVE u.buffer = e.buffer /\ u.epoch = e.epoch
      OBVIOUS
    <3>1. e.buffer = source.buffer /\ e.epoch = source.epoch
      BY <1>4 DEF Synced
    <3>2. new.buffer = source.buffer /\ new.epoch = source.epoch
      BY DEF Publishable
    <3> QED BY <1>1, <3>1, <3>2
  <2>4. ~e.initialized => reset
    BY <1>4 DEF Synced
  <2> HIDE DEF reset, u, newEnd
  <2> QED BY <1>1, <2>1, <2>2, <2>3, <2>4 DEF Sound
<1>6. a.active[u.buffer] = new.active[new.buffer]
  <2>1. /\ a.active[u.buffer] \in [Active -> RowT]
        /\ \A r \in DOMAIN u.active : a.active[u.buffer][r] = u.active[r]
        /\ \A r \in Active \ DOMAIN u.active :
              /\ a.active[u.buffer][r] = e.active[u.buffer][r]
              /\ ~u.resetActive /\ u.buffer = e.buffer
    <3> HIDE DEF u
    <3> QED BY <1>1, <1>5, AppliedActive DEF a
  <2>2. \A r \in Active \ DOMAIN u.active : e.active[u.buffer][r] = new.active[new.buffer][r]
    <3> TAKE r \in Active \ DOMAIN u.active
    <3>1. ~(reset \/ rs) /\ r \in Active \ dirty
      <4> HIDE DEF u, reset
      <4> QED BY <1>1, <2>1
    <3>2. e.active[source.buffer] = source.active[source.buffer]
      BY <1>4, <3>1 DEF Synced
    <3>3. new.buffer = source.buffer /\ new.active[source.buffer][r] = source.active[source.buffer][r]
      BY <3>1 DEF Publishable
    <3> QED BY <1>1, <3>2, <3>3
  <2>3. \A r \in Active : a.active[u.buffer][r] = new.active[new.buffer][r]
    <3> HIDE DEF a, u
    <3> QED BY <1>1, <2>1, <2>2
  <2>4. new.active[new.buffer] \in [Active -> RowT]
    BY <1>2
  <2> HIDE DEF a, u
  <2> QED BY <2>1, <2>3, <2>4
<1>7. a.retained = new.retained
  <2>1. CASE reset
    <3>1. a.retained = u.retained
      <4> HIDE DEF u, reset
      <4> QED BY <1>1, <2>1, AppliedReset DEF a
    <3> QED BY <1>1, <2>1, <3>1
  <2>2. CASE ~reset
    <3> DEFINE kept == e.first + Len(e.retained) - u.first
    <3>1. /\ a.retained \in Seq(RowT)
          /\ kept \in Nat
          /\ Len(a.retained) = kept + Len(u.retained)
          /\ \A i \in 1..kept : a.retained[i] = e.retained[u.first - e.first + i]
          /\ \A i \in 1..Len(u.retained) : a.retained[kept + i] = u.retained[i]
      <4>1. u \in UpdateT /\ ~u.resetRetained
        BY <1>1, <2>2
      <4> HIDE DEF u
      <4> QED BY <1>5, <4>1, RowsKept DEF a
    <3>2. e.first = source.first /\ e.retained = source.retained /\ kept = end - new.first
      <4> HIDE DEF u, reset
      <4>1. Synced(e, source)
        BY <1>4, <2>2
      <4>2. e.first = source.first /\ e.retained = source.retained
        BY <4>1 DEF Synced
      <4>3. u.first = new.first
        BY <1>1
      <4> HIDE DEF end
      <4>4. kept = end - new.first
        BY <1>2, <1>3, <4>2, <4>3, SMTT(40) DEF end, kept
      <4> QED BY <4>2, <4>4
    <3>3. Len(a.retained) = Len(new.retained)
      <4> HIDE DEF a, u, kept, reset
      <4> QED BY <1>1, <1>2, <1>3, <2>2, <3>1, <3>2, SMTT(40)
    <3>4. \A i \in 1..kept : a.retained[i] = new.retained[i]
      <4> HIDE DEF a, u, kept, reset
      <4> QED BY <1>1, <1>4, <2>2, <3>1, <3>2
    <3>5. \A i \in 1..Len(u.retained) : a.retained[kept + i] = new.retained[kept + i]
      <4> HIDE DEF a, u, kept, reset, newEnd, end
      <4> QED BY <1>1, <2>2, <3>1, <3>2
    <3>6. \A i \in 1..Len(a.retained) : a.retained[i] = new.retained[i]
      <4> TAKE i \in 1..Len(a.retained)
      <4> HIDE DEF a, u, kept, reset, newEnd, end
      <4>1. CASE i <= kept
        BY <3>1, <3>4, <4>1
      <4>2. CASE ~(i <= kept)
        <5>1. i - kept \in 1..Len(u.retained) /\ kept + (i - kept) = i
          BY <1>3, <3>1, <4>2
        <5> QED BY <3>5, <5>1
      <4> QED BY <4>1, <4>2
    <3> HIDE DEF a
    <3> QED BY <1>2, <3>1, <3>3, <3>6, SeqEqual
  <2> QED BY <2>1, <2>2
<1>8. a.first = u.first /\ a.buffer = u.buffer /\ a.epoch = u.epoch /\ a.initialized
  <2> HIDE DEF u
  <2> QED BY <1>1, AppliedFields DEF a
<1> HIDE DEF a, u
<1>9. Synced(a, new)
  BY <1>1, <1>6, <1>7, <1>8 DEF Synced
<1> QED BY <1>1, <1>5, <1>9 DEF a, u

-------------------------------------------------------------------------------
(***************************************************************************)
(* Matches, row by row.                                                    *)
(***************************************************************************)
\* A row of the active grid, or the retained row of an ordinal, is a match.
ActiveHit(c, q, r, m) ==
    /\ r \in Active /\ Hits(q, c.active[c.buffer][r].text)
    /\ m = Match(TRUE, r, c.active[c.buffer][r].handle)

RetainedHit(c, q, p, m) ==
    /\ p \in Nat /\ c.first < p /\ p <= c.first + Len(c.retained)
    /\ Hits(q, c.retained[p - c.first].text)
    /\ m = Match(FALSE, p, c.retained[p - c.first].handle)

\* The matches a scan finds in the active rows, row by row.
LEMMA ActiveHitsAre ==
    ASSUME NEW c, NEW q, NEW m, DOMAIN c.active[c.buffer] = Active
    PROVE  m \in ActiveHits(c, c.buffer, q) <=> \E r \in Active : ActiveHit(c, q, r, m)
BY DEF ActiveHits, ActiveHit

\* And those in the retained rows.
LEMMA RetainedHitsAre ==
    ASSUME NEW c, NEW q, NEW m, c.first \in Nat, c.retained \in Seq(RowT)
    PROVE  m \in RetainedHits(c, q) <=> \E p \in Nat : RetainedHit(c, q, p, m)
<1>0. DOMAIN c.retained = 1..Len(c.retained) /\ Len(c.retained) \in Nat
  OBVIOUS
<1>1. ASSUME m \in RetainedHits(c, q) PROVE \E p \in Nat : RetainedHit(c, q, p, m)
  <2>1. PICK i \in 1..Len(c.retained) :
           Hits(q, c.retained[i].text) /\ m = Match(FALSE, c.first + i, c.retained[i].handle)
    BY <1>0, <1>1 DEF RetainedHits
  <2>2. c.first + i \in Nat /\ (c.first + i) - c.first = i /\ c.first < c.first + i
        /\ c.first + i <= c.first + Len(c.retained)
    BY <1>0
  <2>3. RetainedHit(c, q, c.first + i, m)
    BY <2>1, <2>2 DEF RetainedHit
  <2> QED BY <2>2, <2>3
<1>2. ASSUME NEW p \in Nat, RetainedHit(c, q, p, m) PROVE m \in RetainedHits(c, q)
  <2>1. p - c.first \in 1..Len(c.retained) /\ c.first + (p - c.first) = p
    BY <1>0, <1>2 DEF RetainedHit
  <2>2. Hits(q, c.retained[p - c.first].text) /\ m = Match(FALSE, c.first + (p - c.first), c.retained[p - c.first].handle)
    BY <1>2, <2>1 DEF RetainedHit
  <2> QED BY <1>0, <2>1, <2>2 DEF RetainedHits
<1> QED BY <1>1, <1>2

\* What a scan finds, row by row.
LEMMA ScanIs ==
    ASSUME NEW c, NEW q, NEW m, DOMAIN c.active[c.buffer] = Active,
           c.first \in Nat, c.retained \in Seq(RowT)
    PROVE  m \in Scan(c, c.buffer, q) <=>
              \/ \E r \in Active : ActiveHit(c, q, r, m)
              \/ c.buffer = "PRIMARY" /\ \E p \in Nat : RetainedHit(c, q, p, m)
BY ActiveHitsAre, RetainedHitsAre DEF Scan

\* Kept, of any corpus and any changes; and with it what an incremental scan finds.
KeptOf(matches, c, ch) ==
    {m \in matches :
        IF m.active THEN ~ch.resetActive /\ m.position \notin ch.active
        ELSE /\ m.position > c.first /\ m.position <= c.first + Len(c.retained)
             /\ m.position \notin ch.retained}

MergedOf(matches, c, ch, q) ==
    KeptOf(matches, c, ch)
      \cup {m \in RetainedHits(c, q) : m.position \in ch.retained}
      \cup {m \in ActiveHits(c, c.buffer, q) : m.position \in ch.active}

\* What an incremental scan keeps and what it finds, row by row.
LEMMA MergedIs ==
    ASSUME NEW matches, NEW c, NEW ch, NEW q, NEW m, DOMAIN c.active[c.buffer] = Active,
           c.first \in Nat, c.retained \in Seq(RowT), ~ch.resetActive
    PROVE  m \in MergedOf(matches, c, ch, q) <=>
              \/ m \in matches /\ m.active /\ m.position \notin ch.active
              \/ m \in matches /\ ~m.active /\ c.first < m.position
                 /\ m.position <= c.first + Len(c.retained) /\ m.position \notin ch.retained
              \/ \E p \in Nat : RetainedHit(c, q, p, m) /\ p \in ch.retained
              \/ \E r \in Active : ActiveHit(c, q, r, m) /\ r \in ch.active
<1>1. (m \in RetainedHits(c, q) /\ m.position \in ch.retained)
         <=> \E p \in Nat : RetainedHit(c, q, p, m) /\ p \in ch.retained
  <2>1. \A p \in Nat : RetainedHit(c, q, p, m) => m.position = p
    BY DEF RetainedHit, Match
  <2> QED BY <2>1, RetainedHitsAre
<1>2. (m \in ActiveHits(c, c.buffer, q) /\ m.position \in ch.active)
         <=> \E r \in Active : ActiveHit(c, q, r, m) /\ r \in ch.active
  <2>1. \A r \in Active : ActiveHit(c, q, r, m) => m.position = r
    BY DEF ActiveHit, Match
  <2> QED BY <2>1, ActiveHitsAre
<1>3. m \in KeptOf(matches, c, ch) <=>
              \/ m \in matches /\ m.active /\ m.position \notin ch.active
              \/ m \in matches /\ ~m.active /\ m.position > c.first
                 /\ m.position <= c.first + Len(c.retained) /\ m.position \notin ch.retained
  BY DEF KeptOf
<1>4. (m.position > c.first) = (c.first < m.position)
  OBVIOUS
<1> QED BY <1>1, <1>2, <1>3, <1>4 DEF MergedOf

\* Where no change asks for a full scan, the update came from the same buffer and only
\* replaced rows and appended some.
LEMMA SmallChange ==
    ASSUME NEW c, NEW ch, NEW u \in UpdateT, CorpusOK(c), Sound(c, u), ~Changes(c, u, ch).rescan
    PROVE  /\ ~ch.rescan /\ c.initialized /\ ~u.resetRetained /\ ~u.resetActive /\ ~u.rescan
           /\ u.buffer = c.buffer /\ u.epoch = c.epoch
<1>1. /\ ~ch.rescan /\ ~u.rescan /\ c.initialized /\ ~u.resetRetained /\ c.buffer = u.buffer
      /\ u.resetActive => c.epoch = u.epoch
  BY DEF Changes
<1> QED BY <1>1 DEF Sound

\* The rows an update leaves alone and those it brings, by their place.
LEMMA SmallRows ==
    ASSUME NEW c, NEW ch, NEW u \in UpdateT, CorpusOK(c), Sound(c, u), ~u.resetRetained, ~u.resetActive,
           NEW q, NEW m
    PROVE  LET a == AppliedRows(c, u)
               end == c.first + Len(c.retained)
           IN  /\ \A r \in Active : r \notin DOMAIN u.active =>
                     (ActiveHit(a, q, r, m) <=> ActiveHit(c, q, r, m))
               /\ \A p \in Nat : u.first < p /\ p <= end =>
                     (RetainedHit(a, q, p, m) <=> RetainedHit(c, q, p, m))
               /\ \A p \in Nat : RetainedHit(a, q, p, m) => u.first < p /\ p <= u.end
               /\ u.end = end + Len(u.retained) /\ c.first <= u.first /\ u.first <= end
<1> DEFINE a == AppliedRows(c, u)
           end == c.first + Len(c.retained)
           kept == end - u.first
<1>1. /\ c.first \in Nat /\ u.first \in Nat /\ c.retained \in Seq(RowT) /\ u.retained \in Seq(RowT)
      /\ Len(c.retained) \in Nat /\ Len(u.retained) \in Nat /\ u.end \in Nat
  BY DEF CorpusOK, CorpusT, UpdateT
<1>2. /\ u.end = end + Len(u.retained) /\ c.first <= u.first /\ u.first <= end
      /\ u.buffer = c.buffer
  BY DEF Sound
<1>3. /\ a.first = u.first /\ a.buffer = u.buffer
  BY AppliedFields
<1>4. /\ a.retained \in Seq(RowT) /\ kept \in Nat /\ Len(a.retained) = kept + Len(u.retained)
      /\ \A i \in 1..kept : a.retained[i] = c.retained[u.first - c.first + i]
  <2>1. /\ AppliedRows(c, u).retained \in Seq(RowT) /\ c.first + Len(c.retained) - u.first \in Nat
        /\ Len(AppliedRows(c, u).retained) = c.first + Len(c.retained) - u.first + Len(u.retained)
        /\ \A i \in 1..(c.first + Len(c.retained) - u.first) :
              AppliedRows(c, u).retained[i] = c.retained[u.first - c.first + i]
    BY RowsKept
  <2>2. end - u.first = c.first + Len(c.retained) - u.first
    BY <1>1
  <2> HIDE DEF end
  <2> QED BY <2>1, <2>2
<1>5. \A r \in Active \ DOMAIN u.active : a.active[u.buffer][r] = c.active[u.buffer][r]
  <2> HIDE DEF a
  <2> QED BY AppliedActive DEF a
<1>e. a.first + Len(a.retained) = u.end
  <2>1. Len(a.retained) = end - u.first + Len(u.retained) /\ a.first = u.first
    BY <1>3, <1>4
  <2> HIDE DEF a
  <2>2. \A n \in Nat : n = end - u.first + Len(u.retained) => u.first + n = u.end
    BY <1>1, <1>2
  <2>3. Len(a.retained) \in Nat
    BY <1>4
  <2> QED BY <2>1, <2>2, <2>3
<1> HIDE DEF a
<1>6. \A r \in Active : r \notin DOMAIN u.active => (ActiveHit(a, q, r, m) <=> ActiveHit(c, q, r, m))
  BY <1>2, <1>3, <1>5 DEF ActiveHit
<1>7. ASSUME NEW p \in Nat, u.first < p, p <= end
      PROVE  RetainedHit(a, q, p, m) <=> RetainedHit(c, q, p, m)
  <2>1. p - a.first \in 1..kept /\ u.first - c.first + (p - a.first) = p - c.first
    BY <1>1, <1>2, <1>3, <1>7
  <2>2. a.retained[p - a.first] = c.retained[p - c.first]
    BY <1>4, <2>1
  <2>3. (a.first < p /\ p <= a.first + Len(a.retained)) /\ (c.first < p /\ p <= c.first + Len(c.retained))
    BY <1>1, <1>2, <1>3, <1>e, <1>7
  <2> QED BY <2>2, <2>3 DEF RetainedHit
<1>8. ASSUME NEW p \in Nat, RetainedHit(a, q, p, m) PROVE u.first < p /\ p <= u.end
  <2>1. a.first < p /\ p <= a.first + Len(a.retained)
    BY <1>8 DEF RetainedHit
  <2> QED BY <1>3, <1>e, <2>1
<1> QED BY <1>2, <1>6, <1>7, <1>8 DEF a

\* A match: in the active rows or not, its place and the handle of its row.
MatchT == [active : BOOLEAN, position : Nat, handle : Nat]

\* What is kept of the matches and what is looked at again are the matches, as long as
\* no change asks for a full scan.
LEMMA MergeGoesOn ==
    ASSUME NEW c, NEW ch, NEW u \in UpdateT, NEW q, NEW matches \in SUBSET MatchT, CorpusOK(c), Sound(c, u),
           ~Changes(c, u, ch).rescan, ~ch.resetActive,
           c.buffer # "PRIMARY" => ch.retained = {},
           MergedOf(matches, c, ch, q) = Scan(c, c.buffer, q)
    PROVE  LET a == AppliedRows(c, u)
               next == Changes(c, u, ch)
           IN  /\ ~next.resetActive
               /\ a.buffer # "PRIMARY" => next.retained = {}
               /\ MergedOf(matches, a, next, q) = Scan(a, a.buffer, q)
<1> DEFINE a == AppliedRows(c, u)
           next == Changes(c, u, ch)
           end == c.first + Len(c.retained)
<1>1. /\ c.initialized /\ ~u.resetRetained /\ ~u.resetActive /\ u.buffer = c.buffer
  BY SmallChange
<1>2. /\ next.active = ch.active \cup DOMAIN u.active
      /\ next.retained = ch.retained \cup {u.end - i + 1 : i \in 1..Len(u.retained)}
      /\ ~next.resetActive
  BY <1>1 DEF Changes
<1>3. /\ c.first \in Nat /\ u.first \in Nat /\ c.retained \in Seq(RowT) /\ u.retained \in Seq(RowT)
      /\ Len(c.retained) \in Nat /\ Len(u.retained) \in Nat /\ u.end \in Nat
  BY DEF CorpusOK, CorpusT, UpdateT
<1>4. u.end = end + Len(u.retained) /\ c.first <= u.first /\ u.first <= end
  BY <1>1 DEF Sound
<1>5. \A p \in Nat : p \in {u.end - i + 1 : i \in 1..Len(u.retained)} <=> end < p /\ p <= u.end
  <2> TAKE p \in Nat
  <2>1. ASSUME end < p, p <= u.end PROVE p \in {u.end - i + 1 : i \in 1..Len(u.retained)}
    <3>0. end \in Nat
      BY <1>3
    <3> HIDE DEF end
    <3>1. u.end - p + 1 \in 1..Len(u.retained) /\ u.end - (u.end - p + 1) + 1 = p
      BY <1>3, <1>4, <2>1, <3>0
    <3> QED BY <3>1
  <2> QED BY <1>3, <1>4, <2>1, SMTT(40)
<1>6. u.retained = <<>> => {u.end - i + 1 : i \in 1..Len(u.retained)} = {}
  OBVIOUS
<1>7. a.buffer = c.buffer /\ a.first = u.first /\ CorpusOK(a) /\ a.initialized
  BY <1>1, AppliedFields, AppliedIsCorpus
<1>8. a.buffer # "PRIMARY" => next.retained = {}
  BY <1>1, <1>2, <1>6, <1>7 DEF Sound
<1>9. /\ DOMAIN c.active[c.buffer] = Active /\ DOMAIN a.active[a.buffer] = Active
      /\ a.first \in Nat /\ a.retained \in Seq(RowT)
  BY <1>1, <1>7 DEF CorpusOK, CorpusT
<1>10. a.first + Len(a.retained) = u.end
  <2>1. \A n \in Nat : n = c.first + Len(c.retained) - u.first + Len(u.retained) => u.first + n = u.end
    BY <1>3, <1>4, SMTT(40)
  <2>2. Len(a.retained) = c.first + Len(c.retained) - u.first + Len(u.retained)
    BY <1>1, RowsKept
  <2>3. Len(a.retained) \in Nat /\ a.first = u.first
    BY <1>7, <1>9
  <2> HIDE DEF a
  <2> QED BY <2>1, <2>2, <2>3
<1> HIDE DEF a, next
<1>11. ASSUME NEW m
       PROVE  m \in MergedOf(matches, a, next, q) <=> m \in Scan(a, a.buffer, q)
  <2>1. m \in Scan(a, a.buffer, q) <=>
              \/ \E r \in Active : ActiveHit(a, q, r, m)
              \/ a.buffer = "PRIMARY" /\ \E p \in Nat : RetainedHit(a, q, p, m)
    BY <1>9, ScanIs
  <2>2. m \in Scan(c, c.buffer, q) <=>
              \/ \E r \in Active : ActiveHit(c, q, r, m)
              \/ c.buffer = "PRIMARY" /\ \E p \in Nat : RetainedHit(c, q, p, m)
    BY <1>3, <1>9, ScanIs
  <2>3. m \in MergedOf(matches, a, next, q) <=>
              \/ m \in matches /\ m.active /\ m.position \notin next.active
              \/ m \in matches /\ ~m.active /\ a.first < m.position
                 /\ m.position <= u.end /\ m.position \notin next.retained
              \/ \E p \in Nat : RetainedHit(a, q, p, m) /\ p \in next.retained
              \/ \E r \in Active : ActiveHit(a, q, r, m) /\ r \in next.active
    BY <1>2, <1>9, <1>10, MergedIs
  <2>4. m \in MergedOf(matches, c, ch, q) <=>
              \/ m \in matches /\ m.active /\ m.position \notin ch.active
              \/ m \in matches /\ ~m.active /\ c.first < m.position
                 /\ m.position <= end /\ m.position \notin ch.retained
              \/ \E p \in Nat : RetainedHit(c, q, p, m) /\ p \in ch.retained
              \/ \E r \in Active : ActiveHit(c, q, r, m) /\ r \in ch.active
    BY <1>3, <1>9, MergedIs
  <2>5. /\ \A r \in Active : r \notin DOMAIN u.active =>
                     (ActiveHit(a, q, r, m) <=> ActiveHit(c, q, r, m))
        /\ \A p \in Nat : u.first < p /\ p <= end =>
                     (RetainedHit(a, q, p, m) <=> RetainedHit(c, q, p, m))
        /\ \A p \in Nat : RetainedHit(a, q, p, m) => u.first < p /\ p <= u.end
    BY <1>1, SmallRows DEF a
  <2>6. \A x, r : ActiveHit(x, q, r, m) => m.active /\ m.position = r
    BY DEF ActiveHit, Match
  <2>7. \A x, p : RetainedHit(x, q, p, m) => ~m.active /\ m.position = p
    BY DEF RetainedHit, Match
  <2>8. \A p \in Nat : p \in next.retained <=> p \in ch.retained \/ (end < p /\ p <= u.end)
    BY <1>2, <1>5
  <2>9. \A p \in Nat : RetainedHit(c, q, p, m) => p <= end /\ c.first < p
    BY DEF RetainedHit
  <2>10. m \in MergedOf(matches, c, ch, q) <=> m \in Scan(c, c.buffer, q)
    OBVIOUS
  <2> HIDE DEF end
  <2>11. ASSUME m \in MergedOf(matches, a, next, q) PROVE m \in Scan(a, a.buffer, q)
    <3>1. CASE \E r \in Active : ActiveHit(a, q, r, m) /\ r \in next.active
      BY <2>1, <3>1
    <3>2. CASE \E p \in Nat : RetainedHit(a, q, p, m) /\ p \in next.retained
      BY <1>8, <2>1, <3>2
    <3>3. CASE m \in matches /\ m.active /\ m.position \notin next.active
      <4>1. m \in Scan(c, c.buffer, q)
        BY <1>2, <2>4, <2>10, <3>3
      <4>2. PICK r \in Active : ActiveHit(c, q, r, m)
        BY <2>2, <2>7, <3>3, <4>1
      <4>3. r \notin DOMAIN u.active
        BY <1>2, <2>6, <3>3, <4>2
      <4> QED BY <2>1, <2>5, <4>2, <4>3
    <3>4. CASE m \in matches /\ ~m.active /\ a.first < m.position
               /\ m.position <= u.end /\ m.position \notin next.retained
      <4>0. m.position \in Nat /\ end \in Nat
        BY <1>3, <3>4 DEF MatchT, end
      <4>1. m.position <= end /\ c.first < m.position /\ m.position \notin ch.retained
        <5>1. ~(end < m.position) /\ m.position \notin ch.retained
          BY <2>8, <3>4, <4>0
        <5> QED BY <1>3, <1>4, <1>7, <3>4, <4>0, <5>1
      <4>2. m \in Scan(c, c.buffer, q)
        BY <1>2, <2>4, <2>10, <3>4, <4>1
      <4>3. PICK p \in Nat : RetainedHit(c, q, p, m) /\ c.buffer = "PRIMARY"
        BY <2>2, <2>6, <3>4, <4>2
      <4>4. m.position = p /\ u.first < p /\ p <= end
        BY <1>7, <2>7, <2>9, <3>4, <4>3
      <4> QED BY <1>7, <2>1, <2>5, <4>3, <4>4
    <3> QED BY <2>3, <2>11, <3>1, <3>2, <3>3, <3>4
  <2>12. ASSUME m \in Scan(a, a.buffer, q) PROVE m \in MergedOf(matches, a, next, q)
    <3>1. CASE \E r \in Active : ActiveHit(a, q, r, m)
      <4>1. PICK r \in Active : ActiveHit(a, q, r, m)
        BY <3>1
      <4>2. CASE r \in next.active
        BY <2>3, <4>1, <4>2
      <4>3. CASE r \notin next.active
        <5>1. ActiveHit(c, q, r, m) /\ r \notin ch.active
          BY <1>2, <2>5, <4>1, <4>3
        <5>2. m \in MergedOf(matches, c, ch, q)
          BY <2>2, <2>10, <5>1
        <5>3. m.active /\ m.position = r
          BY <2>6, <5>1
        <5>4. m \in matches
          BY <2>4, <2>6, <2>7, <5>1, <5>2, <5>3
        <5> QED BY <2>3, <4>3, <5>3, <5>4
      <4> QED BY <4>2, <4>3
    <3>2. CASE a.buffer = "PRIMARY" /\ \E p \in Nat : RetainedHit(a, q, p, m)
      <4>1. PICK p \in Nat : RetainedHit(a, q, p, m)
        BY <3>2
      <4>2. CASE p \in next.retained
        BY <2>3, <4>1, <4>2
      <4>3. CASE p \notin next.retained
        <5>1. u.first < p /\ p <= u.end /\ p <= end /\ p \notin ch.retained
          <6>1. u.first < p /\ p <= u.end
            BY <2>5, <4>1
          <6>2. ~(end < p) /\ p \notin ch.retained
            BY <2>8, <4>3, <6>1
          <6> QED BY <1>3, <1>4, <6>1, <6>2 DEF end
        <5>2. RetainedHit(c, q, p, m)
          BY <2>5, <4>1, <5>1
        <5>3. m \in MergedOf(matches, c, ch, q)
          BY <1>7, <2>2, <2>10, <3>2, <5>2
        <5>4. ~m.active /\ m.position = p
          BY <2>7, <5>2
        <5>5. m \in matches
          BY <2>4, <2>6, <2>7, <5>1, <5>3, <5>4
        <5> QED BY <1>7, <2>3, <4>3, <5>1, <5>4, <5>5
      <4> QED BY <4>2, <4>3
    <3> QED BY <2>1, <2>12, <3>1, <3>2
  <2> QED BY <2>11, <2>12
<1> QED BY <1>2, <1>8, <1>11 DEF a, next

-------------------------------------------------------------------------------
(***************************************************************************)
(* What a scan finds in a corpus.                                          *)
(***************************************************************************)
\* A corpus shows a scan what the session published.
LEMMA SyncedScan ==
    ASSUME NEW c, NEW s, NEW q, Synced(c, s)
    PROVE  Scan(c, c.buffer, q) = Scan(s, s.buffer, q)
BY DEF Synced, Scan, ActiveHits, RetainedHits

\* A scan finds matches.
LEMMA ScanHasMatches ==
    ASSUME NEW c, NEW q, CorpusOK(c), c.initialized
    PROVE  Scan(c, c.buffer, q) \in SUBSET MatchT
<1> SUFFICES ASSUME NEW m \in Scan(c, c.buffer, q) PROVE m \in MatchT
  OBVIOUS
<1>1. /\ DOMAIN c.active[c.buffer] = Active /\ c.first \in Nat /\ c.retained \in Seq(RowT)
      /\ c.active[c.buffer] \in Grids
  BY DEF CorpusOK, CorpusT
<1>2. \A r \in Active : c.active[c.buffer][r] \in RowT
  BY <1>1, GridIs
<1>3. \A p \in Nat : c.first < p /\ p <= c.first + Len(c.retained) => c.retained[p - c.first] \in RowT
  <2> TAKE p \in Nat
  <2> HAVE c.first < p /\ p <= c.first + Len(c.retained)
  <2>1. p - c.first \in 1..Len(c.retained)
    BY <1>1
  <2> QED BY <1>1, <2>1
<1>4. \/ \E r \in Active : ActiveHit(c, q, r, m)
      \/ c.buffer = "PRIMARY" /\ \E p \in Nat : RetainedHit(c, q, p, m)
  BY <1>1, ScanIs
<1>5. Active \subseteq Nat
  BY SearchAssumption DEF Active
<1>6. ASSUME NEW r \in Active, ActiveHit(c, q, r, m) PROVE m \in MatchT
  BY <1>2, <1>5, <1>6 DEF ActiveHit, Match, MatchT, RowT
<1>7. ASSUME NEW p \in Nat, RetainedHit(c, q, p, m) PROVE m \in MatchT
  BY <1>3, <1>7 DEF RetainedHit, Match, MatchT, RowT
<1> QED BY <1>4, <1>6, <1>7

\* Nothing changed: what is kept is what was found.
LEMMA NothingChanged ==
    ASSUME NEW c, NEW q, CorpusOK(c), c.initialized
    PROVE  MergedOf(Scan(c, c.buffer, q), c, NoChange, q) = Scan(c, c.buffer, q)
<1> DEFINE S == Scan(c, c.buffer, q)
<1>1. /\ DOMAIN c.active[c.buffer] = Active /\ c.first \in Nat /\ c.retained \in Seq(RowT)
  BY DEF CorpusOK, CorpusT
<1>2. ~NoChange.resetActive /\ NoChange.active = {} /\ NoChange.retained = {}
  BY DEF NoChange
<1>3. S \in SUBSET MatchT
  BY ScanHasMatches
<1>4. ASSUME NEW m PROVE m \in MergedOf(S, c, NoChange, q) <=> m \in S
  <2>1. m \in MergedOf(S, c, NoChange, q) <=>
              \/ m \in S /\ m.active
              \/ m \in S /\ ~m.active /\ c.first < m.position /\ m.position <= c.first + Len(c.retained)
    <3> HIDE DEF S
    <3> QED BY <1>1, <1>2, MergedIs
  <2>2. m \in S => m.active \in BOOLEAN
    BY <1>3 DEF MatchT
  <2>3. m \in S => \/ \E r \in Active : ActiveHit(c, q, r, m)
                   \/ c.buffer = "PRIMARY" /\ \E p \in Nat : RetainedHit(c, q, p, m)
    BY <1>1, ScanIs
  <2>4. \A r \in Active : ActiveHit(c, q, r, m) => m.active
    BY DEF ActiveHit, Match
  <2>5. \A p \in Nat : RetainedHit(c, q, p, m) =>
            ~m.active /\ c.first < m.position /\ m.position <= c.first + Len(c.retained)
    BY DEF RetainedHit, Match
  <2> HIDE DEF S
  <2> QED BY <2>1, <2>2, <2>3, <2>4, <2>5
<1> HIDE DEF S
<1> QED BY <1>4 DEF S

-----------------------------------------------------------------------------
\* An update that is refreshed in place: the corpus it leads to, and the matches.
LEMMA CorpusIs ==
    ASSUME NEW d, NEW f, NEW rt, NEW x, NEW b, NEW e,
           d \in [first : {f}, retained : {rt}, active : {x}, buffer : {b}, epoch : {e}, initialized : {TRUE}]
    PROVE  d = [first |-> f, retained |-> rt, active |-> x, buffer |-> b, epoch |-> e, initialized |-> TRUE]
OBVIOUS

\* An update that resets nothing only rewrites active rows of the corpus.
LEMMA RefreshedCorpus ==
    ASSUME NEW c, NEW u \in UpdateT, CorpusOK(c), Sound(c, u), c.initialized,
           ~u.resetRetained, ~u.rescan, u.retained = <<>>, c.buffer = u.buffer, c.epoch = u.epoch,
           c.first = u.first
    PROVE  /\ ~u.resetActive
           /\ [c EXCEPT !.active[u.buffer] = Rewritten(@, u.active)] = AppliedRows(c, u)
           /\ AppliedRows(c, u).retained = c.retained
<1>1. ~u.resetActive
  BY DEF Sound
<1>2. c.retained \in Seq(RowT) /\ c.first \in Nat
  BY DEF CorpusOK, CorpusT
<1>3. SubSeq(c.retained, u.first - c.first + 1, Len(c.retained)) \o u.retained = c.retained
  <2>1. u.first - c.first + 1 = 1
    BY <1>2
  <2>2. SubSeq(c.retained, 1, Len(c.retained)) = c.retained
    <3>0. Len(c.retained) \in Nat
      BY <1>2
    <3>1. /\ SubSeq(c.retained, 1, Len(c.retained)) \in Seq(RowT)
          /\ Len(SubSeq(c.retained, 1, Len(c.retained))) = Len(c.retained) - 1 + 1
          /\ \A i \in 1..(Len(c.retained) - 1 + 1) :
                SubSeq(c.retained, 1, Len(c.retained))[i] = c.retained[1 + i - 1]
      BY <1>2, <3>0, SubSeqIs
    <3>2. \A i \in 1..Len(c.retained) : 1 + i - 1 = i
      OBVIOUS
    <3> QED BY <1>2, <3>0, <3>1, <3>2, SeqEqual
  <2>3. c.retained \o <<>> = c.retained
    BY <1>2, ConcatEmptySeq
  <2> QED BY <2>1, <2>2, <2>3
<1>4. AppliedRows(c, u) =
        [first |-> c.first, retained |-> c.retained,
         active |-> [c.active EXCEPT ![u.buffer] = Rewritten(c.active[u.buffer], u.active)],
         buffer |-> c.buffer, epoch |-> c.epoch, initialized |-> TRUE]
  BY <1>1, <1>3 DEF AppliedRows
<1>5. c = [first |-> c.first, retained |-> c.retained, active |-> c.active,
           buffer |-> c.buffer, epoch |-> c.epoch, initialized |-> TRUE]
  BY DEF CorpusOK, CorpusT
<1> DEFINE X == [c.active EXCEPT ![u.buffer] = Rewritten(c.active[u.buffer], u.active)]
<1>6. [c EXCEPT !.active[u.buffer] = Rewritten(@, u.active)] = [c EXCEPT !.active = X]
  OBVIOUS
<1> HIDE DEF X
<1>7. [c EXCEPT !.active = X] =
        [first |-> c.first, retained |-> c.retained, active |-> X,
         buffer |-> c.buffer, epoch |-> c.epoch, initialized |-> TRUE]
  <2>1. c \in [first : {c.first}, retained : {c.retained}, active : {c.active},
               buffer : {c.buffer}, epoch : {c.epoch}, initialized : {TRUE}]
    BY <1>5
  <2>2. [c EXCEPT !.active = X] \in [first : {c.first}, retained : {c.retained}, active : {X},
                                     buffer : {c.buffer}, epoch : {c.epoch}, initialized : {TRUE}]
    BY <2>1
  <2> DEFINE d == [c EXCEPT !.active = X]
  <2>3. d \in [first : {c.first}, retained : {c.retained}, active : {X},
               buffer : {c.buffer}, epoch : {c.epoch}, initialized : {TRUE}]
    BY <2>2
  <2> HIDE DEF d
  <2>4. d = [first |-> c.first, retained |-> c.retained, active |-> X,
             buffer |-> c.buffer, epoch |-> c.epoch, initialized |-> TRUE]
    BY <2>3, CorpusIs
  <2> QED BY <2>4 DEF d
<1>8. AppliedRows(c, u).retained = c.retained
  BY <1>4
<1> QED BY <1>1, <1>4, <1>6, <1>7, <1>8 DEF X

\* The matches outside those rows and the matches in them are all there are.
LEMMA RefreshedMatches ==
    ASSUME NEW c, NEW u \in UpdateT, NEW q, NEW matches, CorpusOK(c), Sound(c, u), c.initialized,
           ~u.resetRetained, ~u.rescan, u.retained = <<>>, c.buffer = u.buffer, c.epoch = u.epoch,
           c.first = u.first, matches = Scan(c, c.buffer, q)
    PROVE  LET a == AppliedRows(c, u)
           IN  {m \in matches : ~(m.active /\ m.position \in DOMAIN u.active)}
                 \cup {m \in ActiveHits(a, u.buffer, q) : m.position \in DOMAIN u.active}
               = Scan(a, a.buffer, q)
<1> DEFINE a == AppliedRows(c, u)
           next == Changes(c, u, NoChange)
           kept == {m \in matches : ~(m.active /\ m.position \in DOMAIN u.active)}
           found == {m \in ActiveHits(a, u.buffer, q) : m.position \in DOMAIN u.active}
<1>1. ~u.resetActive
  BY DEF Sound
<1>2. ~next.rescan /\ ~NoChange.resetActive /\ NoChange.retained = {}
  BY <1>1 DEF Changes, NoChange
<1>3. matches \in SUBSET MatchT /\ MergedOf(matches, c, NoChange, q) = Scan(c, c.buffer, q)
  BY ScanHasMatches, NothingChanged
<1>4. ~next.resetActive /\ MergedOf(matches, a, next, q) = Scan(a, a.buffer, q)
  BY <1>2, <1>3, MergeGoesOn
<1>5. next.active = DOMAIN u.active /\ next.retained = {}
  BY <1>1 DEF Changes, NoChange
<1>6. a.buffer = u.buffer /\ CorpusOK(a) /\ a.initialized /\ a.first = u.first
  BY AppliedFields, AppliedIsCorpus
<1>7. /\ DOMAIN a.active[a.buffer] = Active /\ a.first \in Nat /\ a.retained \in Seq(RowT)
      /\ DOMAIN c.active[c.buffer] = Active /\ c.first \in Nat /\ c.retained \in Seq(RowT)
  BY <1>6 DEF CorpusOK, CorpusT
<1>8. a.first = c.first /\ a.retained = c.retained
  BY <1>6, RefreshedCorpus DEF a
<1> HIDE DEF a, next
<1>9. ASSUME NEW m PROVE m \in MergedOf(matches, a, next, q) <=> m \in kept \cup found
  <2>1. m \in MergedOf(matches, a, next, q) <=>
              \/ m \in matches /\ m.active /\ m.position \notin DOMAIN u.active
              \/ m \in matches /\ ~m.active /\ a.first < m.position
                 /\ m.position <= a.first + Len(a.retained)
              \/ \E r \in Active : ActiveHit(a, q, r, m) /\ r \in DOMAIN u.active
    BY <1>4, <1>5, <1>7, MergedIs
  <2>2. m \in found <=> \E r \in Active : ActiveHit(a, q, r, m) /\ r \in DOMAIN u.active
    <3>1. \A r \in Active : ActiveHit(a, q, r, m) => m.position = r
      BY DEF ActiveHit, Match
    <3> QED BY <1>6, <1>7, <3>1, ActiveHitsAre
  <2>3. m \in matches => m.active \in BOOLEAN
    BY <1>3 DEF MatchT
  <2>4. m \in matches /\ ~m.active =>
            a.first < m.position /\ m.position <= a.first + Len(a.retained)
    <3> SUFFICES ASSUME m \in matches, ~m.active
                 PROVE  a.first < m.position /\ m.position <= a.first + Len(a.retained)
      OBVIOUS
    <3>1. PICK p \in Nat : RetainedHit(c, q, p, m)
      <4>1. \A r \in Active : ActiveHit(c, q, r, m) => m.active
        BY DEF ActiveHit, Match
      <4> QED BY <1>7, <4>1, ScanIs
    <3>2. m.position = p /\ c.first < p /\ p <= c.first + Len(c.retained)
      BY <3>1 DEF RetainedHit, Match
    <3> QED BY <1>8, <3>2
  <2> QED BY <2>1, <2>2, <2>3, <2>4
<1> QED BY <1>4, <1>9 DEF a

-------------------------------------------------------------------------------
(***************************************************************************)
(* The inductive invariant: the types, the work, the way from the corpus   *)
(* to the published rows, the valid matches, the result.                   *)
(***************************************************************************)
\* No row has a handle that is not given out yet.
Below(s, h) ==
    /\ \A b \in Buffer : \A r \in Active : s.active[b][r].handle <= h
    /\ \A i \in 1..Len(s.retained) : s.retained[i].handle <= h

\* Each variable has its type; what the worker holds is said with its own part below.
SearchTypes ==
    /\ source \in SourceT /\ handles \in Nat /\ Below(source, handles)
    /\ queued \in BOOLEAN /\ available \in BOOLEAN /\ searching \in BOOLEAN
    /\ closed \in BOOLEAN /\ valid \in BOOLEAN
    /\ query \in Query \cup {NoQuery}
    /\ generation \in Nat /\ revision \in Nat /\ workGeneration \in Nat
    /\ pc \in {"idle", "take", "apply", "discard", "full", "incremental", "merge", "end"}
    /\ updates \in Seq(UpdateT) /\ taken \in Seq(UpdateT)

\* The worker has taken something, and may be scanning the corpus.
Busy == pc \notin {"idle", "take"}
Scanning == pc \in {"apply", "full", "incremental", "merge"}

\* The work that was asked for last, and the one the worker is at.
WorkInv ==
    /\ desired.query = query /\ desired.generation = generation /\ desired.revision = revision
    /\ desired.available = available /\ desired.buffer = source.buffer /\ desired.epoch = source.epoch
    /\ desired.work \in Nat /\ desired.work <= workGeneration
    /\ ~closed => desired.work = workGeneration
    /\ Busy => /\ job.work \in Nat /\ job.work <= workGeneration
               /\ job.work = workGeneration => ~closed /\ job = desired /\ updates = <<>>
    /\ scheduled <=> pc # "idle"
    /\ pc # "apply" => taken = <<>>
    /\ pc = "idle" => updates = <<>> /\ (~closed => anchor = None)
    /\ pc \in {"full", "incremental", "merge"} => job.query # NoQuery /\ job.available
    /\ pc \in {"incremental", "merge"} => /\ workerQuery = job.query /\ workerGeneration = job.generation
                                          /\ valid /\ ~changed.rescan
    /\ pc = "discard" => ~valid /\ (job.query = NoQuery \/ ~job.available)
    /\ closed => updates = <<>>
    /\ available => queued

\* The updates on their way lead from the corpus to what the session published.
ChainInv ==
    ~closed =>
      /\ CorpusOK(corpus)
      /\ \E mid, e : /\ Reaches(corpus, taken, mid) /\ Reaches(mid, updates, e)
                     /\ CorpusOK(e) /\ (queued => Synced(e, source))

\* The result the worker goes on from.
Base == IF pc = "merge" THEN detached ELSE result

\* A valid result is that of the corpus, but for what has changed since.
ValidInv ==
    ~closed =>
      /\ valid => /\ corpus.initialized
                  /\ Base.query = workerQuery /\ Base.generation = workerGeneration
                  /\ Base.matches \in SUBSET MatchT
                  /\ ~Scanning => Base.matches = Scan(corpus, corpus.buffer, workerQuery)
                  /\ ~changed.rescan =>
                        /\ ~changed.resetActive
                        /\ corpus.buffer # "PRIMARY" => changed.retained = {}
                        /\ MergedOf(Base.matches, corpus, changed, workerQuery)
                             = Scan(corpus, corpus.buffer, workerQuery)
      /\ ~Scanning /\ pc # "discard" => changed = NoChange

\* The result is that of the newest query and of the newest rows.
Current == result.generation = generation /\ result.revision = revision

\* The worker knows the query and is at nothing older.
Served ==
    /\ available /\ query # NoQuery /\ workerQuery = query /\ workerGeneration = generation
    /\ pc # "discard"
    /\ Busy => job.generation = generation /\ job.query = query /\ job.available

\* A current result is what a scan of the published rows finds, and what is shown is current.
ResultInv ==
    /\ result.generation \in Nat /\ result.revision \in Nat
    /\ result.generation <= generation /\ result.revision <= revision
    /\ Current => /\ pc \in {"idle", "end"} /\ anchor = None
                  /\ ~closed /\ pc = "end" => job.work = workGeneration
                  /\ result.buffer = source.buffer /\ result.epoch = source.epoch
                  /\ result.matches = Scan(source, source.buffer, query)
    /\ result.generation = generation => Served /\ result.query = query
    /\ Shown => Current
    /\ pc = "end" /\ job.work = workGeneration => Current \/ job.query = NoQuery \/ ~job.available

-----------------------------------------------------------------------------
\* At the start, nothing is published and nothing is asked for.
LEMMA InitialTypes == Init => SearchTypes
<1> SUFFICES ASSUME Init PROVE SearchTypes
  OBVIOUS
<1>1. PICK q \in Query :
        /\ source = [buffer |-> "PRIMARY", epoch |-> 1, first |-> 0, retained |-> <<>>,
                     active |-> [b \in Buffer |-> [r \in Active |-> Row(First, r)]]]
        /\ query = q
        /\ updates = <<[buffer |-> "PRIMARY", epoch |-> 1, first |-> 0, end |-> 0,
                        resetRetained |-> TRUE, resetActive |-> TRUE, rescan |-> FALSE,
                        retained |-> <<>>, active |-> source.active["PRIMARY"]]>>
  BY Zenon DEF Init
<1>2. /\ handles = Rows /\ queued = TRUE /\ available = TRUE /\ searching = TRUE
      /\ closed = FALSE /\ valid = FALSE /\ generation = 1 /\ revision = 1 /\ workGeneration = 2
      /\ pc = "take" /\ taken = <<>>
  BY DEF Init
<1> DEFINE rows == [r \in Active |-> Row(First, r)]
           u == [buffer |-> "PRIMARY", epoch |-> 1, first |-> 0, end |-> 0,
                 resetRetained |-> TRUE, resetActive |-> TRUE, rescan |-> FALSE,
                 retained |-> <<>>, active |-> source.active["PRIMARY"]]
<1>3. Rows \in Nat \ {0} /\ First \in Text
  BY SearchAssumption
<1>4. rows \in [Active -> RowT] /\ \A r \in Active : rows[r].handle <= Rows
  BY <1>3 DEF Active, RowT, Row
<1>5. source.active["PRIMARY"] = rows
  BY <1>1 DEF Buffer
<1>6. rows \in Grids
  <2> HIDE DEF rows
  <2> QED BY <1>4, GridIs
<1>7. <<>> \in Seq(RowT) /\ Len(<<>>) = 0
  OBVIOUS
<1> HIDE DEF rows
<1>8. [b \in Buffer |-> rows] \in [Buffer -> [Active -> RowT]]
  BY <1>4
<1>9. source \in SourceT /\ Below(source, handles)
  <2>1. source = [buffer |-> "PRIMARY", epoch |-> 1, first |-> 0, retained |-> <<>>,
                  active |-> [b \in Buffer |-> rows]]
    BY <1>1 DEF rows
  <2>2. source \in SourceT
    BY <2>1, <1>7, <1>8 DEF SourceT, Buffer
  <2>3. source.active = [b \in Buffer |-> rows] /\ source.retained = <<>>
    BY <2>1
  <2>4. Below(source, handles)
    BY <2>3, <1>2, <1>3, <1>4, <1>7 DEF Below
  <2> QED BY <2>2, <2>4
<1>10. u \in UpdateT
  <2> QED BY <1>5, <1>6, <1>7 DEF UpdateT, Buffer
<1> HIDE DEF u
<1>11. updates \in Seq(UpdateT)
  BY <1>1, <1>10 DEF u
<1>12. taken \in Seq(UpdateT)
  BY <1>2
<1> QED BY <1>1, <1>2, <1>3, <1>9, <1>11, <1>12 DEF SearchTypes

-------------------------------------------------------------------------------
(***************************************************************************)
(* It holds at the start; and what publishing does.                        *)
(***************************************************************************)
\* No work is asked for.
LEMMA InitialWork == Init => WorkInv
<1> SUFFICES ASSUME Init PROVE WorkInv
  OBVIOUS
<1>1. /\ desired = [query |-> query, generation |-> 1, revision |-> 1, buffer |-> "PRIMARY",
                    epoch |-> 1, available |-> TRUE, work |-> 2]
      /\ generation = 1 /\ revision = 1 /\ workGeneration = 2
      /\ available = TRUE /\ queued = TRUE /\ scheduled = TRUE /\ pc = "take" /\ closed = FALSE
      /\ taken = <<>>
  BY DEF Init
<1>2. source.buffer = "PRIMARY" /\ source.epoch = 1
  BY DEF Init
<1> QED BY <1>1, <1>2 DEF WorkInv, Busy

\* No updates are on their way.
LEMMA InitialChain == Init => ChainInv
<1> SUFFICES ASSUME Init PROVE ChainInv
  OBVIOUS
<1>1. /\ source.buffer = "PRIMARY" /\ source.epoch = 1 /\ source.first = 0 /\ source.retained = <<>>
      /\ updates = <<[buffer |-> "PRIMARY", epoch |-> 1, first |-> 0, end |-> 0,
                        resetRetained |-> TRUE, resetActive |-> TRUE, rescan |-> FALSE,
                        retained |-> <<>>, active |-> source.active["PRIMARY"]]>>
      /\ corpus = [first |-> 0, retained |-> <<>>, active |-> [b \in Buffer |-> <<>>],
                   buffer |-> "PRIMARY", epoch |-> 0, initialized |-> FALSE]
      /\ taken = <<>>
  BY DEF Init
<1> DEFINE u == [buffer |-> "PRIMARY", epoch |-> 1, first |-> 0, end |-> 0,
                 resetRetained |-> TRUE, resetActive |-> TRUE, rescan |-> FALSE,
                 retained |-> <<>>, active |-> source.active["PRIMARY"]]
           a == AppliedRows(corpus, u)
<1>2. source \in SourceT /\ updates \in Seq(UpdateT)
  BY InitialTypes DEF SearchTypes
<1>3. u \in UpdateT
  <2> HIDE DEF u
  <2>1. updates = <<u>>
    BY <1>1 DEF u
  <2>2. Head(updates) = u /\ updates # <<>>
    BY <2>1
  <2> QED BY <1>2, <2>2, HeadTailProperties
<1>4. source.active["PRIMARY"] \in [Active -> RowT]
  BY <1>2 DEF SourceT, Buffer
<1>5. CorpusOK(corpus)
  <2>1. <<>> \in [{} -> RowT]
    OBVIOUS
  <2>2. <<>> \in Grids
    BY <2>1, GridIs
  <2>3. [b \in Buffer |-> <<>>] \in [Buffer -> Grids]
    BY <2>2
  <2>4. <<>> \in Seq(RowT)
    OBVIOUS
  <2> DEFINE act == [b \in Buffer |-> <<>>]
  <2>5. corpus = [first |-> 0, retained |-> <<>>, active |-> act,
                  buffer |-> "PRIMARY", epoch |-> 0, initialized |-> FALSE]
    BY <1>1
  <2> HIDE DEF act
  <2>6. corpus \in CorpusT /\ ~corpus.initialized
    BY <2>3, <2>4, <2>5 DEF CorpusT, Buffer, act
  <2> QED BY <2>6 DEF CorpusOK
<1>6. Sound(corpus, u)
  <2>1. DOMAIN u.active = Active /\ Len(<<>>) = 0
    BY <1>4
  <2> QED BY <2>1 DEF Sound
<1>7. Reaches(corpus, taken, corpus) /\ Reaches(corpus, updates, a)
  <2>1. Reaches(corpus, <<>>, corpus)
    BY ReachesNothing
  <2>2. <<>> \in Seq(UpdateT)
    OBVIOUS
  <2> HIDE DEF u, a
  <2>3. Reaches(corpus, Append(<<>>, u), a)
    <3>1. AppliedRows(corpus, u) = a
      BY DEF a
    <3> QED BY <1>3, <1>6, <2>1, <2>2, <3>1, ReachesLast
  <2>4. updates = Append(<<>>, u)
    BY <1>1 DEF u
  <2> QED BY <1>1, <2>1, <2>3, <2>4
<1>8. CorpusOK(a)
  <2> HIDE DEF u
  <2> QED BY <1>3, <1>5, <1>6, AppliedIsCorpus DEF a
<1>9. Synced(a, source)
  <2>1. /\ a.first = u.first /\ a.buffer = u.buffer /\ a.epoch = u.epoch /\ a.initialized
        /\ a.retained = u.retained
    <3>1. u.resetRetained
      OBVIOUS
    <3> HIDE DEF u
    <3> QED BY <1>3, <1>5, <3>1, AppliedFields, AppliedReset DEF a
  <2>2. /\ a.active[u.buffer] \in [Active -> RowT]
        /\ \A r \in DOMAIN u.active : a.active[u.buffer][r] = u.active[r]
    <3> HIDE DEF u
    <3> QED BY <1>3, <1>5, <1>6, AppliedActive DEF a
  <2>3. u.buffer = "PRIMARY" /\ u.active = source.active["PRIMARY"] /\ u.first = 0 /\ u.epoch = 1
        /\ u.retained = <<>>
    OBVIOUS
  <2> HIDE DEF u, a
  <2>4. a.active["PRIMARY"] = source.active["PRIMARY"]
    BY <1>4, <2>2, <2>3
  <2> QED BY <1>1, <2>1, <2>3, <2>4 DEF Synced
<1> HIDE DEF a
<1> QED BY <1>5, <1>7, <1>8, <1>9 DEF ChainInv

\* There is no valid result.
LEMMA InitialValid == Init => ValidInv
BY DEF Init, ValidInv, Scanning

\* There is nothing to show.
LEMMA InitialResult == Init => ResultInv
<1> SUFFICES ASSUME Init PROVE ResultInv
  OBVIOUS
<1>1. result.generation = 0 /\ result.revision = 0
  BY DEF Init, NoResult
<1>2. generation = 1 /\ revision = 1 /\ searching = TRUE /\ pc = "take"
  BY DEF Init
<1> QED BY <1>1, <1>2 DEF ResultInv, Current, Shown

-----------------------------------------------------------------------------
\* What a scan of the rows finds with this handle.
Live(s, q, h) == \E m \in Scan(s, s.buffer, q) : m.handle = h

\* New rows have new handles; and a switch of the buffer is a new epoch.
NewRows(new, rescan) ==
    /\ rescan => new.epoch > source.epoch
    /\ ~rescan => \A h \in Nat : h <= handles => \A q : Live(new, q, h) => Live(source, q, h)

\* What all the actions that publish rows have in common.
Publishing(new, dirty, resetRetained, rescan) ==
    /\ CanChange
    /\ Publish(new, dirty, resetRetained, rescan)
    /\ Publishable(new, dirty, resetRetained, rescan)
    /\ NewRows(new, rescan)
    /\ handles' \in Nat /\ handles' >= handles /\ Below(new, handles')

\* The handles a scan of the rows can find, row by row.
LEMMA LiveIs ==
    ASSUME NEW s \in SourceT, NEW q, NEW h
    PROVE  Live(s, q, h) <=>
              \/ \E r \in Active : /\ Hits(q, s.active[s.buffer][r].text)
                                   /\ s.active[s.buffer][r].handle = h
              \/ /\ s.buffer = "PRIMARY"
                 /\ \E i \in 1..Len(s.retained) : Hits(q, s.retained[i].text) /\ s.retained[i].handle = h
<1>1. s.active[s.buffer] \in [Active -> RowT] /\ DOMAIN s.retained = 1..Len(s.retained)
  BY DEF SourceT
<1>2. (\E m \in ActiveHits(s, s.buffer, q) : m.handle = h)
        <=> \E r \in Active : Hits(q, s.active[s.buffer][r].text) /\ s.active[s.buffer][r].handle = h
  <2>1. DOMAIN s.active[s.buffer] = Active
    BY <1>1
  <2>2. \A m : m \in ActiveHits(s, s.buffer, q) <=> \E r \in Active : ActiveHit(s, q, r, m)
    BY <2>1, ActiveHitsAre
  <2>3. \A m, r : ActiveHit(s, q, r, m) => /\ Hits(q, s.active[s.buffer][r].text)
                                           /\ m.handle = s.active[s.buffer][r].handle
    BY DEF ActiveHit, Match
  <2>4. \A r \in Active : Hits(q, s.active[s.buffer][r].text) =>
            ActiveHit(s, q, r, Match(TRUE, r, s.active[s.buffer][r].handle))
    BY DEF ActiveHit
  <2>5. \A r, x : Match(TRUE, r, x).handle = x
    BY DEF Match
  <2>6. ASSUME NEW m \in ActiveHits(s, s.buffer, q), m.handle = h
        PROVE  \E r \in Active : Hits(q, s.active[s.buffer][r].text) /\ s.active[s.buffer][r].handle = h
    <3>1. PICK r \in Active : ActiveHit(s, q, r, m)
      BY <2>2
    <3> QED BY <2>3, <2>6, <3>1
  <2>7. ASSUME NEW r \in Active, Hits(q, s.active[s.buffer][r].text), s.active[s.buffer][r].handle = h
        PROVE  \E m \in ActiveHits(s, s.buffer, q) : m.handle = h
    <3> DEFINE m == Match(TRUE, r, s.active[s.buffer][r].handle)
    <3>1. ActiveHit(s, q, r, m) /\ m.handle = h
      BY <2>4, <2>5, <2>7
    <3> HIDE DEF m
    <3> QED BY <2>2, <3>1
  <2> QED BY <2>6, <2>7
<1>3. (\E m \in RetainedHits(s, q) : m.handle = h)
        <=> \E i \in 1..Len(s.retained) : Hits(q, s.retained[i].text) /\ s.retained[i].handle = h
  <2> DEFINE m(i) == Match(FALSE, s.first + i, s.retained[i].handle)
  <2>1. \A i : m(i).handle = s.retained[i].handle
    BY DEF Match
  <2>2. RetainedHits(s, q) = {m(i) : i \in {k \in 1..Len(s.retained) : Hits(q, s.retained[k].text)}}
    BY <1>1 DEF RetainedHits
  <2> HIDE DEF m
  <2> QED BY <2>1, <2>2
<1> QED BY <1>2, <1>3 DEF Live, Scan

\* A row is written: its old content was published, the new has a new handle.
LEMMA WriteRowPublishes ==
    ASSUME SearchTypes, WriteRow
    PROVE  \E new, dirty, rr, rs : Publishing(new, dirty, rr, rs)
<1>1. PICK r \in Active, text \in Text :
          Publish([source EXCEPT !.active[source.buffer][r] = Row(text, handles + 1)], {r}, FALSE, FALSE)
  BY DEF WriteRow
<1> DEFINE row == Row(text, handles + 1)
           act == [source.active EXCEPT ![source.buffer] = [source.active[source.buffer] EXCEPT ![r] = row]]
           new == [source EXCEPT !.active[source.buffer][r] = row]
<1>2. source \in SourceT /\ handles \in Nat /\ Below(source, handles)
  BY DEF SearchTypes
<1>3. /\ source.buffer \in Buffer /\ source.active \in [Buffer -> [Active -> RowT]]
      /\ source.retained \in Seq(RowT) /\ source.first \in Nat /\ source.epoch \in Nat
  BY <1>2 DEF SourceT
<1>4. row \in RowT /\ row.handle = handles + 1
  BY <1>2 DEF Row, RowT
<1> HIDE DEF row
<1>5. act \in [Buffer -> [Active -> RowT]]
  BY <1>3, <1>4
<1>6. new = [source EXCEPT !.active = act]
  OBVIOUS
<1>7. /\ act[source.buffer][r] = row
      /\ \A p \in Active : p # r => act[source.buffer][p] = source.active[source.buffer][p]
      /\ \A b \in Buffer : b # source.buffer => act[b] = source.active[b]
  BY <1>3
<1> HIDE DEF act, new
<1>8. /\ new \in SourceT /\ new.buffer = source.buffer /\ new.epoch = source.epoch
      /\ new.first = source.first /\ new.retained = source.retained /\ new.active = act
  BY <1>2, <1>5, <1>6 DEF SourceT
<1>9. Publishable(new, {r}, FALSE, FALSE)
  <2>1. \A p \in Active \ {r} : new.active[source.buffer][p] = source.active[source.buffer][p]
    BY <1>7, <1>8
  <2>2. /\ source.first <= new.first
        /\ source.first + Len(source.retained) = new.first + Len(new.retained)
        /\ \A i : new.retained[i] = source.retained[i]
        /\ new.first - source.first = 0
    BY <1>3, <1>8
  <2>3. \A i \in 1..(source.first + Len(source.retained) - new.first) : new.first - source.first + i = i
    BY <1>3, <2>2
  <2> QED BY <1>8, <2>1, <2>2, <2>3 DEF Publishable
<1>10. NewRows(new, FALSE)
  <2> SUFFICES ASSUME NEW h \in Nat, h <= handles, NEW q, Live(new, q, h) PROVE Live(source, q, h)
    BY DEF NewRows
  <2>1. CASE \E p \in Active : Hits(q, new.active[new.buffer][p].text) /\ new.active[new.buffer][p].handle = h
    <3>1. PICK p \in Active : Hits(q, new.active[new.buffer][p].text) /\ new.active[new.buffer][p].handle = h
      BY <2>1
    <3>2. p # r
      BY <1>2, <1>4, <1>7, <1>8, <3>1
    <3> QED BY <1>2, <1>7, <1>8, <3>1, <3>2, LiveIs
  <2>2. CASE /\ new.buffer = "PRIMARY"
             /\ \E i \in 1..Len(new.retained) : Hits(q, new.retained[i].text) /\ new.retained[i].handle = h
    <3>1. /\ source.buffer = "PRIMARY"
          /\ \E i \in 1..Len(source.retained) : Hits(q, source.retained[i].text) /\ source.retained[i].handle = h
      BY <1>8, <2>2
    <3> QED BY <1>2, <3>1, LiveIs
  <2> QED BY <1>8, <2>1, <2>2, LiveIs
<1>11. handles' = handles + 1 /\ CanChange
  BY DEF WriteRow
<1>12. Below(new, handles')
  <2>1. \A b \in Buffer : \A p \in Active : source.active[b][p].handle <= handles /\ source.active[b][p].handle \in Nat
    BY <1>2, <1>3 DEF Below, RowT
  <2>2. \A b \in Buffer : \A p \in Active : act[b][p] = row \/ act[b][p] = source.active[b][p]
    BY <1>7
  <2>3. \A b \in Buffer : \A p \in Active : new.active[b][p].handle <= handles + 1
    BY <1>2, <1>4, <1>8, <2>1, <2>2
  <2>4. \A i \in 1..Len(source.retained) : source.retained[i].handle <= handles /\ source.retained[i].handle \in Nat
    <3>1. \A i \in 1..Len(source.retained) : source.retained[i] \in RowT
      BY <1>3
    <3> QED BY <1>2, <3>1 DEF Below, RowT
  <2>5. \A i \in 1..Len(new.retained) : new.retained[i].handle <= handles + 1
    BY <1>2, <1>8, <2>4
  <2> QED BY <1>11, <2>3, <2>5 DEF Below
<1>13. Publish(new, {r}, FALSE, FALSE)
  BY <1>1 DEF new, row
<1>14. handles' \in Nat /\ handles' >= handles
  BY <1>2, <1>11
<1>14p. Publishing(new, {r}, FALSE, FALSE)
  BY <1>2, <1>9, <1>10, <1>11, <1>12, <1>13, <1>14 DEF Publishing
<1> QED BY <1>14p, Zenon

\* The retained rows are cleared.
LEMMA ClearHistoryPublishes ==
    ASSUME SearchTypes, ClearHistory
    PROVE  \E new, dirty, rr, rs : Publishing(new, dirty, rr, rs)
<1> DEFINE new == [source EXCEPT !.retained = <<>>, !.first = @ + Len(source.retained)]
<1>1. Publish(new, {}, TRUE, FALSE) /\ CanChange /\ handles' = handles
  BY DEF ClearHistory
<1>2. source \in SourceT /\ handles \in Nat /\ Below(source, handles)
  BY DEF SearchTypes
<1>3. source.retained \in Seq(RowT) /\ source.first \in Nat /\ <<>> \in Seq(RowT)
  BY <1>2 DEF SourceT
<1>4. source.first + Len(source.retained) \in Nat
  BY <1>3
<1>5. /\ new \in SourceT /\ new.buffer = source.buffer /\ new.epoch = source.epoch
      /\ new.retained = <<>> /\ new.active = source.active
  BY <1>2, <1>3, <1>4 DEF SourceT
<1> HIDE DEF new
<1>6. Publishable(new, {}, TRUE, FALSE)
  BY <1>5 DEF Publishable
<1>7. NewRows(new, FALSE)
  <2> SUFFICES ASSUME NEW h \in Nat, h <= handles, NEW q, Live(new, q, h) PROVE Live(source, q, h)
    BY DEF NewRows
  <2>1. Len(new.retained) = 0
    BY <1>5
  <2>2. \E p \in Active : Hits(q, new.active[new.buffer][p].text) /\ new.active[new.buffer][p].handle = h
    BY <1>5, <2>1, LiveIs
  <2> QED BY <1>2, <1>5, <2>2, LiveIs
<1>8. Below(new, handles')
  <2>1. Len(new.retained) = 0
    BY <1>5
  <2> QED BY <1>1, <1>2, <1>5, <2>1 DEF Below
<1>9. handles' \in Nat /\ handles' >= handles
  BY <1>1, <1>2
<1>9p. Publishing(new, {}, TRUE, FALSE)
  BY <1>1, <1>2, <1>6, <1>7, <1>8, <1>9 DEF Publishing
<1> QED BY <1>9p, Zenon

\* The other buffer is shown, in a new epoch.
LEMMA SwitchBufferPublishes ==
    ASSUME SearchTypes, SwitchBuffer
    PROVE  \E new, dirty, rr, rs : Publishing(new, dirty, rr, rs)
<1>1. PICK b \in Buffer \ {source.buffer} :
          Publish([source EXCEPT !.buffer = b, !.epoch = @ + 1], {}, FALSE, TRUE)
  BY DEF SwitchBuffer
<1> DEFINE new == [source EXCEPT !.buffer = b, !.epoch = @ + 1]
<1>2. CanChange /\ handles' = handles
  BY DEF SwitchBuffer
<1>3. source \in SourceT /\ handles \in Nat /\ Below(source, handles)
  BY DEF SearchTypes
<1>4. source.retained \in Seq(RowT) /\ source.first \in Nat /\ source.epoch \in Nat
  BY <1>3 DEF SourceT
<1>5. /\ new \in SourceT /\ new.epoch = source.epoch + 1
      /\ new.first = source.first /\ new.retained = source.retained /\ new.active = source.active
  <2>1. source.epoch + 1 \in Nat /\ b \in Buffer
    BY <1>4
  <2>2. \A x \in Nat, y \in Buffer :
           LET w == [source EXCEPT !.buffer = y, !.epoch = x]
           IN  /\ w \in SourceT /\ w.epoch = x
               /\ w.first = source.first /\ w.retained = source.retained /\ w.active = source.active
    BY <1>3 DEF SourceT
  <2>3. new = [source EXCEPT !.buffer = b, !.epoch = source.epoch + 1]
    BY <1>3 DEF SourceT
  <2> HIDE DEF new
  <2> QED BY <2>1, <2>2, <2>3
<1> HIDE DEF new
<1>6. Publishable(new, {}, FALSE, TRUE)
  <2>1. /\ source.first <= new.first
        /\ source.first + Len(source.retained) = new.first + Len(new.retained)
        /\ \A i : new.retained[i] = source.retained[i]
        /\ new.first - source.first = 0
    BY <1>4, <1>5
  <2>2. \A i \in 1..(source.first + Len(source.retained) - new.first) : new.first - source.first + i = i
    BY <1>4, <2>1
  <2>3. new.epoch # source.epoch
    BY <1>4, <1>5
  <2> QED BY <1>5, <2>1, <2>2, <2>3 DEF Publishable
<1>7. NewRows(new, TRUE)
  BY <1>4, <1>5 DEF NewRows
<1>8. Below(new, handles')
  BY <1>2, <1>3, <1>5 DEF Below
<1>9. Publish(new, {}, FALSE, TRUE)
  BY <1>1 DEF new
<1>10. handles' \in Nat /\ handles' >= handles
  BY <1>2, <1>3
<1>10p. Publishing(new, {}, FALSE, TRUE)
  BY <1>2, <1>3, <1>6, <1>7, <1>8, <1>9, <1>10 DEF Publishing
<1> QED BY <1>10p, Zenon

\* A row scrolls off: the others move, the primary one is retained.
LEMMA ScrollRowPublishes ==
    ASSUME SearchTypes, ScrollRow
    PROVE  \E new, dirty, rr, rs : Publishing(new, dirty, rr, rs)
<1> DEFINE rows == source.active["PRIMARY"]
           kept == Append(source.retained, rows[1])
           lost == IF Len(kept) > RetainedLimit THEN 1 ELSE 0
           ret == SubSeq(kept, lost + 1, Len(kept))
           n == Len(source.retained)
<1>1. PICK text \in Text :
        LET scrolled == [r \in Active |-> IF r < Rows THEN rows[r + 1] ELSE Row(text, handles + 1)]
        IN  Publish([source EXCEPT !.active["PRIMARY"] = scrolled, !.retained = ret, !.first = @ + lost],
                    Active, FALSE, FALSE)
  BY DEF ScrollRow
<1> DEFINE row == Row(text, handles + 1)
           scrolled == [r \in Active |-> IF r < Rows THEN rows[r + 1] ELSE row]
           act == [source.active EXCEPT !["PRIMARY"] = scrolled]
           new == [source EXCEPT !.active["PRIMARY"] = scrolled, !.retained = ret, !.first = @ + lost]
<1>2. source \in SourceT /\ handles \in Nat /\ Below(source, handles)
  BY DEF SearchTypes
<1>3. /\ source.buffer = "PRIMARY" /\ source.active \in [Buffer -> [Active -> RowT]]
      /\ source.retained \in Seq(RowT) /\ source.first \in Nat /\ source.epoch \in Nat
      /\ "PRIMARY" \in Buffer /\ n \in Nat
  BY <1>2 DEF SourceT, Buffer, ScrollRow
<1>4. row \in RowT /\ row.handle = handles + 1
  BY <1>2 DEF Row, RowT
<1>5. Rows \in Nat \ {0} /\ 1 \in Active /\ rows \in [Active -> RowT]
  BY <1>3, SearchAssumption DEF Active
<1>6. /\ kept \in Seq(RowT) /\ Len(kept) = n + 1 /\ kept[n + 1] = rows[1]
      /\ \A i \in 1..n : kept[i] = source.retained[i]
  BY <1>3, <1>5, AppendProperties
<1>7. lost \in {0, 1}
  OBVIOUS
<1> HIDE DEF row, rows, kept, lost
<1>8. /\ ret \in Seq(RowT) /\ Len(ret) = n + 1 - lost
      /\ \A i \in 1..(n + 1 - lost) : ret[i] = kept[lost + i]
  <2> DEFINE a == lost + 1
             b == Len(kept)
  <2>1. a \in Nat \ {0} /\ b \in 0..Len(kept) /\ a <= b + 1 /\ b - a + 1 = n + 1 - lost
    BY <1>3, <1>6, <1>7
  <2>2. /\ SubSeq(kept, a, b) \in Seq(RowT)
        /\ Len(SubSeq(kept, a, b)) = b - a + 1
        /\ \A i \in 1..(b - a + 1) : SubSeq(kept, a, b)[i] = kept[a + i - 1]
    <3> HIDE DEF a, b
    <3> QED BY <1>6, <2>1, SubSeqIs
  <2>3. \A i \in 1..(n + 1 - lost) : a + i - 1 = lost + i
    BY <1>3, <1>7
  <2>4. ret = SubSeq(kept, a, b)
    OBVIOUS
  <2> HIDE DEF a, b, ret, n
  <2> QED BY <2>1, <2>2, <2>3, <2>4
<1>9. /\ scrolled \in [Active -> RowT]
      /\ \A p \in Active : scrolled[p] = row \/ \E s \in Active : scrolled[p] = rows[s]
  <2>1. \A p \in Active : p < Rows => p + 1 \in Active
    BY <1>5 DEF Active
  <2> QED BY <1>4, <1>5, <2>1
<1> HIDE DEF ret, scrolled
<1>10. /\ act \in [Buffer -> [Active -> RowT]] /\ act["PRIMARY"] = scrolled
       /\ \A b \in Buffer : b # "PRIMARY" => act[b] = source.active[b]
  BY <1>3, <1>9
<1>11. new = [source EXCEPT !.active = act, !.retained = ret, !.first = source.first + lost]
  OBVIOUS
<1> HIDE DEF act, new
<1>12. /\ new \in SourceT /\ new.buffer = "PRIMARY" /\ new.epoch = source.epoch
       /\ new.first = source.first + lost /\ new.retained = ret /\ new.active = act
  <2>1. source.first + lost \in Nat
    BY <1>3, <1>7
  <2> QED BY <1>2, <1>3, <1>8, <1>10, <1>11, <2>1 DEF SourceT
\* A row that stays is at its place again.
<1>13. \A i \in 1..(n - lost) : ret[i] = source.retained[lost + i]
  BY <1>3, <1>6, <1>7, <1>8
<1>14. \A i \in 1..Len(ret) : ret[i] = rows[1] \/ \E j \in 1..n : ret[i] = source.retained[j]
  <2> TAKE i \in 1..Len(ret)
  <2>1. i \in 1..(n + 1 - lost) /\ lost + i \in 1..(n + 1)
    BY <1>3, <1>7, <1>8
  <2>2. CASE lost + i = n + 1
    BY <1>6, <1>8, <2>1, <2>2
  <2>3. CASE lost + i # n + 1
    <3>1. lost + i \in 1..n
      BY <1>3, <2>1, <2>3
    <3> QED BY <1>6, <1>8, <2>1, <3>1
  <2> QED BY <2>2, <2>3
<1>15. Publishable(new, Active, FALSE, FALSE)
  <2>1. source.first <= new.first /\ new.first - source.first = lost
    BY <1>3, <1>7, <1>12
  <2>2. \A i \in 1..((source.first + Len(source.retained)) - new.first) :
            new.retained[i] = source.retained[new.first - source.first + i]
    <3>1. (source.first + Len(source.retained)) - new.first = n - lost
      BY <1>3, <1>7, <1>12
    <3> QED BY <1>12, <1>13, <2>1, <3>1
  <2>3. /\ new \in SourceT /\ new.buffer = source.buffer /\ new.epoch = source.epoch
        /\ new.buffer = "PRIMARY" /\ source.first <= new.first
        /\ Active \in SUBSET Active /\ Active \ Active = {}
    BY <1>3, <1>12, <2>1
  <2> HIDE DEF n
  <2> QED BY <2>2, <2>3 DEF Publishable
<1>16. NewRows(new, FALSE)
  <2> SUFFICES ASSUME NEW h \in Nat, h <= handles, NEW q, Live(new, q, h) PROVE Live(source, q, h)
    BY DEF NewRows
  <2>1. CASE \E p \in Active : Hits(q, new.active[new.buffer][p].text) /\ new.active[new.buffer][p].handle = h
    <3>1. PICK p \in Active : Hits(q, scrolled[p].text) /\ scrolled[p].handle = h
      BY <1>10, <1>12, <2>1
    <3>2. scrolled[p] # row
      BY <1>2, <1>4, <3>1
    <3>3. PICK s \in Active : scrolled[p] = rows[s]
      BY <1>9, <3>2
    <3>4. Hits(q, source.active[source.buffer][s].text) /\ source.active[source.buffer][s].handle = h
      BY <1>3, <3>1, <3>3 DEF rows
    <3> QED BY <1>2, <3>4, LiveIs
  <2>2. CASE \E i \in 1..Len(new.retained) : Hits(q, new.retained[i].text) /\ new.retained[i].handle = h
    <3>1. PICK i \in 1..Len(ret) : Hits(q, ret[i].text) /\ ret[i].handle = h
      BY <1>12, <2>2
    <3>2. CASE ret[i] = rows[1]
      <4>1. Hits(q, source.active[source.buffer][1].text) /\ source.active[source.buffer][1].handle = h
        BY <1>3, <3>1, <3>2 DEF rows
      <4> QED BY <1>2, <1>5, <4>1, LiveIs
    <3>3. CASE \E j \in 1..n : ret[i] = source.retained[j]
      BY <1>2, <1>3, <3>1, <3>3, LiveIs
    <3> QED BY <1>14, <3>2, <3>3
  <2> QED BY <1>12, <2>1, <2>2, LiveIs
<1>17. handles' = handles + 1 /\ CanChange
  BY DEF ScrollRow
<1>18. Below(new, handles')
  <2>1. \A b \in Buffer : \A p \in Active : source.active[b][p].handle <= handles /\ source.active[b][p].handle \in Nat
    BY <1>2, <1>3 DEF Below, RowT
  <2>2. \A p \in Active : rows[p].handle <= handles /\ rows[p].handle \in Nat
    BY <1>3, <2>1 DEF rows
  <2>3. \A p \in Active : scrolled[p].handle <= handles + 1
    BY <1>2, <1>4, <1>9, <2>2
  <2>4. \A b \in Buffer : \A p \in Active : new.active[b][p].handle <= handles + 1
    BY <1>2, <1>10, <1>12, <2>1, <2>3
  <2>5. \A i \in 1..n : source.retained[i].handle <= handles /\ source.retained[i].handle \in Nat
    <3>1. \A i \in 1..Len(source.retained) : source.retained[i] \in RowT
      BY <1>3
    <3> QED BY <1>2, <3>1 DEF Below, RowT
  <2>6. \A i \in 1..Len(new.retained) : new.retained[i].handle <= handles + 1
    BY <1>2, <1>5, <1>12, <1>14, <2>2, <2>5
  <2> QED BY <1>17, <2>4, <2>6 DEF Below
<1>19. Publish(new, Active, FALSE, FALSE)
  BY <1>1 DEF new, scrolled, row, ret, kept, rows
<1>20. handles' \in Nat /\ handles' >= handles
  BY <1>2, <1>17
<1>21. Publishing(new, Active, FALSE, FALSE)
  BY <1>15, <1>16, <1>17, <1>18, <1>19, <1>20 DEF Publishing
<1> QED BY <1>21, Zenon

\* The session publishes.
LEMMA Publishes ==
    ASSUME SearchTypes, WriteRow \/ ScrollRow \/ ClearHistory \/ SwitchBuffer
    PROVE  \E new, dirty, rr, rs : Publishing(new, dirty, rr, rs)
BY WriteRowPublishes, ScrollRowPublishes, ClearHistoryPublishes, SwitchBufferPublishes, Zenon

-------------------------------------------------------------------------------
(***************************************************************************)
(* The steps.                                                              *)
(***************************************************************************)
\* A result, with the query, the source and the work it is of.
ResultT == [matches : SUBSET MatchT, query : Query \cup {NoQuery}, generation : Nat, revision : Nat,
            buffer : Buffer, epoch : Nat, current : MatchT \cup {None}, ready : BOOLEAN]

\* Newer work is asked for: what is desired is what the session has by then.
Requested(us) ==
    /\ workGeneration' = workGeneration + 1
    /\ desired' = [query |-> query', generation |-> generation', revision |-> revision',
                   buffer |-> source'.buffer, epoch |-> source'.epoch,
                   available |-> available', work |-> workGeneration']
    /\ updates' = updates \o us /\ scheduled' = TRUE
    /\ pc' = IF scheduled THEN pc ELSE "take"
    /\ UNCHANGED <<closed, owned, result, job, taken, changed, anchor, detached, chosen>>

\* A new query, or no source: what is asked for without an update.
Asking ==
    /\ ~closed /\ Requested(<<>>)
    /\ query' \in Query \cup {NoQuery} /\ available' \in BOOLEAN /\ queued' \in BOOLEAN
    /\ available' => available /\ queued'
    /\ generation' = generation + 1 /\ revision' = revision
    /\ searching' = (available' /\ query' # NoQuery)
    /\ source' \in SourceT /\ source'.buffer = source.buffer /\ source'.epoch = source.epoch
    /\ handles' \in Nat /\ handles' >= handles /\ Below(source', handles')
    /\ queued' => queued /\ source' = source

\* AskQuery asks for newer work.
LEMMA AskQueryIs ==
    ASSUME NEW q, NEW avail, AskQuery(q, avail),
           source'.buffer = source.buffer, source'.epoch = source.epoch
    PROVE  /\ Requested(<<>>) /\ query' = q /\ available' = avail
           /\ generation' = generation + 1 /\ revision' = revision
           /\ searching' = (available' /\ query' # NoQuery)
<1>1. /\ query' = q /\ available' = avail /\ generation' = generation + 1 /\ revision' = revision
      /\ searching' = (avail /\ q # NoQuery) /\ chosen' = chosen
      /\ Request(Desired(q, generation', revision, source, avail), <<>>)
  BY DEF AskQuery
<1>2. Desired(q, generation', revision, source, avail) =
        [query |-> query', generation |-> generation', revision |-> revision',
         buffer |-> source'.buffer, epoch |-> source'.epoch,
         available |-> available', work |-> workGeneration + 1]
  BY <1>1, Zenon DEF Desired
<1>3. Requested(<<>>)
  BY <1>1, <1>2, Zenon DEF Request, Requested
<1> QED BY <1>1, <1>3, Zenon

\* A query, a source that is gone and a change that is not read ask without an update.
LEMMA Asks ==
    ASSUME SearchTypes, available => queued, SetQuery \/ SourceUnavailable \/ WriteUnread
    PROVE  Asking
<1>1. source \in SourceT /\ handles \in Nat /\ Below(source, handles) /\ queued \in BOOLEAN
      /\ available \in BOOLEAN /\ query \in Query \cup {NoQuery}
  BY DEF SearchTypes
<1>c. CanChange => ~closed
  BY DEF CanChange
<1>2. CASE SetQuery
  <2>1. PICK q \in Query \cup {NoQuery} : AskQuery(q, available)
    BY <1>2 DEF SetQuery
  <2>2. CanChange /\ source' = source /\ queued' = queued /\ handles' = handles
    BY <1>2 DEF SetQuery
  <2>3. /\ Requested(<<>>) /\ query' = q /\ available' = available
        /\ generation' = generation + 1 /\ revision' = revision
        /\ searching' = (available' /\ query' # NoQuery)
    BY <2>1, <2>2, AskQueryIs
  <2>4. handles >= handles
    BY <1>1
  <2> QED BY <1>1, <1>c, <2>2, <2>3, <2>4, Zenon DEF Asking
<1>3. CASE SourceUnavailable
  <2>1. CanChange /\ AskQuery(query, FALSE) /\ source' = source /\ handles' = handles
    BY <1>3 DEF SourceUnavailable
  <2>2. queued' \in BOOLEAN /\ (queued' => queued)
    BY <1>1, <1>3 DEF SourceUnavailable
  <2>3. /\ Requested(<<>>) /\ query' = query /\ available' = FALSE
        /\ generation' = generation + 1 /\ revision' = revision
        /\ searching' = (available' /\ query' # NoQuery)
    BY <2>1, AskQueryIs
  <2>4. handles >= handles /\ FALSE \in BOOLEAN
    BY <1>1
  <2>5. ~available' /\ available' \in BOOLEAN
    BY <2>3, <2>4
  <2> QED BY <1>1, <1>c, <2>1, <2>2, <2>3, <2>4, <2>5, Zenon DEF Asking
<1>4. CASE WriteUnread
  <2>1. CanChange /\ AskQuery(query, FALSE) /\ handles' = handles + 1 /\ queued' = FALSE
    BY <1>4 DEF WriteUnread
  <2>2. PICK r \in Active, text \in Text :
          source' = [source EXCEPT !.active[source.buffer][r] = Row(text, handles + 1)]
    BY <1>4 DEF WriteUnread
  <2> DEFINE row == Row(text, handles + 1)
             act == [source.active EXCEPT ![source.buffer] = [source.active[source.buffer] EXCEPT ![r] = row]]
  <2>3. /\ source.buffer \in Buffer /\ source.active \in [Buffer -> [Active -> RowT]]
        /\ source.retained \in Seq(RowT)
    BY <1>1 DEF SourceT
  <2>4. row \in RowT /\ row.handle = handles + 1
    BY <1>1 DEF Row, RowT
  <2>5. source' = [source EXCEPT !.active = act]
    BY <2>2
  <2> HIDE DEF row
  <2>6. act \in [Buffer -> [Active -> RowT]]
    BY <2>3, <2>4
  <2>7. \A b \in Buffer : \A p \in Active : act[b][p] = row \/ act[b][p] = source.active[b][p]
    BY <2>3
  <2> HIDE DEF act
  <2>8. /\ source' \in SourceT /\ source'.buffer = source.buffer /\ source'.epoch = source.epoch
        /\ source'.retained = source.retained /\ source'.active = act
    BY <1>1, <2>5, <2>6 DEF SourceT
  <2>9. Below(source', handles')
    <3>1. \A b \in Buffer : \A p \in Active : source.active[b][p].handle <= handles /\ source.active[b][p].handle \in Nat
      BY <1>1, <2>3 DEF Below, RowT
    <3>2. \A b \in Buffer : \A p \in Active : source'.active[b][p].handle <= handles + 1
      BY <1>1, <2>4, <2>7, <2>8, <3>1
    <3>3. \A i \in 1..Len(source.retained) : source.retained[i].handle <= handles /\ source.retained[i].handle \in Nat
      <4>1. \A i \in 1..Len(source.retained) : source.retained[i] \in RowT
        BY <2>3
      <4> QED BY <1>1, <4>1 DEF Below, RowT
    <3>4. \A i \in 1..Len(source'.retained) : source'.retained[i].handle <= handles + 1
      BY <1>1, <2>8, <3>3
    <3> QED BY <2>1, <3>2, <3>4 DEF Below
  <2> HIDE DEF act
  <2>10. /\ Requested(<<>>) /\ query' = query /\ available' = FALSE
        /\ generation' = generation + 1 /\ revision' = revision
        /\ searching' = (available' /\ query' # NoQuery)
    BY <2>1, <2>8, AskQueryIs
  <2>11. FALSE \in BOOLEAN
    OBVIOUS
  <2>12. ~available' /\ available' \in BOOLEAN
    BY <2>10, <2>11
  <2>13. ~queued' /\ queued' \in BOOLEAN
    <3>1. queued' = FALSE
      BY <2>1
    <3> QED BY <3>1
  <2>14. handles' \in Nat /\ handles' >= handles
    BY <1>1, <2>1
  <2> QED BY <1>1, <1>c, <2>1, <2>8, <2>9, <2>10, <2>12, <2>13, <2>14, Zenon DEF Asking
<1> QED BY <1>2, <1>3, <1>4

-----------------------------------------------------------------------------
\* New rows, and the update that leads to them.
Published(u) ==
    /\ ~closed /\ u \in UpdateT
    /\ \A e : CorpusOK(e) /\ (queued => Synced(e, source)) =>
               Sound(e, u) /\ Synced(AppliedRows(e, u), source')
    /\ source' \in SourceT /\ queued' = TRUE
    /\ handles' \in Nat /\ handles' >= handles /\ Below(source', handles')
    /\ source'.epoch >= source.epoch
    /\ source'.epoch = source.epoch =>
          /\ source'.buffer = source.buffer
          /\ \A h \in Nat : h <= handles => \A q : Live(source', q, h) => Live(source, q, h)
    /\ revision' = revision + 1 /\ available' = TRUE
    /\ UNCHANGED <<query, generation, chosen>>

\* New rows that the worker is asked to search.
Requesting(u) == Published(u) /\ Requested(<<u>>) /\ searching' = (query # NoQuery)

\* New rows that refresh_active_result_in_place looks through on the spot.
InPlace(u) ==
    /\ Published(u) /\ available /\ ~searching /\ query # NoQuery /\ searching' = FALSE
    /\ \E d : /\ d = [query |-> query, generation |-> generation, revision |-> revision',
                      buffer |-> source'.buffer, epoch |-> source'.epoch,
                      available |-> TRUE, work |-> workGeneration + 1]
              /\ CanRefresh(d, u) /\ Refresh(d, u)

\* Whatever is published is searched by the worker or refreshed in place.
LEMMA PublishingIs ==
    ASSUME SearchTypes, NEW new, NEW dirty, NEW rr, NEW rs, Publishing(new, dirty, rr, rs)
    PROVE  \E u : Requesting(u) \/ InPlace(u)
<1> DEFINE u == UpdateFor(new, dirty, rr, rs)
           d == Desired(query, generation, revision + 1, new, TRUE)
           refreshes == available /\ ~searching /\ query # NoQuery /\ CanRefresh(d, u)
<1>1. Publish(new, dirty, rr, rs) /\ ~closed /\ Publishable(new, dirty, rr, rs) /\ NewRows(new, rs)
      /\ handles' \in Nat /\ handles' >= handles /\ Below(new, handles')
  BY DEF Publishing, CanChange
<1>2. /\ source' = new /\ queued' = TRUE /\ revision' = revision + 1 /\ available' = TRUE
      /\ UNCHANGED <<query, generation, chosen>>
      /\ \/ refreshes /\ Refresh(d, u) /\ searching' = FALSE
         \/ ~refreshes /\ Request(d, <<u>>) /\ searching' = (query # NoQuery)
  BY <1>1, Zenon DEF Publish
<1>3. source \in SourceT /\ queued \in BOOLEAN /\ handles \in Nat
  BY DEF SearchTypes
<1>4. u \in UpdateT
  BY <1>1, <1>3, UpdateHas
<1>5. \A e : CorpusOK(e) /\ (queued => Synced(e, source)) => Sound(e, u) /\ Synced(AppliedRows(e, u), new)
  BY <1>1, <1>3, PublishLeads
<1>6. new \in SourceT /\ rs \in BOOLEAN
  BY <1>1, Zenon DEF Publishable
<1>7. ~rs => new.buffer = source.buffer /\ new.epoch = source.epoch
  BY <1>1, Zenon DEF Publishable
<1>8. new.epoch \in Nat /\ source.epoch \in Nat
  BY <1>3, <1>6 DEF SourceT
<1>9. /\ new.epoch >= source.epoch
      /\ new.epoch = source.epoch =>
           /\ new.buffer = source.buffer
           /\ \A h \in Nat : h <= handles => \A q : Live(new, q, h) => Live(source, q, h)
  <2>1. CASE rs
    <3>1. new.epoch > source.epoch
      BY <1>1, <2>1, Zenon DEF NewRows
    <3> QED BY <1>8, <3>1
  <2>2. CASE ~rs
    <3>1. \A h \in Nat : h <= handles => \A q : Live(new, q, h) => Live(source, q, h)
      BY <1>1, <2>2, Zenon DEF NewRows
    <3>2. new.epoch >= source.epoch
      BY <1>7, <1>8, <2>2
    <3> QED BY <1>7, <2>2, <3>1, <3>2, Zenon
  <2> QED BY <2>1, <2>2
<1> HIDE DEF u
<1>10. Published(u)
  BY <1>1, <1>2, <1>4, <1>5, <1>6, <1>9, Zenon DEF Published
<1>11. d = [query |-> query, generation |-> generation, revision |-> revision',
            buffer |-> source'.buffer, epoch |-> source'.epoch,
            available |-> TRUE, work |-> workGeneration + 1]
  BY <1>2, Zenon DEF Desired
<1> HIDE DEF d
<1>12. CASE refreshes /\ Refresh(d, u) /\ searching' = FALSE
  <2>1. InPlace(u)
    BY <1>10, <1>11, <1>12, Zenon DEF InPlace
  <2> QED BY <2>1, Zenon
<1>13. CASE ~refreshes /\ Request(d, <<u>>) /\ searching' = (query # NoQuery)
  <2>1. desired' = d /\ workGeneration' = workGeneration + 1
    BY <1>13 DEF Request
  <2>2. Requested(<<u>>)
    BY <1>2, <1>11, <1>13, <2>1, Zenon DEF Request, Requested
  <2>3. Requesting(u)
    BY <1>10, <1>13, <2>2, Zenon DEF Requesting
  <2> QED BY <2>3, Zenon
<1> QED BY <1>2, <1>12, <1>13, Zenon

\* Nothing the invariant speaks of.
Quiet == UNCHANGED <<session, control, command, owned, result, drain>>

\* Every step is one of these.
LEMMA NextIs ==
    ASSUME SearchTypes, available => queued, [Next]_vars
    PROVE  \/ Asking \/ (\E u : Requesting(u) \/ InPlace(u))
           \/ SelectMatch \/ Close \/ Quiet \/ ProcessCompletion
           \/ Take \/ ApplyUpdate \/ Idle \/ Begin \/ Discard \/ Cancel \/ CommitFull \/ Detach
           \/ CommitIncremental \/ End
<1>1. CASE SetQuery \/ SourceUnavailable \/ WriteUnread
  BY <1>1, Asks, Zenon
<1>2. CASE WriteRow \/ ScrollRow \/ ClearHistory \/ SwitchBuffer
  <2>1. PICK new, dirty, rr, rs : Publishing(new, dirty, rr, rs)
    BY <1>2, Publishes, Zenon
  <2>2. \E u : Requesting(u) \/ InPlace(u)
    BY <2>1, PublishingIs
  <2> QED BY <2>2, Zenon
<1>3. CASE Notify \/ Deliver \/ UNCHANGED vars
  <2>1. Quiet
    BY <1>3 DEF Notify, Deliver, vars, Quiet, session, control, command, owned, drain
  <2> QED BY <2>1, Zenon
<1> QED BY <1>1, <1>2, <1>3, Zenon DEF Next, Change, Completion, WorkerStep

\* Every step keeps the types.
LEMMA TypesStep == SearchTypes /\ WorkInv /\ [Next]_vars => SearchTypes'
<1> SUFFICES ASSUME SearchTypes, WorkInv, [Next]_vars PROVE SearchTypes'
  OBVIOUS
<1>0. available => queued
  BY DEF WorkInv
<1>1. ASSUME NEW us \in Seq(UpdateT), Requested(us)
      PROVE  /\ workGeneration' \in Nat /\ updates' \in Seq(UpdateT)
             /\ pc' \in {"idle", "take", "apply", "discard", "full", "incremental", "merge", "end"}
             /\ closed' = closed /\ valid' = valid /\ taken' = taken
  BY <1>1 DEF Requested, owned, SearchTypes
<1>2. CASE Asking
  <2>1. <<>> \in Seq(UpdateT) /\ Requested(<<>>)
    BY <1>2 DEF Asking
  <2>2. searching' \in BOOLEAN
    BY <1>2 DEF Asking
  <2>3. generation' \in Nat /\ revision' \in Nat
    BY <1>2 DEF Asking, SearchTypes
  <2>4. /\ workGeneration' \in Nat /\ updates' \in Seq(UpdateT)
        /\ pc' \in {"idle", "take", "apply", "discard", "full", "incremental", "merge", "end"}
        /\ closed' = closed /\ valid' = valid /\ taken' = taken
    BY <1>1, <2>1
  <2> QED BY <1>2, <2>2, <2>3, <2>4, Zenon DEF Asking, SearchTypes
<1>3. ASSUME NEW u, Requesting(u) PROVE SearchTypes'
  <2>1. Published(u) /\ Requested(<<u>>) /\ searching' = (query # NoQuery)
    BY <1>3 DEF Requesting
  <2>2. <<u>> \in Seq(UpdateT)
    BY <2>1 DEF Published
  <2>3. searching' \in BOOLEAN
    BY <2>1
  <2>4. generation' \in Nat /\ revision' \in Nat
    BY <2>1 DEF Published, SearchTypes
  <2>5. /\ workGeneration' \in Nat /\ updates' \in Seq(UpdateT)
        /\ pc' \in {"idle", "take", "apply", "discard", "full", "incremental", "merge", "end"}
        /\ closed' = closed /\ valid' = valid /\ taken' = taken
    BY <1>1, <2>1, <2>2
  <2>6. TRUE \in BOOLEAN
    OBVIOUS
  <2> QED BY <2>1, <2>3, <2>4, <2>5, <2>6, Zenon DEF Published, SearchTypes
<1>4. ASSUME NEW u, InPlace(u) PROVE SearchTypes'
  <2>1. Published(u) /\ searching' = FALSE
    BY <1>4 DEF InPlace
  <2>2. PICK d : /\ d = [query |-> query, generation |-> generation, revision |-> revision',
                         buffer |-> source'.buffer, epoch |-> source'.epoch,
                         available |-> TRUE, work |-> workGeneration + 1]
                 /\ Refresh(d, u)
    BY <1>4, Zenon DEF InPlace
  <2>3. /\ workGeneration' = d.work /\ d.work = workGeneration + 1
        /\ UNCHANGED <<updates, closed, valid, pc, taken>>
    BY <2>2 DEF Refresh, drain
  <2>4. generation' \in Nat /\ revision' \in Nat /\ workGeneration' \in Nat
    BY <2>1, <2>3 DEF Published, SearchTypes
  <2>5. TRUE \in BOOLEAN /\ FALSE \in BOOLEAN
    OBVIOUS
  <2> QED BY <2>1, <2>3, <2>4, <2>5, Zenon DEF Published, SearchTypes
<1>5. CASE SelectMatch \/ Quiet
  BY <1>5 DEF SelectMatch, Quiet, session, control, command, owned, drain, SearchTypes
<1>6. CASE Close
  BY <1>6 DEF Close, session, control, owned, drain, SearchTypes
<1>7. CASE ProcessCompletion
  <2>1. searching' \in BOOLEAN
    BY <1>7 DEF ProcessCompletion, SearchTypes
  <2> QED BY <1>7, <2>1, Zenon DEF ProcessCompletion, session, command, owned, drain, SearchTypes
<1>8. CASE Take
  <2>1. UNCHANGED <<session, control, owned, workGeneration, closed>>
    BY <1>8 DEF Take
  <2>2. /\ pc' \in {"idle", "apply"}
        /\ updates' \in {updates, <<>>} /\ taken' \in {taken, updates}
    BY <1>8 DEF Take, Stop
  <2>3. updates' \in Seq(UpdateT) /\ taken' \in Seq(UpdateT)
    <3>1. <<>> \in Seq(UpdateT)
      OBVIOUS
    <3> QED BY <2>2, <3>1, Zenon DEF SearchTypes
  <2> QED BY <2>1, <2>2, <2>3 DEF session, control, owned, SearchTypes
<1>9. CASE ApplyUpdate
  <2>1. taken' = Tail(taken) /\ taken # <<>>
    BY <1>9 DEF ApplyUpdate
  <2>2. taken' \in Seq(UpdateT)
    BY <2>1, HeadTailProperties DEF SearchTypes
  <2> QED BY <1>9, <2>2 DEF ApplyUpdate, session, control, command, SearchTypes
<1>10. CASE Idle \/ Begin \/ Discard
  BY <1>10 DEF Idle, Begin, Discard, session, control, command, owned, SearchTypes
<1>11. CASE Cancel \/ CommitFull
  BY <1>11 DEF Cancel, CommitFull, Commit, session, control, command, owned, SearchTypes
<1>12. CASE CommitIncremental \/ Detach
  BY <1>12 DEF CommitIncremental, Detach, Commit, session, control, command, owned, SearchTypes
<1>13. CASE End
  BY <1>13 DEF End, Done, Stop, session, control, owned, SearchTypes
<1> QED BY <1>0, <1>2, <1>3, <1>4, <1>5, <1>6, <1>7, <1>8, <1>9, <1>10, <1>11, <1>12, <1>13, NextIs, Zenon

\* Every step keeps what the worker knows of the work asked for.
LEMMA WorkStep == SearchTypes /\ WorkInv /\ [Next]_vars => WorkInv'
<1> SUFFICES ASSUME SearchTypes, WorkInv, [Next]_vars PROVE WorkInv'
  OBVIOUS
<1>0. available => queued
  BY DEF WorkInv
<1>1. workGeneration \in Nat
      /\ pc \in {"idle", "take", "apply", "discard", "full", "incremental", "merge", "end"}
  BY DEF SearchTypes
<1>2. ASSUME NEW us, Requested(us), ~closed, available' => queued' PROVE WorkInv'
  <2>1. /\ desired'.query = query' /\ desired'.generation = generation' /\ desired'.revision = revision'
        /\ desired'.available = available' /\ desired'.buffer = source'.buffer
        /\ desired'.epoch = source'.epoch /\ desired'.work = workGeneration'
        /\ workGeneration' = workGeneration + 1
        /\ scheduled' = TRUE /\ pc' = IF scheduled THEN pc ELSE "take"
        /\ UNCHANGED <<closed, valid, workerQuery, workerGeneration, job, taken, changed, anchor>>
    BY <1>2 DEF Requested, owned
  <2>2. pc' # "idle" /\ (pc' # pc => pc' = "take" /\ pc = "idle")
    BY <1>1, <2>1 DEF WorkInv
  <2>3. Busy' => Busy /\ pc' = pc
    BY <2>2 DEF Busy
  <2>4. workGeneration' \in Nat /\ workGeneration' <= workGeneration'
    BY <1>1, <2>1
  <2>5. Busy' => job'.work \in Nat /\ job'.work <= workGeneration' /\ job'.work # workGeneration'
    BY <1>1, <2>1, <2>3 DEF WorkInv
  <2>6. taken' = <<>> \/ pc' = "apply"
    BY <2>1, <2>2 DEF WorkInv
  <2>7. pc' \in {"full", "incremental", "merge", "discard"} => pc' = pc
    BY <2>2
  <2>8. scheduled' <=> pc' # "idle"
    BY <2>1, <2>2
  <2>9. pc' \in {"full", "incremental", "merge"} => job'.query # NoQuery /\ job'.available
    BY <2>1, <2>7 DEF WorkInv
  <2>10. pc' \in {"incremental", "merge"} => /\ workerQuery' = job'.query /\ workerGeneration' = job'.generation
                                             /\ valid' /\ ~changed'.rescan
    BY <2>1, <2>7 DEF WorkInv
  <2>11. pc' = "discard" => ~valid' /\ (job'.query = NoQuery \/ ~job'.available)
    BY <2>1, <2>7 DEF WorkInv
  <2> QED BY <1>2, <2>1, <2>2, <2>4, <2>5, <2>6, <2>8, <2>9, <2>10, <2>11 DEF WorkInv
<1>3. CASE Asking
  BY <1>2, <1>3 DEF Asking
<1>4. ASSUME NEW u, Requesting(u) PROVE WorkInv'
  <2>1. Published(u) /\ Requested(<<u>>)
    BY <1>4 DEF Requesting
  <2>2. ~closed /\ queued' = TRUE
    BY <2>1 DEF Published
  <2> QED BY <1>2, <2>1, <2>2
<1>5. ASSUME NEW u, InPlace(u) PROVE WorkInv'
  <2>1. Published(u)
    BY <1>5 DEF InPlace
  <2>2. PICK d : /\ d = [query |-> query, generation |-> generation, revision |-> revision',
                         buffer |-> source'.buffer, epoch |-> source'.epoch,
                         available |-> TRUE, work |-> workGeneration + 1]
                 /\ CanRefresh(d, u) /\ Refresh(d, u)
    BY <1>5, Zenon DEF InPlace
  <2>3. /\ workGeneration' = workGeneration + 1 /\ desired' = d
        /\ UNCHANGED <<updates, scheduled, closed, valid, workerQuery, workerGeneration, pc, job, taken,
                       changed, anchor>>
    BY <2>2 DEF Refresh, drain
  <2>4. pc = "idle" /\ ~scheduled /\ updates = <<>> /\ taken = <<>> /\ anchor = None /\ ~closed
    BY <1>1, <2>1, <2>2 DEF CanRefresh, WorkInv, Published
  <2>5. workGeneration' \in Nat /\ workGeneration' <= workGeneration'
    BY <1>1, <2>3
  <2>6. query' = query /\ generation' = generation /\ available' = TRUE /\ queued' = TRUE
    BY <2>1 DEF Published
  <2> QED BY <2>2, <2>3, <2>4, <2>5, <2>6 DEF WorkInv, Busy
<1>6. CASE SelectMatch \/ Quiet
  BY <1>6 DEF SelectMatch, Quiet, session, control, command, owned, drain, WorkInv, Busy
<1>7. CASE Close
  <2>1. /\ closed' = TRUE /\ updates' = <<>> /\ workGeneration' = workGeneration + 1
        /\ UNCHANGED <<session, control, desired, scheduled, owned, drain>>
    BY <1>7 DEF Close
  <2>2. desired.work \in Nat /\ desired.work <= workGeneration'
    BY <1>1, <2>1 DEF WorkInv
  <2>3. Busy => job.work \in Nat /\ job.work <= workGeneration' /\ job.work # workGeneration'
    BY <1>1, <2>1 DEF WorkInv
  <2> QED BY <2>1, <2>2, <2>3 DEF session, control, owned, drain, WorkInv, Busy
<1>8. CASE ProcessCompletion
  BY <1>8 DEF ProcessCompletion, session, command, owned, drain, WorkInv, Busy
<1>9. CASE Take
  <2>1. CASE closed
    BY <1>9, <2>1 DEF Take, Stop, session, control, owned, WorkInv, Busy
  <2>2. CASE ~closed
    BY <1>9, <2>2 DEF Take, session, control, owned, WorkInv, Busy
  <2> QED BY <2>1, <2>2
<1>10. CASE ApplyUpdate
  BY <1>10 DEF ApplyUpdate, session, control, command, WorkInv, Busy
<1>11. CASE Idle
  BY <1>11 DEF Idle, session, control, command, WorkInv, Busy
<1>12. CASE Begin
  BY <1>12 DEF Begin, session, control, command, owned, WorkInv, Busy
<1>13. CASE Discard
  BY <1>13 DEF Discard, session, control, command, owned, WorkInv, Busy
<1>14. CASE Cancel
  BY <1>14 DEF Cancel, session, control, command, WorkInv, Busy
<1>15. CASE CommitFull
  BY <1>15 DEF CommitFull, Commit, session, control, command, WorkInv, Busy
<1>16. CASE CommitIncremental
  BY <1>16 DEF CommitIncremental, Commit, session, control, command, WorkInv, Busy
<1>17. CASE Detach
  BY <1>17 DEF Detach, session, control, command, owned, WorkInv, Busy
<1>18. CASE End
  <2>1. UNCHANGED <<session, control, desired, workGeneration, updates, closed, owned, taken, changed>>
    BY <1>18 DEF End
  <2>2. CASE (closed \/ (~Cancelled /\ updates = <<>>)) /\ Done
    <3>1. updates = <<>> /\ pc' = "idle" /\ scheduled' = FALSE /\ anchor' = None /\ taken = <<>>
      BY <1>18, <2>2 DEF Done, Stop, WorkInv, End
    <3> QED BY <2>1, <3>1 DEF session, control, owned, WorkInv, Busy
  <2>3. CASE pc' = "take" /\ UNCHANGED <<scheduled, anchor, job>>
    BY <1>18, <2>1, <2>3 DEF End, session, control, owned, WorkInv, Busy
  <2> QED BY <1>18, <2>2, <2>3 DEF End
<1> QED BY <1>0, <1>3, <1>4, <1>5, <1>6, <1>7, <1>8, <1>9, <1>10, <1>11, <1>12, <1>13, <1>14, <1>15, <1>16,
           <1>17, <1>18, NextIs, Zenon

\* The rows an in-place refresh starts from, and what it leaves.
LEMMA InPlaceIs ==
    ASSUME SearchTypes, WorkInv, ChainInv, ValidInv, NEW u, InPlace(u)
    PROVE  LET matches == Scan(source', source'.buffer, query)
           IN  /\ Published(u) /\ pc = "idle" /\ anchor = None /\ taken = <<>> /\ updates = <<>> /\ ~closed
               /\ available /\ query # NoQuery
               /\ CorpusOK(corpus) /\ Synced(corpus, source) /\ corpus' = AppliedRows(corpus, u)
               /\ CorpusOK(corpus') /\ Synced(corpus', source') /\ corpus'.initialized
               /\ result.query = query /\ result.generation = generation
               /\ workerQuery = query /\ workerGeneration = generation /\ valid /\ changed = NoChange
               /\ desired'.query = query /\ desired'.generation = generation
               /\ desired'.revision = revision' /\ desired'.buffer = source'.buffer
               /\ desired'.epoch = source'.epoch
               /\ \E m \in Currents(matches, result.current) : result' = Finished(matches, desired', m)
               /\ UNCHANGED <<updates, scheduled, closed, valid, workerQuery, workerGeneration, pc, job,
                              taken, changed, anchor, detached>>
<1>1. Published(u) /\ available /\ query # NoQuery
  BY DEF InPlace
<1>2. PICK d : /\ d = [query |-> query, generation |-> generation, revision |-> revision',
                       buffer |-> source'.buffer, epoch |-> source'.epoch,
                       available |-> TRUE, work |-> workGeneration + 1]
               /\ CanRefresh(d, u) /\ Refresh(d, u)
  BY Zenon DEF InPlace
<1>3. /\ ~scheduled /\ updates = <<>> /\ valid /\ ~u.resetRetained /\ ~u.rescan /\ u.retained = <<>>
      /\ corpus.initialized /\ result.query = query /\ result.generation = generation
      /\ corpus.buffer = u.buffer /\ corpus.epoch = u.epoch /\ corpus.first = u.first
  BY <1>2 DEF CanRefresh
<1>4. pc = "idle" /\ anchor = None /\ taken = <<>> /\ ~closed /\ queued
  BY <1>1, <1>3 DEF WorkInv, Published
<1>5. CorpusOK(corpus) /\ Synced(corpus, source)
  <2>1. PICK mid, e : /\ Reaches(corpus, taken, mid) /\ Reaches(mid, updates, e)
                      /\ CorpusOK(e) /\ (queued => Synced(e, source))
    BY <1>4, Zenon DEF ChainInv
  <2>2. corpus = mid /\ mid = e
    BY <1>3, <1>4, <2>1, ReachesNothing
  <2> QED BY <1>4, <2>1, <2>2
<1>6. Sound(corpus, u) /\ Synced(AppliedRows(corpus, u), source') /\ u \in UpdateT
  BY <1>1, <1>5 DEF Published
<1>7. CorpusOK(AppliedRows(corpus, u))
  BY <1>5, <1>6, AppliedIsCorpus
<1>8. /\ result.matches = Scan(corpus, corpus.buffer, workerQuery) /\ workerQuery = query
      /\ workerGeneration = generation /\ changed = NoChange
  <2>1. Base = result /\ ~Scanning /\ pc # "discard"
    BY <1>4 DEF Base, Scanning
  <2>2. /\ Base.query = workerQuery /\ Base.generation = workerGeneration
        /\ Base.matches = Scan(corpus, corpus.buffer, workerQuery) /\ changed = NoChange
    BY <1>3, <1>4, <2>1 DEF ValidInv
  <2> QED BY <1>3, <2>1, <2>2
<1> DEFINE rows == [corpus EXCEPT !.active[u.buffer] = Rewritten(@, u.active)]
           a == AppliedRows(corpus, u)
           unchanged == {m \in result.matches : ~(m.active /\ m.position \in DOMAIN u.active)}
           refreshed == {m \in ActiveHits(a, u.buffer, query) : m.position \in DOMAIN u.active}
<1>9. rows = a
  BY <1>3, <1>5, <1>6, RefreshedCorpus
<1>10. unchanged \cup refreshed = Scan(a, a.buffer, query)
  BY <1>3, <1>5, <1>6, <1>8, RefreshedMatches
<1>11. Scan(a, a.buffer, query) = Scan(source', source'.buffer, query)
  BY <1>6, SyncedScan
<1> DEFINE found == {m \in ActiveHits(rows, u.buffer, d.query) : m.position \in DOMAIN u.active}
<1>12. /\ corpus' = rows /\ workGeneration' = d.work /\ desired' = d
       /\ \E m \in Currents(unchanged \cup found, result.current) : result' = Finished(unchanged \cup found, d, m)
       /\ UNCHANGED <<updates, scheduled, closed, valid, workerQuery, workerGeneration, drain>>
  BY <1>2, Zenon DEF Refresh
<1>13. d.query = query
  BY <1>2
<1>14. found = refreshed
  <2> HIDE DEF rows, a
  <2> QED BY <1>9, <1>13
<1> HIDE DEF rows, a, unchanged, refreshed, found
<1> DEFINE matches == Scan(source', source'.buffer, query)
<1>15. \E m \in Currents(matches, result.current) : result' = Finished(matches, desired', m)
  BY <1>10, <1>11, <1>12, <1>14
<1>16. /\ desired'.query = query /\ desired'.generation = generation /\ desired'.revision = revision'
       /\ desired'.buffer = source'.buffer /\ desired'.epoch = source'.epoch
  BY <1>2, <1>12
<1>17. /\ corpus' = a /\ CorpusOK(a) /\ Synced(a, source')
  BY <1>6, <1>7, <1>9, <1>12 DEF a
<1>18. a.initialized
  BY <1>17 DEF Synced
<1>19. UNCHANGED <<updates, scheduled, closed, valid, workerQuery, workerGeneration, pc, job,
                   taken, changed, anchor, detached>>
  BY <1>12 DEF drain
<1> QED BY <1>1, <1>3, <1>4, <1>5, <1>8, <1>15, <1>16, <1>17, <1>18, <1>19 DEF a

\* What a scan commits, all of the corpus or what is kept of it and what changed: the matches
\* in what the session has published by then.
Committed ==
    /\ ~closed /\ job = desired /\ job.work = workGeneration /\ updates = <<>> /\ taken = <<>>
    /\ available /\ query # NoQuery
    /\ CorpusOK(corpus) /\ Synced(corpus, source)
    /\ LET matches == Scan(source, source.buffer, query)
       IN  \E m \in Currents(matches, anchor) : result' = Finished(matches, job, m)
    /\ valid' = TRUE /\ anchor' = None /\ changed' = NoChange /\ pc' = "end"
    /\ workerQuery' = query /\ workerGeneration' = generation
    /\ detached' \in {detached, NoResult}
    /\ UNCHANGED <<session, control, command, corpus, job, taken>>

\* Both commits leave the matches in what the corpus shows.
LEMMA CommitIs ==
    ASSUME SearchTypes, WorkInv, ChainInv, ValidInv, CommitFull \/ CommitIncremental
    PROVE  Committed
<1>1. pc \in {"full", "merge"} /\ workGeneration = job.work
  BY DEF CommitFull, CommitIncremental, Cancelled
<1>2. /\ ~closed /\ job = desired /\ updates = <<>> /\ taken = <<>>
      /\ job.query # NoQuery /\ job.available
  BY <1>1 DEF WorkInv, Busy
<1>3. /\ job.query = query /\ job.generation = generation /\ job.buffer = source.buffer
      /\ available /\ query # NoQuery /\ queued
  BY <1>2 DEF WorkInv
<1>4. CorpusOK(corpus) /\ Synced(corpus, source)
  <2>1. PICK mid, e : /\ Reaches(corpus, taken, mid) /\ Reaches(mid, updates, e)
                      /\ CorpusOK(e) /\ (queued => Synced(e, source))
    BY <1>2, Zenon DEF ChainInv
  <2>2. corpus = mid /\ mid = e
    BY <1>2, <2>1, ReachesNothing
  <2> QED BY <1>3, <2>1, <2>2
<1>5. corpus.buffer = job.buffer /\ Scan(corpus, job.buffer, job.query) = Scan(source, source.buffer, query)
  BY <1>3, <1>4, SyncedScan DEF Synced
<1>6. PICK matches : matches = Scan(source, source.buffer, query) /\ Commit(matches)
  <2>1. CASE CommitFull
    BY <1>5, <2>1 DEF CommitFull
  <2>2. CASE CommitIncremental
    <3> DEFINE merged == Kept(detached.matches)
              \cup {m \in RetainedHits(corpus, job.query) : m.position \in changed.retained}
              \cup {m \in ActiveHits(corpus, job.buffer, job.query) : m.position \in changed.active}
    <3>1. Commit(merged) /\ pc = "merge"
      BY <2>2 DEF CommitIncremental
    <3>2. valid /\ ~changed.rescan /\ workerQuery = job.query /\ Base = detached
      BY <3>1 DEF WorkInv, Base
    <3>3. MergedOf(detached.matches, corpus, changed, job.query) = Scan(corpus, corpus.buffer, job.query)
      BY <1>2, <3>2 DEF ValidInv
    <3>4. merged = MergedOf(detached.matches, corpus, changed, job.query)
      BY <1>5 DEF MergedOf, KeptOf, Kept
    <3> HIDE DEF merged
    <3> QED BY <1>5, <3>1, <3>3, <3>4
  <2> QED BY <2>1, <2>2
<1>7. /\ \E m \in Currents(matches, anchor) : result' = Finished(matches, job, m)
      /\ valid' = TRUE /\ anchor' = None /\ changed' = NoChange /\ pc' = "end"
      /\ workerQuery' = job.query /\ workerGeneration' = job.generation
  BY <1>6, Zenon DEF Commit
<1>8. UNCHANGED <<session, control, command, corpus, job, taken>> /\ detached' \in {detached, NoResult}
  BY DEF CommitFull, CommitIncremental
<1> QED BY <1>1, <1>2, <1>3, <1>4, <1>6, <1>7, <1>8 DEF Committed

\* Every step keeps the updates a way from the corpus to the published rows.
LEMMA ChainStep == SearchTypes /\ WorkInv /\ ChainInv /\ ValidInv /\ [Next]_vars => ChainInv'
<1> SUFFICES ASSUME SearchTypes, WorkInv, ChainInv, ValidInv, [Next]_vars, ~closed' PROVE ChainInv'
  BY DEF ChainInv
<1>0. (available => queued) /\ updates \in Seq(UpdateT) /\ taken \in Seq(UpdateT)
  BY DEF WorkInv, SearchTypes
\* The rows on their way, while the session is open.
<1>c. ASSUME ~closed
      PROVE  /\ CorpusOK(corpus)
             /\ \E mid, e : /\ Reaches(corpus, taken, mid) /\ Reaches(mid, updates, e)
                            /\ CorpusOK(e) /\ (queued => Synced(e, source))
  BY <1>c, Zenon DEF ChainInv
<1>1. ASSUME UNCHANGED <<corpus, taken, updates, closed>>, (queued' => queued /\ source' = source) PROVE ChainInv'
  <2>1. ~closed
    BY <1>1
  <2>2. PICK mid, e : /\ Reaches(corpus, taken, mid) /\ Reaches(mid, updates, e)
                      /\ CorpusOK(e) /\ (queued => Synced(e, source))
    BY <1>c, <2>1, Zenon
  <2>3. /\ CorpusOK(corpus') /\ Reaches(corpus', taken', mid) /\ Reaches(mid, updates', e)
        /\ CorpusOK(e) /\ (queued' => Synced(e, source'))
    BY <1>1, <1>c, <2>1, <2>2
  <2> QED BY <2>3, Zenon DEF ChainInv
<1>2. CASE Asking
  <2>1. Requested(<<>>) /\ (queued' => queued /\ source' = source)
    BY <1>2 DEF Asking
  <2>2. updates' = updates \o <<>> /\ UNCHANGED <<corpus, taken, closed>>
    BY <2>1 DEF Requested, owned
  <2>3. updates' = updates
    BY <1>0, <2>2
  <2> QED BY <1>1, <2>1, <2>2, <2>3
<1>3. ASSUME NEW u, Requesting(u) PROVE ChainInv'
  <2>1. /\ ~closed /\ u \in UpdateT
        /\ \A e : CorpusOK(e) /\ (queued => Synced(e, source)) =>
                     Sound(e, u) /\ Synced(AppliedRows(e, u), source')
    BY <1>3, Zenon DEF Requesting, Published
  <2>2. updates' = updates \o <<u>> /\ UNCHANGED <<corpus, taken, closed>>
    BY <1>3 DEF Requesting, Requested, owned
  <2>3. PICK mid, e : /\ Reaches(corpus, taken, mid) /\ Reaches(mid, updates, e)
                      /\ CorpusOK(e) /\ (queued => Synced(e, source))
    BY <1>c, <2>1, Zenon
  <2>4. Sound(e, u) /\ Synced(AppliedRows(e, u), source')
    BY <2>1, <2>3
  <2>5. CorpusOK(AppliedRows(e, u))
    BY <2>1, <2>3, <2>4, AppliedIsCorpus
  <2>6. updates' = Append(updates, u)
    BY <1>0, <2>1, <2>2
  <2>7. Reaches(mid, updates', AppliedRows(e, u))
    BY <1>0, <2>1, <2>3, <2>4, <2>6, ReachesLast
  <2>8. CorpusOK(corpus') /\ Reaches(corpus', taken', mid)
    BY <1>c, <2>1, <2>2, <2>3
  <2> QED BY <2>4, <2>5, <2>7, <2>8, Zenon DEF ChainInv
<1>4. ASSUME NEW u, InPlace(u) PROVE ChainInv'
  <2>1. /\ taken' = <<>> /\ updates' = <<>>
        /\ CorpusOK(corpus') /\ Synced(corpus', source')
    BY <1>4, InPlaceIs
  <2>2. Reaches(corpus', <<>>, corpus')
    BY ReachesNothing
  <2>3. Reaches(corpus', taken', corpus') /\ Reaches(corpus', updates', corpus')
    BY <2>1, <2>2
  <2> QED BY <2>1, <2>3, Zenon DEF ChainInv
<1>5. CASE SelectMatch \/ Quiet
  BY <1>1, <1>5 DEF SelectMatch, Quiet, session, control, command, owned, drain
<1>6. CASE Close
  BY <1>6 DEF Close
<1>7. CASE ProcessCompletion
  BY <1>1, <1>7 DEF ProcessCompletion, session, command, owned, drain
<1>8. CASE Take
  <2>1. ~closed
    BY <1>8 DEF Take
  <2>2. taken' = updates /\ updates' = <<>> /\ taken = <<>> /\ UNCHANGED <<corpus, queued, source>>
    BY <1>8, <2>1 DEF Take, session, owned, WorkInv
  <2>3. PICK mid, e : /\ Reaches(corpus, taken, mid) /\ Reaches(mid, updates, e)
                      /\ CorpusOK(e) /\ (queued => Synced(e, source))
    BY <1>c, <2>1, Zenon
  <2>4. corpus = mid
    BY <2>2, <2>3, ReachesNothing
  <2>5. Reaches(e, <<>>, e)
    BY ReachesNothing
  <2>6. /\ CorpusOK(corpus') /\ Reaches(corpus', taken', e) /\ Reaches(e, updates', e)
        /\ CorpusOK(e) /\ (queued' => Synced(e, source'))
    BY <1>c, <2>1, <2>2, <2>3, <2>4, <2>5
  <2> QED BY <2>6, Zenon DEF ChainInv
<1>9. CASE ApplyUpdate
  <2> DEFINE u == Head(taken)
  <2>1. /\ taken # <<>> /\ corpus' = AppliedRows(corpus, u) /\ taken' = Tail(taken)
        /\ UNCHANGED <<updates, queued, source, closed>>
    BY <1>9 DEF ApplyUpdate, session, command
  <2>2. PICK mid, e : /\ Reaches(corpus, taken, mid) /\ Reaches(mid, updates, e)
                      /\ CorpusOK(e) /\ (queued => Synced(e, source)) /\ CorpusOK(corpus)
    BY <1>c, <2>1, Zenon
  <2>3. Sound(corpus, u) /\ Reaches(AppliedRows(corpus, u), Tail(taken), mid)
    BY <1>0, <2>1, <2>2, ReachesFirst
  <2>4. u \in UpdateT
    BY <1>0, <2>1, HeadTailProperties
  <2>5. CorpusOK(AppliedRows(corpus, u))
    BY <2>2, <2>3, <2>4, AppliedIsCorpus
  <2> HIDE DEF u
  <2>6. /\ CorpusOK(corpus') /\ Reaches(corpus', taken', mid) /\ Reaches(mid, updates', e)
        /\ CorpusOK(e) /\ (queued' => Synced(e, source'))
    BY <2>1, <2>2, <2>3, <2>5
  <2> QED BY <2>6, Zenon DEF ChainInv
<1>10. CASE Idle \/ Begin \/ Discard \/ Cancel \/ CommitFull \/ Detach \/ CommitIncremental
  <2>1. UNCHANGED <<corpus, taken, updates, closed, queued, source>>
    BY <1>10
       DEF Idle, Begin, Discard, Cancel, CommitFull, Detach, CommitIncremental, session, command, owned
  <2> QED BY <1>1, <2>1
<1>11. CASE End
  BY <1>1, <1>11 DEF End, session, owned
<1> QED BY <1>0, <1>2, <1>3, <1>4, <1>5, <1>6, <1>7, <1>8, <1>9, <1>10, <1>11, NextIs, Zenon

-----------------------------------------------------------------------------
\* The result's parts, and the matches' handles.
Results ==
    /\ result \in ResultT /\ detached \in ResultT
    /\ generation # 0
    /\ result.epoch <= source.epoch
    /\ \A m \in result.matches : m.handle <= handles

\* The match that is made the current one.
LEMMA CurrentsAre ==
    ASSUME NEW matches \in SUBSET MatchT, NEW wanted, NEW m \in Currents(matches, wanted)
    PROVE  /\ m \in MatchT \cup {None}
           /\ (wanted # None /\ \E x \in matches : x.handle = wanted.handle) =>
                 m \in matches /\ m # None /\ m.handle = wanted.handle
<1>1. None \notin MatchT
  BY SearchAssumption DEF MatchT
<1> DEFINE same == {x \in matches : wanted # None /\ x.handle = wanted.handle}
<1>2. Currents(matches, wanted) = IF same # {} THEN same ELSE IF matches # {} THEN matches ELSE {None}
  BY DEF Currents
<1> QED BY <1>1, <1>2

\* The parts of a finished result.
LEMMA FinishedIs ==
    ASSUME NEW matches \in SUBSET MatchT, NEW d, NEW m \in MatchT \cup {None},
           d.query \in Query \cup {NoQuery}, d.generation \in Nat, d.revision \in Nat,
           d.buffer \in Buffer, d.epoch \in Nat
    PROVE  LET r == Finished(matches, d, m)
           IN  /\ r \in ResultT /\ r.matches = matches /\ r.query = d.query /\ r.generation = d.generation
               /\ r.revision = d.revision /\ r.buffer = d.buffer /\ r.epoch = d.epoch /\ r.current = m
BY DEF Finished, ResultT

\* The parts of the first result.
LEMMA NoResultIs == NoResult \in ResultT /\ NoResult.matches = {} /\ NoResult.generation = 0 /\ NoResult.epoch = 0
BY DEF NoResult, ResultT, Buffer

\* What a scan of the session's rows finds.
LEMMA SourceMatches ==
    ASSUME NEW c, NEW s \in SourceT, NEW h \in Nat, NEW q, CorpusOK(c), Synced(c, s), Below(s, h)
    PROVE  /\ Scan(s, s.buffer, q) \in SUBSET MatchT
           /\ \A m \in Scan(s, s.buffer, q) : m.handle <= h
<1>1. c.initialized /\ Scan(c, c.buffer, q) = Scan(s, s.buffer, q)
  BY SyncedScan DEF Synced
<1>2. Scan(s, s.buffer, q) \in SUBSET MatchT
  BY <1>1, ScanHasMatches
<1>3. ASSUME NEW m \in Scan(s, s.buffer, q) PROVE m.handle <= h
  <2>1. Live(s, q, m.handle)
    BY DEF Live
  <2>2. CASE \E r \in Active : s.active[s.buffer][r].handle = m.handle
    BY <2>2 DEF Below, SourceT
  <2>3. CASE \E i \in 1..Len(s.retained) : s.retained[i].handle = m.handle
    BY <2>3 DEF Below
  <2> QED BY <2>1, <2>2, <2>3, LiveIs
<1> QED BY <1>2, <1>3

\* The result a commit leaves.
LEMMA CommittedIs ==
    ASSUME SearchTypes, WorkInv, Committed
    PROVE  /\ result' \in ResultT /\ result'.matches = Scan(source, source.buffer, query)
           /\ result'.matches \in SUBSET MatchT /\ \A m \in result'.matches : m.handle <= handles
           /\ result'.query = query /\ result'.generation = generation /\ result'.revision = revision
           /\ result'.buffer = source.buffer /\ result'.epoch = source.epoch
           /\ (anchor # None /\ \E x \in Scan(source, source.buffer, query) : x.handle = anchor.handle) =>
                 result'.current # None /\ result'.current.handle = anchor.handle
<1> DEFINE matches == Scan(source, source.buffer, query)
<1>1. /\ source \in SourceT /\ handles \in Nat /\ Below(source, handles)
      /\ query \in Query \cup {NoQuery} /\ generation \in Nat /\ revision \in Nat
      /\ source.buffer \in Buffer /\ source.epoch \in Nat
  BY DEF SearchTypes, SourceT
<1>2. /\ job.query = query /\ job.generation = generation /\ job.revision = revision
      /\ job.buffer = source.buffer /\ job.epoch = source.epoch
  BY DEF Committed, WorkInv
<1>3. matches \in SUBSET MatchT /\ \A m \in matches : m.handle <= handles
  BY <1>1, SourceMatches DEF Committed
<1>4. PICK m \in Currents(matches, anchor) : result' = Finished(matches, job, m)
  BY Zenon DEF Committed
<1> HIDE DEF matches
<1>5. /\ m \in MatchT \cup {None}
      /\ (anchor # None /\ \E x \in matches : x.handle = anchor.handle) => m # None /\ m.handle = anchor.handle
  BY <1>3, <1>4, CurrentsAre
<1>6. /\ result' \in ResultT /\ result'.matches = matches /\ result'.query = job.query
      /\ result'.generation = job.generation /\ result'.revision = job.revision
      /\ result'.buffer = job.buffer /\ result'.epoch = job.epoch /\ result'.current = m
  BY <1>1, <1>2, <1>3, <1>4, <1>5, FinishedIs
<1> QED BY <1>2, <1>3, <1>5, <1>6 DEF matches

\* The result a refresh in place leaves.
LEMMA RefreshedIs ==
    ASSUME SearchTypes, WorkInv, ChainInv, ValidInv, NEW u, InPlace(u)
    PROVE  /\ result' \in ResultT /\ result'.matches = Scan(source', source'.buffer, query)
           /\ result'.matches \in SUBSET MatchT /\ \A m \in result'.matches : m.handle <= handles'
           /\ result'.query = query /\ result'.generation = generation /\ result'.revision = revision'
           /\ result'.buffer = source'.buffer /\ result'.epoch = source'.epoch
           /\ (result.current # None
               /\ \E x \in Scan(source', source'.buffer, query) : x.handle = result.current.handle) =>
                 result'.current # None /\ result'.current.handle = result.current.handle
<1> DEFINE matches == Scan(source', source'.buffer, query)
<1>1. /\ Published(u) /\ CorpusOK(corpus') /\ Synced(corpus', source')
      /\ desired'.query = query /\ desired'.generation = generation
      /\ desired'.revision = revision' /\ desired'.buffer = source'.buffer
      /\ desired'.epoch = source'.epoch
      /\ \E m \in Currents(matches, result.current) : result' = Finished(matches, desired', m)
  BY InPlaceIs
<1>2. /\ source' \in SourceT /\ handles' \in Nat /\ Below(source', handles')
      /\ query \in Query \cup {NoQuery} /\ generation \in Nat /\ revision' \in Nat
      /\ source'.buffer \in Buffer /\ source'.epoch \in Nat
  BY <1>1 DEF SearchTypes, Published, SourceT
<1>3. matches \in SUBSET MatchT /\ \A m \in matches : m.handle <= handles'
  BY <1>1, <1>2, SourceMatches
<1>4. PICK m \in Currents(matches, result.current) : result' = Finished(matches, desired', m)
  BY <1>1, Zenon
<1> HIDE DEF matches
<1>5. /\ m \in MatchT \cup {None}
      /\ (result.current # None /\ \E x \in matches : x.handle = result.current.handle) =>
            m # None /\ m.handle = result.current.handle
  BY <1>3, <1>4, CurrentsAre
<1>6. /\ result' \in ResultT /\ result'.matches = matches /\ result'.query = desired'.query
      /\ result'.generation = desired'.generation /\ result'.revision = desired'.revision
      /\ result'.buffer = desired'.buffer /\ result'.epoch = desired'.epoch /\ result'.current = m
  BY <1>1, <1>2, <1>3, <1>4, <1>5, FinishedIs
<1> QED BY <1>1, <1>3, <1>5, <1>6 DEF matches

\* Selecting a match, or taking a completion, leaves the rest of the result.
LEMMA SameResult ==
    ASSUME result \in ResultT, SelectMatch \/ ProcessCompletion
    PROVE  /\ result' \in ResultT /\ result'.matches = result.matches /\ result'.query = result.query
           /\ result'.generation = result.generation /\ result'.revision = result.revision
           /\ result'.buffer = result.buffer /\ result'.epoch = result.epoch
<1>1. CASE SelectMatch
  <2>1. PICK m \in result.matches : result' = [result EXCEPT !.current = m]
    BY <1>1, Zenon DEF SelectMatch
  <2>2. m \in MatchT
    BY <2>1 DEF ResultT
  <2> QED BY <2>1, <2>2 DEF ResultT
<1>2. CASE ProcessCompletion
  <2>1. result' = [result EXCEPT !.ready = result.ready /\ ~searching]
    BY <1>2 DEF ProcessCompletion
  <2>2. (result.ready /\ ~searching) \in BOOLEAN
    OBVIOUS
  <2> QED BY <2>1, <2>2 DEF ResultT
<1> QED BY <1>1, <1>2

\* Every step leaves a result of that type.
LEMMA ResultsStep ==
    SearchTypes /\ WorkInv /\ ChainInv /\ ValidInv /\ Results /\ [Next]_vars => Results'
<1> SUFFICES ASSUME SearchTypes, WorkInv, ChainInv, ValidInv, Results, [Next]_vars PROVE Results'
  OBVIOUS
<1>0. /\ available => queued
      /\ source.epoch \in Nat /\ handles \in Nat /\ generation \in Nat
      /\ result.epoch \in Nat /\ \A m \in result.matches : m.handle \in Nat
  BY DEF WorkInv, SearchTypes, SourceT, Results, ResultT, MatchT
<1>1. ASSUME UNCHANGED <<result, detached>>, generation' \in {generation, generation + 1},
             source'.epoch \in Nat, source'.epoch >= source.epoch, handles' \in Nat, handles' >= handles
      PROVE  Results'
  <2>1. generation' # 0
    BY <1>0, <1>1 DEF Results
  <2>2. result'.epoch <= source'.epoch
    BY <1>0, <1>1 DEF Results
  <2>3. \A m \in result'.matches : m.handle <= handles'
    BY <1>0, <1>1 DEF Results
  <2> QED BY <1>1, <2>1, <2>2, <2>3 DEF Results
<1>2. CASE Asking
  BY <1>0, <1>1, <1>2 DEF Asking, Requested
<1>3. ASSUME NEW u, Requesting(u) PROVE Results'
  <2>1. Published(u) /\ UNCHANGED <<result, detached>>
    BY <1>3 DEF Requesting, Requested
  <2> QED BY <1>1, <2>1 DEF Published, SourceT
<1>4. ASSUME NEW u, InPlace(u) PROVE Results'
  <2>1. /\ result' \in ResultT /\ \A m \in result'.matches : m.handle <= handles'
        /\ result'.epoch = source'.epoch
    BY <1>4, RefreshedIs
  <2>2. Published(u) /\ detached' = detached
    BY <1>4, InPlaceIs
  <2>3. source'.epoch \in Nat /\ generation' = generation
    BY <2>2 DEF Published, SourceT
  <2> QED BY <2>1, <2>2, <2>3 DEF Results
<1>5. CASE SelectMatch \/ ProcessCompletion
  <2>1. UNCHANGED <<source, handles, generation, detached>>
    BY <1>5 DEF SelectMatch, ProcessCompletion, session, control, drain
  <2> QED BY <1>5, <2>1, SameResult DEF Results
<1>6. CASE Close \/ Quiet \/ Take \/ ApplyUpdate \/ Idle \/ Begin \/ End
  <2>1. UNCHANGED <<result, detached, source, handles, generation>>
    BY <1>6 DEF Close, Quiet, Take, ApplyUpdate, Idle, Begin, End, session, control, drain
  <2> QED BY <2>1 DEF Results
<1>7. CASE Cancel
  <2>1. UNCHANGED <<result, source, handles, generation>> /\ detached' = NoResult
    BY <1>7 DEF Cancel, session, control
  <2> QED BY <2>1, NoResultIs DEF Results
<1>8. CASE Discard \/ Detach
  <2>1. UNCHANGED <<source, handles, generation>> /\ result' = NoResult /\ detached' \in {detached, result}
    BY <1>8 DEF Discard, Detach, session, control
  <2> QED BY <1>0, <2>1, NoResultIs DEF Results
<1>9. CASE CommitFull \/ CommitIncremental
  <2>1. Committed
    BY <1>9, CommitIs
  <2>2. UNCHANGED <<source, handles, generation>> /\ detached' \in {detached, NoResult}
    BY <2>1 DEF Committed, session, control
  <2>3. /\ result' \in ResultT /\ \A m \in result'.matches : m.handle <= handles
        /\ result'.epoch = source.epoch
    BY <2>1, CommittedIs
  <2> QED BY <1>0, <2>2, <2>3, NoResultIs DEF Results
<1> QED BY <1>0, <1>2, <1>3, <1>4, <1>5, <1>6, <1>7, <1>8, <1>9, NextIs, Zenon

\* Every step keeps a valid result the matches in the corpus, but for the changes noted.
LEMMA ValidStep ==
    SearchTypes /\ WorkInv /\ ChainInv /\ ValidInv /\ Results /\ [Next]_vars => ValidInv'
<1> SUFFICES ASSUME SearchTypes, WorkInv, ChainInv, ValidInv, Results, [Next]_vars, ~closed' PROVE ValidInv'
  BY DEF ValidInv
<1>0. /\ available => queued
      /\ pc \in {"idle", "take", "apply", "discard", "full", "incremental", "merge", "end"}
  BY DEF WorkInv, SearchTypes
\* Neither a scan nor anything it goes by.
<1>1. ASSUME UNCHANGED <<closed, corpus, valid, workerQuery, workerGeneration, result, detached, changed>>,
             pc' = pc \/ (pc \in {"idle", "end"} /\ pc' \in {"idle", "take"})
      PROVE  ValidInv'
  <2>1. Base' = Base /\ (Scanning' <=> Scanning) /\ (pc' = "discard" <=> pc = "discard") /\ ~closed
    BY <1>0, <1>1 DEF Base, Scanning
  <2> QED BY <1>1, <2>1 DEF ValidInv
<1>2. CASE Asking
  <2>1. Requested(<<>>)
    BY <1>2 DEF Asking
  <2> QED BY <1>0, <1>1, <2>1 DEF Requested, owned, WorkInv
<1>3. ASSUME NEW u, Requesting(u) PROVE ValidInv'
  <2>1. Requested(<<u>>)
    BY <1>3 DEF Requesting
  <2> QED BY <1>0, <1>1, <2>1 DEF Requested, owned, WorkInv
<1>4. ASSUME NEW u, InPlace(u) PROVE ValidInv'
  <2>1. /\ pc = "idle" /\ CorpusOK(corpus') /\ Synced(corpus', source') /\ corpus'.initialized
        /\ workerQuery = query /\ workerGeneration = generation /\ changed = NoChange
        /\ UNCHANGED <<workerQuery, workerGeneration, pc, changed>>
    BY <1>4, InPlaceIs
  <2>2. /\ result'.matches = Scan(source', source'.buffer, query) /\ result'.matches \in SUBSET MatchT
        /\ result'.query = query /\ result'.generation = generation
    BY <1>4, RefreshedIs
  <2>3. Scan(corpus', corpus'.buffer, query) = Scan(source', source'.buffer, query)
    BY <2>1, SyncedScan
  <2>4. MergedOf(Scan(corpus', corpus'.buffer, query), corpus', NoChange, query)
          = Scan(corpus', corpus'.buffer, query)
    BY <2>1, NothingChanged
  <2>5. Base' = result' /\ ~Scanning' /\ changed' = NoChange
    BY <2>1 DEF Base, Scanning
  <2>6. ~NoChange.resetActive /\ NoChange.retained = {}
    BY DEF NoChange
  <2> QED BY <2>1, <2>2, <2>3, <2>4, <2>5, <2>6 DEF ValidInv
<1>5. CASE SelectMatch \/ ProcessCompletion
  <2>1. UNCHANGED <<closed, corpus, valid, workerQuery, workerGeneration, detached, changed, pc>>
    BY <1>5 DEF SelectMatch, ProcessCompletion, command, owned, drain
  <2>2. /\ result'.matches = result.matches /\ result'.query = result.query
        /\ result'.generation = result.generation
    BY <1>5, SameResult DEF Results
  <2>3. /\ Base'.matches = Base.matches /\ Base'.query = Base.query /\ Base'.generation = Base.generation
        /\ (Scanning' <=> Scanning)
    BY <2>1, <2>2 DEF Base, Scanning
  <2> QED BY <2>1, <2>3 DEF ValidInv
<1>6. CASE Close
  BY <1>6 DEF Close
<1>7. CASE Quiet
  BY <1>1, <1>7 DEF Quiet, command, owned, drain
<1>8. CASE Take
  <2>1. /\ UNCHANGED <<closed, corpus, valid, workerQuery, workerGeneration, result, detached, changed>>
        /\ pc = "take" /\ pc' = "apply"
    BY <1>8 DEF Take, owned
  <2>2. Base' = Base /\ ~Scanning /\ Scanning' /\ ~closed
    BY <2>1 DEF Base, Scanning
  <2> QED BY <2>1, <2>2 DEF ValidInv
<1>9. CASE ApplyUpdate
  <2> DEFINE u == Head(taken)
             a == AppliedRows(corpus, u)
             next == Changes(corpus, u, changed)
  <2>1. /\ UNCHANGED <<closed, valid, workerQuery, workerGeneration, result, detached, pc>>
        /\ pc = "apply" /\ taken # <<>> /\ corpus' = a /\ changed' = next
    BY <1>9 DEF ApplyUpdate, command, drain
  <2>2. taken \in Seq(UpdateT) /\ u \in UpdateT
    BY <2>1, HeadTailProperties DEF SearchTypes
  <2>3. PICK mid, e : Reaches(corpus, taken, mid) /\ CorpusOK(corpus)
    BY <2>1, Zenon DEF ChainInv
  <2>4. Sound(corpus, u)
    BY <2>1, <2>2, <2>3, ReachesFirst
  <2>5. Base' = Base /\ Scanning' /\ Scanning /\ pc' # "discard"
    BY <2>1 DEF Base, Scanning
  <2>6. a.initialized
    <3> HIDE DEF u
    <3> QED BY <2>2, <2>3, AppliedFields
  <2>7. ASSUME valid, ~next.rescan
        PROVE  /\ ~next.resetActive /\ (a.buffer # "PRIMARY" => next.retained = {})
               /\ MergedOf(Base.matches, a, next, workerQuery) = Scan(a, a.buffer, workerQuery)
    <3> HIDE DEF u
    <3>1. ~changed.rescan
      BY <2>2, <2>3, <2>4, <2>7, SmallChange
    <3>2. /\ Base.matches \in SUBSET MatchT /\ ~changed.resetActive
          /\ corpus.buffer # "PRIMARY" => changed.retained = {}
          /\ MergedOf(Base.matches, corpus, changed, workerQuery) = Scan(corpus, corpus.buffer, workerQuery)
      BY <2>1, <2>7, <3>1 DEF ValidInv
    <3> QED BY <2>2, <2>3, <2>4, <2>7, <3>2, MergeGoesOn
  <2> HIDE DEF u, a, next
  <2> QED BY <2>1, <2>5, <2>6, <2>7 DEF ValidInv
<1>10. CASE Idle
  <2>1. valid' = FALSE /\ pc' = "discard"
    BY <1>10 DEF Idle
  <2> QED BY <2>1 DEF ValidInv
<1>11. CASE Begin
  <2>1. /\ UNCHANGED <<closed, corpus, valid, workerQuery, workerGeneration, result, detached, changed>>
        /\ pc = "apply" /\ pc' \in {"full", "incremental"}
    BY <1>11 DEF Begin, command, owned
  <2>2. Base' = Base /\ Scanning /\ Scanning' /\ ~closed
    BY <2>1 DEF Base, Scanning
  <2> QED BY <2>1, <2>2 DEF ValidInv
<1>12. CASE Discard
  <2>1. changed' = NoChange /\ valid' = valid /\ pc = "discard"
    BY <1>12 DEF Discard, owned
  <2>2. ~valid'
    BY <2>1 DEF WorkInv
  <2> QED BY <2>1, <2>2 DEF ValidInv
<1>13. CASE Cancel
  <2>1. valid' = FALSE /\ changed' = NoChange
    BY <1>13 DEF Cancel
  <2> QED BY <2>1 DEF ValidInv
<1>14. CASE CommitFull \/ CommitIncremental
  <2>1. Committed
    BY <1>14, CommitIs
  <2>2. /\ result'.matches = Scan(source, source.buffer, query) /\ result'.matches \in SUBSET MatchT
        /\ result'.query = query /\ result'.generation = generation
    BY <2>1, CommittedIs
  <2>3. /\ CorpusOK(corpus) /\ corpus.initialized /\ corpus' = corpus /\ changed' = NoChange /\ pc' = "end"
        /\ workerQuery' = query /\ workerGeneration' = generation
        /\ Scan(corpus, corpus.buffer, query) = Scan(source, source.buffer, query)
    BY <2>1, SyncedScan DEF Committed, Synced
  <2>4. MergedOf(Scan(corpus, corpus.buffer, query), corpus, NoChange, query) = Scan(corpus, corpus.buffer, query)
    BY <2>3, NothingChanged
  <2>5. Base' = result' /\ ~Scanning'
    BY <2>3 DEF Base, Scanning
  <2>6. ~NoChange.resetActive /\ NoChange.retained = {}
    BY DEF NoChange
  <2> QED BY <2>2, <2>3, <2>4, <2>5, <2>6 DEF ValidInv
<1>15. CASE Detach
  <2>1. /\ UNCHANGED <<closed, corpus, valid, workerQuery, workerGeneration, changed>>
        /\ pc = "incremental" /\ pc' = "merge" /\ detached' = result
    BY <1>15 DEF Detach, command, owned
  <2>2. Base' = Base /\ Scanning /\ Scanning' /\ ~closed
    BY <2>1 DEF Base, Scanning
  <2> QED BY <2>1, <2>2 DEF ValidInv
<1>16. CASE End
  BY <1>1, <1>16 DEF End, Done, Stop, owned
<1> QED BY <1>0, <1>2, <1>3, <1>4, <1>5, <1>6, <1>7, <1>8, <1>9, <1>10, <1>11, <1>12, <1>13, <1>14, <1>15,
           <1>16, NextIs, Zenon

\* Every step keeps a current result what a scan of the published rows finds.
LEMMA ResultStep ==
    SearchTypes /\ WorkInv /\ ChainInv /\ ValidInv /\ Results /\ ResultInv /\ [Next]_vars => ResultInv'
<1> SUFFICES ASSUME SearchTypes, WorkInv, ChainInv, ValidInv, Results, ResultInv, [Next]_vars PROVE ResultInv'
  OBVIOUS
<1>0. /\ available => queued
      /\ pc \in {"idle", "take", "apply", "discard", "full", "incremental", "merge", "end"}
      /\ generation \in Nat /\ generation # 0 /\ revision \in Nat /\ workGeneration \in Nat
      /\ result.generation \in Nat /\ result.revision \in Nat
      /\ result.generation <= generation /\ result.revision <= revision
  BY DEF WorkInv, SearchTypes, Results, ResultInv
<1>n. ASSUME result' = NoResult, generation' = generation, revision' = revision
      PROVE  /\ result'.generation \in Nat /\ result'.revision \in Nat
             /\ result'.generation <= generation' /\ result'.revision <= revision'
             /\ result'.generation # generation' /\ ~Current'
  BY <1>0, <1>n DEF NoResult, Current
<1>1. CASE Asking
  <2>1. /\ generation' = generation + 1 /\ revision' = revision /\ workGeneration' = workGeneration + 1
        /\ searching' = (available' /\ query' # NoQuery)
        /\ result' = result /\ job' = job /\ pc' = IF scheduled THEN pc ELSE "take"
    BY <1>1 DEF Asking, Requested
  <2>2. /\ result'.generation \in Nat /\ result'.revision \in Nat
        /\ result'.generation <= generation' /\ result'.revision <= revision'
        /\ result'.generation # generation'
    BY <1>0, <2>1
  <2>3. ~Current' /\ ~Shown'
    BY <2>1, <2>2 DEF Current, Shown
  <2>4. ~(pc' = "end" /\ job'.work = workGeneration')
    <3>1. pc = "end" => job.work \in Nat /\ job.work <= workGeneration
      BY DEF WorkInv, Busy
    <3> QED BY <1>0, <2>1, <3>1
  <2> QED BY <2>2, <2>3, <2>4 DEF ResultInv
<1>2. ASSUME NEW u, Requesting(u) PROVE ResultInv'
  <2>1. /\ Published(u) /\ searching' = (query # NoQuery)
        /\ workGeneration' = workGeneration + 1
        /\ result' = result /\ job' = job /\ pc' = IF scheduled THEN pc ELSE "take"
        /\ UNCHANGED <<workerQuery, workerGeneration>>
    BY <1>2 DEF Requesting, Requested, owned
  <2>2. generation' = generation /\ query' = query /\ revision' = revision + 1 /\ available' = TRUE
    BY <2>1 DEF Published
  <2>3. /\ result'.generation \in Nat /\ result'.revision \in Nat
        /\ result'.generation <= generation' /\ result'.revision <= revision'
        /\ result'.revision # revision'
    BY <1>0, <2>1, <2>2
  <2>4. ~Current' /\ ~Shown'
    BY <2>1, <2>2, <2>3 DEF Current, Shown
  <2>5. ~(pc' = "end" /\ job'.work = workGeneration')
    <3>1. pc = "end" => job.work \in Nat /\ job.work <= workGeneration
      BY DEF WorkInv, Busy
    <3> QED BY <1>0, <2>1, <3>1
  <2>6. Served => Served'
    BY <2>1, <2>2 DEF Served, Busy
  <2> QED BY <2>1, <2>2, <2>3, <2>4, <2>5, <2>6 DEF ResultInv
<1>3. ASSUME NEW u, InPlace(u) PROVE ResultInv'
  <2>1. /\ Published(u) /\ pc = "idle" /\ anchor = None /\ available /\ query # NoQuery
        /\ workerQuery = query /\ workerGeneration = generation
        /\ UNCHANGED <<workerQuery, workerGeneration, pc, anchor, job>>
    BY <1>3, InPlaceIs
  <2>2. generation' = generation /\ query' = query /\ revision' = revision + 1 /\ available' = TRUE
    BY <2>1 DEF Published
  <2>3. /\ result'.matches = Scan(source', source'.buffer, query)
        /\ result'.query = query /\ result'.generation = generation /\ result'.revision = revision'
        /\ result'.buffer = source'.buffer /\ result'.epoch = source'.epoch
    BY <1>3, RefreshedIs
  <2>4. /\ result'.generation \in Nat /\ result'.revision \in Nat
        /\ result'.generation <= generation' /\ result'.revision <= revision'
    BY <1>0, <2>2, <2>3
  <2>5. Current' /\ Served'
    BY <2>1, <2>2, <2>3 DEF Current, Served, Busy
  <2> QED BY <2>1, <2>2, <2>3, <2>4, <2>5 DEF ResultInv
<1>4. CASE SelectMatch \/ ProcessCompletion
  <2>1. UNCHANGED <<source, query, generation, revision, available, workGeneration, closed, workerQuery,
                    workerGeneration, pc, job, anchor>>
    BY <1>4 DEF SelectMatch, ProcessCompletion, session, control, command, owned, drain
  <2>2. /\ result'.matches = result.matches /\ result'.query = result.query
        /\ result'.generation = result.generation /\ result'.revision = result.revision
        /\ result'.buffer = result.buffer /\ result'.epoch = result.epoch
    BY <1>4, SameResult DEF Results
  <2>3. (Current' <=> Current) /\ (Served' <=> Served)
    BY <2>1, <2>2 DEF Current, Served, Busy
  <2>4. Shown' => Current
    <3>1. CASE SelectMatch
      BY <2>1, <3>1 DEF SelectMatch, control, Shown, ResultInv
    <3>2. CASE ProcessCompletion
      <4>1. searching' = (searching /\ ~Accepted)
        BY <3>2 DEF ProcessCompletion
      <4>2. Shown' => ~searching \/ Accepted
        BY <4>1, Zenon DEF Shown
      <4>3. Shown' /\ ~searching => Shown
        BY <2>1 DEF Shown
      <4>4. Accepted => Current
        BY DEF Accepted, Current
      <4> QED BY <4>2, <4>3, <4>4 DEF ResultInv
    <3> QED BY <1>4, <3>1, <3>2
  <2> QED BY <2>1, <2>2, <2>3, <2>4 DEF ResultInv
<1>5. CASE Close
  <2>1. /\ closed' = TRUE /\ workGeneration' = workGeneration + 1
        /\ UNCHANGED <<session, control, owned, result, drain>>
    BY <1>5 DEF Close
  <2>2. ~(pc' = "end" /\ job'.work = workGeneration')
    <3>1. pc = "end" => job.work \in Nat /\ job.work <= workGeneration
      BY DEF WorkInv, Busy
    <3> QED BY <1>0, <2>1, <3>1 DEF drain
  <2>3. (Current' <=> Current) /\ (Served' <=> Served) /\ (Shown' <=> Shown)
    BY <2>1 DEF Current, Served, Shown, Busy, control, owned, drain
  <2> QED BY <2>1, <2>2, <2>3 DEF ResultInv, session, control, drain
<1>6. CASE Quiet \/ ApplyUpdate
  <2>1. UNCHANGED <<session, control, command, result, pc, job, anchor, workerQuery, workerGeneration>>
    BY <1>6 DEF Quiet, ApplyUpdate, owned, drain
  <2>2. (Current' <=> Current) /\ (Served' <=> Served) /\ (Shown' <=> Shown)
    BY <2>1 DEF Current, Served, Shown, Busy, control
  <2> QED BY <2>1, <2>2 DEF ResultInv, session, control, command
<1>7. CASE Take
  <2>1. /\ UNCHANGED <<session, control, owned, result, workGeneration, closed>> /\ pc = "take"
        /\ pc' = "idle" \/ (pc' = "apply" /\ job' = desired)
    BY <1>7 DEF Take, Stop
  <2>2. ~Current
    BY <2>1 DEF ResultInv
  <2>3. (Current' <=> Current) /\ (Shown' <=> Shown)
    BY <2>1 DEF Current, Shown, control
  <2>4. Served => Served'
    BY <2>1 DEF Served, Busy, control, owned, WorkInv
  <2>5. pc' # "end"
    BY <2>1
  <2> QED BY <2>1, <2>2, <2>3, <2>4, <2>5 DEF ResultInv, control
<1>8. CASE Idle
  <2>1. /\ UNCHANGED <<session, control, result>> /\ pc = "apply" /\ pc' = "discard"
        /\ job.query = NoQuery \/ ~job.available
    BY <1>8 DEF Idle
  <2>2. ~Current /\ ~Served
    BY <2>1 DEF ResultInv, Served, Busy
  <2>3. (Current' <=> Current) /\ (Shown' <=> Shown)
    BY <2>1 DEF Current, Shown, control
  <2> QED BY <2>1, <2>2, <2>3 DEF ResultInv, control
<1>9. CASE Begin \/ Cancel
  <2>1. /\ UNCHANGED <<session, control, command, workerQuery, workerGeneration, result, job>>
        /\ pc \in {"apply", "full", "incremental", "merge"} /\ pc' \in {"full", "incremental", "end"}
        /\ pc' = "end" => job.work # workGeneration
    BY <1>9 DEF Begin, Cancel, Cancelled, owned
  <2>2. ~Current
    BY <2>1 DEF ResultInv
  <2>3. (Current' <=> Current) /\ (Shown' <=> Shown) /\ (Served' <=> Served)
    BY <2>1 DEF Current, Shown, Served, Busy, control
  <2> QED BY <2>1, <2>2, <2>3 DEF ResultInv, control, command
<1>10. CASE Discard \/ Detach
  <2>1. /\ UNCHANGED <<session, control, command, job>> /\ result' = NoResult
        /\ pc \in {"discard", "incremental"}
        /\ (pc' = "end" /\ pc = "discard") \/ pc' = "merge"
    BY <1>10 DEF Discard, Detach
  <2>2. ~Shown'
    BY <2>1 DEF ResultInv, Shown, control
  <2>3. pc' = "end" => job.query = NoQuery \/ ~job.available
    BY <2>1 DEF WorkInv
  <2>4. /\ result'.generation \in Nat /\ result'.revision \in Nat
        /\ result'.generation <= generation' /\ result'.revision <= revision'
        /\ result'.generation # generation' /\ ~Current'
    BY <1>n, <2>1 DEF control
  <2> QED BY <2>1, <2>2, <2>3, <2>4 DEF ResultInv
<1>11. CASE CommitFull \/ CommitIncremental
  <2>1. Committed
    BY <1>11, CommitIs
  <2>2. /\ result'.matches = Scan(source, source.buffer, query)
        /\ result'.query = query /\ result'.generation = generation /\ result'.revision = revision
        /\ result'.buffer = source.buffer /\ result'.epoch = source.epoch
    BY <2>1, CommittedIs
  <2>3. /\ UNCHANGED <<session, control, command, job>> /\ pc' = "end" /\ anchor' = None
        /\ job = desired /\ job.work = workGeneration /\ available /\ query # NoQuery
        /\ workerQuery' = query /\ workerGeneration' = generation
    BY <2>1 DEF Committed
  <2>4. /\ job.query = query /\ job.generation = generation /\ job.available
    BY <2>3 DEF WorkInv
  <2>5. Current' /\ Served'
    BY <2>2, <2>3, <2>4 DEF Current, Served, Busy, control
  <2>6. /\ result'.generation \in Nat /\ result'.revision \in Nat
        /\ result'.generation <= generation' /\ result'.revision <= revision'
    BY <1>0, <2>2, <2>3 DEF control
  <2> QED BY <2>2, <2>3, <2>5, <2>6 DEF ResultInv, session, control, command
<1>12. CASE End
  <2>1. /\ UNCHANGED <<session, control, workGeneration, closed, owned, result>> /\ pc = "end"
    BY <1>12 DEF End
  <2>2. (Current' <=> Current) /\ (Shown' <=> Shown)
    BY <2>1 DEF Current, Shown, control
  <2>3. pc' \in {"idle", "take"}
    BY <1>12 DEF End, Done, Stop
  <2>4. Served => Served'
    BY <2>1, <2>3 DEF Served, Busy, control, owned
  <2>5. pc' = "idle" => anchor' = None
    BY <1>12 DEF End, Done, Stop
  <2>6. Current => pc' = "idle"
    <3> SUFFICES ASSUME Current, pc' # "idle" PROVE FALSE
      OBVIOUS
    <3>1. ~closed /\ (Cancelled \/ updates # <<>>)
      BY <1>12 DEF End, Done, Stop
    <3>2. job.work = workGeneration
      BY <2>1, <3>1 DEF ResultInv
    <3>3. updates = <<>>
      BY <2>1, <3>2 DEF WorkInv, Busy
    <3> QED BY <3>1, <3>2, <3>3 DEF Cancelled
  <2> QED BY <2>1, <2>2, <2>3, <2>4, <2>5, <2>6 DEF ResultInv, session, control
<1> QED BY <1>0, <1>1, <1>2, <1>3, <1>4, <1>5, <1>6, <1>7, <1>8, <1>9, <1>10, <1>11, <1>12, NextIs, Zenon

-------------------------------------------------------------------------------
(***************************************************************************)
(* The selection.                                                          *)
(***************************************************************************)
\* The match the host selected last is of this query and this buffer.
ChosenCounts == chosen # None /\ chosen.generation = generation /\ chosen.epoch = source.epoch

\* Its row still matches.
ChosenLives == Live(source, query, chosen.handle)

\* The scan in progress goes by it, or the result has it.
AnchorHolds ==
    /\ anchor # None /\ anchor.handle = chosen.handle
    /\ anchor.buffer = source.buffer /\ anchor.epoch = source.epoch

\* The result has it as the current match.
ResultHolds ==
    /\ result.query = query /\ result.generation = generation
    /\ result.buffer = source.buffer /\ result.epoch = source.epoch
    /\ result.current # None /\ result.current.handle = chosen.handle

\* The choice is not lost: a scan goes by it, or the result has it.
Held == \/ AnchorHolds
        \/ pc \notin {"full", "merge"} /\ anchor = None /\ ResultHolds

\* While the choice counts and its row matches, it is held.
SelInv ==
    /\ chosen # None =>
         /\ chosen.generation \in Nat /\ chosen.generation <= generation
         /\ chosen.epoch \in Nat /\ chosen.epoch <= source.epoch
         /\ chosen.handle \in Nat /\ chosen.handle <= handles
    /\ chosen # None /\ chosen.generation = generation => Served
    /\ ChosenCounts /\ Current /\ ChosenLives => ResultHolds
    /\ ~closed /\ ChosenCounts =>
         /\ Busy => job.epoch = source.epoch /\ job.buffer = source.buffer
         /\ ChosenLives => Held

\* Nothing is selected.
LEMMA InitialSel == Init => SelInv
BY DEF Init, SelInv, ChosenCounts

\* New rows: where the choice counts, it did, and if it is found, it was.
LEMMA ChoiceBefore ==
    ASSUME SearchTypes, SelInv, NEW u, Published(u)
    PROVE  /\ chosen # None =>
                /\ chosen.epoch <= source'.epoch /\ chosen.handle <= handles'
           /\ ChosenCounts' => ChosenCounts /\ source'.epoch = source.epoch /\ source'.buffer = source.buffer
           /\ ChosenCounts' /\ ChosenLives' => ChosenLives
<1>1. /\ source.epoch \in Nat /\ source'.epoch \in Nat /\ source'.epoch >= source.epoch
      /\ handles \in Nat /\ handles' \in Nat /\ handles' >= handles
      /\ chosen' = chosen /\ generation' = generation /\ query' = query
  BY DEF SearchTypes, Published, SourceT
<1>2. chosen # None =>
         /\ chosen.epoch \in Nat /\ chosen.epoch <= source.epoch
         /\ chosen.handle \in Nat /\ chosen.handle <= handles
  BY DEF SelInv
<1>3. chosen # None => chosen.epoch <= source'.epoch /\ chosen.handle <= handles'
  BY <1>1, <1>2
<1>4. ASSUME ChosenCounts' PROVE ChosenCounts /\ source'.epoch = source.epoch /\ source'.buffer = source.buffer
  <2>1. chosen # None /\ chosen.generation = generation /\ chosen.epoch = source'.epoch
    BY <1>1, <1>4 DEF ChosenCounts
  <2>2. source'.epoch = source.epoch
    BY <1>1, <1>2, <2>1
  <2>3. source'.buffer = source.buffer
    BY <2>2 DEF Published
  <2> QED BY <2>1, <2>2, <2>3 DEF ChosenCounts
<1>5. ASSUME ChosenCounts', ChosenLives' PROVE ChosenLives
  <2>1. source'.epoch = source.epoch /\ chosen # None
    BY <1>4, <1>5 DEF ChosenCounts
  <2>2. \A h \in Nat : h <= handles => \A q : Live(source', q, h) => Live(source, q, h)
    BY <2>1 DEF Published
  <2>3. Live(source', query, chosen.handle)
    BY <1>1, <1>5 DEF ChosenLives
  <2> QED BY <1>2, <2>1, <2>2, <2>3 DEF ChosenLives
<1> QED BY <1>3, <1>4, <1>5

\* What the session is asked and what it selects.
LEMMA SelChange ==
    ASSUME SearchTypes, WorkInv, ChainInv, ValidInv, Results, ResultInv, SelInv,
           \/ Asking \/ (\E u : Requesting(u) \/ InPlace(u)) \/ SelectMatch \/ Close \/ ProcessCompletion
    PROVE  SelInv'
<1>0. /\ generation \in Nat /\ handles \in Nat /\ source.epoch \in Nat
      /\ pc \in {"idle", "take", "apply", "discard", "full", "incremental", "merge", "end"}
  BY DEF SearchTypes, SourceT
<1>1. CASE Asking
  <2>1. /\ generation' = generation + 1 /\ chosen' = chosen /\ source'.epoch = source.epoch
        /\ handles' \in Nat /\ handles' >= handles
    BY <1>1 DEF Asking, Requested
  <2>2. chosen' # None =>
         /\ chosen'.generation \in Nat /\ chosen'.generation <= generation' /\ chosen'.generation # generation'
         /\ chosen'.epoch \in Nat /\ chosen'.epoch <= source'.epoch
         /\ chosen'.handle \in Nat /\ chosen'.handle <= handles'
    BY <1>0, <2>1 DEF SelInv
  <2>3. ~ChosenCounts'
    BY <2>2 DEF ChosenCounts
  <2> QED BY <2>2, <2>3 DEF SelInv
<1>2. ASSUME NEW u, Requesting(u) PROVE SelInv'
  <2>1. /\ Published(u)
        /\ result' = result /\ job' = job /\ pc' = IF scheduled THEN pc ELSE "take"
        /\ UNCHANGED <<workerQuery, workerGeneration, anchor, closed>>
    BY <1>2 DEF Requesting, Requested, owned
  <2>2. /\ generation' = generation /\ query' = query /\ revision' = revision + 1 /\ available' = TRUE
        /\ chosen' = chosen
    BY <2>1 DEF Published
  <2>3. chosen' # None =>
         /\ chosen'.generation \in Nat /\ chosen'.generation <= generation'
         /\ chosen'.epoch \in Nat /\ chosen'.epoch <= source'.epoch
         /\ chosen'.handle \in Nat /\ chosen'.handle <= handles'
    BY <2>1, <2>2, ChoiceBefore DEF SelInv
  <2>4. ~Current'
    <3>1. result.revision \in Nat /\ result.revision <= revision /\ revision \in Nat
      BY DEF ResultInv, SearchTypes
    <3> QED BY <2>1, <2>2, <3>1 DEF Current
  <2>5. Served => Served'
    BY <2>1, <2>2 DEF Served, Busy
  <2>6. pc' = pc \/ pc' = "take"
    BY <2>1
  <2>7. ASSUME ~closed', ChosenCounts'
        PROVE  /\ Busy' => job'.epoch = source'.epoch /\ job'.buffer = source'.buffer
               /\ ChosenLives' => Held'
    <3>1. /\ ChosenCounts /\ source'.epoch = source.epoch /\ source'.buffer = source.buffer
          /\ ChosenLives' => ChosenLives
      BY <2>1, <2>7, ChoiceBefore
    <3>2. (Busy => job.epoch = source.epoch /\ job.buffer = source.buffer) /\ (ChosenLives => Held)
      BY <2>1, <2>7, <3>1 DEF SelInv
    <3>3. (AnchorHolds => AnchorHolds') /\ (ResultHolds => ResultHolds')
      BY <2>1, <2>2, <3>1 DEF AnchorHolds, ResultHolds
    <3>4. Held => Held'
      BY <2>1, <2>6, <3>3 DEF Held
    <3> QED BY <2>1, <2>6, <3>1, <3>2, <3>4 DEF Busy
  <2>8. chosen' # None /\ chosen'.generation = generation' => Served'
    BY <2>2, <2>5 DEF SelInv
  <2> QED BY <2>3, <2>4, <2>7, <2>8 DEF SelInv
<1>3. ASSUME NEW u, InPlace(u) PROVE SelInv'
  <2>1. /\ Published(u) /\ pc = "idle" /\ anchor = None /\ ~closed
        /\ UNCHANGED <<workerQuery, workerGeneration, pc, anchor, job, closed>>
    BY <1>3, InPlaceIs
  <2>2. /\ generation' = generation /\ query' = query /\ available' = TRUE /\ chosen' = chosen
    BY <2>1 DEF Published
  <2>3. chosen' # None =>
         /\ chosen'.generation \in Nat /\ chosen'.generation <= generation'
         /\ chosen'.epoch \in Nat /\ chosen'.epoch <= source'.epoch
         /\ chosen'.handle \in Nat /\ chosen'.handle <= handles'
    BY <2>1, <2>2, ChoiceBefore DEF SelInv
  <2>4. /\ result'.query = query /\ result'.generation = generation
        /\ result'.buffer = source'.buffer /\ result'.epoch = source'.epoch
        /\ (result.current # None
               /\ \E x \in Scan(source', source'.buffer, query) : x.handle = result.current.handle) =>
                 result'.current # None /\ result'.current.handle = result.current.handle
    BY <1>3, RefreshedIs
  <2>5. ASSUME ChosenCounts', ChosenLives' PROVE ResultHolds'
    <3>1. ChosenCounts /\ ChosenLives
      BY <2>1, <2>5, ChoiceBefore
    <3>2. result.current # None /\ result.current.handle = chosen.handle
      BY <2>1, <3>1 DEF SelInv, Held, AnchorHolds, ResultHolds
    <3>3. \E x \in Scan(source', source'.buffer, query) : x.handle = chosen.handle
      BY <2>2, <2>5 DEF ChosenLives, Live
    <3> QED BY <2>2, <2>4, <3>2, <3>3 DEF ResultHolds
  <2>6. Served => Served'
    BY <2>1, <2>2 DEF Served, Busy
  <2>7. ~Busy' /\ pc' \notin {"full", "merge"} /\ anchor' = None
    BY <2>1 DEF Busy
  <2>8. chosen' # None /\ chosen'.generation = generation' => Served'
    BY <2>2, <2>6 DEF SelInv
  <2> QED BY <2>3, <2>5, <2>7, <2>8 DEF SelInv, Held
<1>4. CASE SelectMatch
  <2>1. PICK m \in result.matches :
          /\ result' = [result EXCEPT !.current = m]
          /\ chosen' = [handle |-> m.handle, generation |-> result.generation, epoch |-> result.epoch]
    BY <1>4, Zenon DEF SelectMatch
  <2>2. /\ ~closed /\ ~searching
        /\ UNCHANGED <<source, handles, query, generation, revision, available, closed, workerQuery,
                       workerGeneration, pc, job, anchor>>
    BY <1>4 DEF SelectMatch, CanChange, control, command, owned, drain
  <2>3. m \in MatchT /\ m.handle <= handles /\ result.epoch \in Nat /\ result.epoch <= source.epoch
    BY <2>1 DEF Results, ResultT
  <2>4. /\ result'.query = result.query
        /\ result'.generation = result.generation /\ result'.revision = result.revision
        /\ result'.buffer = result.buffer /\ result'.epoch = result.epoch
    BY <1>4, SameResult DEF Results
  <2>5. result'.current = m
    BY <2>1 DEF Results, ResultT
  <2>6. m # None
    BY <2>3, SearchAssumption DEF MatchT
  <2>7. /\ chosen'.generation \in Nat /\ chosen'.generation <= generation'
        /\ chosen'.epoch \in Nat /\ chosen'.epoch <= source'.epoch
        /\ chosen'.handle \in Nat /\ chosen'.handle <= handles'
        /\ chosen'.generation = result.generation /\ chosen'.handle = m.handle /\ chosen'.epoch = result.epoch
    BY <2>1, <2>2, <2>3 DEF MatchT, ResultInv
  <2>8. ASSUME chosen'.generation = generation'
        PROVE  /\ Served' /\ ResultHolds' /\ pc' \in {"idle", "end"} /\ anchor' = None
               /\ Busy' => job'.epoch = source'.epoch /\ job'.buffer = source'.buffer
    <3>1. result.generation = generation
      BY <2>2, <2>7, <2>8
    <3>2. Served /\ result.query = query
      BY <3>1 DEF ResultInv
    <3>3. Current
      BY <2>2, <3>2 DEF ResultInv, Shown, Served
    <3>4. /\ pc \in {"idle", "end"} /\ anchor = None /\ result.buffer = source.buffer
          /\ result.epoch = source.epoch /\ (pc = "end" => job.work = workGeneration)
      BY <2>2, <3>3 DEF ResultInv
    <3>5. Busy => job = desired /\ desired.buffer = source.buffer /\ desired.epoch = source.epoch
      BY <3>4 DEF Busy, WorkInv
    <3> QED BY <2>2, <2>4, <2>5, <2>6, <2>7, <3>1, <3>2, <3>4, <3>5 DEF Served, ResultHolds, Busy
  <2>9. ChosenCounts' => chosen'.generation = generation'
    BY DEF ChosenCounts
  <2> QED BY <2>7, <2>8, <2>9 DEF SelInv, Held
<1>5. CASE Close
  <2>1. closed' = TRUE /\ UNCHANGED <<session, control, owned, result, drain>>
    BY <1>5 DEF Close
  <2>2. /\ (ChosenCounts' <=> ChosenCounts) /\ (Current' <=> Current) /\ (ChosenLives' <=> ChosenLives)
        /\ (ResultHolds' <=> ResultHolds) /\ (Served' <=> Served)
    BY <2>1
       DEF ChosenCounts, Current, ChosenLives, ResultHolds, Served, Busy, session, control, owned, drain
  <2> QED BY <2>1, <2>2 DEF SelInv, session, control
<1>6. CASE ProcessCompletion
  <2>1. UNCHANGED <<session, query, generation, revision, available, command, owned, drain>>
    BY <1>6 DEF ProcessCompletion
  <2>2. /\ result'.query = result.query
        /\ result'.generation = result.generation /\ result'.revision = result.revision
        /\ result'.buffer = result.buffer /\ result'.epoch = result.epoch
    BY <1>6, SameResult DEF Results
  <2>3. result'.current = result.current
    BY <1>6 DEF ProcessCompletion, Results, ResultT
  <2>4. /\ (ChosenCounts' <=> ChosenCounts) /\ (Current' <=> Current) /\ (ChosenLives' <=> ChosenLives)
        /\ (ResultHolds' <=> ResultHolds) /\ (Served' <=> Served) /\ (Held' <=> Held)
    BY <2>1, <2>2, <2>3
       DEF ChosenCounts, Current, ChosenLives, ResultHolds, Served, Busy, Held, AnchorHolds,
       session, owned, drain
  <2> QED BY <2>1, <2>4 DEF SelInv, session, command, drain, Busy
<1> QED BY <1>1, <1>2, <1>3, <1>4, <1>5, <1>6

\* What the worker does with it.
LEMMA SelWork ==
    ASSUME SearchTypes, WorkInv, ChainInv, ValidInv, Results, ResultInv, SelInv, ResultInv',
           \/ Quiet \/ Take \/ ApplyUpdate \/ Idle \/ Begin \/ Discard \/ Cancel \/ CommitFull \/ Detach
           \/ CommitIncremental \/ End
    PROVE  SelInv'
<1>0. /\ generation \in Nat /\ generation # 0
      /\ pc \in {"idle", "take", "apply", "discard", "full", "incremental", "merge", "end"}
  BY DEF SearchTypes, Results
<1>n. None \notin [handle : Nat, buffer : Buffer, epoch : Nat]
  BY SearchAssumption
<1>s. /\ UNCHANGED <<session, query, generation, revision>>
      /\ (ChosenCounts' <=> ChosenCounts) /\ (ChosenLives' <=> ChosenLives)
  BY DEF Quiet, Take, ApplyUpdate, Idle, Begin, Discard, Cancel, CommitFull, Detach, CommitIncremental, End,
     ChosenCounts, ChosenLives, session, control
\* The choice is served, and what is left to show of it.
<1>1. ASSUME chosen # None /\ chosen.generation = generation => Served',
             ChosenCounts /\ Current' /\ ChosenLives => ResultHolds',
             ~closed' /\ ChosenCounts =>
               /\ Busy' => job'.epoch = source.epoch /\ job'.buffer = source.buffer
               /\ ChosenLives => Held'
      PROVE  SelInv'
  BY <1>s, <1>1 DEF SelInv, session
\* Nothing the choice depends on.
<1>2. ASSUME UNCHANGED <<result, available, workerQuery, workerGeneration, pc, job, anchor, closed>>
      PROVE  SelInv'
  <2>1. /\ (Current' <=> Current) /\ (ResultHolds' <=> ResultHolds) /\ (Served' <=> Served)
        /\ (Held' <=> Held)
    BY <1>s, <1>2 DEF Current, ResultHolds, Served, Busy, Held, AnchorHolds, session
  <2> QED BY <1>1, <1>2, <2>1 DEF SelInv, Busy
<1>3. CASE Quiet \/ ApplyUpdate
  BY <1>2, <1>3 DEF Quiet, ApplyUpdate, control, command, owned, drain
<1>4. CASE Take
  <2>1. /\ UNCHANGED <<result, available, workerQuery, workerGeneration, anchor, closed>>
        /\ pc = "take" /\ ((pc' = "idle" /\ closed) \/ (pc' = "apply" /\ job' = desired))
    BY <1>4 DEF Take, Stop, control, owned
  <2>2. Served => Served'
    BY <1>s, <2>1 DEF Served, Busy, WorkInv
  <2>3. ~Current'
    BY <1>s, <2>1 DEF ResultInv, Current
  <2>4. Held => Held'
    BY <1>s, <2>1 DEF Held, AnchorHolds, ResultHolds, session
  <2>5. ~closed' => job'.epoch = source.epoch /\ job'.buffer = source.buffer
    BY <2>1 DEF WorkInv
  <2> QED BY <1>1, <2>1, <2>2, <2>3, <2>4, <2>5 DEF SelInv
\* The worker finds nothing to search, so no choice counts.
<1>5. CASE Idle \/ Discard
  <2>1. \/ pc = "discard"
        \/ pc = "apply" /\ (job.query = NoQuery \/ ~job.available)
    BY <1>5 DEF Idle, Discard
  <2>2. ~Served
    BY <2>1 DEF Served, Busy
  <2>3. ~(chosen # None /\ chosen.generation = generation)
    BY <2>2 DEF SelInv
  <2> QED BY <1>1, <2>3 DEF ChosenCounts
<1>6. CASE Begin
  <2>1. /\ UNCHANGED <<result, available, workerQuery, workerGeneration, job, closed>>
        /\ pc = "apply" /\ pc' \in {"full", "incremental"}
    BY <1>6 DEF Begin, control, command, owned
  <2>2. ~Current' /\ (Served => Served')
    BY <1>s, <2>1 DEF ResultInv, Current, Served, Busy
  <2>3. Busy
    BY <2>1 DEF Busy
  <2>4. ASSUME ~closed, ChosenCounts, ChosenLives PROVE Held'
    <3>1. /\ Held /\ job.epoch = source.epoch /\ job.buffer = source.buffer
          /\ workerQuery = query /\ workerGeneration = generation
          /\ job.query = query /\ job.generation = generation
      BY <2>3, <2>4 DEF SelInv, Served, ChosenCounts
    <3> DEFINE kept == IF workerQuery = job.query /\ workerGeneration = job.generation
                          /\ anchor # None /\ anchor.buffer = job.buffer /\ anchor.epoch = job.epoch
                       THEN anchor ELSE None
    <3>2. \/ anchor' = kept /\ pc' = "incremental"
          \/ anchor' = Anchored(kept, result) /\ pc' = "full"
      BY <1>6 DEF Begin
    <3>3. CASE AnchorHolds
      <4>1. kept = anchor /\ anchor # None
        BY <3>1, <3>3 DEF AnchorHolds
      <4>2. anchor' = anchor
        BY <3>2, <4>1 DEF Anchored
      <4> QED BY <1>s, <3>3, <4>2 DEF AnchorHolds, Held, session
    <3>4. CASE anchor = None /\ ResultHolds
      <4>1. kept = None
        BY <3>4
      <4>2. CASE anchor' = kept /\ pc' = "incremental"
        BY <1>s, <2>1, <3>4, <4>1, <4>2 DEF Held, ResultHolds, session
      <4>3. CASE anchor' = Anchored(kept, result)
        <5>1. anchor' = [handle |-> result.current.handle, buffer |-> result.buffer, epoch |-> result.epoch]
          BY <3>1, <3>4, <4>1, <4>3 DEF Anchored, ResultHolds
        <5>2. anchor' \in [handle : Nat, buffer : Buffer, epoch : Nat]
          BY <3>4, <5>1 DEF ResultHolds, Results, ResultT, MatchT
        <5> QED BY <1>n, <1>s, <3>4, <5>1, <5>2 DEF AnchorHolds, Held, ResultHolds, session
      <4> QED BY <3>2, <4>2, <4>3
    <3> QED BY <3>1, <3>3, <3>4 DEF Held
  <2> QED BY <1>1, <2>1, <2>2, <2>3, <2>4 DEF SelInv
<1>7. CASE Cancel
  <2>1. /\ UNCHANGED <<result, available, workerQuery, workerGeneration, job, anchor, closed>>
        /\ pc \in {"full", "incremental", "merge"} /\ pc' = "end"
    BY <1>7 DEF Cancel, control, command
  <2>2. ~Current' /\ (Served => Served') /\ (Held => Held')
    BY <1>s, <2>1 DEF ResultInv, Current, Served, Busy, Held, AnchorHolds, ResultHolds, session
  <2> QED BY <1>1, <2>1, <2>2 DEF SelInv, Busy
<1>8. CASE CommitFull \/ CommitIncremental
  <2>1. Committed /\ pc \in {"full", "merge"}
    BY <1>8, CommitIs DEF CommitFull, CommitIncremental
  <2>2. /\ result'.query = query /\ result'.generation = generation
        /\ result'.buffer = source.buffer /\ result'.epoch = source.epoch
        /\ (anchor # None /\ \E x \in Scan(source, source.buffer, query) : x.handle = anchor.handle) =>
              result'.current # None /\ result'.current.handle = anchor.handle
    BY <2>1, CommittedIs
  <2>3. /\ ~closed /\ job' = job /\ pc' = "end" /\ anchor' = None /\ closed' = closed
    BY <2>1 DEF Committed, command
  <2>4. Served'
    BY <1>s, <2>2 DEF ResultInv
  <2>5. ASSUME ChosenCounts PROVE job.epoch = source.epoch /\ job.buffer = source.buffer /\ (ChosenLives => ResultHolds')
    <3>1. job.epoch = source.epoch /\ job.buffer = source.buffer /\ (ChosenLives => AnchorHolds)
      BY <2>1, <2>3, <2>5 DEF SelInv, Busy, Held
    <3>2. AnchorHolds /\ ChosenLives => ResultHolds'
      BY <1>s, <2>2 DEF AnchorHolds, ChosenLives, Live, ResultHolds, session
    <3> QED BY <3>1, <3>2
  <2> QED BY <1>1, <2>3, <2>4, <2>5 DEF Held
<1>9. CASE Detach
  <2>1. /\ UNCHANGED <<available, workerQuery, workerGeneration, job, closed>> /\ result' = NoResult
        /\ pc = "incremental" /\ pc' = "merge" /\ anchor' = Anchored(anchor, result)
    BY <1>9 DEF Detach, control, command, owned
  <2>2. ~Current' /\ (Served => Served')
    BY <1>0, <1>s, <2>1 DEF NoResult, Current, Served, Busy
  <2>3. Busy
    BY <2>1 DEF Busy
  <2>4. ASSUME ~closed, ChosenCounts, ChosenLives PROVE Held'
    <3>1. /\ Held /\ job.epoch = source.epoch /\ job.buffer = source.buffer
          /\ job.query = query /\ job.generation = generation
      BY <2>3, <2>4 DEF SelInv, Served, ChosenCounts
    <3>2. CASE AnchorHolds
      <4>1. anchor' = anchor
        BY <2>1, <3>2 DEF Anchored, AnchorHolds
      <4> QED BY <1>s, <3>2, <4>1 DEF AnchorHolds, Held, session
    <3>3. CASE anchor = None /\ ResultHolds
      <4>1. anchor' = [handle |-> result.current.handle, buffer |-> result.buffer, epoch |-> result.epoch]
        BY <2>1, <3>1, <3>3 DEF Anchored, ResultHolds
      <4>2. anchor' \in [handle : Nat, buffer : Buffer, epoch : Nat]
        BY <3>3, <4>1 DEF ResultHolds, Results, ResultT, MatchT
      <4> QED BY <1>n, <1>s, <3>3, <4>1, <4>2 DEF AnchorHolds, Held, ResultHolds, session
    <3> QED BY <3>1, <3>2, <3>3 DEF Held
  <2> QED BY <1>1, <2>1, <2>2, <2>3, <2>4 DEF SelInv
<1>10. CASE End
  <2>1. UNCHANGED <<result, available, workerQuery, workerGeneration, closed>> /\ pc = "end" /\ pc' \in {"idle", "take"}
    BY <1>10 DEF End, Done, Stop, control, owned
  <2>2. (Served => Served') /\ (Current' <=> Current) /\ (ResultHolds' <=> ResultHolds) /\ ~Busy'
    BY <1>s, <2>1 DEF Served, Busy, Current, ResultHolds, session
  <2>3. ASSUME ~closed, ChosenCounts, ChosenLives PROVE Held'
    <3>1. CASE pc' = "take" /\ anchor' = anchor
      <4>1. Held
        BY <2>3 DEF SelInv
      <4> QED BY <1>s, <2>1, <2>2, <3>1, <4>1 DEF Held, AnchorHolds, session
    <3>2. CASE ~Cancelled /\ anchor' = None
      <4>1. job.work = workGeneration /\ Busy
        BY <2>1, <3>2 DEF Cancelled, Busy
      <4>2. Served
        BY <2>3 DEF SelInv, ChosenCounts
      <4>3. Current
        BY <2>1, <4>1, <4>2 DEF ResultInv, Served
      <4>4. ResultHolds
        BY <2>3, <4>3 DEF SelInv
      <4> QED BY <2>1, <2>2, <3>2, <4>4 DEF Held
    <3> QED BY <1>10, <2>3, <3>1, <3>2 DEF End, Done
  <2> QED BY <1>1, <2>1, <2>2, <2>3 DEF SelInv
<1> QED BY <1>3, <1>4, <1>5, <1>6, <1>7, <1>8, <1>9, <1>10

-----------------------------------------------------------------------------
\* The inductive invariant.
SearchInv == SearchTypes /\ WorkInv /\ ChainInv /\ ValidInv /\ Results /\ ResultInv /\ SelInv

\* The first result has that type.
LEMMA InitialResults == Init => Results
<1> SUFFICES ASSUME Init PROVE Results
  OBVIOUS
<1>1. result = NoResult /\ detached = NoResult /\ generation = 1 /\ source.epoch = 1
  BY DEF Init
<1> QED BY <1>1, NoResultIs DEF Results

(***************************************************************************)
(* The search, its worker and the session keep SearchInv, for any rows,    *)
(* texts, queries and bounds: whatever the order of publications, queries, *)
(* takes, cancelled scans, merges, refreshes in place and commits.         *)
(***************************************************************************)
THEOREM SearchIsInvariant == Spec => []SearchInv
<1>1. Init => SearchInv
  BY InitialTypes, InitialWork, InitialChain, InitialValid, InitialResults, InitialResult, InitialSel
     DEF SearchInv
<1>2. SearchInv /\ [Next]_vars => SearchInv'
  <2> SUFFICES ASSUME SearchInv, [Next]_vars PROVE SearchInv'
    OBVIOUS
  <2>1. SearchTypes /\ WorkInv /\ ChainInv /\ ValidInv /\ Results /\ ResultInv /\ SelInv
    BY DEF SearchInv
  <2>2. SearchTypes' /\ WorkInv' /\ ChainInv' /\ ValidInv' /\ Results' /\ ResultInv'
    BY <2>1, TypesStep, WorkStep, ChainStep, ValidStep, ResultsStep, ResultStep
  <2>3. \/ Asking \/ (\E u : Requesting(u) \/ InPlace(u))
        \/ SelectMatch \/ Close \/ Quiet \/ ProcessCompletion
        \/ Take \/ ApplyUpdate \/ Idle \/ Begin \/ Discard \/ Cancel \/ CommitFull \/ Detach
        \/ CommitIncremental \/ End
    BY <2>1, NextIs DEF WorkInv
  <2>4. SelInv'
    BY <2>1, <2>2, <2>3, SelChange, SelWork
  <2> QED BY <2>2, <2>4 DEF SearchInv
<1> QED BY <1>1, <1>2, PTL DEF Spec

(***************************************************************************)
(* For any rows, texts and queries: what result_state, current_match and   *)
(* spans_for_snapshot show as the result is what a scan of the rows the    *)
(* session has published finds. The updates on their way make up for what  *)
(* the worker's corpus lacks, and a commit is taken only when there are    *)
(* none.                                                                   *)
(***************************************************************************)
THEOREM ResultStaysCurrent == Spec => []ResultIsCurrent
<1>1. SearchInv => ResultIsCurrent
  BY DEF SearchInv, ResultInv, ResultIsCurrent
<1> QED BY <1>1, SearchIsInvariant, PTL

(***************************************************************************)
(* For any rows, texts and queries: the match the host selected is the     *)
(* current one of every result that is shown and still has its row, as     *)
(* refresh_anchor looks for its handle and finish_result restores it,      *)
(* while the query and the buffer stay.                                    *)
(***************************************************************************)
THEOREM SelectionStays == Spec => []SelectionSurvives
<1>1. SearchInv => SelectionSurvives
  <2> SUFFICES ASSUME SearchInv, Shown, ChosenCounts, NEW m \in result.matches, m.handle = chosen.handle
               PROVE  result.current.handle = chosen.handle
    BY DEF SelectionSurvives, ChosenCounts
  <2>1. Current /\ result.matches = Scan(source, source.buffer, query)
    BY DEF SearchInv, ResultInv
  <2>2. ChosenLives
    BY <2>1 DEF ChosenLives, Live
  <2> QED BY <2>1, <2>2 DEF SearchInv, SelInv, ResultHolds
<1> QED BY <1>1, SearchIsInvariant, PTL
=================================================================================
