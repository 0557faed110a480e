------------------------------ MODULE ScreenProofs ------------------------------
(***************************************************************************)
(* The screen model's two stores, each on its own: the ring that keeps the *)
(* rows scrolled off, and the grid.                                        *)
(*                                                                         *)
(* For any capacities, limits and record sizes: a live record reads back   *)
(* as it was committed, a commit always finds room, and the ring is a log  *)
(* that forgets its oldest records and only as many as it has to.          *)
(*                                                                         *)
(* For any size of the grid and any control functions: the cursor and the  *)
(* margins stay within the grid, no half of a wide glyph is ever left      *)
(* without the other, what moves between margins leaves the cells outside  *)
(* them alone, and a soft wrap leads to the row its text went on in.       *)
(***************************************************************************)
EXTENDS HistoryRing, ScreenGrid, SequenceTheorems, WellFoundedInduction, TLAPS

-------------------------------------------------------------------------------
(***************************************************************************)
(* The history ring.                                                       *)
(***************************************************************************)
USE RingAssumption

\* Quotient and remainder.
LEMMA DivMod ==
    ASSUME NEW a \in Nat, NEW c \in Nat, c > 0
    PROVE  a = c * (a \div c) + (a % c) /\ a \div c \in Nat /\ a % c \in 0..c - 1
<1>1. a = c * (a \div c) + (a % c)
  OBVIOUS
<1>2. a \div c \in Nat /\ a % c \in 0..c - 1
  OBVIOUS
<1> QED BY <1>1, <1>2

\* The next multiple of c is at least c higher.
LEMMA NextMultiple ==
    ASSUME NEW c \in Nat, NEW p \in Nat, NEW q \in Nat, p < q
    PROVE  c * p + c <= c * q
OBVIOUS

\* Two bytes less than one capacity apart never share a place.
LEMMA PlacesDiffer ==
    ASSUME NEW a \in Nat, NEW b \in Nat, NEW c \in Nat, a < b, b - a < c
    PROVE  Place(c, a) # Place(c, b)
<1> SUFFICES ASSUME a % c = b % c PROVE FALSE
  BY DEF Place
<1>1. c > 0
  OBVIOUS
<1> DEFINE p == a \div c
           q == b \div c
           r == a % c
<1>2. a = c * p + r /\ p \in Nat /\ r \in 0..c - 1
  BY <1>1, DivMod
<1>3. b = c * q + r /\ q \in Nat
  BY <1>1, DivMod
<1> HIDE DEF p, q, r
<1>4. p < q
  <2>1. CASE p = q
    BY <1>2, <1>3, <2>1
  <2>2. CASE q < p
    <3>1. c * q + c <= c * p
      BY <1>2, <1>3, <2>2, NextMultiple
    <3> QED BY <1>2, <1>3, <3>1
  <2> QED BY <1>2, <1>3, <2>1, <2>2
<1>5. c * p + c <= c * q
  BY <1>2, <1>3, <1>4, NextMultiple
<1> QED BY <1>2, <1>3, <1>5

\* A share of a capacity is a natural no larger than it.
LEMMA ShareOfCapacity ==
    ASSUME NEW c \in Nat
    PROVE  MaxRecord(c) \in Nat /\ MaxRecord(c) <= c
<1>1. Share \in Nat /\ Share > 0
  OBVIOUS
<1> DEFINE q == c \div Share
           r == c % Share
<1>2. c = Share * q + r /\ q \in Nat /\ r \in 0..Share - 1
  BY <1>1, DivMod
<1> HIDE DEF q, r
<1>3. q <= Share * q
  BY <1>1, <1>2
<1>4. Share * q \in Nat
  BY <1>1, <1>2
<1>5. q <= c
  BY <1>1, <1>2, <1>3, <1>4
<1> QED BY <1>2, <1>5 DEF MaxRecord, q

\* Every byte sequence has a cell of the block.
LEMMA PlaceIsACell ==
    ASSUME NEW c \in Nat, c > 0, NEW s \in Nat
    PROVE  Place(c, s) \in 0..c - 1
BY DivMod DEF Place

\* Among bytes that fit one capacity, a place names its byte.
LEMMA ByteAtPlace ==
    ASSUME NEW c \in Nat, NEW low \in Nat, NEW high \in Nat, high - low <= c,
           NEW s \in low..high - 1, NEW t \in low..high - 1, Place(c, s) = Place(c, t)
    PROVE  s = t
<1>1. CASE s < t
  BY <1>1, PlacesDiffer
<1>2. CASE t < s
  BY <1>2, PlacesDiffer
<1> QED BY <1>1, <1>2
-------------------------------------------------------------------------------
\* The records rs lie side by side between two bytes.
InOrder(rs, from, to) ==
    /\ from <= to
    /\ from = IF rs = <<>> THEN to ELSE rs[1].seq
    /\ \A i \in 1..Len(rs) :
         /\ from <= rs[i].seq /\ 1 <= rs[i].size
         /\ End(rs[i]) = IF i = Len(rs) THEN to ELSE rs[i + 1].seq
         /\ End(rs[i]) <= to
         /\ \A j \in i + 1..Len(rs) : End(rs[i]) <= rs[j].seq

\* A record's numbers are naturals.
LEMMA RecordNumbers ==
    ASSUME NEW r \in Record
    PROVE  r.seq \in Nat /\ r.size \in Nat /\ End(r) \in Nat
BY DEF Record, End

\* So are those of every record of a sequence.
LEMMA RecordsNumbers ==
    ASSUME NEW rs \in Seq(Record)
    PROVE  \A i \in 1..Len(rs) :
             /\ rs[i] \in Record
             /\ rs[i].seq \in Nat /\ rs[i].size \in Nat /\ End(rs[i]) \in Nat
<1> TAKE i \in 1..Len(rs)
<1>1. rs[i] \in Record
  OBVIOUS
<1> QED BY <1>1, RecordNumbers

\* No record takes no byte.
LEMMA NoRecordsInOrder == ASSUME NEW to \in Nat PROVE InOrder(<<>>, to, to)
BY DEF InOrder

\* What appending a record leaves of the sequence.
LEMMA AppendRecord ==
    ASSUME NEW rs \in Seq(Record), NEW r \in Record
    PROVE  /\ Append(rs, r) \in Seq(Record)
           /\ Len(Append(rs, r)) = Len(rs) + 1
           /\ \A i \in 1..Len(rs) : Append(rs, r)[i] = rs[i]
           /\ Append(rs, r)[Len(rs) + 1] = r
BY AppendProperties

\* A record that begins where the last one ends follows it.
LEMMA LastInOrder ==
    ASSUME NEW rs \in Seq(Record), NEW from \in Nat, NEW to \in Nat, InOrder(rs, from, to),
           NEW r \in Record, r.seq = to, 1 <= r.size
    PROVE  InOrder(Append(rs, r), from, End(r))
<1> DEFINE qs == Append(rs, r)
<1>1. /\ qs \in Seq(Record) /\ Len(qs) = Len(rs) + 1 /\ Len(rs) \in Nat
      /\ \A i \in 1..Len(rs) : qs[i] = rs[i]
      /\ qs[Len(rs) + 1] = r
  BY AppendRecord
<1>2. End(r) \in Nat /\ to < End(r)
  BY DEF End, Record
<1>3. \A i \in 1..Len(rs) : rs[i] \in Record /\ rs[i].seq \in Nat /\ End(rs[i]) \in Nat
  BY RecordsNumbers
<1> HIDE DEF qs
<1>4. qs # <<>>
  BY <1>1
<1>5. from = qs[1].seq
  BY <1>1 DEF InOrder
<1>6. ASSUME NEW i \in 1..Len(qs)
      PROVE  /\ from <= qs[i].seq /\ 1 <= qs[i].size
             /\ End(qs[i]) = IF i = Len(qs) THEN End(r) ELSE qs[i + 1].seq
             /\ End(qs[i]) <= End(r)
             /\ \A j \in i + 1..Len(qs) : End(qs[i]) <= qs[j].seq
  <2>1. CASE i = Len(rs) + 1
    BY <1>1, <1>2, <2>1 DEF InOrder
  <2>2. CASE i \in 1..Len(rs)
    <3>1. qs[i] = rs[i] /\ End(rs[i]) <= to
      BY <1>1, <2>2 DEF InOrder
    <3>2. from <= qs[i].seq /\ 1 <= qs[i].size /\ End(qs[i]) <= End(r)
      BY <1>2, <1>3, <2>2, <3>1 DEF InOrder
    <3>3. End(qs[i]) = qs[i + 1].seq
      BY <1>1, <2>2, <3>1, SMTT(40) DEF InOrder
    <3>4. ASSUME NEW j \in i + 1..Len(qs) PROVE End(qs[i]) <= qs[j].seq
      BY <1>1, <2>2, <3>1, <3>4, SMTT(40) DEF InOrder
    <3> QED BY <1>1, <2>2, <3>2, <3>3, <3>4
  <2> QED BY <1>1, <2>1, <2>2
<1>7. from <= End(r)
  BY <1>2 DEF InOrder
<1> QED BY <1>4, <1>5, <1>6, <1>7 DEF InOrder, qs

\* The elements that are left when the first n records go.
LEMMA RestElements ==
    ASSUME NEW rs \in Seq(Record), NEW n \in 0..Len(rs)
    PROVE  /\ SubSeq(rs, n + 1, Len(rs)) \in Seq(Record)
           /\ Len(SubSeq(rs, n + 1, Len(rs))) = Len(rs) - n
           /\ \A i \in 1..Len(rs) - n : SubSeq(rs, n + 1, Len(rs))[i] = rs[i + n]
<1> DEFINE qs == SubSeq(rs, n + 1, Len(rs))
<1>1. \A i \in n + 1..Len(rs) : rs[i] \in Record
  OBVIOUS
<1>2. /\ qs \in Seq(Record)
      /\ Len(qs) = IF n + 1 <= Len(rs) THEN Len(rs) - (n + 1) + 1 ELSE 0
      /\ \A i \in 1..Len(rs) - (n + 1) + 1 : qs[i] = rs[(n + 1) + i - 1]
  BY <1>1, SubSeqProperties
<1> HIDE DEF qs
<1>3. Len(qs) = Len(rs) - n
  BY <1>2
<1>4. ASSUME NEW i \in 1..Len(rs) - n PROVE qs[i] = rs[i + n]
  <2>1. i \in 1..Len(rs) - (n + 1) + 1 /\ (n + 1) + i - 1 = i + n
    OBVIOUS
  <2> QED BY <1>2, <2>1
<1> QED BY <1>2, <1>3, <1>4 DEF qs

\* What remains when the first n records go.
LEMMA RestInOrder ==
    ASSUME NEW rs \in Seq(Record), NEW from \in Nat, NEW to \in Nat, InOrder(rs, from, to),
           NEW n \in 0..Len(rs), NEW low, low = IF n = 0 THEN from ELSE End(rs[n])
    PROVE  /\ SubSeq(rs, n + 1, Len(rs)) \in Seq(Record)
           /\ Len(SubSeq(rs, n + 1, Len(rs))) = Len(rs) - n
           /\ low \in Nat /\ from <= low
           /\ low = IF n = Len(rs) THEN to ELSE rs[n + 1].seq
           /\ InOrder(SubSeq(rs, n + 1, Len(rs)), low, to)
<1> DEFINE qs == SubSeq(rs, n + 1, Len(rs))
<1>1. /\ qs \in Seq(Record) /\ Len(qs) = Len(rs) - n /\ Len(rs) \in Nat
      /\ \A i \in 1..Len(qs) : qs[i] = rs[i + n]
  <2> HIDE DEF qs
  <2>1. \A i \in 1..Len(rs) - n : qs[i] = rs[i + n]
    BY RestElements DEF qs
  <2>2. qs \in Seq(Record) /\ Len(qs) = Len(rs) - n
    BY RestElements DEF qs
  <2> QED BY <2>1, <2>2
<1>2. \A i \in 1..Len(rs) : rs[i] \in Record /\ rs[i].seq \in Nat /\ End(rs[i]) \in Nat
  BY RecordsNumbers
<1>3. low \in Nat /\ from <= low /\ low <= to
  BY <1>2, SMTT(40) DEF InOrder, End, Record
<1>4. low = IF n = Len(rs) THEN to ELSE rs[n + 1].seq
  BY <1>2 DEF InOrder
<1> HIDE DEF qs
<1>5. low = IF qs = <<>> THEN to ELSE qs[1].seq
  <2>1. qs = <<>> <=> n = Len(rs)
    BY <1>1
  <2>2. n # Len(rs) => qs[1] = rs[n + 1]
    BY <1>1
  <2> QED BY <1>4, <2>1, <2>2
<1>6. ASSUME NEW i \in 1..Len(qs)
      PROVE  /\ low <= qs[i].seq /\ 1 <= qs[i].size
             /\ End(qs[i]) = IF i = Len(qs) THEN to ELSE qs[i + 1].seq
             /\ End(qs[i]) <= to
             /\ \A j \in i + 1..Len(qs) : End(qs[i]) <= qs[j].seq
  <2>1. qs[i] = rs[i + n] /\ i + n \in 1..Len(rs)
    BY <1>1
  <2>2. low <= rs[i + n].seq
    BY <1>1, <1>2, <2>1, SMTT(40) DEF InOrder
  <2>3. End(qs[i]) = IF i = Len(qs) THEN to ELSE qs[i + 1].seq
    <3>1. CASE i = Len(qs)
      BY <1>1, <2>1, <3>1 DEF InOrder
    <3>2. CASE i # Len(qs)
      <4>0. Len(qs) \in Nat /\ Len(qs) = Len(rs) - n /\ Len(rs) \in Nat /\ n \in Nat
        BY <1>1
      <4>1. i + 1 \in 1..Len(qs) /\ (i + 1) + n = (i + n) + 1 /\ i + n # Len(rs)
        BY <4>0, <3>2
      <4>2. qs[i + 1] = rs[(i + n) + 1]
        BY <1>1, <4>1
      <4> QED BY <2>1, <3>2, <4>1, <4>2 DEF InOrder
    <3> QED BY <3>1, <3>2
  <2>4. ASSUME NEW j \in i + 1..Len(qs) PROVE End(qs[i]) <= qs[j].seq
    <3>1. qs[j] = rs[j + n] /\ j + n \in i + n + 1..Len(rs)
      BY <1>1, SMTT(40)
    <3> QED BY <2>1, <3>1 DEF InOrder
  <2> QED BY <2>1, <2>2, <2>3, <2>4 DEF InOrder
<1> QED BY <1>1, <1>3, <1>4, <1>5, <1>6 DEF InOrder, qs
-------------------------------------------------------------------------------
\* The live bytes fit the block, and a reservation follows them.
LiveBytesFit ==
    /\ head - oldest <= capacity
    /\ open => reserved.seq = head /\ 1 <= reserved.size /\ reserved.size <= capacity
    /\ Ok \/ (records = <<>> /\ ~open)

\* Every live byte is in its place.
LiveBytesKept == \A s \in oldest..head - 1 : ReadByte(s) = s

RingInv == RingTypes /\ InOrder(records, oldest, head) /\ LiveBytesFit /\ LiveBytesKept

\* What forgetting the n oldest records leaves.
LEMMA ForgottenInOrder ==
    ASSUME RingInv, NEW n \in 0..Len(records)
    PROVE  /\ Without(n) \in Seq(Record)
           /\ Without(n) = <<>> <=> n = Len(records)
           /\ OldestAfter(n) \in Nat /\ oldest <= OldestAfter(n) /\ OldestAfter(n) <= head
           /\ OldestAfter(n) = IF n = Len(records) THEN head ELSE records[n + 1].seq
           /\ OldestAfter(n) = OldestOf(Without(n))
           /\ InOrder(Without(n), OldestAfter(n), head)
<1> DEFINE low == OldestAfter(n)
<1>1. /\ records \in Seq(Record) /\ oldest \in Nat /\ head \in Nat
      /\ InOrder(records, oldest, head)
  BY DEF RingInv, RingTypes
<1>2. low = IF n = 0 THEN oldest ELSE End(records[n])
  BY DEF OldestAfter
<1> HIDE DEF low
<1>3. /\ Without(n) \in Seq(Record) /\ Len(Without(n)) = Len(records) - n
      /\ low \in Nat /\ oldest <= low
      /\ low = IF n = Len(records) THEN head ELSE records[n + 1].seq
      /\ InOrder(Without(n), low, head)
  BY <1>1, <1>2, RestInOrder DEF Without
<1>4. Without(n) = <<>> <=> n = Len(records)
  BY <1>1, <1>3
<1>5. low <= head /\ low = OldestOf(Without(n))
  BY <1>3 DEF InOrder, OldestOf
<1> QED BY <1>3, <1>4, <1>5 DEF low

\* The invariant holds initially.
LEMMA RingStarts == RingInit => RingInv
<1> SUFFICES ASSUME RingInit PROVE RingInv
  OBVIOUS
<1>1. RingTypes
  <2>1. [seq |-> 0, size |-> 0] \in Record /\ <<>> \in Seq(Record)
    BY DEF Record
  <2>2. capacity \in Nat /\ storage \in [0..capacity - 1 -> Nat \cup {NoByte}]
    BY DEF RingInit
  <2> QED BY <2>1, <2>2 DEF RingInit, RingTypes
<1>2. InOrder(records, oldest, head)
  BY NoRecordsInOrder DEF RingInit
<1>3. LiveBytesFit /\ LiveBytesKept
  BY DEF RingInit, LiveBytesFit, LiveBytesKept
<1> QED BY <1>1, <1>2, <1>3 DEF RingInv

\* Forgetting records of the same block.
LEMMA ForgetStep ==
    ASSUME RingInv, NEW n \in 0..Len(records), Ok,
           records' = Without(n), oldest' = OldestAfter(n),
           UNCHANGED <<capacity, storage, head, open, reserved>>
    PROVE  RingInv'
<1>1. /\ records' \in Seq(Record) /\ oldest' \in Nat /\ oldest <= oldest'
      /\ InOrder(records', oldest', head')
  BY ForgottenInOrder
<1>2. RingTypes'
  BY <1>1 DEF RingInv, RingTypes
<1>3. LiveBytesFit'
  BY <1>1 DEF RingInv, RingTypes, LiveBytesFit, Ok
<1>4. LiveBytesKept'
  <2>1. \A s \in oldest'..head - 1 : s \in oldest..head - 1
    BY <1>1 DEF RingInv, RingTypes
  <2> QED BY <2>1 DEF RingInv, LiveBytesKept, ReadByte
<1> QED BY <1>1, <1>2, <1>3, <1>4 DEF RingInv

\* A commit overwrites no live byte and writes all of its own.
LEMMA CommitStep == ASSUME RingInv, Commit PROVE RingInv'
<1>1. PICK n \in 0..Len(records) :
        /\ RoomFor(n)
        /\ records' = Append(Without(n), reserved)
        /\ oldest' = OldestAfter(n)
  BY DEF Commit, Discards
<1> DEFINE low == OldestAfter(n)
<1>2. /\ Without(n) \in Seq(Record) /\ low \in Nat /\ oldest <= low /\ low <= head
      /\ InOrder(Without(n), low, head)
  BY ForgottenInOrder
<1> HIDE DEF low
<1>3. /\ reserved \in Record /\ reserved.seq = head /\ 1 <= reserved.size
      /\ End(reserved) \in Nat /\ End(reserved) = head + reserved.size
      /\ head \in Nat /\ capacity \in Nat /\ reserved.size \in Nat
  BY RecordNumbers DEF RingInv, RingTypes, LiveBytesFit, Commit, End
<1>4. /\ oldest' = low /\ head' = End(reserved) /\ open' = FALSE
      /\ storage' = Written /\ UNCHANGED <<capacity, reserved>> /\ Ok
  BY <1>1 DEF Commit, low
<1>5. InOrder(records', oldest', head')
  BY <1>1, <1>2, <1>3, <1>4, LastInOrder
<1>6. End(reserved) - low <= capacity
  <2>1. head + reserved.size - low <= capacity
    BY <1>1 DEF RoomFor, low
  <2> QED BY <1>2, <1>3, <2>1
<1>7. LiveBytesFit'
  BY <1>4, <1>6 DEF LiveBytesFit, Ok
<1>8. RingTypes'
  <2>1. Written \in [0..capacity - 1 -> Nat \cup {NoByte}]
    BY <1>3, SMTT(40) DEF Written, RingInv, RingTypes
  <2>2. records' \in Seq(Record)
    BY <1>1, <1>2, <1>3, AppendRecord
  <2> QED BY <1>2, <1>3, <1>4, <2>1, <2>2 DEF RingInv, RingTypes
<1>9. LiveBytesKept'
  <2> SUFFICES ASSUME NEW s \in low..End(reserved) - 1
               PROVE  Written[Place(capacity, s)] = s
    BY <1>4 DEF LiveBytesKept, ReadByte
  <2> DEFINE bytes == reserved.seq..End(reserved) - 1
             o == Place(capacity, s)
  <2>1. capacity > 0 /\ s \in Nat
    BY <1>2, <1>3, <1>6
  <2>2. o \in 0..capacity - 1
    BY <1>3, <2>1, PlaceIsACell
  <2>3. \A t \in bytes : Place(capacity, t) = o => t = s
    <3>1. low \in Nat /\ End(reserved) \in Nat /\ capacity \in Nat
      BY <1>2, <1>3
    <3>2. \A t \in bytes : t \in low..End(reserved) - 1
      BY <1>2, <1>3
    <3> QED BY <1>6, <3>1, <3>2, ByteAtPlace
  <2>4. Written[o] = IF \E t \in bytes : Place(capacity, t) = o
                     THEN CHOOSE t \in bytes : Place(capacity, t) = o
                     ELSE storage[o]
    BY <2>2 DEF Written
  <2>5. CASE s \in bytes
    BY <2>3, <2>4, <2>5
  <2>6. CASE s \notin bytes
    <3>1. s \in oldest..head - 1
      BY <1>2, <1>3, <2>6 DEF RingInv, RingTypes
    <3>2. storage[o] = s
      BY <3>1 DEF RingInv, LiveBytesKept, ReadByte
    <3> QED BY <2>3, <2>4, <2>6, <3>2
  <2> QED BY <2>5, <2>6
<1> QED BY <1>5, <1>7, <1>8, <1>9 DEF RingInv

\* A resize moves every byte it retains to its new place.
LEMMA ResizeStep == ASSUME RingInv, NEW c \in Capacities, ResizeCapacity(c) PROVE RingInv'
<1>1. PICK n \in 0..Len(records) :
        /\ Retains(c, n)
        /\ records' = Without(n)
        /\ oldest' = OldestOf(Without(n))
        /\ storage' = Moved(c, OldestOf(Without(n)))
  BY DEF ResizeCapacity, Drops
<1> DEFINE low == OldestAfter(n)
<1>2. /\ Without(n) \in Seq(Record) /\ low \in Nat /\ oldest <= low /\ low <= head
      /\ low = IF n = Len(records) THEN head ELSE records[n + 1].seq
      /\ low = OldestOf(Without(n)) /\ (Without(n) = <<>> <=> n = Len(records))
      /\ InOrder(Without(n), low, head)
  BY ForgottenInOrder
<1> HIDE DEF low
<1>3. /\ c \in Nat /\ Valid(c) /\ ~open /\ capacity' = c
      /\ head \in Nat /\ capacity \in Nat /\ oldest \in Nat
      /\ UNCHANGED <<head, open, reserved>>
  BY DEF RingInv, RingTypes, ResizeCapacity
<1>4. head - low <= c
  <2>1. CASE n = Len(records)
    BY <1>2, <1>3, <2>1
  <2>2. CASE n # Len(records)
    <3>1. n + 1 \in n + 1..Len(records)
      BY <2>2 DEF RingInv, RingTypes
    <3> QED BY <1>1, <1>2, <2>2, <3>1 DEF Retains
  <2> QED BY <2>1, <2>2
<1> DEFINE from == low..head - 1
<1>5. \A s \in from : Place(c, s) \in 0..c - 1 /\ ReadByte(s) = s /\ s \in Nat
  <2> SUFFICES ASSUME NEW s \in from PROVE Place(c, s) \in 0..c - 1 /\ ReadByte(s) = s /\ s \in Nat
    OBVIOUS
  <2>1. c > 0 /\ s \in Nat /\ s \in oldest..head - 1
    BY <1>2, <1>3, <1>4
  <2> QED BY <1>3, <2>1, PlaceIsACell DEF RingInv, LiveBytesKept
<1>6. storage' = [o \in 0..c - 1 |->
                    IF \E s \in from : Place(c, s) = o
                    THEN ReadByte(CHOOSE s \in from : Place(c, s) = o)
                    ELSE NoByte]
  BY <1>1, <1>2 DEF Moved, ReadByte
<1>7. RingTypes'
  <2>1. storage' \in [0..c - 1 -> Nat \cup {NoByte}]
    <3>1. ASSUME NEW o \in 0..c - 1, \E s \in from : Place(c, s) = o
          PROVE  ReadByte(CHOOSE s \in from : Place(c, s) = o) \in Nat
      BY <1>5, <3>1
    <3> QED BY <1>6, <3>1
  <2> QED BY <1>1, <1>2, <1>3, <2>1 DEF RingInv, RingTypes
<1>8. LiveBytesFit'
  BY <1>1, <1>2, <1>3, <1>4 DEF LiveBytesFit, Ok
<1>9. LiveBytesKept'
  <2> SUFFICES ASSUME NEW s \in from PROVE storage'[Place(c, s)] = s
    BY <1>1, <1>2, <1>3 DEF LiveBytesKept, ReadByte
  <2>1. \A t \in from : Place(c, t) = Place(c, s) => t = s
    BY <1>2, <1>3, <1>4, ByteAtPlace
  <2>2. (CHOOSE t \in from : Place(c, t) = Place(c, s)) = s
    BY <2>1
  <2> QED BY <1>5, <1>6, <2>2
<1>10. InOrder(records', oldest', head')
  BY <1>1, <1>2, <1>3
<1> QED BY <1>7, <1>8, <1>9, <1>10 DEF RingInv

\* Every step preserves the invariant.
LEMMA RingStep == RingInv /\ [RingNext]_ringVars => RingInv'
<1> SUFFICES ASSUME RingInv, [RingNext]_ringVars PROVE RingInv'
  OBVIOUS
<1>1. CASE Reserve
  <2>1. PICK bytes \in Overhead..MaxRecord(capacity) :
          reserved' = [seq |-> head, size |-> bytes] /\ open' = TRUE /\ Ok
    BY <1>1 DEF Reserve
  <2>2. UNCHANGED <<capacity, storage, records, oldest, head>>
    BY <1>1 DEF Reserve
  <2>3. bytes \in Nat /\ 1 <= bytes /\ bytes <= capacity
    <3>1. capacity \in Nat
      BY DEF RingInv, RingTypes
    <3>2. MaxRecord(capacity) \in Nat /\ MaxRecord(capacity) <= capacity
      BY <3>1, ShareOfCapacity
    <3> QED BY <2>1, <3>1, <3>2
  <2>4. RingTypes' /\ LiveBytesFit'
    BY <2>1, <2>2, <2>3 DEF RingInv, RingTypes, LiveBytesFit, Record, Ok
  <2> QED BY <2>2, <2>4 DEF RingInv, LiveBytesKept, ReadByte
<1>2. CASE ReleaseReservation
  BY <1>2 DEF ReleaseReservation, RingInv, RingTypes, LiveBytesFit, LiveBytesKept, ReadByte, Ok
<1>3. CASE Commit
  BY <1>3, CommitStep
<1>4. CASE DiscardOldestRecords
  <2>1. PICK n \in 1..Len(records) : records' = Without(n) /\ oldest' = OldestAfter(n)
    BY <1>4 DEF DiscardOldestRecords
  <2>2. n \in 0..Len(records)
    OBVIOUS
  <2> QED BY <1>4, <2>1, <2>2, ForgetStep DEF DiscardOldestRecords
<1>5. CASE Clear
  <2>1. head \in Nat /\ capacity \in Nat /\ <<>> \in Seq(Record)
    BY DEF RingInv, RingTypes
  <2>2. InOrder(records', oldest', head')
    BY <1>5, <2>1, NoRecordsInOrder DEF Clear
  <2>3. RingTypes'
    BY <1>5, <2>1 DEF Clear, RingInv, RingTypes
  <2>4. LiveBytesFit' /\ LiveBytesKept'
    BY <1>5, <2>1 DEF Clear, RingInv, RingTypes, LiveBytesFit, LiveBytesKept, Ok
  <2> QED BY <2>2, <2>3, <2>4 DEF RingInv
<1>6. CASE \E c \in Capacities : ResizeCapacity(c)
  BY <1>6, ResizeStep
<1>7. CASE UNCHANGED ringVars
  BY <1>7 DEF ringVars, RingInv, RingTypes, LiveBytesFit, LiveBytesKept, ReadByte, Ok
<1> QED BY <1>1, <1>2, <1>3, <1>4, <1>5, <1>6, <1>7 DEF RingNext

\* The records lie side by side, fit the block, and every live byte is in its place.
THEOREM RingInvariant == RingSpec => []RingInv
<1>1. RingInit => RingInv
  BY RingStarts
<1>2. RingInv /\ [RingNext]_ringVars => RingInv'
  BY RingStep
<1> QED BY <1>1, <1>2, PTL DEF RingSpec

(***************************************************************************)
(* read_record finds every live record and returns the bytes committed, in *)
(* rings of any capacity, through any commits, discards, clears and        *)
(* resizes.                                                                *)
(***************************************************************************)
THEOREM LiveRecordsReadBack == RingSpec => [](RingTypes /\ ReadsAreTrue)
<1>1. RingInv => ReadsAreTrue
  <2> SUFFICES ASSUME RingInv, NEW i \in DOMAIN records
               PROVE  /\ Readable(records[i].seq)
                      /\ \A s \in records[i].seq..End(records[i]) - 1 : ReadByte(s) = s
    BY DEF ReadsAreTrue
  <2>1. /\ records \in Seq(Record) /\ oldest \in Nat /\ head \in Nat /\ i \in 1..Len(records)
        /\ InOrder(records, oldest, head)
    BY DEF RingInv, RingTypes
  <2>2. /\ records[i].seq \in Nat /\ records[i].size \in Nat
        /\ oldest <= records[i].seq /\ 1 <= records[i].size /\ End(records[i]) <= head
    BY <2>1, RecordsNumbers DEF InOrder
  <2>3. records[i].seq < head
    BY <2>1, <2>2 DEF End
  <2>4. Ok
    BY <2>1 DEF RingInv, LiveBytesFit
  <2>5. ASSUME NEW s \in records[i].seq..End(records[i]) - 1 PROVE ReadByte(s) = s
    <3>1. End(records[i]) \in Nat
      BY <2>1, RecordsNumbers
    <3>2. s \in oldest..head - 1
      BY <2>1, <2>2, <3>1
    <3> QED BY <3>2 DEF RingInv, LiveBytesKept
  <2> QED BY <2>2, <2>3, <2>4, <2>5 DEF Readable
<1>2. RingInv => RingTypes
  BY DEF RingInv
<1> QED BY <1>1, <1>2, RingInvariant, PTL

(***************************************************************************)
(* plan_room_for always ends with room: when every record is forgotten the *)
(* reserved one fits, so a commit never fails for want of room.            *)
(***************************************************************************)
RoomIsFound == open => RoomFor(Len(records))

THEOREM CommitFindsRoom == RingSpec => []RoomIsFound
<1>1. RingInv => RoomIsFound
  <2> SUFFICES ASSUME RingInv, open PROVE RoomFor(Len(records))
    BY DEF RoomIsFound
  <2>1. Len(records) \in 0..Len(records)
    BY DEF RingInv, RingTypes
  <2>2. OldestAfter(Len(records)) = head
    BY <2>1, ForgottenInOrder
  <2>3. head \in Nat /\ reserved.size \in Nat /\ reserved.size <= capacity /\ capacity \in Nat
    BY RecordNumbers DEF RingInv, RingTypes, LiveBytesFit
  <2> QED BY <2>2, <2>3 DEF RoomFor
<1> QED BY <1>1, RingInvariant, PTL
-------------------------------------------------------------------------------
(***************************************************************************)
(* The ring is a log.  The records lie side by side, so that what the      *)
(* abstract log adds up record by record is one difference of two byte     *)
(* sequences, the one plan_room_for and resize_capacity compute.           *)
(***************************************************************************)
\* A set of naturals that is not empty has a least element.
LEMMA LeastNatural ==
    ASSUME NEW T \in SUBSET Nat, T # {}
    PROVE  \E m \in T : \A k \in T : m <= k
<1>1. PICK m \in T : \A k \in T : <<k, m>> \notin OpToRel(<, Nat)
  BY WFMin, NatLessThanWellFounded, Zenon
<1>2. \A k \in T : ~(k < m)
  BY <1>1, Zenon DEF OpToRel
<1> QED BY <1>2

\* A set of naturals that holds 0 and each successor of its elements is all of them.
LEMMA SetInduction ==
    ASSUME NEW T \in SUBSET Nat, 0 \in T, \A n \in T : n + 1 \in T
    PROVE  T = Nat
<1> SUFFICES ASSUME Nat \ T # {} PROVE FALSE
  OBVIOUS
<1>1. PICK m \in Nat \ T : \A k \in Nat \ T : m <= k
  BY LeastNatural
<1>2. m # 0 /\ m - 1 \in Nat
  OBVIOUS
<1> QED BY <1>1, <1>2

\* Two sequences of the same elements are equal.
LEMMA SameSequence ==
    ASSUME NEW X, NEW s \in Seq(X), NEW t \in Seq(X), Len(s) = Len(t),
           \A i \in 1..Len(s) : s[i] = t[i]
    PROVE  s = t
OBVIOUS

Top(s) == CHOOSE x \in s : \A y \in s : x >= y

\* g sums the sizes of the first n records over any set of their places.
Sums(g, rs, n) ==
    g = [s \in SUBSET (1..n) |-> IF s = {} THEN 0 ELSE g[s \ {Top(s)}] + rs[Top(s)].size]

\* The largest of a set that holds its bound is the bound.
LEMMA TopOfRange ==
    ASSUME NEW n \in Nat, NEW s \in SUBSET (1..n), n \in s
    PROVE  Top(s) = n
<1>1. \A y \in s : n >= y
  OBVIOUS
<1>2. \A x \in s : (\A y \in s : x >= y) => x = n
  <2> SUFFICES ASSUME NEW x \in s, \A y \in s : x >= y PROVE x = n
    OBVIOUS
  <2>1. x \in Nat /\ x >= n /\ n >= x
    BY <1>1
  <2> QED BY <2>1
<1> QED BY <1>1, <1>2 DEF Top

\* Such a sum exists.
LEMMA SumsExist ==
    ASSUME NEW rs
    PROVE  \A n \in Nat : \E g : Sums(g, rs, n)
<1> DEFINE T == {n \in Nat : \E g : Sums(g, rs, n)}
<1>1. 0 \in T
  <2> DEFINE g == [s \in SUBSET (1..0) |-> 0]
  <2>1. \A s \in SUBSET (1..0) : s = {}
    OBVIOUS
  <2>2. Sums(g, rs, 0)
    BY <2>1 DEF Sums
  <2> QED BY <2>2
<1>2. ASSUME NEW n \in T PROVE n + 1 \in T
  <2>1. PICK g : Sums(g, rs, n)
    OBVIOUS
  <2>2. ASSUME NEW s \in SUBSET (1..n)
        PROVE  g[s] = IF s = {} THEN 0 ELSE g[s \ {Top(s)}] + rs[Top(s)].size
    BY <2>1 DEF Sums
  <2> DEFINE h == [s \in SUBSET (1..n + 1) |->
                     IF n + 1 \in s THEN g[s \ {n + 1}] + rs[n + 1].size ELSE g[s]]
  <2>3. ASSUME NEW s \in SUBSET (1..n + 1)
        PROVE  h[s] = IF s = {} THEN 0 ELSE h[s \ {Top(s)}] + rs[Top(s)].size
    <3>1. CASE n + 1 \in s
      <4>1. Top(s) = n + 1
        BY <3>1, TopOfRange
      <4>2. s \ {n + 1} \in SUBSET (1..n + 1) /\ n + 1 \notin s \ {n + 1}
        OBVIOUS
      <4>3. h[s \ {n + 1}] = g[s \ {n + 1}]
        BY <4>2
      <4> QED BY <3>1, <4>1, <4>3
    <3>2. CASE n + 1 \notin s
      <4>1. s \in SUBSET (1..n)
        BY <3>2
      <4>2. s \ {Top(s)} \in SUBSET (1..n + 1) /\ n + 1 \notin s \ {Top(s)}
        BY <3>2
      <4>3. h[s] = g[s] /\ h[s \ {Top(s)}] = g[s \ {Top(s)}]
        BY <3>2, <4>2
      <4> QED BY <2>2, <4>1, <4>3
    <3> QED BY <3>1, <3>2
  <2>4. Sums(h, rs, n + 1)
    <3> DEFINE k == [s \in SUBSET (1..n + 1) |->
                       IF s = {} THEN 0 ELSE h[s \ {Top(s)}] + rs[Top(s)].size]
    <3>1. h = k
      <4>1. \A s \in SUBSET (1..n + 1) : h[s] = k[s]
        BY <2>3
      <4>2. h = [s \in SUBSET (1..n + 1) |-> h[s]] /\ k = [s \in SUBSET (1..n + 1) |-> k[s]]
        OBVIOUS
      <4> HIDE DEF h, k
      <4> QED BY <4>1, <4>2, Zenon
    <3> HIDE DEF h
    <3> QED BY <3>1, Zenon DEF Sums
  <2> QED BY <2>4
<1>3. T = Nat
  <2> HIDE DEF T
  <2>1. T \in SUBSET Nat
    BY DEF T
  <2> QED BY <1>1, <1>2, <2>1, SetInduction
<1> QED BY <1>3

\* The fold over a sequence of records is such a sum over all their places.
LEMMA SizeIsASum ==
    ASSUME NEW rs \in Seq(Record)
    PROVE  \E g : Sums(g, rs, Len(rs)) /\ Log!Size(rs) = g[1..Len(rs)]
<1> DEFINE P(g) == g = [s \in SUBSET (DOMAIN rs) |->
                          IF s = {} THEN 0
                          ELSE g[s \ {CHOOSE x \in s : \A y \in s : x >= y}]
                               + rs[CHOOSE x \in s : \A y \in s : x >= y].size]
<1>1. Log!Size(rs) = (CHOOSE g : P(g))[DOMAIN rs]
  BY DEF Log!Size, Log!FoldLeft, Log!MapThenFoldSet, Log!Max
<1>2. DOMAIN rs = 1..Len(rs)
  OBVIOUS
<1>3. \A g : P(g) <=> Sums(g, rs, Len(rs))
  BY <1>2, Zenon DEF Sums, Top
<1>4. \E g : P(g)
  <2> HIDE DEF P
  <2>1. Len(rs) \in Nat
    OBVIOUS
  <2> QED BY <1>3, <2>1, SumsExist
<1> DEFINE f == CHOOSE g : P(g)
<1>5. P(f)
  <2> HIDE DEF P
  <2> QED BY <1>4
<1>6. Sums(f, rs, Len(rs)) /\ Log!Size(rs) = f[1..Len(rs)]
  <2>1. Sums(f, rs, Len(rs))
    <3> HIDE DEF P, f
    <3> QED BY <1>3, <1>5
  <2> HIDE DEF P
  <2> QED BY <1>1, <1>2, <2>1, Zenon
<1> HIDE DEF f
<1> QED BY <1>6

\* Side by side, the first k records reach from the first byte to the end of the k-th.
LEMMA PrefixSums ==
    ASSUME NEW rs \in Seq(Record), NEW from \in Nat, NEW to \in Nat, InOrder(rs, from, to),
           NEW g, Sums(g, rs, Len(rs))
    PROVE  \A k \in 0..Len(rs) : g[1..k] = IF k = 0 THEN 0 ELSE End(rs[k]) - from
<1> DEFINE n == Len(rs)
           T == {k \in Nat : k <= n => g[1..k] = IF k = 0 THEN 0 ELSE End(rs[k]) - from}
<1> HIDE DEF n
<1>0. ASSUME NEW s \in SUBSET (1..n)
      PROVE  g[s] = IF s = {} THEN 0 ELSE g[s \ {Top(s)}] + rs[Top(s)].size
  <2>1. Sums(g, rs, n)
    BY DEF n
  <2> QED BY <2>1 DEF Sums
<1>1. n \in Nat /\ \A s \in SUBSET (1..n) :
         g[s] = IF s = {} THEN 0 ELSE g[s \ {Top(s)}] + rs[Top(s)].size
  <2>1. n \in Nat
    BY DEF n
  <2> QED BY <1>0, <2>1
<1>2. 0 \in T
  <2>1. 1..0 = {}
    OBVIOUS
  <2> QED BY <1>1, <2>1
<1>3. ASSUME NEW k \in T PROVE k + 1 \in T
  <2> SUFFICES ASSUME k + 1 <= n PROVE g[1..k + 1] = End(rs[k + 1]) - from
    OBVIOUS
  <2>1. n \in Nat /\ k \in Nat /\ k + 1 \in 1..n
    BY <1>1
  <2>2. g[1..k + 1] = g[(1..k + 1) \ {Top(1..k + 1)}] + rs[Top(1..k + 1)].size
    <3>1. 1..k + 1 \in SUBSET (1..n)
      <4> SUFFICES ASSUME NEW i \in 1..k + 1 PROVE i \in 1..n
        OBVIOUS
      <4> QED BY <2>1
    <3>2. 1..k + 1 # {}
      <4>1. 1 \in 1..k + 1
        BY <2>1
      <4> QED BY <4>1
    <3> QED BY <1>1, <3>1, <3>2
  <2>3. Top(1..k + 1) = k + 1
    <3>1. 1..k + 1 \in SUBSET (1..k + 1) /\ k + 1 \in 1..k + 1 /\ k + 1 \in Nat
      BY <2>1
    <3> QED BY <3>1, TopOfRange
  <2>4. (1..k + 1) \ {k + 1} = 1..k
    BY <2>1
  <2>5. g[1..k + 1] = g[1..k] + rs[k + 1].size
    BY <2>2, <2>3, <2>4
  <2>6. /\ rs[k + 1].seq \in Nat /\ rs[k + 1].size \in Nat
        /\ End(rs[k + 1]) = rs[k + 1].seq + rs[k + 1].size
    BY <2>1, RecordsNumbers DEF End, n
  <2>7. CASE k = 0
    <3>1. rs[1].seq = from /\ g[1..k] = 0
      BY <2>1, <2>7 DEF InOrder, n
    <3> QED BY <2>5, <2>6, <2>7, <3>1
  <2>8. CASE k # 0
    <3>1. k \in 1..n /\ k # n
      BY <1>1, <2>1, <2>8
    <3>2. End(rs[k]) = rs[k + 1].seq
      BY <3>1 DEF InOrder, n
    <3>3. g[1..k] = End(rs[k]) - from
      BY <2>1, <2>8, <3>1
    <3> QED BY <2>5, <2>6, <3>2, <3>3
  <2> QED BY <2>7, <2>8
<1>4. T = Nat
  <2> HIDE DEF T
  <2>1. T \in SUBSET Nat
    BY DEF T
  <2> QED BY <1>2, <1>3, <2>1, SetInduction
<1> QED BY <1>4 DEF n

\* Records side by side take the bytes from the first to the end of the last.
LEMMA SizeOfRun ==
    ASSUME NEW rs \in Seq(Record), NEW from \in Nat, NEW to \in Nat, InOrder(rs, from, to)
    PROVE  Log!Size(rs) = to - from
<1>1. PICK g : Sums(g, rs, Len(rs)) /\ Log!Size(rs) = g[1..Len(rs)]
  BY SizeIsASum
<1>2. Len(rs) \in 0..Len(rs) /\ (Len(rs) = 0 <=> rs = <<>>)
  OBVIOUS
<1>3. Log!Size(rs) = IF Len(rs) = 0 THEN 0 ELSE End(rs[Len(rs)]) - from
  BY <1>1, <1>2, PrefixSums
<1>4. CASE Len(rs) = 0
  BY <1>2, <1>3, <1>4 DEF InOrder
<1>5. CASE Len(rs) # 0
  <2>1. Len(rs) \in 1..Len(rs)
    BY <1>5
  <2>2. End(rs[Len(rs)]) = to
    BY <2>1 DEF InOrder
  <2> QED BY <1>3, <1>5, <2>2
<1> QED BY <1>4, <1>5

\* The log can keep an end of a run of records when its bytes and each of them fit.
LEMMA KeepableEnd ==
    ASSUME NEW rs \in Seq(Record), NEW from \in Nat, NEW to \in Nat, InOrder(rs, from, to),
           NEW n \in 0..Len(rs), NEW low, low = IF n = Len(rs) THEN to ELSE rs[n + 1].seq,
           NEW c \in Nat
    PROVE  Log!Keepable(SubSeq(rs, n + 1, Len(rs)), c)
           <=> to - low <= c /\ \A i \in n + 1..Len(rs) : rs[i].size <= MaxRecord(c)
<1> DEFINE qs == SubSeq(rs, n + 1, Len(rs))
           first == IF n = 0 THEN from ELSE End(rs[n])
<1>1. first = low
  <2>1. CASE n = 0
    <3>1. rs = <<>> <=> Len(rs) = 0
      OBVIOUS
    <3> QED BY <2>1, <3>1 DEF InOrder
  <2>2. CASE n # 0
    <3>1. n \in 1..Len(rs)
      BY <2>2
    <3> QED BY <2>2, <3>1 DEF InOrder
  <2> QED BY <2>1, <2>2
<1>2. /\ qs \in Seq(Record) /\ Len(qs) = Len(rs) - n /\ low \in Nat /\ InOrder(qs, low, to)
  <2> HIDE DEF qs
  <2>1. low = IF n = 0 THEN from ELSE End(rs[n])
    BY <1>1
  <2> QED BY <2>1, RestInOrder DEF qs
<1>3. \A i \in n + 1..Len(rs) : rs[i] = qs[i - n] /\ i - n \in 1..Len(qs)
  <2> SUFFICES ASSUME NEW i \in n + 1..Len(rs) PROVE rs[i] = qs[i - n] /\ i - n \in 1..Len(qs)
    OBVIOUS
  <2>1. \A j \in 1..Len(rs) - n : qs[j] = rs[j + n]
    BY RestElements
  <2> HIDE DEF qs
  <2>2. i - n \in 1..Len(rs) - n /\ (i - n) + n = i /\ Len(rs) \in Nat
    OBVIOUS
  <2> QED BY <1>2, <2>1, <2>2
<1> HIDE DEF qs
<1>4. Log!Size(qs) = to - low
  BY <1>2, SizeOfRun
<1>5. DOMAIN qs = 1..Len(qs)
  BY <1>2
<1>6. (\A i \in 1..Len(qs) : qs[i].size <= MaxRecord(c))
      <=> \A i \in n + 1..Len(rs) : rs[i].size <= MaxRecord(c)
  <2>1. \A i \in 1..Len(qs) : i + n \in n + 1..Len(rs) /\ (i + n) - n = i
    BY <1>2
  <2> QED BY <1>3, <2>1
<1>7. Log!Keepable(qs, c) <=> Log!Size(qs) <= c /\ \A i \in 1..Len(qs) : qs[i].size <= MaxRecord(c)
  BY <1>5 DEF Log!Keepable, MaxRecord
<1> QED BY <1>4, <1>6, <1>7 DEF qs

\* The longest end that can be kept starts where the first that can be kept does.
LEMMA NewestEnd ==
    ASSUME NEW q \in Seq(Record), NEW c, NEW n \in 0..Len(q),
           Log!Keepable(SubSeq(q, n + 1, Len(q)), c),
           \A m \in 0..n - 1 : ~Log!Keepable(SubSeq(q, m + 1, Len(q)), c)
    PROVE  Log!Newest(q, c) = SubSeq(q, n + 1, Len(q))
<1> DEFINE K(i) == Log!Keepable(SubSeq(q, i, Len(q)), c)
           ends == {i \in 1..Len(q) + 1 : K(i)}
<1>1. Log!Newest(q, c) = SubSeq(q, CHOOSE i \in ends : \A j \in ends : i <= j, Len(q))
  BY DEF Log!Newest
<1>2. n + 1 \in ends
  <2>1. n + 1 \in 1..Len(q) + 1
    OBVIOUS
  <2> QED BY <2>1
<1>3. \A j \in ends : n + 1 <= j
  <2> SUFFICES ASSUME NEW j \in ends, j < n + 1 PROVE FALSE
    OBVIOUS
  <2>1. j - 1 \in 0..n - 1 /\ (j - 1) + 1 = j /\ K(j)
    OBVIOUS
  <2> HIDE DEF ends
  <2> QED BY <2>1
<1>4. ends \subseteq Nat
  OBVIOUS
<1> HIDE DEF ends
<1>5. (CHOOSE i \in ends : \A j \in ends : i <= j) = n + 1
  <2>1. \A i \in ends : (\A j \in ends : i <= j) => i = n + 1
    <3> SUFFICES ASSUME NEW i \in ends, \A j \in ends : i <= j PROVE i = n + 1
      OBVIOUS
    <3>1. i <= n + 1 /\ n + 1 <= i /\ i \in Nat
      BY <1>2, <1>3, <1>4
    <3> QED BY <3>1
  <2> QED BY <1>2, <1>3, <2>1
<1> QED BY <1>1, <1>5
-------------------------------------------------------------------------------
\* No record is larger than the capacity allows, nor is the one being written.
SizesFit ==
    /\ \A i \in 1..Len(records) : records[i].size <= MaxRecord(capacity)
    /\ open => reserved.size <= MaxRecord(capacity)

LogInv == RingInv /\ SizesFit

\* Forgetting the first records leaves no larger one.
LEMMA RestFits ==
    ASSUME NEW rs \in Seq(Record), NEW n \in 0..Len(rs), NEW c,
           \A i \in n + 1..Len(rs) : rs[i].size <= MaxRecord(c)
    PROVE  \A i \in 1..Len(rs) - n : SubSeq(rs, n + 1, Len(rs))[i].size <= MaxRecord(c)
<1> TAKE i \in 1..Len(rs) - n
<1>1. i + n \in n + 1..Len(rs)
  OBVIOUS
<1> QED BY <1>1, RestElements

\* No step lets in a record that is too large.
LEMMA SizesStep == LogInv /\ [RingNext]_ringVars => LogInv'
<1> SUFFICES ASSUME LogInv, [RingNext]_ringVars PROVE LogInv'
  OBVIOUS
<1>1. RingInv' /\ records \in Seq(Record)
  BY RingStep DEF LogInv, RingInv, RingTypes
<1>2. CASE Reserve
  BY <1>1, <1>2 DEF Reserve, LogInv, SizesFit
<1>3. CASE ReleaseReservation
  BY <1>1, <1>3 DEF ReleaseReservation, LogInv, SizesFit
<1>4. CASE Commit
  <2>1. PICK n \in 0..Len(records) : records' = Append(Without(n), reserved)
    BY <1>4 DEF Commit
  <2>2. reserved \in Record /\ open /\ ~open' /\ capacity' = capacity
    BY <1>4 DEF Commit, LogInv, RingInv, RingTypes
  <2>3. \A i \in 1..Len(records) - n : Without(n)[i].size <= MaxRecord(capacity)
    BY <1>1, RestFits DEF Without, LogInv, SizesFit
  <2>4. Without(n) \in Seq(Record) /\ Len(Without(n)) = Len(records) - n
    BY <1>1, RestElements DEF Without
  <2>5. /\ Len(records') = (Len(records) - n) + 1
        /\ \A i \in 1..Len(records) - n : records'[i] = Without(n)[i]
        /\ records'[(Len(records) - n) + 1] = reserved
    BY <2>1, <2>2, <2>4, AppendRecord
  <2>6. reserved.size <= MaxRecord(capacity)
    BY <2>2 DEF LogInv, SizesFit
  <2>7. ASSUME NEW i \in 1..Len(records') PROVE records'[i].size <= MaxRecord(capacity)
    <3>1. i \in 1..Len(records) - n \/ i = (Len(records) - n) + 1
      BY <1>1, <2>5
    <3> QED BY <2>3, <2>5, <2>6, <3>1
  <2> QED BY <1>1, <2>2, <2>7 DEF LogInv, SizesFit
<1>5. CASE DiscardOldestRecords
  <2>1. PICK n \in 1..Len(records) : records' = Without(n)
    BY <1>5 DEF DiscardOldestRecords
  <2>2. n \in 0..Len(records)
    OBVIOUS
  <2>3. Len(records') = Len(records) - n
    BY <1>1, <2>1, <2>2, RestElements DEF Without
  <2>4. \A i \in 1..Len(records) - n : records'[i].size <= MaxRecord(capacity)
    BY <1>1, <2>1, <2>2, RestFits DEF Without, LogInv, SizesFit
  <2> QED BY <1>1, <1>5, <2>3, <2>4 DEF DiscardOldestRecords, LogInv, SizesFit
<1>6. CASE Clear
  BY <1>1, <1>6 DEF Clear, LogInv, SizesFit
<1>7. ASSUME NEW c \in Capacities, ResizeCapacity(c) PROVE LogInv'
  <2>1. PICK n \in 0..Len(records) : records' = Without(n) /\ Retains(c, n)
    BY <1>7 DEF ResizeCapacity, Drops
  <2>2. Len(records') = Len(records) - n
    BY <1>1, <2>1, RestElements DEF Without
  <2>3. \A i \in 1..Len(records) - n : records'[i].size <= MaxRecord(c)
    BY <1>1, <2>1, RestFits DEF Without, Retains
  <2> QED BY <1>1, <1>7, <2>2, <2>3 DEF ResizeCapacity, LogInv, SizesFit
<1>8. CASE UNCHANGED ringVars
  BY <1>1, <1>8 DEF ringVars, LogInv, SizesFit
<1> QED BY <1>2, <1>3, <1>4, <1>5, <1>6, <1>7, <1>8 DEF RingNext

\* A commit writes to the log what the log adds by itself.
LEMMA CommitAdds == ASSUME LogInv, Commit PROVE Log!Add
<1> DEFINE q == Append(records, reserved)
<1>1. PICK n \in 0..Len(records) : Discards(n) /\ records' = Append(Without(n), reserved)
  BY DEF Commit
<1>2. /\ records \in Seq(Record) /\ oldest \in Nat /\ head \in Nat /\ capacity \in Nat
      /\ InOrder(records, oldest, head) /\ reserved \in Record
      /\ reserved.seq = head /\ reserved.size \in Nat /\ 1 <= reserved.size
      /\ reserved.size <= MaxRecord(capacity)
      /\ \A i \in 1..Len(records) : records[i].size <= MaxRecord(capacity)
  BY RecordNumbers DEF LogInv, RingInv, RingTypes, LiveBytesFit, SizesFit, Commit
<1>3. head' = End(reserved) /\ End(reserved) = head + reserved.size /\ UNCHANGED capacity
  BY <1>2 DEF Commit, End
<1>4. reserved = [seq |-> head, size |-> head' - head]
  <2>1. head' - head = reserved.size
    BY <1>2, <1>3
  <2> QED BY <1>2, <2>1 DEF Record
<1>5. /\ q \in Seq(Record) /\ Len(q) = Len(records) + 1
      /\ \A i \in 1..Len(records) : q[i] = records[i]
      /\ q[Len(records) + 1] = reserved
  BY <1>2, AppendRecord
<1>6. InOrder(q, oldest, head')
  BY <1>2, <1>3, LastInOrder
<1>7. Len(records) \in Nat /\ head' \in Nat
  BY <1>2, <1>3
<1> HIDE DEF q
<1>8. ASSUME NEW m \in 0..Len(records)
      PROVE  Log!Keepable(SubSeq(q, m + 1, Len(q)), capacity) <=> RoomFor(m)
  <2>1. /\ OldestAfter(m) \in Nat
        /\ OldestAfter(m) = IF m = Len(records) THEN head ELSE records[m + 1].seq
    BY ForgottenInOrder DEF LogInv
  <2>2. OldestAfter(m) = q[m + 1].seq
    <3>1. CASE m = Len(records)
      BY <1>2, <1>5, <2>1, <3>1
    <3>2. CASE m # Len(records)
      <4>1. m + 1 \in 1..Len(records)
        BY <1>7, <3>2
      <4> QED BY <1>5, <2>1, <3>2, <4>1
    <3> QED BY <3>1, <3>2
  <2>3. m \in 0..Len(q) /\ m # Len(q)
    BY <1>5, <1>7
  <2>4. \A i \in m + 1..Len(q) : q[i].size <= MaxRecord(capacity)
    <3> SUFFICES ASSUME NEW i \in m + 1..Len(q) PROVE q[i].size <= MaxRecord(capacity)
      OBVIOUS
    <3>1. i \in 1..Len(records) \/ i = Len(records) + 1
      BY <1>5, <1>7
    <3> QED BY <1>2, <1>5, <3>1
  <2>5. Log!Keepable(SubSeq(q, m + 1, Len(q)), capacity)
        <=> head' - q[m + 1].seq <= capacity /\ \A i \in m + 1..Len(q) : q[i].size <= MaxRecord(capacity)
    BY <1>2, <1>5, <1>6, <1>7, <2>3, KeepableEnd
  <2>6. head' - q[m + 1].seq <= capacity <=> RoomFor(m)
    <3> DEFINE low == OldestAfter(m)
               bytes == reserved.size
    <3>1. low \in Nat /\ bytes \in Nat /\ head \in Nat
      BY <1>2, <2>1
    <3>2. head' = head + bytes /\ q[m + 1].seq = low
      BY <1>3, <2>2
    <3>3. RoomFor(m) <=> head + bytes - low <= capacity
      BY DEF RoomFor
    <3> HIDE DEF low, bytes
    <3>4. (head + bytes) - low = head + bytes - low
      BY <3>1
    <3> QED BY <3>2, <3>3, <3>4
  <2> QED BY <2>4, <2>5, <2>6
<1>9. Log!Newest(q, capacity) = SubSeq(q, n + 1, Len(q))
  <2>1. n \in 0..Len(q) /\ \A m \in 0..n - 1 : m \in 0..Len(records)
    BY <1>5, <1>7
  <2>2. Log!Keepable(SubSeq(q, n + 1, Len(q)), capacity)
    BY <1>1, <1>8 DEF Discards
  <2>3. \A m \in 0..n - 1 : ~Log!Keepable(SubSeq(q, m + 1, Len(q)), capacity)
    BY <1>1, <1>8, <2>1 DEF Discards
  <2> QED BY <1>5, <2>1, <2>2, <2>3, NewestEnd
<1>10. records' = SubSeq(q, n + 1, Len(q))
  <2> DEFINE a == SubSeq(q, n + 1, Len(q))
             b == Without(n)
  <2>1. n \in 0..Len(q) /\ Len(q) - n = (Len(records) - n) + 1
    BY <1>5, <1>7
  <2>2. /\ a \in Seq(Record) /\ Len(a) = (Len(records) - n) + 1
        /\ \A i \in 1..(Len(records) - n) + 1 : a[i] = q[i + n]
    BY <1>5, <2>1, RestElements
  <2>3. /\ b \in Seq(Record) /\ Len(b) = Len(records) - n
        /\ \A i \in 1..Len(records) - n : b[i] = records[i + n]
    BY <1>2, RestElements DEF Without
  <2> HIDE DEF a, b
  <2>4. /\ Append(b, reserved) \in Seq(Record)
        /\ Len(Append(b, reserved)) = (Len(records) - n) + 1
        /\ \A i \in 1..Len(records) - n : Append(b, reserved)[i] = b[i]
        /\ Append(b, reserved)[(Len(records) - n) + 1] = reserved
    BY <1>2, <2>3, AppendRecord
  <2>5. ASSUME NEW i \in 1..(Len(records) - n) + 1 PROVE Append(b, reserved)[i] = a[i]
    <3>1. CASE i \in 1..Len(records) - n
      <4>1. i + n \in 1..Len(records)
        BY <1>7, <3>1
      <4> QED BY <1>5, <2>2, <2>3, <2>4, <3>1, <4>1
    <3>2. CASE i = (Len(records) - n) + 1
      <4>1. i + n = Len(records) + 1
        BY <1>7, <3>2
      <4> QED BY <1>5, <2>2, <2>4, <3>2, <4>1
    <3>3. i \in 1..Len(records) - n \/ i = (Len(records) - n) + 1
      BY <1>7
    <3> QED BY <3>1, <3>2, <3>3
  <2>6. Append(b, reserved) = a
    BY <2>2, <2>4, <2>5, SameSequence
  <2> QED BY <1>1, <2>6 DEF a, b
<1>11. head' > head
  BY <1>2, <1>3
<1>12. records' = Log!Newest(Append(records, [seq |-> head, size |-> head' - head]), capacity)
  BY <1>4, <1>9, <1>10 DEF q
<1> QED BY <1>3, <1>11, <1>12 DEF Log!Add

\* A resize keeps what the log keeps in the new capacity.
LEMMA ResizeShrinks == ASSUME LogInv, NEW c \in Capacities, ResizeCapacity(c) PROVE Log!Resize
<1>1. PICK n \in 0..Len(records) : Drops(c, n) /\ records' = Without(n)
  BY DEF ResizeCapacity
<1>2. /\ records \in Seq(Record) /\ oldest \in Nat /\ head \in Nat /\ c \in Nat
      /\ InOrder(records, oldest, head) /\ Len(records) \in Nat
  BY DEF LogInv, RingInv, RingTypes
<1>3. ASSUME NEW m \in 0..Len(records)
      PROVE  Log!Keepable(SubSeq(records, m + 1, Len(records)), c) <=> Retains(c, m)
  <2> DEFINE low == IF m = Len(records) THEN head ELSE records[m + 1].seq
  <2>1. Log!Keepable(SubSeq(records, m + 1, Len(records)), c)
        <=> head - low <= c /\ \A i \in m + 1..Len(records) : records[i].size <= MaxRecord(c)
    <3> HIDE DEF low
    <3>1. low = IF m = Len(records) THEN head ELSE records[m + 1].seq
      BY DEF low
    <3> QED BY <1>2, <3>1, KeepableEnd, SMTT(40)
  <2>2. ASSUME NEW i \in m + 1..Len(records)
        PROVE  low \in Nat /\ records[i].seq \in Nat /\ low <= records[i].seq
    <3>1. m # Len(records) /\ m + 1 \in 1..Len(records) /\ i \in 1..Len(records)
      BY <1>2
    <3>2. /\ records[m + 1].seq \in Nat /\ records[i].seq \in Nat
          /\ End(records[m + 1]) \in Nat /\ records[m + 1].seq <= End(records[m + 1])
      BY <1>2, <3>1, RecordsNumbers, SMTT(40) DEF End
    <3>3. i # m + 1 => End(records[m + 1]) <= records[i].seq
      <4>1. i # m + 1 => i \in (m + 1) + 1..Len(records)
        BY <1>2
      <4> QED BY <1>2, <3>1, <4>1 DEF InOrder
    <3> QED BY <3>1, <3>2, <3>3
  <2>3. head - low <= c <=> \A i \in m + 1..Len(records) : head - records[i].seq <= c
    <3>1. CASE m = Len(records)
      BY <1>2, <3>1
    <3>2. CASE m # Len(records)
      <4>1. m + 1 \in m + 1..Len(records) /\ low = records[m + 1].seq
        BY <1>2, <3>2
      <4> HIDE DEF low
      <4> QED BY <1>2, <2>2, <4>1
    <3> QED BY <3>1, <3>2
  <2> HIDE DEF low
  <2> QED BY <2>1, <2>3 DEF Retains
<1>4. Log!Newest(records, c) = SubSeq(records, n + 1, Len(records))
  <2>1. \A m \in 0..n - 1 : m \in 0..Len(records)
    BY <1>2
  <2>2. Log!Keepable(SubSeq(records, n + 1, Len(records)), c)
    BY <1>1, <1>3 DEF Drops
  <2>3. \A m \in 0..n - 1 : ~Log!Keepable(SubSeq(records, m + 1, Len(records)), c)
    BY <1>1, <1>3, <2>1 DEF Drops
  <2> QED BY <1>2, <2>2, <2>3, NewestEnd
<1>5. capacity' = c /\ UNCHANGED head
  BY DEF ResizeCapacity
<1> QED BY <1>1, <1>4, <1>5 DEF Log!Resize, Without

(***************************************************************************)
(* The ring implements HistoryLog, for any capacities, share and record    *)
(* sizes: a commit, a discard, a clear and a resize each keep exactly the  *)
(* newest records that fit, never change or reorder one, and never bring   *)
(* back one that was forgotten.                                            *)
(***************************************************************************)
THEOREM RingIsALog == RingSpec => ImplementsLog
<1>1. RingInit => Log!Init
  BY DEF RingInit, Log!Init
<1>2. RingInit => LogInv
  <2>1. RingInit => SizesFit
    BY DEF RingInit, SizesFit
  <2> QED BY <2>1, RingStarts DEF LogInv
<1>3. LogInv /\ [RingNext]_ringVars => [Log!Next]_(Log!vars)
  <2> SUFFICES ASSUME LogInv, [RingNext]_ringVars PROVE [Log!Next]_(Log!vars)
    OBVIOUS
  <2>1. records \in Seq(Record)
    BY DEF LogInv, RingInv, RingTypes
  <2>2. CASE Reserve
    BY <2>2 DEF Reserve, Log!vars
  <2>3. CASE ReleaseReservation
    BY <2>3 DEF ReleaseReservation, Log!vars
  <2>4. CASE Commit
    BY <2>4, CommitAdds DEF Log!Next
  <2>5. CASE DiscardOldestRecords
    BY <2>5 DEF DiscardOldestRecords, Without, Log!Next, Log!Drop
  <2>6. CASE Clear
    <3>1. CASE records = <<>>
      BY <2>6, <3>1 DEF Clear, Log!vars
    <3>2. CASE records # <<>>
      <4>1. Len(records) \in 1..Len(records) /\ Len(records) \in 0..Len(records)
        BY <2>1, <3>2
      <4>2. SubSeq(records, Len(records) + 1, Len(records)) = <<>>
        <5>1. Without(Len(records)) = <<>>
          BY <4>1, ForgottenInOrder DEF LogInv
        <5> QED BY <5>1 DEF Without
      <4>3. records' = SubSeq(records, Len(records) + 1, Len(records)) /\ UNCHANGED <<capacity, head>>
        BY <2>6, <4>2 DEF Clear
      <4> QED BY <4>1, <4>3 DEF Log!Next, Log!Drop
    <3> QED BY <3>1, <3>2
  <2>7. ASSUME NEW c \in Capacities, ResizeCapacity(c) PROVE Log!Resize
    BY <2>7, ResizeShrinks
  <2>8. CASE UNCHANGED ringVars
    BY <2>8 DEF ringVars, Log!vars
  <2> QED BY <2>2, <2>3, <2>4, <2>5, <2>6, <2>7, <2>8 DEF RingNext, Log!Next
<1> QED BY <1>1, <1>2, <1>3, SizesStep, PTL DEF RingSpec, ImplementsLog, Log!Spec
HIDE RingAssumption
-------------------------------------------------------------------------------
(***************************************************************************)
(* The grid.                                                               *)
(***************************************************************************)
USE GlyphsAssumption
-------------------------------------------------------------------------------
(***************************************************************************)
(* Rows.                                                                   *)
(***************************************************************************)
Plain(cell) == cell \in Cell /\ cell.kind # "lead" /\ cell.kind # "rest"

\* What the cells of this module are.
LEMMA CellKinds ==
    /\ Blank \in Cell /\ Rest \in Cell /\ Plain(Blank) /\ Rest.kind = "rest"
    /\ \A g \in Glyphs : /\ Plain(Narrow(g)) /\ Plain(Squeezed(g))
                         /\ Lead(g) \in Cell /\ Lead(g).kind = "lead"
BY DEF Blank, Rest, Narrow, Squeezed, Lead, Plain, Cell

\* A cell of kind rest is the one of ScreenRow, and every cell shows a glyph.
LEMMA CellContents ==
    ASSUME NEW cell \in Cell
    PROVE  (cell.kind = "rest" => cell = Rest) /\ cell.glyph \in Glyphs
BY GlyphsAssumption DEF Blank, Rest, Narrow, Squeezed, Lead, Cell

LEMMA RowDomain ==
    ASSUME NEW n \in Nat, NEW r \in Cells(n)
    PROVE  DOMAIN r = 0..n - 1 /\ \A c \in 0..n - 1 : r[c] \in Cell
BY DEF Cells

LEMMA EmptyIsWhole ==
    ASSUME NEW n \in Nat, NEW fill, Plain(fill)
    PROVE  EmptyCells(n, fill) \in Cells(n) /\ Whole(EmptyCells(n, fill))
BY DEF EmptyCells, Cells, Whole, Plain

\* In a whole row a lead and its rest are in the same spans.
LEMMA TouchedTogether ==
    ASSUME NEW n \in Nat, NEW r \in Cells(n), Whole(r),
           NEW first \in Nat, NEW last \in Int, last <= n - 1,
           NEW c \in 0..n - 1, r[c].kind = "lead"
    PROVE  c \in Touched(r, first, last) <=> c + 1 \in Touched(r, first, last)
<1>1. DOMAIN r = 0..n - 1
  BY RowDomain
<1>2. c + 1 \in 0..n - 1 /\ r[c + 1].kind = "rest"
  BY <1>1 DEF Whole
<1>3. ASSUME NEW d \in 0..n - 1 PROVE c \in Span(r, d) <=> c + 1 \in Span(r, d)
  <2> DEFINE b == BaseColumn(r, d)
  <2>1. b \in 0..n - 1
    BY <1>1 DEF BaseColumn
  <2>2. Span(r, d) = IF r[b].kind = "lead" THEN {b, b + 1} ELSE {b}
    BY DEF Span
  <2>3. r[b].kind = "lead" => r[b + 1].kind = "rest"
    BY <1>1, <2>1 DEF Whole
  <2>4. r[b].kind = "rest" => FALSE
    <3>1. CASE r[d].kind = "rest"
      <4>1. d - 1 \in DOMAIN r /\ r[d - 1].kind = "lead"
        BY <1>1, <3>1 DEF Whole
      <4> QED BY <3>1, <4>1 DEF BaseColumn
    <3>2. CASE r[d].kind # "rest"
      BY <3>2 DEF BaseColumn
    <3> QED BY <3>1, <3>2
  <2> HIDE DEF b
  <2>5. c \in Span(r, d) => c = b /\ r[b].kind = "lead"
    BY <2>2, <2>3
  <2>6. c + 1 \in Span(r, d) => c = b /\ r[b].kind = "lead"
    BY <1>2, <2>1, <2>2, <2>4
  <2> QED BY <2>2, <2>5, <2>6
<1> QED BY <1>3 DEF Touched

\* Clearing spans leaves a row whole.
LEMMA ClearedSpans ==
    ASSUME NEW n \in Nat, NEW r \in Cells(n), Whole(r),
           NEW first \in Nat, NEW last \in Int, last <= n - 1,
           NEW fill, Plain(fill)
    PROVE  LET y == ClearSpans(r, first, last, fill)
           IN  y \in Cells(n) /\ Whole(y)
<1> DEFINE y == ClearSpans(r, first, last, fill)
           gone == Touched(r, first, last)
<1>1. DOMAIN r = 0..n - 1 /\ \A c \in 0..n - 1 : r[c] \in Cell
  BY RowDomain
<1>2. y = [c \in 0..n - 1 |-> IF c \in gone THEN fill ELSE r[c]]
  BY <1>1 DEF ClearSpans
<1>3. \A c \in 0..n - 1 : r[c].kind = "lead" => (c \in gone <=> c + 1 \in gone)
  BY TouchedTogether
<1> HIDE DEF gone, y
<1>4. y \in Cells(n)
  BY <1>1, <1>2 DEF Cells, Plain
<1>5. Whole(y)
  <2> SUFFICES ASSUME NEW c \in 0..n - 1
               PROVE  /\ y[c].kind = "lead" => c + 1 \in 0..n - 1 /\ y[c + 1].kind = "rest"
                      /\ y[c].kind = "rest" => c - 1 \in 0..n - 1 /\ y[c - 1].kind = "lead"
    BY <1>2 DEF Whole
  <2>1. ASSUME y[c].kind = "lead" PROVE c + 1 \in 0..n - 1 /\ y[c + 1].kind = "rest"
    <3>1. c \notin gone /\ r[c].kind = "lead"
      BY <1>2, <2>1 DEF Plain
    <3>2. c + 1 \in 0..n - 1 /\ r[c + 1].kind = "rest"
      BY <1>1, <3>1 DEF Whole
    <3> QED BY <1>2, <1>3, <3>1, <3>2
  <2>2. ASSUME y[c].kind = "rest" PROVE c - 1 \in 0..n - 1 /\ y[c - 1].kind = "lead"
    <3>1. c \notin gone /\ r[c].kind = "rest"
      BY <1>2, <2>2 DEF Plain
    <3>2. c - 1 \in 0..n - 1 /\ r[c - 1].kind = "lead"
      BY <1>1, <3>1 DEF Whole
    <3>3. (c - 1) + 1 = c
      OBVIOUS
    <3> QED BY <1>2, <1>3, <3>1, <3>2, <3>3
  <2> QED BY <2>1, <2>2
<1> QED BY <1>4, <1>5 DEF y

LEMMA ClearedColumn ==
    ASSUME NEW n \in Nat, NEW r \in Cells(n), Whole(r),
           NEW first \in Nat, NEW last \in Int, last <= n - 1,
           NEW fill, NEW c \in first..last
    PROVE  ClearSpans(r, first, last, fill)[c] = fill
<1>1. DOMAIN r = 0..n - 1
  BY RowDomain
<1>2. c \in Touched(r, first, last)
  <2> SUFFICES c \in Span(r, c)
    BY DEF Touched
  <2>1. CASE r[c].kind = "rest"
    <3>1. c \in 0..n - 1
      OBVIOUS
    <3>2. c - 1 \in DOMAIN r /\ r[c - 1].kind = "lead"
      BY <1>1, <2>1, <3>1 DEF Whole
    <3> QED BY <2>1, <3>1, <3>2 DEF Span, BaseColumn
  <2>2. CASE r[c].kind # "rest"
    BY <2>2 DEF Span, BaseColumn
  <2> QED BY <2>1, <2>2
<1>3. c \in 0..n - 1
  OBVIOUS
<1> QED BY <1>1, <1>2, <1>3 DEF ClearSpans

\* A row in which every lead has its rest is whole when repaired.
LEMMA RepairedWhole ==
    ASSUME NEW n \in Nat, NEW r \in Cells(n),
           \A c \in 0..n - 1 : r[c].kind = "lead" /\ c + 1 \in 0..n - 1 => r[c + 1].kind = "rest"
    PROVE  RepairSpans(r) \in Cells(n) /\ Whole(RepairSpans(r))
<1> DEFINE y == RepairSpans(r)
<1>1. DOMAIN r = 0..n - 1 /\ \A c \in 0..n - 1 : r[c] \in Cell
  BY RowDomain
<1>2. \A c \in Int : Keeps(r, c) <=> c \in 0..n - 1 /\ c + 1 \in 0..n - 1 /\ r[c].kind = "lead"
  <2> SUFFICES ASSUME NEW c \in Int, c \in 0..n - 1, r[c].kind = "lead", c - 1 \in 0..n - 1,
                      r[c - 1].kind = "lead"
               PROVE  FALSE
    BY <1>1 DEF Keeps
  <2>1. (c - 1) + 1 = c
    OBVIOUS
  <2> QED BY <2>1
<1>3. \A c \in 0..n - 1 :
         y[c] = CASE r[c].kind = "rest" -> IF Keeps(r, c - 1) THEN Rest ELSE Blank
                  [] r[c].kind = "lead" -> IF Keeps(r, c) THEN r[c] ELSE Blank
                  [] OTHER              -> IF Keeps(r, c - 1) THEN Blank ELSE r[c]
  BY <1>1 DEF RepairSpans
<1>4. DOMAIN y = 0..n - 1
  BY <1>1 DEF RepairSpans
<1>5. y = [c \in 0..n - 1 |-> y[c]]
  BY <1>1 DEF RepairSpans
<1> HIDE DEF y
<1>6. ASSUME NEW c \in 0..n - 1
      PROVE  /\ y[c] \in Cell
             /\ y[c].kind = "lead" <=> Keeps(r, c)
             /\ y[c].kind = "rest" <=> r[c].kind = "rest" /\ Keeps(r, c - 1)
  <2>1. CASE r[c].kind = "rest"
    BY <1>1, <1>2, <1>3, <2>1, CellKinds DEF Plain
  <2>2. CASE r[c].kind = "lead"
    BY <1>1, <1>2, <1>3, <2>2, CellKinds DEF Plain
  <2>3. CASE r[c].kind # "rest" /\ r[c].kind # "lead"
    BY <1>1, <1>2, <1>3, <2>3, CellKinds DEF Plain
  <2> QED BY <2>1, <2>2, <2>3
<1>7. y \in Cells(n)
  BY <1>5, <1>6 DEF Cells
<1>8. Whole(y)
  <2> SUFFICES ASSUME NEW c \in 0..n - 1
               PROVE  /\ y[c].kind = "lead" => c + 1 \in 0..n - 1 /\ y[c + 1].kind = "rest"
                      /\ y[c].kind = "rest" => c - 1 \in 0..n - 1 /\ y[c - 1].kind = "lead"
    BY <1>4 DEF Whole
  <2>1. ASSUME y[c].kind = "lead" PROVE c + 1 \in 0..n - 1 /\ y[c + 1].kind = "rest"
    <3>1. c + 1 \in 0..n - 1 /\ r[c + 1].kind = "rest" /\ (c + 1) - 1 = c /\ Keeps(r, c)
      BY <1>2, <1>6, <2>1
    <3> QED BY <1>6, <3>1
  <2>2. ASSUME y[c].kind = "rest" PROVE c - 1 \in 0..n - 1 /\ y[c - 1].kind = "lead"
    <3>1. c - 1 \in 0..n - 1 /\ Keeps(r, c - 1)
      BY <1>2, <1>6, <2>2
    <3> QED BY <1>6, <3>1
  <2> QED BY <2>1, <2>2
<1> QED BY <1>7, <1>8 DEF y

LEMMA SplitCleared ==
    ASSUME NEW n \in Nat, NEW r \in Cells(n), NEW b \in Int
    PROVE  LET y == ClearSplit(r, b)
           IN  /\ y \in Cells(n)
               /\ \A c \in 0..n - 1 : y[c] = r[c] \/ (y[c] = Blank /\ r[c].kind = "lead")
               /\ b \in 0..n - 1 /\ b - 1 \in 0..n - 1 => y[b - 1].kind # "lead"
<1>1. DOMAIN r = 0..n - 1 /\ \A c \in 0..n - 1 : r[c] \in Cell
  BY RowDomain
<1> QED BY <1>1, CellKinds DEF ClearSplit, Cells, Plain

\* A row cut at two columns, in which elsewhere every lead has its rest.
LEMMA CutRepaired ==
    ASSUME NEW n \in Nat, NEW r \in Cells(n), NEW left \in Int, NEW end \in Int,
           \A c \in 0..n - 1 :
              r[c].kind = "lead" /\ c + 1 \in 0..n - 1 /\ c + 1 # left /\ c + 1 # end
              => r[c + 1].kind = "rest"
    PROVE  Repaired(r, left, end) \in Cells(n) /\ Whole(Repaired(r, left, end))
<1> DEFINE y == ClearSplit(r, left)
           z == ClearSplit(y, end)
<1>1. /\ y \in Cells(n)
      /\ \A c \in 0..n - 1 : y[c] = r[c] \/ (y[c] = Blank /\ r[c].kind = "lead")
      /\ left \in 0..n - 1 /\ left - 1 \in 0..n - 1 => y[left - 1].kind # "lead"
  BY SplitCleared
<1> HIDE DEF y
<1>2. /\ z \in Cells(n)
      /\ \A c \in 0..n - 1 : z[c] = y[c] \/ (z[c] = Blank /\ y[c].kind = "lead")
      /\ end \in 0..n - 1 /\ end - 1 \in 0..n - 1 => z[end - 1].kind # "lead"
  BY <1>1, SplitCleared
<1> HIDE DEF z
<1>3. ASSUME NEW c \in 0..n - 1, z[c].kind = "lead", c + 1 \in 0..n - 1
      PROVE  z[c + 1].kind = "rest"
  <2>1. Blank.kind # "lead"
    BY CellKinds DEF Plain
  <2>2. z[c] = y[c] /\ y[c] = r[c]
    BY <1>1, <1>2, <1>3, <2>1
  <2>3. c + 1 # left
    <3>1. (c + 1) - 1 = c
      OBVIOUS
    <3> QED BY <1>1, <1>3, <2>2, <3>1
  <2>4. c + 1 # end
    <3>1. (c + 1) - 1 = c
      OBVIOUS
    <3> QED BY <1>2, <1>3, <3>1
  <2>5. r[c + 1].kind = "rest"
    BY <1>3, <2>2, <2>3, <2>4
  <2>6. y[c + 1] = r[c + 1]
    BY <1>1, <1>3, <2>5
  <2> QED BY <1>2, <1>3, <2>5, <2>6
<1> QED BY <1>2, <1>3, RepairedWhole DEF Repaired, y, z
-------------------------------------------------------------------------------
(***************************************************************************)
(* What a control function does to a row leaves it whole.                  *)
(***************************************************************************)
LEMMA LeadsHaveRests ==
    ASSUME NEW n \in Nat, NEW r \in Cells(n), Whole(r), NEW c \in 0..n - 1, r[c].kind = "lead"
    PROVE  c + 1 \in 0..n - 1 /\ r[c + 1].kind = "rest"
BY RowDomain DEF Whole

\* clear_wide_continuation_boundary.
LEMMA RestCleared ==
    ASSUME NEW n \in Nat, NEW r \in Cells(n), Whole(r), NEW c \in Int, NEW fill, Plain(fill)
    PROVE  LET y == ClearRest(r, c, fill)
           IN  /\ y \in Cells(n) /\ Whole(y)
               /\ c \in 0..n - 1 => y[c].kind # "rest"
<1>1. DOMAIN r = 0..n - 1
  BY RowDomain
<1>2. CASE c \in 0..n - 1 /\ r[c].kind = "rest"
  <2> DEFINE z == ClearSpans(r, c, c, fill)
  <2>1. c \in Nat /\ c <= n - 1 /\ c \in c..c
    BY <1>2
  <2>2. z \in Cells(n) /\ Whole(z) /\ z[c] = fill
    BY <2>1, ClearedSpans, ClearedColumn
  <2>3. ClearRest(r, c, fill) = z
    BY <1>1, <1>2 DEF ClearRest
  <2> QED BY <2>2, <2>3 DEF Plain
<1>3. CASE ~(c \in 0..n - 1 /\ r[c].kind = "rest")
  BY <1>1, <1>3 DEF ClearRest
<1> QED BY <1>2, <1>3

LEMMA CutCleared ==
    ASSUME NEW n \in Nat, NEW r \in Cells(n), Whole(r), NEW c \in Int
    PROVE  LET y == ClearCut(r, c)
           IN  /\ y \in Cells(n) /\ Whole(y)
               /\ c \in 0..n - 1 => y[c].kind # "rest"
<1>1. DOMAIN r = 0..n - 1
  BY RowDomain
<1>2. CASE c - 1 \in 0..n - 1 /\ c \in 0..n - 1
  <2>1. ClearCut(r, c) = ClearRest(r, c, Blank)
    BY <1>1, <1>2 DEF ClearCut
  <2> QED BY <2>1, RestCleared, CellKinds
<1>3. CASE ~(c - 1 \in 0..n - 1 /\ c \in 0..n - 1)
  <2>1. ClearCut(r, c) = r
    BY <1>1, <1>3 DEF ClearCut
  <2>2. c \in 0..n - 1 => c = 0
    BY <1>3
  <2>3. c \in 0..n - 1 => r[c].kind # "rest"
    <3> SUFFICES ASSUME c \in 0..n - 1, r[c].kind = "rest" PROVE FALSE
      OBVIOUS
    <3>1. c - 1 \in 0..n - 1
      BY <1>1 DEF Whole
    <3> QED BY <1>3, <3>1
  <2> QED BY <2>1, <2>3
<1> QED BY <1>2, <1>3

LEMMA RightMoved ==
    ASSUME NEW n \in Nat, NEW r \in Cells(n), Whole(r), NEW fill, Plain(fill),
           NEW c \in 0..n - 1, NEW end \in c + 1..n, NEW m \in 1..end - c
    PROVE  LET y == Repaired(MovedRight(r, c, m, end, fill), c, end)
           IN  y \in Cells(n) /\ Whole(y)
<1> DEFINE y == MovedRight(r, c, m, end, fill)
<1>1. DOMAIN r = 0..n - 1 /\ \A x \in 0..n - 1 : r[x] \in Cell
  BY RowDomain
<1>2. y = [x \in 0..n - 1 |-> IF x \in c..c + m - 1 THEN fill
                              ELSE IF x \in c + m..end - 1 THEN r[x - m] ELSE r[x]]
  BY <1>1 DEF MovedRight
<1>3. \A x \in c + m..end - 1 : x - m \in 0..n - 1
  OBVIOUS
<1>4. y \in Cells(n)
  BY <1>1, <1>2, <1>3 DEF Cells, Plain
<1>5. ASSUME NEW x \in 0..n - 1, y[x].kind = "lead", x + 1 \in 0..n - 1, x + 1 # c, x + 1 # end
      PROVE  y[x + 1].kind = "rest"
  <2>1. CASE x \in c..c + m - 1
    BY <1>2, <1>5, <2>1 DEF Plain
  <2>2. CASE x \in c + m..end - 1
    <3>1. y[x] = r[x - m] /\ x - m \in 0..n - 1
      BY <1>2, <1>3, <2>2
    <3>2. r[(x - m) + 1].kind = "rest"
      BY <1>5, <3>1, LeadsHaveRests
    <3>3. y[x + 1] = r[(x + 1) - m]
      BY <1>2, <1>5, <2>2
    <3>4. (x + 1) - m = (x - m) + 1
      OBVIOUS
    <3> QED BY <3>2, <3>3, <3>4
  <2>3. CASE x < c \/ x >= end
    <3>1. y[x] = r[x] /\ y[x + 1] = r[x + 1]
      BY <1>2, <1>5, <2>3
    <3> QED BY <1>5, <3>1, LeadsHaveRests
  <2> QED BY <2>1, <2>2, <2>3
<1>6. \A x \in 0..n - 1 :
        y[x].kind = "lead" /\ x + 1 \in 0..n - 1 /\ x + 1 # c /\ x + 1 # end
        => y[x + 1].kind = "rest"
  BY <1>5
<1> HIDE DEF y
<1>7. c \in Int /\ end \in Int
  OBVIOUS
<1>8. Repaired(y, c, end) \in Cells(n) /\ Whole(Repaired(y, c, end))
  BY <1>4, <1>6, <1>7, CutRepaired
<1> QED BY <1>8 DEF y

LEMMA LeftMoved ==
    ASSUME NEW n \in Nat, NEW r \in Cells(n), Whole(r), NEW fill, Plain(fill),
           NEW c \in 0..n - 1, NEW end \in c + 1..n, NEW m \in 1..end - c,
           end \in 0..n - 1 => r[end].kind # "rest"
    PROVE  LET y == Repaired(MovedLeft(r, c, m, end, fill), c, end)
           IN  y \in Cells(n) /\ Whole(y)
<1> DEFINE y == MovedLeft(r, c, m, end, fill)
<1>1. DOMAIN r = 0..n - 1 /\ \A x \in 0..n - 1 : r[x] \in Cell
  BY RowDomain
<1>2. y = [x \in 0..n - 1 |-> IF x \in c..end - m - 1 THEN r[x + m]
                              ELSE IF x \in end - m..end - 1 THEN fill ELSE r[x]]
  BY <1>1 DEF MovedLeft
<1>3. \A x \in c..end - m - 1 : x + m \in 0..n - 1
  OBVIOUS
<1>4. y \in Cells(n)
  BY <1>1, <1>2, <1>3 DEF Cells, Plain
<1>5. end - 1 \in 0..n - 1 /\ r[end - 1].kind # "lead"
  <2>1. end - 1 \in 0..n - 1 /\ (end - 1) + 1 = end
    OBVIOUS
  <2> QED BY <2>1, LeadsHaveRests
<1>6. ASSUME NEW x \in 0..n - 1, y[x].kind = "lead", x + 1 \in 0..n - 1, x + 1 # c, x + 1 # end
      PROVE  y[x + 1].kind = "rest"
  <2>1. CASE x \in end - m..end - 1
    BY <1>2, <1>6, <2>1 DEF Plain
  <2>2. CASE x \in c..end - m - 1
    <3>1. y[x] = r[x + m] /\ x + m \in 0..n - 1
      BY <1>2, <1>3, <2>2
    <3>2. r[(x + m) + 1].kind = "rest"
      BY <1>6, <3>1, LeadsHaveRests
    <3>3. x + m # end - 1
      BY <1>5, <1>6, <3>1
    <3>4. x + 1 \in c..end - m - 1 /\ (x + 1) + m = (x + m) + 1
      BY <2>2, <3>3
    <3>5. y[x + 1] = r[(x + 1) + m]
      BY <1>2, <1>6, <3>4
    <3> QED BY <3>2, <3>4, <3>5
  <2>3. CASE x < c \/ x >= end
    <3>1. y[x] = r[x] /\ y[x + 1] = r[x + 1]
      BY <1>2, <1>6, <2>3
    <3> QED BY <1>6, <3>1, LeadsHaveRests
  <2> QED BY <2>1, <2>2, <2>3
<1> HIDE DEF y
<1>7. Repaired(y, c, end) \in Cells(n) /\ Whole(Repaired(y, c, end))
  BY <1>4, <1>6, CutRepaired
<1> QED BY <1>7 DEF y

LEMMA InsertedWhole ==
    ASSUME NEW n \in Nat, NEW r \in Cells(n), Whole(r), NEW fill, Plain(fill),
           NEW c \in 0..n - 1, NEW end \in c + 1..n, NEW m \in 1..end - c
    PROVE  LET y == InsertInRow(r, c, m, end, fill) IN y \in Cells(n) /\ Whole(y)
<1> DEFINE p == ClearRest(r, c, fill)
           q == ClearRest(p, end - m, fill)
<1>1. p \in Cells(n) /\ Whole(p)
  BY RestCleared
<1> HIDE DEF p
<1>2. q \in Cells(n) /\ Whole(q)
  BY <1>1, RestCleared
<1> HIDE DEF q
<1>3. InsertInRow(r, c, m, end, fill) = Repaired(MovedRight(q, c, m, end, fill), c, end)
  BY DEF InsertInRow, p, q
<1> QED BY <1>2, <1>3, RightMoved

LEMMA DeletedWhole ==
    ASSUME NEW n \in Nat, NEW r \in Cells(n), Whole(r), NEW fill, Plain(fill),
           NEW c \in 0..n - 1, NEW end \in c + 1..n, NEW m \in 1..end - c
    PROVE  LET y == DeleteInRow(r, c, m, end, fill) IN y \in Cells(n) /\ Whole(y)
<1> DEFINE e == ClearSpans(r, c, c + m - 1, fill)
           p == ClearRest(e, c + m, fill)
           q == ClearRest(p, end, fill)
<1>0. c \in Nat /\ c + m - 1 <= n - 1 /\ c + m - 1 \in Int /\ c + m \in Int
  OBVIOUS
<1>1. e \in Cells(n) /\ Whole(e)
  BY <1>0, ClearedSpans
<1> HIDE DEF e
<1>2. p \in Cells(n) /\ Whole(p)
  BY <1>0, <1>1, RestCleared
<1> HIDE DEF p
<1>3. q \in Cells(n) /\ Whole(q) /\ (end \in 0..n - 1 => q[end].kind # "rest")
  BY <1>2, RestCleared
<1> HIDE DEF q
<1>4. DeleteInRow(r, c, m, end, fill) = Repaired(MovedLeft(q, c, m, end, fill), c, end)
  BY DEF DeleteInRow, e, p, q
<1> QED BY <1>3, <1>4, LeftMoved

LEMMA ShiftedWhole ==
    ASSUME NEW n \in Nat, NEW r \in Cells(n), Whole(r), NEW insert \in BOOLEAN,
           NEW c \in 0..n - 1, NEW end \in c + 1..n, NEW m \in 1..end - c
    PROVE  LET y == ShiftInRow(r, c, m, end, insert) IN y \in Cells(n) /\ Whole(y)
<1> DEFINE at == IF insert THEN end - m ELSE c + m
           p == ClearCut(r, c)
           q == ClearCut(p, at)
           t == ClearCut(q, end)
<1>0. at \in Int
  OBVIOUS
<1> HIDE DEF at
<1>1. p \in Cells(n) /\ Whole(p)
  BY CutCleared
<1> HIDE DEF p
<1>2. q \in Cells(n) /\ Whole(q)
  BY <1>0, <1>1, CutCleared
<1> HIDE DEF q
<1>3. t \in Cells(n) /\ Whole(t) /\ (end \in 0..n - 1 => t[end].kind # "rest")
  BY <1>2, CutCleared
<1> HIDE DEF t
<1>4. CASE insert
  <2>1. ShiftInRow(r, c, m, end, insert) = Repaired(MovedRight(q, c, m, end, Blank), c, end)
    BY <1>4 DEF ShiftInRow, at, p, q
  <2> QED BY <1>2, <2>1, RightMoved, CellKinds
<1>5. CASE ~insert
  <2>1. ShiftInRow(r, c, m, end, insert) = Repaired(MovedLeft(t, c, m, end, Blank), c, end)
    BY <1>5 DEF ShiftInRow, at, p, q, t
  <2> QED BY <1>3, <2>1, LeftMoved, CellKinds
<1> QED BY <1>4, <1>5

LEMMA SegmentWhole ==
    ASSUME NEW n \in Nat, NEW r \in Cells(n), Whole(r), NEW src \in Cells(n), Whole(src),
           NEW left \in Int, NEW right \in Int
    PROVE  LET y == Segment(r, src, left, right) IN y \in Cells(n) /\ Whole(y)
<1> DEFINE y == [x \in DOMAIN r |-> IF x \in left..right THEN src[x] ELSE r[x]]
<1>1. DOMAIN r = 0..n - 1 /\ \A x \in 0..n - 1 : r[x] \in Cell /\ src[x] \in Cell
  BY RowDomain
<1>2. y \in Cells(n)
  BY <1>1 DEF Cells
<1>3. ASSUME NEW x \in 0..n - 1, y[x].kind = "lead", x + 1 \in 0..n - 1, x + 1 # left,
             x + 1 # right + 1
      PROVE  y[x + 1].kind = "rest"
  <2>1. CASE x \in left..right
    <3>1. x + 1 \in left..right
      BY <1>3, <2>1
    <3> QED BY <1>1, <1>3, <2>1, <3>1, LeadsHaveRests
  <2>2. CASE x \notin left..right
    <3>1. x + 1 \notin left..right
      BY <1>3, <2>2
    <3> QED BY <1>1, <1>3, <2>2, <3>1, LeadsHaveRests
  <2> QED BY <2>1, <2>2
<1>4. Segment(r, src, left, right) = Repaired(y, left, right + 1)
  BY DEF Segment
<1> HIDE DEF y
<1> QED BY <1>2, <1>3, <1>4, CutRepaired

LEMMA CopiedWhole ==
    ASSUME NEW n \in Nat, NEW r \in Cells(n), Whole(r), NEW src \in Cells(n), Whole(src),
           NEW from \in Nat, NEW at \in Nat, NEW m \in Nat, from + m <= n, at + m <= n
    PROVE  LET y == CopyInRow(r, src, from, at, m) IN y \in Cells(n) /\ Whole(y)
<1> DEFINE cleared == ClearSpans(r, at, at + m - 1, Blank)
           y == [x \in DOMAIN r |->
                   IF x \in at..at + m - 1 THEN src[x - at + from] ELSE cleared[x]]
<1>1. DOMAIN r = 0..n - 1 /\ \A x \in 0..n - 1 : src[x] \in Cell
  BY RowDomain
<1>2. at + m - 1 <= n - 1 /\ at + m - 1 \in Int
  OBVIOUS
<1>3. cleared \in Cells(n) /\ Whole(cleared)
  BY <1>2, ClearedSpans, CellKinds
<1>4. CopyInRow(r, src, from, at, m) = Repaired(y, at, at + m)
  BY DEF CopyInRow
<1> HIDE DEF cleared
<1>5. \A x \in 0..n - 1 : cleared[x] \in Cell
  BY <1>3, RowDomain
<1>6. \A x \in at..at + m - 1 : x - at + from \in 0..n - 1
  OBVIOUS
<1>7. y \in Cells(n)
  BY <1>1, <1>5, <1>6 DEF Cells
<1>8. ASSUME NEW x \in 0..n - 1, y[x].kind = "lead", x + 1 \in 0..n - 1, x + 1 # at, x + 1 # at + m
      PROVE  y[x + 1].kind = "rest"
  <2>1. CASE x \in at..at + m - 1
    <3>1. x + 1 \in at..at + m - 1
      BY <1>8, <2>1
    <3>2. y[x] = src[x - at + from] /\ y[x + 1] = src[(x + 1) - at + from]
      BY <1>1, <2>1, <3>1, SMTT(40)
    <3>3. (x + 1) - at + from = (x - at + from) + 1
      OBVIOUS
    <3>4. src[(x - at + from) + 1].kind = "rest"
      BY <1>6, <1>8, <2>1, <3>2, LeadsHaveRests
    <3> QED BY <3>2, <3>3, <3>4
  <2>2. CASE x \notin at..at + m - 1
    <3>1. x + 1 \notin at..at + m - 1
      BY <1>8, <2>2
    <3>2. y[x] = cleared[x] /\ y[x + 1] = cleared[x + 1]
      BY <1>1, <1>8, <2>2, <3>1
    <3> QED BY <1>3, <1>8, <3>2, LeadsHaveRests
  <2> QED BY <2>1, <2>2
<1> HIDE DEF y
<1> QED BY <1>4, <1>7, <1>8, CutRepaired

LEMMA FilledWhole ==
    ASSUME NEW n \in Nat, NEW r \in Cells(n), Whole(r), NEW cell, Plain(cell),
           NEW first \in Nat, NEW last \in Int, last <= n - 1
    PROVE  LET y == FillInRow(r, first, last, cell) IN y \in Cells(n) /\ Whole(y)
<1> DEFINE z == ClearSpans(r, first, last, Blank)
           y == FillInRow(r, first, last, cell)
<1>1. DOMAIN r = 0..n - 1
  BY RowDomain
<1>2. z \in Cells(n) /\ Whole(z) /\ \A x \in first..last : z[x] = Blank
  <2>1. Plain(Blank)
    BY CellKinds
  <2>2. z \in Cells(n) /\ Whole(z)
    BY <2>1, ClearedSpans
  <2>3. ASSUME NEW x \in first..last PROVE z[x] = Blank
    BY ClearedColumn
  <2> QED BY <2>2, <2>3
<1>3. y = [x \in 0..n - 1 |-> IF x \in first..last THEN cell ELSE z[x]]
  BY <1>1 DEF FillInRow
<1> HIDE DEF y, z
<1>4. DOMAIN z = 0..n - 1 /\ \A x \in 0..n - 1 : z[x] \in Cell
  BY <1>2, RowDomain
<1>5. y \in Cells(n)
  BY <1>3, <1>4 DEF Cells, Plain
<1>6. Blank.kind # "rest" /\ Blank.kind # "lead" /\ cell.kind # "rest" /\ cell.kind # "lead"
  BY CellKinds DEF Plain
<1>7. Whole(y)
  <2> SUFFICES ASSUME NEW x \in 0..n - 1
               PROVE  /\ y[x].kind = "lead" => x + 1 \in 0..n - 1 /\ y[x + 1].kind = "rest"
                      /\ y[x].kind = "rest" => x - 1 \in 0..n - 1 /\ y[x - 1].kind = "lead"
    BY <1>3 DEF Whole
  <2>1. ASSUME y[x].kind = "lead" PROVE x + 1 \in 0..n - 1 /\ y[x + 1].kind = "rest"
    <3>1. z[x].kind = "lead"
      BY <1>3, <1>6, <2>1
    <3>2. x + 1 \in 0..n - 1 /\ z[x + 1].kind = "rest"
      BY <1>2, <3>1, LeadsHaveRests
    <3> QED BY <1>2, <1>3, <1>6, <3>2
  <2>2. ASSUME y[x].kind = "rest" PROVE x - 1 \in 0..n - 1 /\ y[x - 1].kind = "lead"
    <3>1. z[x].kind = "rest"
      BY <1>3, <1>6, <2>2
    <3>2. x - 1 \in 0..n - 1 /\ z[x - 1].kind = "lead"
      BY <1>2, <1>4, <3>1 DEF Whole
    <3> QED BY <1>2, <1>3, <1>6, <3>2
  <2> QED BY <2>1, <2>2
<1> QED BY <1>5, <1>7 DEF y

\* install_cell_span, for a glyph that has the cells it is to be shown in.
LEMMA InstalledWhole ==
    ASSUME NEW n \in Nat, NEW r \in Cells(n), Whole(r), NEW cell \in Cell, cell.kind # "rest",
           NEW c \in 0..n - 1, cell.kind = "lead" => c + 1 \in 0..n - 1
    PROVE  LET y == InstallSpan(r, c, cell) IN y \in Cells(n) /\ Whole(y)
<1> DEFINE last == IF cell.kind = "lead" THEN c + 1 ELSE c
           z == ClearSpans(r, c, last, Blank)
           y == InstallSpan(r, c, cell)
<1>1. DOMAIN r = 0..n - 1
  BY RowDomain
<1>3. z \in Cells(n) /\ Whole(z)
  <2>1. Plain(Blank)
    BY CellKinds
  <2>2. CASE cell.kind = "lead"
    <3>1. c + 1 \in Int /\ c + 1 <= n - 1
      BY <2>2
    <3>2. z = ClearSpans(r, c, c + 1, Blank)
      BY <2>2
    <3> HIDE DEF z
    <3> QED BY <2>1, <3>1, <3>2, ClearedSpans
  <2>3. CASE cell.kind # "lead"
    <3>1. c \in Int /\ c <= n - 1
      OBVIOUS
    <3>2. z = ClearSpans(r, c, c, Blank)
      BY <2>3
    <3> HIDE DEF z
    <3> QED BY <2>1, <3>1, <3>2, ClearedSpans
  <2> QED BY <2>2, <2>3
<1>4. y = [x \in 0..n - 1 |-> IF x = c THEN cell
                              ELSE IF x = c + 1 /\ cell.kind = "lead" THEN Rest ELSE z[x]]
  <2>1. CASE cell.kind = "lead"
    <3>1. last = c + 2 - 1
      BY <2>1
    <3> QED BY <1>1, <2>1, <3>1 DEF InstallSpan
  <2>2. CASE cell.kind # "lead"
    <3>1. last = c + 1 - 1
      BY <2>2
    <3> QED BY <1>1, <2>2, <3>1 DEF InstallSpan
  <2> QED BY <2>1, <2>2
<1>5. z[c] = Blank /\ (cell.kind = "lead" => z[c + 1] = Blank)
  <2>1. CASE cell.kind = "lead"
    <3>1. c + 1 \in Int /\ c + 1 <= n - 1 /\ c \in c..(c + 1) /\ c + 1 \in c..(c + 1)
      BY <2>1
    <3>2. z = ClearSpans(r, c, c + 1, Blank)
      BY <2>1
    <3> HIDE DEF z
    <3>3. z[c] = Blank
      BY <3>1, <3>2, ClearedColumn
    <3>4. z[c + 1] = Blank
      BY <3>1, <3>2, ClearedColumn
    <3> QED BY <3>3, <3>4
  <2>2. CASE cell.kind # "lead"
    <3>1. c <= n - 1 /\ c \in c..c
      OBVIOUS
    <3>2. z = ClearSpans(r, c, c, Blank)
      BY <2>2
    <3> HIDE DEF z
    <3> QED BY <2>2, <3>1, <3>2, ClearedColumn
  <2> QED BY <2>1, <2>2
<1> HIDE DEF y, z, last
<1>6. DOMAIN z = 0..n - 1 /\ \A x \in 0..n - 1 : z[x] \in Cell
  BY <1>3, RowDomain
<1>7. y \in Cells(n)
  BY <1>4, <1>6, CellKinds DEF Cells
<1>8. /\ Blank.kind # "rest" /\ Blank.kind # "lead" /\ Rest.kind = "rest" /\ Rest.kind # "lead"
  BY CellKinds DEF Plain
<1>9. Whole(y)
  <2> SUFFICES ASSUME NEW x \in 0..n - 1
               PROVE  /\ y[x].kind = "lead" => x + 1 \in 0..n - 1 /\ y[x + 1].kind = "rest"
                      /\ y[x].kind = "rest" => x - 1 \in 0..n - 1 /\ y[x - 1].kind = "lead"
    BY <1>4 DEF Whole
  <2>1. ASSUME y[x].kind = "lead" PROVE x + 1 \in 0..n - 1 /\ y[x + 1].kind = "rest"
    <3>1. CASE x = c
      BY <1>4, <1>8, <2>1, <3>1
    <3>2. CASE x # c
      <4>1. z[x].kind = "lead"
        BY <1>4, <1>8, <2>1, <3>2
      <4>2. x + 1 \in 0..n - 1 /\ z[x + 1].kind = "rest"
        BY <1>3, <4>1, LeadsHaveRests
      <4>3. x + 1 # c
        BY <1>5, <1>8, <4>2
      <4> QED BY <1>4, <1>8, <4>2, <4>3
    <3> QED BY <3>1, <3>2
  <2>2. ASSUME y[x].kind = "rest" PROVE x - 1 \in 0..n - 1 /\ y[x - 1].kind = "lead"
    <3>1. CASE x = c + 1 /\ cell.kind = "lead"
      <4>1. x - 1 = c
        BY <3>1
      <4> QED BY <1>4, <3>1, <4>1
    <3>2. CASE ~(x = c + 1 /\ cell.kind = "lead")
      <4>1. x # c /\ z[x].kind = "rest"
        BY <1>4, <1>8, <2>2, <3>2
      <4>2. x - 1 \in 0..n - 1 /\ z[x - 1].kind = "lead"
        BY <1>3, <1>6, <4>1 DEF Whole
      <4>3. x - 1 # c /\ ~(x - 1 = c + 1 /\ cell.kind = "lead")
        BY <1>5, <1>8, <4>2
      <4> QED BY <1>4, <4>2, <4>3
    <3> QED BY <3>1, <3>2
  <2> QED BY <2>1, <2>2
<1> QED BY <1>7, <1>9 DEF y

LEMMA BaseOfSpan ==
    ASSUME NEW g \in Glyphs, NEW w \in 1..2, NEW natural \in 1..2
    PROVE  /\ Base(g, w, natural) \in Cell /\ Base(g, w, natural).kind # "rest"
           /\ Base(g, w, natural).kind = "lead" <=> w = 2
BY CellKinds DEF Base, Plain
-------------------------------------------------------------------------------
(***************************************************************************)
(* Screens.  A screen of m rows of n columns is sound when nothing on it    *)
(* points outside of it and every row is whole.  The margins are at least   *)
(* two columns apart or are those of the grid: DECSLRM takes no others, and *)
(* without that a wide glyph that wraps to the left margin would have one   *)
(* column to go to.                                                        *)
(***************************************************************************)
Fields == {"rows", "row", "col", "pending", "top", "bottom", "left", "right", "origin",
           "saved", "lines", "history"}

RowSound(n, row) == row \in RowOf(n) /\ Whole(row.cells)

RowsSound(m, n, rows) ==
    DOMAIN rows = 0..m - 1 /\ \A r \in 0..m - 1 : RowSound(n, rows[r])

MarginsSound(n, left, right) ==
    /\ left \in 0..n - 1 /\ right \in 0..n - 1 /\ left <= right
    /\ left < right \/ (left = 0 /\ right = n - 1)

ScreenSound(m, n, s) ==
    /\ DOMAIN s = Fields
    /\ RowsSound(m, n, s.rows)
    /\ s.row \in 0..m - 1 /\ s.col \in 0..n - 1
    /\ s.pending \in BOOLEAN /\ s.origin \in BOOLEAN
    /\ s.top \in 0..m - 1 /\ s.bottom \in 0..m - 1 /\ s.top <= s.bottom
    /\ MarginsSound(n, s.left, s.right)
    /\ s.saved \in Saved /\ s.lines \in Nat

Sound(s) == ScreenSound(size.rows, size.columns, s)

ModesOK ==
    /\ size.rows \in Nat \ {0} /\ size.columns \in Nat \ {0}
    /\ active \in Buffers /\ autowrap \in BOOLEAN /\ marginMode \in BOOLEAN
    /\ styled \in BOOLEAN /\ alternateMode \in {0, 47, 1047, 1049}
    /\ saved1049 \in BOOLEAN

LEMMA InBounds ==
    ASSUME NEW x \in Int, NEW low \in Int, NEW high \in Int, low <= high
    PROVE  Bounded(x, low, high) \in low..high
BY DEF Bounded

LEMMA FillIsPlain == Plain(Fill)
BY CellKinds, GlyphsAssumption DEF Fill

\* Where the cursor and the margins are.
LEMMA Places ==
    ASSUME ModesOK, NEW s, Sound(s)
    PROVE  /\ LastRow \in Nat /\ LastColumn \in Nat
           /\ Rows = 0..LastRow /\ Columns = 0..LastColumn
           /\ s.row \in Rows /\ s.col \in Columns
           /\ s.top \in Rows /\ s.bottom \in Rows /\ s.top <= s.bottom
           /\ s.left \in Columns /\ s.right \in Columns /\ s.left <= s.right
           /\ ActiveLeft(s) \in Columns /\ ActiveRight(s) \in Columns
           /\ ActiveLeft(s) <= ActiveRight(s)
           /\ LastColumn = 0 \/ ActiveLeft(s) < ActiveRight(s)
           /\ CursorLeft(s) \in Columns /\ CursorLeft(s) <= s.col
           /\ LastColumn = 0 \/ CursorLeft(s) < LastColumn
           /\ CursorRight(s) \in Columns /\ s.col <= CursorRight(s)
           /\ s.pending \in BOOLEAN /\ s.origin \in BOOLEAN /\ s.lines \in Nat
BY DEF Sound, ScreenSound, ModesOK, MarginsSound, LastRow, LastColumn, Rows, Columns,
       ActiveLeft, ActiveRight, CursorLeft, CursorRight

LEMMA GridSize ==
    ASSUME ModesOK
    PROVE  /\ size.rows \in Nat /\ size.columns \in Nat
           /\ LastRow = size.rows - 1 /\ LastColumn = size.columns - 1
           /\ LastRow \in Nat /\ LastColumn \in Nat
           /\ Rows = 0..size.rows - 1 /\ Columns = 0..size.columns - 1
BY DEF ModesOK, LastRow, LastColumn, Rows, Columns

\* The rows of a sound screen.
LEMMA RowsOfScreen ==
    ASSUME ModesOK, NEW s, Sound(s), NEW r \in Rows
    PROVE  /\ DOMAIN s.rows = Rows
           /\ s.rows[r] \in RowOf(size.columns)
           /\ s.rows[r].cells \in Cells(size.columns) /\ Whole(s.rows[r].cells)
           /\ s.rows[r].wrap \in Nat /\ s.rows[r].line \in Nat /\ s.rows[r].next \in Nat
BY DEF Sound, ScreenSound, RowsSound, RowSound, RowOf, Rows

\* Changing the cursor, or the rows.
LEMMA CursorMoves ==
    ASSUME ModesOK, NEW s, Sound(s), NEW row \in Rows, NEW col \in Columns, NEW p \in BOOLEAN
    PROVE  /\ Sound([s EXCEPT !.row = row, !.col = col, !.pending = p])
           /\ Sound([s EXCEPT !.col = col, !.pending = p])
           /\ Sound([s EXCEPT !.row = row])
           /\ Sound([s EXCEPT !.pending = p])
<1>1. Sound([s EXCEPT !.row = row, !.col = col, !.pending = p])
  BY DEF Sound, ScreenSound, Rows, Columns, Fields
<1>2. Sound([s EXCEPT !.col = col, !.pending = p])
  BY DEF Sound, ScreenSound, Rows, Columns, Fields
<1>3. Sound([s EXCEPT !.row = row])
  BY DEF Sound, ScreenSound, Rows, Columns, Fields
<1>4. Sound([s EXCEPT !.pending = p])
  BY DEF Sound, ScreenSound, Rows, Columns, Fields
<1> QED BY <1>1, <1>2, <1>3, <1>4

LEMMA RowsChange ==
    ASSUME ModesOK, NEW s, Sound(s), NEW rows, DOMAIN rows = Rows,
           \A r \in Rows : RowSound(size.columns, rows[r])
    PROVE  Sound([s EXCEPT !.rows = rows])
<1>1. RowsSound(size.rows, size.columns, rows)
  BY DEF RowsSound, Rows
<1> QED BY <1>1 DEF Sound, ScreenSound, Fields

LEMMA LinesChange ==
    ASSUME ModesOK, NEW s, Sound(s), NEW lines \in Nat
    PROVE  Sound([s EXCEPT !.lines = lines])
BY DEF Sound, ScreenSound, Fields

LEMMA HistoryChanges ==
    ASSUME ModesOK, NEW s, Sound(s), NEW history
    PROVE  Sound([s EXCEPT !.history = history])
BY DEF Sound, ScreenSound, Fields

LEMMA RowRewritten ==
    ASSUME NEW n, NEW row, RowSound(n, row), NEW cells \in Cells(n), Whole(cells),
           NEW wrap \in Nat
    PROVE  /\ RowSound(n, [row EXCEPT !.cells = cells, !.wrap = wrap])
           /\ RowSound(n, [row EXCEPT !.cells = cells])
           /\ RowSound(n, [row EXCEPT !.wrap = wrap])
BY DEF RowSound, RowOf

LEMMA OneRowChanges ==
    ASSUME ModesOK, NEW s, Sound(s), NEW r \in Rows, NEW row, RowSound(size.columns, row)
    PROVE  Sound([s EXCEPT !.rows = [s.rows EXCEPT ![r] = row]])
<1> DEFINE rows == [s.rows EXCEPT ![r] = row]
<1>1. DOMAIN s.rows = Rows /\ \A q \in Rows : RowSound(size.columns, s.rows[q])
  BY DEF Sound, ScreenSound, RowsSound, Rows
<1>2. DOMAIN rows = Rows /\ \A q \in Rows : RowSound(size.columns, rows[q])
  BY <1>1
<1> HIDE DEF rows
<1>3. Sound([s EXCEPT !.rows = rows])
  BY <1>2, RowsChange
<1> QED BY <1>3 DEF rows

\* One row's wrap, or its cells.
LEMMA WrapChanges ==
    ASSUME ModesOK, NEW s, Sound(s), NEW r \in Rows, NEW wrap \in Nat
    PROVE  Sound([s EXCEPT !.rows[r].wrap = wrap])
<1>1. RowSound(size.columns, s.rows[r])
  BY DEF Sound, ScreenSound, RowsSound, Rows
<1>2. RowSound(size.columns, [s.rows[r] EXCEPT !.wrap = wrap])
  BY <1>1 DEF RowSound, RowOf
<1>3. Sound([s EXCEPT !.rows = [s.rows EXCEPT ![r] = [s.rows[r] EXCEPT !.wrap = wrap]]])
  BY <1>2, OneRowChanges
<1> QED BY <1>3

LEMMA CellsChange ==
    ASSUME ModesOK, NEW s, Sound(s), NEW r \in Rows,
           NEW cells \in Cells(size.columns), Whole(cells)
    PROVE  Sound([s EXCEPT !.rows[r].cells = cells])
<1>1. RowSound(size.columns, s.rows[r])
  BY DEF Sound, ScreenSound, RowsSound, Rows
<1>2. RowSound(size.columns, [s.rows[r] EXCEPT !.cells = cells])
  BY <1>1 DEF RowSound, RowOf
<1>3. Sound([s EXCEPT !.rows = [s.rows EXCEPT ![r] = [s.rows[r] EXCEPT !.cells = cells]]])
  BY <1>2, OneRowChanges
<1> QED BY <1>3
-------------------------------------------------------------------------------
(***************************************************************************)
(* The cursor and scrolling.                                               *)
(***************************************************************************)
LEMMA CursorSetSound ==
    ASSUME ModesOK, NEW s, Sound(s), NEW row \in Int, NEW col \in Int
    PROVE  Sound(SetCursorPosition(s, row, col))
<1>1. LastRow \in Nat /\ LastColumn \in Nat /\ Rows = 0..LastRow /\ Columns = 0..LastColumn
  BY Places
<1>2. Bounded(row, 0, LastRow) \in Rows /\ Bounded(col, 0, LastColumn) \in Columns
  BY <1>1 DEF Bounded
<1> QED BY <1>2, CursorMoves DEF SetCursorPosition

LEMMA CursorAddressSound ==
    ASSUME ModesOK, NEW s, Sound(s), NEW row \in Int, NEW col \in Int
    PROVE  Sound(SetCursorAddress(s, row, col))
<1> DEFINE y == IF s.origin THEN Bounded(s.top + row, s.top, s.bottom) ELSE row
           x == IF s.origin /\ marginMode THEN Bounded(s.left + col, s.left, s.right) ELSE col
<1>1. s.top \in Int /\ s.bottom \in Int /\ s.left \in Int /\ s.right \in Int
  BY Places, GridSize
<1>2. y \in Int /\ x \in Int
  BY <1>1 DEF Bounded
<1>3. SetCursorAddress(s, row, col) = SetCursorPosition(s, y, x)
  BY DEF SetCursorAddress
<1> HIDE DEF x, y
<1> QED BY <1>2, <1>3, CursorSetSound

LEMMA RelativeMoveSound ==
    ASSUME ModesOK, NEW s, Sound(s), NEW down \in Int, NEW across \in Int
    PROVE  Sound(MoveCursorRelative(s, down, across))
<1> DEFINE y == IF down # 0 /\ s.row \in s.top..s.bottom
                THEN Bounded(s.row + down, s.top, s.bottom) ELSE s.row + down
           x == IF across # 0 /\ s.origin /\ marginMode /\ s.col \in s.left..s.right
                THEN Bounded(s.col + across, s.left, s.right) ELSE s.col + across
<1>1. /\ s.top \in Int /\ s.bottom \in Int /\ s.left \in Int /\ s.right \in Int
      /\ s.row \in Int /\ s.col \in Int
  BY Places, GridSize, SMTT(40)
<1>2. y \in Int /\ x \in Int
  BY <1>1 DEF Bounded
<1>3. MoveCursorRelative(s, down, across) = SetCursorPosition(s, y, x)
  BY DEF MoveCursorRelative
<1> HIDE DEF x, y
<1> QED BY <1>2, <1>3, CursorSetSound

LEMMA ReturnSound ==
    ASSUME ModesOK, NEW s, Sound(s)
    PROVE  /\ Sound(CarriageReturn(s))
           /\ CarriageReturn(s).col \in Columns
           /\ LastColumn = 0 \/ CarriageReturn(s).col < LastColumn
<1>1. CursorLeft(s) \in Columns /\ s.row \in Rows
  BY Places
<1>2. Sound(CarriageReturn(s))
  BY <1>1, CursorMoves DEF CarriageReturn
<1>3. CarriageReturn(s).col = CursorLeft(s)
  BY DEF CarriageReturn, Sound, ScreenSound, Fields
<1> QED BY <1>2, <1>3, Places

LEMMA AfterCellSound ==
    ASSUME ModesOK, NEW s, Sound(s), NEW row \in Rows, NEW col \in Columns, NEW width \in 1..2
    PROVE  Sound(AfterCell(s, row, col, width))
<1> DEFINE right == CursorRight(s)
           full  == width >= right + 1 - col
           to    == IF full THEN right ELSE col + width
           wraps == full /\ autowrap
<1>1. right \in Columns /\ LastColumn \in Nat /\ Columns = 0..LastColumn
  BY Places
<1>2. to \in Columns
  BY <1>1
<1>3. wraps \in BOOLEAN
  BY DEF ModesOK
<1>4. AfterCell(s, row, col, width) = [s EXCEPT !.row = row, !.col = to, !.pending = wraps]
  BY DEF AfterCell
<1> HIDE DEF to, wraps
<1>5. ASSUME NEW p \in BOOLEAN PROVE Sound([s EXCEPT !.row = row, !.col = to, !.pending = p])
  BY <1>2, CursorMoves
<1> QED BY <1>3, <1>4, <1>5

LEMMA BreakSound ==
    ASSUME ModesOK, NEW s, Sound(s), NEW row \in 0..size.rows
    PROVE  Sound(BreakSoftWrapBefore(s, row))
<1>1. row > 0 => row - 1 \in Rows
  BY GridSize
<1> QED BY <1>1, WrapChanges DEF BreakSoftWrapBefore

LEMMA ErasedRowSound ==
    ASSUME ModesOK, NEW line \in Nat
    PROVE  RowSound(size.columns, ErasedRow(line)) /\ RowSound(size.columns, EmptyRow(line))
<1>1. EmptyCells(size.columns, Fill) \in Cells(size.columns) /\ Whole(EmptyCells(size.columns, Fill))
  BY GridSize, FillIsPlain, EmptyIsWhole
<1>2. EmptyCells(size.columns, Blank) \in Cells(size.columns) /\ Whole(EmptyCells(size.columns, Blank))
  BY GridSize, CellKinds, EmptyIsWhole
<1> QED BY <1>1, <1>2 DEF ErasedRow, EmptyRow, RowSound, RowOf, NoLine

LEMMA ShiftedSound ==
    ASSUME ModesOK, NEW s, Sound(s), NEW top \in Rows, NEW bottom \in Rows, top <= bottom,
           NEW shift \in Int
    PROVE  Sound(Shifted(s, top, bottom, shift))
<1>1. s.lines \in Nat /\ top \in Nat /\ bottom \in Nat /\ top..bottom \subseteq Rows
  BY Places
<1>2. DOMAIN s.rows = Rows /\ \A r \in Rows : RowSound(size.columns, s.rows[r])
  BY DEF Sound, ScreenSound, RowsSound, Rows
<1>3. CASE FullWidth(s)
  <2> DEFINE rows == MovedRows(s, top, bottom, shift)
             lines == s.lines + bottom - top + 1
  <2>1. ASSUME NEW r \in Rows PROVE RowSound(size.columns, rows[r])
    <3>1. CASE r \notin top..bottom
      BY <1>2, <3>1 DEF MovedRows
    <3>2. CASE r \in top..bottom /\ r + shift \in top..bottom
      <4>1. r + shift \in Rows
        BY <1>1, <3>2
      <4> QED BY <1>2, <3>2, <4>1 DEF MovedRows
    <3>3. CASE r \in top..bottom /\ r + shift \notin top..bottom
      <4>1. s.lines + r - top \in Nat
        BY <1>1, <3>3
      <4>2. rows[r] = ErasedRow(s.lines + r - top)
        BY <3>3 DEF MovedRows
      <4> HIDE DEF rows
      <4> QED BY <4>1, <4>2, ErasedRowSound
    <3> QED BY <3>1, <3>2, <3>3
  <2>2. DOMAIN rows = Rows
    BY DEF MovedRows
  <2>3. lines \in Nat
    BY <1>1
  <2>4. Shifted(s, top, bottom, shift) = [[s EXCEPT !.rows = rows] EXCEPT !.lines = lines]
    BY <1>3 DEF Shifted, Sound, ScreenSound, Fields
  <2> HIDE DEF rows, lines
  <2>5. Sound([s EXCEPT !.rows = rows])
    BY <2>1, <2>2, RowsChange
  <2> QED BY <2>3, <2>4, <2>5, LinesChange
<1>4. CASE ~FullWidth(s)
  <2> DEFINE rows == MovedSegments(s, top, bottom, shift)
  <2>1. ASSUME NEW r \in Rows PROVE RowSound(size.columns, rows[r])
    <3>1. CASE r \notin top..bottom
      BY <1>2, <3>1 DEF MovedSegments
    <3>2. CASE r \in top..bottom
      <4> DEFINE src == IF r + shift \in top..bottom THEN s.rows[r + shift].cells
                        ELSE EmptyCells(size.columns, Fill)
                 cells == Segment(s.rows[r].cells, src, ActiveLeft(s), ActiveRight(s))
      <4>1. src \in Cells(size.columns) /\ Whole(src)
        <5>1. CASE r + shift \in top..bottom
          <6>1. r + shift \in Rows
            BY <1>1, <5>1
          <6> QED BY <5>1, <6>1, RowsOfScreen
        <5>2. CASE r + shift \notin top..bottom
          BY <5>2, GridSize, FillIsPlain, EmptyIsWhole
        <5> QED BY <5>1, <5>2
      <4>2. rows[r] = [s.rows[r] EXCEPT !.cells = cells, !.wrap = 0]
        BY <3>2 DEF MovedSegments
      <4> HIDE DEF src, rows
      <4>3. s.rows[r].cells \in Cells(size.columns) /\ Whole(s.rows[r].cells)
        BY RowsOfScreen
      <4>4. ActiveLeft(s) \in Int /\ ActiveRight(s) \in Int /\ size.columns \in Nat
        BY Places, GridSize
      <4>5. cells \in Cells(size.columns) /\ Whole(cells)
        BY <4>1, <4>3, <4>4, SegmentWhole
      <4> HIDE DEF cells
      <4>6. RowSound(size.columns, s.rows[r])
        BY <1>2
      <4>7. RowSound(size.columns, [s.rows[r] EXCEPT !.cells = cells, !.wrap = 0])
        BY <4>5, <4>6 DEF RowSound, RowOf
      <4> QED BY <4>2, <4>7
    <3> QED BY <3>1, <3>2
  <2>2. DOMAIN rows = Rows
    BY DEF MovedSegments
  <2>3. Shifted(s, top, bottom, shift) = [s EXCEPT !.rows = rows]
    BY <1>4 DEF Shifted
  <2> HIDE DEF rows
  <2> QED BY <2>1, <2>2, <2>3, RowsChange
<1> QED BY <1>3, <1>4

LEMMA ScrollUpSound ==
    ASSUME ModesOK, NEW s, Sound(s), NEW top \in Rows, NEW bottom \in Rows, top <= bottom,
           NEW archive \in BOOLEAN, NEW count \in Int
    PROVE  Sound(ScrollUpRegion(s, top, bottom, archive, count))
<1> DEFINE n       == Bounded(count, 1, bottom - top + 1)
           broken  == BreakSoftWrapBefore(s, top)
           leaving == [i \in 1..n |-> broken.rows[top + i - 1]]
           moved   == Shifted(broken, top, bottom, n)
           kept    == Archived(moved.history, leaving)
<1>1. top \in Nat /\ bottom \in Nat /\ top \in 0..size.rows /\ bottom + 1 \in 0..size.rows
  BY GridSize
<1>2. n \in Int
  BY <1>1 DEF Bounded
<1>3. Sound(broken)
  BY <1>1, BreakSound
<1> HIDE DEF n, broken
<1>4. Sound(moved)
  BY <1>2, <1>3, ShiftedSound
<1>5. ScrollUpRegion(s, top, bottom, archive, count) =
        IF FullWidth(s)
        THEN IF archive THEN [moved EXCEPT !.history = kept] ELSE moved
        ELSE BreakSoftWrapBefore(moved, bottom + 1)
  BY DEF ScrollUpRegion, n, broken
<1> HIDE DEF moved, kept
<1>6. Sound([moved EXCEPT !.history = kept]) /\ Sound(BreakSoftWrapBefore(moved, bottom + 1))
  BY <1>1, <1>4, BreakSound, HistoryChanges
<1> QED BY <1>4, <1>5, <1>6

LEMMA ScrollDownSound ==
    ASSUME ModesOK, NEW s, Sound(s), NEW top \in Rows, NEW bottom \in Rows, top <= bottom,
           NEW count \in Int
    PROVE  Sound(ScrollDownRegion(s, top, bottom, count))
<1> DEFINE n      == Bounded(count, 1, bottom - top + 1)
           broken == BreakSoftWrapBefore(s, top)
           moved  == Shifted(broken, top, bottom, -n)
<1>1. top \in Nat /\ bottom \in Nat /\ top \in 0..size.rows /\ bottom + 1 \in 0..size.rows
  BY GridSize
<1>2. -n \in Int
  BY <1>1 DEF Bounded
<1>3. Sound(broken)
  BY <1>1, BreakSound
<1>4. ScrollDownRegion(s, top, bottom, count) = BreakSoftWrapBefore(moved, bottom + 1)
  BY DEF ScrollDownRegion
<1> HIDE DEF n, broken
<1>5. Sound(moved)
  BY <1>2, <1>3, ShiftedSound
<1> HIDE DEF moved
<1> QED BY <1>1, <1>4, <1>5, BreakSound

LEMMA AdvanceSound ==
    ASSUME ModesOK, NEW s, Sound(s)
    PROVE  Sound(AdvanceRow(s))
<1> DEFINE t == [s EXCEPT !.pending = FALSE]
<1>1. Sound(t)
  BY CursorMoves, Places
<1>2. AdvanceRow(s) =
        IF t.row = t.bottom /\ InColumns(t) THEN ScrollActiveRegionUp(t)
        ELSE IF t.row < LastRow THEN [t EXCEPT !.row = t.row + 1] ELSE t
  BY DEF AdvanceRow
<1> HIDE DEF t
<1>3. Sound(ScrollActiveRegionUp(t))
  <2>1. t.top \in Rows /\ t.bottom \in Rows /\ t.top <= t.bottom
    BY <1>1, Places
  <2> DEFINE archive == active = "primary" /\ t.top = 0 /\ FullWidth(t)
  <2>2. archive \in BOOLEAN
    OBVIOUS
  <2>3. ScrollActiveRegionUp(t) = ScrollUpRegion(t, t.top, t.bottom, archive, 1)
    BY DEF ScrollActiveRegionUp
  <2> HIDE DEF archive
  <2> QED BY <1>1, <2>1, <2>2, <2>3, ScrollUpSound
<1>4. t.row < LastRow => Sound([t EXCEPT !.row = t.row + 1])
  <2>1. t.row < LastRow => t.row + 1 \in Rows
    BY <1>1, Places
  <2>2. t.col \in Columns /\ t.pending \in BOOLEAN
    BY <1>1, Places
  <2> QED BY <1>1, <2>1, <2>2, CursorMoves
<1> QED BY <1>1, <1>2, <1>3, <1>4

LEMMA LineFedSound ==
    ASSUME ModesOK, NEW s, Sound(s)
    PROVE  Sound(LineFed(s))
<1>1. Sound([s EXCEPT !.rows[s.row].wrap = 0])
  BY Places, WrapChanges
<1> QED BY <1>1, AdvanceSound DEF LineFed

\* The cursor's row, marked as going on in the next one; WrapLine then advances.
Marked(s) ==
    LET hard    == CursorLeft(s) # 0 \/ (InColumns(s) /\ ~FullWidth(s))
        columns == IF hard THEN 0 ELSE IF s.pending THEN CursorRight(s) + 1 ELSE s.col
    IN  [s EXCEPT !.rows = [s.rows EXCEPT ![s.row] =
           [s.rows[s.row] EXCEPT !.wrap = columns, !.next = NextLine(s)]]]

LEMMA MarkedSound ==
    ASSUME ModesOK, NEW s, Sound(s)
    PROVE  Sound(Marked(s)) /\ WrapLine(s) = CarriageReturn(AdvanceRow(Marked(s)))
<1> DEFINE hard == CursorLeft(s) # 0 \/ (InColumns(s) /\ ~FullWidth(s))
           columns == IF hard THEN 0 ELSE IF s.pending THEN CursorRight(s) + 1 ELSE s.col
           next == NextLine(s)
           row == [s.rows[s.row] EXCEPT !.wrap = columns, !.next = next]
           t == [s EXCEPT !.rows = [s.rows EXCEPT ![s.row] = row]]
<1>1. columns \in Nat
  BY Places
<1>2. next \in Nat
  <2>1. s.row < LastRow => s.row + 1 \in Rows
    BY Places
  <2>2. s.row < LastRow => s.rows[s.row + 1].line \in Nat
    BY <2>1, RowsOfScreen
  <2>3. s.lines + s.bottom - s.top \in Nat
    BY Places
  <2> QED BY <2>2, <2>3 DEF NextLine, NoLine
<1>3. WrapLine(s) = CarriageReturn(AdvanceRow(t)) /\ Marked(s) = t
  BY Places, RowsOfScreen DEF WrapLine, Marked, Sound, ScreenSound, Fields
<1> HIDE DEF columns, next
<1>4. RowSound(size.columns, row)
  <2>1. RowSound(size.columns, s.rows[s.row])
    BY Places DEF Sound, ScreenSound, RowsSound, Rows
  <2> QED BY <1>1, <1>2, <2>1 DEF RowSound, RowOf
<1> HIDE DEF row
<1>5. Sound(t)
  BY <1>4, Places, OneRowChanges
<1> QED BY <1>3, <1>5

\* A row that has been wrapped leaves the cursor where two columns are, if any are.
LEMMA WrapSound ==
    ASSUME ModesOK, NEW s, Sound(s)
    PROVE  /\ Sound(WrapLine(s)) /\ WrapLine(s).col \in Columns
           /\ LastColumn = 0 \/ WrapLine(s).col < LastColumn
<1> DEFINE t == Marked(s)
<1>1. Sound(t) /\ WrapLine(s) = CarriageReturn(AdvanceRow(t))
  BY MarkedSound
<1> HIDE DEF t
<1> QED BY <1>1, AdvanceSound, ReturnSound
-------------------------------------------------------------------------------
(***************************************************************************)
(* Printing.                                                               *)
(***************************************************************************)
LEMMA InstalledSound ==
    ASSUME ModesOK, NEW s, Sound(s), NEW row \in Rows, NEW col \in Columns,
           NEW g \in Glyphs, NEW width \in 1..2, NEW natural \in 1..2,
           width = 2 => col < LastColumn
    PROVE  Sound(Installed(s, row, col, g, width, natural))
<1> DEFINE cell  == Base(g, width, natural)
           cells == InstallSpan(s.rows[row].cells, col, cell)
<1>1. cell \in Cell /\ cell.kind # "rest" /\ (cell.kind = "lead" <=> width = 2)
  BY BaseOfSpan
<1>2. Installed(s, row, col, g, width, natural) = [s EXCEPT !.rows[row].cells = cells]
  BY DEF Installed
<1> HIDE DEF cell
<1>3. size.columns \in Nat /\ col \in 0..size.columns - 1
  BY GridSize
<1>4. cell.kind = "lead" => col + 1 \in 0..size.columns - 1
  BY <1>1, <1>3, GridSize
<1>5. s.rows[row].cells \in Cells(size.columns) /\ Whole(s.rows[row].cells)
  BY RowsOfScreen
<1>6. cells \in Cells(size.columns) /\ Whole(cells)
  BY <1>1, <1>3, <1>4, <1>5, InstalledWhole
<1> HIDE DEF cells
<1> QED BY <1>2, <1>6, CellsChange

LEMMA PutAtSound ==
    ASSUME ModesOK, NEW s, Sound(s), NEW col \in Columns,
           NEW g \in Glyphs, NEW width \in 1..2, NEW natural \in 1..2,
           width = 2 => col < LastColumn
    PROVE  Sound(PutAt(s, col, g, width, natural))
<1> DEFINE t == Installed(s, s.row, col, g, width, natural)
<1>1. s.row \in Rows
  BY Places
<1>2. Sound(t)
  BY <1>1, InstalledSound
<1>3. PutAt(s, col, g, width, natural) = AfterCell(t, s.row, col, width)
  BY DEF PutAt
<1> HIDE DEF t
<1> QED BY <1>1, <1>2, <1>3, AfterCellSound

LEMMA PutHereSound ==
    ASSUME ModesOK, NEW s, Sound(s),
           NEW g \in Glyphs, NEW width \in 1..2, NEW natural \in 1..2,
           width = 2 => s.col < LastColumn
    PROVE  Sound(PutHere(s, g, width, natural))
<1>1. s.col \in Columns
  BY Places
<1> QED BY <1>1, PutAtSound DEF PutHere

LEMMA PutFromSound ==
    ASSUME ModesOK, NEW s, Sound(s),
           NEW g \in Glyphs, NEW width \in 1..2, NEW natural \in 1..2,
           width = 2 => LastColumn > 0
    PROVE  Sound(PutFrom(s, g, width, natural))
<1>1. ASSUME width <= CursorRight(s) + 1 - s.col
      PROVE  Sound(PutHere(s, g, width, natural))
  <2>1. width = 2 => s.col < LastColumn
    BY <1>1, Places
  <2> QED BY <2>1, PutHereSound
<1>2. Sound(PutHere(WrapLine(s), g, width, natural))
  <2> DEFINE t == WrapLine(s)
  <2>1. Sound(t) /\ (LastColumn = 0 \/ t.col < LastColumn)
    BY WrapSound
  <2> HIDE DEF t
  <2>2. width = 2 => t.col < LastColumn
    BY <2>1, Places
  <2>3. Sound(PutHere(t, g, width, natural))
    BY <2>1, <2>2, PutHereSound
  <2> QED BY <2>3 DEF t
<1> QED BY <1>1, <1>2 DEF PutFrom

LEMMA PutSound ==
    ASSUME ModesOK, NEW s, Sound(s), NEW g \in Glyphs, NEW natural \in 1..2
    PROVE  Sound(Put(s, g, natural))
<1> DEFINE t == IF autowrap /\ s.pending THEN WrapLine(s) ELSE s
           width == IF natural > ActiveRight(s) - ActiveLeft(s) + 1 THEN 1 ELSE natural
<1>1. Sound(t)
  BY WrapSound
<1>2. width \in 1..2 /\ (width = 2 => LastColumn > 0)
  BY Places
<1>3. Put(s, g, natural) = PutFrom(t, g, width, natural)
  BY DEF Put
<1> HIDE DEF t, width
<1> QED BY <1>1, <1>2, <1>3, PutFromSound

LEMMA BaseInRow ==
    ASSUME NEW n \in Nat, NEW r \in Cells(n), NEW c \in 0..n - 1
    PROVE  BaseColumn(r, c) \in 0..c /\ BaseColumn(r, c) \in 0..n - 1
BY RowDomain DEF BaseColumn

LEMMA CombinedSound ==
    ASSUME ModesOK, NEW s, Sound(s), NEW mark \in Glyphs, NEW natural \in 1..2
    PROVE  Sound(Combined(s, mark, natural))
<1> DEFINE cells == s.rows[s.row].cells
           here  == \/ s.pending
                    \/ ~autowrap /\ s.col = CursorRight(s) /\ cells[s.col].kind # "blank"
           at    == IF here THEN s.col ELSE s.col - 1
           col   == BaseColumn(cells, at)
           width == IF natural > size.columns THEN 1 ELSE natural
           room  == CursorRight(s) + 1 - col
           shown == IF width > room THEN 1 ELSE width
           g     == IF cells[col].glyph = Space THEN mark ELSE cells[col].glyph
           clear == ClearSpans(cells, col, col, Blank)
           left  == [s EXCEPT !.rows[s.row].cells = clear, !.col = col, !.pending = FALSE]
           gone  == WrapLine(left)
           none  == \/ ~here /\ s.col = CursorLeft(s)
                    \/ col < CursorLeft(s)
                    \/ cells[col].kind = "blank"
<1>1. Combined(s, mark, natural) =
        IF none THEN s
        ELSE IF width > room /\ autowrap THEN PutHere(gone, g, width, natural)
        ELSE PutAt(s, col, g, shown, natural)
  BY DEF Combined
<1>2. s.row \in Rows /\ cells \in Cells(size.columns) /\ Whole(cells)
  BY Places, RowsOfScreen
<1>3. size.columns \in Nat /\ size.columns = LastColumn + 1 /\ LastColumn \in Nat
      /\ Columns = 0..LastColumn
  BY GridSize
<1>4. s.col \in Columns /\ CursorLeft(s) \in Columns /\ CursorLeft(s) <= s.col
      /\ CursorRight(s) \in Columns /\ s.col <= CursorRight(s)
  BY Places
<1>5. width \in 1..2 /\ (width = 2 => LastColumn > 0)
  BY <1>3
<1> HIDE DEF cells, here, width
<1> SUFFICES ASSUME ~none PROVE Sound(Combined(s, mark, natural))
  BY <1>1
<1>6. at \in 0..size.columns - 1 /\ at <= s.col
  BY <1>3, <1>4
<1> HIDE DEF at
<1>7. col \in 0..at /\ col \in 0..size.columns - 1 /\ col \in Columns
  BY <1>2, <1>3, <1>6, BaseInRow
<1> HIDE DEF col
<1>8. g \in Glyphs
  BY <1>2, <1>3, <1>7, RowDomain, CellContents
<1> HIDE DEF g
<1>9. Sound(PutHere(gone, g, width, natural))
  <2>1. clear \in Cells(size.columns) /\ Whole(clear)
    <3>1. col \in Nat /\ col \in Int /\ col <= size.columns - 1
      BY <1>7
    <3> QED BY <1>2, <1>3, <3>1, ClearedSpans, CellKinds
  <2> DEFINE t == [s EXCEPT !.rows[s.row].cells = clear]
  <2>2. left = [t EXCEPT !.col = col, !.pending = FALSE]
    OBVIOUS
  <2> HIDE DEF clear
  <2>3. Sound(t)
    BY <1>2, <2>1, CellsChange
  <2> HIDE DEF t, left
  <2>4. Sound(left)
    BY <1>2, <1>7, <2>2, <2>3, CursorMoves
  <2>5. Sound(gone) /\ (LastColumn = 0 \/ gone.col < LastColumn)
    BY <2>4, WrapSound
  <2> HIDE DEF gone
  <2>6. width = 2 => gone.col < LastColumn
    BY <1>3, <1>5, <2>5
  <2> QED BY <1>5, <1>8, <2>5, <2>6, PutHereSound
<1>10. Sound(PutAt(s, col, g, shown, natural))
  <2>1. shown \in 1..2 /\ (shown = 2 => col < LastColumn)
    BY <1>3, <1>4, <1>5, <1>6, <1>7
  <2> HIDE DEF shown
  <2> QED BY <1>7, <1>8, <2>1, PutAtSound
<1> QED BY <1>1, <1>9, <1>10
-------------------------------------------------------------------------------
(***************************************************************************)
(* Erasing and editing within rows.                                        *)
(***************************************************************************)
LEMMA EraseRangeSound ==
    ASSUME ModesOK, NEW s, Sound(s), NEW row \in Rows, NEW first \in Nat, NEW last \in Int
    PROVE  Sound(EraseRowRange(s, row, first, last))
<1> DEFINE to == Bounded(last, 0, LastColumn)
           cells == ClearSpans(s.rows[row].cells, first, to, Fill)
           t == [s EXCEPT !.rows[row].cells = cells]
<1>1. size.columns \in Nat /\ size.columns = LastColumn + 1 /\ LastColumn \in Nat
  BY GridSize
<1>2. to \in Int /\ to <= size.columns - 1
  BY <1>1 DEF Bounded
<1>3. EraseRowRange(s, row, first, last) =
        [t EXCEPT !.rows[row].wrap = IF to = LastColumn THEN 0 ELSE s.rows[row].wrap]
  BY RowsOfScreen DEF EraseRowRange, Sound, ScreenSound, Fields, RowOf
<1> HIDE DEF to
<1>4. cells \in Cells(size.columns) /\ Whole(cells)
  BY <1>1, <1>2, RowsOfScreen, ClearedSpans, FillIsPlain
<1> HIDE DEF cells
<1>5. Sound(t)
  BY <1>4, CellsChange
<1> HIDE DEF t
<1>6. (IF to = LastColumn THEN 0 ELSE s.rows[row].wrap) \in Nat
  BY RowsOfScreen
<1> QED BY <1>3, <1>5, <1>6, WrapChanges

LEMMA ErasedRowsSound ==
    ASSUME ModesOK, NEW s, Sound(s), NEW erased
    PROVE  Sound(ErasedRows(s, erased))
<1> DEFINE cells == EmptyCells(size.columns, Fill)
           rows == [r \in Rows |-> IF r \in erased
                                   THEN [s.rows[r] EXCEPT !.cells = cells, !.wrap = 0]
                                   ELSE s.rows[r]]
<1>1. cells \in Cells(size.columns) /\ Whole(cells)
  BY GridSize, FillIsPlain, EmptyIsWhole
<1>2. ErasedRows(s, erased) = [s EXCEPT !.rows = rows]
  BY DEF ErasedRows
<1> HIDE DEF cells
<1>3. ASSUME NEW r \in Rows PROVE RowSound(size.columns, rows[r])
  <2>1. RowSound(size.columns, s.rows[r])
    BY DEF Sound, ScreenSound, RowsSound, Rows
  <2>2. RowSound(size.columns, [s.rows[r] EXCEPT !.cells = cells, !.wrap = 0])
    BY <1>1, <2>1 DEF RowSound, RowOf
  <2> QED BY <2>1, <2>2
<1>4. DOMAIN rows = Rows
  OBVIOUS
<1> HIDE DEF rows
<1> QED BY <1>2, <1>3, <1>4, RowsChange

LEMMA EraseInLineSound ==
    ASSUME ModesOK, NEW s, Sound(s), NEW mode \in 0..2
    PROVE  Sound(EraseInLineOf(s, mode))
<1>1. s.row \in Rows /\ s.col \in Nat /\ LastColumn \in Nat
  BY Places
<1>2. /\ Sound(EraseRowRange(s, s.row, s.col, LastColumn))
      /\ Sound(EraseRowRange(s, s.row, 0, s.col))
      /\ Sound(EraseRowRange(s, s.row, 0, LastColumn))
  BY <1>1, EraseRangeSound
<1>3. mode = 0 \/ mode = 1 \/ mode = 2
  OBVIOUS
<1> QED BY <1>2, <1>3 DEF EraseInLineOf

LEMMA EraseInDisplaySound ==
    ASSUME ModesOK, NEW s, Sound(s), NEW mode \in 0..3
    PROVE  Sound(EraseInDisplayOf(s, mode))
<1> DEFINE t == [s EXCEPT !.pending = FALSE]
<1>1. Sound(t)
  BY CursorMoves, Places
<1>2. EraseInDisplayOf(s, mode) =
        CASE mode = 0 -> ErasedRows(EraseRowRange(t, t.row, t.col, LastColumn),
                                    t.row + 1..LastRow)
          [] mode = 1 -> ErasedRows(EraseRowRange(t, t.row, 0, t.col), 0..t.row - 1)
          [] mode = 2 -> ErasedRows(t, Rows)
          [] mode = 3 -> t
  BY DEF EraseInDisplayOf
<1> HIDE DEF t
<1>3. t.row \in Rows /\ t.col \in Nat /\ LastColumn \in Nat
  BY <1>1, Places
<1>4. /\ Sound(EraseRowRange(t, t.row, t.col, LastColumn))
      /\ Sound(EraseRowRange(t, t.row, 0, t.col))
  BY <1>1, <1>3, EraseRangeSound
<1>5. /\ Sound(ErasedRows(EraseRowRange(t, t.row, t.col, LastColumn), t.row + 1..LastRow))
      /\ Sound(ErasedRows(EraseRowRange(t, t.row, 0, t.col), 0..t.row - 1))
      /\ Sound(ErasedRows(t, Rows))
  BY <1>1, <1>4, ErasedRowsSound
<1>6. mode = 0 \/ mode = 1 \/ mode = 2 \/ mode = 3
  OBVIOUS
<1> QED BY <1>1, <1>2, <1>5, <1>6

LEMMA EraseCharactersSound ==
    ASSUME ModesOK, NEW s, Sound(s), NEW count \in Int
    PROVE  Sound(EraseCharactersOf(s, count))
<1> DEFINE t == [s EXCEPT !.pending = FALSE]
           last == s.col + Bounded(count, 1, size.columns - s.col) - 1
<1>1. Sound(t)
  BY CursorMoves, Places
<1>2. s.row \in Rows /\ s.col \in Nat /\ size.columns \in Nat
  BY Places, GridSize
<1>3. last \in Int
  BY <1>2 DEF Bounded
<1>4. EraseCharactersOf(s, count) = EraseRowRange(t, s.row, s.col, last)
  BY DEF EraseCharactersOf
<1> HIDE DEF t, last
<1> QED BY <1>1, <1>2, <1>3, <1>4, EraseRangeSound

LEMMA EditRoom ==
    ASSUME ModesOK, NEW s, Sound(s), NEW count \in Int
    PROVE  /\ size.columns \in Nat /\ s.col \in 0..size.columns - 1
           /\ CursorRight(s) + 1 \in s.col + 1..size.columns
           /\ EditCount(s, count) \in 1..(CursorRight(s) + 1) - s.col
<1>1. /\ size.columns \in Nat /\ size.columns = LastColumn + 1 /\ LastColumn \in Nat
      /\ Columns = 0..LastColumn
  BY GridSize
<1>2. s.col \in Columns /\ CursorRight(s) \in Columns /\ s.col <= CursorRight(s)
  BY Places
<1>3. CursorRight(s) + 1 - s.col \in Nat \ {0}
  BY <1>1, <1>2
<1>4. EditCount(s, count) \in 1..(CursorRight(s) + 1) - s.col
  <2>1. CursorRight(s) + 1 - s.col = (CursorRight(s) + 1) - s.col
    BY <1>1, <1>2
  <2> QED BY <1>3, <2>1 DEF EditCount, Bounded
<1> QED BY <1>1, <1>2, <1>4

LEMMA InsertCellsSound ==
    ASSUME ModesOK, NEW s, Sound(s), NEW count \in Int
    PROVE  Sound(InsertCellsAt(s, count))
<1> DEFINE m == EditCount(s, count)
           end == CursorRight(s) + 1
           cells == InsertInRow(s.rows[s.row].cells, s.col, m, end, Fill)
           t == [s EXCEPT !.rows[s.row].cells = cells]
<1>1. /\ size.columns \in Nat /\ s.col \in 0..size.columns - 1
      /\ end \in s.col + 1..size.columns /\ m \in 1..end - s.col
  BY EditRoom
<1>2. s.row \in Rows /\ s.rows[s.row].cells \in Cells(size.columns)
      /\ Whole(s.rows[s.row].cells) /\ s.pending \in BOOLEAN
  BY Places, RowsOfScreen
<1>3. InsertCellsAt(s, count) =
        IF InColumns(s) THEN [t EXCEPT !.pending = FALSE] ELSE [s EXCEPT !.pending = FALSE]
  BY DEF InsertCellsAt
<1> HIDE DEF m, end
<1>4. cells \in Cells(size.columns) /\ Whole(cells)
  BY <1>1, <1>2, InsertedWhole, FillIsPlain
<1> HIDE DEF cells
<1>5. Sound(t)
  BY <1>2, <1>4, CellsChange
<1> HIDE DEF t
<1>6. Sound([t EXCEPT !.pending = FALSE]) /\ Sound([s EXCEPT !.pending = FALSE])
  BY <1>5, CursorMoves, Places
<1> QED BY <1>3, <1>6

LEMMA DeleteCellsSound ==
    ASSUME ModesOK, NEW s, Sound(s), NEW count \in Int
    PROVE  Sound(DeleteCellsAt(s, count))
<1> DEFINE m == EditCount(s, count)
           end == CursorRight(s) + 1
           cells == DeleteInRow(s.rows[s.row].cells, s.col, m, end, Fill)
           t == [s EXCEPT !.rows[s.row].cells = cells]
<1>1. /\ size.columns \in Nat /\ s.col \in 0..size.columns - 1
      /\ end \in s.col + 1..size.columns /\ m \in 1..end - s.col
  BY EditRoom
<1>2. s.row \in Rows /\ s.rows[s.row].cells \in Cells(size.columns)
      /\ Whole(s.rows[s.row].cells) /\ s.pending \in BOOLEAN
  BY Places, RowsOfScreen
<1>3. DeleteCellsAt(s, count) = IF InColumns(s) THEN [t EXCEPT !.pending = FALSE] ELSE s
  BY DEF DeleteCellsAt
<1> HIDE DEF m, end
<1>4. cells \in Cells(size.columns) /\ Whole(cells)
  BY <1>1, <1>2, DeletedWhole, FillIsPlain
<1> HIDE DEF cells
<1>5. Sound(t)
  BY <1>2, <1>4, CellsChange
<1> HIDE DEF t
<1>6. Sound([t EXCEPT !.pending = FALSE])
  BY <1>5, CursorMoves, Places
<1> QED BY <1>3, <1>6

LEMMA ShiftColumnsSound ==
    ASSUME ModesOK, NEW s, Sound(s), NEW first \in Int, NEW count \in Int, NEW insert \in BOOLEAN
    PROVE  Sound(ShiftColumns(s, first, count, insert))
<1> SUFFICES ASSUME s.row \in s.top..s.bottom, first \in ActiveLeft(s)..ActiveRight(s)
             PROVE  Sound(ShiftColumns(s, first, count, insert))
  BY DEF ShiftColumns
<1> DEFINE end == ActiveRight(s) + 1
           n   == Bounded(count, 1, end - first)
           rows == [r \in Rows |->
                      IF r \in s.top..s.bottom
                      THEN [s.rows[r] EXCEPT
                              !.cells = ShiftInRow(s.rows[r].cells, first, n, end, insert),
                              !.wrap = 0]
                      ELSE s.rows[r]]
           p   == [s EXCEPT !.pending = FALSE]
           t   == [p EXCEPT !.rows = rows]
<1>1. ShiftColumns(s, first, count, insert) =
        BreakSoftWrapBefore(BreakSoftWrapBefore(t, s.top), s.bottom + 1)
  BY DEF ShiftColumns, Sound, ScreenSound, Fields
<1>2. /\ size.columns \in Nat /\ size.columns = LastColumn + 1 /\ LastColumn \in Nat
      /\ Columns = 0..LastColumn
  BY GridSize
<1>3. ActiveLeft(s) \in Columns /\ ActiveRight(s) \in Columns
  BY Places
<1>4. first \in 0..size.columns - 1 /\ end \in first + 1..size.columns
  BY <1>2, <1>3
<1>5. n \in 1..end - first
  BY <1>4 DEF Bounded
<1> HIDE DEF end, n
<1>6. ASSUME NEW r \in Rows PROVE RowSound(size.columns, rows[r])
  <2> DEFINE cells == ShiftInRow(s.rows[r].cells, first, n, end, insert)
  <2>1. RowSound(size.columns, s.rows[r])
    BY DEF Sound, ScreenSound, RowsSound, Rows
  <2>2. cells \in Cells(size.columns) /\ Whole(cells)
    BY <1>2, <1>4, <1>5, RowsOfScreen, ShiftedWhole
  <2>3. rows[r] = IF r \in s.top..s.bottom
                  THEN [s.rows[r] EXCEPT !.cells = cells, !.wrap = 0] ELSE s.rows[r]
    OBVIOUS
  <2> HIDE DEF cells, rows
  <2>4. RowSound(size.columns, [s.rows[r] EXCEPT !.cells = cells, !.wrap = 0])
    BY <2>1, <2>2 DEF RowSound, RowOf
  <2> QED BY <2>1, <2>3, <2>4
<1>7. DOMAIN rows = Rows
  OBVIOUS
<1>8. Sound(p)
  BY CursorMoves, Places
<1> HIDE DEF rows, p
<1>9. Sound(t)
  BY <1>6, <1>7, <1>8, RowsChange
<1> HIDE DEF t
<1>10. s.top \in 0..size.rows /\ s.bottom + 1 \in 0..size.rows
  <2>1. s.top \in Rows /\ s.bottom \in Rows
    BY Places
  <2> QED BY <2>1, GridSize
<1>11. Sound(BreakSoftWrapBefore(t, s.top))
  BY <1>9, <1>10, BreakSound
<1> QED BY <1>1, <1>10, <1>11, BreakSound
-------------------------------------------------------------------------------
(***************************************************************************)
(* Inserting and deleting rows, indexing and rectangles.                   *)
(***************************************************************************)
LEMMA LinesPlace ==
    ASSUME ModesOK, NEW s, Sound(s)
    PROVE  LET t == BreakSoftWrapBefore(SetCursorPosition(s, s.row, ActiveLeft(s)), s.row)
           IN  Sound(t) /\ Sound(BreakSoftWrapBefore(t, s.bottom + 1))
<1> DEFINE p == SetCursorPosition(s, s.row, ActiveLeft(s))
           t == BreakSoftWrapBefore(p, s.row)
<1>1. /\ s.row \in Rows /\ s.bottom \in Rows /\ ActiveLeft(s) \in Columns
      /\ s.row \in Int /\ ActiveLeft(s) \in Int
  BY Places
<1>2. s.row \in 0..size.rows /\ s.bottom + 1 \in 0..size.rows
  BY <1>1, GridSize
<1>3. Sound(p)
  BY <1>1, CursorSetSound
<1> HIDE DEF p
<1>4. Sound(t)
  BY <1>2, <1>3, BreakSound
<1> HIDE DEF t
<1>5. Sound(BreakSoftWrapBefore(t, s.bottom + 1))
  BY <1>2, <1>4, BreakSound
<1> QED BY <1>4, <1>5 DEF t, p

LEMMA InsertLinesSound ==
    ASSUME ModesOK, NEW s, Sound(s), NEW count \in Int
    PROVE  Sound(InsertLinesAt(s, count))
<1> DEFINE t == BreakSoftWrapBefore(SetCursorPosition(s, s.row, ActiveLeft(s)), s.row)
           n == Bounded(count, 1, s.bottom - s.row + 1)
           y == Shifted(t, s.row, s.bottom, -n)
<1>1. s.row \in Rows /\ s.bottom \in Rows /\ s.row \in Int /\ s.bottom \in Int
  BY Places
<1>2. s.bottom + 1 \in 0..size.rows
  BY <1>1, GridSize
<1>3. -n \in Int
  BY <1>1 DEF Bounded
<1>4. Sound(t)
  BY LinesPlace
<1>5. InsertLinesAt(s, count) =
        IF InRegion(s) THEN BreakSoftWrapBefore(y, s.bottom + 1) ELSE s
  BY DEF InsertLinesAt
<1> HIDE DEF t, n
<1>6. ASSUME InRegion(s) PROVE Sound(BreakSoftWrapBefore(y, s.bottom + 1))
  <2>1. s.row <= s.bottom
    BY <1>1, <1>6 DEF InRegion
  <2>2. Sound(y)
    BY <1>1, <1>3, <1>4, <2>1, ShiftedSound
  <2> HIDE DEF y
  <2> QED BY <1>2, <2>2, BreakSound
<1> QED BY <1>5, <1>6

LEMMA DeleteLinesSound ==
    ASSUME ModesOK, NEW s, Sound(s), NEW count \in Int
    PROVE  Sound(DeleteLinesAt(s, count))
<1> DEFINE t == BreakSoftWrapBefore(SetCursorPosition(s, s.row, ActiveLeft(s)), s.row)
           n == Bounded(count, 1, s.bottom - s.row + 1)
           y == BreakSoftWrapBefore(t, s.bottom + 1)
<1>1. s.row \in Rows /\ s.bottom \in Rows /\ s.row \in Int /\ s.bottom \in Int
  BY Places
<1>2. n \in Int
  BY <1>1 DEF Bounded
<1>3. Sound(y)
  BY LinesPlace
<1>4. DeleteLinesAt(s, count) = IF InRegion(s) THEN Shifted(y, s.row, s.bottom, n) ELSE s
  BY DEF DeleteLinesAt
<1> HIDE DEF y, n
<1>5. ASSUME InRegion(s) PROVE Sound(Shifted(y, s.row, s.bottom, n))
  <2>1. s.row <= s.bottom
    BY <1>1, <1>5 DEF InRegion
  <2> QED BY <1>1, <1>2, <1>3, <2>1, ShiftedSound
<1> QED BY <1>4, <1>5

LEMMA ReverseIndexSound ==
    ASSUME ModesOK, NEW s, Sound(s)
    PROVE  Sound(ReverseIndexed(s))
<1> DEFINE t == [s EXCEPT !.pending = FALSE]
<1>1. /\ s.row \in Rows /\ s.top \in Rows /\ s.bottom \in Rows /\ s.top <= s.bottom
      /\ Rows = 0..LastRow /\ LastRow \in Nat
  BY Places
<1>2. Sound(t) /\ t.row = s.row
  BY CursorMoves, Places DEF Sound, ScreenSound, Fields
<1>3. ReverseIndexed(s) =
        IF s.row = s.top /\ InColumns(s) THEN ScrollDownRegion(t, s.top, s.bottom, 1)
        ELSE IF s.row > 0 THEN [t EXCEPT !.row = t.row - 1] ELSE t
  BY DEF ReverseIndexed
<1> HIDE DEF t
<1>4. Sound(ScrollDownRegion(t, s.top, s.bottom, 1))
  BY <1>1, <1>2, ScrollDownSound, SMTT(40)
<1>5. s.row > 0 => Sound([t EXCEPT !.row = t.row - 1])
  <2>1. s.row > 0 => t.row - 1 \in Rows
    BY <1>1, <1>2
  <2>2. t.col \in Columns /\ t.pending \in BOOLEAN
    BY <1>2, Places
  <2> QED BY <1>2, <2>1, <2>2, CursorMoves
<1> QED BY <1>2, <1>3, <1>4, <1>5

LEMMA IndexSound ==
    ASSUME ModesOK, NEW s, Sound(s)
    PROVE  Sound(BackIndexed(s)) /\ Sound(ForwardIndexed(s))
<1>1. ActiveLeft(s) \in Int
  BY Places
<1>2. ASSUME NEW insert \in BOOLEAN PROVE Sound(ShiftColumns(s, ActiveLeft(s), 1, insert))
  BY <1>1, ShiftColumnsSound
<1>3. -1 \in Int
  OBVIOUS
<1>4. Sound(MoveCursorRelative(s, 0, -1)) /\ Sound(MoveCursorRelative(s, 0, 1))
  BY <1>3, RelativeMoveSound
<1> QED BY <1>2, <1>4 DEF BackIndexed, ForwardIndexed

\* The origin of a rectangle and the area it may be in are within the grid.
LEMMA AreaFits ==
    ASSUME ModesOK, NEW s, Sound(s)
    PROVE  /\ RowOrigin(s) \in Nat /\ AreaRows(s) \in Nat \ {0}
           /\ RowOrigin(s) + AreaRows(s) <= size.rows
           /\ ColumnOrigin(s) \in Nat /\ AreaColumns(s) \in Nat \ {0}
           /\ ColumnOrigin(s) + AreaColumns(s) <= size.columns
<1>1. /\ s.top \in Rows /\ s.bottom \in Rows /\ s.top <= s.bottom
      /\ s.left \in Columns /\ s.right \in Columns /\ s.left <= s.right
  BY Places
<1>2. /\ size.rows \in Nat \ {0} /\ size.columns \in Nat \ {0}
      /\ Rows = 0..size.rows - 1 /\ Columns = 0..size.columns - 1
  BY GridSize DEF ModesOK
<1>3. /\ RowOrigin(s) \in Nat /\ AreaRows(s) \in Nat \ {0}
      /\ RowOrigin(s) + AreaRows(s) <= size.rows
  BY <1>1, <1>2 DEF RowOrigin, AreaRows
<1>4. /\ ColumnOrigin(s) \in Nat /\ AreaColumns(s) \in Nat \ {0}
      /\ ColumnOrigin(s) + AreaColumns(s) <= size.columns
  <2>1. CASE s.origin /\ marginMode
    BY <1>1, <1>2, <2>1 DEF ColumnOrigin, AreaColumns
  <2>2. CASE ~(s.origin /\ marginMode)
    BY <1>2, <2>2 DEF ColumnOrigin, AreaColumns
  <2> QED BY <2>1, <2>2
<1> QED BY <1>3, <1>4

LEMMA InArea1 ==
    ASSUME NEW x \in Nat, NEW n \in Nat \ {0}
    PROVE  Bounded(x, 1, n) \in 1..n
BY DEF Bounded

LEMMA AreaInGrid ==
    ASSUME ModesOK, NEW s, Sound(s),
           NEW top \in Nat, NEW left \in Nat, NEW bottom \in Nat, NEW right \in Nat
    PROVE  LET a == Area(s, top, left, bottom, right)
           IN  /\ a.top \in 0..size.rows - 1 /\ a.bottom \in 0..size.rows - 1
               /\ a.left \in 0..size.columns - 1 /\ a.right \in 0..size.columns - 1
<1>1. /\ RowOrigin(s) \in Nat /\ AreaRows(s) \in Nat \ {0}
      /\ RowOrigin(s) + AreaRows(s) <= size.rows
      /\ ColumnOrigin(s) \in Nat /\ AreaColumns(s) \in Nat \ {0}
      /\ ColumnOrigin(s) + AreaColumns(s) <= size.columns
      /\ size.rows \in Nat /\ size.columns \in Nat
  BY AreaFits, GridSize
<1>2. /\ Bounded(top, 1, AreaRows(s)) \in 1..AreaRows(s)
      /\ Bounded(bottom, 1, AreaRows(s)) \in 1..AreaRows(s)
      /\ Bounded(left, 1, AreaColumns(s)) \in 1..AreaColumns(s)
      /\ Bounded(right, 1, AreaColumns(s)) \in 1..AreaColumns(s)
  BY <1>1, InArea1
<1> QED BY <1>1, <1>2 DEF Area

GoodArea(a) ==
    /\ a.top \in 0..size.rows - 1 /\ a.bottom \in 0..size.rows - 1
    /\ a.left \in 0..size.columns - 1 /\ a.right \in 0..size.columns - 1

\* The rows in the set take other cells and another wrap.
Rewritten(s, rewritten, cells, wraps) ==
    [s EXCEPT !.rows = [r \in Rows |->
       IF r \in rewritten THEN [s.rows[r] EXCEPT !.cells = cells[r], !.wrap = wraps[r]]
       ELSE s.rows[r]]]

LEMMA RewrittenSound ==
    ASSUME ModesOK, NEW s, Sound(s), NEW rewritten, NEW cells, NEW wraps,
           \A r \in Rows : r \in rewritten =>
              cells[r] \in Cells(size.columns) /\ Whole(cells[r]) /\ wraps[r] \in Nat
    PROVE  Sound(Rewritten(s, rewritten, cells, wraps))
<1> DEFINE rows == [r \in Rows |->
              IF r \in rewritten THEN [s.rows[r] EXCEPT !.cells = cells[r], !.wrap = wraps[r]]
              ELSE s.rows[r]]
<1>1. ASSUME NEW r \in Rows PROVE RowSound(size.columns, rows[r])
  <2>1. RowSound(size.columns, s.rows[r])
    BY DEF Sound, ScreenSound, RowsSound, Rows
  <2>2. ASSUME r \in rewritten
        PROVE  RowSound(size.columns, [s.rows[r] EXCEPT !.cells = cells[r], !.wrap = wraps[r]])
    BY <2>1, <2>2 DEF RowSound, RowOf
  <2> QED BY <2>1, <2>2
<1>2. DOMAIN rows = Rows
  OBVIOUS
<1> HIDE DEF rows
<1>3. Sound([s EXCEPT !.rows = rows])
  BY <1>1, <1>2, RowsChange
<1> QED BY <1>3 DEF rows, Rewritten

LEMMA FillAreaSound ==
    ASSUME ModesOK, NEW s, Sound(s), NEW a, GoodArea(a), NEW cell, Plain(cell)
    PROVE  Sound(FillArea(s, a, cell))
<1> DEFINE cells == [r \in Rows |-> FillInRow(s.rows[r].cells, a.left, a.right, cell)]
           wraps == [r \in Rows |-> IF a.right = LastColumn THEN 0 ELSE s.rows[r].wrap]
           inside == a.top..a.bottom
<1>1. size.columns \in Nat /\ a.left \in Nat /\ a.right \in Int /\ a.right <= size.columns - 1
  BY GridSize DEF GoodArea
<1>2. ASSUME NEW r \in Rows
      PROVE  cells[r] \in Cells(size.columns) /\ Whole(cells[r]) /\ wraps[r] \in Nat
  BY <1>1, RowsOfScreen, FilledWhole
<1>3. FillArea(s, a, cell) = Rewritten(s, inside, cells, wraps)
  BY RowsOfScreen DEF Rewritten, FillArea, RowOf
<1> HIDE DEF cells, wraps, inside
<1> QED BY <1>2, <1>3, RewrittenSound

LEMMA EraseAreaSound ==
    ASSUME ModesOK, NEW s, Sound(s), NEW a, GoodArea(a)
    PROVE  Sound(EraseArea(s, a))
<1> DEFINE cells == [r \in Rows |-> ClearSpans(s.rows[r].cells, a.left, a.right, Blank)]
           wraps == [r \in Rows |->
                       IF a.right = LastColumn /\ s.rows[r].cells[LastColumn] # Blank
                       THEN 0 ELSE s.rows[r].wrap]
           inside == a.top..a.bottom
<1>1. size.columns \in Nat /\ a.left \in Nat /\ a.right \in Int /\ a.right <= size.columns - 1
  BY GridSize DEF GoodArea
<1>2. ASSUME NEW r \in Rows
      PROVE  cells[r] \in Cells(size.columns) /\ Whole(cells[r]) /\ wraps[r] \in Nat
  BY <1>1, RowsOfScreen, ClearedSpans, CellKinds
<1>3. EraseArea(s, a) = Rewritten(s, inside, cells, wraps)
  BY RowsOfScreen DEF Rewritten, EraseArea, RowOf
<1> HIDE DEF cells, wraps, inside
<1> QED BY <1>2, <1>3, RewrittenSound

LEMMA CopyAreaSound ==
    ASSUME ModesOK, NEW s, Sound(s), NEW a, GoodArea(a), NEW top \in Nat, NEW left \in Nat
    PROVE  Sound(CopyArea(s, a, top, left))
<1> DEFINE toRow == Bounded(top, 1, AreaRows(s)) - 1 + RowOrigin(s)
           toCol == Bounded(left, 1, AreaColumns(s)) - 1 + ColumnOrigin(s)
           n  == Bounded(a.bottom - a.top + 1, 0, RowOrigin(s) + AreaRows(s) - toRow)
           m  == Bounded(a.right - a.left + 1, 0, ColumnOrigin(s) + AreaColumns(s) - toCol)
           inside == toRow..toRow + n - 1
           cells == [r \in Rows |-> CopyInRow(s.rows[r].cells, s.rows[a.top + r - toRow].cells,
                                              a.left, toCol, m)]
           wraps == [r \in Rows |-> IF toCol + m = size.columns THEN 0 ELSE s.rows[r].wrap]
<1>1. /\ RowOrigin(s) \in Nat /\ AreaRows(s) \in Nat \ {0}
      /\ RowOrigin(s) + AreaRows(s) <= size.rows
      /\ ColumnOrigin(s) \in Nat /\ AreaColumns(s) \in Nat \ {0}
      /\ ColumnOrigin(s) + AreaColumns(s) <= size.columns
  BY AreaFits
<1>2. /\ size.rows \in Nat /\ size.columns \in Nat /\ Rows = 0..size.rows - 1
  BY GridSize
<1>3. /\ a.top \in Nat /\ a.bottom \in Nat /\ a.bottom <= size.rows - 1 /\ a.top <= size.rows - 1
      /\ a.left \in Nat /\ a.right \in Nat /\ a.right <= size.columns - 1
      /\ a.left <= size.columns - 1
  BY <1>2 DEF GoodArea
<1>4. /\ Bounded(top, 1, AreaRows(s)) \in 1..AreaRows(s)
      /\ Bounded(left, 1, AreaColumns(s)) \in 1..AreaColumns(s)
  BY <1>1, InArea1
<1>5. /\ toRow \in Nat /\ toRow < RowOrigin(s) + AreaRows(s)
      /\ toCol \in Nat /\ toCol < ColumnOrigin(s) + AreaColumns(s)
  BY <1>1, <1>4
<1> HIDE DEF toRow, toCol
<1>6. CopyArea(s, a, top, left) = Rewritten(s, inside, cells, wraps)
  BY RowsOfScreen DEF Rewritten, CopyArea, RowOf, toRow, toCol
<1>7. n \in Int /\ (n <= 0 \/ n <= a.bottom - a.top + 1)
  <2>1. a.bottom - a.top + 1 \in Int /\ RowOrigin(s) + AreaRows(s) - toRow \in Nat
    BY <1>1, <1>3, <1>5
  <2> QED BY <2>1 DEF Bounded
<1>8. m \in Nat /\ toCol + m <= size.columns /\ (m = 0 \/ m <= a.right - a.left + 1)
  <2>1. /\ a.right - a.left + 1 \in Int /\ ColumnOrigin(s) + AreaColumns(s) - toCol \in Nat
        /\ toCol + (ColumnOrigin(s) + AreaColumns(s) - toCol) <= size.columns
    BY <1>1, <1>2, <1>3, <1>5, SMTT(40)
  <2> QED BY <1>2, <1>5, <2>1 DEF Bounded
<1> HIDE DEF n, m
<1>9. ASSUME NEW r \in Rows, r \in inside
      PROVE  cells[r] \in Cells(size.columns) /\ Whole(cells[r]) /\ wraps[r] \in Nat
  <2>0. r \in Nat /\ toRow <= r /\ r - toRow <= n - 1
    BY <1>2, <1>5, <1>7, <1>9
  <2>1. a.top + r - toRow \in Rows
    <3> DEFINE d == r - toRow
    <3>1. d \in Nat /\ d <= n - 1
      BY <1>5, <2>0
    <3> HIDE DEF d
    <3>2. n <= a.bottom - a.top + 1
      BY <1>7, <3>1
    <3>3. d <= a.bottom - a.top
      BY <1>3, <1>7, <3>1, <3>2
    <3>4. a.top \in Nat /\ a.bottom \in Nat /\ a.bottom <= size.rows - 1
      BY <1>3
    <3>5. a.top + d \in Nat /\ a.top + d <= a.bottom
      BY <3>1, <3>3, <3>4
    <3>6. a.top + d <= size.rows - 1
      BY <1>2, <3>4, <3>5
    <3>7. a.top + d \in Rows
      BY <1>2, <3>5, <3>6
    <3> QED BY <3>7 DEF d
  <2>2. s.rows[a.top + r - toRow].cells \in Cells(size.columns)
        /\ Whole(s.rows[a.top + r - toRow].cells)
    BY <2>1, RowsOfScreen
  <2>3. a.left + m <= size.columns
    BY <1>2, <1>3, <1>8
  <2> QED BY <1>2, <1>3, <1>5, <1>8, <2>2, <2>3, RowsOfScreen, CopiedWhole
<1> HIDE DEF inside, cells, wraps
<1> QED BY <1>6, <1>9, RewrittenSound
-------------------------------------------------------------------------------
(***************************************************************************)
(* The buffers and the whole state.                                        *)
(***************************************************************************)
LEMMA EmptyScreenSound ==
    ASSUME ModesOK, NEW line \in Nat
    PROVE  Sound(EmptyScreen(line)) /\ EmptyScreen(line).lines = line + size.rows
<1>1. /\ size.rows \in Nat /\ size.columns \in Nat /\ LastRow \in 0..size.rows - 1
      /\ LastColumn = size.columns - 1 /\ 0 \in 0..size.rows - 1 /\ 0 \in 0..size.columns - 1
      /\ LastColumn \in 0..size.columns - 1 /\ Rows = 0..size.rows - 1
  BY GridSize
<1> DEFINE rows == [r \in Rows |-> EmptyRow(line + r)]
<1>2. RowsSound(size.rows, size.columns, rows)
  <2>1. ASSUME NEW r \in Rows PROVE RowSound(size.columns, rows[r])
    <3>1. line + r \in Nat
      BY <1>1
    <3> QED BY <3>1, ErasedRowSound
  <2>2. DOMAIN rows = Rows
    OBVIOUS
  <2> HIDE DEF rows
  <2> QED BY <1>1, <2>1, <2>2 DEF RowsSound
<1>3. NotSaved \in Saved
  BY DEF NotSaved, Saved
<1>4. MarginsSound(size.columns, 0, LastColumn)
  BY <1>1 DEF MarginsSound
<1>5. line + size.rows \in Nat /\ 0 <= LastRow
  BY <1>1
<1>6. EmptyScreen(line) =
        [rows    |-> rows, row |-> 0, col |-> 0, pending |-> FALSE,
         top     |-> 0, bottom |-> LastRow, left |-> 0, right |-> LastColumn,
         origin  |-> FALSE, saved |-> NotSaved, lines |-> line + size.rows, history |-> <<>>]
  BY DEF EmptyScreen
<1> HIDE DEF rows
<1> QED BY <1>1, <1>2, <1>3, <1>4, <1>5, <1>6 DEF Sound, ScreenSound, Fields

LEMMA PrintedScreenSound ==
    ASSUME ModesOK, NEW p, PrintedFits(size, p)
    PROVE  Sound(PrintedScreen(p))
<1> DEFINE empty == EmptyScreen(1)
           next(r) == IF p.wraps[r] > 0 THEN empty.rows[r + 1].line ELSE NoLine
           rows == [r \in Rows |->
                      [empty.rows[r] EXCEPT !.cells = p.cells[r], !.wrap = p.wraps[r],
                                            !.next = next(r)]]
           t == [empty EXCEPT !.rows = rows]
           u == [t EXCEPT !.row = p.row, !.col = p.col, !.pending = p.pending]
<1>1. Sound(empty)
  BY EmptyScreenSound
<1>2. PrintedScreen(p) = [u EXCEPT !.left = p.left, !.right = p.right]
  BY DEF PrintedScreen
<1>3. /\ size.rows \in Nat /\ size.columns \in Nat /\ Rows = 0..size.rows - 1
      /\ Columns = 0..size.columns - 1
  BY GridSize
<1>4. /\ \A r \in Rows : p.cells[r] \in Cells(size.columns) /\ Whole(p.cells[r])
      /\ \A r \in Rows : p.wraps[r] \in Nat
      /\ p.wraps[size.rows - 1] = 0
      /\ p.row \in Rows /\ p.col \in Columns /\ p.pending \in BOOLEAN
  BY <1>3 DEF PrintedFits
<1>5. MarginsSound(size.columns, p.left, p.right)
  BY <1>3 DEF PrintedFits, MarginsSound
<1> HIDE DEF empty
<1>6. ASSUME NEW r \in Rows PROVE RowSound(size.columns, rows[r])
  <2>1. RowSound(size.columns, empty.rows[r])
    BY <1>1 DEF Sound, ScreenSound, RowsSound, Rows
  <2>2. next(r) \in Nat
    <3>1. CASE p.wraps[r] > 0
      <4>0. r # size.rows - 1
        BY <1>4, <3>1
      <4>1. r + 1 \in Rows
        BY <1>3, <4>0
      <4>2. empty.rows[r + 1].line \in Nat
        BY <1>1, <4>1, RowsOfScreen
      <4> QED BY <3>1, <4>2
    <3>2. CASE ~(p.wraps[r] > 0)
      BY <3>2 DEF NoLine
    <3> QED BY <3>1, <3>2
  <2>3. rows[r] = [empty.rows[r] EXCEPT !.cells = p.cells[r], !.wrap = p.wraps[r],
                                        !.next = next(r)]
    OBVIOUS
  <2> HIDE DEF next, rows
  <2> QED BY <1>4, <2>1, <2>2, <2>3 DEF RowSound, RowOf
<1>7. DOMAIN rows = Rows
  OBVIOUS
<1> HIDE DEF rows
<1>8. Sound(t)
  BY <1>1, <1>6, <1>7, RowsChange
<1> HIDE DEF t
<1>9. Sound(u)
  BY <1>4, <1>8, CursorMoves
<1> HIDE DEF u
<1> QED BY <1>2, <1>5, <1>9 DEF Sound, ScreenSound, Fields

LEMMA MarginsChange ==
    ASSUME ModesOK, NEW s, Sound(s), NEW left, NEW right, MarginsSound(size.columns, left, right)
    PROVE  Sound([s EXCEPT !.left = left, !.right = right])
BY DEF Sound, ScreenSound, Fields

LEMMA RegionChanges ==
    ASSUME ModesOK, NEW s, Sound(s), NEW top \in Rows, NEW bottom \in Rows, top <= bottom
    PROVE  Sound([s EXCEPT !.top = top, !.bottom = bottom])
BY DEF Sound, ScreenSound, Fields, Rows

LEMMA OriginChanges ==
    ASSUME ModesOK, NEW s, Sound(s), NEW on \in BOOLEAN
    PROVE  Sound([s EXCEPT !.origin = on])
BY DEF Sound, ScreenSound, Fields

LEMMA SavedSound ==
    ASSUME ModesOK, NEW s, Sound(s)
    PROVE  Sound(CursorSaved(s))
<1> DEFINE saved == [valid |-> TRUE, row |-> s.row, col |-> s.col,
                     pending |-> s.pending, origin |-> s.origin, styled |-> styled]
<1>1. saved \in Saved
  <2>1. s.row \in Int /\ s.col \in Nat /\ s.pending \in BOOLEAN /\ s.origin \in BOOLEAN
    BY Places
  <2>2. styled \in BOOLEAN
    BY DEF ModesOK
  <2> QED BY <2>1, <2>2 DEF Saved
<1>2. CursorSaved(s) = [s EXCEPT !.saved = saved]
  BY DEF CursorSaved
<1> HIDE DEF saved
<1> QED BY <1>1, <1>2 DEF Sound, ScreenSound, Fields

LEMMA RestoredSound ==
    ASSUME ModesOK, NEW s, Sound(s)
    PROVE  Sound(CursorRestored(s)) /\ StyleRestored(s) \in BOOLEAN
<1>1. s.saved \in Saved
  BY DEF Sound, ScreenSound
<1>2. /\ s.saved.row \in Int /\ s.saved.col \in Int /\ s.saved.pending \in BOOLEAN
      /\ s.saved.origin \in BOOLEAN /\ s.saved.styled \in BOOLEAN
  BY <1>1 DEF Saved
<1> DEFINE row == Bounded(s.saved.row, 0, LastRow)
           col == Bounded(s.saved.col, 0, LastColumn)
           t == [s EXCEPT !.row = row, !.col = col, !.pending = s.saved.pending]
<1>3. row \in Rows /\ col \in Columns
  <2>1. LastRow \in Nat /\ LastColumn \in Nat /\ Rows = 0..LastRow /\ Columns = 0..LastColumn
    BY Places
  <2> QED BY <1>2, <2>1 DEF Bounded
<1>4. CursorRestored(s) =
        IF s.saved.valid THEN [t EXCEPT !.origin = s.saved.origin] ELSE s
  BY DEF CursorRestored
<1> HIDE DEF row, col
<1>5. Sound(t)
  BY <1>2, <1>3, CursorMoves
<1> HIDE DEF t
<1>6. Sound([t EXCEPT !.origin = s.saved.origin])
  BY <1>2, <1>5, OriginChanges
<1>7. StyleRestored(s) \in BOOLEAN
  BY <1>2 DEF StyleRestored, ModesOK
<1> QED BY <1>4, <1>6, <1>7

(***************************************************************************)
(* The inductive invariant.                                                *)
(***************************************************************************)
GridInv ==
    /\ ModesOK
    /\ DOMAIN screen = Buffers
    /\ \A b \in Buffers : ScreenSound(size.rows, size.columns, screen[b])
    /\ calls \in Nat

LEMMA InvImplied == GridInv => TypeOK /\ WholeSpans
<1> SUFFICES ASSUME GridInv PROVE TypeOK /\ WholeSpans
  OBVIOUS
<1>1. \A b \in Buffers : Sound(screen[b])
  BY DEF GridInv, Sound
<1>2. ModesOK
  BY DEF GridInv
<1>3. ASSUME NEW b \in Buffers PROVE ScreenOK(screen[b])
  <2>1. Sound(screen[b])
    BY <1>1
  <2>2. DOMAIN screen[b].rows = Rows
    BY <2>1 DEF Sound, ScreenSound, RowsSound, Rows
  <2>3. \A r \in Rows : screen[b].rows[r] \in RowOf(size.columns)
    BY <2>1 DEF Sound, ScreenSound, RowsSound, RowSound, Rows
  <2>4. screen[b].saved \in Saved
    BY <2>1 DEF Sound, ScreenSound
  <2> QED BY <1>2, <2>1, <2>2, <2>3, <2>4, Places DEF ScreenOK
<1>4. TypeOK
  BY <1>2, <1>3 DEF GridInv, TypeOK, ModesOK
<1>5. WholeSpans
  BY <1>1, <1>2, RowsOfScreen DEF WholeSpans
<1> QED BY <1>4, <1>5

LEMMA InitInv == Init => GridInv
<1> SUFFICES ASSUME Init PROVE GridInv
  OBVIOUS
<1>1. size \in Sizes /\ size.rows \in Nat \ {0} /\ size.columns \in Nat \ {0}
  BY SizesAssumption DEF Init
<1>2. PICK p \in Printed(size) :
         screen = [b \in Buffers |-> IF b = "primary" THEN PrintedScreen(p) ELSE EmptyScreen(1)]
         /\ marginMode = (<<p.left, p.right>> # <<0, LastColumn>>)
  BY DEF Init
<1>3. ModesOK
  BY <1>1, <1>2 DEF ModesOK, Init, Buffers
<1>4. Sound(PrintedScreen(p))
  BY <1>1, <1>3, PrintedAssumption, PrintedScreenSound
<1>5. Sound(EmptyScreen(1))
  BY <1>3, EmptyScreenSound
<1> QED BY <1>2, <1>3, <1>4, <1>5 DEF GridInv, Init, Sound

\* The active screen becomes another one.
LEMMA Becomes ==
    ASSUME GridInv, NEW s, Sound(s), Become(s), size' = size, ModesOK'
    PROVE  GridInv'
BY DEF GridInv, Become, Sound, ModesOK

LEMMA DoesSound ==
    ASSUME GridInv, NEW s, Sound(s), Do(s)
    PROVE  GridInv'
<1>1. ModesOK'
  BY DEF GridInv, ModesOK, Do, modes
<1> QED BY <1>1, Becomes DEF Do, modes

LEMMA ActiveSound ==
    ASSUME GridInv
    PROVE  ModesOK /\ Sound(S)
BY DEF GridInv, ModesOK, S, Sound
-------------------------------------------------------------------------------
(***************************************************************************)
(* Every control function keeps the invariant.                             *)
(***************************************************************************)
LEMMA PrintingKeeps ==
    ASSUME GridInv, PrintGlyph \/ Combine
    PROVE  GridInv'
<1>1. ModesOK /\ Sound(S)
  BY ActiveSound
<1>2. ASSUME NEW g \in Glyphs, NEW natural \in 1..2, Do(Put(S, g, natural)) PROVE GridInv'
  BY <1>1, <1>2, PutSound, DoesSound
<1>3. ASSUME NEW g \in Glyphs, NEW natural \in 1..2, Do(Combined(S, g, natural)) PROVE GridInv'
  BY <1>1, <1>3, CombinedSound, DoesSound
<1> QED BY <1>2, <1>3 DEF PrintGlyph, Combine

LEMMA MovingKeeps ==
    ASSUME GridInv, Moving
    PROVE  GridInv'
<1>1. ModesOK /\ Sound(S)
  BY ActiveSound
<1>2. /\ LastRow \in Nat /\ LastColumn \in Nat /\ Rows = 0..LastRow /\ Columns = 0..LastColumn
      /\ S.row \in Rows /\ S.col \in Columns
      /\ CursorLeft(S) \in Columns /\ CursorRight(S) \in Columns
      /\ S.left \in Columns /\ S.right \in Columns
  BY <1>1, Places
<1>3. CASE Return
  <2>1. Sound(CarriageReturn(S))
    BY <1>1, ReturnSound
  <2> QED BY <1>3, <2>1, DoesSound DEF Return
<1>4. CASE LineFeed
  <2>1. Sound(LineFed(S))
    BY <1>1, LineFedSound
  <2> QED BY <1>4, <2>1, DoesSound DEF LineFeed
<1>5. CASE NextLineSent
  <2>1. Sound(CarriageReturn(LineFed(S)))
    BY <1>1, LineFedSound, ReturnSound
  <2> QED BY <1>5, <2>1, DoesSound DEF NextLineSent
<1>6. CASE Backspace
  <2> DEFINE to == IF S.col > CursorLeft(S) THEN S.col - 1 ELSE S.col
             t  == [S EXCEPT !.col = to, !.pending = FALSE]
  <2>1. to \in Columns
    BY <1>2
  <2>2. Do(t)
    BY <1>6 DEF Backspace
  <2> HIDE DEF to
  <2>3. Sound(t)
    BY <1>1, <1>2, <2>1, CursorMoves
  <2> HIDE DEF t
  <2> QED BY <2>2, <2>3, DoesSound
<1>7. CASE HorizontalTab
  <2>1. PICK col \in S.col..CursorRight(S) : Do([S EXCEPT !.col = col, !.pending = FALSE])
    BY <1>7 DEF HorizontalTab
  <2>2. col \in Columns
    BY <1>2
  <2>3. Sound([S EXCEPT !.col = col, !.pending = FALSE])
    BY <1>1, <1>2, <2>2, CursorMoves
  <2> QED BY <2>1, <2>3, DoesSound
<1>8. CASE CursorTo
  <2>1. PICK row \in Rows, col \in Columns : Do(SetCursorAddress(S, row, col))
    BY <1>8 DEF CursorTo
  <2>2. Sound(SetCursorAddress(S, row, col))
    BY <1>1, <1>2, CursorAddressSound
  <2> QED BY <2>1, <2>2, DoesSound
<1>9. CASE CursorBy
  <2>1. PICK d \in {-1, 1} : Do(MoveCursorRelative(S, d, 0)) \/ Do(MoveCursorRelative(S, 0, d))
    BY <1>9 DEF CursorBy
  <2>2. d \in Int
    OBVIOUS
  <2>3. Sound(MoveCursorRelative(S, d, 0)) /\ Sound(MoveCursorRelative(S, 0, d))
    BY <1>1, <2>2, RelativeMoveSound
  <2> QED BY <2>1, <2>3, DoesSound
<1>10. CASE ColumnTo
  <2>1. PICK col \in Columns :
           Do(SetCursorPosition(S, S.row,
                IF S.origin /\ marginMode THEN Bounded(S.left + col, S.left, S.right) ELSE col))
    BY <1>10 DEF ColumnTo
  <2> DEFINE x == IF S.origin /\ marginMode THEN Bounded(S.left + col, S.left, S.right) ELSE col
  <2>2. x \in Int /\ S.row \in Int
    BY <1>2 DEF Bounded
  <2>3. Do(SetCursorPosition(S, S.row, x))
    BY <2>1
  <2> HIDE DEF x
  <2>4. Sound(SetCursorPosition(S, S.row, x))
    BY <1>1, <2>2, CursorSetSound
  <2> QED BY <2>3, <2>4, DoesSound
<1>11. CASE SaveCursor
  <2>1. Sound(CursorSaved(S))
    BY <1>1, SavedSound
  <2> QED BY <1>11, <2>1, DoesSound DEF SaveCursor
<1>12. CASE RestoreCursor
  <2>1. Sound(CursorRestored(S)) /\ StyleRestored(S) \in BOOLEAN
    BY <1>1, RestoredSound
  <2>2. ModesOK'
    BY <1>1, <1>12, <2>1 DEF ModesOK, RestoreCursor
  <2>3. Become(CursorRestored(S)) /\ size' = size
    BY <1>12 DEF RestoreCursor
  <2> QED BY <2>1, <2>2, <2>3, Becomes
<1> QED BY <1>3, <1>4, <1>5, <1>6, <1>7, <1>8, <1>9, <1>10, <1>11, <1>12 DEF Moving

LEMMA ErasingKeeps ==
    ASSUME GridInv, Erasing
    PROVE  GridInv'
<1>1. ModesOK /\ Sound(S)
  BY ActiveSound
<1>2. ASSUME EraseInLine PROVE GridInv'
  <2>1. PICK mode \in 0..2 : Do(EraseInLineOf(S, mode))
    BY <1>2 DEF EraseInLine
  <2>2. Sound(EraseInLineOf(S, mode))
    BY <1>1, EraseInLineSound
  <2> QED BY <2>1, <2>2, DoesSound
<1>3. ASSUME EraseInDisplay PROVE GridInv'
  <2>1. PICK mode \in 0..2 : Do(EraseInDisplayOf(S, mode))
    BY <1>3 DEF EraseInDisplay
  <2>2. mode \in 0..3
    OBVIOUS
  <2>3. Sound(EraseInDisplayOf(S, mode))
    BY <1>1, <2>2, EraseInDisplaySound
  <2> QED BY <2>1, <2>3, DoesSound
<1>4. ASSUME EraseHistory PROVE GridInv'
  <2> DEFINE t == [screen EXCEPT ![active] = [screen[active] EXCEPT !.pending = FALSE]]
  <2>1. screen' = [t EXCEPT !["primary"] = [t["primary"] EXCEPT !.history = <<>>]]
        /\ size' = size /\ calls' = calls + 1
    BY <1>4 DEF EraseHistory, modes
  <2>2. ASSUME NEW b \in Buffers PROVE Sound(t[b]) /\ DOMAIN t = Buffers
    <3> DEFINE plain == [screen[b] EXCEPT !.pending = FALSE]
    <3>1. Sound(screen[b]) /\ Sound(plain)
      BY <1>1, CursorMoves, Places DEF GridInv, Sound
    <3>2. DOMAIN screen = Buffers
      BY <1>1 DEF GridInv
    <3>3. t[b] = IF b = active THEN plain ELSE screen[b]
      BY <3>2
    <3> HIDE DEF t, plain
    <3>4. Sound(t[b])
      BY <3>1, <3>3
    <3>5. DOMAIN t = Buffers
      BY <3>2 DEF t
    <3> QED BY <3>4, <3>5
  <2> HIDE DEF t
  <2>3. ASSUME NEW b \in Buffers PROVE Sound(screen'[b])
    <3>1. "primary" \in Buffers
      BY DEF Buffers
    <3>2. Sound([t["primary"] EXCEPT !.history = <<>>])
      BY <1>1, <2>2, <3>1, HistoryChanges
    <3> QED BY <2>1, <2>2, <3>2
  <2>4. ModesOK'
    BY <1>1, <1>4 DEF ModesOK, EraseHistory, modes
  <2>5. DOMAIN screen' = Buffers
    BY <2>1, <2>2 DEF Buffers
  <2> QED BY <2>1, <2>3, <2>4, <2>5 DEF GridInv, Sound
<1>5. ASSUME EraseCharacters PROVE GridInv'
  <2>1. PICK n \in Parameters(size.columns) : Do(EraseCharactersOf(S, n))
    BY <1>5 DEF EraseCharacters
  <2>2. n \in Int
    BY DEF Parameters
  <2>3. Sound(EraseCharactersOf(S, n))
    BY <1>1, <2>2, EraseCharactersSound
  <2> QED BY <2>1, <2>3, DoesSound
<1>6. ASSUME NEW a \in Rectangles PROVE GoodArea(InArea(a))
  <2>1. /\ a[1][1] \in Nat /\ a[1][2] \in Nat /\ a[2][1] \in Nat /\ a[2][2] \in Nat
    BY CornersAssumption DEF Rectangles
  <2> QED BY <1>1, <2>1, AreaInGrid DEF GoodArea, InArea
<1>7. ASSUME FillRectangle PROVE GridInv'
  <2>1. PICK a \in Rectangles, g \in Glyphs : Do(FillArea(S, InArea(a), Narrow(g)))
    BY <1>7 DEF FillRectangle
  <2>2. GoodArea(InArea(a)) /\ Plain(Narrow(g))
    BY <1>6, CellKinds
  <2>3. Sound(FillArea(S, InArea(a), Narrow(g)))
    BY <1>1, <2>2, FillAreaSound
  <2> QED BY <2>1, <2>3, DoesSound
<1>8. ASSUME EraseRectangle PROVE GridInv'
  <2>1. PICK a \in Rectangles : Do(EraseArea(S, InArea(a)))
    BY <1>8 DEF EraseRectangle
  <2>2. Sound(EraseArea(S, InArea(a)))
    BY <1>1, <1>6, EraseAreaSound
  <2> QED BY <2>1, <2>2, DoesSound
<1>9. ASSUME CopyRectangle PROVE GridInv'
  <2>1. PICK a \in Rectangles, to \in Corners : Do(CopyArea(S, InArea(a), to[1], to[2]))
    BY <1>9 DEF CopyRectangle
  <2>2. to[1] \in Nat /\ to[2] \in Nat
    BY CornersAssumption
  <2>3. Sound(CopyArea(S, InArea(a), to[1], to[2]))
    BY <1>1, <1>6, <2>2, CopyAreaSound
  <2> QED BY <2>1, <2>3, DoesSound
<1> QED BY <1>2, <1>3, <1>4, <1>5, <1>7, <1>8, <1>9 DEF Erasing

LEMMA ShiftingKeeps ==
    ASSUME GridInv, Shifting
    PROVE  GridInv'
<1>1. ModesOK /\ Sound(S)
  BY ActiveSound
<1>2. /\ S.row \in Rows /\ S.col \in Int /\ S.top \in Rows /\ S.bottom \in Rows
      /\ S.top <= S.bottom /\ S.bottom + 1 \in 0..size.rows
  <2>1. S.row \in Rows /\ S.col \in Int /\ S.top \in Rows /\ S.bottom \in Rows /\ S.top <= S.bottom
    BY <1>1, Places
  <2> QED BY <1>1, <2>1, GridSize
<1>3. \A m : \A n \in Parameters(m) : n \in Int
  BY DEF Parameters
<1>4. ASSUME NEW n \in Int
      PROVE  /\ Sound(InsertCellsAt(S, n)) /\ Sound(DeleteCellsAt(S, n))
             /\ Sound(InsertLinesAt(S, n)) /\ Sound(DeleteLinesAt(S, n))
             /\ Sound(ScrollDownRegion(S, S.top, S.bottom, n))
  BY <1>1, <1>2, InsertCellsSound, DeleteCellsSound, InsertLinesSound, DeleteLinesSound,
     ScrollDownSound
<1>5. ASSUME NEW n \in Int, NEW insert \in BOOLEAN
      PROVE  Sound(ShiftColumns(S, S.col, n, insert))
  BY <1>1, <1>2, ShiftColumnsSound
<1>6. ASSUME NEW n \in Int, NEW archive \in BOOLEAN
      PROVE  Sound(ScrollUpRegion(BreakSoftWrapBefore(S, S.bottom + 1), S.top, S.bottom, archive, n))
  <2> DEFINE t == BreakSoftWrapBefore(S, S.bottom + 1)
  <2>1. Sound(t)
    BY <1>1, <1>2, BreakSound
  <2> HIDE DEF t
  <2>2. Sound(ScrollUpRegion(t, S.top, S.bottom, archive, n))
    BY <1>1, <1>2, <2>1, ScrollUpSound
  <2> QED BY <2>2 DEF t
<1>7. Sound(ReverseIndexed(S)) /\ Sound(BackIndexed(S)) /\ Sound(ForwardIndexed(S))
  BY <1>1, ReverseIndexSound, IndexSound
<1>8. ASSUME InsertCells \/ DeleteCells PROVE GridInv'
  BY <1>3, <1>4, <1>8, DoesSound DEF InsertCells, DeleteCells
<1>9. ASSUME InsertLines \/ DeleteLines \/ ScrollDown PROVE GridInv'
  BY <1>3, <1>4, <1>9, DoesSound DEF InsertLines, DeleteLines, ScrollDown
<1>10. ASSUME InsertColumns \/ DeleteColumns PROVE GridInv'
  BY <1>3, <1>5, <1>10, DoesSound DEF InsertColumns, DeleteColumns
<1>11. ASSUME ScrollUp PROVE GridInv'
  <2>1. PICK n \in Parameters(size.rows) :
           Do(ScrollUpRegion(BreakSoftWrapBefore(S, S.bottom + 1), S.top, S.bottom,
                             active = "primary" /\ S.top = 0, n))
    BY <1>11 DEF ScrollUp
  <2> DEFINE archive == active = "primary" /\ S.top = 0
  <2>2. archive \in BOOLEAN /\ n \in Int
    BY <1>3
  <2>3. Do(ScrollUpRegion(BreakSoftWrapBefore(S, S.bottom + 1), S.top, S.bottom, archive, n))
    BY <2>1
  <2> HIDE DEF archive
  <2> QED BY <1>6, <2>2, <2>3, DoesSound
<1>12. ASSUME ReverseIndex \/ BackIndex \/ ForwardIndex PROVE GridInv'
  BY <1>7, <1>12, DoesSound DEF ReverseIndex, BackIndex, ForwardIndex
<1> QED BY <1>8, <1>9, <1>10, <1>11, <1>12 DEF Shifting

LEMMA SettingKeeps ==
    ASSUME GridInv, Setting
    PROVE  GridInv'
<1>1. ModesOK /\ Sound(S) /\ \A b \in Buffers : Sound(screen[b])
  BY ActiveSound DEF GridInv, Sound
<1>2. /\ LastRow \in Nat /\ LastColumn \in Nat /\ Rows = 0..LastRow /\ Columns = 0..LastColumn
      /\ S.pending \in BOOLEAN /\ LastColumn = size.columns - 1
  BY <1>1, Places, GridSize
<1>3. ASSUME SetStyle PROVE GridInv'
  <2>1. Become(S) /\ size' = size /\ ModesOK'
    BY <1>1, <1>3 DEF SetStyle, ModesOK
  <2> QED BY <1>1, <2>1, Becomes
<1>4. ASSUME SetAutowrapMode PROVE GridInv'
  <2>1. PICK on \in BOOLEAN : /\ Become([S EXCEPT !.pending = @ /\ on])
                              /\ autowrap' = on
                              /\ UNCHANGED <<size, active, marginMode, styled, alternateMode,
                                             saved1049>>
    BY <1>4 DEF SetAutowrapMode
  <2> DEFINE p == S.pending /\ on
  <2>2. p \in BOOLEAN
    OBVIOUS
  <2>3. Become([S EXCEPT !.pending = p])
    BY <2>1
  <2> HIDE DEF p
  <2>4. ASSUME NEW q \in BOOLEAN PROVE Sound([S EXCEPT !.pending = q])
    BY <1>1, CursorMoves, Places
  <2>5. ModesOK' /\ size' = size
    BY <1>1, <2>1 DEF ModesOK
  <2> QED BY <2>2, <2>3, <2>4, <2>5, Becomes
<1>5. ASSUME SetOriginMode PROVE GridInv'
  <2>1. PICK on \in BOOLEAN : Do(SetCursorAddress([S EXCEPT !.origin = on], 0, 0))
    BY <1>5 DEF SetOriginMode
  <2> DEFINE t == [S EXCEPT !.origin = on]
  <2>2. Sound(t)
    BY <1>1, OriginChanges
  <2> HIDE DEF t
  <2>3. Sound(SetCursorAddress(t, 0, 0))
    BY <1>1, <2>2, CursorAddressSound
  <2> QED BY <2>1, <2>3, DoesSound DEF t
<1>6. ASSUME SetScrollRegion PROVE GridInv'
  <2>1. PICK top \in Rows, bottom \in Rows :
           /\ top < bottom
           /\ Do(SetCursorAddress([S EXCEPT !.top = top, !.bottom = bottom], 0, 0))
    BY <1>6 DEF SetScrollRegion
  <2> DEFINE t == [S EXCEPT !.top = top, !.bottom = bottom]
  <2>2. top <= bottom
    BY <1>2, <2>1
  <2>3. Sound(t)
    BY <1>1, <2>2, RegionChanges
  <2> HIDE DEF t
  <2>4. Sound(SetCursorAddress(t, 0, 0))
    BY <1>1, <2>3, CursorAddressSound
  <2> QED BY <2>1, <2>4, DoesSound DEF t
<1>7. ASSUME SetHorizontalMargins PROVE GridInv'
  <2>1. PICK left \in Columns, right \in Columns :
           /\ left < right
           /\ Do(SetCursorAddress([S EXCEPT !.left = left, !.right = right], 0, 0))
    BY <1>7 DEF SetHorizontalMargins
  <2> DEFINE t == [S EXCEPT !.left = left, !.right = right]
  <2>2. MarginsSound(size.columns, left, right)
    BY <1>2, <2>1 DEF MarginsSound
  <2>3. Sound(t)
    BY <1>1, <2>2, MarginsChange
  <2> HIDE DEF t
  <2>4. Sound(SetCursorAddress(t, 0, 0))
    BY <1>1, <2>3, CursorAddressSound
  <2> QED BY <2>1, <2>4, DoesSound DEF t
<1>8. ASSUME SetHorizontalMarginMode PROVE GridInv'
  <2>1. PICK on \in BOOLEAN :
          /\ calls' = calls + 1 /\ marginMode' = on
          /\ screen' = [b \in Buffers |->
               LET s == [screen[b] EXCEPT !.left = IF on THEN @ ELSE 0,
                                          !.right = IF on THEN @ ELSE LastColumn]
               IN  IF b = active THEN [s EXCEPT !.pending = FALSE] ELSE s]
          /\ UNCHANGED <<size, active, autowrap, styled, alternateMode, saved1049>>
    BY <1>8 DEF SetHorizontalMarginMode
  <2>2. ASSUME NEW b \in Buffers PROVE Sound(screen'[b])
    <3> DEFINE left == IF on THEN screen[b].left ELSE 0
               right == IF on THEN screen[b].right ELSE LastColumn
               s == [screen[b] EXCEPT !.left = left, !.right = right]
    <3>1. Sound(screen[b])
      BY <1>1
    <3>2. MarginsSound(size.columns, screen[b].left, screen[b].right)
      BY <3>1 DEF Sound, ScreenSound
    <3>3. MarginsSound(size.columns, 0, LastColumn)
      BY <1>2 DEF MarginsSound
    <3>4. MarginsSound(size.columns, left, right)
      BY <3>2, <3>3
    <3>5. screen'[b] = IF b = active THEN [s EXCEPT !.pending = FALSE] ELSE s
      BY <2>1
    <3> HIDE DEF left, right
    <3>6. Sound(s)
      BY <1>1, <3>1, <3>4, MarginsChange
    <3> HIDE DEF s
    <3>7. Sound([s EXCEPT !.pending = FALSE])
      BY <1>1, <3>6, CursorMoves, Places
    <3> QED BY <3>5, <3>6, <3>7
  <2>3. /\ marginMode' \in BOOLEAN /\ calls' = calls + 1
        /\ UNCHANGED <<size, active, autowrap, styled, alternateMode, saved1049>>
    BY <1>8 DEF SetHorizontalMarginMode
  <2>4. ModesOK' /\ size' = size
    BY <1>1, <2>3 DEF ModesOK
  <2>5. DOMAIN screen' = Buffers
    BY <2>1
  <2> QED BY <2>2, <2>3, <2>4, <2>5 DEF GridInv, Sound
<1>9. Sound(EmptyAlternate)
  <2>1. screen["alternate"].lines \in Nat
    BY <1>1, Places DEF Buffers
  <2> QED BY <1>1, <2>1, EmptyScreenSound DEF EmptyAlternate
<1>10. /\ Sound(CursorSaved(screen["primary"])) /\ Sound(CursorRestored(screen["primary"]))
       /\ StyleRestored(screen["primary"]) \in BOOLEAN
  BY <1>1, SavedSound, RestoredSound DEF Buffers
<1>11. ASSUME EnterAlternate PROVE GridInv'
  <2>1. DOMAIN screen = Buffers /\ "primary" \in Buffers /\ "alternate" \in Buffers
    BY <1>1 DEF GridInv, Buffers
  <2>2. /\ \/ screen'["primary"] = screen["primary"]
           \/ screen'["primary"] = CursorSaved(screen["primary"])
        /\ screen'["alternate"] = screen["alternate"] \/ screen'["alternate"] = EmptyAlternate
        /\ DOMAIN screen' = DOMAIN screen
    BY <1>11, <2>1 DEF EnterAlternate
  <2>3. ModesOK' /\ size' = size
    <3>1. saved1049' \in BOOLEAN
      BY <1>11 DEF EnterAlternate
    <3>2. /\ active' = "alternate" /\ alternateMode' \in {47, 1047, 1049} /\ size' = size
          /\ autowrap' = autowrap /\ marginMode' = marginMode /\ styled' = styled
      BY <1>11 DEF EnterAlternate
    <3> QED BY <1>1, <3>1, <3>2 DEF ModesOK, Buffers
  <2>4. Sound(screen["primary"]) /\ Sound(screen["alternate"])
    BY <1>1 DEF Buffers
  <2>5. Sound(screen'["primary"]) /\ Sound(screen'["alternate"])
    BY <1>9, <1>10, <2>2, <2>4
  <2>6. ASSUME NEW b \in Buffers PROVE Sound(screen'[b])
    BY <2>5 DEF Buffers
  <2>7. calls' \in Nat
    <3>1. calls' = calls + 1
      BY <1>11 DEF EnterAlternate
    <3> QED BY <1>1, <3>1 DEF GridInv
  <2>8. \A b \in Buffers : ScreenSound(size.rows, size.columns, screen[b])'
    BY <2>3, <2>6 DEF Sound
  <2> QED BY <2>1, <2>2, <2>3, <2>7, <2>8 DEF GridInv
<1>12. ASSUME LeaveAlternate PROVE GridInv'
  <2>1. DOMAIN screen = Buffers /\ "primary" \in Buffers /\ "alternate" \in Buffers
    BY <1>1 DEF GridInv, Buffers
  <2>2. /\ \/ screen'["primary"] = screen["primary"]
           \/ screen'["primary"] = CursorRestored(screen["primary"])
        /\ screen'["alternate"] = screen["alternate"] \/ screen'["alternate"] = EmptyAlternate
        /\ DOMAIN screen' = DOMAIN screen
    BY <1>12, <2>1 DEF LeaveAlternate
  <2>3. ModesOK' /\ size' = size
    <3>1. saved1049' \in BOOLEAN
      BY <1>12 DEF LeaveAlternate
    <3>2. styled' = StyleRestored(screen["primary"]) \/ styled' = styled
      BY <1>12 DEF LeaveAlternate
    <3>3. styled' \in BOOLEAN
      BY <1>1, <1>10, <3>2 DEF ModesOK
    <3>4. /\ active' = "primary" /\ alternateMode' = 0 /\ size' = size
          /\ autowrap' = autowrap /\ marginMode' = marginMode
      BY <1>12 DEF LeaveAlternate
    <3> QED BY <1>1, <3>1, <3>3, <3>4 DEF ModesOK, Buffers
  <2>4. Sound(screen["primary"]) /\ Sound(screen["alternate"])
    BY <1>1 DEF Buffers
  <2>5. Sound(screen'["primary"]) /\ Sound(screen'["alternate"])
    BY <1>9, <1>10, <2>2, <2>4
  <2>6. ASSUME NEW b \in Buffers PROVE Sound(screen'[b])
    BY <2>5 DEF Buffers
  <2>7. calls' \in Nat
    <3>1. calls' = calls + 1
      BY <1>12 DEF LeaveAlternate
    <3> QED BY <1>1, <3>1 DEF GridInv
  <2>8. \A b \in Buffers : ScreenSound(size.rows, size.columns, screen[b])'
    BY <2>3, <2>6 DEF Sound
  <2> QED BY <2>1, <2>2, <2>3, <2>7, <2>8 DEF GridInv
<1> QED BY <1>3, <1>4, <1>5, <1>6, <1>7, <1>8, <1>11, <1>12 DEF Setting

LEMMA NextInv == GridInv /\ [Next]_vars => GridInv'
<1> SUFFICES ASSUME GridInv, [Next]_vars PROVE GridInv'
  OBVIOUS
<1>1. CASE UNCHANGED vars
  BY <1>1 DEF GridInv, ModesOK, vars
<1> QED BY <1>1, PrintingKeeps, MovingKeeps, ErasingKeeps, ShiftingKeeps, SettingKeeps
        DEF Next, Control

\* The cursor, the margins and the scrolling region of either screen are within the
\* grid and every row has the grid's width, whatever the size of the grid, what was
\* printed and which control functions arrive.
THEOREM GridTypeCorrect == Spec => []TypeOK
BY InitInv, NextInv, InvImplied, PTL DEF Spec

\* No control function, and no sequence of them, leaves half of a wide glyph in a row
\* of either screen.
THEOREM SpansStayWhole == Spec => []WholeSpans
BY InitInv, NextInv, InvImplied, PTL DEF Spec

-------------------------------------------------------------------------------
(***************************************************************************)
(* What moves within the margins.  Held compares a row before and after:   *)
(* outside columns left..right a cell is the same or, when its span was    *)
(* cut by a margin, cleared.                                               *)
(***************************************************************************)
Meets(r, c, left, right) == \E x \in Span(r, c) : x \in left..right

Held(r, q, left, right) ==
    \A c \in DOMAIN r : \/ c \in left..right \/ q[c] = r[c]
                        \/ q[c] \in {Blank, Fill} /\ Meets(r, c, left, right)

LEMMA SpanAcross ==
    ASSUME NEW n \in Nat, NEW r \in Cells(n), Whole(r), NEW c \in 0..n - 1,
           NEW left \in Int, NEW right \in Int,
           \/ c \in left..right
           \/ r[c].kind = "lead" /\ c + 1 \in left..right
           \/ r[c].kind = "rest" /\ c - 1 \in left..right
    PROVE  Meets(r, c, left, right)
<1>0. DOMAIN r = 0..n - 1
  BY RowDomain
<1>1. CASE r[c].kind = "rest"
  <2>1. c - 1 \in 0..n - 1 /\ r[c - 1].kind = "lead"
    BY <1>0, <1>1 DEF Whole
  <2>2. BaseColumn(r, c) = c - 1
    BY <1>0, <1>1, <2>1 DEF BaseColumn
  <2>3. Span(r, c) = {c - 1, c - 1 + 1}
    BY <2>1, <2>2 DEF Span
  <2>4. Span(r, c) = {c - 1, c}
    BY <2>3
  <2> QED BY <1>1, <2>4 DEF Meets
<1>2. CASE r[c].kind # "rest"
  <2>1. BaseColumn(r, c) = c
    BY <1>2 DEF BaseColumn
  <2>2. Span(r, c) = IF r[c].kind = "lead" THEN {c, c + 1} ELSE {c}
    BY <2>1 DEF Span
  <2> QED BY <1>2, <2>2 DEF Meets
<1> QED BY <1>1, <1>2

\* The columns of a span: the column itself, or the other half.
LEMMA SpanOf ==
    ASSUME NEW n \in Nat, NEW q \in Cells(n), Whole(q), NEW y \in 0..n - 1, NEW c \in Span(q, y)
    PROVE  /\ c \in 0..n - 1
           /\ \/ c = y
              \/ q[y].kind = "lead" /\ c = y + 1 /\ q[c].kind = "rest"
              \/ q[y].kind = "rest" /\ c = y - 1 /\ q[c].kind = "lead"
<1>0. DOMAIN q = 0..n - 1
  BY RowDomain
<1>1. CASE q[y].kind = "rest"
  <2>1. y - 1 \in 0..n - 1 /\ q[y - 1].kind = "lead"
    BY <1>0, <1>1 DEF Whole
  <2>2. BaseColumn(q, y) = y - 1
    BY <1>0, <1>1, <2>1 DEF BaseColumn
  <2>3. Span(q, y) = {y - 1, y - 1 + 1}
    BY <2>1, <2>2 DEF Span
  <2>4. Span(q, y) = {y - 1, y}
    BY <2>3
  <2> QED BY <1>1, <2>1, <2>4
<1>2. CASE q[y].kind # "rest"
  <2>1. BaseColumn(q, y) = y
    BY <1>2 DEF BaseColumn
  <2>2. Span(q, y) = IF q[y].kind = "lead" THEN {y, y + 1} ELSE {y}
    BY <2>1 DEF Span
  <2>3. q[y].kind = "lead" => y + 1 \in 0..n - 1 /\ q[y + 1].kind = "rest"
    BY <1>0 DEF Whole
  <2> QED BY <2>2, <2>3
<1> QED BY <1>1, <1>2

\* A half of a wide glyph outside the margins is the original's.
LEMMA HalvesAreHeld ==
    ASSUME NEW n \in Nat, NEW r \in Cells(n), NEW q, NEW left \in Int, NEW right \in Int,
           Held(r, q, left, right), NEW c \in 0..n - 1, c \notin left..right,
           q[c].kind \in {"lead", "rest"}
    PROVE  q[c] = r[c]
<1>1. DOMAIN r = 0..n - 1
  BY RowDomain
<1>2. Plain(Fill) /\ Plain(Blank)
  BY FillIsPlain, CellKinds
<1>3. q[c] \notin {Blank, Fill}
  BY <1>2 DEF Plain
<1> QED BY <1>1, <1>3 DEF Held

\* The margins, as columns of a row of n cells.
Within(n, left, right) == left \in 0..n - 1 /\ right \in 0..n - 1 /\ left <= right

LEMMA NothingChanged ==
    ASSUME NEW r, NEW left, NEW right
    PROVE  Held(r, r, left, right)
BY DEF Held

LEMMA InsideChanges ==
    ASSUME NEW n \in Nat, NEW r \in Cells(n), NEW q, NEW left \in Int, NEW right \in Int,
           Held(r, q, left, right), NEW z,
           \A c \in 0..n - 1 : c \notin left..right => z[c] = q[c]
    PROVE  Held(r, z, left, right)
<1>1. DOMAIN r = 0..n - 1
  BY RowDomain
<1> QED BY <1>1 DEF Held

LEMMA SpansHeld ==
    ASSUME NEW n \in Nat, NEW r \in Cells(n), Whole(r), NEW q \in Cells(n), Whole(q),
           NEW left \in Int, NEW right \in Int, Within(n, left, right),
           Held(r, q, left, right), NEW fill \in {Blank, Fill},
           NEW first \in Int, NEW last \in Int,
           \A y \in first..last : /\ y \in 0..n - 1
                                  /\ y \in left..right \/ (y = right + 1 /\ q[y].kind = "rest")
    PROVE  Held(r, ClearSpans(q, first, last, fill), left, right)
<1>0. DOMAIN r = 0..n - 1 /\ DOMAIN q = 0..n - 1
  BY RowDomain
<1> DEFINE z == ClearSpans(q, first, last, fill)
<1>1. ASSUME NEW c \in 0..n - 1, c \notin left..right
      PROVE  z[c] = r[c] \/ (z[c] \in {Blank, Fill} /\ Meets(r, c, left, right))
  <2>1. CASE c \notin Touched(q, first, last)
    <3>1. z[c] = q[c]
      BY <1>0, <2>1 DEF ClearSpans
    <3>2. q[c] = r[c] \/ (q[c] \in {Blank, Fill} /\ Meets(r, c, left, right))
      BY <1>0, <1>1 DEF Held
    <3> HIDE DEF z
    <3>3. CASE q[c] = r[c]
      BY <3>1, <3>3
    <3>4. CASE q[c] \in {Blank, Fill} /\ Meets(r, c, left, right)
      BY <3>1, <3>4
    <3> QED BY <3>2, <3>3, <3>4
  <2>2. CASE c \in Touched(q, first, last)
    <3>1. z[c] = fill
      BY <1>0, <2>2 DEF ClearSpans
    <3>2. PICK y \in first..last : c \in Span(q, y)
      BY <2>2 DEF Touched
    <3>3. y \in 0..n - 1 /\ (y \in left..right \/ (y = right + 1 /\ q[y].kind = "rest"))
      BY <3>2
    <3>4. \/ c = y
          \/ q[y].kind = "lead" /\ c = y + 1 /\ q[c].kind = "rest"
          \/ q[y].kind = "rest" /\ c = y - 1 /\ q[c].kind = "lead"
      BY <3>2, <3>3, SpanOf
    <3>5. Meets(r, c, left, right)
      <4>1. CASE c = y
        <5>1. y = right + 1 /\ q[c].kind = "rest"
          BY <1>1, <3>3, <4>1
        <5>2. q[c].kind \in {"lead", "rest"}
          BY <5>1
        <5>3. q[c] = r[c]
          BY <1>1, <5>2, HalvesAreHeld
        <5>4. c - 1 \in left..right
          BY <4>1, <5>1 DEF Within
        <5> QED BY <5>1, <5>3, <5>4, SpanAcross
      <4>2. CASE q[y].kind = "lead" /\ c = y + 1 /\ q[c].kind = "rest"
        <5>1. y \in left..right /\ c - 1 = y
          BY <3>3, <4>2
        <5>2. q[c] = r[c]
          BY <1>1, <4>2, HalvesAreHeld
        <5> QED BY <4>2, <5>1, <5>2, SpanAcross
      <4>3. CASE q[y].kind = "rest" /\ c = y - 1 /\ q[c].kind = "lead"
        <5>1. c + 1 = y /\ y \in left..right
          BY <1>1, <3>3, <4>3 DEF Within
        <5>2. q[c] = r[c]
          BY <1>1, <4>3, HalvesAreHeld
        <5> QED BY <4>3, <5>1, <5>2, SpanAcross
      <4> QED BY <3>4, <4>1, <4>2, <4>3
    <3> QED BY <3>1, <3>5
  <2> QED BY <2>1, <2>2
<1> HIDE DEF z
<1>2. Held(r, z, left, right)
  BY <1>0, <1>1 DEF Held
<1> QED BY <1>2 DEF z

LEMMA RestHeld ==
    ASSUME NEW n \in Nat, NEW r \in Cells(n), Whole(r), NEW q \in Cells(n), Whole(q),
           NEW left \in Int, NEW right \in Int, Within(n, left, right),
           Held(r, q, left, right), NEW fill \in {Blank, Fill}, NEW b \in left..right + 1
    PROVE  Held(r, ClearRest(q, b, fill), left, right)
<1>0. DOMAIN q = 0..n - 1
  BY RowDomain
<1>1. CASE b \in 0..n - 1 /\ q[b].kind = "rest"
  <2>1. \A y \in b..b : /\ y \in 0..n - 1
                        /\ y \in left..right \/ (y = right + 1 /\ q[y].kind = "rest")
    BY <1>1
  <2>2. b \in Int
    OBVIOUS
  <2>3. Held(r, ClearSpans(q, b, b, fill), left, right)
    BY <2>1, <2>2, SpansHeld
  <2> QED BY <1>0, <1>1, <2>3 DEF ClearRest
<1> QED BY <1>0, <1>1 DEF ClearRest

LEMMA SplitHeld ==
    ASSUME NEW n \in Nat, NEW r \in Cells(n), Whole(r), NEW q, DOMAIN q = 0..n - 1,
           NEW left \in Int, NEW right \in Int, Within(n, left, right),
           Held(r, q, left, right), NEW b \in left..right + 1
    PROVE  /\ DOMAIN ClearSplit(q, b) = 0..n - 1
           /\ Held(r, ClearSplit(q, b), left, right)
<1> DEFINE z == ClearSplit(q, b)
<1>1. CASE b - 1 \in 0..n - 1 /\ b \in 0..n - 1 /\ q[b - 1].kind = "lead"
  <2>1. z = [q EXCEPT ![b - 1] = Blank]
    BY <1>1 DEF ClearSplit
  <2>2. DOMAIN z = 0..n - 1 /\ z[b - 1] = Blank /\ \A c \in 0..n - 1 : c # b - 1 => z[c] = q[c]
    BY <1>1, <2>1
  <2> HIDE DEF z
  <2>3. b - 1 \in left..right \/ Meets(r, b - 1, left, right)
    <3>1. SUFFICES ASSUME b - 1 \notin left..right PROVE Meets(r, b - 1, left, right)
      OBVIOUS
    <3> DEFINE c == b - 1
    <3>2. c \in 0..n - 1 /\ c \notin left..right /\ q[c].kind = "lead" /\ c + 1 \in left..right
      BY <1>1, <3>1 DEF Within
    <3> HIDE DEF c
    <3>3. q[c] = r[c]
      BY <3>2, HalvesAreHeld
    <3>4. Meets(r, c, left, right)
      BY <3>2, <3>3, SpanAcross
    <3> QED BY <3>4 DEF c
  <2>4. Held(r, z, left, right)
    <3>1. DOMAIN r = 0..n - 1
      BY RowDomain
    <3> QED BY <2>2, <2>3, <3>1 DEF Held
  <2> QED BY <2>2, <2>4 DEF z
<1>2. CASE ~(b - 1 \in 0..n - 1 /\ b \in 0..n - 1 /\ q[b - 1].kind = "lead")
  BY <1>2 DEF ClearSplit
<1> QED BY <1>1, <1>2

\* Repairing changes only halves of glyphs that a margin cuts.
LEMMA RepairHeld ==
    ASSUME NEW n \in Nat, NEW r \in Cells(n), Whole(r), NEW q, DOMAIN q = 0..n - 1,
           NEW left \in Int, NEW right \in Int, Within(n, left, right),
           Held(r, q, left, right), right + 1 \in 0..n - 1 => q[right].kind # "lead"
    PROVE  Held(r, RepairSpans(q), left, right)
<1>0. DOMAIN r = 0..n - 1
  BY RowDomain
<1> DEFINE z == RepairSpans(q)
<1>1. ASSUME NEW c \in 0..n - 1, c \notin left..right
      PROVE  z[c] = r[c] \/ (z[c] \in {Blank, Fill} /\ Meets(r, c, left, right))
  <2>1. /\ q[c].kind = "rest" => z[c] = IF Keeps(q, c - 1) THEN Rest ELSE Blank
        /\ q[c].kind = "lead" => z[c] = IF Keeps(q, c) THEN q[c] ELSE Blank
        /\ q[c].kind \notin {"rest", "lead"}
             => z[c] = IF Keeps(q, c - 1) THEN Blank ELSE q[c]
    BY DEF RepairSpans
  <2> HIDE DEF z
  <2>2. \/ q[c] = r[c]
        \/ q[c] \in {Blank, Fill} /\ Meets(r, c, left, right)
    BY <1>0, <1>1 DEF Held
  \* A lead before column x that the margins do not hold is the row's own.
  <2>3. ASSUME NEW x \in 0..n - 1, x \notin left..right, x - 1 \in 0..n - 1,
               q[x - 1].kind = "lead"
        PROVE  r[x - 1].kind = "lead" /\ r[x].kind = "rest"
    <3>1. x - 1 \notin left..right
      <4>1. x - 1 \in left..right => x - 1 = right
        BY <2>3 DEF Within
      <4> QED BY <2>3, <4>1
    <3>2. q[x - 1].kind \in {"lead", "rest"}
      BY <2>3
    <3>3. q[x - 1] = r[x - 1]
      BY <2>3, <3>1, <3>2, HalvesAreHeld
    <3>4. r[x - 1].kind = "lead"
      BY <2>3, <3>3
    <3>5. x - 1 + 1 \in 0..n - 1 /\ r[x - 1 + 1].kind = "rest"
      BY <2>3, <3>4, LeadsHaveRests
    <3> QED BY <3>4, <3>5
  <2>4. CASE q[c].kind = "lead"
    <3>1. q[c].kind \in {"lead", "rest"}
      BY <2>4
    <3>2. q[c] = r[c]
      BY <1>1, <3>1, HalvesAreHeld
    <3>3. c + 1 \in 0..n - 1 /\ r[c + 1].kind = "rest"
      BY <2>4, <3>2, LeadsHaveRests
    <3>4. ~(c - 1 \in 0..n - 1 /\ q[c - 1].kind = "lead")
      <4>1. r[c].kind # "rest"
        BY <2>4, <3>2
      <4> QED BY <1>1, <2>3, <4>1
    <3>5. Keeps(q, c)
      BY <2>4, <3>3, <3>4 DEF Keeps
    <3> QED BY <2>1, <2>4, <3>2, <3>5
  <2>5. CASE q[c].kind = "rest"
    <3>1. q[c].kind \in {"lead", "rest"}
      BY <2>5
    <3>2. q[c] = r[c]
      BY <1>1, <3>1, HalvesAreHeld
    <3>3. c - 1 \in 0..n - 1 /\ r[c - 1].kind = "lead"
      BY <1>0, <2>5, <3>2 DEF Whole
    <3>4. r[c] = Rest
      BY <2>5, <3>2, RowDomain, CellContents
    <3>5. CASE c - 1 \in left..right
      <4>1. Meets(r, c, left, right)
        BY <2>5, <3>2, <3>5, SpanAcross
      <4> QED BY <2>1, <2>5, <3>4, <4>1
    <3>6. CASE c - 1 \notin left..right
      <4> DEFINE b == c - 1
      <4>1. b \in 0..n - 1 /\ b \notin left..right /\ r[b].kind = "lead" /\ b + 1 = c
        BY <3>3, <3>6
      <4> HIDE DEF b
      <4>2. ~Meets(r, b, left, right)
        <5>1. r[b].kind # "rest"
          BY <4>1
        <5>2. ASSUME NEW x \in Span(r, b) PROVE x \notin left..right
          <6>1. x = b \/ x = b + 1
            BY <4>1, <5>1, SpanOf
          <6> QED BY <1>1, <4>1, <6>1
        <5> QED BY <5>2 DEF Meets
      <4>3. q[b].kind = "lead"
        <5>1. q[b] = r[b] \/ Meets(r, b, left, right)
          BY <1>0, <4>1 DEF Held
        <5> QED BY <4>1, <4>2, <5>1
      <4>4. ~(b - 1 \in 0..n - 1 /\ q[b - 1].kind = "lead")
        BY <2>3, <4>1
      <4>5. Keeps(q, b)
        BY <1>1, <4>1, <4>3, <4>4 DEF Keeps
      <4>6. Keeps(q, c - 1)
        BY <4>5 DEF b
      <4> QED BY <2>1, <2>5, <3>4, <4>6
    <3> QED BY <3>5, <3>6
  <2>6. CASE q[c].kind \notin {"lead", "rest"}
    <3>1. CASE q[c] \in {Blank, Fill} /\ Meets(r, c, left, right)
      BY <2>1, <2>6, <3>1
    <3>2. CASE q[c] = r[c]
      <4>1. ~Keeps(q, c - 1)
        <5>1. SUFFICES ASSUME c - 1 \in 0..n - 1, q[c - 1].kind = "lead" PROVE FALSE
          BY DEF Keeps
        <5>2. r[c].kind = "rest"
          BY <1>1, <2>3, <5>1
        <5> QED BY <2>6, <3>2, <5>2
      <4> QED BY <2>1, <2>6, <3>2, <4>1
    <3> QED BY <2>2, <3>1, <3>2
  <2> QED BY <2>4, <2>5, <2>6
<1> HIDE DEF z
<1>2. Held(r, z, left, right)
  BY <1>0, <1>1 DEF Held
<1> QED BY <1>2 DEF z

LEMMA RepairedHeld ==
    ASSUME NEW n \in Nat, NEW r \in Cells(n), Whole(r), NEW q, DOMAIN q = 0..n - 1,
           NEW left \in Int, NEW right \in Int, Within(n, left, right),
           Held(r, q, left, right), NEW c \in left..right
    PROVE  Held(r, Repaired(q, c, right + 1), left, right)
<1> DEFINE p == ClearSplit(q, c)
           z == ClearSplit(p, right + 1)
<1>1. c \in left..right + 1 /\ right + 1 \in left..right + 1
  BY DEF Within
<1>2. DOMAIN p = 0..n - 1 /\ Held(r, p, left, right)
  BY <1>1, SplitHeld
<1> HIDE DEF p
<1>3. DOMAIN z = 0..n - 1 /\ Held(r, z, left, right)
  BY <1>1, <1>2, SplitHeld
<1>4. right + 1 \in 0..n - 1 => z[right].kind # "lead"
  <2>1. SUFFICES ASSUME right + 1 \in 0..n - 1 PROVE z[right].kind # "lead"
    OBVIOUS
  <2>2. right + 1 - 1 = right /\ right \in 0..n - 1
    BY DEF Within
  <2>3. Blank.kind # "lead"
    BY DEF Blank
  <2>4. z = IF p[right].kind = "lead" THEN [p EXCEPT ![right] = Blank] ELSE p
    BY <1>2, <2>1, <2>2 DEF ClearSplit
  <2> HIDE DEF z
  <2> QED BY <1>2, <2>2, <2>3, <2>4
<1> HIDE DEF z
<1>5. Held(r, RepairSpans(z), left, right)
  BY <1>3, <1>4, RepairHeld
<1> QED BY <1>5 DEF Repaired, p, z

LEMMA RightMovedHeld ==
    ASSUME NEW n \in Nat, NEW r \in Cells(n), Whole(r), NEW q \in Cells(n),
           NEW left \in Int, NEW right \in Int, Within(n, left, right),
           Held(r, q, left, right), NEW fill,
           NEW c \in left..right, NEW m \in 1..right + 1 - c
    PROVE  Held(r, Repaired(MovedRight(q, c, m, right + 1, fill), c, right + 1), left, right)
<1> DEFINE z == MovedRight(q, c, m, right + 1, fill)
<1>0. DOMAIN q = 0..n - 1
  BY RowDomain
<1>1. DOMAIN z = 0..n - 1
  BY <1>0 DEF MovedRight
<1>2. ASSUME NEW x \in 0..n - 1, x \notin left..right PROVE z[x] = q[x]
  <2>1. x \notin c..c + m - 1 /\ x \notin c + m..right + 1 - 1
    BY <1>2
  <2> QED BY <1>0, <2>1 DEF MovedRight
<1> HIDE DEF z
<1>3. Held(r, z, left, right)
  BY <1>2, InsideChanges
<1>4. Held(r, Repaired(z, c, right + 1), left, right)
  BY <1>1, <1>3, RepairedHeld
<1> QED BY <1>4 DEF z

LEMMA LeftMovedHeld ==
    ASSUME NEW n \in Nat, NEW r \in Cells(n), Whole(r), NEW q \in Cells(n),
           NEW left \in Int, NEW right \in Int, Within(n, left, right),
           Held(r, q, left, right), NEW fill,
           NEW c \in left..right, NEW m \in 1..right + 1 - c
    PROVE  Held(r, Repaired(MovedLeft(q, c, m, right + 1, fill), c, right + 1), left, right)
<1> DEFINE z == MovedLeft(q, c, m, right + 1, fill)
<1>0. DOMAIN q = 0..n - 1
  BY RowDomain
<1>1. DOMAIN z = 0..n - 1
  BY <1>0 DEF MovedLeft
<1>2. ASSUME NEW x \in 0..n - 1, x \notin left..right PROVE z[x] = q[x]
  <2>1. x \notin c..right + 1 - m - 1 /\ x \notin right + 1 - m..right + 1 - 1
    BY <1>2
  <2> QED BY <1>0, <2>1 DEF MovedLeft
<1> HIDE DEF z
<1>3. Held(r, z, left, right)
  BY <1>2, InsideChanges
<1>4. Held(r, Repaired(z, c, right + 1), left, right)
  BY <1>1, <1>3, RepairedHeld
<1> QED BY <1>4 DEF z

\* insert_cells, delete_cells, shift_columns and replace_row_segment, of a row that
\* is whole, hold what is outside the margins.
LEMMA InsertHolds ==
    ASSUME NEW n \in Nat, NEW r \in Cells(n), Whole(r), NEW fill \in {Blank, Fill},
           NEW left \in Int, NEW right \in Int, Within(n, left, right),
           NEW c \in left..right, NEW m \in 1..right + 1 - c
    PROVE  Held(r, InsertInRow(r, c, m, right + 1, fill), left, right)
<1> DEFINE p == ClearRest(r, c, fill)
           q == ClearRest(p, right + 1 - m, fill)
<1>0. Plain(fill)
  BY FillIsPlain, CellKinds
<1>1. /\ c \in Int /\ c \in left..right + 1
      /\ right + 1 - m \in Int /\ right + 1 - m \in left..right + 1
  OBVIOUS
<1>2. Held(r, r, left, right)
  BY NothingChanged
<1>3. p \in Cells(n) /\ Whole(p)
  BY <1>0, <1>1, RestCleared
<1>4. Held(r, p, left, right)
  BY <1>1, <1>2, RestHeld
<1> HIDE DEF p
<1>5. q \in Cells(n)
  BY <1>0, <1>1, <1>3, RestCleared
<1>6. Held(r, q, left, right)
  BY <1>1, <1>3, <1>4, RestHeld
<1> HIDE DEF q
<1>7. Held(r, Repaired(MovedRight(q, c, m, right + 1, fill), c, right + 1), left, right)
  BY <1>5, <1>6, RightMovedHeld
<1> QED BY <1>7 DEF InsertInRow, p, q

LEMMA DeleteHolds ==
    ASSUME NEW n \in Nat, NEW r \in Cells(n), Whole(r), NEW fill \in {Blank, Fill},
           NEW left \in Int, NEW right \in Int, Within(n, left, right),
           NEW c \in left..right, NEW m \in 1..right + 1 - c
    PROVE  Held(r, DeleteInRow(r, c, m, right + 1, fill), left, right)
<1> DEFINE e == ClearSpans(r, c, c + m - 1, fill)
           p == ClearRest(e, c + m, fill)
           q == ClearRest(p, right + 1, fill)
<1>0. Plain(fill)
  BY FillIsPlain, CellKinds
<1>1. /\ c \in Nat /\ c + m - 1 \in Int /\ c + m - 1 <= n - 1
      /\ c + m \in Int /\ c + m \in left..right + 1
      /\ right + 1 \in Int /\ right + 1 \in left..right + 1
  BY DEF Within
<1>2. Held(r, r, left, right)
  BY NothingChanged
<1>3. e \in Cells(n) /\ Whole(e)
  BY <1>0, <1>1, ClearedSpans
<1>4. Held(r, e, left, right)
  <2>1. \A y \in c..c + m - 1 : y \in 0..n - 1 /\ y \in left..right
    BY DEF Within
  <2> QED BY <1>1, <1>2, <2>1, SpansHeld
<1> HIDE DEF e
<1>5. p \in Cells(n) /\ Whole(p)
  BY <1>0, <1>1, <1>3, RestCleared
<1>6. Held(r, p, left, right)
  BY <1>1, <1>3, <1>4, RestHeld
<1> HIDE DEF p
<1>7. q \in Cells(n)
  BY <1>0, <1>1, <1>5, RestCleared
<1>8. Held(r, q, left, right)
  BY <1>1, <1>5, <1>6, RestHeld
<1> HIDE DEF q
<1>9. Held(r, Repaired(MovedLeft(q, c, m, right + 1, fill), c, right + 1), left, right)
  BY <1>7, <1>8, LeftMovedHeld
<1> QED BY <1>9 DEF DeleteInRow, e, p, q

LEMMA CutHeld ==
    ASSUME NEW n \in Nat, NEW r \in Cells(n), Whole(r), NEW q \in Cells(n), Whole(q),
           NEW left \in Int, NEW right \in Int, Within(n, left, right),
           Held(r, q, left, right), NEW b \in left..right + 1
    PROVE  /\ ClearCut(q, b) \in Cells(n) /\ Whole(ClearCut(q, b))
           /\ Held(r, ClearCut(q, b), left, right)
<1>1. b \in Int
  OBVIOUS
<1>2. ClearCut(q, b) \in Cells(n) /\ Whole(ClearCut(q, b))
  BY <1>1, CutCleared
<1>3. Held(r, ClearRest(q, b, Blank), left, right)
  BY RestHeld
<1>4. Held(r, ClearCut(q, b), left, right)
  BY <1>3 DEF ClearCut
<1> QED BY <1>2, <1>4

LEMMA ShiftHolds ==
    ASSUME NEW n \in Nat, NEW r \in Cells(n), Whole(r), NEW insert \in BOOLEAN,
           NEW left \in Int, NEW right \in Int, Within(n, left, right),
           NEW c \in left..right, NEW m \in 1..right + 1 - c
    PROVE  Held(r, ShiftInRow(r, c, m, right + 1, insert), left, right)
<1> DEFINE at == IF insert THEN right + 1 - m ELSE c + m
           p == ClearCut(r, c)
           q == ClearCut(p, at)
           z == ClearCut(q, right + 1)
<1>1. /\ c \in left..right + 1 /\ at \in left..right + 1
      /\ right + 1 \in left..right + 1
  BY DEF Within
<1> HIDE DEF at
<1>2. Held(r, r, left, right)
  BY NothingChanged
<1>3. p \in Cells(n) /\ Whole(p) /\ Held(r, p, left, right)
  BY <1>1, <1>2, CutHeld
<1> HIDE DEF p
<1>4. q \in Cells(n) /\ Whole(q) /\ Held(r, q, left, right)
  BY <1>1, <1>3, CutHeld
<1> HIDE DEF q
<1>5. z \in Cells(n) /\ Held(r, z, left, right)
  BY <1>1, <1>4, CutHeld
<1> HIDE DEF z
<1>6. Held(r, Repaired(MovedRight(q, c, m, right + 1, Blank), c, right + 1), left, right)
  BY <1>4, RightMovedHeld
<1>7. Held(r, Repaired(MovedLeft(z, c, m, right + 1, Blank), c, right + 1), left, right)
  BY <1>5, LeftMovedHeld
<1>8. ShiftInRow(r, c, m, right + 1, insert) =
        Repaired(IF insert THEN MovedRight(q, c, m, right + 1, Blank)
                 ELSE MovedLeft(z, c, m, right + 1, Blank), c, right + 1)
  BY DEF ShiftInRow, at, p, q, z
<1> QED BY <1>6, <1>7, <1>8

LEMMA SegmentHolds ==
    ASSUME NEW n \in Nat, NEW r \in Cells(n), Whole(r), NEW src,
           NEW left \in Int, NEW right \in Int, Within(n, left, right)
    PROVE  Held(r, Segment(r, src, left, right), left, right)
<1> DEFINE z == [c \in DOMAIN r |-> IF c \in left..right THEN src[c] ELSE r[c]]
<1>0. DOMAIN r = 0..n - 1
  BY RowDomain
<1>1. DOMAIN z = 0..n - 1 /\ \A c \in 0..n - 1 : c \notin left..right => z[c] = r[c]
  BY <1>0
<1>2. Held(r, r, left, right)
  BY NothingChanged
<1>3. Segment(r, src, left, right) = Repaired(z, left, right + 1)
  BY DEF Segment
<1> HIDE DEF z
<1>4. Held(r, z, left, right)
  BY <1>1, <1>2, InsideChanges
<1>5. left \in left..right
  BY DEF Within
<1> QED BY <1>1, <1>3, <1>4, <1>5, RepairedHeld

-------------------------------------------------------------------------------
(***************************************************************************)
(* The same of screens: t is s with the rows of a set changed within the   *)
(* margins, and Alike when it is s but for the cursor, wraps and counters. *)
(***************************************************************************)
SameCells(s, t, r) == t.rows[r].cells = s.rows[r].cells

HeldRow(s, t, r) ==
    Held(s.rows[r].cells, t.rows[r].cells, ActiveLeft(s), ActiveRight(s))

Kept(s, t, inside) ==
    \A r \in Rows : SameCells(s, t, r) \/ (r \in inside /\ HeldRow(s, t, r))

Alike(s, t) ==
    t.left = s.left /\ t.right = s.right /\ \A r \in Rows : SameCells(s, t, r)

LEMMA KeptAcross ==
    ASSUME NEW s, NEW t, NEW u, NEW v, NEW inside,
           Alike(s, t), Kept(t, u, inside), Alike(u, v)
    PROVE  Kept(s, v, inside)
<1>1. ActiveLeft(t) = ActiveLeft(s) /\ ActiveRight(t) = ActiveRight(s)
  BY DEF Alike, ActiveLeft, ActiveRight
<1>2. ASSUME NEW r \in Rows
      PROVE  SameCells(s, v, r) \/ (r \in inside /\ HeldRow(s, v, r))
  <2>1. SameCells(s, t, r) /\ SameCells(u, v, r)
    BY DEF Alike
  <2>2. SameCells(t, u, r) \/ (r \in inside /\ HeldRow(t, u, r))
    BY DEF Kept
  <2> QED BY <1>1, <2>1, <2>2 DEF SameCells, HeldRow
<1> QED BY <1>2 DEF Kept

LEMMA AlikeToo ==
    ASSUME NEW s, NEW t, NEW u, NEW inside
    PROVE  /\ Alike(s, s)
           /\ Alike(s, t) /\ Alike(t, u) => Alike(s, u)
           /\ Alike(s, t) => Kept(s, t, inside)
BY DEF Alike, Kept, SameCells

LEMMA KeptMore ==
    ASSUME NEW s, NEW t, NEW inside, NEW more, inside \subseteq more, Kept(s, t, inside)
    PROVE  Kept(s, t, more)
BY DEF Kept

LEMMA ActiveMargins ==
    ASSUME ModesOK, NEW s, Sound(s)
    PROVE  /\ size.columns \in Nat /\ ActiveLeft(s) \in Int /\ ActiveRight(s) \in Int
           /\ Within(size.columns, ActiveLeft(s), ActiveRight(s))
<1>1. /\ s.left \in Columns /\ s.right \in Columns /\ s.left <= s.right
  BY Places
<1>2. /\ size.columns \in Nat /\ LastColumn = size.columns - 1 /\ LastColumn \in Nat
      /\ Columns = 0..size.columns - 1
  BY GridSize
<1>3. CASE marginMode
  BY <1>1, <1>2, <1>3 DEF Within, ActiveLeft, ActiveRight
<1>4. CASE ~marginMode
  BY <1>2, <1>4 DEF Within, ActiveLeft, ActiveRight
<1> QED BY <1>3, <1>4

LEMMA BreakAlike ==
    ASSUME ModesOK, NEW s, Sound(s), NEW row \in 0..size.rows
    PROVE  Alike(s, BreakSoftWrapBefore(s, row))
<1>1. row > 0 => row - 1 \in Rows
  BY GridSize
<1>2. DOMAIN s.rows = Rows /\ DOMAIN s = Fields
  BY DEF Sound, ScreenSound, RowsSound, Rows
<1>3. CASE row > 0
  <2> DEFINE x == row - 1
             line == [s.rows[x] EXCEPT !.wrap = 0]
             rows == [s.rows EXCEPT ![x] = line]
             t == [s EXCEPT !.rows = rows]
  <2>1. BreakSoftWrapBefore(s, row) = t
    BY <1>3 DEF BreakSoftWrapBefore
  <2>2. t.left = s.left /\ t.right = s.right /\ t.rows = rows
    BY <1>2 DEF Fields
  <2>3. s.rows[x] \in RowOf(size.columns)
    BY <1>1, <1>3, RowsOfScreen
  <2>4. line.cells = s.rows[x].cells
    BY <2>3 DEF RowOf
  <2>5. x \in Rows
    BY <1>1, <1>3
  <2> HIDE DEF t, line, x
  <2>6. ASSUME NEW r \in Rows PROVE rows[r].cells = s.rows[r].cells
    BY <1>2, <2>4, <2>5
  <2> HIDE DEF rows
  <2> QED BY <2>1, <2>2, <2>6 DEF Alike, SameCells
<1>4. CASE ~(row > 0)
  BY <1>4 DEF BreakSoftWrapBefore, Alike, SameCells
<1> QED BY <1>3, <1>4

\* What the cursor and the history are makes no difference.
LEMMA OthersAlike ==
    ASSUME ModesOK, NEW s, Sound(s), NEW row, NEW col, NEW p, NEW history
    PROVE  /\ Alike(s, [s EXCEPT !.row = row, !.col = col, !.pending = p])
           /\ Alike(s, [s EXCEPT !.row = row])
           /\ Alike(s, [s EXCEPT !.pending = p])
           /\ Alike(s, [s EXCEPT !.history = history])
BY DEF Alike, SameCells, Sound, ScreenSound, Fields

LEMMA FullWidthHolds ==
    ASSUME ModesOK, NEW s, Sound(s), FullWidth(s), NEW t, NEW r \in Rows
    PROVE  HeldRow(s, t, r)
<1>1. s.rows[r].cells \in Cells(size.columns)
  BY RowsOfScreen
<1>2. DOMAIN s.rows[r].cells = 0..size.columns - 1
  BY <1>1, GridSize, RowDomain
<1>3. ActiveLeft(s) = 0 /\ ActiveRight(s) = size.columns - 1
  BY GridSize DEF FullWidth
<1> QED BY <1>2, <1>3 DEF HeldRow, Held

LEMMA ShiftedKept ==
    ASSUME ModesOK, NEW s, Sound(s), NEW top \in Rows, NEW bottom \in Rows, top <= bottom,
           NEW shift \in Int
    PROVE  Kept(s, Shifted(s, top, bottom, shift), top..bottom)
<1> DEFINE t == Shifted(s, top, bottom, shift)
<1>1. DOMAIN s = Fields
  BY DEF Sound, ScreenSound
<1>2. CASE FullWidth(s)
  <2>1. t.rows = MovedRows(s, top, bottom, shift)
    BY <1>1, <1>2 DEF Shifted, Fields
  <2> HIDE DEF t
  <2>2. ASSUME NEW r \in Rows, r \notin top..bottom PROVE SameCells(s, t, r)
    BY <2>1, <2>2 DEF MovedRows, SameCells
  <2>3. ASSUME NEW r \in Rows PROVE HeldRow(s, t, r)
    BY <1>2, FullWidthHolds
  <2>4. Kept(s, t, top..bottom)
    BY <2>2, <2>3 DEF Kept
  <2> QED BY <2>4 DEF t
<1>3. CASE ~FullWidth(s)
  <2>1. t.rows = MovedSegments(s, top, bottom, shift)
    BY <1>1, <1>3 DEF Shifted, Fields
  <2> HIDE DEF t
  <2>2. ASSUME NEW r \in Rows, r \notin top..bottom PROVE SameCells(s, t, r)
    BY <2>1, <2>2 DEF MovedSegments, SameCells
  <2>3. ASSUME NEW r \in Rows, r \in top..bottom PROVE HeldRow(s, t, r)
    <3> DEFINE src == IF r + shift \in top..bottom THEN s.rows[r + shift].cells
                      ELSE EmptyCells(size.columns, Fill)
               cells == Segment(s.rows[r].cells, src, ActiveLeft(s), ActiveRight(s))
    <3>1. t.rows[r] = [s.rows[r] EXCEPT !.cells = cells, !.wrap = 0]
      BY <2>1, <2>3 DEF MovedSegments
    <3> HIDE DEF src
    <3>2. s.rows[r] \in RowOf(size.columns) /\ s.rows[r].cells \in Cells(size.columns)
          /\ Whole(s.rows[r].cells)
      BY RowsOfScreen
    <3>3. Held(s.rows[r].cells, cells, ActiveLeft(s), ActiveRight(s))
      BY <3>2, ActiveMargins, SegmentHolds
    <3> HIDE DEF cells
    <3>4. t.rows[r].cells = cells
      BY <3>1, <3>2 DEF RowOf
    <3> QED BY <3>3, <3>4 DEF HeldRow
  <2>4. Kept(s, t, top..bottom)
    BY <2>2, <2>3 DEF Kept
  <2> QED BY <2>4 DEF t
<1> QED BY <1>2, <1>3

\* Alike screens have the same margins and the same width between them.
LEMMA AlikeWidth ==
    ASSUME NEW s, NEW t, Alike(s, t)
    PROVE  FullWidth(t) <=> FullWidth(s)
BY DEF Alike, FullWidth, ActiveLeft, ActiveRight

LEMMA ScrollUpKept ==
    ASSUME ModesOK, NEW s, Sound(s), NEW top \in Rows, NEW bottom \in Rows, top <= bottom,
           NEW archive \in BOOLEAN, NEW count \in Int
    PROVE  Kept(s, ScrollUpRegion(s, top, bottom, archive, count), top..bottom)
<1> DEFINE n       == Bounded(count, 1, bottom - top + 1)
           broken  == BreakSoftWrapBefore(s, top)
           leaving == [i \in 1..n |-> broken.rows[top + i - 1]]
           moved   == Shifted(broken, top, bottom, n)
           kept    == Archived(moved.history, leaving)
<1>1. top \in Nat /\ bottom \in Nat /\ top \in 0..size.rows /\ bottom + 1 \in 0..size.rows
  BY GridSize
<1>2. n \in Int
  BY <1>1 DEF Bounded
<1>3. Sound(broken) /\ Alike(s, broken)
  BY <1>1, BreakSound, BreakAlike
<1>4. ScrollUpRegion(s, top, bottom, archive, count) =
        IF FullWidth(s)
        THEN IF archive THEN [moved EXCEPT !.history = kept] ELSE moved
        ELSE BreakSoftWrapBefore(moved, bottom + 1)
  BY DEF ScrollUpRegion
<1> HIDE DEF n, broken
<1>5. Sound(moved) /\ Kept(broken, moved, top..bottom)
  BY <1>2, <1>3, ShiftedSound, ShiftedKept
<1> HIDE DEF moved, kept
<1>6. Alike(moved, [moved EXCEPT !.history = kept])
      /\ Alike(moved, BreakSoftWrapBefore(moved, bottom + 1)) /\ Alike(moved, moved)
  BY <1>1, <1>5, OthersAlike, BreakAlike, AlikeToo
<1>7. PICK v : /\ Alike(moved, v)
               /\ v = ScrollUpRegion(s, top, bottom, archive, count)
  BY <1>4, <1>6
<1>8. Kept(s, v, top..bottom)
  BY <1>3, <1>5, <1>7, KeptAcross
<1> QED BY <1>7, <1>8

LEMMA ScrollDownKept ==
    ASSUME ModesOK, NEW s, Sound(s), NEW top \in Rows, NEW bottom \in Rows, top <= bottom,
           NEW count \in Int
    PROVE  Kept(s, ScrollDownRegion(s, top, bottom, count), top..bottom)
<1> DEFINE n      == Bounded(count, 1, bottom - top + 1)
           broken == BreakSoftWrapBefore(s, top)
           moved  == Shifted(broken, top, bottom, -n)
           v      == BreakSoftWrapBefore(moved, bottom + 1)
<1>1. top \in Nat /\ bottom \in Nat /\ top \in 0..size.rows /\ bottom + 1 \in 0..size.rows
  BY GridSize
<1>2. -n \in Int
  BY <1>1 DEF Bounded
<1>3. Sound(broken) /\ Alike(s, broken)
  BY <1>1, BreakSound, BreakAlike
<1>4. ScrollDownRegion(s, top, bottom, count) = v
  BY DEF ScrollDownRegion
<1> HIDE DEF n, broken
<1>5. Sound(moved) /\ Kept(broken, moved, top..bottom)
  BY <1>2, <1>3, ShiftedSound, ShiftedKept
<1> HIDE DEF moved
<1>6. Alike(moved, v)
  BY <1>1, <1>5, BreakAlike
<1> HIDE DEF v
<1> QED BY <1>3, <1>4, <1>5, <1>6, KeptAcross

\* Within the margins the cursor's right margin is the active one.
LEMMA EditWithin ==
    ASSUME ModesOK, NEW s, Sound(s), NEW count \in Int, InColumns(s)
    PROVE  /\ CursorRight(s) + 1 = ActiveRight(s) + 1
           /\ s.col \in ActiveLeft(s)..ActiveRight(s)
           /\ EditCount(s, count) \in 1..ActiveRight(s) + 1 - s.col
<1>1. CursorRight(s) = ActiveRight(s)
  BY DEF InColumns, CursorRight
<1>2. EditCount(s, count) \in 1..(CursorRight(s) + 1) - s.col
  BY EditRoom
<1>3. ActiveRight(s) \in Int /\ s.col \in Int
  BY ActiveMargins, EditRoom
<1>4. (CursorRight(s) + 1) - s.col = ActiveRight(s) + 1 - s.col
  BY <1>1, <1>3
<1> QED BY <1>1, <1>2, <1>4 DEF InColumns

LEMMA FillIsBlankOrFill == Fill \in {Blank, Fill} /\ Blank \in {Blank, Fill}
OBVIOUS

LEMMA CellsReplaced ==
    ASSUME ModesOK, NEW s, Sound(s), NEW row \in Rows, NEW cells, NEW p,
           Held(s.rows[row].cells, cells, ActiveLeft(s), ActiveRight(s))
    PROVE  Kept(s, [s EXCEPT !.rows[row].cells = cells, !.pending = p], {row})
<1> DEFINE line == [s.rows[row] EXCEPT !.cells = cells]
           rows == [s.rows EXCEPT ![row] = line]
           t == [s EXCEPT !.rows[row].cells = cells, !.pending = p]
<1>1. DOMAIN s = Fields /\ DOMAIN s.rows = Rows /\ s.rows[row] \in RowOf(size.columns)
  BY RowsOfScreen DEF Sound, ScreenSound
<1>2. t.rows = rows
  BY <1>1 DEF Fields
<1>3. line.cells = cells
  BY <1>1 DEF RowOf
<1> HIDE DEF t, line
<1>4. ASSUME NEW r \in Rows, r # row PROVE SameCells(s, t, r)
  BY <1>1, <1>2, <1>4 DEF SameCells
<1>5. HeldRow(s, t, row)
  BY <1>1, <1>2, <1>3 DEF HeldRow
<1>6. Kept(s, t, {row})
  BY <1>4, <1>5 DEF Kept
<1> QED BY <1>6 DEF t

LEMMA InsertCellsKept ==
    ASSUME ModesOK, NEW s, Sound(s), NEW count \in Int
    PROVE  Kept(s, InsertCellsAt(s, count), {s.row})
<1>1. /\ s.row \in Rows /\ s.rows[s.row].cells \in Cells(size.columns)
      /\ Whole(s.rows[s.row].cells)
  BY Places, RowsOfScreen
<1>2. CASE InColumns(s)
  <2> DEFINE cells == InsertInRow(s.rows[s.row].cells, s.col, EditCount(s, count),
                                  ActiveRight(s) + 1, Fill)
  <2>1. Held(s.rows[s.row].cells, cells, ActiveLeft(s), ActiveRight(s))
    BY <1>1, <1>2, EditWithin, ActiveMargins, FillIsBlankOrFill, InsertHolds
  <2>2. InsertCellsAt(s, count) = [s EXCEPT !.rows[s.row].cells = cells, !.pending = FALSE]
    BY <1>2, EditWithin DEF InsertCellsAt
  <2> HIDE DEF cells
  <2>3. Kept(s, [s EXCEPT !.rows[s.row].cells = cells, !.pending = FALSE], {s.row})
    BY <1>1, <2>1, CellsReplaced
  <2> QED BY <2>2, <2>3
<1>3. CASE ~InColumns(s)
  <2>1. InsertCellsAt(s, count) = [s EXCEPT !.pending = FALSE]
    BY <1>3 DEF InsertCellsAt
  <2> QED BY <2>1, OthersAlike, AlikeToo
<1> QED BY <1>2, <1>3

LEMMA DeleteCellsKept ==
    ASSUME ModesOK, NEW s, Sound(s), NEW count \in Int
    PROVE  Kept(s, DeleteCellsAt(s, count), {s.row})
<1>1. /\ s.row \in Rows /\ s.rows[s.row].cells \in Cells(size.columns)
      /\ Whole(s.rows[s.row].cells)
  BY Places, RowsOfScreen
<1>2. CASE InColumns(s)
  <2> DEFINE cells == DeleteInRow(s.rows[s.row].cells, s.col, EditCount(s, count),
                                  ActiveRight(s) + 1, Fill)
  <2>1. Held(s.rows[s.row].cells, cells, ActiveLeft(s), ActiveRight(s))
    BY <1>1, <1>2, EditWithin, ActiveMargins, FillIsBlankOrFill, DeleteHolds
  <2>2. DeleteCellsAt(s, count) = [s EXCEPT !.rows[s.row].cells = cells, !.pending = FALSE]
    BY <1>2, EditWithin DEF DeleteCellsAt
  <2> HIDE DEF cells
  <2>3. Kept(s, [s EXCEPT !.rows[s.row].cells = cells, !.pending = FALSE], {s.row})
    BY <1>1, <2>1, CellsReplaced
  <2> QED BY <2>2, <2>3
<1>3. CASE ~InColumns(s)
  BY <1>3, AlikeToo DEF DeleteCellsAt
<1> QED BY <1>2, <1>3

LEMMA ShiftColumnsKept ==
    ASSUME ModesOK, NEW s, Sound(s), NEW first \in Int, NEW count \in Int, NEW insert \in BOOLEAN
    PROVE  Kept(s, ShiftColumns(s, first, count, insert), s.top..s.bottom)
<1>0. CASE ~(s.row \in s.top..s.bottom /\ first \in ActiveLeft(s)..ActiveRight(s))
  BY <1>0, AlikeToo DEF ShiftColumns
<1> SUFFICES ASSUME s.row \in s.top..s.bottom, first \in ActiveLeft(s)..ActiveRight(s)
             PROVE  Kept(s, ShiftColumns(s, first, count, insert), s.top..s.bottom)
  BY <1>0
<1> DEFINE end == ActiveRight(s) + 1
           n   == Bounded(count, 1, end - first)
           rows == [r \in Rows |->
                      IF r \in s.top..s.bottom
                      THEN [s.rows[r] EXCEPT
                              !.cells = ShiftInRow(s.rows[r].cells, first, n, end, insert),
                              !.wrap = 0]
                      ELSE s.rows[r]]
           p   == [s EXCEPT !.pending = FALSE]
           t   == [p EXCEPT !.rows = rows]
           u   == BreakSoftWrapBefore(t, s.top)
           v   == BreakSoftWrapBefore(u, s.bottom + 1)
<1>1. ShiftColumns(s, first, count, insert) = v
  BY DEF ShiftColumns, Sound, ScreenSound, Fields
<1>2. /\ size.columns \in Nat /\ ActiveLeft(s) \in Int /\ ActiveRight(s) \in Int
      /\ Within(size.columns, ActiveLeft(s), ActiveRight(s))
  BY ActiveMargins
<1>3. n \in 1..ActiveRight(s) + 1 - first
  BY <1>2 DEF Bounded
<1>4. first \in 0..size.columns - 1 /\ end \in first + 1..size.columns /\ n \in 1..end - first
  BY <1>2, <1>3 DEF Within
<1>5. t.rows = rows /\ t.left = s.left /\ t.right = s.right
  BY DEF Sound, ScreenSound, Fields
<1> HIDE DEF n
<1>6. ASSUME NEW r \in Rows
      PROVE  /\ RowSound(size.columns, rows[r])
             /\ r \in s.top..s.bottom => HeldRow(s, t, r)
             /\ r \notin s.top..s.bottom => SameCells(s, t, r)
  <2> DEFINE cells == ShiftInRow(s.rows[r].cells, first, n, end, insert)
  <2>1. /\ s.rows[r] \in RowOf(size.columns) /\ s.rows[r].cells \in Cells(size.columns)
        /\ Whole(s.rows[r].cells)
    BY RowsOfScreen
  <2>2. cells \in Cells(size.columns) /\ Whole(cells)
    BY <1>2, <1>4, <2>1, ShiftedWhole
  <2>3. Held(s.rows[r].cells, cells, ActiveLeft(s), ActiveRight(s))
    BY <1>2, <1>3, <2>1, ShiftHolds
  <2>4. rows[r] = IF r \in s.top..s.bottom
                  THEN [s.rows[r] EXCEPT !.cells = cells, !.wrap = 0] ELSE s.rows[r]
    OBVIOUS
  <2> HIDE DEF cells, rows, t
  <2>5. /\ RowSound(size.columns, [s.rows[r] EXCEPT !.cells = cells, !.wrap = 0])
        /\ [s.rows[r] EXCEPT !.cells = cells, !.wrap = 0].cells = cells
        /\ RowSound(size.columns, s.rows[r])
    BY <2>1, <2>2 DEF RowSound, RowOf
  <2>6. RowSound(size.columns, rows[r])
    BY <2>4, <2>5
  <2>7. r \in s.top..s.bottom => HeldRow(s, t, r)
    BY <1>5, <2>3, <2>4, <2>5 DEF HeldRow
  <2>8. r \notin s.top..s.bottom => SameCells(s, t, r)
    BY <1>5, <2>4 DEF SameCells
  <2> QED BY <2>6, <2>7, <2>8
<1>7. DOMAIN rows = Rows
  OBVIOUS
<1>8. Sound(p)
  BY CursorMoves, Places
<1> HIDE DEF rows, p, end
<1>9. Sound(t)
  BY <1>6, <1>7, <1>8, RowsChange
<1> HIDE DEF t
<1>10. s.top \in 0..size.rows /\ s.bottom + 1 \in 0..size.rows
  <2>1. s.top \in Rows /\ s.bottom \in Rows
    BY Places
  <2> QED BY <2>1, GridSize
<1>11. Kept(s, t, s.top..s.bottom)
  BY <1>6 DEF Kept
<1>12. Sound(u) /\ Alike(t, u)
  BY <1>9, <1>10, BreakSound, BreakAlike
<1> HIDE DEF u
<1>13. Alike(u, v)
  BY <1>10, <1>12, BreakAlike
<1> HIDE DEF v
<1>14. Alike(s, s) /\ Alike(t, v)
  BY <1>12, <1>13, AlikeToo
<1> QED BY <1>1, <1>11, <1>14, KeptAcross

LEMMA CursorSetAlike ==
    ASSUME ModesOK, NEW s, Sound(s), NEW row, NEW col
    PROVE  Alike(s, SetCursorPosition(s, row, col))
BY OthersAlike DEF SetCursorPosition

LEMMA LinesKept ==
    ASSUME ModesOK, NEW s, Sound(s), NEW count \in Int
    PROVE  /\ Kept(s, InsertLinesAt(s, count), s.top..s.bottom)
           /\ Kept(s, DeleteLinesAt(s, count), s.top..s.bottom)
<1>0. CASE ~InRegion(s)
  BY <1>0, AlikeToo DEF InsertLinesAt, DeleteLinesAt
<1> SUFFICES ASSUME InRegion(s)
             PROVE  /\ Kept(s, InsertLinesAt(s, count), s.top..s.bottom)
                    /\ Kept(s, DeleteLinesAt(s, count), s.top..s.bottom)
  BY <1>0
<1> DEFINE q == SetCursorPosition(s, s.row, ActiveLeft(s))
           t == BreakSoftWrapBefore(q, s.row)
           n == Bounded(count, 1, s.bottom - s.row + 1)
           y == Shifted(t, s.row, s.bottom, -n)
           z == BreakSoftWrapBefore(y, s.bottom + 1)
           v == BreakSoftWrapBefore(t, s.bottom + 1)
           w == Shifted(v, s.row, s.bottom, n)
<1>1. /\ s.row \in Rows /\ s.bottom \in Rows /\ s.row \in Int /\ s.bottom \in Int
      /\ s.top \in Int /\ ActiveLeft(s) \in Int
  BY Places
<1>2. s.row \in 0..size.rows /\ s.bottom + 1 \in 0..size.rows
  BY <1>1, GridSize
<1>3. n \in Int /\ -n \in Int
  BY <1>1 DEF Bounded
<1>4. s.row \in s.top..s.bottom
  BY DEF InRegion
<1>5. s.row <= s.bottom /\ s.row..s.bottom \subseteq s.top..s.bottom
  BY <1>1, <1>4
<1>6. Sound(q) /\ Alike(s, q)
  BY <1>1, CursorSetSound, CursorSetAlike
<1>7. InsertLinesAt(s, count) = z /\ DeleteLinesAt(s, count) = w
  BY DEF InsertLinesAt, DeleteLinesAt
<1> HIDE DEF q, n
<1>8. Sound(t) /\ Alike(q, t)
  BY <1>2, <1>6, BreakSound, BreakAlike
<1> HIDE DEF t
<1>9. Sound(v) /\ Alike(t, v)
  BY <1>2, <1>8, BreakSound, BreakAlike
<1>10. Sound(y) /\ Kept(t, y, s.row..s.bottom)
  BY <1>1, <1>3, <1>5, <1>8, ShiftedSound, ShiftedKept
<1> HIDE DEF v, y
<1>11. Alike(y, z)
  BY <1>2, <1>10, BreakAlike
<1>12. Kept(v, w, s.row..s.bottom)
  BY <1>1, <1>3, <1>5, <1>9, ShiftedKept
<1> HIDE DEF z, w
<1>13. Alike(s, t) /\ Alike(w, w)
  BY <1>6, <1>8, AlikeToo
<1>14. Alike(s, v)
  BY <1>9, <1>13, AlikeToo
<1>15. Kept(s, z, s.row..s.bottom)
  BY <1>10, <1>11, <1>13, KeptAcross
<1>16. Kept(s, w, s.row..s.bottom)
  BY <1>12, <1>13, <1>14, KeptAcross
<1> QED BY <1>5, <1>7, <1>15, <1>16, KeptMore

LEMMA ReverseIndexKept ==
    ASSUME ModesOK, NEW s, Sound(s)
    PROVE  Kept(s, ReverseIndexed(s), s.top..s.bottom)
<1> DEFINE t == [s EXCEPT !.pending = FALSE]
           u == ScrollDownRegion(t, s.top, s.bottom, 1)
           v == [t EXCEPT !.row = t.row - 1]
<1>1. s.top \in Rows /\ s.bottom \in Rows /\ s.top <= s.bottom
  BY Places
<1>2. Sound(t) /\ Alike(s, t)
  BY CursorMoves, Places, OthersAlike
<1>3. ReverseIndexed(s) = u \/ ReverseIndexed(s) = v \/ ReverseIndexed(s) = t
  BY DEF ReverseIndexed
<1> HIDE DEF t
<1>4. Kept(t, u, s.top..s.bottom)
  BY <1>1, <1>2, ScrollDownKept
<1> HIDE DEF u
<1>5. Alike(t, v) /\ Alike(u, u)
  BY <1>2, OthersAlike, AlikeToo
<1> HIDE DEF v
<1>6. Kept(s, u, s.top..s.bottom)
  BY <1>2, <1>4, <1>5, KeptAcross
<1>7. Kept(s, v, s.top..s.bottom) /\ Kept(s, t, s.top..s.bottom)
  BY <1>2, <1>5, AlikeToo
<1> QED BY <1>3, <1>6, <1>7

LEMMA IndexKept ==
    ASSUME ModesOK, NEW s, Sound(s)
    PROVE  /\ Kept(s, BackIndexed(s), s.top..s.bottom)
           /\ Kept(s, ForwardIndexed(s), s.top..s.bottom)
<1>1. ActiveLeft(s) \in Int /\ 1 \in Int
  BY Places
<1>2. ASSUME NEW insert \in BOOLEAN
      PROVE  Kept(s, ShiftColumns(s, ActiveLeft(s), 1, insert), s.top..s.bottom)
  BY <1>1, ShiftColumnsKept
<1>3. ASSUME NEW across PROVE Kept(s, MoveCursorRelative(s, 0, across), s.top..s.bottom)
  <2>1. Alike(s, MoveCursorRelative(s, 0, across))
    BY CursorSetAlike DEF MoveCursorRelative
  <2> QED BY <2>1, AlikeToo
<1> QED BY <1>2, <1>3 DEF BackIndexed, ForwardIndexed

\* Every control function that shifts keeps what the margins hold.
LEMMA ShiftingHolds ==
    ASSUME GridInv, Shifting
    PROVE  \E t : screen'[active] = t /\ Kept(S, t, S.top..S.bottom \cup {S.row})
<1> DEFINE inside == S.top..S.bottom \cup {S.row}
<1>1. ModesOK /\ Sound(S)
  BY ActiveSound
<1>2. ASSUME NEW t, Do(t), Kept(S, t, {S.row}) \/ Kept(S, t, S.top..S.bottom)
      PROVE  screen'[active] = t /\ Kept(S, t, inside)
  <2>1. active \in DOMAIN screen
    BY DEF GridInv, ModesOK
  <2>2. screen'[active] = t
    BY <1>2, <2>1 DEF Do, Become
  <2>3. {S.row} \subseteq inside /\ S.top..S.bottom \subseteq inside
    OBVIOUS
  <2> HIDE DEF inside
  <2> QED BY <1>2, <2>2, <2>3, KeptMore
<1> HIDE DEF inside
<1>3. SUFFICES \E t : Do(t) /\ (Kept(S, t, {S.row}) \/ Kept(S, t, S.top..S.bottom))
  BY <1>2 DEF inside
<1>4. /\ S.row \in Rows /\ S.col \in Int /\ S.top \in Rows /\ S.bottom \in Rows
      /\ S.top <= S.bottom /\ S.bottom + 1 \in 0..size.rows
  <2>1. S.row \in Rows /\ S.col \in Int /\ S.top \in Rows /\ S.bottom \in Rows /\ S.top <= S.bottom
    BY <1>1, Places
  <2> QED BY <1>1, <2>1, GridSize
<1>5. \A m : \A n \in Parameters(m) : n \in Int
  BY DEF Parameters
<1>6. CASE InsertCells
  <2>1. PICK n \in Int : Do(InsertCellsAt(S, n))
    BY <1>5, <1>6 DEF InsertCells
  <2> QED BY <1>1, <2>1, InsertCellsKept
<1>7. CASE DeleteCells
  <2>1. PICK n \in Int : Do(DeleteCellsAt(S, n))
    BY <1>5, <1>7 DEF DeleteCells
  <2> QED BY <1>1, <2>1, DeleteCellsKept
<1>8. CASE InsertColumns \/ DeleteColumns
  <2>1. PICK n \in Int, insert \in BOOLEAN : Do(ShiftColumns(S, S.col, n, insert))
    BY <1>5, <1>8 DEF InsertColumns, DeleteColumns
  <2> QED BY <1>1, <1>4, <2>1, ShiftColumnsKept
<1>9. CASE InsertLines
  <2>1. PICK n \in Int : Do(InsertLinesAt(S, n))
    BY <1>5, <1>9 DEF InsertLines
  <2> QED BY <1>1, <2>1, LinesKept
<1>10. CASE DeleteLines
  <2>1. PICK n \in Int : Do(DeleteLinesAt(S, n))
    BY <1>5, <1>10 DEF DeleteLines
  <2> QED BY <1>1, <2>1, LinesKept
<1>11. CASE ScrollUp
  <2> DEFINE archive == active = "primary" /\ S.top = 0
             t == BreakSoftWrapBefore(S, S.bottom + 1)
  <2>1. archive \in BOOLEAN
    OBVIOUS
  <2>2. PICK n \in Int : Do(ScrollUpRegion(t, S.top, S.bottom, archive, n))
    BY <1>5, <1>11 DEF ScrollUp
  <2> HIDE DEF archive
  <2>3. Sound(t) /\ Alike(S, t)
    BY <1>1, <1>4, BreakSound, BreakAlike
  <2> HIDE DEF t
  <2> DEFINE u == ScrollUpRegion(t, S.top, S.bottom, archive, n)
  <2>4. Kept(t, u, S.top..S.bottom)
    BY <1>1, <1>4, <2>1, <2>3, ScrollUpKept
  <2> HIDE DEF u
  <2>5. Kept(S, u, S.top..S.bottom)
    BY <2>3, <2>4, AlikeToo, KeptAcross
  <2> QED BY <2>2, <2>5 DEF u
<1>12. CASE ScrollDown
  <2>1. PICK n \in Int : Do(ScrollDownRegion(S, S.top, S.bottom, n))
    BY <1>5, <1>12 DEF ScrollDown
  <2> QED BY <1>1, <1>4, <2>1, ScrollDownKept
<1>13. CASE ReverseIndex \/ BackIndex \/ ForwardIndex
  BY <1>1, <1>13, ReverseIndexKept, IndexKept DEF ReverseIndex, BackIndex, ForwardIndex
<1> QED BY <1>6, <1>7, <1>8, <1>9, <1>10, <1>11, <1>12, <1>13 DEF Shifting

\* What moves within the margins leaves the cells outside them alone, but for the half
\* of a wide glyph that a margin cuts: insert_cells, delete_cells, shift_columns and the
\* scrolls (terminal_screen_model.cpp:6741-6816, 7609-7853), for grids, margins and
\* regions of any size and any count of cells or rows.
THEOREM MarginsAreHeld == Spec => MarginsHold
<1> DEFINE moves ==
      marginMode /\ Shifting => \A r \in Rows, c \in Columns :
         LET before == S.rows[r].cells
             after  == screen'[active].rows[r].cells
             inside == r \in S.top..S.bottom \cup {S.row} /\ c \in ActiveLeft(S)..ActiveRight(S)
         IN  \/ inside \/ after[c] = before[c]
             \/ /\ after[c] \in {Blank, Fill}
                /\ \E x \in Span(before, c) : x \in ActiveLeft(S)..ActiveRight(S)
<1>1. GridInv /\ [Next]_vars => [moves]_vars
  <2> SUFFICES ASSUME GridInv, Shifting PROVE moves
    OBVIOUS
  <2>1. PICK t : screen'[active] = t /\ Kept(S, t, S.top..S.bottom \cup {S.row})
    BY ShiftingHolds
  <2>2. ModesOK /\ Sound(S)
    BY ActiveSound
  <2> SUFFICES ASSUME NEW r \in Rows, NEW c \in Columns
               PROVE  \/ /\ r \in S.top..S.bottom \cup {S.row}
                         /\ c \in ActiveLeft(S)..ActiveRight(S)
                      \/ t.rows[r].cells[c] = S.rows[r].cells[c]
                      \/ /\ t.rows[r].cells[c] \in {Blank, Fill}
                         /\ Meets(S.rows[r].cells, c, ActiveLeft(S), ActiveRight(S))
    BY <2>1 DEF Meets
  <2>3. c \in DOMAIN S.rows[r].cells
    <3>1. S.rows[r].cells \in Cells(size.columns)
      BY <2>2, RowsOfScreen
    <3> QED BY <2>2, <3>1, GridSize, RowDomain
  <2>4. \/ SameCells(S, t, r)
        \/ r \in S.top..S.bottom \cup {S.row} /\ HeldRow(S, t, r)
    BY <2>1 DEF Kept
  <2>5. CASE SameCells(S, t, r)
    BY <2>5 DEF SameCells
  <2>6. CASE r \in S.top..S.bottom \cup {S.row} /\ HeldRow(S, t, r)
    BY <2>3, <2>6 DEF HeldRow, Held
  <2> QED BY <2>4, <2>5, <2>6
<1> QED BY <1>1, InitInv, NextInv, PTL DEF Spec, MarginsHold

-------------------------------------------------------------------------------
(***************************************************************************)
(* Where soft wraps lead.  A row is Linked when, soft-wrapped, it names     *)
(* the row below it.  Most control functions only rewrite cells and take    *)
(* wraps away: what they make of a screen is Looser.                        *)
(***************************************************************************)
Linked(s, r) == s.rows[r].wrap > 0 => s.rows[r].next = s.rows[r + 1].line

Leads(s) == \A r \in 0..LastRow - 1 : Linked(s, r)

LeadsBut(s, x) == \A r \in 0..LastRow - 1 : r # x => Linked(s, r)

RowLooser(x, y) ==
    y.line = x.line /\ y.next = x.next /\ (y.wrap = x.wrap \/ y.wrap = 0)

Looser(s, t) == \A r \in Rows : RowLooser(s.rows[r], t.rows[r])

LEMMA LooserLinks ==
    ASSUME ModesOK, NEW s, NEW t, Looser(s, t), NEW r \in 0..LastRow - 1, Linked(s, r)
    PROVE  Linked(t, r)
<1>1. r \in Rows /\ r + 1 \in Rows
  BY GridSize
<1>2. RowLooser(s.rows[r], t.rows[r]) /\ RowLooser(s.rows[r + 1], t.rows[r + 1])
  BY <1>1 DEF Looser
<1>3. CASE t.rows[r].wrap = 0
  BY <1>3 DEF Linked
<1>4. CASE t.rows[r].wrap = s.rows[r].wrap
  BY <1>2, <1>4 DEF Linked, RowLooser
<1> QED BY <1>2, <1>3, <1>4 DEF RowLooser

LEMMA LooserLeads ==
    ASSUME ModesOK, NEW s, NEW t, Looser(s, t)
    PROVE  /\ Leads(s) => Leads(t)
           /\ \A x : LeadsBut(s, x) => LeadsBut(t, x)
BY LooserLinks DEF Leads, LeadsBut

LEMMA LooserToo ==
    ASSUME NEW s, NEW t, NEW u
    PROVE  /\ t.rows = s.rows => Looser(s, t)
           /\ Looser(s, t) /\ Looser(t, u) => Looser(s, u)
<1>1. t.rows = s.rows => Looser(s, t)
  BY DEF Looser, RowLooser
<1>2. ASSUME Looser(s, t), Looser(t, u) PROVE Looser(s, u)
  BY <1>2 DEF Looser, RowLooser
<1> QED BY <1>1, <1>2

LEMMA RowLoosened ==
    ASSUME NEW n, NEW x \in RowOf(n), NEW cells, NEW wrap, wrap = 0 \/ wrap = x.wrap
    PROVE  /\ RowLooser(x, x)
           /\ RowLooser(x, [x EXCEPT !.cells = cells])
           /\ RowLooser(x, [x EXCEPT !.wrap = wrap])
           /\ RowLooser(x, [x EXCEPT !.cells = cells, !.wrap = wrap])
           /\ [x EXCEPT !.wrap = wrap].wrap = wrap
           /\ [x EXCEPT !.cells = cells, !.wrap = wrap].wrap = wrap
BY DEF RowLooser, RowOf

\* Only what is not a row changes.
LEMMA OthersLooser ==
    ASSUME ModesOK, NEW s, Sound(s), NEW x
    PROVE  /\ [s EXCEPT !.row = x].rows = s.rows
           /\ [s EXCEPT !.col = x].rows = s.rows
           /\ [s EXCEPT !.pending = x].rows = s.rows
           /\ [s EXCEPT !.origin = x].rows = s.rows
           /\ [s EXCEPT !.history = x].rows = s.rows
           /\ [s EXCEPT !.saved = x].rows = s.rows
           /\ \A y, z : /\ [s EXCEPT !.row = x, !.col = y, !.pending = z].rows = s.rows
                        /\ [s EXCEPT !.col = x, !.pending = y].rows = s.rows
                        /\ [s EXCEPT !.top = x, !.bottom = y].rows = s.rows
                        /\ [s EXCEPT !.left = x, !.right = y].rows = s.rows
BY DEF Sound, ScreenSound, Fields

LEMMA OneRowLooser ==
    ASSUME ModesOK, NEW s, Sound(s), NEW row \in Rows, NEW y, RowLooser(s.rows[row], y),
           NEW t, t.rows = [s.rows EXCEPT ![row] = y]
    PROVE  Looser(s, t)
<1>1. DOMAIN s.rows = Rows
  BY RowsOfScreen
<1>2. ASSUME NEW r \in Rows PROVE RowLooser(s.rows[r], t.rows[r])
  <2>1. CASE r = row
    BY <1>1, <2>1
  <2>2. CASE r # row
    <3>1. t.rows[r] = s.rows[r]
      BY <1>1, <2>2
    <3> QED BY <3>1 DEF RowLooser
  <2> QED BY <2>1, <2>2
<1> QED BY <1>2 DEF Looser

LEMMA BreakLooser ==
    ASSUME ModesOK, NEW s, Sound(s), NEW row \in 0..size.rows
    PROVE  LET t == BreakSoftWrapBefore(s, row)
           IN  /\ Looser(s, t) /\ t.lines = s.lines /\ t.left = s.left /\ t.right = s.right
               /\ row > 0 => t.rows[row - 1].wrap = 0
<1>1. row > 0 => row - 1 \in Rows
  BY GridSize
<1>2. DOMAIN s = Fields /\ DOMAIN s.rows = Rows
  BY DEF Sound, ScreenSound, RowsSound, Rows
<1>3. CASE row > 0
  <2> DEFINE x == row - 1
             line == [s.rows[x] EXCEPT !.wrap = 0]
             rows == [s.rows EXCEPT ![x] = line]
             t == [s EXCEPT !.rows = rows]
  <2>1. BreakSoftWrapBefore(s, row) = t
    BY <1>3 DEF BreakSoftWrapBefore
  <2>2. t.rows = rows /\ t.lines = s.lines /\ t.left = s.left /\ t.right = s.right
    BY <1>2 DEF Fields
  <2>3. x \in Rows
    BY <1>1, <1>3
  <2>4. s.rows[x] \in RowOf(size.columns)
    BY <2>3, RowsOfScreen
  <2>5. RowLooser(s.rows[x], line) /\ line.wrap = 0
    BY <2>4, RowLoosened, ZenonT(60)
  <2> HIDE DEF t, line, x
  <2>6. Looser(s, t)
    BY <2>2, <2>3, <2>5, OneRowLooser
  <2>7. t.rows[x].wrap = 0
    BY <1>2, <2>2, <2>3, <2>5
  <2> QED BY <2>1, <2>2, <2>6, <2>7 DEF x
<1>4. CASE ~(row > 0)
  BY <1>4, LooserToo DEF BreakSoftWrapBefore
<1> QED BY <1>3, <1>4

\* Some rows are rewritten, and their wraps kept or taken away.
LEMMA RowsLooser ==
    ASSUME ModesOK, NEW s, Sound(s), NEW t,
           \A r \in Rows : RowLooser(s.rows[r], t.rows[r])
    PROVE  Looser(s, t)
BY DEF Looser

-------------------------------------------------------------------------------
(***************************************************************************)
(* Rows that move take what they lead to with them; at the ends of what     *)
(* moves the wraps are broken.                                              *)
(***************************************************************************)
LEMMA SegmentsLooser ==
    ASSUME ModesOK, NEW s, Sound(s), NEW top, NEW bottom, NEW shift, ~FullWidth(s)
    PROVE  LET t == Shifted(s, top, bottom, shift)
           IN  /\ Looser(s, t)
               /\ \A r \in Rows : r \in top..bottom => t.rows[r].wrap = 0
<1> DEFINE t == Shifted(s, top, bottom, shift)
<1>1. t.rows = MovedSegments(s, top, bottom, shift)
  BY DEF Shifted, Sound, ScreenSound, Fields
<1> HIDE DEF t
<1>2. ASSUME NEW r \in Rows
      PROVE  /\ RowLooser(s.rows[r], t.rows[r])
             /\ r \in top..bottom => t.rows[r].wrap = 0
  <2>1. s.rows[r] \in RowOf(size.columns)
    BY RowsOfScreen
  <2>2. CASE r \notin top..bottom
    <3>1. t.rows[r] = s.rows[r]
      BY <1>1, <2>2 DEF MovedSegments
    <3> QED BY <2>2, <3>1 DEF RowLooser
  <2>3. CASE r \in top..bottom
    <3> DEFINE src == IF r + shift \in top..bottom THEN s.rows[r + shift].cells
                      ELSE EmptyCells(size.columns, Fill)
               cells == Segment(s.rows[r].cells, src, ActiveLeft(s), ActiveRight(s))
    <3>1. t.rows[r] = [s.rows[r] EXCEPT !.cells = cells, !.wrap = 0]
      BY <1>1, <2>3 DEF MovedSegments
    <3> HIDE DEF cells
    <3>2. /\ RowLooser(s.rows[r], [s.rows[r] EXCEPT !.cells = cells, !.wrap = 0])
          /\ [s.rows[r] EXCEPT !.cells = cells, !.wrap = 0].wrap = 0
      BY <2>1, RowLoosened, ZenonT(60)
    <3> QED BY <3>1, <3>2
  <2> QED BY <2>2, <2>3
<1>3. Looser(s, t)
  BY <1>2 DEF Looser
<1> QED BY <1>2, <1>3 DEF t

LEMMA MovedUpLeads ==
    ASSUME ModesOK, NEW s, Sound(s), NEW top \in Rows, NEW bottom \in Rows, top <= bottom,
           NEW n \in 1..bottom - top + 1, LeadsBut(s, bottom),
           top > 0 => s.rows[top - 1].wrap = 0,
           \/ s.rows[bottom].wrap = 0
           \/ n = 1 /\ s.rows[bottom].next = s.lines + bottom - top
           \/ ~FullWidth(s)
    PROVE  Leads(Shifted(s, top, bottom, n))
<1> DEFINE t == Shifted(s, top, bottom, n)
<1>0. /\ top \in Nat /\ bottom \in Nat /\ LastRow \in Nat /\ Rows = 0..LastRow
      /\ n \in Nat /\ s.lines \in Nat
  BY Places, SMTT(40)
<1>1. CASE ~FullWidth(s)
  <2>1. Looser(s, t) /\ \A r \in Rows : r \in top..bottom => t.rows[r].wrap = 0
    BY <1>1, SegmentsLooser
  <2> HIDE DEF t
  <2>2. LeadsBut(t, bottom)
    BY <2>1, LooserLeads
  <2>3. t.rows[bottom].wrap = 0
    BY <1>0, <2>1
  <2>4. Leads(t)
    BY <2>2, <2>3 DEF Leads, LeadsBut, Linked
  <2> QED BY <2>4 DEF t
<1>2. CASE FullWidth(s)
  <2>1. t.rows = MovedRows(s, top, bottom, n)
    BY <1>2 DEF Shifted, Sound, ScreenSound, Fields
  <2> HIDE DEF t
  <2>2. ASSUME NEW r \in Rows
        PROVE  /\ r \notin top..bottom => t.rows[r] = s.rows[r]
               /\ r \in top..bottom /\ r + n \in top..bottom => t.rows[r] = s.rows[r + n]
               /\ r \in top..bottom /\ r + n \notin top..bottom
                    => t.rows[r].wrap = 0 /\ t.rows[r].line = s.lines + r - top
    BY <2>1 DEF MovedRows, ErasedRow
  <2>3. ASSUME NEW r \in 0..LastRow - 1 PROVE Linked(t, r)
    <3>0. r \in Rows /\ r + 1 \in Rows /\ r \in Nat
      BY <1>0
    <3>1. CASE r \notin top..bottom /\ r + 1 \notin top..bottom
      <4>1. t.rows[r] = s.rows[r] /\ t.rows[r + 1] = s.rows[r + 1]
        BY <2>2, <3>0, <3>1
      <4>2. r # bottom
        BY <1>0, <3>1
      <4> QED BY <4>1, <4>2 DEF LeadsBut, Linked
    <3>2. CASE r \notin top..bottom /\ r + 1 \in top..bottom
      <4>1. r = top - 1 /\ top > 0
        BY <1>0, <3>0, <3>2
      <4>2. t.rows[r].wrap = 0
        BY <2>2, <3>0, <3>2, <4>1
      <4> QED BY <4>2 DEF Linked
    <3>3. CASE r \in top..bottom /\ r + n \in top..bottom /\ r + n # bottom
      <4>1. /\ r + 1 \in top..bottom /\ r + 1 + n \in top..bottom /\ r + n + 1 = r + 1 + n
            /\ r + n \in 0..LastRow - 1
        BY <1>0, <3>0, <3>3
      <4>2. t.rows[r] = s.rows[r + n] /\ t.rows[r + 1] = s.rows[r + n + 1]
        BY <2>2, <3>0, <3>3, <4>1
      <4>3. Linked(s, r + n)
        BY <3>3, <4>1 DEF LeadsBut
      <4> QED BY <4>2, <4>3 DEF Linked
    <3>4. CASE r \in top..bottom /\ r + n = bottom
      <4>0. r + n \in top..bottom
        BY <1>0, <3>4
      <4>1. t.rows[r] = s.rows[bottom]
        BY <2>2, <3>0, <3>4, <4>0
      <4>2. CASE s.rows[bottom].wrap = 0
        BY <4>1, <4>2 DEF Linked
      <4>3. CASE n = 1 /\ s.rows[bottom].next = s.lines + bottom - top
        <5>1. r + 1 = bottom /\ r + 1 \in top..bottom /\ r + 1 + n \notin top..bottom
          BY <1>0, <3>0, <3>4, <4>3
        <5>2. t.rows[r + 1].line = s.lines + (r + 1) - top
          BY <2>2, <3>0, <5>1
        <5>3. t.rows[r + 1].line = s.rows[bottom].next
          BY <4>3, <5>1, <5>2
        <5> QED BY <4>1, <5>3 DEF Linked
      <4> QED BY <1>2, <4>2, <4>3
    <3>5. CASE r \in top..bottom /\ r + n \notin top..bottom
      <4>1. t.rows[r].wrap = 0
        BY <2>2, <3>0, <3>5
      <4> QED BY <4>1 DEF Linked
    <3> QED BY <1>0, <3>0, <3>1, <3>2, <3>3, <3>4, <3>5
  <2>4. Leads(t)
    BY <2>3 DEF Leads
  <2> QED BY <2>4 DEF t
<1> QED BY <1>1, <1>2

LEMMA MovedDownLeads ==
    ASSUME ModesOK, NEW s, Sound(s), NEW top \in Rows, NEW bottom \in Rows, top <= bottom,
           NEW n \in 1..bottom - top + 1, Leads(s),
           top > 0 => s.rows[top - 1].wrap = 0
    PROVE  LeadsBut(Shifted(s, top, bottom, -n), bottom)
<1> DEFINE t == Shifted(s, top, bottom, -n)
<1>0. /\ top \in Nat /\ bottom \in Nat /\ LastRow \in Nat /\ Rows = 0..LastRow
      /\ n \in Nat /\ s.lines \in Nat
  BY Places
<1>1. CASE ~FullWidth(s)
  <2>1. Looser(s, t)
    BY <1>1, SegmentsLooser
  <2> HIDE DEF t
  <2>2. Leads(t)
    BY <2>1, LooserLeads
  <2>3. LeadsBut(t, bottom)
    BY <2>2 DEF Leads, LeadsBut
  <2> QED BY <2>3 DEF t
<1>2. CASE FullWidth(s)
  <2>1. t.rows = MovedRows(s, top, bottom, -n)
    BY <1>2 DEF Shifted, Sound, ScreenSound, Fields
  <2> HIDE DEF t
  <2>2. ASSUME NEW r \in Rows
        PROVE  /\ r \notin top..bottom => t.rows[r] = s.rows[r]
               /\ r \in top..bottom /\ r + (-n) \in top..bottom => t.rows[r] = s.rows[r + (-n)]
               /\ r \in top..bottom /\ r + (-n) \notin top..bottom => t.rows[r].wrap = 0
    BY <2>1 DEF MovedRows, ErasedRow
  <2>3. ASSUME NEW r \in 0..LastRow - 1, r # bottom PROVE Linked(t, r)
    <3>0. r \in Rows /\ r + 1 \in Rows /\ r \in Nat
      BY <1>0
    <3>1. CASE r \notin top..bottom /\ r + 1 \notin top..bottom
      <4>1. t.rows[r] = s.rows[r] /\ t.rows[r + 1] = s.rows[r + 1]
        BY <2>2, <3>0, <3>1
      <4> QED BY <4>1 DEF Leads, Linked
    <3>2. CASE r \notin top..bottom /\ r + 1 \in top..bottom
      <4>1. r = top - 1 /\ top > 0
        BY <1>0, <3>0, <3>2
      <4>2. t.rows[r].wrap = 0
        BY <2>2, <3>0, <3>2, <4>1
      <4> QED BY <4>2 DEF Linked
    <3>3. CASE r \in top..bottom /\ r + (-n) \in top..bottom
      <4> DEFINE x == r + (-n)
      <4>1. /\ r + 1 \in top..bottom /\ r + 1 + (-n) \in top..bottom
            /\ r + 1 + (-n) = x + 1 /\ x \in 0..LastRow - 1
        BY <1>0, <2>3, <3>0, <3>3
      <4>2. t.rows[r] = s.rows[x] /\ t.rows[r + 1] = s.rows[x + 1]
        BY <2>2, <3>0, <3>3, <4>1
      <4> HIDE DEF x
      <4>3. Linked(s, x)
        BY <4>1 DEF Leads
      <4> QED BY <4>2, <4>3 DEF Linked
    <3>4. CASE r \in top..bottom /\ r + (-n) \notin top..bottom
      <4>1. t.rows[r].wrap = 0
        BY <2>2, <3>0, <3>4
      <4> QED BY <4>1 DEF Linked
    <3> QED BY <3>1, <3>2, <3>3, <3>4
  <2>4. LeadsBut(t, bottom)
    BY <2>3 DEF LeadsBut
  <2> QED BY <2>4 DEF t
<1> QED BY <1>1, <1>2

\* Once the wrap at their end is broken, all rows lead where they did.
LEMMA BrokenLeads ==
    ASSUME ModesOK, NEW s, Sound(s), NEW bottom \in Rows, LeadsBut(s, bottom)
    PROVE  Leads(BreakSoftWrapBefore(s, bottom + 1))
<1> DEFINE t == BreakSoftWrapBefore(s, bottom + 1)
           x == bottom + 1
<1>1. bottom \in Nat /\ x \in 0..size.rows /\ x > 0 /\ x - 1 = bottom
  BY GridSize
<1>2. t = BreakSoftWrapBefore(s, x)
  OBVIOUS
<1> HIDE DEF x, t
<1>3. Looser(s, t) /\ t.rows[x - 1].wrap = 0
  BY <1>1, <1>2, BreakLooser
<1>4. LeadsBut(t, bottom)
  BY <1>3, LooserLeads
<1>5. Leads(t)
  BY <1>1, <1>3, <1>4 DEF Leads, LeadsBut, Linked
<1> QED BY <1>5 DEF t

\* What leaves the rows alone, and what changes the cells or the wrap of one.
LEMMA CursorKeepsRows ==
    ASSUME ModesOK, NEW s, Sound(s), NEW row, NEW col
    PROVE  /\ SetCursorPosition(s, row, col).rows = s.rows
           /\ SetCursorAddress(s, row, col).rows = s.rows
           /\ MoveCursorRelative(s, row, col).rows = s.rows
           /\ CarriageReturn(s).rows = s.rows
           /\ \A width : AfterCell(s, row, col, width).rows = s.rows
           /\ CursorSaved(s).rows = s.rows
           /\ CursorRestored(s).rows = s.rows
<1>1. \A x, y, z : [s EXCEPT !.row = x, !.col = y, !.pending = z].rows = s.rows
  BY OthersLooser
<1>2. \A x, y : SetCursorPosition(s, x, y).rows = s.rows
  BY <1>1 DEF SetCursorPosition
<1>3. SetCursorAddress(s, row, col).rows = s.rows /\ MoveCursorRelative(s, row, col).rows = s.rows
  BY <1>2 DEF SetCursorAddress, MoveCursorRelative
<1>4. CarriageReturn(s).rows = s.rows
  BY OthersLooser DEF CarriageReturn
<1>5. \A width : AfterCell(s, row, col, width).rows = s.rows
  BY <1>1 DEF AfterCell
<1>6. CursorSaved(s).rows = s.rows
  BY OthersLooser DEF CursorSaved
<1>7. CursorRestored(s).rows = s.rows
  BY DEF CursorRestored, Sound, ScreenSound, Fields
<1> QED BY <1>2, <1>3, <1>4, <1>5, <1>6, <1>7

LEMMA CellsLooser ==
    ASSUME ModesOK, NEW s, Sound(s), NEW row \in Rows, NEW cells
    PROVE  /\ Looser(s, [s EXCEPT !.rows[row].cells = cells])
           /\ Looser(s, [s EXCEPT !.rows[row].wrap = 0])
           /\ Looser(s, [s EXCEPT !.rows[row].cells = cells, !.rows[row].wrap = 0])
           /\ Looser(s, [s EXCEPT !.rows[row].cells = cells,
                                  !.rows[row].wrap = s.rows[row].wrap])
<1>1. s.rows[row] \in RowOf(size.columns) /\ DOMAIN s.rows = Rows /\ DOMAIN s = Fields
  BY RowsOfScreen DEF Sound, ScreenSound
<1> DEFINE a == [s.rows[row] EXCEPT !.cells = cells]
           b == [s.rows[row] EXCEPT !.wrap = 0]
           c == [s.rows[row] EXCEPT !.cells = cells, !.wrap = 0]
           d == [s.rows[row] EXCEPT !.cells = cells, !.wrap = s.rows[row].wrap]
<1>2. RowLooser(s.rows[row], a) /\ RowLooser(s.rows[row], b) /\ RowLooser(s.rows[row], c)
      /\ RowLooser(s.rows[row], d)
  BY <1>1, RowLoosened
<1>3. [s EXCEPT !.rows[row].cells = cells].rows = [s.rows EXCEPT ![row] = a]
  BY <1>1 DEF Fields
<1>4. [s EXCEPT !.rows[row].wrap = 0].rows = [s.rows EXCEPT ![row] = b]
  BY <1>1 DEF Fields
<1>5. [s EXCEPT !.rows[row].cells = cells, !.rows[row].wrap = 0].rows
        = [s.rows EXCEPT ![row] = c]
  BY <1>1 DEF Fields, RowOf
<1>6. [s EXCEPT !.rows[row].cells = cells, !.rows[row].wrap = s.rows[row].wrap].rows
        = [s.rows EXCEPT ![row] = d]
  BY <1>1 DEF Fields, RowOf
<1> HIDE DEF a, b, c, d
<1>7. ASSUME NEW y, RowLooser(s.rows[row], y), NEW t, t.rows = [s.rows EXCEPT ![row] = y]
      PROVE  Looser(s, t)
  BY <1>7, OneRowLooser
<1>8. Looser(s, [s EXCEPT !.rows[row].cells = cells])
  BY <1>2, <1>3, <1>7
<1>9. Looser(s, [s EXCEPT !.rows[row].wrap = 0])
  BY <1>2, <1>4, <1>7
<1>10. Looser(s, [s EXCEPT !.rows[row].cells = cells, !.rows[row].wrap = 0])
  BY <1>2, <1>5, <1>7
<1>11. Looser(s, [s EXCEPT !.rows[row].cells = cells, !.rows[row].wrap = s.rows[row].wrap])
  BY <1>2, <1>6, <1>7
<1> QED BY <1>8, <1>9, <1>10, <1>11

\* Rows that are rewritten, or not, each by itself.
LEMMA SomeLooser ==
    ASSUME ModesOK, NEW s, Sound(s), NEW rewritten, NEW cells, NEW wraps,
           \A r \in Rows : wraps[r] = 0 \/ wraps[r] = s.rows[r].wrap
    PROVE  Looser(s, Rewritten(s, rewritten, cells, wraps))
<1> DEFINE t == Rewritten(s, rewritten, cells, wraps)
<1>1. t.rows = [r \in Rows |->
          IF r \in rewritten THEN [s.rows[r] EXCEPT !.cells = cells[r], !.wrap = wraps[r]]
          ELSE s.rows[r]]
  BY DEF Rewritten, Sound, ScreenSound, Fields
<1> HIDE DEF t
<1>2. ASSUME NEW r \in Rows PROVE RowLooser(s.rows[r], t.rows[r])
  <2>1. s.rows[r] \in RowOf(size.columns)
    BY RowsOfScreen
  <2> DEFINE x == s.rows[r]
             y == [x EXCEPT !.cells = cells[r], !.wrap = wraps[r]]
  <2>2. RowLooser(x, y) /\ RowLooser(x, x)
    BY <2>1, RowLoosened
  <2>3. t.rows[r] = IF r \in rewritten THEN y ELSE x
    BY <1>1
  <2> HIDE DEF x, y
  <2>4. RowLooser(x, t.rows[r])
    BY <2>2, <2>3
  <2> QED BY <2>4 DEF x
<1>3. Looser(s, t)
  BY <1>2, RowsLooser
<1> QED BY <1>3 DEF t

-------------------------------------------------------------------------------
(***************************************************************************)
(* Scrolling and printing.                                                 *)
(***************************************************************************)
LEMMA ScrollUpLeads ==
    ASSUME ModesOK, NEW s, Sound(s), NEW top \in Rows, NEW bottom \in Rows, top <= bottom,
           NEW archive \in BOOLEAN, NEW count \in Int, LeadsBut(s, bottom),
           \/ s.rows[bottom].wrap = 0
           \/ count = 1 /\ s.rows[bottom].next = s.lines + bottom - top
           \/ ~FullWidth(s)
    PROVE  Leads(ScrollUpRegion(s, top, bottom, archive, count))
<1> DEFINE n       == Bounded(count, 1, bottom - top + 1)
           broken  == BreakSoftWrapBefore(s, top)
           leaving == [i \in 1..n |-> broken.rows[top + i - 1]]
           moved   == Shifted(broken, top, bottom, n)
           kept    == Archived(moved.history, leaving)
<1>1. top \in Nat /\ bottom \in Nat /\ top \in 0..size.rows /\ bottom + 1 \in 0..size.rows
  BY GridSize
<1>2. n \in 1..bottom - top + 1 /\ (count = 1 => n = 1)
  BY <1>1 DEF Bounded
<1>3. /\ Sound(broken) /\ Looser(s, broken) /\ broken.lines = s.lines
      /\ broken.left = s.left /\ broken.right = s.right
      /\ top > 0 => broken.rows[top - 1].wrap = 0
  BY <1>1, BreakSound, BreakLooser
<1>4. ScrollUpRegion(s, top, bottom, archive, count) =
        IF FullWidth(s)
        THEN IF archive THEN [moved EXCEPT !.history = kept] ELSE moved
        ELSE BreakSoftWrapBefore(moved, bottom + 1)
  BY DEF ScrollUpRegion
<1> HIDE DEF n, broken
<1>5. LeadsBut(broken, bottom) /\ RowLooser(s.rows[bottom], broken.rows[bottom])
  BY <1>3, LooserLeads DEF Looser
<1>6. FullWidth(broken) <=> FullWidth(s)
  BY <1>3 DEF FullWidth, ActiveLeft, ActiveRight
<1>7. \/ broken.rows[bottom].wrap = 0
      \/ n = 1 /\ broken.rows[bottom].next = broken.lines + bottom - top
      \/ ~FullWidth(broken)
  BY <1>2, <1>3, <1>5, <1>6 DEF RowLooser
<1>8. Leads(moved)
  BY <1>2, <1>3, <1>5, <1>7, MovedUpLeads
<1>9. Sound(moved)
  BY <1>2, <1>3, ShiftedSound
<1> HIDE DEF moved, kept
<1>10. Looser(moved, [moved EXCEPT !.history = kept])
       /\ Looser(moved, BreakSoftWrapBefore(moved, bottom + 1))
  <2>1. [moved EXCEPT !.history = kept].rows = moved.rows
    BY <1>9, OthersLooser
  <2> QED BY <1>1, <1>9, <2>1, BreakLooser, LooserToo
<1>11. Leads([moved EXCEPT !.history = kept]) /\ Leads(BreakSoftWrapBefore(moved, bottom + 1))
  BY <1>8, <1>10, LooserLeads
<1> QED BY <1>4, <1>8, <1>11

LEMMA ScrollDownLeads ==
    ASSUME ModesOK, NEW s, Sound(s), NEW top \in Rows, NEW bottom \in Rows, top <= bottom,
           NEW count \in Int, Leads(s)
    PROVE  Leads(ScrollDownRegion(s, top, bottom, count))
<1> DEFINE n      == Bounded(count, 1, bottom - top + 1)
           broken == BreakSoftWrapBefore(s, top)
           moved  == Shifted(broken, top, bottom, -n)
           v      == BreakSoftWrapBefore(moved, bottom + 1)
<1>1. top \in Nat /\ bottom \in Nat /\ top \in 0..size.rows /\ bottom + 1 \in 0..size.rows
  BY GridSize
<1>2. n \in 1..bottom - top + 1
  BY <1>1 DEF Bounded
<1>3. Sound(broken) /\ Looser(s, broken) /\ (top > 0 => broken.rows[top - 1].wrap = 0)
  BY <1>1, BreakSound, BreakLooser
<1>4. ScrollDownRegion(s, top, bottom, count) = v
  BY DEF ScrollDownRegion
<1> HIDE DEF n, broken
<1>5. Leads(broken)
  BY <1>3, LooserLeads
<1>6. LeadsBut(moved, bottom)
  BY <1>2, <1>3, <1>5, MovedDownLeads
<1>7. -n \in Int
  BY <1>2
<1>8. Sound(moved)
  BY <1>3, <1>7, ShiftedSound
<1> HIDE DEF moved
<1>9. Leads(v)
  BY <1>1, <1>6, <1>8, BrokenLeads
<1> QED BY <1>4, <1>9

LEMMA AdvanceLeads ==
    ASSUME ModesOK, NEW s, Sound(s), LeadsBut(s, s.row),
           s.rows[s.row].wrap = 0 \/ s.rows[s.row].next = NextLine(s)
    PROVE  Leads(AdvanceRow(s))
<1> DEFINE t == [s EXCEPT !.pending = FALSE]
<1>1. Sound(t)
  BY CursorMoves, Places
<1>2. /\ t.rows = s.rows /\ t.row = s.row /\ t.col = s.col /\ t.lines = s.lines
      /\ t.top = s.top /\ t.bottom = s.bottom /\ t.left = s.left /\ t.right = s.right
  BY DEF Sound, ScreenSound, Fields
<1>3. AdvanceRow(s) =
        IF t.row = t.bottom /\ InColumns(t) THEN ScrollActiveRegionUp(t)
        ELSE IF t.row < LastRow THEN [t EXCEPT !.row = t.row + 1] ELSE t
  BY DEF AdvanceRow
<1> HIDE DEF t
<1>4. (InColumns(t) <=> InColumns(s)) /\ (FullWidth(t) <=> FullWidth(s))
  BY <1>2 DEF InColumns, FullWidth, ActiveLeft, ActiveRight
<1>5. LeadsBut(t, t.row)
  BY <1>2 DEF LeadsBut, Linked
<1>6. /\ t.row \in Rows /\ t.top \in Rows /\ t.bottom \in Rows /\ t.top <= t.bottom
      /\ LastRow \in Nat /\ Rows = 0..LastRow
  BY <1>1, Places
<1>7. CASE t.row = t.bottom /\ InColumns(t)
  <2> DEFINE archive == active = "primary" /\ t.top = 0 /\ FullWidth(t)
  <2>1. archive \in BOOLEAN /\ 1 \in Int
    OBVIOUS
  <2>2. ScrollActiveRegionUp(t) = ScrollUpRegion(t, t.top, t.bottom, archive, 1)
    BY DEF ScrollActiveRegionUp
  <2> HIDE DEF archive
  <2>3. \/ t.rows[t.bottom].wrap = 0
        \/ 1 = 1 /\ t.rows[t.bottom].next = t.lines + t.bottom - t.top
        \/ ~FullWidth(t)
    BY <1>2, <1>4, <1>7 DEF NextLine
  <2>4. LeadsBut(t, t.bottom)
    BY <1>5, <1>7
  <2>5. Leads(ScrollUpRegion(t, t.top, t.bottom, archive, 1))
    BY <1>1, <1>6, <2>1, <2>3, <2>4, ScrollUpLeads
  <2> QED BY <1>3, <1>7, <2>2, <2>5
<1>8. CASE ~(t.row = t.bottom /\ InColumns(t)) /\ t.row < LastRow
  <2>1. t.rows[t.row].wrap = 0 \/ t.rows[t.row].next = t.rows[t.row + 1].line
    BY <1>2, <1>4, <1>8 DEF NextLine
  <2>2. Leads(t)
    BY <1>5, <2>1 DEF Leads, LeadsBut, Linked
  <2>3. [t EXCEPT !.row = t.row + 1].rows = t.rows
    BY <1>1, OthersLooser
  <2>4. Leads([t EXCEPT !.row = t.row + 1])
    BY <2>2, <2>3 DEF Leads, Linked
  <2> QED BY <1>3, <1>8, <2>4
<1>9. CASE ~(t.row = t.bottom /\ InColumns(t)) /\ ~(t.row < LastRow)
  <2>1. \A r \in 0..LastRow - 1 : r # t.row
    BY <1>6, <1>9
  <2>2. Leads(t)
    BY <1>5, <2>1 DEF Leads, LeadsBut
  <2> QED BY <1>3, <1>9, <2>2
<1> QED BY <1>7, <1>8, <1>9

LEMMA LineFedLeads ==
    ASSUME ModesOK, NEW s, Sound(s), Leads(s)
    PROVE  Leads(LineFed(s))
<1> DEFINE t == [s EXCEPT !.rows[s.row].wrap = 0]
<1>1. s.row \in Rows /\ DOMAIN s.rows = Rows
  BY Places, RowsOfScreen
<1>2. Sound(t) /\ Looser(s, t)
  BY <1>1, WrapChanges, CellsLooser
<1>3. t.row = s.row /\ t.rows[s.row].wrap = 0
  BY <1>1, RowsOfScreen DEF Sound, ScreenSound, Fields, RowOf
<1>4. LineFed(s) = AdvanceRow(t)
  BY DEF LineFed
<1> HIDE DEF t
<1>5. Leads(t)
  BY <1>2, LooserLeads
<1>6. LeadsBut(t, t.row)
  BY <1>5 DEF Leads, LeadsBut
<1> QED BY <1>2, <1>3, <1>4, <1>6, AdvanceLeads

\* A row marked as wrapped names the row the cursor goes to.
LEMMA WrapLeads ==
    ASSUME ModesOK, NEW s, Sound(s), Leads(s)
    PROVE  Leads(WrapLine(s))
<1> DEFINE t == Marked(s)
           hard    == CursorLeft(s) # 0 \/ (InColumns(s) /\ ~FullWidth(s))
           columns == IF hard THEN 0 ELSE IF s.pending THEN CursorRight(s) + 1 ELSE s.col
           marked  == [s.rows[s.row] EXCEPT !.wrap = columns, !.next = NextLine(s)]
<1>1. Sound(t) /\ WrapLine(s) = CarriageReturn(AdvanceRow(t))
  BY MarkedSound
<1>2. /\ s.row \in Rows /\ DOMAIN s.rows = Rows /\ s.rows[s.row] \in RowOf(size.columns)
      /\ Rows = 0..LastRow /\ LastRow \in Nat
  BY Places, RowsOfScreen
<1>3. /\ t.rows = [s.rows EXCEPT ![s.row] = marked]
      /\ t.row = s.row /\ t.col = s.col /\ t.lines = s.lines
      /\ t.top = s.top /\ t.bottom = s.bottom /\ t.left = s.left /\ t.right = s.right
  BY DEF Marked, Sound, ScreenSound, Fields
<1>4. marked.next = NextLine(s) /\ marked.line = s.rows[s.row].line
  BY <1>2 DEF RowOf
<1> HIDE DEF t, marked
<1>5. ASSUME NEW r \in Rows
      PROVE  /\ t.rows[r].line = s.rows[r].line
             /\ r # s.row => t.rows[r] = s.rows[r]
  BY <1>2, <1>3, <1>4
<1>6. ASSUME NEW r \in 0..LastRow - 1, r # t.row PROVE Linked(t, r)
  <2>1. r \in Rows /\ r + 1 \in Rows
    BY <1>2
  <2>2. t.rows[r] = s.rows[r] /\ t.rows[r + 1].line = s.rows[r + 1].line
    BY <1>3, <1>5, <1>6, <2>1
  <2> QED BY <2>2 DEF Leads, Linked
<1>7. LeadsBut(t, t.row)
  BY <1>6 DEF LeadsBut
<1>8. t.rows[t.row].next = NextLine(t)
  <2>1. (InColumns(t) <=> InColumns(s)) /\ (FullWidth(t) <=> FullWidth(s))
    BY <1>3 DEF InColumns, FullWidth, ActiveLeft, ActiveRight
  <2>2. s.row < LastRow => t.rows[s.row + 1].line = s.rows[s.row + 1].line
    <3>1. s.row < LastRow => s.row + 1 \in Rows
      BY <1>2
    <3> QED BY <1>5, <3>1
  <2>3. NextLine(t) = NextLine(s)
    BY <1>3, <2>1, <2>2 DEF NextLine
  <2> QED BY <1>2, <1>3, <1>4, <2>3
<1>9. Leads(AdvanceRow(t))
  BY <1>1, <1>7, <1>8, AdvanceLeads
<1>10. Sound(AdvanceRow(t))
  BY <1>1, AdvanceSound
<1> DEFINE u == AdvanceRow(t)
<1> HIDE DEF u
<1>11. CarriageReturn(u).rows = u.rows
  BY <1>10, CursorKeepsRows DEF u
<1>12. Leads(CarriageReturn(u))
  BY <1>9, <1>11 DEF Leads, Linked, u
<1> QED BY <1>1, <1>12 DEF u

LEMMA PutAtLooser ==
    ASSUME ModesOK, NEW s, Sound(s), NEW col \in Columns, NEW g \in Glyphs,
           NEW width \in 1..2, NEW natural \in 1..2, width = 2 => col < LastColumn
    PROVE  Looser(s, PutAt(s, col, g, width, natural))
<1> DEFINE t == Installed(s, s.row, col, g, width, natural)
           cells == InstallSpan(s.rows[s.row].cells, col, Base(g, width, natural))
<1>1. s.row \in Rows
  BY Places
<1>2. Sound(t)
  BY <1>1, InstalledSound
<1>3. t = [s EXCEPT !.rows[s.row].cells = cells]
  BY DEF Installed
<1>4. PutAt(s, col, g, width, natural) = AfterCell(t, s.row, col, width)
  BY DEF PutAt
<1> HIDE DEF t, cells
<1>5. Looser(s, t)
  BY <1>1, <1>3, CellsLooser
<1>6. AfterCell(t, s.row, col, width).rows = t.rows
  <2>1. \A x, y, z : [t EXCEPT !.row = x, !.col = y, !.pending = z].rows = t.rows
    BY <1>2, OthersLooser
  <2> QED BY <2>1 DEF AfterCell
<1>7. Looser(t, AfterCell(t, s.row, col, width))
  BY <1>6, LooserToo
<1> QED BY <1>4, <1>5, <1>7, LooserToo

LEMMA PutHereLeads ==
    ASSUME ModesOK, NEW s, Sound(s), Leads(s), NEW g \in Glyphs,
           NEW width \in 1..2, NEW natural \in 1..2, width = 2 => s.col < LastColumn
    PROVE  Leads(PutHere(s, g, width, natural))
<1>1. s.col \in Columns
  BY Places
<1>2. Looser(s, PutAt(s, s.col, g, width, natural))
  BY <1>1, PutAtLooser
<1> QED BY <1>2, LooserLeads DEF PutHere

LEMMA PutFromLeads ==
    ASSUME ModesOK, NEW s, Sound(s), Leads(s), NEW g \in Glyphs,
           NEW width \in 1..2, NEW natural \in 1..2, width = 2 => LastColumn > 0
    PROVE  Leads(PutFrom(s, g, width, natural))
<1>1. ASSUME width <= CursorRight(s) + 1 - s.col
      PROVE  Leads(PutHere(s, g, width, natural))
  <2>1. width = 2 => s.col < LastColumn
    BY <1>1, Places
  <2> QED BY <2>1, PutHereLeads
<1>2. Leads(PutHere(WrapLine(s), g, width, natural))
  <2> DEFINE t == WrapLine(s)
  <2>1. Sound(t) /\ (LastColumn = 0 \/ t.col < LastColumn) /\ Leads(t)
    BY WrapSound, WrapLeads
  <2> HIDE DEF t
  <2>2. width = 2 => t.col < LastColumn
    BY <2>1, Places
  <2>3. Leads(PutHere(t, g, width, natural))
    BY <2>1, <2>2, PutHereLeads
  <2> QED BY <2>3 DEF t
<1> QED BY <1>1, <1>2 DEF PutFrom

LEMMA PutLeads ==
    ASSUME ModesOK, NEW s, Sound(s), Leads(s), NEW g \in Glyphs, NEW natural \in 1..2
    PROVE  Leads(Put(s, g, natural))
<1> DEFINE t == IF autowrap /\ s.pending THEN WrapLine(s) ELSE s
           width == IF natural > ActiveRight(s) - ActiveLeft(s) + 1 THEN 1 ELSE natural
<1>1. Sound(t) /\ Leads(t)
  BY WrapSound, WrapLeads
<1>2. width \in 1..2 /\ (width = 2 => LastColumn > 0)
  BY Places
<1>3. Put(s, g, natural) = PutFrom(t, g, width, natural)
  BY DEF Put
<1> HIDE DEF t, width
<1> QED BY <1>1, <1>2, <1>3, PutFromLeads

LEMMA CombinedLeads ==
    ASSUME ModesOK, NEW s, Sound(s), Leads(s), NEW mark \in Glyphs, NEW natural \in 1..2
    PROVE  Leads(Combined(s, mark, natural))
<1> DEFINE cells == s.rows[s.row].cells
           here  == \/ s.pending
                    \/ ~autowrap /\ s.col = CursorRight(s) /\ cells[s.col].kind # "blank"
           at    == IF here THEN s.col ELSE s.col - 1
           col   == BaseColumn(cells, at)
           width == IF natural > size.columns THEN 1 ELSE natural
           room  == CursorRight(s) + 1 - col
           shown == IF width > room THEN 1 ELSE width
           g     == IF cells[col].glyph = Space THEN mark ELSE cells[col].glyph
           clear == ClearSpans(cells, col, col, Blank)
           left  == [s EXCEPT !.rows[s.row].cells = clear, !.col = col, !.pending = FALSE]
           gone  == WrapLine(left)
           none  == \/ ~here /\ s.col = CursorLeft(s)
                    \/ col < CursorLeft(s)
                    \/ cells[col].kind = "blank"
<1>1. Combined(s, mark, natural) =
        IF none THEN s
        ELSE IF width > room /\ autowrap THEN PutHere(gone, g, width, natural)
        ELSE PutAt(s, col, g, shown, natural)
  BY DEF Combined
<1>2. s.row \in Rows /\ cells \in Cells(size.columns) /\ Whole(cells)
  BY Places, RowsOfScreen
<1>3. size.columns \in Nat /\ size.columns = LastColumn + 1 /\ LastColumn \in Nat
      /\ Columns = 0..LastColumn
  BY GridSize
<1>4. s.col \in Columns /\ CursorLeft(s) \in Columns /\ CursorLeft(s) <= s.col
      /\ CursorRight(s) \in Columns /\ s.col <= CursorRight(s)
  BY Places
<1>5. width \in 1..2 /\ (width = 2 => LastColumn > 0)
  BY <1>3
<1> HIDE DEF cells, here, width
<1> SUFFICES ASSUME ~none PROVE Leads(Combined(s, mark, natural))
  BY <1>1
<1>6. at \in 0..size.columns - 1 /\ at <= s.col
  BY <1>3, <1>4
<1> HIDE DEF at
<1>7. col \in 0..at /\ col \in 0..size.columns - 1 /\ col \in Columns
  BY <1>2, <1>3, <1>6, BaseInRow
<1> HIDE DEF col
<1>8. g \in Glyphs
  BY <1>2, <1>3, <1>7, RowDomain, CellContents
<1> HIDE DEF g
<1>9. Leads(PutHere(gone, g, width, natural))
  <2>1. clear \in Cells(size.columns) /\ Whole(clear)
    <3>1. col \in Nat /\ col \in Int /\ col <= size.columns - 1
      BY <1>7
    <3> QED BY <1>2, <1>3, <3>1, ClearedSpans, CellKinds
  <2> DEFINE t == [s EXCEPT !.rows[s.row].cells = clear]
  <2>2. left = [t EXCEPT !.col = col, !.pending = FALSE]
    OBVIOUS
  <2> HIDE DEF clear
  <2>3. Sound(t) /\ Looser(s, t)
    BY <1>2, <2>1, CellsChange, CellsLooser
  <2> HIDE DEF t, left
  <2>4. Sound(left)
    BY <1>2, <1>7, <2>2, <2>3, CursorMoves
  <2>5. left.rows = t.rows
    BY <2>2, <2>3, OthersLooser
  <2>6. Leads(left)
    BY <2>3, <2>5, LooserToo, LooserLeads
  <2>7. Sound(gone) /\ (LastColumn = 0 \/ gone.col < LastColumn) /\ Leads(gone)
    BY <2>4, <2>6, WrapSound, WrapLeads
  <2> HIDE DEF gone
  <2>8. width = 2 => gone.col < LastColumn
    BY <1>3, <1>5, <2>7
  <2> QED BY <1>5, <1>8, <2>7, <2>8, PutHereLeads
<1>10. Leads(PutAt(s, col, g, shown, natural))
  <2>1. shown \in 1..2 /\ (shown = 2 => col < LastColumn)
    BY <1>3, <1>4, <1>5, <1>6, <1>7
  <2> HIDE DEF shown
  <2>2. Looser(s, PutAt(s, col, g, shown, natural))
    BY <1>7, <1>8, <2>1, PutAtLooser
  <2> QED BY <2>2, LooserLeads
<1> QED BY <1>1, <1>9, <1>10

-------------------------------------------------------------------------------
(***************************************************************************)
(* Erasing, editing and rectangles only loosen; lines and indexing move.   *)
(***************************************************************************)
LEMMA EraseRangeLooser ==
    ASSUME ModesOK, NEW s, Sound(s), NEW row \in Rows, NEW first, NEW last
    PROVE  Looser(s, EraseRowRange(s, row, first, last))
<1> DEFINE to == Bounded(last, 0, LastColumn)
           cells == ClearSpans(s.rows[row].cells, first, to, Fill)
<1>1. CASE to = LastColumn
  <2>1. EraseRowRange(s, row, first, last) =
          [s EXCEPT !.rows[row].cells = cells, !.rows[row].wrap = 0]
    BY <1>1, RowsOfScreen DEF EraseRowRange, Sound, ScreenSound, Fields, RowOf
  <2> HIDE DEF cells
  <2>2. Looser(s, [s EXCEPT !.rows[row].cells = cells, !.rows[row].wrap = 0])
    BY CellsLooser
  <2> QED BY <2>1, <2>2
<1>2. CASE to # LastColumn
  <2>1. EraseRowRange(s, row, first, last) =
          [s EXCEPT !.rows[row].cells = cells, !.rows[row].wrap = s.rows[row].wrap]
    BY <1>2, RowsOfScreen DEF EraseRowRange, Sound, ScreenSound, Fields, RowOf
  <2> HIDE DEF cells
  <2>2. Looser(s, [s EXCEPT !.rows[row].cells = cells, !.rows[row].wrap = s.rows[row].wrap])
    BY CellsLooser
  <2> QED BY <2>1, <2>2
<1> QED BY <1>1, <1>2

LEMMA ErasedRowsLooser ==
    ASSUME ModesOK, NEW s, Sound(s), NEW erased
    PROVE  Looser(s, ErasedRows(s, erased))
<1> DEFINE cells == [r \in Rows |-> EmptyCells(size.columns, Fill)]
           wraps == [r \in Rows |-> 0]
<1>1. ErasedRows(s, erased) = Rewritten(s, erased, cells, wraps)
  BY DEF ErasedRows, Rewritten
<1>2. \A r \in Rows : wraps[r] = 0 \/ wraps[r] = s.rows[r].wrap
  OBVIOUS
<1> HIDE DEF cells, wraps
<1> QED BY <1>1, <1>2, SomeLooser

LEMMA ErasingLooser ==
    ASSUME ModesOK, NEW s, Sound(s), NEW mode \in 0..2, NEW count \in Int
    PROVE  /\ Looser(s, EraseInLineOf(s, mode))
           /\ Looser(s, EraseInDisplayOf(s, mode))
           /\ Looser(s, EraseCharactersOf(s, count))
<1> DEFINE t == [s EXCEPT !.pending = FALSE]
           last == s.col + Bounded(count, 1, size.columns - s.col) - 1
<1>0. mode = 0 \/ mode = 1 \/ mode = 2
  OBVIOUS
<1>1. Sound(t) /\ t.rows = s.rows
  BY CursorMoves, Places, OthersLooser
<1>2. EraseInDisplayOf(s, mode) =
        CASE mode = 0 -> ErasedRows(EraseRowRange(t, t.row, t.col, LastColumn),
                                    t.row + 1..LastRow)
          [] mode = 1 -> ErasedRows(EraseRowRange(t, t.row, 0, t.col), 0..t.row - 1)
          [] mode = 2 -> ErasedRows(t, Rows)
          [] mode = 3 -> t
  BY DEF EraseInDisplayOf
<1>3. EraseCharactersOf(s, count) = EraseRowRange(t, s.row, s.col, last)
  BY DEF EraseCharactersOf
<1> HIDE DEF t, last
<1>4. s.row \in Rows /\ t.row \in Rows /\ t.col \in Nat /\ LastColumn \in Nat
  BY <1>1, Places
<1>5. Looser(s, t)
  BY <1>1, LooserToo
<1>6. Looser(s, EraseInLineOf(s, mode))
  <2>1. /\ Looser(s, EraseRowRange(s, s.row, s.col, LastColumn))
        /\ Looser(s, EraseRowRange(s, s.row, 0, s.col))
        /\ Looser(s, EraseRowRange(s, s.row, 0, LastColumn))
    BY <1>4, EraseRangeLooser
  <2> QED BY <1>0, <2>1 DEF EraseInLineOf
<1>7. Looser(s, EraseCharactersOf(s, count))
  <2> DEFINE u == EraseRowRange(t, s.row, s.col, last)
  <2>1. Looser(t, u)
    BY <1>1, <1>4, EraseRangeLooser
  <2> HIDE DEF u
  <2>2. Looser(s, u)
    BY <1>5, <2>1, LooserToo
  <2> QED BY <1>3, <2>2 DEF u
<1>8. Looser(s, EraseInDisplayOf(s, mode))
  <2>1. ASSUME NEW u, Sound(u), Looser(t, u), NEW erased
        PROVE  Looser(s, ErasedRows(u, erased))
    <3> DEFINE v == ErasedRows(u, erased)
    <3>1. Looser(u, v)
      BY <2>1, ErasedRowsLooser
    <3> HIDE DEF v
    <3>2. Looser(t, v)
      BY <2>1, <3>1, LooserToo
    <3>3. Looser(s, v)
      BY <1>5, <3>2, LooserToo
    <3> QED BY <3>3 DEF v
  <2>2. /\ Sound(EraseRowRange(t, t.row, t.col, LastColumn))
        /\ Sound(EraseRowRange(t, t.row, 0, t.col))
    BY <1>1, <1>4, EraseRangeSound
  <2>3. /\ Looser(t, EraseRowRange(t, t.row, t.col, LastColumn))
        /\ Looser(t, EraseRowRange(t, t.row, 0, t.col)) /\ Looser(t, t)
    BY <1>1, <1>4, EraseRangeLooser, LooserToo
  <2>4. /\ Looser(s, ErasedRows(EraseRowRange(t, t.row, t.col, LastColumn), t.row + 1..LastRow))
        /\ Looser(s, ErasedRows(EraseRowRange(t, t.row, 0, t.col), 0..t.row - 1))
        /\ Looser(s, ErasedRows(t, Rows))
    BY <1>1, <2>1, <2>2, <2>3
  <2> QED BY <1>0, <1>2, <2>4
<1> QED BY <1>6, <1>7, <1>8

LEMMA EditingLooser ==
    ASSUME ModesOK, NEW s, Sound(s), NEW count \in Int
    PROVE  Looser(s, InsertCellsAt(s, count)) /\ Looser(s, DeleteCellsAt(s, count))
<1>1. s.row \in Rows /\ DOMAIN s = Fields
  BY Places DEF Sound, ScreenSound
<1>2. ASSUME NEW cells
      PROVE  Looser(s, [s EXCEPT !.rows[s.row].cells = cells, !.pending = FALSE])
  <2> DEFINE t == [s EXCEPT !.rows[s.row].cells = cells]
             u == [s EXCEPT !.rows[s.row].cells = cells, !.pending = FALSE]
  <2>1. Looser(s, t)
    BY <1>1, CellsLooser
  <2>2. u.rows = t.rows
    BY <1>1 DEF Fields
  <2> HIDE DEF t, u
  <2>3. Looser(s, u)
    BY <2>1, <2>2, LooserToo
  <2> QED BY <2>3 DEF u
<1>3. Looser(s, [s EXCEPT !.pending = FALSE]) /\ Looser(s, s)
  <2>1. [s EXCEPT !.pending = FALSE].rows = s.rows
    BY OthersLooser
  <2> QED BY <2>1, LooserToo
<1>4. Looser(s, InsertCellsAt(s, count))
  <2> DEFINE cells == InsertInRow(s.rows[s.row].cells, s.col, EditCount(s, count),
                                  CursorRight(s) + 1, Fill)
  <2>1. InsertCellsAt(s, count) =
          IF InColumns(s) THEN [s EXCEPT !.rows[s.row].cells = cells, !.pending = FALSE]
          ELSE [s EXCEPT !.pending = FALSE]
    BY DEF InsertCellsAt
  <2> HIDE DEF cells
  <2> QED BY <1>2, <1>3, <2>1
<1>5. Looser(s, DeleteCellsAt(s, count))
  <2> DEFINE cells == DeleteInRow(s.rows[s.row].cells, s.col, EditCount(s, count),
                                  CursorRight(s) + 1, Fill)
  <2>1. DeleteCellsAt(s, count) =
          IF InColumns(s) THEN [s EXCEPT !.rows[s.row].cells = cells, !.pending = FALSE] ELSE s
    BY DEF DeleteCellsAt
  <2> HIDE DEF cells
  <2> QED BY <1>2, <1>3, <2>1
<1> QED BY <1>4, <1>5

LEMMA ColumnsLooser ==
    ASSUME ModesOK, NEW s, Sound(s), NEW first \in Int, NEW count \in Int, NEW insert \in BOOLEAN
    PROVE  Looser(s, ShiftColumns(s, first, count, insert))
<1>0. CASE ~(s.row \in s.top..s.bottom /\ first \in ActiveLeft(s)..ActiveRight(s))
  BY <1>0, LooserToo DEF ShiftColumns
<1> SUFFICES ASSUME s.row \in s.top..s.bottom, first \in ActiveLeft(s)..ActiveRight(s)
             PROVE  Looser(s, ShiftColumns(s, first, count, insert))
  BY <1>0
<1> DEFINE end == ActiveRight(s) + 1
           n   == Bounded(count, 1, end - first)
           cells == [r \in Rows |-> ShiftInRow(s.rows[r].cells, first, n, end, insert)]
           wraps == [r \in Rows |-> 0]
           inside == s.top..s.bottom
           p   == [s EXCEPT !.pending = FALSE]
           t   == Rewritten(p, inside, cells, wraps)
           u   == BreakSoftWrapBefore(t, s.top)
           v   == BreakSoftWrapBefore(u, s.bottom + 1)
<1>1. ShiftColumns(s, first, count, insert) = v
  BY DEF ShiftColumns, Rewritten, Sound, ScreenSound, Fields
<1>2. /\ size.columns \in Nat /\ size.columns = LastColumn + 1 /\ LastColumn \in Nat
      /\ Columns = 0..LastColumn
  BY GridSize
<1>3. ActiveLeft(s) \in Columns /\ ActiveRight(s) \in Columns
  BY Places
<1>4. first \in 0..size.columns - 1 /\ end \in first + 1..size.columns
  BY <1>2, <1>3
<1>5. n \in 1..end - first
  BY <1>4 DEF Bounded
<1> HIDE DEF end, n
<1>6. ASSUME NEW r \in Rows
      PROVE  cells[r] \in Cells(size.columns) /\ Whole(cells[r]) /\ wraps[r] \in Nat
             /\ wraps[r] = 0
  <2> DEFINE q == ShiftInRow(s.rows[r].cells, first, n, end, insert)
  <2>1. q \in Cells(size.columns) /\ Whole(q)
    BY <1>2, <1>4, <1>5, RowsOfScreen, ShiftedWhole
  <2>2. cells[r] = q /\ wraps[r] = 0
    OBVIOUS
  <2> HIDE DEF q
  <2> QED BY <2>1, <2>2
<1> HIDE DEF cells, wraps, inside
<1>7. Sound(p) /\ p.rows = s.rows
  BY CursorMoves, Places, OthersLooser
<1> HIDE DEF p
<1>8. Sound(t) /\ Looser(p, t)
  BY <1>6, <1>7, RewrittenSound, SomeLooser
<1> HIDE DEF t
<1>9. s.top \in 0..size.rows /\ s.bottom + 1 \in 0..size.rows
  <2>1. s.top \in Rows /\ s.bottom \in Rows
    BY Places
  <2> QED BY <2>1, GridSize
<1>10. Sound(u) /\ Looser(t, u)
  BY <1>8, <1>9, BreakSound, BreakLooser
<1> HIDE DEF u
<1>11. Looser(u, v)
  BY <1>9, <1>10, BreakLooser
<1> HIDE DEF v
<1>12. Looser(s, p)
  BY <1>7, LooserToo
<1>13. Looser(s, t)
  BY <1>8, <1>12, LooserToo
<1>14. Looser(s, u)
  BY <1>10, <1>13, LooserToo
<1> QED BY <1>1, <1>11, <1>14, LooserToo

LEMMA AreasLooser ==
    ASSUME ModesOK, NEW s, Sound(s), NEW a, NEW cell, NEW top, NEW left
    PROVE  /\ Looser(s, FillArea(s, a, cell))
           /\ Looser(s, EraseArea(s, a))
           /\ Looser(s, CopyArea(s, a, top, left))
<1>0. ASSUME NEW t, NEW inside, NEW cells, NEW wraps, t = Rewritten(s, inside, cells, wraps),
             \A r \in Rows : wraps[r] = 0 \/ wraps[r] = s.rows[r].wrap
      PROVE  Looser(s, t)
  BY <1>0, SomeLooser
<1>1. Looser(s, FillArea(s, a, cell))
  <2> DEFINE cells == [r \in Rows |-> FillInRow(s.rows[r].cells, a.left, a.right, cell)]
             wraps == [r \in Rows |-> IF a.right = LastColumn THEN 0 ELSE s.rows[r].wrap]
             inside == a.top..a.bottom
  <2>1. FillArea(s, a, cell) = Rewritten(s, inside, cells, wraps)
    BY RowsOfScreen DEF Rewritten, FillArea, RowOf
  <2>2. \A r \in Rows : wraps[r] = 0 \/ wraps[r] = s.rows[r].wrap
    OBVIOUS
  <2> HIDE DEF cells, wraps, inside
  <2> QED BY <1>0, <2>1, <2>2
<1>2. Looser(s, EraseArea(s, a))
  <2> DEFINE cells == [r \in Rows |-> ClearSpans(s.rows[r].cells, a.left, a.right, Blank)]
             wraps == [r \in Rows |->
                         IF a.right = LastColumn /\ s.rows[r].cells[LastColumn] # Blank
                         THEN 0 ELSE s.rows[r].wrap]
             inside == a.top..a.bottom
  <2>1. EraseArea(s, a) = Rewritten(s, inside, cells, wraps)
    BY RowsOfScreen DEF Rewritten, EraseArea, RowOf
  <2>2. \A r \in Rows : wraps[r] = 0 \/ wraps[r] = s.rows[r].wrap
    OBVIOUS
  <2> HIDE DEF cells, wraps, inside
  <2> QED BY <1>0, <2>1, <2>2
<1>3. Looser(s, CopyArea(s, a, top, left))
  <2> DEFINE toRow == Bounded(top, 1, AreaRows(s)) - 1 + RowOrigin(s)
             toCol == Bounded(left, 1, AreaColumns(s)) - 1 + ColumnOrigin(s)
             n  == Bounded(a.bottom - a.top + 1, 0, RowOrigin(s) + AreaRows(s) - toRow)
             m  == Bounded(a.right - a.left + 1, 0, ColumnOrigin(s) + AreaColumns(s) - toCol)
             inside == toRow..toRow + n - 1
             cells == [r \in Rows |-> CopyInRow(s.rows[r].cells, s.rows[a.top + r - toRow].cells,
                                                a.left, toCol, m)]
             wraps == [r \in Rows |-> IF toCol + m = size.columns THEN 0 ELSE s.rows[r].wrap]
  <2> HIDE DEF toRow, toCol
  <2>1. CopyArea(s, a, top, left) = Rewritten(s, inside, cells, wraps)
    BY RowsOfScreen DEF Rewritten, CopyArea, RowOf, toRow, toCol
  <2>2. \A r \in Rows : wraps[r] = 0 \/ wraps[r] = s.rows[r].wrap
    OBVIOUS
  <2> HIDE DEF cells, wraps, inside
  <2> QED BY <1>0, <2>1, <2>2
<1> QED BY <1>1, <1>2, <1>3

LEMMA LinesLead ==
    ASSUME ModesOK, NEW s, Sound(s), NEW count \in Int, Leads(s)
    PROVE  Leads(InsertLinesAt(s, count)) /\ Leads(DeleteLinesAt(s, count))
<1>0. CASE ~InRegion(s)
  BY <1>0 DEF InsertLinesAt, DeleteLinesAt
<1> SUFFICES ASSUME InRegion(s)
             PROVE  Leads(InsertLinesAt(s, count)) /\ Leads(DeleteLinesAt(s, count))
  BY <1>0
<1> DEFINE q == SetCursorPosition(s, s.row, ActiveLeft(s))
           t == BreakSoftWrapBefore(q, s.row)
           n == Bounded(count, 1, s.bottom - s.row + 1)
           y == Shifted(t, s.row, s.bottom, -n)
           z == BreakSoftWrapBefore(y, s.bottom + 1)
           v == BreakSoftWrapBefore(t, s.bottom + 1)
           w == Shifted(v, s.row, s.bottom, n)
           x == s.bottom + 1
<1>1. /\ s.row \in Rows /\ s.bottom \in Rows /\ s.row \in Int /\ s.bottom \in Int
      /\ s.row \in Nat /\ s.bottom \in Nat /\ s.top \in Int /\ ActiveLeft(s) \in Int
  BY Places
<1>2. s.row \in 0..size.rows /\ x \in 0..size.rows /\ x > 0 /\ x - 1 = s.bottom
  BY <1>1, GridSize
<1>3. s.row \in s.top..s.bottom /\ s.row <= s.bottom
  BY <1>1 DEF InRegion
<1>4. n \in 1..s.bottom - s.row + 1
  BY <1>1, <1>3 DEF Bounded
<1>5. n \in Int /\ -n \in Int
  BY <1>4
<1>6. InsertLinesAt(s, count) = z /\ DeleteLinesAt(s, count) = w
  BY DEF InsertLinesAt, DeleteLinesAt
<1>7. Sound(q) /\ q.rows = s.rows
  BY <1>1, CursorSetSound, CursorKeepsRows
<1>8. v = BreakSoftWrapBefore(t, x)
  OBVIOUS
<1> HIDE DEF q, n, x
<1>9. Leads(q)
  BY <1>7 DEF Leads, Linked
<1>10. /\ Sound(t) /\ Looser(q, t)
       /\ s.row > 0 => t.rows[s.row - 1].wrap = 0
  BY <1>2, <1>7, BreakSound, BreakLooser
<1> HIDE DEF t, v
<1>11. Leads(t)
  BY <1>9, <1>10, LooserLeads
<1>12. /\ Sound(v) /\ Looser(t, v) /\ v.rows[s.bottom].wrap = 0
  BY <1>2, <1>8, <1>10, BreakSound, BreakLooser
<1>13. Leads(z)
  <2>1. LeadsBut(y, s.bottom)
    BY <1>1, <1>3, <1>4, <1>10, <1>11, MovedDownLeads
  <2>2. Sound(y)
    BY <1>1, <1>3, <1>5, <1>10, ShiftedSound
  <2> HIDE DEF y
  <2> QED BY <1>1, <2>1, <2>2, BrokenLeads
<1>14. Leads(w)
  <2>1. Leads(v)
    BY <1>11, <1>12, LooserLeads
  <2>2. LeadsBut(v, s.bottom)
    BY <2>1 DEF Leads, LeadsBut
  <2>3. s.row > 0 => v.rows[s.row - 1].wrap = 0
    <3>1. ASSUME s.row > 0 PROVE s.row - 1 \in Rows
      BY <1>1, <3>1, GridSize
    <3>2. ASSUME s.row > 0 PROVE RowLooser(t.rows[s.row - 1], v.rows[s.row - 1])
      BY <1>12, <3>1, <3>2 DEF Looser
    <3> QED BY <1>10, <3>2 DEF RowLooser
  <2> QED BY <1>1, <1>3, <1>4, <1>12, <2>2, <2>3, MovedUpLeads
<1> QED BY <1>6, <1>13, <1>14

LEMMA ReverseIndexLeads ==
    ASSUME ModesOK, NEW s, Sound(s), Leads(s)
    PROVE  Leads(ReverseIndexed(s))
<1> DEFINE t == [s EXCEPT !.pending = FALSE]
           u == ScrollDownRegion(t, s.top, s.bottom, 1)
           v == [t EXCEPT !.row = t.row - 1]
<1>1. s.top \in Rows /\ s.bottom \in Rows /\ s.top <= s.bottom
  BY Places
<1>2. Sound(t) /\ t.rows = s.rows
  BY CursorMoves, Places, OthersLooser
<1>3. ReverseIndexed(s) = u \/ ReverseIndexed(s) = v \/ ReverseIndexed(s) = t
  BY DEF ReverseIndexed
<1> HIDE DEF t
<1>4. Leads(t)
  BY <1>2 DEF Leads, Linked
<1>5. Leads(u)
  BY <1>1, <1>2, <1>4, ScrollDownLeads
<1>6. v.rows = t.rows
  BY <1>2, OthersLooser
<1> HIDE DEF u, v
<1>7. Leads(v)
  BY <1>4, <1>6 DEF Leads, Linked
<1> QED BY <1>3, <1>4, <1>5, <1>7

LEMMA IndexLeads ==
    ASSUME ModesOK, NEW s, Sound(s), Leads(s)
    PROVE  Leads(BackIndexed(s)) /\ Leads(ForwardIndexed(s))
<1>1. ActiveLeft(s) \in Int /\ 1 \in Int
  BY Places
<1>2. ASSUME NEW insert \in BOOLEAN PROVE Leads(ShiftColumns(s, ActiveLeft(s), 1, insert))
  <2>1. Looser(s, ShiftColumns(s, ActiveLeft(s), 1, insert))
    BY <1>1, ColumnsLooser
  <2> QED BY <2>1, LooserLeads
<1>3. ASSUME NEW across PROVE Leads(MoveCursorRelative(s, 0, across))
  <2>1. MoveCursorRelative(s, 0, across).rows = s.rows
    BY CursorKeepsRows
  <2> QED BY <2>1 DEF Leads, Linked
<1> QED BY <1>2, <1>3 DEF BackIndexed, ForwardIndexed

-------------------------------------------------------------------------------
(***************************************************************************)
(* Every control function leaves the wraps leading where they led.         *)
(***************************************************************************)
LEMMA WrapsByBuffer == WrapsLead <=> \A b \in Buffers : Leads(screen[b])
BY DEF WrapsLead, Leads, Linked

LEMMA WrapsOfBuffers ==
    ASSUME size' = size, \A b \in Buffers : Leads(screen'[b])
    PROVE  WrapsLead'
BY DEF WrapsLead, Leads, Linked, LastRow

LEMMA ActiveLeads ==
    ASSUME GridInv, WrapsLead
    PROVE  ModesOK /\ Sound(S) /\ Leads(S)
BY ActiveSound, WrapsByBuffer DEF GridInv, ModesOK, S

LEMMA BecomesLeading ==
    ASSUME GridInv, WrapsLead, NEW t, Become(t), size' = size, Leads(t)
    PROVE  WrapsLead'
<1>1. DOMAIN screen = Buffers /\ screen' = [screen EXCEPT ![active] = t]
  BY DEF GridInv, Become
<1>2. \A b \in Buffers : Leads(screen[b])
  BY WrapsByBuffer
<1>3. ASSUME NEW b \in Buffers PROVE Leads(screen'[b])
  <2>1. CASE b = active
    BY <1>1, <2>1
  <2>2. CASE b # active
    BY <1>1, <1>2, <2>2
  <2> QED BY <2>1, <2>2
<1> QED BY <1>3, WrapsOfBuffers

LEMMA DoesLeading ==
    ASSUME GridInv, WrapsLead, NEW t, Do(t), t.rows = S.rows \/ Looser(S, t) \/ Leads(t)
    PROVE  WrapsLead'
<1>1. ModesOK /\ Leads(S)
  BY ActiveLeads
<1>2. Looser(S, t) \/ Leads(t)
  BY LooserToo
<1>3. Leads(t)
  BY <1>1, <1>2, LooserLeads
<1>4. Become(t) /\ size' = size
  BY DEF Do, modes
<1> QED BY <1>3, <1>4, BecomesLeading

LEMMA BecomesAlike ==
    ASSUME GridInv, WrapsLead, NEW t, Become(t), size' = size, t.rows = S.rows
    PROVE  WrapsLead'
<1>1. Leads(S)
  BY ActiveLeads
<1>2. Leads(t)
  BY <1>1 DEF Leads, Linked
<1> QED BY <1>2, BecomesLeading

LEMMA PrintingLeads ==
    ASSUME GridInv, WrapsLead, PrintGlyph \/ Combine
    PROVE  WrapsLead'
<1>1. ModesOK /\ Sound(S) /\ Leads(S)
  BY ActiveLeads
<1>2. ASSUME NEW g \in Glyphs, NEW natural \in 1..2, Do(Put(S, g, natural)) PROVE WrapsLead'
  BY <1>1, <1>2, PutLeads, DoesLeading
<1>3. ASSUME NEW g \in Glyphs, NEW natural \in 1..2, Do(Combined(S, g, natural)) PROVE WrapsLead'
  BY <1>1, <1>3, CombinedLeads, DoesLeading
<1> QED BY <1>2, <1>3 DEF PrintGlyph, Combine

LEMMA MovingLeads ==
    ASSUME GridInv, WrapsLead, Moving
    PROVE  WrapsLead'
<1>1. ModesOK /\ Sound(S) /\ Leads(S)
  BY ActiveLeads
<1>2. CASE Return
  <2>1. CarriageReturn(S).rows = S.rows
    BY <1>1, CursorKeepsRows
  <2> QED BY <1>2, <2>1, DoesLeading DEF Return
<1>3. CASE LineFeed
  <2>1. Leads(LineFed(S))
    BY <1>1, LineFedLeads
  <2> QED BY <1>3, <2>1, DoesLeading DEF LineFeed
<1>4. CASE NextLineSent
  <2> DEFINE t == LineFed(S)
  <2>1. Leads(t) /\ Sound(t)
    BY <1>1, LineFedLeads, LineFedSound
  <2>2. Do(CarriageReturn(t))
    BY <1>4 DEF NextLineSent
  <2> HIDE DEF t
  <2>3. CarriageReturn(t).rows = t.rows
    BY <1>1, <2>1, CursorKeepsRows
  <2>4. Leads(CarriageReturn(t))
    BY <2>1, <2>3 DEF Leads, Linked
  <2> QED BY <2>2, <2>4, DoesLeading
<1>5. CASE Backspace
  <2> DEFINE to == IF S.col > CursorLeft(S) THEN S.col - 1 ELSE S.col
  <2>1. Do([S EXCEPT !.col = to, !.pending = FALSE])
    BY <1>5 DEF Backspace
  <2> HIDE DEF to
  <2>2. [S EXCEPT !.col = to, !.pending = FALSE].rows = S.rows
    BY <1>1, OthersLooser
  <2> QED BY <2>1, <2>2, DoesLeading
<1>6. CASE HorizontalTab
  <2>1. PICK col : Do([S EXCEPT !.col = col, !.pending = FALSE])
    BY <1>6 DEF HorizontalTab
  <2>2. [S EXCEPT !.col = col, !.pending = FALSE].rows = S.rows
    BY <1>1, OthersLooser
  <2> QED BY <2>1, <2>2, DoesLeading
<1>7. CASE CursorTo
  <2>1. PICK row, col : Do(SetCursorAddress(S, row, col))
    BY <1>7 DEF CursorTo
  <2>2. SetCursorAddress(S, row, col).rows = S.rows
    BY <1>1, CursorKeepsRows
  <2> QED BY <2>1, <2>2, DoesLeading
<1>8. CASE CursorBy
  <2>1. PICK x, y : Do(MoveCursorRelative(S, x, y))
    BY <1>8 DEF CursorBy
  <2>2. MoveCursorRelative(S, x, y).rows = S.rows
    BY <1>1, CursorKeepsRows
  <2> QED BY <2>1, <2>2, DoesLeading
<1>9. CASE ColumnTo
  <2>1. PICK col : Do(SetCursorPosition(S, S.row, col))
    BY <1>9 DEF ColumnTo
  <2>2. SetCursorPosition(S, S.row, col).rows = S.rows
    BY <1>1, CursorKeepsRows
  <2> QED BY <2>1, <2>2, DoesLeading
<1>10. CASE SaveCursor
  <2>1. CursorSaved(S).rows = S.rows
    BY <1>1, CursorKeepsRows
  <2> QED BY <1>10, <2>1, DoesLeading DEF SaveCursor
<1>11. CASE RestoreCursor
  <2>1. CursorRestored(S).rows = S.rows
    BY <1>1, CursorKeepsRows
  <2>2. Become(CursorRestored(S)) /\ size' = size
    BY <1>11 DEF RestoreCursor
  <2> QED BY <2>1, <2>2, BecomesAlike
<1> QED BY <1>2, <1>3, <1>4, <1>5, <1>6, <1>7, <1>8, <1>9, <1>10, <1>11 DEF Moving

LEMMA ErasingLeads ==
    ASSUME GridInv, WrapsLead, Erasing
    PROVE  WrapsLead'
<1>1. ModesOK /\ Sound(S) /\ Leads(S)
  BY ActiveLeads
<1>2. CASE EraseInLine
  <2>1. PICK mode \in 0..2 : Do(EraseInLineOf(S, mode))
    BY <1>2 DEF EraseInLine
  <2>2. Looser(S, EraseInLineOf(S, mode))
    BY <1>1, ErasingLooser
  <2> QED BY <2>1, <2>2, DoesLeading
<1>3. CASE EraseInDisplay
  <2>1. PICK mode \in 0..2 : Do(EraseInDisplayOf(S, mode))
    BY <1>3 DEF EraseInDisplay
  <2>2. Looser(S, EraseInDisplayOf(S, mode))
    BY <1>1, ErasingLooser
  <2> QED BY <2>1, <2>2, DoesLeading
<1>4. CASE EraseCharacters
  <2>1. PICK n \in Int : Do(EraseCharactersOf(S, n))
    BY <1>4 DEF EraseCharacters, Parameters
  <2>2. Looser(S, EraseCharactersOf(S, n))
    <3>1. 0 \in 0..2
      OBVIOUS
    <3> QED BY <1>1, <3>1, ErasingLooser
  <2> QED BY <2>1, <2>2, DoesLeading
<1>5. CASE FillRectangle \/ EraseRectangle \/ CopyRectangle
  <2>1. PICK t : Do(t) /\ Looser(S, t)
    <3>1. CASE FillRectangle
      <4>1. PICK a, cell : Do(FillArea(S, a, cell))
        BY <3>1 DEF FillRectangle
      <4> QED BY <1>1, <4>1, AreasLooser
    <3>2. CASE EraseRectangle
      <4>1. PICK a : Do(EraseArea(S, a))
        BY <3>2 DEF EraseRectangle
      <4> QED BY <1>1, <4>1, AreasLooser
    <3>3. CASE CopyRectangle
      <4>1. PICK a, top, left : Do(CopyArea(S, a, top, left))
        BY <3>3 DEF CopyRectangle
      <4> QED BY <1>1, <4>1, AreasLooser
    <3> QED BY <1>5, <3>1, <3>2, <3>3
  <2> QED BY <2>1, DoesLeading
<1>6. CASE EraseHistory
  <2>1. /\ screen' = [[screen EXCEPT ![active].pending = FALSE] EXCEPT !["primary"].history = <<>>]
        /\ size' = size
    BY <1>6 DEF EraseHistory, modes
  <2>2. DOMAIN screen = Buffers /\ \A b \in Buffers : DOMAIN screen[b] = Fields
    BY DEF GridInv, ScreenSound
  <2>3. ASSUME NEW b \in Buffers PROVE screen'[b].rows = screen[b].rows
    BY <2>1, <2>2 DEF Fields
  <2>4. \A b \in Buffers : Leads(screen[b])
    BY WrapsByBuffer
  <2>5. ASSUME NEW b \in Buffers PROVE Leads(screen'[b])
    BY <2>3, <2>4 DEF Leads, Linked
  <2> QED BY <2>1, <2>5, WrapsOfBuffers
<1> QED BY <1>2, <1>3, <1>4, <1>5, <1>6 DEF Erasing

LEMMA ShiftingLeads ==
    ASSUME GridInv, WrapsLead, Shifting
    PROVE  WrapsLead'
<1>1. ModesOK /\ Sound(S) /\ Leads(S)
  BY ActiveLeads
<1>2. SUFFICES \E t : Do(t) /\ (Looser(S, t) \/ Leads(t))
  BY DoesLeading
<1>4. /\ S.row \in Rows /\ S.col \in Int /\ S.top \in Rows /\ S.bottom \in Rows
      /\ S.top <= S.bottom /\ S.bottom + 1 \in 0..size.rows
  <2>1. S.row \in Rows /\ S.col \in Int /\ S.top \in Rows /\ S.bottom \in Rows /\ S.top <= S.bottom
    BY <1>1, Places
  <2> QED BY <1>1, <2>1, GridSize
<1>5. \A m : \A n \in Parameters(m) : n \in Int
  BY DEF Parameters
<1>6. CASE InsertCells
  <2>1. PICK n \in Int : Do(InsertCellsAt(S, n))
    BY <1>5, <1>6 DEF InsertCells
  <2> QED BY <1>1, <2>1, EditingLooser
<1>7. CASE DeleteCells
  <2>1. PICK n \in Int : Do(DeleteCellsAt(S, n))
    BY <1>5, <1>7 DEF DeleteCells
  <2> QED BY <1>1, <2>1, EditingLooser
<1>8. CASE InsertColumns \/ DeleteColumns
  <2>1. PICK n \in Int, insert \in BOOLEAN : Do(ShiftColumns(S, S.col, n, insert))
    BY <1>5, <1>8 DEF InsertColumns, DeleteColumns
  <2> QED BY <1>1, <1>4, <2>1, ColumnsLooser
<1>9. CASE InsertLines
  <2>1. PICK n \in Int : Do(InsertLinesAt(S, n))
    BY <1>5, <1>9 DEF InsertLines
  <2> QED BY <1>1, <2>1, LinesLead
<1>10. CASE DeleteLines
  <2>1. PICK n \in Int : Do(DeleteLinesAt(S, n))
    BY <1>5, <1>10 DEF DeleteLines
  <2> QED BY <1>1, <2>1, LinesLead
<1>11. CASE ScrollUp
  <2> DEFINE archive == active = "primary" /\ S.top = 0
             x == S.bottom + 1
             t == BreakSoftWrapBefore(S, x)
  <2>1. archive \in BOOLEAN /\ x \in 0..size.rows /\ x > 0 /\ x - 1 = S.bottom
    BY <1>1, <1>4, GridSize
  <2>2. PICK n \in Int : Do(ScrollUpRegion(t, S.top, S.bottom, archive, n))
    BY <1>5, <1>11 DEF ScrollUp
  <2> HIDE DEF archive, x
  <2>3. Sound(t) /\ Looser(S, t) /\ t.rows[x - 1].wrap = 0
    BY <1>1, <2>1, BreakSound, BreakLooser
  <2> HIDE DEF t
  <2>4. Leads(t)
    BY <1>1, <2>3, LooserLeads
  <2>5. LeadsBut(t, S.bottom) /\ t.rows[S.bottom].wrap = 0
    BY <2>1, <2>3, <2>4 DEF Leads, LeadsBut
  <2>6. Leads(ScrollUpRegion(t, S.top, S.bottom, archive, n))
    BY <1>1, <1>4, <2>1, <2>3, <2>5, ScrollUpLeads
  <2> QED BY <2>2, <2>6
<1>12. CASE ScrollDown
  <2>1. PICK n \in Int : Do(ScrollDownRegion(S, S.top, S.bottom, n))
    BY <1>5, <1>12 DEF ScrollDown
  <2> QED BY <1>1, <1>4, <2>1, ScrollDownLeads
<1>13. CASE ReverseIndex \/ BackIndex \/ ForwardIndex
  BY <1>1, <1>13, ReverseIndexLeads, IndexLeads DEF ReverseIndex, BackIndex, ForwardIndex
<1> QED BY <1>6, <1>7, <1>8, <1>9, <1>10, <1>11, <1>12, <1>13 DEF Shifting

\* The fresh screen of an alternate buffer has no wraps, and the rest keeps its rows.
LEMMA SettingLeads ==
    ASSUME GridInv, WrapsLead, Setting
    PROVE  WrapsLead'
<1>1. ModesOK /\ Sound(S) /\ Leads(S)
  BY ActiveLeads
<1>2. \A b \in Buffers : Leads(screen[b])
  BY WrapsByBuffer
<1>3. DOMAIN screen = Buffers /\ \A b \in Buffers : Sound(screen[b])
  BY DEF GridInv, Sound
<1>4. ASSUME NEW t, Sound(t), t.rows = S.rows, NEW row, NEW col, Do(SetCursorAddress(t, row, col))
      PROVE  WrapsLead'
  <2>1. SetCursorAddress(t, row, col).rows = t.rows
    BY <1>1, <1>4, CursorKeepsRows
  <2> QED BY <1>4, <2>1, DoesLeading
<1>5. CASE SetStyle
  <2>1. Become(S) /\ size' = size
    BY <1>5 DEF SetStyle
  <2> QED BY <2>1, BecomesAlike
<1>6. CASE SetAutowrapMode
  <2>1. PICK p : Become([S EXCEPT !.pending = p]) /\ size' = size
    BY <1>6 DEF SetAutowrapMode
  <2>2. [S EXCEPT !.pending = p].rows = S.rows
    BY <1>1, OthersLooser
  <2> QED BY <2>1, <2>2, BecomesAlike
<1>7. CASE SetOriginMode
  <2>1. PICK on \in BOOLEAN : Do(SetCursorAddress([S EXCEPT !.origin = on], 0, 0))
    BY <1>7 DEF SetOriginMode
  <2>2. Sound([S EXCEPT !.origin = on]) /\ [S EXCEPT !.origin = on].rows = S.rows
    BY <1>1, OriginChanges, OthersLooser
  <2> QED BY <1>4, <2>1, <2>2
<1>8. CASE SetScrollRegion
  <2>1. PICK top \in Rows, bottom \in Rows :
           /\ top < bottom
           /\ Do(SetCursorAddress([S EXCEPT !.top = top, !.bottom = bottom], 0, 0))
    BY <1>8 DEF SetScrollRegion
  <2>2. /\ Sound([S EXCEPT !.top = top, !.bottom = bottom])
        /\ [S EXCEPT !.top = top, !.bottom = bottom].rows = S.rows
    <3>1. top <= bottom
      BY <1>1, <2>1, GridSize
    <3>2. Sound([S EXCEPT !.top = top, !.bottom = bottom])
      BY <1>1, <3>1, RegionChanges
    <3>3. [S EXCEPT !.top = top, !.bottom = bottom].rows = S.rows
      BY <1>1 DEF Sound, ScreenSound, Fields
    <3> QED BY <3>2, <3>3
  <2> QED BY <1>4, <2>1, <2>2
<1>9. CASE SetHorizontalMargins
  <2>1. PICK left \in Columns, right \in Columns :
           /\ left < right
           /\ Do(SetCursorAddress([S EXCEPT !.left = left, !.right = right], 0, 0))
    BY <1>9 DEF SetHorizontalMargins
  <2>2. MarginsSound(size.columns, left, right)
    BY <1>1, <2>1, GridSize DEF MarginsSound
  <2>3. /\ Sound([S EXCEPT !.left = left, !.right = right])
        /\ [S EXCEPT !.left = left, !.right = right].rows = S.rows
    <3>1. Sound([S EXCEPT !.left = left, !.right = right])
      BY <1>1, <2>2, MarginsChange
    <3>2. [S EXCEPT !.left = left, !.right = right].rows = S.rows
      BY <1>1 DEF Sound, ScreenSound, Fields
    <3> QED BY <3>1, <3>2
  <2> QED BY <1>4, <2>1, <2>3
<1>10. CASE SetHorizontalMarginMode
  <2>1. PICK on \in BOOLEAN :
           /\ screen' = [b \in Buffers |->
                LET s == [screen[b] EXCEPT !.left = IF on THEN @ ELSE 0,
                                           !.right = IF on THEN @ ELSE LastColumn]
                IN  IF b = active THEN [s EXCEPT !.pending = FALSE] ELSE s]
           /\ size' = size
    BY <1>10 DEF SetHorizontalMarginMode
  <2>2. ASSUME NEW b \in Buffers PROVE screen'[b].rows = screen[b].rows
    <3>1. DOMAIN screen[b] = Fields
      BY <1>3 DEF Sound, ScreenSound
    <3> QED BY <2>1, <3>1 DEF Fields
  <2>3. ASSUME NEW b \in Buffers PROVE Leads(screen'[b])
    BY <1>2, <2>2 DEF Leads, Linked
  <2> QED BY <2>1, <2>3, WrapsOfBuffers
<1>11. Leads(EmptyAlternate)
  BY GridSize, <1>1 DEF EmptyAlternate, EmptyScreen, EmptyRow, Leads, Linked
<1>12. "primary" \in Buffers /\ "alternate" \in Buffers
  BY DEF Buffers
<1>13. /\ Leads(CursorSaved(screen["primary"]))
       /\ Leads(CursorRestored(screen["primary"]))
  <2>1. /\ CursorSaved(screen["primary"]).rows = screen["primary"].rows
        /\ CursorRestored(screen["primary"]).rows = screen["primary"].rows
    BY <1>1, <1>3, <1>12, CursorKeepsRows
  <2> QED BY <1>2, <1>12, <2>1 DEF Leads, Linked
<1>14. ASSUME size' = size,
              \/ screen'["primary"] = screen["primary"]
              \/ screen'["primary"] = CursorSaved(screen["primary"])
              \/ screen'["primary"] = CursorRestored(screen["primary"]),
              screen'["alternate"] = screen["alternate"] \/ screen'["alternate"] = EmptyAlternate
       PROVE  WrapsLead'
  <2>1. Leads(screen'["primary"]) /\ Leads(screen'["alternate"])
    BY <1>2, <1>11, <1>12, <1>13, <1>14
  <2>2. ASSUME NEW b \in Buffers PROVE Leads(screen'[b])
    BY <2>1 DEF Buffers
  <2> QED BY <1>14, <2>2, WrapsOfBuffers
<1>15. CASE EnterAlternate
  <2>1. /\ \/ screen'["primary"] = screen["primary"]
           \/ screen'["primary"] = CursorSaved(screen["primary"])
        /\ screen'["alternate"] = screen["alternate"] \/ screen'["alternate"] = EmptyAlternate
        /\ size' = size
    BY <1>3, <1>12, <1>15 DEF EnterAlternate
  <2> QED BY <1>14, <2>1
<1>16. CASE LeaveAlternate
  <2>1. /\ \/ screen'["primary"] = screen["primary"]
           \/ screen'["primary"] = CursorRestored(screen["primary"])
        /\ screen'["alternate"] = screen["alternate"] \/ screen'["alternate"] = EmptyAlternate
        /\ size' = size
    BY <1>3, <1>12, <1>16 DEF LeaveAlternate
  <2> QED BY <1>14, <2>1
<1> QED BY <1>5, <1>6, <1>7, <1>8, <1>9, <1>10, <1>15, <1>16 DEF Setting

\* No control function makes a soft wrap lead astray, whatever rows it inserts, deletes,
\* moves or overwrites and whatever the regions and margins: break_soft_wrap_before and
\* its callers (terminal_screen_model.cpp:6818-6908, 7675-7853).
THEOREM WrapsStayTrue == Spec => WrapsStay
<1>1. GridInv /\ [Next]_vars => [size' = size /\ WrapsLead => WrapsLead']_vars
  <2> SUFFICES ASSUME GridInv, Next, WrapsLead PROVE WrapsLead'
    OBVIOUS
  <2> QED BY PrintingLeads, MovingLeads, ErasingLeads, ShiftingLeads, SettingLeads
          DEF Next, Control
<1>2. Spec => []GridInv
  BY InitInv, NextInv, PTL DEF Spec
<1> QED BY <1>1, <1>2, PTL DEF Spec, WrapsStay
================================================================================
