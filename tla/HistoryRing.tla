------------------------------ MODULE HistoryRing ------------------------------
(***************************************************************************)
(* Terminal_history_ring: the storage behind the scrollback.  Records of   *)
(* different sizes are written one after the other round a block of bytes; *)
(* a commit makes room by forgetting the oldest.  A byte sequence number   *)
(* never wraps: it names a byte for good, and its place in the block is    *)
(* the remainder by the capacity.  Whoever keeps the sequence number of a  *)
(* record may come back at any time, after discards, a clear or a resize.  *)
(*                                                                         *)
(* A cell of the block holds the sequence number of the byte in it.  The   *)
(* layout of a record's header and footer is left out.                     *)
(***************************************************************************)
EXTENDS Integers, Sequences

CONSTANTS
    Capacities,     \* the aligned capacities asked for, the useless ones included
    Share,          \* a record takes at most capacity \div Share (8 in the code)
    Overhead,       \* terminal_history_ring_record_overhead_bytes
    MaxSequence     \* the last byte sequence (2^64 - 1 in the code)

ASSUME RingAssumption ==
    /\ Capacities \subseteq Nat
    /\ Share \in Nat \ {0} /\ Overhead \in Nat \ {0} /\ MaxSequence \in Nat

VARIABLES
    capacity,       \* m_capacity_bytes
    storage,        \* m_storage
    records,        \* m_records
    oldest,         \* m_oldest_live_byte_sequence
    head,           \* m_head_byte_sequence
    open,           \* m_reservation_open
    reserved        \* the open reservation's record

ringVars == <<capacity, storage, records, oldest, head, open, reserved>>

Record == [seq : Nat, size : Nat]
NoByte == -1        \* a cell that was never written

End(r) == r.seq + r.size
MaxRecord(c) == c \div Share
Valid(c) == c # 0 /\ MaxRecord(c) >= Overhead
Place(c, s) == s % c

Ok == Valid(capacity)       \* m_status

RingTypes ==
    /\ capacity \in Nat
    /\ storage \in [0..capacity - 1 -> Nat \cup {NoByte}]
    /\ records \in Seq(Record)
    /\ oldest \in Nat /\ head \in Nat
    /\ open \in BOOLEAN /\ reserved \in Record

RingInit ==
    /\ capacity \in Capacities
    /\ storage = [o \in 0..capacity - 1 |-> NoByte]
    /\ records = <<>> /\ oldest = 0 /\ head = 0
    /\ open = FALSE /\ reserved = [seq |-> 0, size |-> 0]
-------------------------------------------------------------------------------
(***************************************************************************)
(* Writing: reserve_record, then commit or the reservation's destructor.   *)
(***************************************************************************)
Reserve ==
    \E size \in Overhead..MaxRecord(capacity) :
      /\ Ok /\ ~open
      /\ head + size <= MaxSequence
      /\ open' = TRUE
      /\ reserved' = [seq |-> head, size |-> size]
      /\ UNCHANGED <<capacity, storage, records, oldest, head>>

\* Given up, moved over, or the descriptor could not be allocated in commit.
ReleaseReservation ==
    /\ open
    /\ open' = FALSE
    /\ UNCHANGED <<capacity, storage, records, oldest, head, reserved>>

\* The oldest live byte once the n oldest records are gone.
OldestAfter(n) == IF n = 0 THEN oldest ELSE End(records[n])

RoomForNothing(n) ==            \* mutant: the record to be written is not counted
    head - OldestAfter(n) <= capacity

RoomFor(n) == head + reserved.size - OldestAfter(n) <= capacity

\* plan_room_for: how many records have to go.
Discards(n) == RoomFor(n) /\ \A m \in 0..n - 1 : ~RoomFor(m)

Without(n) == SubSeq(records, n + 1, Len(records))

\* write_record_bytes, in two pieces at the end of the block.
Written ==
    LET bytes == reserved.seq..End(reserved) - 1
    IN  [o \in 0..capacity - 1 |->
            IF \E s \in bytes : Place(capacity, s) = o
            THEN CHOOSE s \in bytes : Place(capacity, s) = o
            ELSE storage[o]]

Commit ==
    /\ Ok /\ open
    /\ \E n \in 0..Len(records) :
         /\ Discards(n)
         /\ records' = Append(Without(n), reserved)
         /\ oldest' = OldestAfter(n)
    /\ storage' = Written
    /\ head' = End(reserved)
    /\ open' = FALSE
    /\ UNCHANGED <<capacity, reserved>>
-------------------------------------------------------------------------------
(***************************************************************************)
(* Forgetting.                                                             *)
(***************************************************************************)
DiscardOldestRecords ==
    \E n \in 1..Len(records) :
      /\ Ok
      /\ records' = Without(n)
      /\ oldest' = OldestAfter(n)
      /\ UNCHANGED <<capacity, storage, head, open, reserved>>

Clear ==
    /\ records' = <<>>
    /\ oldest' = head
    /\ UNCHANGED <<capacity, storage, head, open, reserved>>
-------------------------------------------------------------------------------
(***************************************************************************)
(* resize_capacity.                                                        *)
(***************************************************************************)
RetainsBelow(c, n) ==           \* mutant: a block that would just be full is refused
    \A i \in n + 1..Len(records) :
        records[i].size <= MaxRecord(c) /\ head - records[i].seq < c

\* A block of c bytes takes the records after the n-th.  They lie side by side up to
\* head: together they take head - records[n + 1].seq bytes.
Retains(c, n) ==
    \A i \in n + 1..Len(records) :
        records[i].size <= MaxRecord(c) /\ head - records[i].seq <= c

\* The loop over m_records from its end stops at the first that does not fit.
Drops(c, n) == Retains(c, n) /\ \A m \in 0..n - 1 : ~Retains(c, m)

OldestOf(rs) == IF rs = <<>> THEN head ELSE rs[1].seq

\* The copy of the retained bytes; the rest of the new block is not initialised.
Moved(c, from) ==
    [o \in 0..c - 1 |->
        IF \E s \in from..head - 1 : Place(c, s) = o
        THEN storage[Place(capacity, CHOOSE s \in from..head - 1 : Place(c, s) = o)]
        ELSE NoByte]

ResizeCapacity(c) ==
    /\ Valid(c) /\ ~open /\ c # capacity
    /\ \E n \in 0..Len(records) :
         /\ Drops(c, n)
         /\ records' = Without(n)
         /\ oldest' = OldestOf(Without(n))
         /\ storage' = Moved(c, OldestOf(Without(n)))
    /\ capacity' = c
    /\ UNCHANGED <<head, open, reserved>>
-------------------------------------------------------------------------------
(***************************************************************************)
(* read_record: the record that begins at s, if it is live.                *)
(***************************************************************************)
Readable(s) ==
    /\ Ok /\ oldest <= s /\ s < head
    /\ \E i \in DOMAIN records : records[i].seq = s

ReadByte(s) == storage[Place(capacity, s)]

RingNext ==
    \/ Reserve \/ ReleaseReservation \/ Commit
    \/ DiscardOldestRecords \/ Clear
    \/ \E c \in Capacities : ResizeCapacity(c)

RingSpec == RingInit /\ [][RingNext]_ringVars
-------------------------------------------------------------------------------
(***************************************************************************)
(* A live record is found under its sequence number, and a read returns    *)
(* the bytes that were committed there: none of them was overwritten by a  *)
(* later record, lost in a resize or left unwritten.                       *)
(***************************************************************************)
ReadsAreTrue ==
    \A i \in DOMAIN records :
        /\ Readable(records[i].seq)
        /\ \A s \in records[i].seq..End(records[i]) - 1 : ReadByte(s) = s

(***************************************************************************)
(* The ring keeps the newest records that fit, by their sizes; what it has *)
(* forgotten never comes back, since no sequence number is used twice.     *)
(***************************************************************************)
Log == INSTANCE HistoryLog WITH log <- records, next <- head

ImplementsLog == Log!Spec
===============================================================================
