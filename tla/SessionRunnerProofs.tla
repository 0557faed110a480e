------------------------- MODULE SessionRunnerProofs -------------------------
(***************************************************************************)
(* Proofs about SessionRunner for any outputs, any number of callbacks,    *)
(* calls and nested handlers, and any limit of a hold.                     *)
(*                                                                         *)
(* What has left the queue of commands is in five places: the model, the   *)
(* request of a hold, the scanner's candidate, the tail, and the source of *)
(* the open operation.  Written one behind the other they are a chain      *)
(* that no step reorders: units move from each place to one before it, an  *)
(* admitted output is added behind all of them, and only an output ignored *)
(* after a stop leaves the chain.  So the order in which units take effect *)
(* is the order in which they were sent.  The rest of the invariant says   *)
(* who owns the text between two steps, which epochs may count as          *)
(* processed, and what a public call knows about the queue while it runs.  *)
(***************************************************************************)
EXTENDS SessionRunner, TLAPS

CommandKinds == {"output", "error", "exit", "write", "settle", "terminate"}
Phases == {"new", "source", "tail", "exit", "retired"}
Places == {"idle", "drain", "dispatch", "admit", "step", "loop", "window", "end", "check"}
Calls == {"none", "posted", "frame", "input", "settle", "terminate"}

Units == [epoch : Nat, at : Nat, kind : Kinds]
Sent == [kind : {"output", "error", "exit", "overflow"}, units : Seq(Kinds)]
Commands == [kind : CommandKinds, epoch : Nat, seq : Nat, left : Seq(Units), request : Seq(Units)]
Operations ==
    [kind : CommandKinds \cup {"none"}, epoch : Nat, seq : Nat, left : Seq(Units),
     request : Seq(Units), phase : Phases, owns : BOOLEAN, rearm : BOOLEAN]

TypeOK ==
    /\ sent \in Seq(Sent) /\ taken \in Nat
    /\ pending \in Seq(Commands) /\ sequence \in Nat /\ op \in Operations
    /\ hold \in Seq(Units) /\ tail \in Seq(Units) /\ stash \in Seq(Units) /\ work \in BOOLEAN
    /\ stopped \in BOOLEAN /\ windowTaken \in BOOLEAN /\ window \in Nat
    /\ replies \in Seq(Units)
    /\ processed \in Nat /\ ready \in Nat /\ incomplete \in Nat
    /\ stopRequested \in BOOLEAN /\ stopSequence \in Nat /\ exited \in BOOLEAN
    /\ gui \in Places /\ call \in Calls
    /\ draining \in BOOLEAN /\ timed \in BOOLEAN /\ target \in Nat
    /\ frames \in Seq(Nat) /\ answer \in Seq(Units) /\ inputs \in Nat
    /\ applied \in Seq(Units) /\ ignored \subseteq Units /\ captured \subseteq Units

\* Callbacks that carry something are outputs; what has left the ingress was sent.
SentOK ==
    /\ taken <= Len(sent) /\ Len(sent) <= MaxCallbacks
    /\ \A e \in DOMAIN sent : (sent[e].units # <<>>) <=> (sent[e].kind = "output")

\* What callback e carries, as a sequence of units.
OutputOf(e) == [i \in DOMAIN sent[e].units |-> Unit(e, i, sent[e].units[i])]

\* A command of a callback carries its units, one of a call nothing; callbacks wait in
\* the order of their epochs.
QueueOK ==
    /\ \A i \in DOMAIN pending :
         /\ pending[i].epoch <= taken
         /\ pending[i].epoch = 0 =>
              pending[i].kind \in {"write", "settle", "terminate"} /\ pending[i].left = <<>>
         /\ pending[i].epoch # 0 =>
              /\ pending[i].kind \in {"output", "error", "exit"}
              /\ pending[i].kind = sent[pending[i].epoch].kind
              /\ pending[i].left = OutputOf(pending[i].epoch)
    /\ \A i, j \in DOMAIN pending :
         i < j /\ pending[i].epoch # 0 /\ pending[j].epoch # 0 => pending[i].epoch < pending[j].epoch

\* The operation: where it stands when a call stands where it does, and what it carries.
OperationOK ==
    /\ op.kind = "none" => op = NoOperation
    /\ op.phase = "source" => op.kind = "output"
    /\ op.phase = "exit" => op.kind = "exit"
    /\ op.phase \in {"source", "tail", "exit"} => op.owns
    /\ gui \in {"idle", "drain", "dispatch", "admit", "check"} =>
         op.kind = "none" \/ op.phase \in {"source", "tail", "exit"}
    /\ gui = "step" => op.kind # "none" /\ op.phase = "new"
    /\ gui \in {"loop", "window", "end"} => op.kind # "none" /\ op.phase # "new"
    /\ gui \notin {"loop", "window", "end"} => replies = <<>>
    /\ op.epoch <= taken
    /\ op.epoch # 0 <=> op.kind \in {"output", "error", "exit"}
    /\ \A i \in DOMAIN pending : pending[i].epoch # 0 => op.epoch < pending[i].epoch
    /\ \A u \in Elements(op.left) : u.epoch = op.epoch
    /\ op.kind # "output" \/ op.phase = "retired" => op.left = <<>>
    /\ op.kind = "output" /\ op.phase \in {"new", "tail"} => op.left # <<>>

\* Everything that has left the queue, in the order in which it takes effect.
Chain == applied \o hold \o stash \o (tail \o op.left)

Rising(s) == \A i, j \in DOMAIN s : i < j => Before(s[i], s[j])

ChainOK ==
    /\ Rising(Chain)
    /\ \A u \in Elements(Chain) : u.epoch <= taken
    /\ \A u \in Elements(Chain) : \A i \in DOMAIN pending :
         pending[i].epoch # 0 => u.epoch < pending[i].epoch
    /\ \A e \in 1..taken : \/ \E i \in DOMAIN pending : pending[i].epoch = e
                           \/ UnitsOf(e) \subseteq Elements(Chain) \cup ignored

\* Who owns what waits between the operation and the model.
TextOK ==
    /\ hold # <<>> => stash = <<>> /\ ~work /\ Len(tail) <= HoldLimit
    /\ hold = <<>> /\ tail # <<>> => op.phase = "tail"
    /\ work => op.phase \in {"source", "tail"}
    /\ op.phase = "source" /\ op.left = <<>> => hold = <<>> /\ stash = <<>>
    /\ op.kind = "exit" /\ op.phase = "tail" => hold = <<>> /\ ~op.rearm
    /\ op.phase = "exit" => hold = <<>>
    /\ gui = "window" =>
         /\ op.phase \in {"source", "tail"} /\ window \in 1..Len(Source)
         /\ hold = <<>> /\ ~work /\ ~stopped
    /\ Elements(tail) \subseteq captured

\* A processed epoch is behind everything that waits; the beginning of a sequence keeps
\* its epoch incomplete once its source is at its end.
EpochOK ==
    /\ processed <= taken /\ ready <= taken
    /\ \A i \in DOMAIN pending : pending[i].epoch # 0 => processed < pending[i].epoch
    /\ op.phase # "retired" /\ op.epoch # 0 => processed < op.epoch
    /\ incomplete # 0 => processed < incomplete
    /\ \A u \in Elements(stash) :
         \/ u \in captured
         \/ incomplete # 0 /\ incomplete <= u.epoch
         \/ op.phase = "source" /\ u.epoch = op.epoch

\* A public call: its target was sealed from what had been sent; once it has ended its
\* drain, everything up to the target has left the ingress; and the command of a call is
\* the next one to be admitted, or a stop behind everything.
CallOK ==
    /\ \A k \in DOMAIN frames : frames[k] <= Len(sent)
    /\ gui = "dispatch" => call \in {"input", "settle", "terminate"}
    /\ call = "terminate" =>
         gui \in {"drain", "dispatch"} /\ draining /\ ~timed /\ target = Everything
    /\ call \in {"input", "settle"} =>
         /\ gui # "idle" /\ target <= Len(sent)
         /\ draining => ~timed /\ (gui # "drain" => target <= taken)
    /\ gui = "dispatch" /\ call \in {"input", "settle"} =>
         /\ draining /\ op.kind = "none"
         /\ \A i \in DOMAIN pending : pending[i].epoch > target
    /\ gui # "idle" /\ ~draining =>
         /\ call \in {"input", "settle"} /\ gui \notin {"drain", "dispatch"}
         /\ (call = "settle") = timed
         /\ target <= taken
         /\ \A i \in DOMAIN pending : pending[i].epoch # 0 => target < pending[i].epoch
    /\ \A i \in DOMAIN pending : pending[i].epoch = 0 =>
         \/ i = 1 /\ gui = "admit" /\ op.kind = "none" /\ ~draining
         \/ /\ call = "posted" /\ draining /\ ~timed /\ target = Everything
            /\ pending[i].kind = "terminate" /\ gui # "idle"

RunnerInv ==
    /\ TypeOK /\ SentOK /\ QueueOK /\ OperationOK /\ ChainOK /\ TextOK /\ EpochOK /\ CallOK
-----------------------------------------------------------------------------
(***************************************************************************)
(* Sequences, joined by an operator that the provers do not look into.     *)
(***************************************************************************)
Cat(s, t) == s \o t

LEMMA CatType == ASSUME NEW S, NEW s \in Seq(S), NEW t \in Seq(S) PROVE Cat(s, t) \in Seq(S)
  BY DEF Cat

LEMMA CatEmpty ==
    ASSUME NEW S, NEW s \in Seq(S) PROVE Cat(s, <<>>) = s /\ Cat(<<>>, s) = s
  BY DEF Cat

LEMMA CatAssociates ==
    ASSUME NEW S, NEW s \in Seq(S), NEW t \in Seq(S), NEW u \in Seq(S)
    PROVE  Cat(Cat(s, t), u) = Cat(s, Cat(t, u))
  BY DEF Cat

LEMMA CatLength ==
    ASSUME NEW S, NEW s \in Seq(S), NEW t \in Seq(S) PROVE Len(Cat(s, t)) = Len(s) + Len(t)
  BY DEF Cat

\* A sequence that is not empty is its head and its tail.
LEMMA HeadAndTail ==
    ASSUME NEW S, NEW s \in Seq(S), s # <<>>
    PROVE  /\ Head(s) \in S /\ Tail(s) \in Seq(S) /\ Len(Tail(s)) = Len(s) - 1
           /\ <<Head(s)>> \in Seq(S) /\ s = Cat(<<Head(s)>>, Tail(s))
  BY DEF Cat

\* A sequence that has the elements of two, one behind the other, joins them.
LEMMA Joined ==
    ASSUME NEW S, NEW s \in Seq(S), NEW t \in Seq(S), NEW c \in Seq(S), Len(c) = Len(s) + Len(t),
           \A i \in 1..Len(s) : c[i] = s[i],
           \A i \in 1..Len(t) : c[Len(s) + i] = t[i]
    PROVE  c = Cat(s, t)
<1>1. (s \o t) \in Seq(S) /\ Len(s \o t) = Len(c)
  OBVIOUS
<1>2. ASSUME NEW i \in 1..Len(c) PROVE c[i] = (s \o t)[i]
  <2>1. CASE i <= Len(s)
    BY <2>1
  <2>2. CASE i > Len(s)
    <3>1. i - Len(s) \in 1..Len(t) /\ Len(s) + (i - Len(s)) = i
      BY <2>2
    <3> QED BY <3>1
  <2> QED BY <2>1, <2>2
<1> QED BY <1>1, <1>2 DEF Cat

\* The tail is what is left of a window and what is behind it.
LEMMA WindowAndRest ==
    ASSUME NEW S, NEW s \in Seq(S), NEW w \in 1..Len(s)
    PROVE  /\ SubSeq(s, 2, w) \in Seq(S) /\ SubSeq(s, w + 1, Len(s)) \in Seq(S)
           /\ Tail(s) = Cat(SubSeq(s, 2, w), SubSeq(s, w + 1, Len(s)))
           /\ Len(SubSeq(s, 2, w)) <= Len(Tail(s))
<1>1. SubSeq(s, 2, w) \in Seq(S) /\ SubSeq(s, w + 1, Len(s)) \in Seq(S) /\ Tail(s) \in Seq(S)
  OBVIOUS
<1>2. /\ Len(SubSeq(s, 2, w)) = w - 1 /\ Len(SubSeq(s, w + 1, Len(s))) = Len(s) - w
      /\ Len(Tail(s)) = Len(s) - 1
  OBVIOUS
<1>3. \A i \in 1..(w - 1) : Tail(s)[i] = SubSeq(s, 2, w)[i]
  OBVIOUS
<1>4. \A i \in 1..(Len(s) - w) : Tail(s)[(w - 1) + i] = SubSeq(s, w + 1, Len(s))[i]
  OBVIOUS
<1> DEFINE a == SubSeq(s, 2, w)
           b == SubSeq(s, w + 1, Len(s))
           c == Tail(s)
<1>5. /\ a \in Seq(S) /\ b \in Seq(S) /\ c \in Seq(S)
      /\ Len(a) = w - 1 /\ Len(b) = Len(s) - w /\ Len(c) = Len(s) - 1
      /\ \A i \in 1..(w - 1) : c[i] = a[i]
      /\ \A i \in 1..(Len(s) - w) : c[(w - 1) + i] = b[i]
  BY <1>1, <1>2, <1>3, <1>4
<1> HIDE DEF a, b, c
<1>6. /\ Len(c) = Len(a) + Len(b)
      /\ \A i \in 1..Len(a) : c[i] = a[i]
      /\ \A i \in 1..Len(b) : c[Len(a) + i] = b[i]
  BY <1>5
<1>7. c = Cat(a, b)
  BY <1>5, <1>6, Joined, Zenon
<1> QED BY <1>5, <1>7 DEF a, b, c

LEMMA ElementsOf ==
    ASSUME NEW S, NEW s \in Seq(S), NEW t \in Seq(S)
    PROVE  /\ Elements(s) \subseteq S
           /\ Elements(Cat(s, t)) = Elements(s) \cup Elements(t)
           /\ Elements(<<>>) = {}
           /\ (Elements(s) = {}) <=> (s = <<>>)
<1>1. Elements(s) \subseteq S /\ Elements(<<>>) = {}
  BY DEF Elements
<1>2. ASSUME NEW x \in Elements(s) PROVE x \in Elements(s \o t)
  <2>1. PICK i \in DOMAIN s : x = s[i]
    BY DEF Elements
  <2>2. i \in DOMAIN (s \o t) /\ (s \o t)[i] = x
    BY <2>1
  <2> QED BY <2>2 DEF Elements
<1>3. ASSUME NEW x \in Elements(t) PROVE x \in Elements(s \o t)
  <2>1. PICK i \in DOMAIN t : x = t[i]
    BY DEF Elements
  <2>2. Len(s) + i \in DOMAIN (s \o t) /\ (s \o t)[Len(s) + i] = x
    BY <2>1
  <2> QED BY <2>2 DEF Elements
<1>4. ASSUME NEW x \in Elements(s \o t) PROVE x \in Elements(s) \cup Elements(t)
  <2>1. PICK i \in DOMAIN (s \o t) : x = (s \o t)[i]
    BY DEF Elements
  <2>2. CASE i <= Len(s)
    <3>1. i \in DOMAIN s /\ x = s[i]
      BY <2>1, <2>2
    <3> QED BY <3>1 DEF Elements
  <2>3. CASE i > Len(s)
    <3>1. i - Len(s) \in DOMAIN t /\ x = t[i - Len(s)]
      BY <2>1, <2>3
    <3> QED BY <3>1 DEF Elements
  <2> QED BY <2>1, <2>2, <2>3
<1>5. (Elements(s) = {}) <=> (s = <<>>)
  <2>1. ASSUME s # <<>> PROVE s[1] \in Elements(s)
    BY <2>1 DEF Elements
  <2> QED BY <2>1, <1>1
<1> QED BY <1>1, <1>2, <1>3, <1>4, <1>5 DEF Cat

\* A rising sequence is two rising ones, the first before the second.
LEMMA RisingJoin ==
    ASSUME NEW s \in Seq(Units), NEW t \in Seq(Units)
    PROVE  Rising(Cat(s, t)) <=>
             /\ Rising(s) /\ Rising(t)
             /\ \A x \in Elements(s), y \in Elements(t) : Before(x, y)
<1> DEFINE m == Len(s)
           n == Len(t)
<1>1. /\ m \in Nat /\ n \in Nat /\ DOMAIN s = 1..m /\ DOMAIN t = 1..n
      /\ DOMAIN (s \o t) = 1..(m + n)
      /\ \A i \in 1..m : (s \o t)[i] = s[i]
      /\ \A i \in 1..n : (s \o t)[m + i] = t[i]
  OBVIOUS
<1> DEFINE c == s \o t
<1> HIDE DEF m, n, c
<1>2. ASSUME Rising(c) PROVE Rising(s) /\ Rising(t) /\ \A x \in Elements(s), y \in Elements(t) : Before(x, y)
  <2>1. ASSUME NEW i \in 1..m, NEW j \in 1..m, i < j PROVE Before(s[i], s[j])
    BY <1>1, <1>2, <2>1 DEF Rising, c
  <2>2. ASSUME NEW i \in 1..n, NEW j \in 1..n, i < j PROVE Before(t[i], t[j])
    <3>1. m + i \in 1..(m + n) /\ m + j \in 1..(m + n) /\ m + i < m + j
      BY <1>1, <2>2
    <3> QED BY <1>1, <1>2, <3>1 DEF Rising, c
  <2>3. ASSUME NEW i \in 1..m, NEW j \in 1..n PROVE Before(s[i], t[j])
    <3>1. i \in 1..(m + n) /\ m + j \in 1..(m + n) /\ i < m + j
      BY <1>1
    <3> QED BY <1>1, <1>2, <3>1 DEF Rising, c
  <2> QED BY <1>1, <2>1, <2>2, <2>3 DEF Rising, Elements
<1>3. ASSUME Rising(s), Rising(t), \A x \in Elements(s), y \in Elements(t) : Before(x, y) PROVE Rising(c)
  <2> SUFFICES ASSUME NEW i \in 1..(m + n), NEW j \in 1..(m + n), i < j PROVE Before(c[i], c[j])
    BY <1>1 DEF Rising, c
  <2>1. CASE j <= m
    <3>1. i \in 1..m /\ j \in 1..m
      BY <1>1, <2>1
    <3> QED BY <1>1, <1>3, <3>1 DEF Rising, c
  <2>2. CASE i <= m /\ j > m
    <3>1. i \in 1..m /\ j - m \in 1..n /\ m + (j - m) = j
      BY <1>1, <2>2
    <3>2. c[i] = s[i] /\ c[j] = t[j - m]
      BY <1>1, <3>1 DEF c
    <3>3. s[i] \in Elements(s) /\ t[j - m] \in Elements(t)
      BY <1>1, <3>1 DEF Elements
    <3> QED BY <1>3, <3>2, <3>3
  <2>3. CASE i > m
    <3>1. i - m \in 1..n /\ j - m \in 1..n /\ m + (j - m) = j /\ m + (i - m) = i /\ i - m < j - m
      BY <1>1, <2>3
    <3>2. c[i] = t[i - m] /\ c[j] = t[j - m]
      BY <1>1, <3>1 DEF c
    <3> QED BY <1>1, <1>3, <3>1, <3>2 DEF Rising
  <2> QED BY <1>1, <2>1, <2>2, <2>3
<1> QED BY <1>2, <1>3 DEF Cat, c

(***************************************************************************)
(* The chain.                                                              *)
(***************************************************************************)
Line(a, h, s, r) == Cat(Cat(Cat(a, h), s), r)

LEMMA UnitsJoined ==
    ASSUME NEW s \in Seq(Units), NEW t \in Seq(Units)
    PROVE  Cat(s, t) \in Seq(Units) /\ Elements(Cat(s, t)) = Elements(s) \cup Elements(t)
  BY CatType, ElementsOf

LEMMA LineOfPlaces ==
    ASSUME NEW a \in Seq(Units), NEW h \in Seq(Units), NEW s \in Seq(Units), NEW r \in Seq(Units)
    PROVE  /\ Line(a, h, s, r) \in Seq(Units)
           /\ Elements(Line(a, h, s, r)) = Elements(a) \cup Elements(h) \cup Elements(s) \cup Elements(r)
<1> DEFINE p == Cat(a, h)
           q == Cat(p, s)
<1>1. p \in Seq(Units) /\ Elements(p) = Elements(a) \cup Elements(h)
  BY UnitsJoined
<1> HIDE DEF p
<1>2. q \in Seq(Units) /\ Elements(q) = Elements(p) \cup Elements(s)
  BY <1>1, UnitsJoined
<1> HIDE DEF q
<1>3. Cat(q, r) \in Seq(Units) /\ Elements(Cat(q, r)) = Elements(q) \cup Elements(r)
  BY <1>2, UnitsJoined
<1> QED BY <1>1, <1>2, <1>3 DEF Line, p, q

\* A hold that is applied leaves the line as it is, and so does a candidate.
LEMMA HoldIsApplied ==
    ASSUME NEW a \in Seq(Units), NEW h \in Seq(Units), NEW s \in Seq(Units), NEW r \in Seq(Units)
    PROVE  Line(Cat(a, h), <<>>, s, r) = Line(a, h, s, r)
<1>1. Cat(a, h) \in Seq(Units)
  BY CatType
<1>2. Cat(Cat(a, h), <<>>) = Cat(a, h)
  BY <1>1, CatEmpty
<1> QED BY <1>2 DEF Line

LEMMA CandidateIsApplied ==
    ASSUME NEW a \in Seq(Units), NEW s \in Seq(Units), NEW r \in Seq(Units)
    PROVE  Line(Cat(a, s), <<>>, <<>>, r) = Line(a, <<>>, s, r)
<1>1. Cat(a, s) \in Seq(Units)
  BY CatType
<1>2. Cat(Cat(a, s), <<>>) = Cat(a, s) /\ Cat(a, <<>>) = a
  BY <1>1, CatEmpty
<1> QED BY <1>2 DEF Line

\* Units v that move from the head of the source to a place before it do so too.
LEMMA LineStays ==
    ASSUME NEW a \in Seq(Units), NEW s \in Seq(Units), NEW r \in Seq(Units), NEW v \in Seq(Units)
    PROVE  /\ Line(Cat(a, s), v, <<>>, r) = Line(a, <<>>, s, Cat(v, r))
           /\ Line(a, Cat(s, v), <<>>, r) = Line(a, <<>>, s, Cat(v, r))
           /\ Line(Cat(a, s), <<>>, v, r) = Line(a, <<>>, s, Cat(v, r))
           /\ Line(Cat(Cat(a, s), v), <<>>, <<>>, r) = Line(a, <<>>, s, Cat(v, r))
<1>1. Cat(a, s) \in Seq(Units) /\ Cat(s, v) \in Seq(Units)
  BY CatType
<1>2. Cat(Cat(a, s), v) \in Seq(Units) /\ Cat(a, Cat(s, v)) \in Seq(Units)
  BY <1>1, CatType
<1>3. /\ Cat(a, <<>>) = a /\ Cat(Cat(a, s), <<>>) = Cat(a, s)
      /\ Cat(Cat(Cat(a, s), v), <<>>) = Cat(Cat(a, s), v)
      /\ Cat(Cat(a, Cat(s, v)), <<>>) = Cat(a, Cat(s, v))
  BY <1>1, <1>2, CatEmpty
<1>4. Cat(Cat(Cat(a, s), v), r) = Cat(Cat(a, s), Cat(v, r)) /\ Cat(a, Cat(s, v)) = Cat(Cat(a, s), v)
  BY <1>1, CatAssociates
<1> QED BY <1>3, <1>4 DEF Line

\* A source behind the line makes it longer.
LEMMA LineGrows ==
    ASSUME NEW a \in Seq(Units), NEW h \in Seq(Units), NEW s \in Seq(Units), NEW t \in Seq(Units),
           NEW l \in Seq(Units)
    PROVE  Line(a, h, s, Cat(t, l)) = Cat(Line(a, h, s, t), l)
<1>1. Cat(Cat(a, h), s) \in Seq(Units)
  BY CatType
<1> QED BY <1>1, CatAssociates DEF Line

LEMMA ChainIsALine == Chain = Line(applied, hold, stash, Cat(tail, op.left))
  BY DEF Chain, Line, Cat

LEMMA ChainOfPlaces ==
    ASSUME TypeOK
    PROVE  /\ op.left \in Seq(Units) /\ Cat(tail, op.left) \in Seq(Units)
           /\ Chain \in Seq(Units)
           /\ Elements(Chain) = Elements(applied) \cup Elements(hold) \cup Elements(stash)
                                \cup Elements(tail) \cup Elements(op.left)
<1>1. op.left \in Seq(Units)
  BY DEF TypeOK, Operations
<1>2. Cat(tail, op.left) \in Seq(Units) /\ Elements(Cat(tail, op.left)) = Elements(tail) \cup Elements(op.left)
  BY <1>1, CatType, ElementsOf DEF TypeOK
<1> QED BY <1>1, <1>2, ChainIsALine, LineOfPlaces DEF TypeOK

LEMMA ChainUnits == ASSUME TypeOK PROVE \A u \in Elements(Chain) : u \in Units /\ u.epoch \in Nat
<1>1. Chain \in Seq(Units) /\ <<>> \in Seq(Units)
  BY ChainOfPlaces
<1> DEFINE c == Chain
<1> HIDE DEF c
<1>2. c \in Seq(Units)
  BY <1>1 DEF c
<1>3. Elements(c) \subseteq Units
  BY <1>2 DEF Elements
<1>4. Elements(Chain) \subseteq Units
  BY <1>3 DEF c
<1> QED BY <1>4 DEF Units

\* What a callback carries, as a sequence.
LEMMA OutputIsASequence ==
    ASSUME TypeOK, SentOK, NEW e \in 1..Len(sent)
    PROVE  /\ OutputOf(e) \in Seq(Units)
           /\ Rising(OutputOf(e))
           /\ Elements(OutputOf(e)) = UnitsOf(e)
           /\ \A u \in UnitsOf(e) : u.epoch = e
           /\ (OutputOf(e) = <<>>) <=> (sent[e].kind # "output")
           /\ UnitsOf(e) \subseteq Units
<1> DEFINE us == sent[e].units
           n == Len(us)
<1>1. us \in Seq(Kinds) /\ n \in Nat /\ DOMAIN us = 1..n /\ e \in Nat
  <2>1. sent[e] \in Sent /\ e \in Nat
    BY DEF TypeOK
  <2> QED BY <2>1 DEF Sent
<1>2. \A i \in 1..n : Unit(e, i, us[i]) \in Units /\ Unit(e, i, us[i]).epoch = e
  BY <1>1 DEF Unit, Units
<1>3. OutputOf(e) = [i \in 1..n |-> Unit(e, i, us[i])]
  BY <1>1 DEF OutputOf
<1> DEFINE o == OutputOf(e)
<1>4. o \in Seq(Units) /\ Len(o) = n /\ DOMAIN o = 1..n /\ \A i \in 1..n : o[i] = Unit(e, i, us[i])
  BY <1>1, <1>2, <1>3
<1>5. UnitsOf(e) = {Unit(e, i, us[i]) : i \in 1..n}
  BY <1>1 DEF UnitsOf
<1> HIDE DEF o, us, n
<1>6. Elements(o) = UnitsOf(e)
  BY <1>4, <1>5 DEF Elements
<1>7. ASSUME NEW i \in 1..n, NEW j \in 1..n, i < j PROVE Before(o[i], o[j])
  BY <1>1, <1>4, <1>7 DEF Before, Unit
<1>8. \A u \in UnitsOf(e) : u.epoch = e /\ u \in Units
  BY <1>2, <1>5
<1>9. (o = <<>>) <=> (n = 0)
  BY <1>1, <1>4
<1>10. (n = 0) <=> (us = <<>>)
  BY <1>1 DEF n
<1>11. (us # <<>>) <=> (sent[e].kind = "output")
  BY <1>1 DEF SentOK, TypeOK, us
<1> QED BY <1>4, <1>6, <1>7, <1>8, <1>9, <1>10, <1>11 DEF Rising, o
-----------------------------------------------------------------------------
(***************************************************************************)
(* What steps leave alone.                                                 *)
(***************************************************************************)
Outer == {"idle", "drain", "dispatch", "admit", "check"}
Inner == {"step", "loop", "window", "end", "check"}

LEMMA RunnerInit == Init => RunnerInv
<1> SUFFICES ASSUME Init PROVE RunnerInv
  OBVIOUS
<1>1. TypeOK
  <2>1. op \in Operations
    BY DEF Init, NoOperation, Operations, Phases
  <2>2. /\ <<>> \in Seq(Units) /\ <<>> \in Seq(Nat) /\ <<>> \in Seq(Commands) /\ <<>> \in Seq(Sent)
        /\ Everything \in Nat
    BY RunnerAssumption DEF Everything
  <2> QED BY <2>1, <2>2 DEF Init, TypeOK, Places, Calls
<1>2. Elements(Chain) = {}
  BY <1>1, ChainOfPlaces DEF Init, Elements, NoOperation
<1>3. Chain = <<>>
  BY <1>1, <1>2, ChainOfPlaces, ElementsOf
<1>4. SentOK /\ QueueOK /\ OperationOK
  BY RunnerAssumption DEF Init, SentOK, QueueOK, OperationOK, NoOperation, Elements
<1>5. ChainOK
  BY <1>3 DEF ChainOK, Rising, Elements, Init
<1>6. TextOK /\ EpochOK /\ CallOK
  BY DEF Init, TextOK, EpochOK, CallOK, NoOperation, Elements
<1> QED BY <1>1, <1>4, <1>5, <1>6 DEF RunnerInv

LEMMA ChainStays ==
    ASSUME ChainOK, Chain' = Chain, UNCHANGED <<sent, taken, pending>>, ignored \subseteq ignored'
    PROVE  ChainOK'
  BY DEF ChainOK, UnitsOf

LEMMA QueueStays ==
    ASSUME SentOK, QueueOK, UNCHANGED <<sent, taken, pending>>
    PROVE  SentOK' /\ QueueOK'
  BY DEF SentOK, QueueOK, OutputOf

\* A step of the runner inside a call.
LEMMA InnerStep ==
    ASSUME RunnerInv, Stays, gui \in Inner, gui' \in Inner
    PROVE  SentOK' /\ QueueOK' /\ CallOK'
<1>1. SentOK' /\ QueueOK'
  BY QueueStays DEF RunnerInv, Stays, ingress, queue
<1>2. CallOK'
  BY DEF RunnerInv, CallOK, Stays, ingress, queue, calls, Inner, Everything
<1> QED BY <1>1, <1>2

\* A step of a call outside the runner.
LEMMA OuterStep ==
    ASSUME RunnerInv, Untouched, pending' = pending, gui \in Outer, gui' \in Outer
    PROVE  SentOK' /\ QueueOK' /\ OperationOK' /\ ChainOK' /\ TextOK' /\ EpochOK'
<1>1. UNCHANGED <<sent, taken, op, hold, tail, stash, work, stopped, windowTaken, window, replies,
                  processed, ready, incomplete, applied, ignored, captured>>
  BY DEF Untouched, ingress, text, step, epochs, history
<1>2. SentOK' /\ QueueOK'
  BY <1>1, QueueStays DEF RunnerInv
<1>3. ChainOK'
  BY <1>1, ChainStays DEF RunnerInv, Chain
<1>4. OperationOK'
  BY <1>1 DEF RunnerInv, OperationOK, Outer
<1>5. TextOK'
  BY <1>1 DEF RunnerInv, TextOK, Outer, Source
<1>6. EpochOK'
  BY <1>1 DEF RunnerInv, EpochOK
<1> QED BY <1>2, <1>3, <1>4, <1>5, <1>6

\* The types of what calls do not touch.
LEMMA UntouchedTypes ==
    ASSUME TypeOK, Untouched,
           pending' \in Seq(Commands), sequence' \in Nat, gui' \in Places, call' \in Calls,
           draining' \in BOOLEAN, timed' \in BOOLEAN, target' \in Nat, frames' \in Seq(Nat),
           answer' \in Seq(Units), inputs' \in Nat
    PROVE  TypeOK'
  BY DEF TypeOK, Untouched, ingress, text, step, epochs, stops, history

(***************************************************************************)
(* Callbacks.                                                              *)
(***************************************************************************)
LEMMA CallbacksKeep == ASSUME RunnerInv, Callbacks PROVE RunnerInv'
<1>1. PICK x \in Sent : /\ Len(sent) < MaxCallbacks /\ sent' = Append(sent, x)
                        /\ (x.units # <<>>) <=> (x.kind = "output")
                        /\ UNCHANGED <<taken, queue, op, text, step, replies, epochs, stops, gui, calls, history>>
  <2>1. CASE OutputReceived
    <3>1. PICK us \in Outputs : Callback("output", us)
      BY <2>1 DEF OutputReceived
    <3>2. us \in Seq(Kinds) /\ us # <<>>
      BY RunnerAssumption
    <3> DEFINE x == [kind |-> "output", units |-> us]
    <3>3. x \in Sent /\ x.units # <<>> /\ x.kind = "output"
      BY <3>2 DEF Sent
    <3> QED BY <3>1, <3>3 DEF Callback
  <2>2. CASE OtherCallback
    <3>1. PICK k \in Others : Callback(k, <<>>)
      BY <2>2 DEF OtherCallback
    <3> DEFINE x == [kind |-> k, units |-> <<>>]
    <3>3. x \in Sent /\ x.units = <<>> /\ x.kind # "output"
      BY RunnerAssumption DEF Sent
    <3> QED BY <3>1, <3>3 DEF Callback
  <2> QED BY <2>1, <2>2 DEF Callbacks
<1>2. UNCHANGED <<taken, pending, sequence, op, hold, tail, stash, work, stopped, windowTaken, window,
                  replies, processed, ready, incomplete, stopRequested, stopSequence, exited, gui,
                  call, draining, timed, target, frames, answer, inputs, applied, ignored, captured>>
  BY <1>1 DEF queue, text, step, epochs, stops, calls, history
<1> DEFINE n == Len(sent)
<1>3. /\ n \in Nat /\ sent \in Seq(Sent) /\ sent' \in Seq(Sent) /\ Len(sent') = n + 1
      /\ \A e \in 1..n : sent'[e] = sent[e]
      /\ sent'[n + 1] = x
  BY <1>1 DEF RunnerInv, TypeOK
<1>4. taken <= n /\ taken \in Nat
  BY DEF RunnerInv, SentOK, TypeOK
<1> HIDE DEF n
<1>5. TypeOK'
  BY <1>2, <1>3 DEF RunnerInv, TypeOK
<1>6. DOMAIN sent = 1..n /\ DOMAIN sent' = 1..(n + 1)
  BY <1>3 DEF n
<1>7. SentOK'
  <2>1. n + 1 <= MaxCallbacks
    BY <1>1, <1>3, RunnerAssumption DEF n
  <2>2. ASSUME NEW e \in 1..(n + 1) PROVE (sent'[e].units # <<>>) <=> (sent'[e].kind = "output")
    <3>1. CASE e \in 1..n
      BY <1>3, <1>6, <3>1 DEF RunnerInv, SentOK
    <3>2. CASE e = n + 1
      BY <1>1, <1>3, <3>2
    <3> QED BY <1>3, <3>1, <3>2
  <2> QED BY <1>2, <1>3, <1>4, <1>6, <2>1, <2>2 DEF SentOK
<1>8. \A e \in 1..n : OutputOf(e)' = OutputOf(e) /\ UnitsOf(e)' = UnitsOf(e)
  BY <1>3, <1>6 DEF OutputOf, UnitsOf
<1>9. QueueOK'
  <2>1. ASSUME NEW i \in DOMAIN pending, pending[i].epoch # 0 PROVE pending[i].epoch \in 1..n
    <3>1. pending[i] \in Commands /\ pending[i].epoch <= taken
      BY <2>1 DEF RunnerInv, QueueOK, TypeOK
    <3> QED BY <2>1, <3>1, <1>3, <1>4 DEF Commands
  <2> QED BY <1>2, <1>3, <1>8, <2>1 DEF RunnerInv, QueueOK
<1>10. ChainOK'
  <2>1. \A e \in 1..taken : UnitsOf(e)' = UnitsOf(e)
    BY <1>3, <1>4, <1>8
  <2>2. Chain' = Chain
    BY <1>2 DEF Chain
  <2> QED BY <1>2, <2>1, <2>2 DEF RunnerInv, ChainOK
<1>11. OperationOK'
  BY <1>2 DEF RunnerInv, OperationOK
<1>12. TextOK' /\ EpochOK'
  BY <1>2 DEF RunnerInv, TextOK, EpochOK, Source
<1>13. CallOK'
  <2>1. Len(sent) <= Len(sent')
    BY <1>3 DEF n
  <2>2. target \in Nat /\ \A k \in DOMAIN frames : frames[k] \in Nat
    BY DEF RunnerInv, TypeOK
  <2> QED BY <1>2, <1>3, <2>1, <2>2 DEF RunnerInv, CallOK, Everything
<1> QED BY <1>5, <1>7, <1>9, <1>10, <1>11, <1>12, <1>13 DEF RunnerInv

(***************************************************************************)
(* Public calls.                                                           *)
(***************************************************************************)
LEMMA PendingTypes ==
    ASSUME TypeOK, NEW i \in DOMAIN pending
    PROVE  /\ pending[i] \in Commands /\ pending[i].epoch \in Nat /\ pending[i].left \in Seq(Units)
           /\ pending[i].kind \in CommandKinds
<1>1. pending \in Seq(Commands)
  BY DEF TypeOK
<1>2. pending[i] \in Commands
  BY <1>1
<1> QED BY <1>2 DEF Commands

LEMMA SealedWasSent ==
    ASSUME RunnerInv
    PROVE  /\ SealedFrontier \in Nat /\ SealedFrontier <= Len(sent)
           /\ Frontier \in Nat /\ Seal \in Nat /\ Everything \in Nat /\ Len(sent) < Everything
           /\ taken \in Nat /\ Len(sent) \in Nat
<1>1. Everything \in Nat /\ Seal \in Nat /\ Len(sent) < Everything /\ taken \in Nat /\ Len(sent) \in Nat
  BY RunnerAssumption DEF RunnerInv, TypeOK, SentOK, Everything, Seal
<1>2. CASE frames = <<>>
  BY <1>1, <1>2 DEF SealedFrontier, Frontier, Seal
<1>3. CASE frames # <<>>
  <2>1. Len(frames) \in DOMAIN frames /\ frames[Len(frames)] \in Nat
    BY <1>3 DEF RunnerInv, TypeOK
  <2>2. SealedFrontier = frames[Len(frames)] /\ Frontier = frames[Len(frames)]
    BY <1>3 DEF SealedFrontier, Frontier, Last
  <2>3. frames[Len(frames)] <= Len(sent)
    BY <2>1 DEF RunnerInv, CallOK
  <2> QED BY <1>1, <2>1, <2>2, <2>3
<1> QED BY <1>2, <1>3, <1>1

\* What is settled has left the queue, and no operation is open.
LEMMA SettledIsBehind ==
    ASSUME RunnerInv, gui \in Outer, NEW e \in Nat, Settled(e)
    PROVE  /\ op.kind = "none" /\ e <= taken
           /\ \A i \in DOMAIN pending : pending[i].epoch # 0 => e < pending[i].epoch
<1>1. op.kind = "none"
  BY DEF RunnerInv, OperationOK, Outer, Settled, OutputOpen
<1>2. processed \in Nat /\ e <= processed /\ taken \in Nat /\ processed <= taken
  BY DEF RunnerInv, TypeOK, EpochOK, Settled
<1>3. ASSUME NEW i \in DOMAIN pending, pending[i].epoch # 0 PROVE e < pending[i].epoch
  <2>1. pending[i].epoch \in Nat
    BY PendingTypes DEF RunnerInv
  <2>2. processed < pending[i].epoch
    BY <1>3 DEF RunnerInv, EpochOK
  <2> QED BY <1>2, <2>1, <2>2
<1> QED BY <1>1, <1>2, <1>3

\* The handlers of the surface.
LEMMA ScopesKeep == ASSUME RunnerInv, ScopeBegins \/ ScopeEnds PROVE RunnerInv'
<1>1. /\ Idle /\ UNCHANGED <<gui, queue, call, draining, timed, target, answer, inputs>> /\ Untouched
      /\ frames' = Append(frames, Seal) \/ (frames # <<>> /\ frames' = Front(frames))
  BY DEF ScopeBegins, ScopeEnds
<1>2. pending' = pending /\ sequence' = sequence /\ gui = "idle" /\ gui' = "idle"
  BY <1>1 DEF Idle, queue
<1>3. SentOK' /\ QueueOK' /\ OperationOK' /\ ChainOK' /\ TextOK' /\ EpochOK'
  BY <1>1, <1>2, OuterStep DEF Outer
<1>4. frames' \in Seq(Nat) /\ \A k \in DOMAIN frames' : frames'[k] <= Len(sent)
  <2>1. frames \in Seq(Nat) /\ (\A k \in DOMAIN frames : frames[k] <= Len(sent)) /\ Len(sent) \in Nat
    BY DEF RunnerInv, TypeOK, CallOK
  <2>2. CASE frames' = Append(frames, Seal)
    BY <2>1, <2>2 DEF Seal
  <2>3. CASE frames # <<>> /\ frames' = Front(frames)
    BY <2>1, <2>3 DEF Front
  <2> QED BY <1>1, <2>2, <2>3
<1>5. TypeOK'
  <2>1. TypeOK
    BY DEF RunnerInv
  <2> QED BY <1>1, <1>2, <1>4, <2>1, UntouchedTypes DEF TypeOK
<1>6. CallOK'
  <2>1. sent' = sent /\ taken' = taken /\ op' = op
    BY <1>1 DEF Untouched, ingress
  <2> QED BY <1>1, <1>2, <1>4, <2>1 DEF RunnerInv, CallOK
<1> QED BY <1>3, <1>5, <1>6 DEF RunnerInv

\* A call begins: it drains, or goes on at once when its frontier is settled.
LEMMA BeginsKeep ==
    ASSUME RunnerInv, PostedDrain \/ FrameDrain \/ Input \/ Settle \/ Terminate
    PROVE  RunnerInv'
<1>1. PICK name \in Calls \ {"none"}, epoch \in Nat :
        /\ Begin(name, epoch)
        /\ timed' \in BOOLEAN /\ inputs' \in Nat
        /\ name \in {"input", "settle"} => epoch <= Len(sent)
        /\ name \in {"input", "settle", "terminate"} => timed' = FALSE
        /\ name = "terminate" => epoch = Everything
        /\ \/ gui' = "drain"
           \/ gui' = "dispatch" /\ name \in {"input", "settle"} /\ Settled(epoch)
  <2>1. inputs \in Nat
    BY DEF RunnerInv, TypeOK
  <2>2. CASE PostedDrain
    BY <2>1, <2>2, SealedWasSent DEF PostedDrain, Calls
  <2>3. CASE FrameDrain
    BY <2>1, <2>3, SealedWasSent DEF FrameDrain, Calls
  <2>4. CASE Input
    <3>1. /\ Begin("input", SealedFrontier) /\ timed' = FALSE /\ inputs' \in Nat
          /\ \/ gui' = "drain"
             \/ gui' = "dispatch" /\ Settled(SealedFrontier)
      BY <2>1, <2>4 DEF Input, DrainThenDispatch
    <3> QED BY <3>1, SealedWasSent DEF Calls
  <2>5. CASE Settle
    BY <2>1, <2>5, SealedWasSent DEF Settle, DrainThenDispatch, Calls
  <2>6. CASE Terminate
    <3>1. Begin("terminate", Everything) /\ timed' = FALSE /\ inputs' \in Nat /\ gui' = "drain"
      BY <2>1, <2>6 DEF Terminate
    <3> QED BY <3>1, SealedWasSent DEF Calls
  <2> QED BY <2>2, <2>3, <2>4, <2>5, <2>6
<1>2. /\ gui = "idle" /\ call' = name /\ target' = epoch /\ draining' = TRUE
      /\ pending' = pending /\ sequence' = sequence /\ frames' = frames /\ Untouched
      /\ answer' = hold \/ answer' = <<>>
      /\ sent' = sent /\ taken' = taken /\ op' = op
  BY <1>1 DEF Begin, Idle, queue, Untouched, ingress
<1>3. SentOK' /\ QueueOK' /\ OperationOK' /\ ChainOK' /\ TextOK' /\ EpochOK'
  BY <1>1, <1>2, OuterStep DEF Outer
<1>4. TypeOK'
  <2>1. TypeOK
    BY DEF RunnerInv
  <2>2. gui' \in Places /\ answer' \in Seq(Units)
    <3>1. hold \in Seq(Units) /\ <<>> \in Seq(Units)
      BY <2>1 DEF TypeOK
    <3> QED BY <1>1, <1>2, <3>1 DEF Places
  <2> QED BY <1>1, <1>2, <2>1, <2>2, UntouchedTypes DEF TypeOK
<1>5. \A i \in DOMAIN pending : pending[i].epoch # 0
  BY <1>2 DEF RunnerInv, CallOK
<1>6. CASE gui' = "drain"
  <2>1. CallOK'
    BY <1>1, <1>2, <1>5, <1>6 DEF RunnerInv, CallOK
  <2> QED BY <1>3, <1>4, <2>1 DEF RunnerInv
<1>7. CASE gui' = "dispatch" /\ name \in {"input", "settle"} /\ Settled(epoch)
  <2>1. /\ op.kind = "none" /\ epoch <= taken
        /\ \A i \in DOMAIN pending : epoch < pending[i].epoch
    BY <1>2, <1>5, <1>7, SettledIsBehind DEF Outer
  <2>2. \A i \in DOMAIN pending : pending[i].epoch \in Nat
    BY PendingTypes DEF RunnerInv
  <2>3. CallOK'
    BY <1>1, <1>2, <1>5, <1>7, <2>1, <2>2 DEF RunnerInv, CallOK
  <2> QED BY <1>3, <1>4, <2>3 DEF RunnerInv
<1> QED BY <1>1, <1>6, <1>7

\* A step between the phases of a call leaves its data alone, or ends the call.
LEMMA CallMoves ==
    ASSUME RunnerInv, UNCHANGED queue, Untouched, gui \in Outer, gui' \in Outer,
           UNCHANGED calls \/ EndCall
    PROVE  /\ TypeOK' /\ SentOK' /\ QueueOK' /\ OperationOK' /\ ChainOK' /\ TextOK' /\ EpochOK'
           /\ sent' = sent /\ taken' = taken /\ op' = op /\ pending' = pending
<1>1. pending' = pending /\ sequence' = sequence /\ sent' = sent /\ taken' = taken /\ op' = op
  BY DEF queue, Untouched, ingress
<1>2. SentOK' /\ QueueOK' /\ OperationOK' /\ ChainOK' /\ TextOK' /\ EpochOK'
  BY <1>1, OuterStep
<1>3. TypeOK'
  <2>1. TypeOK /\ Everything \in Nat
    BY SealedWasSent DEF RunnerInv
  <2>2. gui' \in Places
    BY DEF Outer, Places
  <2>3. CASE UNCHANGED calls
    BY <1>1, <2>1, <2>2, <2>3, UntouchedTypes DEF TypeOK, calls
  <2>4. CASE EndCall
    <3>1. /\ call' = "none" /\ draining' = FALSE /\ timed' = FALSE /\ target' = Everything
          /\ answer' = <<>> /\ frames' = frames /\ inputs' = inputs
      BY <2>4 DEF EndCall
    <3>2. answer' \in Seq(Units) /\ call' \in Calls
      BY <3>1 DEF Calls
    <3> QED BY <1>1, <2>1, <2>2, <3>1, <3>2, UntouchedTypes DEF TypeOK
  <2> QED BY <2>3, <2>4
<1> QED BY <1>1, <1>2, <1>3

\* The ingress is drained up to the target.
LEMMA DrainEndsKeeps == ASSUME RunnerInv, DrainEnds PROVE RunnerInv'
<1>1. /\ gui = "drain" /\ ~CanTake /\ gui' = (IF call = "terminate" THEN "dispatch" ELSE "admit")
      /\ UNCHANGED <<queue, calls>> /\ Untouched
  BY DEF DrainEnds
<1>2. /\ TypeOK' /\ SentOK' /\ QueueOK' /\ OperationOK' /\ ChainOK' /\ TextOK' /\ EpochOK'
      /\ sent' = sent /\ taken' = taken /\ op' = op /\ pending' = pending
  BY <1>1, CallMoves DEF Outer
<1>3. UNCHANGED <<call, draining, timed, target, frames, answer, inputs>>
  BY <1>1 DEF calls
<1>4. call \in {"input", "settle"} => target <= taken
  <2>1. target \in Nat /\ taken \in Nat /\ Len(sent) \in Nat
    BY SealedWasSent DEF RunnerInv, TypeOK
  <2>2. call \in {"input", "settle"} => target <= Len(sent)
    BY DEF RunnerInv, CallOK
  <2>3. ~(taken < Len(sent)) \/ ~(taken + 1 <= target)
    BY <1>1 DEF CanTake, NextEpoch
  <2> QED BY <2>1, <2>2, <2>3
<1>5. CallOK'
  BY <1>1, <1>2, <1>3, <1>4 DEF RunnerInv, CallOK, Everything
<1> QED BY <1>2, <1>5 DEF RunnerInv

\* Where a call with a drain comes to the end of it, nothing up to its target waits.
LEMMA FinishKeeps ==
    ASSUME RunnerInv, UNCHANGED queue, Untouched, gui \in {"admit", "check"}, Finish,
           draining /\ call \in {"input", "settle"} =>
             /\ op.kind = "none"
             /\ \A i \in DOMAIN pending : pending[i].epoch > target,
           ~(draining /\ call \in {"input", "settle"}) =>
             \A i \in DOMAIN pending : pending[i].epoch # 0
    PROVE  RunnerInv'
<1>1. CASE draining /\ call \in {"input", "settle"}
  <2>1. gui' = "dispatch" /\ UNCHANGED calls
    BY <1>1 DEF Finish
  <2>2. /\ TypeOK' /\ SentOK' /\ QueueOK' /\ OperationOK' /\ ChainOK' /\ TextOK' /\ EpochOK'
        /\ sent' = sent /\ taken' = taken /\ op' = op /\ pending' = pending
    BY <2>1, CallMoves DEF Outer
  <2>3. UNCHANGED <<call, draining, timed, target, frames, answer, inputs>>
    BY <2>1 DEF calls
  <2>4. target \in Nat /\ \A i \in DOMAIN pending : pending[i].epoch \in Nat
    BY PendingTypes DEF RunnerInv, TypeOK
  <2>5. \A i \in DOMAIN pending : pending[i].epoch # 0
    BY <1>1, <2>4
  <2>6. CallOK'
    BY <1>1, <2>1, <2>2, <2>3, <2>5 DEF RunnerInv, CallOK, Everything
  <2> QED BY <2>2, <2>6 DEF RunnerInv
<1>2. CASE ~(draining /\ call \in {"input", "settle"})
  <2>1. EndCall
    BY <1>2 DEF Finish
  <2>2. gui' = "idle" /\ call' = "none" /\ draining' = FALSE /\ frames' = frames
    BY <2>1 DEF EndCall
  <2>3. /\ TypeOK' /\ SentOK' /\ QueueOK' /\ OperationOK' /\ ChainOK' /\ TextOK' /\ EpochOK'
        /\ sent' = sent /\ taken' = taken /\ op' = op /\ pending' = pending
    BY <2>1, <2>2, CallMoves DEF Outer
  <2>4. CallOK'
    BY <1>2, <2>2, <2>3 DEF RunnerInv, CallOK
  <2> QED BY <2>3, <2>4 DEF RunnerInv
<1> QED BY <1>1, <1>2

\* The first command is behind the target, and so are all.
LEMMA RunEndsKeeps == ASSUME RunnerInv, RunEnds PROVE RunnerInv'
<1>1. gui = "admit" /\ NothingToAdmit /\ Finish /\ UNCHANGED queue /\ Untouched
  BY DEF RunEnds
<1>2. op.kind = "none" /\ (pending # <<>> => pending[1].epoch > target)
  <2>1. pending \in Seq(Commands)
    BY DEF RunnerInv, TypeOK
  <2> QED BY <1>1, <2>1 DEF NothingToAdmit
<1>3. /\ pending \in Seq(Commands) /\ target \in Nat
      /\ \A i \in DOMAIN pending : pending[i].epoch \in Nat
  BY PendingTypes DEF RunnerInv, TypeOK
<1>4. ASSUME NEW i \in DOMAIN pending PROVE pending[i].epoch # 0
  <2>1. 1 \in DOMAIN pending /\ pending # <<>> /\ i \in Nat /\ i >= 1
    BY <1>3
  <2>2. pending[1].epoch > target /\ pending[1].epoch # 0
    BY <1>2, <1>3, <2>1
  <2>3. CASE target = Everything
    <3>1. pending[1].epoch <= taken /\ taken <= Len(sent)
      BY <2>1 DEF RunnerInv, QueueOK, SentOK
    <3> QED BY <1>3, <2>1, <2>2, <2>3, <3>1, SealedWasSent
  <2>4. CASE target # Everything
    BY <2>2, <2>4 DEF RunnerInv, CallOK
  <2> QED BY <2>3, <2>4
<1>5. ASSUME NEW i \in DOMAIN pending PROVE pending[i].epoch > target
  <2>1. 1 \in DOMAIN pending /\ pending # <<>> /\ i \in Nat /\ i >= 1
    BY <1>3
  <2>2. i > 1 => pending[1].epoch < pending[i].epoch
    BY <1>4, <2>1 DEF RunnerInv, QueueOK
  <2> QED BY <1>2, <1>3, <2>1, <2>2
<1> QED BY <1>1, <1>2, <1>4, <1>5, FinishKeeps

LEMMA StepStopsKeeps == ASSUME RunnerInv, StepStops PROVE RunnerInv'
<1>1. /\ gui = "check" /\ (TargetReached \/ (timed /\ MoreToDo))
      /\ Finish /\ UNCHANGED queue /\ Untouched
  BY DEF StepStops
<1>2. target \in Nat /\ \A i \in DOMAIN pending : pending[i].epoch \in Nat
  BY PendingTypes DEF RunnerInv, TypeOK
<1>3. \A i \in DOMAIN pending : pending[i].epoch # 0
  BY <1>1 DEF RunnerInv, CallOK, TargetReached
<1>4. draining /\ call \in {"input", "settle"} => Settled(target)
  BY <1>1 DEF RunnerInv, CallOK, TargetReached
<1>5. draining /\ call \in {"input", "settle"} =>
        op.kind = "none" /\ \A i \in DOMAIN pending : pending[i].epoch > target
  BY <1>1, <1>2, <1>3, <1>4, SettledIsBehind DEF Outer
<1> QED BY <1>1, <1>3, <1>5, FinishKeeps

LEMMA StepGoesOnKeeps == ASSUME RunnerInv, StepGoesOn PROVE RunnerInv'
<1>1. /\ gui = "check" /\ gui' = (IF draining THEN "drain" ELSE "admit")
      /\ UNCHANGED <<queue, calls>> /\ Untouched
  BY DEF StepGoesOn
<1>2. /\ TypeOK' /\ SentOK' /\ QueueOK' /\ OperationOK' /\ ChainOK' /\ TextOK' /\ EpochOK'
      /\ sent' = sent /\ taken' = taken /\ op' = op /\ pending' = pending
  BY <1>1, CallMoves DEF Outer
<1>3. UNCHANGED <<call, draining, timed, target, frames, answer, inputs>>
  BY <1>1 DEF calls
<1>4. CallOK'
  BY <1>1, <1>2, <1>3 DEF RunnerInv, CallOK, Everything
<1> QED BY <1>2, <1>4 DEF RunnerInv

\* A call's command carries nothing and belongs to no callback.
LEMMA CommandOfCall ==
    ASSUME NEW kind \in {"write", "settle", "terminate"}, NEW request \in Seq(Units), sequence' \in Nat
    PROVE  /\ Command(kind, 0, <<>>, request) \in Commands
           /\ Command(kind, 0, <<>>, request).epoch = 0
           /\ Command(kind, 0, <<>>, request).left = <<>>
           /\ Command(kind, 0, <<>>, request).kind = kind
<1>1. [i \in DOMAIN <<>> |-> Unit(0, i, <<>>[i])] = <<>>
  OBVIOUS
<1>2. Command(kind, 0, <<>>, request)
        = [kind |-> kind, epoch |-> 0, seq |-> sequence', left |-> <<>>, request |-> request]
  BY <1>1 DEF Command
<1> DEFINE c == [kind |-> kind, epoch |-> 0, seq |-> sequence', left |-> <<>>, request |-> request]
<1>3. <<>> \in Seq(Units) /\ kind \in CommandKinds
  BY DEF CommandKinds
<1>4. c \in Commands /\ c.epoch = 0 /\ c.left = <<>> /\ c.kind = kind
  BY <1>3 DEF Commands
<1> HIDE DEF c
<1>5. Command(kind, 0, <<>>, request) = c
  BY <1>2 DEF c
<1> QED BY <1>4, <1>5

\* Where it is put, what it meets stays in its order.
LEMMA QueueTakesCommand ==
    ASSUME RunnerInv, Untouched, gui \in Outer, gui' \in Outer,
           NEW c \in Commands, c.epoch = 0, c.left = <<>>, c.kind \in {"write", "settle", "terminate"},
           pending' = <<c>> \o pending \/ pending' = Append(pending, c)
    PROVE  /\ SentOK' /\ QueueOK' /\ OperationOK' /\ ChainOK' /\ TextOK' /\ EpochOK'
           /\ pending' \in Seq(Commands)
<1>1. UNCHANGED <<sent, taken, op, hold, tail, stash, work, stopped, windowTaken, window, replies,
                  processed, ready, incomplete, applied, ignored, captured>>
  BY DEF Untouched, ingress, text, step, epochs, history
<1>2. pending \in Seq(Commands) /\ Len(pending) \in Nat /\ taken \in Nat
  BY DEF RunnerInv, TypeOK
<1> DEFINE n == Len(pending)
           at(i) == IF pending' = <<c>> \o pending THEN i + 1 ELSE i
           new == IF pending' = <<c>> \o pending THEN 1 ELSE n + 1
<1>3. /\ pending' \in Seq(Commands) /\ DOMAIN pending' = 1..(n + 1) /\ DOMAIN pending = 1..n
      /\ new \in 1..(n + 1) /\ pending'[new] = c
      /\ \A i \in 1..n : pending'[at(i)] = pending[i] /\ at(i) \in 1..(n + 1)
  <2>1. CASE pending' = <<c>> \o pending
    BY <1>2, <2>1
  <2>2. CASE pending' = Append(pending, c) /\ pending' # <<c>> \o pending
    <3>1. /\ Append(pending, c) \in Seq(Commands) /\ DOMAIN Append(pending, c) = 1..(n + 1)
          /\ Append(pending, c)[n + 1] = c /\ \A i \in 1..n : Append(pending, c)[i] = pending[i]
      BY <1>2
    <3>2. new = n + 1 /\ \A i \in 1..n : at(i) = i
      BY <2>2
    <3> HIDE DEF new, at
    <3> QED BY <1>2, <2>2, <3>1, <3>2
  <2> QED BY <2>1, <2>2
<1>4. ASSUME NEW i \in 1..(n + 1) PROVE i = new \/ \E j \in 1..n : i = at(j)
  <2>1. CASE pending' = <<c>> \o pending
    <3>1. i = 1 \/ (i - 1 \in 1..n /\ i = at(i - 1))
      BY <1>2, <2>1
    <3> QED BY <2>1, <3>1
  <2>2. CASE pending' # <<c>> \o pending
    <3>1. i = n + 1 \/ (i \in 1..n /\ i = at(i))
      BY <1>2, <2>2
    <3> QED BY <2>2, <3>1
  <2> QED BY <2>1, <2>2
<1>5. ASSUME NEW i \in 1..n, NEW j \in 1..n, at(i) < at(j) PROVE i < j
  BY <1>2, <1>5
<1> HIDE DEF n, at, new
<1>6. QueueOK'
  <2>1. ASSUME NEW i \in DOMAIN pending' PROVE
          /\ pending'[i].epoch <= taken
          /\ pending'[i].epoch = 0 =>
               pending'[i].kind \in {"write", "settle", "terminate"} /\ pending'[i].left = <<>>
          /\ pending'[i].epoch # 0 =>
               /\ pending'[i].kind \in {"output", "error", "exit"}
               /\ pending'[i].kind = sent[pending'[i].epoch].kind
               /\ pending'[i].left = OutputOf(pending'[i].epoch)
    <3>1. CASE i = new
      BY <1>2, <1>3, <3>1
    <3>2. ASSUME NEW j \in 1..n, i = at(j) PROVE pending'[i] = pending[j] /\ j \in DOMAIN pending
      BY <1>3, <3>2
    <3>3. CASE \E j \in 1..n : i = at(j)
      BY <1>3, <3>2, <3>3 DEF RunnerInv, QueueOK
    <3> QED BY <1>3, <1>4, <3>1, <3>3
  <2>2. ASSUME NEW i \in DOMAIN pending', NEW j \in DOMAIN pending', i < j,
               pending'[i].epoch # 0, pending'[j].epoch # 0
        PROVE  pending'[i].epoch < pending'[j].epoch
    <3>1. i # new /\ j # new
      BY <1>3, <2>2
    <3>2. PICK k \in 1..n : i = at(k)
      BY <1>3, <1>4, <3>1
    <3>3. PICK l \in 1..n : j = at(l)
      BY <1>3, <1>4, <3>1
    <3>4. k < l
      BY <1>5, <2>2, <3>2, <3>3
    <3>5. pending'[i] = pending[k] /\ pending'[j] = pending[l] /\ k \in DOMAIN pending /\ l \in DOMAIN pending
      BY <1>3, <3>2, <3>3
    <3> QED BY <2>2, <3>4, <3>5 DEF RunnerInv, QueueOK
  <2>3. \A e : OutputOf(e)' = OutputOf(e)
    BY <1>1 DEF OutputOf
  <2> QED BY <1>1, <2>1, <2>2, <2>3 DEF QueueOK
<1>7. ASSUME NEW i \in DOMAIN pending', pending'[i].epoch # 0
      PROVE  \E j \in DOMAIN pending : pending'[i] = pending[j]
  <2>1. i # new
    BY <1>3, <1>7
  <2> QED BY <1>3, <1>4, <2>1
<1>8. OperationOK'
  <2>1. \A i \in DOMAIN pending' : pending'[i].epoch # 0 => op.epoch < pending'[i].epoch
    BY <1>7 DEF RunnerInv, OperationOK
  <2> QED BY <1>1, <2>1 DEF RunnerInv, OperationOK, Outer
<1>9. ChainOK'
  <2>1. Chain' = Chain
    BY <1>1 DEF Chain
  <2>2. \A u \in Elements(Chain) : \A i \in DOMAIN pending' : pending'[i].epoch # 0 => u.epoch < pending'[i].epoch
    BY <1>7 DEF RunnerInv, ChainOK
  <2>3. ASSUME NEW e \in 1..taken
        PROVE  (\E i \in DOMAIN pending' : pending'[i].epoch = e) \/ UnitsOf(e) \subseteq Elements(Chain) \cup ignored
    <3>1. ASSUME NEW j \in DOMAIN pending, pending[j].epoch = e
          PROVE  \E i \in DOMAIN pending' : pending'[i].epoch = e
      <4>1. at(j) \in DOMAIN pending' /\ pending'[at(j)] = pending[j]
        BY <1>3
      <4> QED BY <3>1, <4>1
    <3> QED BY <3>1 DEF RunnerInv, ChainOK
  <2>4. \A e : UnitsOf(e)' = UnitsOf(e)
    BY <1>1 DEF UnitsOf
  <2> QED BY <1>1, <2>1, <2>2, <2>3, <2>4 DEF RunnerInv, ChainOK
<1>10. SentOK' /\ TextOK'
  BY <1>1 DEF RunnerInv, SentOK, TextOK, Outer, Source
<1>11. EpochOK'
  <2>1. \A i \in DOMAIN pending' : pending'[i].epoch # 0 => processed < pending'[i].epoch
    BY <1>7 DEF RunnerInv, EpochOK
  <2> QED BY <1>1, <2>1 DEF RunnerInv, EpochOK
<1> QED BY <1>3, <1>6, <1>8, <1>9, <1>10, <1>11

\* Everything that waits is behind the frontier of the call, so its command comes first.
LEMMA DispatchKeeps == ASSUME RunnerInv, Dispatch PROVE RunnerInv'
<1>1. /\ gui = "dispatch" /\ call \in {"input", "settle"}
      /\ sequence' = sequence + 1
      /\ draining' = FALSE /\ timed' = (call = "settle") /\ gui' = "admit"
      /\ UNCHANGED <<call, target, frames, answer, inputs>> /\ Untouched
      /\ pending' = BehindFrontier(IF call = "input" THEN Command("write", 0, <<>>, <<>>)
                                   ELSE Command("settle", 0, <<>>, answer))
  BY DEF Dispatch
<1>2. sequence' \in Nat /\ answer \in Seq(Units) /\ <<>> \in Seq(Units)
      /\ pending \in Seq(Commands) /\ target \in Nat /\ TypeOK
  BY <1>1 DEF RunnerInv, TypeOK
<1>3. PICK c \in Commands : /\ c.epoch = 0 /\ c.left = <<>> /\ c.kind \in {"write", "settle", "terminate"}
                            /\ c.kind # "terminate" /\ pending' = BehindFrontier(c)
  <2>1. CASE call = "input"
    BY <1>1, <1>2, <2>1, CommandOfCall
  <2>2. CASE call = "settle"
    BY <1>1, <1>2, <2>2, CommandOfCall
  <2> QED BY <1>1, <2>1, <2>2
<1>4. /\ op.kind = "none" /\ draining /\ target <= Len(sent) /\ target <= taken
      /\ \A i \in DOMAIN pending : pending[i].epoch > target
  BY <1>1 DEF RunnerInv, CallOK
<1>5. pending' = <<c>> \o pending
  <2> DEFINE Place(j) == /\ \A k \in 1..(j - 1) : pending[k].epoch <= target
                         /\ j <= Len(pending) => pending[j].epoch > target
             i == CHOOSE j \in 1..(Len(pending) + 1) : Place(j)
  <2>1. Place(1) /\ 1 \in 1..(Len(pending) + 1)
    BY <1>2, <1>4
  <2>2. i \in 1..(Len(pending) + 1) /\ Place(i)
    BY <2>1
  <2>3. i = 1
    <3>1. CASE i > 1
      <4>1. 1 \in 1..(i - 1) /\ 1 \in DOMAIN pending
        BY <1>2, <2>2, <3>1
      <4>2. pending[1].epoch <= target /\ pending[1].epoch > target /\ pending[1].epoch \in Nat
        BY <1>2, <1>4, <2>2, <4>1, PendingTypes
      <4> QED BY <1>2, <4>2
    <3> QED BY <2>2, <3>1
  <2>4. pending' = InsertAt(pending, i, c)
    BY <1>3 DEF BehindFrontier
  <2>5. SubSeq(pending, 1, 0) = <<>> /\ SubSeq(pending, 1, Len(pending)) = pending
    BY <1>2
  <2> HIDE DEF i
  <2>6. pending' = (SubSeq(pending, 1, 0) \o <<c>>) \o SubSeq(pending, 1, Len(pending))
    BY <2>3, <2>4 DEF InsertAt
  <2> QED BY <1>2, <2>5, <2>6
<1>6. /\ SentOK' /\ QueueOK' /\ OperationOK' /\ ChainOK' /\ TextOK' /\ EpochOK'
      /\ pending' \in Seq(Commands)
  BY <1>1, <1>3, <1>5, QueueTakesCommand DEF Outer
<1>7. TypeOK'
  BY <1>1, <1>2, <1>6, UntouchedTypes DEF TypeOK, Places
<1>8. CallOK'
  <2>1. sent' = sent /\ taken' = taken /\ op' = op
    BY <1>1 DEF Untouched, ingress
  <2>2. \A i \in DOMAIN pending : pending[i].epoch \in Nat
    BY <1>2, PendingTypes
  <2>3. ASSUME NEW i \in DOMAIN pending' PROVE i = 1 \/ pending'[i].epoch > target
    BY <1>2, <1>3, <1>4, <1>5
  <2>4. pending'[1] = c /\ \A i \in DOMAIN pending' : pending'[i].epoch # 0 => pending'[i].epoch > target
    BY <1>2, <1>3, <1>5, <2>3
  <2>5. \A i \in DOMAIN pending' : pending'[i].epoch = 0 => i = 1
    BY <1>2, <2>3
  <2> QED BY <1>1, <1>2, <1>4, <2>1, <2>4, <2>5 DEF RunnerInv, CallOK, Everything
<1> QED BY <1>6, <1>7, <1>8 DEF RunnerInv

LEMMA EnqueueTerminateKeeps == ASSUME RunnerInv, EnqueueTerminate PROVE RunnerInv'
<1> DEFINE c == Command("terminate", 0, <<>>, <<>>)
<1>1. /\ gui = "dispatch" /\ call = "terminate" /\ sequence' = sequence + 1
      /\ gui' = "drain" /\ call' = "posted" /\ pending' = Append(pending, c)
      /\ UNCHANGED <<draining, timed, target, frames, answer, inputs>> /\ Untouched
  BY DEF EnqueueTerminate
<1>2. sequence' \in Nat /\ <<>> \in Seq(Units) /\ pending \in Seq(Commands) /\ TypeOK
  BY <1>1 DEF RunnerInv, TypeOK
<1>3. c \in Commands /\ c.epoch = 0 /\ c.left = <<>> /\ c.kind = "terminate"
  BY <1>2, CommandOfCall
<1> HIDE DEF c
<1>4. /\ SentOK' /\ QueueOK' /\ OperationOK' /\ ChainOK' /\ TextOK' /\ EpochOK'
      /\ pending' \in Seq(Commands)
  BY <1>1, <1>3, QueueTakesCommand DEF Outer
<1>5. TypeOK'
  BY <1>1, <1>2, <1>4, UntouchedTypes DEF TypeOK, Places, Calls
<1>6. CallOK'
  <2>1. sent' = sent /\ taken' = taken /\ op' = op
    BY <1>1 DEF Untouched, ingress
  <2>2. \A i \in DOMAIN pending : pending[i].epoch # 0
    BY <1>1 DEF RunnerInv, CallOK
  <2>3. draining /\ ~timed /\ target = Everything
    BY <1>1 DEF RunnerInv, CallOK
  <2>4. \A i \in DOMAIN pending' : pending'[i].epoch = 0 => pending'[i].kind = "terminate"
    BY <1>1, <1>2, <1>3, <2>2
  <2> QED BY <1>1, <2>1, <2>3, <2>4 DEF RunnerInv, CallOK, Everything
<1> QED BY <1>4, <1>5, <1>6 DEF RunnerInv
-----------------------------------------------------------------------------
(***************************************************************************)
(* The processed epoch.                                                    *)
(***************************************************************************)
LEMMA FlushKeeps ==
    ASSUME NEW e \in Nat, FlushReady(e), processed \in Nat, taken' \in Nat, e <= taken',
           processed <= taken', op'.epoch \in Nat, incomplete' \in Nat,
           \A i \in DOMAIN pending' : pending'[i].epoch \in Nat,
           \A i \in DOMAIN pending' : pending'[i].epoch # 0 => processed < pending'[i].epoch,
           op'.phase # "retired" /\ op'.epoch # 0 => processed < op'.epoch /\ op'.epoch # e,
           incomplete' # 0 => processed < incomplete'
    PROVE  /\ processed' \in Nat /\ ready' \in Nat
           /\ processed' <= taken' /\ ready' <= taken'
           /\ \A i \in DOMAIN pending' : pending'[i].epoch # 0 => processed' < pending'[i].epoch
           /\ op'.phase # "retired" /\ op'.epoch # 0 => processed' < op'.epoch
           /\ incomplete' # 0 => processed' < incomplete'
<1>1. CASE e = 0 \/ (incomplete' # 0 /\ e >= incomplete') \/ Blocked(e)
  <2>1. ready' = e /\ processed' = processed
    BY <1>1 DEF FlushReady
  <2> QED BY <2>1
<1>2. CASE ~(e = 0 \/ (incomplete' # 0 /\ e >= incomplete') \/ Blocked(e))
  <2>1. ready' = 0 /\ processed' = Later(processed, e)
    BY <1>2 DEF FlushReady
  <2>2. processed' \in Nat /\ (processed' = processed \/ processed' = e) /\ processed' <= taken'
    BY <2>1 DEF Later
  <2>3. ASSUME NEW i \in DOMAIN pending', pending'[i].epoch # 0 PROVE processed' < pending'[i].epoch
    <3>1. pending'[i].epoch \in Nat /\ pending'[i].epoch \notin 1..e /\ processed < pending'[i].epoch
      BY <1>2, <2>3 DEF Blocked
    <3> QED BY <2>2, <2>3, <3>1
  <2>4. op'.phase # "retired" /\ op'.epoch # 0 => processed' < op'.epoch
    BY <1>2, <2>2 DEF Blocked
  <2>5. incomplete' # 0 => processed' < incomplete'
    BY <1>2, <2>2
  <2> QED BY <2>1, <2>2, <2>3, <2>4, <2>5
<1> QED BY <1>1, <1>2

(***************************************************************************)
(* The ingress.                                                            *)
(***************************************************************************)
\* What a callback leaves in the queue as it is taken, and where the epochs stand then.
LEMMA DrainKeeps ==
    ASSUME RunnerInv, DrainNext,
           \/ pending' = pending /\ UnitsOf(NextEpoch) \subseteq ignored'
           \/ /\ sent[NextEpoch].kind # "overflow"
              /\ pending' = Append(pending, Command(sent[NextEpoch].kind, NextEpoch, sent[NextEpoch].units, <<>>)),
           ignored \subseteq ignored', ignored' \subseteq Units,
           \/ pending' = pending /\ Advance(NextEpoch)
           \/ UNCHANGED <<processed, ready>>,
           stopRequested' \in BOOLEAN, stopSequence' \in Nat
    PROVE  RunnerInv'
<1> DEFINE e == taken + 1
<1>1. /\ gui = "drain" /\ taken < Len(sent) /\ taken' = e /\ sequence' = sequence + 1
      /\ UNCHANGED <<sent, op, hold, tail, stash, work, stopped, windowTaken, window, replies, incomplete,
                     exited, gui, call, draining, timed, target, frames, answer, inputs, applied, captured>>
  BY DEF DrainNext, CanTake, NextEpoch, text, step, calls
<1>2. /\ TypeOK /\ taken \in Nat /\ Len(sent) \in Nat /\ e \in 1..Len(sent) /\ e \in Nat
      /\ sent \in Seq(Sent) /\ pending \in Seq(Commands) /\ sequence \in Nat /\ op.epoch \in Nat
      /\ processed \in Nat /\ ready \in Nat /\ incomplete \in Nat
  <2>1. TypeOK /\ Len(sent) \in Nat /\ taken \in Nat /\ op \in Operations
    BY DEF RunnerInv, TypeOK
  <2> QED BY <1>1, <2>1 DEF TypeOK, Operations
<1>3. /\ OutputOf(e) \in Seq(Units) /\ Elements(OutputOf(e)) = UnitsOf(e)
      /\ UnitsOf(e) \subseteq Units
  BY <1>2, OutputIsASequence DEF RunnerInv
<1> DEFINE x == sent[e]
           c == Command(x.kind, e, x.units, <<>>)
<1>4. NextEpoch = e
  BY DEF NextEpoch
<1>5. ASSUME x.kind # "overflow"
      PROVE  /\ c \in Commands /\ c.epoch = e /\ c.kind = x.kind /\ c.left = OutputOf(e)
             /\ x.kind \in {"output", "error", "exit"}
  <2>0. x \in Sent
    BY <1>2
  <2>1. x.kind \in {"output", "error", "exit"} /\ sequence' \in Nat /\ <<>> \in Seq(Units)
    BY <1>1, <1>2, <1>5, <2>0 DEF Sent
  <2>2. c = [kind |-> x.kind, epoch |-> e, seq |-> sequence', left |-> OutputOf(e), request |-> <<>>]
    BY DEF Command, OutputOf
  <2> HIDE DEF c, e, x
  <2>3. x.kind \in CommandKinds
    BY <2>1 DEF CommandKinds
  <2> QED BY <1>2, <1>3, <2>1, <2>2, <2>3 DEF Commands
<1> HIDE DEF c
<1> DEFINE n == Len(pending)
<1>6. CASE pending' = pending /\ UnitsOf(e) \subseteq ignored'
  <2>1. \A i \in DOMAIN pending : pending[i].epoch \in Nat /\ pending[i].epoch <= taken
    BY <1>2, PendingTypes DEF RunnerInv, QueueOK
  <2>2. TypeOK' /\ processed' <= taken' /\ ready' <= taken'
        /\ (\A i \in DOMAIN pending : pending[i].epoch # 0 => processed' < pending[i].epoch)
        /\ (op.phase # "retired" /\ op.epoch # 0 => processed' < op.epoch)
        /\ (incomplete # 0 => processed' < incomplete)
    <3>1. /\ processed <= taken /\ ready <= taken
          /\ \A i \in DOMAIN pending : pending[i].epoch # 0 => processed < pending[i].epoch
          /\ op.phase # "retired" /\ op.epoch # 0 => processed < op.epoch
          /\ incomplete # 0 => processed < incomplete
          /\ op.epoch <= taken
      BY DEF RunnerInv, EpochOK, OperationOK
    <3>2. /\ processed' \in Nat /\ ready' \in Nat /\ processed' <= taken' /\ ready' <= taken'
          /\ \A i \in DOMAIN pending : pending[i].epoch # 0 => processed' < pending[i].epoch
          /\ op.phase # "retired" /\ op.epoch # 0 => processed' < op.epoch
          /\ incomplete # 0 => processed' < incomplete
      <4>1. CASE UNCHANGED <<processed, ready>>
        BY <1>1, <1>2, <3>1, <4>1
      <4>2. CASE Advance(NextEpoch)
        <5>1. Later(ready, e) = e
          BY <1>2, <3>1 DEF Later
        <5>2. FlushReady(e)
          BY <1>4, <4>2, <5>1 DEF Advance
        <5>3. processed <= taken' /\ op'.epoch # e /\ e <= taken' /\ taken' \in Nat
          BY <1>1, <1>2, <3>1
        <5> HIDE DEF e
        <5> QED BY <1>1, <1>2, <1>6, <2>1, <3>1, <5>2, <5>3, FlushKeeps
      <4> QED BY <4>1, <4>2
    <3>3. TypeOK'
      BY <1>1, <1>2, <1>6, <3>2 DEF TypeOK
    <3> QED BY <3>2, <3>3
  <2>3. SentOK' /\ QueueOK'
    BY <1>1, <1>2, <1>6, <2>1 DEF RunnerInv, SentOK, QueueOK, OutputOf
  <2>4. OperationOK' /\ TextOK' /\ EpochOK'
    BY <1>1, <1>2, <1>6, <2>2 DEF RunnerInv, OperationOK, TextOK, Source, EpochOK
  <2>5. ChainOK'
    <3>1. Chain' = Chain /\ \A k : UnitsOf(k)' = UnitsOf(k)
      BY <1>1 DEF Chain, UnitsOf
    <3>2. \A u \in Elements(Chain) : u.epoch \in Nat /\ u.epoch <= e
      <4>1. \A u \in Elements(Chain) : u.epoch \in Nat /\ u.epoch <= taken
        BY <1>2, ChainUnits DEF RunnerInv, ChainOK
      <4> QED BY <1>2, <4>1
    <3>3. \A k \in 1..e : k = e \/ k \in 1..taken
      BY <1>2
    <3>4. ASSUME NEW k \in 1..taken
          PROVE  (\E i \in DOMAIN pending : pending[i].epoch = k) \/ UnitsOf(k) \subseteq Elements(Chain) \cup ignored'
      BY DEF RunnerInv, ChainOK
    <3>5. Rising(Chain) /\ \A u \in Elements(Chain) : \A i \in DOMAIN pending :
              pending[i].epoch # 0 => u.epoch < pending[i].epoch
      BY DEF RunnerInv, ChainOK
    <3> HIDE DEF e
    <3>6. \A k \in 1..e : (\E i \in DOMAIN pending : pending[i].epoch = k) \/ UnitsOf(k) \subseteq Elements(Chain) \cup ignored'
      BY <1>6, <3>3, <3>4
    <3> QED BY <1>1, <1>6, <3>1, <3>2, <3>5, <3>6 DEF ChainOK
  <2>6. CallOK'
    BY <1>1, <1>2, <1>6 DEF RunnerInv, CallOK, Everything
  <2> QED BY <2>2, <2>3, <2>4, <2>5, <2>6 DEF RunnerInv
<1>7. CASE x.kind # "overflow" /\ pending' = Append(pending, c) /\ UNCHANGED <<processed, ready>>
  <2>1. \A i \in DOMAIN pending : pending[i].epoch \in Nat /\ pending[i].epoch <= taken
    BY <1>2, PendingTypes DEF RunnerInv, QueueOK
  <2>2. /\ c \in Commands /\ c.epoch = e /\ c.kind = x.kind /\ c.left = OutputOf(e)
        /\ c.kind \in {"output", "error", "exit"}
    BY <1>5, <1>7
  <2>3. /\ pending' \in Seq(Commands) /\ DOMAIN pending' = 1..(n + 1) /\ DOMAIN pending = 1..n /\ n \in Nat
        /\ pending'[n + 1] = c /\ \A i \in 1..n : pending'[i] = pending[i]
    BY <1>2, <1>7, <2>2
  <2>4. TypeOK'
    <3>0. UNCHANGED <<processed, ready>>
      BY <1>7
    <3>1. /\ sequence' \in Nat /\ taken' \in Nat /\ processed' \in Nat /\ ready' \in Nat
          /\ incomplete' \in Nat
      BY <1>1, <1>2, <3>0
    <3>2. pending' \in Seq(Commands)
      BY <2>3
    <3> HIDE DEF e, x, n
    <3> QED BY <1>1, <1>2, <3>1, <3>2 DEF TypeOK
  <2> HIDE DEF n, x
  <2>5. ASSUME NEW i \in 1..(n + 1) PROVE i = n + 1 \/ i \in 1..n
    BY <2>3
  <2>6. QueueOK' /\ SentOK'
    <3>1. \A k : OutputOf(k)' = OutputOf(k)
      BY <1>1 DEF OutputOf
    <3>2. ASSUME NEW i \in 1..(n + 1) PROVE
          /\ pending'[i].epoch <= e
          /\ pending'[i].epoch = 0 =>
               pending'[i].kind \in {"write", "settle", "terminate"} /\ pending'[i].left = <<>>
          /\ pending'[i].epoch # 0 =>
               /\ pending'[i].kind \in {"output", "error", "exit"}
               /\ pending'[i].kind = sent[pending'[i].epoch].kind
               /\ pending'[i].left = OutputOf(pending'[i].epoch)
      <4>1. CASE i = n + 1
        BY <1>2, <2>2, <2>3, <4>1 DEF x
      <4>2. CASE i \in 1..n
        <5>1. pending'[i] = pending[i] /\ i \in DOMAIN pending
          BY <2>3, <4>2
        <5>2. pending[i].epoch <= e
          BY <1>2, <2>1, <5>1
        <5> HIDE DEF e
        <5> QED BY <5>1, <5>2 DEF RunnerInv, QueueOK
      <4> QED BY <2>5, <4>1, <4>2
    <3>3. ASSUME NEW i \in 1..(n + 1), NEW j \in 1..(n + 1), i < j, pending'[i].epoch # 0, pending'[j].epoch # 0
          PROVE  pending'[i].epoch < pending'[j].epoch
      <4>1. i \in 1..n
        BY <2>3, <3>3
      <4>2. CASE j = n + 1
        <5>1. pending'[i] = pending[i] /\ pending'[j] = c
          BY <2>3, <4>1, <4>2
        <5>2. pending[i].epoch \in Nat /\ pending[i].epoch <= taken
          BY <2>1, <2>3, <4>1
        <5> QED BY <1>2, <2>2, <5>1, <5>2
      <4>3. CASE j \in 1..n
        BY <2>3, <3>3, <4>1, <4>3 DEF RunnerInv, QueueOK
      <4> QED BY <2>5, <4>2, <4>3
    <3>4. SentOK'
      BY <1>1, <1>2 DEF RunnerInv, SentOK
    <3> QED BY <1>1, <2>3, <3>1, <3>2, <3>3, <3>4 DEF QueueOK
  <2>7. \A i \in DOMAIN pending' : i = n + 1 \/ (i \in DOMAIN pending /\ pending'[i] = pending[i])
    BY <2>3, <2>5
  <2>8. OperationOK'
    <3>1. op.epoch <= taken
      BY DEF RunnerInv, OperationOK
    <3>2. op.epoch < e /\ op.epoch <= e
      BY <1>2, <3>1
    <3>3. \A i \in DOMAIN pending' : pending'[i].epoch # 0 => op.epoch < pending'[i].epoch
      BY <2>2, <2>3, <2>7, <3>2 DEF RunnerInv, OperationOK
    <3> HIDE DEF e
    <3> QED BY <1>1, <3>2, <3>3 DEF RunnerInv, OperationOK
  <2>9. ChainOK'
    <3>1. Chain' = Chain /\ \A k : UnitsOf(k)' = UnitsOf(k)
      BY <1>1 DEF Chain, UnitsOf
    <3>2. \A u \in Elements(Chain) : u.epoch \in Nat /\ u.epoch <= taken
      BY <1>2, ChainUnits DEF RunnerInv, ChainOK
    <3>3. \A u \in Elements(Chain) : u.epoch < e /\ u.epoch <= e
      BY <1>2, <3>2
    <3>4. \A u \in Elements(Chain) : \A i \in DOMAIN pending' : pending'[i].epoch # 0 => u.epoch < pending'[i].epoch
      BY <2>2, <2>3, <2>7, <3>3 DEF RunnerInv, ChainOK
    <3>5. \A k \in 1..e : k = e \/ k \in 1..taken
      BY <1>2
    <3>6. ASSUME NEW k \in 1..taken
          PROVE  (\E i \in DOMAIN pending' : pending'[i].epoch = k) \/ UnitsOf(k) \subseteq Elements(Chain) \cup ignored
      <4>1. ASSUME NEW j \in DOMAIN pending, pending[j].epoch = k
            PROVE  \E i \in DOMAIN pending' : pending'[i].epoch = k
        <5>1. j \in DOMAIN pending' /\ pending'[j] = pending[j]
          BY <2>3
        <5> QED BY <4>1, <5>1
      <4> QED BY <4>1 DEF RunnerInv, ChainOK
    <3>7. n + 1 \in DOMAIN pending' /\ pending'[n + 1].epoch = e
      BY <2>2, <2>3
    <3> HIDE DEF e
    <3> QED BY <1>1, <3>1, <3>3, <3>4, <3>5, <3>6, <3>7 DEF RunnerInv, ChainOK
  <2>10. TextOK'
    BY <1>1 DEF RunnerInv, TextOK, Source
  <2>11. EpochOK'
    <3>1. processed <= taken /\ ready <= taken
      BY DEF RunnerInv, EpochOK
    <3>2. processed < e /\ processed <= e /\ ready <= e
      BY <1>2, <3>1
    <3>3. \A i \in DOMAIN pending' : pending'[i].epoch # 0 => processed < pending'[i].epoch
      BY <2>2, <2>3, <2>7, <3>2 DEF RunnerInv, EpochOK
    <3> HIDE DEF e
    <3> QED BY <1>1, <1>7, <3>2, <3>3 DEF RunnerInv, EpochOK
  <2>12. CallOK'
    <3>1. \A i \in DOMAIN pending' : pending'[i].epoch = 0 => i \in DOMAIN pending /\ pending'[i] = pending[i]
      BY <1>2, <2>2, <2>3, <2>7
    <3>2. draining /\ gui = "drain" /\ taken <= e
      BY <1>1, <1>2 DEF RunnerInv, CallOK
    <3> HIDE DEF e
    <3> QED BY <1>1, <3>1, <3>2 DEF RunnerInv, CallOK, Everything
  <2> QED BY <2>4, <2>6, <2>8, <2>9, <2>10, <2>11, <2>12 DEF RunnerInv
<1>8. ASSUME x.kind # "overflow" /\ pending' = Append(pending, c) PROVE pending' # pending
  BY <1>2, <1>5, <1>8
<1> QED BY <1>4, <1>6, <1>7, <1>8 DEF c

LEMMA DrainsKeep ==
    ASSUME RunnerInv, DrainOverflow \/ DrainIgnored \/ DrainQueued
    PROVE  RunnerInv'
<1>1. /\ stopRequested \in BOOLEAN /\ stopSequence \in Nat /\ sequence \in Nat
      /\ ignored \subseteq Units /\ TypeOK /\ SentOK /\ taken \in Nat /\ Len(sent) \in Nat
  BY DEF RunnerInv, TypeOK
<1>2. ASSUME DrainNext PROVE NextEpoch \in 1..Len(sent) /\ sequence' \in Nat
  BY <1>1, <1>2 DEF DrainNext, CanTake, NextEpoch
<1>3. CASE DrainOverflow
  <2>1. DrainNext /\ pending' = pending /\ ignored' = ignored /\ Advance(NextEpoch)
    BY <1>3 DEF DrainOverflow
  <2>2. sent[NextEpoch].kind = "overflow"
    BY <1>3 DEF DrainOverflow
  <2>3. UnitsOf(NextEpoch) = {}
    BY <1>1, <1>2, <2>1, <2>2, OutputIsASequence, ElementsOf
  <2>4. stopRequested' \in BOOLEAN /\ stopSequence' \in Nat
    BY <1>1, <1>2, <1>3, <2>1 DEF DrainOverflow
  <2> QED BY <1>1, <2>1, <2>3, <2>4, DrainKeeps
<1>4. CASE DrainIgnored
  <2>1. /\ DrainNext /\ pending' = pending /\ ignored' = ignored \cup UnitsOf(NextEpoch) /\ Advance(NextEpoch)
        /\ stopRequested' = stopRequested /\ stopSequence' = stopSequence
    BY <1>4 DEF DrainIgnored
  <2>2. UnitsOf(NextEpoch) \subseteq Units
    BY <1>1, <1>2, <2>1, OutputIsASequence
  <2> QED BY <1>1, <2>1, <2>2, DrainKeeps
<1>5. CASE DrainQueued
  BY <1>1, <1>5, DrainKeeps DEF DrainQueued
<1> QED BY <1>3, <1>4, <1>5
-----------------------------------------------------------------------------
(***************************************************************************)
(* The operation.                                                          *)
(***************************************************************************)
LEMMA OperationTypes ==
    ASSUME TypeOK
    PROVE  /\ op \in Operations /\ op.kind \in CommandKinds \cup {"none"} /\ op.epoch \in Nat
           /\ op.left \in Seq(Units) /\ op.request \in Seq(Units) /\ op.phase \in Phases
           /\ op.owns \in BOOLEAN /\ op.rearm \in BOOLEAN /\ op.seq \in Nat
           /\ NoOperation \in Operations
<1>1. op \in Operations
  BY DEF TypeOK
<1>2. NoOperation \in Operations
  BY DEF NoOperation, Operations, Phases
<1> QED BY <1>1, <1>2 DEF Operations

\* The first command becomes the operation; what it carries is behind everything else.
LEMMA AdmissionKeeps ==
    ASSUME RunnerInv, StepBegins, op.kind = "none"
    PROVE  RunnerInv'
<1> DEFINE c == pending[1]
           n == Len(pending)
<1>1. /\ TypeOK /\ pending \in Seq(Commands) /\ n \in Nat /\ target \in Nat /\ taken \in Nat
      /\ processed \in Nat
  BY DEF RunnerInv, TypeOK
<1>2. /\ gui = "admit" /\ pending # <<>> /\ op = NoOperation
      /\ op' = [kind |-> c.kind, epoch |-> c.epoch, seq |-> c.seq, left |-> c.left,
                request |-> c.request, phase |-> "new", owns |-> FALSE, rearm |-> FALSE]
      /\ pending' = Tail(pending)
      /\ stopped' = FALSE /\ windowTaken' = FALSE /\ window' = 0 /\ gui' = "step"
      /\ UNCHANGED <<sequence, sent, taken, hold, tail, stash, work, replies, processed, ready, incomplete,
                     stopRequested, stopSequence, exited, call, draining, timed, target, frames, answer,
                     inputs, applied, ignored, captured>>
  BY <1>1 DEF StepBegins, NothingToAdmit, RunnerInv, OperationOK, ingress, text, epochs, stops, calls, history
<1>3. /\ 1 \in DOMAIN pending /\ c \in Commands
      /\ DOMAIN pending' = 1..(n - 1) /\ DOMAIN pending = 1..n /\ n >= 1
      /\ pending' \in Seq(Commands)
      /\ \A i \in 1..(n - 1) : pending'[i] = pending[i + 1] /\ i + 1 \in 1..n /\ 1 < i + 1
  BY <1>1, <1>2
<1>4. /\ c.kind \in CommandKinds /\ c.epoch \in Nat /\ c.seq \in Nat /\ c.left \in Seq(Units)
      /\ c.request \in Seq(Units)
  BY <1>3 DEF Commands
<1>5. /\ c.epoch <= taken
      /\ c.epoch = 0 => c.kind \in {"write", "settle", "terminate"} /\ c.left = <<>>
      /\ c.epoch # 0 => /\ c.kind \in {"output", "error", "exit"}
                        /\ c.kind = sent[c.epoch].kind /\ c.left = OutputOf(c.epoch)
  BY <1>3 DEF RunnerInv, QueueOK
<1>6. c.epoch # 0 => c.epoch \in 1..Len(sent) /\ c.epoch \in 1..taken
  <2>1. taken <= Len(sent) /\ Len(sent) \in Nat
    BY DEF RunnerInv, SentOK, TypeOK
  <2> HIDE DEF c
  <2> QED BY <1>1, <1>4, <1>5, <2>1
<1>7. /\ Rising(c.left) /\ \A u \in Elements(c.left) : u.epoch = c.epoch
      /\ c.epoch = 0 => Elements(c.left) = {}
      /\ c.epoch # 0 => Elements(c.left) = UnitsOf(c.epoch)
      /\ (c.left # <<>>) <=> (c.kind = "output")
  <2>1. CASE c.epoch = 0
    BY <1>5, <2>1 DEF Rising, Elements
  <2>2. CASE c.epoch # 0
    <3>1. TypeOK /\ SentOK
      BY DEF RunnerInv
    <3> DEFINE e == c.epoch
    <3>2. e \in 1..Len(sent)
      BY <1>6, <2>2
    <3>3. c.left = OutputOf(e) /\ c.kind = sent[e].kind
      BY <1>5, <2>2
    <3> HIDE DEF e
    <3>4. /\ Rising(OutputOf(e)) /\ Elements(OutputOf(e)) = UnitsOf(e)
          /\ \A u \in UnitsOf(e) : u.epoch = e
          /\ (OutputOf(e) = <<>>) <=> (sent[e].kind # "output")
      BY <3>1, <3>2, OutputIsASequence
    <3>5. c.epoch = e
      BY DEF e
    <3> QED BY <2>2, <3>3, <3>4, <3>5
  <2> QED BY <2>1, <2>2
<1>8. ASSUME NEW i \in 1..(n - 1), pending'[i].epoch # 0 PROVE c.epoch < pending'[i].epoch
  <2>1. pending'[i] = pending[i + 1] /\ i + 1 \in DOMAIN pending /\ 1 < i + 1
    BY <1>3
  <2>2. pending[i + 1].epoch \in Nat
    BY <1>1, <2>1, PendingTypes
  <2>3. c.epoch # 0 => c.epoch < pending[i + 1].epoch
    BY <1>3, <1>8, <2>1 DEF RunnerInv, QueueOK
  <2> QED BY <1>4, <1>8, <2>1, <2>2, <2>3
<1>9. op' \in Operations /\ op'.kind = c.kind /\ op'.epoch = c.epoch /\ op'.left = c.left
      /\ op'.phase = "new" /\ op'.owns = FALSE
  BY <1>2, <1>4 DEF Operations, Phases
<1> HIDE DEF c, n
<1>10. \A i \in DOMAIN pending' : i + 1 \in DOMAIN pending /\ pending'[i] = pending[i + 1] /\ 1 < i + 1 /\ i \in Nat
  BY <1>3
<1>11. TypeOK'
  <2>1. gui' \in Places
    BY <1>2 DEF Places
  <2> QED BY <1>1, <1>2, <1>3, <1>9, <2>1 DEF TypeOK
<1>12. SentOK' /\ QueueOK'
  <2>1. \A e : OutputOf(e)' = OutputOf(e)
    BY <1>2 DEF OutputOf
  <2>2. ASSUME NEW i \in DOMAIN pending', NEW j \in DOMAIN pending', i < j,
               pending'[i].epoch # 0, pending'[j].epoch # 0
        PROVE  pending'[i].epoch < pending'[j].epoch
    <3>1. i + 1 < j + 1
      BY <1>10, <2>2
    <3> QED BY <1>10, <2>2, <3>1 DEF RunnerInv, QueueOK
  <2>3. SentOK'
    BY <1>2 DEF RunnerInv, SentOK
  <2> QED BY <1>2, <1>10, <2>1, <2>2, <2>3 DEF RunnerInv, QueueOK
<1>13. OperationOK'
  <2>1. \A i \in DOMAIN pending' : pending'[i].epoch # 0 => op'.epoch < pending'[i].epoch
    BY <1>3, <1>8, <1>9
  <2>2. replies' = <<>>
    BY <1>2 DEF RunnerInv, OperationOK
  <2>3. op'.epoch <= taken' /\ (op'.epoch # 0 <=> op'.kind \in {"output", "error", "exit"})
    BY <1>2, <1>5, <1>9
  <2> QED BY <1>2, <1>4, <1>7, <1>9, <2>1, <2>2, <2>3 DEF OperationOK, CommandKinds
<1>14. Chain' = Cat(Chain, c.left)
  <2>1. op.left = <<>>
    BY <1>2 DEF NoOperation
  <2>2. Cat(tail, op.left) = tail
    BY <1>1, <2>1 DEF TypeOK, Cat
  <2>3. Chain = Line(applied, hold, stash, tail)
    BY <2>2, ChainIsALine
  <2>4. Chain' = Line(applied, hold, stash, Cat(tail, c.left))
    BY <1>2, <1>9 DEF Chain, Line, Cat
  <2> QED BY <1>1, <1>4, <2>3, <2>4, LineGrows DEF TypeOK
<1>15. ChainOK'
  <2> DEFINE t == Chain
  <2>1. t \in Seq(Units) /\ (\A u \in Elements(t) : u \in Units /\ u.epoch \in Nat)
    BY <1>1, ChainOfPlaces, ChainUnits
  <2>2. /\ Rising(t) /\ \A u \in Elements(t) : u.epoch <= taken
        /\ \A u \in Elements(t) : \A i \in DOMAIN pending : pending[i].epoch # 0 => u.epoch < pending[i].epoch
        /\ \A e \in 1..taken : \/ \E i \in DOMAIN pending : pending[i].epoch = e
                               \/ UnitsOf(e) \subseteq Elements(t) \cup ignored
    BY DEF RunnerInv, ChainOK
  <2>3. Chain' = Cat(t, c.left)
    BY <1>14
  <2>4. \A e : UnitsOf(e)' = UnitsOf(e)
    BY <1>2 DEF UnitsOf
  <2> HIDE DEF t
  <2>5. Elements(Cat(t, c.left)) = Elements(t) \cup Elements(c.left)
    BY <1>4, <2>1, UnitsJoined
  <2>6. ASSUME NEW x \in Elements(t), NEW y \in Elements(c.left) PROVE Before(x, y)
    <3>1. c.epoch # 0 /\ y.epoch = c.epoch
      BY <1>7, <2>6
    <3>2. x.epoch < c.epoch
      BY <1>3, <2>2, <3>1 DEF c
    <3> QED BY <3>1, <3>2 DEF Before
  <2>7. Rising(Cat(t, c.left))
    BY <1>4, <1>7, <2>1, <2>2, <2>6, RisingJoin
  <2>8. \A u \in Elements(t) \cup Elements(c.left) : u.epoch <= taken
    BY <1>5, <1>7, <2>2
  <2>9. ASSUME NEW u \in Elements(t) \cup Elements(c.left), NEW i \in DOMAIN pending', pending'[i].epoch # 0
        PROVE  u.epoch < pending'[i].epoch
    <3>1. CASE u \in Elements(t)
      BY <1>10, <2>2, <2>9, <3>1
    <3>2. CASE u \in Elements(c.left)
      BY <1>3, <1>7, <1>8, <2>9, <3>2
    <3> QED BY <3>1, <3>2
  <2>10. ASSUME NEW e \in 1..taken
         PROVE  \/ \E i \in DOMAIN pending' : pending'[i].epoch = e
                \/ UnitsOf(e) \subseteq (Elements(t) \cup Elements(c.left)) \cup ignored
    <3>1. ASSUME NEW i \in DOMAIN pending, pending[i].epoch = e
          PROVE  \/ \E j \in DOMAIN pending' : pending'[j].epoch = e
                 \/ UnitsOf(e) \subseteq Elements(c.left)
      <4>1. CASE i = 1
        BY <1>7, <3>1, <4>1 DEF c
      <4>2. CASE i # 1
        <5>1. i - 1 \in 1..(n - 1) /\ (i - 1) + 1 = i
          BY <1>1, <1>3, <4>2 DEF n
        <5>2. i - 1 \in DOMAIN pending' /\ pending'[i - 1] = pending[i]
          BY <1>3, <5>1
        <5> QED BY <3>1, <5>2
      <4> QED BY <4>1, <4>2
    <3> QED BY <2>2, <3>1
  <2> QED BY <1>2, <2>3, <2>4, <2>5, <2>7, <2>8, <2>9, <2>10 DEF ChainOK
<1>16. TextOK'
  <2>1. op.phase = "retired"
    BY <1>2 DEF NoOperation
  <2>2. ~work /\ (hold = <<>> => tail = <<>>)
    BY <2>1 DEF RunnerInv, TextOK
  <2> QED BY <1>2, <1>9, <2>2 DEF RunnerInv, TextOK
<1>17. EpochOK'
  <2>1. op.phase = "retired"
    BY <1>2 DEF NoOperation
  <2>2. c.epoch # 0 => processed < c.epoch
    BY <1>3 DEF RunnerInv, EpochOK, c
  <2>3. \A i \in DOMAIN pending' : pending'[i].epoch # 0 => processed < pending'[i].epoch
    BY <1>10 DEF RunnerInv, EpochOK
  <2> QED BY <1>2, <1>9, <2>1, <2>2, <2>3 DEF RunnerInv, EpochOK
<1>18. CallOK'
  <2>1. ASSUME NEW i \in DOMAIN pending', pending'[i].epoch = 0
        PROVE  call = "posted" /\ draining /\ ~timed /\ target = Everything /\ pending'[i].kind = "terminate"
    BY <1>10, <2>1 DEF RunnerInv, CallOK
  <2>2. gui # "idle" /\ ~draining => \A i \in DOMAIN pending' : pending'[i].epoch # 0 => target < pending'[i].epoch
    BY <1>10 DEF RunnerInv, CallOK
  <2> QED BY <1>2, <2>1, <2>2 DEF RunnerInv, CallOK, Everything
<1> QED BY <1>11, <1>12, <1>13, <1>15, <1>16, <1>17, <1>18 DEF RunnerInv

\* An open operation goes on where the step before left it.
LEMMA StepBeginsKeeps == ASSUME RunnerInv, StepBegins PROVE RunnerInv'
<1>1. CASE op.kind = "none"
  BY <1>1, AdmissionKeeps
<1>2. CASE op.kind # "none"
  <2>1. gui = "admit" /\ op.phase \in {"source", "tail", "exit"}
    BY <1>2 DEF StepBegins, RunnerInv, OperationOK
  <2>2. /\ UNCHANGED <<op, pending, sequence, sent, taken, hold, tail, stash, work, replies, processed,
                       ready, incomplete, stopRequested, stopSequence, exited, call, draining, timed,
                       target, frames, answer, inputs, applied, ignored, captured>>
        /\ stopped' = FALSE /\ windowTaken' = FALSE /\ window' = 0 /\ gui' = "loop"
    BY <1>2, <2>1 DEF StepBegins, ingress, text, epochs, stops, calls, history
  <2>3. TypeOK'
    BY <2>2 DEF RunnerInv, TypeOK, Places
  <2>4. SentOK' /\ QueueOK'
    BY <2>2, QueueStays DEF RunnerInv
  <2>5. ChainOK'
    BY <2>2, ChainStays DEF RunnerInv, Chain
  <2>6. OperationOK'
    BY <1>2, <2>1, <2>2 DEF RunnerInv, OperationOK
  <2>7. TextOK' /\ EpochOK'
    BY <2>1, <2>2 DEF RunnerInv, TextOK, EpochOK
  <2>8. CallOK'
    BY <1>2, <2>1, <2>2 DEF RunnerInv, CallOK, Everything
  <2> QED BY <2>3, <2>4, <2>5, <2>6, <2>7, <2>8 DEF RunnerInv
<1> QED BY <1>1, <1>2

\* A step inside a call that moves units along the chain, or not at all.
LEMMA InnerChain ==
    ASSUME RunnerInv, Stays, ignored \subseteq ignored',
           Line(applied', hold', stash', Cat(tail', op'.left)) = Line(applied, hold, stash, Cat(tail, op.left))
    PROVE  ChainOK'
<1>1. Chain' = Line(applied', hold', stash', Cat(tail', op'.left))
  BY DEF Chain, Line, Cat
<1>2. Chain' = Chain
  BY <1>1, ChainIsALine
<1> QED BY <1>2, ChainStays DEF RunnerInv, Stays, ingress, queue

\* An operation that goes on keeps its command and no more units than it had.
LEMMA InnerOperation ==
    ASSUME RunnerInv, Stays, gui' \in {"loop", "window", "end"}, op.kind # "none",
           op'.kind = op.kind, op'.epoch = op.epoch, op'.phase \in Phases \ {"new"},
           op'.phase = "source" => op.kind = "output",
           op'.phase = "exit" => op.kind = "exit",
           op'.phase \in {"source", "tail", "exit"} => op'.owns,
           op'.left = op.left \/ Elements(op'.left) \subseteq Elements(op.left),
           op.kind # "output" \/ op'.phase = "retired" => op'.left = <<>>,
           op.kind = "output" /\ op'.phase = "tail" => op'.left # <<>>
    PROVE  OperationOK'
<1>1. taken' = taken /\ pending' = pending
  BY DEF Stays, ingress, queue
<1>2. /\ op.epoch <= taken
      /\ op.epoch # 0 <=> op.kind \in {"output", "error", "exit"}
      /\ \A i \in DOMAIN pending : pending[i].epoch # 0 => op.epoch < pending[i].epoch
      /\ \A u \in Elements(op.left) : u.epoch = op.epoch
  BY DEF RunnerInv, OperationOK
<1>3. \A u \in Elements(op'.left) : u.epoch = op.epoch
  BY <1>2
<1> QED BY <1>1, <1>2, <1>3 DEF OperationOK

\* Without a hold there is a tail only while it is replayed.
LEMMA NoTail ==
    ASSUME RunnerInv, hold = <<>>, op.phase # "tail"
    PROVE  tail = <<>>
  BY DEF RunnerInv, TextOK

(***************************************************************************)
(* The end of a step.                                                      *)
(***************************************************************************)
LEMMA StepEndsKeeps == ASSUME RunnerInv, StepEnds PROVE RunnerInv'
<1>1. /\ gui = "end" /\ gui' = "check" /\ replies' = <<>> /\ stopped' = FALSE /\ Stays
      /\ UNCHANGED <<hold, tail, stash, work, windowTaken, window, incomplete, stopRequested, stopSequence,
                     exited, applied, ignored, captured>>
      /\ UNCHANGED <<sent, taken, pending, sequence, call, draining, timed, target, frames, answer, inputs>>
  BY DEF StepEnds, DisposeReplies, text, stops, history, Stays, ingress, queue, calls
<1>2. SentOK' /\ QueueOK' /\ CallOK'
  BY <1>1, InnerStep DEF Inner
<1>3. /\ TypeOK /\ op.kind # "none" /\ op.phase # "new" /\ processed \in Nat /\ ready \in Nat /\ taken \in Nat
      /\ incomplete \in Nat /\ gui' \in Places /\ <<>> \in Seq(Units)
  BY <1>1 DEF RunnerInv, TypeOK, OperationOK, Places
<1>4. CASE op.phase # "retired"
  <2>1. UNCHANGED <<op, processed, ready>>
    BY <1>4 DEF StepEnds
  <2>2. op.phase \in {"source", "tail", "exit"}
    BY <1>3, <1>4, OperationTypes DEF Phases
  <2>3. TypeOK'
    BY <1>1, <1>3, <2>1 DEF TypeOK
  <2>4. OperationOK'
    BY <1>1, <1>3, <2>1, <2>2 DEF RunnerInv, OperationOK
  <2>5. ChainOK'
    BY <1>1, <2>1, ChainStays DEF RunnerInv, Chain
  <2>6. TextOK' /\ EpochOK'
    BY <1>1, <2>1 DEF RunnerInv, TextOK, EpochOK
  <2> QED BY <1>2, <2>3, <2>4, <2>5, <2>6 DEF RunnerInv
<1>5. CASE op.phase = "retired"
  <2>1. PICK e \in Nat : e <= taken /\ FlushReady(e)
    <3>1. op.epoch \in Nat /\ op.epoch <= taken /\ ready <= taken
      BY <1>3, OperationTypes DEF RunnerInv, OperationOK, EpochOK
    <3>2. CASE op.epoch # 0 /\ op.kind # "output"
      <4>1. FlushReady(Later(ready, op.epoch))
        BY <1>5, <3>2 DEF StepEnds, Advance
      <4>2. Later(ready, op.epoch) \in Nat /\ Later(ready, op.epoch) <= taken
        BY <1>3, <3>1 DEF Later
      <4> QED BY <4>1, <4>2
    <3>3. CASE ~(op.epoch # 0 /\ op.kind # "output")
      BY <1>3, <1>5, <3>1, <3>3 DEF StepEnds
    <3> QED BY <3>2, <3>3
  <2>2. op' = NoOperation /\ op'.epoch = 0 /\ op'.phase = "retired" /\ op'.kind = "none" /\ op'.left = <<>>
    BY <1>5 DEF StepEnds, NoOperation
  <2>3. /\ processed' \in Nat /\ ready' \in Nat
        /\ processed' <= taken' /\ ready' <= taken'
        /\ \A i \in DOMAIN pending' : pending'[i].epoch # 0 => processed' < pending'[i].epoch
        /\ incomplete' # 0 => processed' < incomplete'
    <3>1. \A i \in DOMAIN pending' : pending'[i].epoch \in Nat
      BY <1>1, <1>3, PendingTypes
    <3>2. /\ processed <= taken /\ \A i \in DOMAIN pending : pending[i].epoch # 0 => processed < pending[i].epoch
          /\ incomplete # 0 => processed < incomplete
      BY DEF RunnerInv, EpochOK
    <3> QED BY <1>1, <1>3, <2>1, <2>2, <3>1, <3>2, FlushKeeps
  <2>4. TypeOK'
    BY <1>1, <1>3, <2>2, <2>3, OperationTypes DEF TypeOK
  <2>5. OperationOK'
    <3>1. \A i \in DOMAIN pending : pending[i].epoch \in Nat
      BY <1>3, PendingTypes
    <3>2. Elements(op'.left) = {}
      BY <2>2 DEF Elements
    <3> QED BY <1>1, <1>3, <2>2, <3>1, <3>2 DEF OperationOK
  <2>6. ChainOK'
    <3>1. op.left = <<>>
      BY <1>5 DEF RunnerInv, OperationOK
    <3> QED BY <1>1, <2>2, <3>1, ChainStays DEF RunnerInv, Chain
  <2>7. TextOK'
    BY <1>1, <1>5, <2>2 DEF RunnerInv, TextOK
  <2>8. EpochOK'
    BY <1>1, <1>5, <2>2, <2>3 DEF RunnerInv, EpochOK
  <2> QED BY <1>2, <2>4, <2>5, <2>6, <2>7, <2>8 DEF RunnerInv
<1> QED BY <1>4, <1>5

(***************************************************************************)
(* Admission.                                                              *)
(***************************************************************************)
\* What every admission leaves as it was, and what its operation is.
LEMMA AdmitsFacts ==
    ASSUME RunnerInv, NEW kind, Admits(kind)
    PROVE  /\ gui = "step" /\ gui' = "loop" /\ Stays
           /\ UNCHANGED <<sent, taken, pending, sequence, tail, stash, work, stopped, windowTaken, window,
                          replies, incomplete, call, draining, timed, target, frames, answer, inputs, captured>>
           /\ SentOK' /\ QueueOK' /\ CallOK'
           /\ op.kind = kind /\ op.kind # "none" /\ op.phase = "new" /\ ~work
           /\ hold = <<>> => tail = <<>>
           /\ kind # "output" => op.left = <<>>
           /\ op.epoch # 0 => processed < op.epoch
           /\ op.epoch # 0 <=> op.kind \in {"output", "error", "exit"}
           /\ TypeOK
<1>1. /\ gui = "step" /\ gui' = "loop" /\ Stays /\ op.kind = kind
      /\ UNCHANGED <<sent, taken, pending, sequence, tail, stash, work, stopped, windowTaken, window,
                     replies, incomplete, call, draining, timed, target, frames, answer, inputs, captured>>
  BY DEF Admits, Stays, ingress, queue, step, calls
<1>2. SentOK' /\ QueueOK' /\ CallOK'
  BY <1>1, InnerStep DEF Inner
<1>3. op.kind # "none" /\ op.phase = "new"
  BY <1>1 DEF RunnerInv, OperationOK
<1>4. ~work /\ (hold = <<>> => tail = <<>>)
  BY <1>3 DEF RunnerInv, TextOK
<1>5. /\ kind # "output" => op.left = <<>>
      /\ op.epoch # 0 <=> op.kind \in {"output", "error", "exit"}
  BY <1>1 DEF RunnerInv, OperationOK
<1>6. op.epoch # 0 => processed < op.epoch
  BY <1>3 DEF RunnerInv, EpochOK
<1>7. TypeOK
  BY DEF RunnerInv
<1> QED BY <1>1, <1>2, <1>3, <1>4, <1>5, <1>6, <1>7

LEMMA AdmitOutputKeeps == ASSUME RunnerInv, AdmitOutput PROVE RunnerInv'
<1>1. /\ Admits("output")
      /\ op' = [op EXCEPT !.phase = "source", !.owns = TRUE]
      /\ UNCHANGED <<hold, processed, ready, stopRequested, stopSequence, exited, applied, ignored>>
  BY DEF AdmitOutput, stops
<1>2. /\ gui = "step" /\ gui' = "loop" /\ Stays
      /\ UNCHANGED <<sent, taken, pending, sequence, tail, stash, work, stopped, windowTaken, window,
                     replies, incomplete, call, draining, timed, target, frames, answer, inputs, captured>>
      /\ SentOK' /\ QueueOK' /\ CallOK'
      /\ op.kind = "output" /\ op.phase = "new" /\ ~work
      /\ hold = <<>> => tail = <<>>
      /\ op.epoch # 0 => processed < op.epoch
      /\ TypeOK
  BY <1>1, AdmitsFacts
<1>3. /\ op' \in Operations /\ op'.kind = op.kind /\ op'.epoch = op.epoch /\ op'.phase = "source"
      /\ op'.left = op.left /\ op'.owns
  BY <1>1, <1>2, OperationTypes DEF Operations, Phases
<1>4. op.left # <<>>
  BY <1>2 DEF RunnerInv, OperationOK
<1>5. TypeOK'
  BY <1>1, <1>2, <1>3 DEF TypeOK, Places
<1>6. OperationOK'
  BY <1>2, <1>3, <1>4, InnerOperation DEF Phases
<1>7. ChainOK'
  BY <1>1, <1>2, <1>3, InnerChain
<1>8. TextOK'
  BY <1>1, <1>2, <1>3, <1>4 DEF RunnerInv, TextOK
<1>9. EpochOK'
  BY <1>1, <1>2, <1>3 DEF RunnerInv, EpochOK
<1> QED BY <1>2, <1>5, <1>6, <1>7, <1>8, <1>9 DEF RunnerInv

\* Output ignored after a stop leaves the end of the chain.
LEMMA AdmitIgnoredOutputKeeps == ASSUME RunnerInv, AdmitIgnoredOutput PROVE RunnerInv'
<1>1. /\ Admits("output")
      /\ op' = [op EXCEPT !.phase = "retired", !.owns = TRUE, !.left = <<>>]
      /\ ignored' = ignored \cup UnitsOf(op.epoch)
      /\ UNCHANGED <<hold, stopRequested, stopSequence, exited, applied>>
      /\ Advance(op.epoch)
  BY DEF AdmitIgnoredOutput, stops
<1>2. /\ gui = "step" /\ gui' = "loop" /\ Stays
      /\ UNCHANGED <<sent, taken, pending, sequence, tail, stash, work, stopped, windowTaken, window,
                     replies, incomplete, call, draining, timed, target, frames, answer, inputs, captured>>
      /\ SentOK' /\ QueueOK' /\ CallOK'
      /\ op.kind = "output" /\ op.phase = "new" /\ ~work
      /\ hold = <<>> => tail = <<>>
      /\ op.epoch # 0 <=> op.kind \in {"output", "error", "exit"}
      /\ TypeOK
  BY <1>1, AdmitsFacts
<1>3. /\ op' \in Operations /\ op'.kind = op.kind /\ op'.epoch = op.epoch /\ op'.phase = "retired"
      /\ op'.left = <<>>
  <2>1. op \in Operations /\ <<>> \in Seq(Units) /\ "retired" \in Phases
    BY <1>2, OperationTypes DEF Phases
  <2> QED BY <1>1, <2>1 DEF Operations
<1>4. op.epoch \in 1..Len(sent) /\ op.epoch \in 1..taken /\ op.epoch \in Nat /\ op.left \in Seq(Units)
  <2>1. op.epoch <= taken /\ taken <= Len(sent) /\ taken \in Nat /\ Len(sent) \in Nat /\ op.epoch # 0
    BY <1>2 DEF RunnerInv, OperationOK, SentOK, TypeOK
  <2>2. op.epoch \in Nat /\ op.left \in Seq(Units)
    BY <1>2, OperationTypes
  <2> QED BY <2>1, <2>2
<1>5. /\ UnitsOf(op.epoch) \subseteq Units /\ \A u \in UnitsOf(op.epoch) : u.epoch = op.epoch
  <2> DEFINE e == op.epoch
  <2>1. e \in 1..Len(sent) /\ SentOK
    BY <1>4 DEF RunnerInv
  <2> HIDE DEF e
  <2>2. UnitsOf(e) \subseteq Units /\ \A u \in UnitsOf(e) : u.epoch = e
    BY <1>2, <2>1, OutputIsASequence
  <2> QED BY <2>2 DEF e
<1>6. /\ processed' \in Nat /\ ready' \in Nat
      /\ processed' <= taken' /\ ready' <= taken'
      /\ \A i \in DOMAIN pending' : pending'[i].epoch # 0 => processed' < pending'[i].epoch
      /\ incomplete' # 0 => processed' < incomplete'
  <2> DEFINE e == Later(ready, op.epoch)
  <2>1. /\ processed \in Nat /\ processed <= taken /\ ready \in Nat /\ ready <= taken /\ taken \in Nat
        /\ incomplete \in Nat
        /\ \A i \in DOMAIN pending : pending[i].epoch # 0 => processed < pending[i].epoch
        /\ incomplete # 0 => processed < incomplete
    BY DEF RunnerInv, TypeOK, EpochOK
  <2>2. e \in Nat /\ e <= taken
    BY <1>4, <2>1 DEF Later
  <2>3. FlushReady(e)
    BY <1>1 DEF Advance
  <2>4. \A i \in DOMAIN pending' : pending'[i].epoch \in Nat
    BY <1>2, PendingTypes
  <2> HIDE DEF e
  <2> QED BY <1>2, <1>3, <1>4, <2>1, <2>2, <2>3, <2>4, FlushKeeps
<1>7. TypeOK'
  BY <1>1, <1>2, <1>3, <1>5, <1>6 DEF TypeOK, Places
<1>8. OperationOK'
  <2>1. Elements(op'.left) = {}
    BY <1>3 DEF Elements
  <2> QED BY <1>2, <1>3, <2>1, InnerOperation DEF Phases
<1>9. ChainOK'
  <2> DEFINE t == Line(applied, hold, stash, tail)
             l == op.left
  <2>1. t \in Seq(Units) /\ l \in Seq(Units)
    BY <1>2, <1>4, LineOfPlaces DEF TypeOK
  <2>2. Chain = Cat(t, l)
    BY <1>2, <1>4, ChainIsALine, LineGrows DEF TypeOK
  <2>3. Chain' = t
    <3>1. Chain' = Line(applied, hold, stash, Cat(tail, <<>>))
      BY <1>1, <1>2, <1>3 DEF Chain, Line, Cat
    <3>2. Cat(tail, <<>>) = tail
      BY <1>2, CatEmpty DEF TypeOK
    <3> QED BY <3>1, <3>2
  <2>4. \A u \in Elements(l) : u.epoch = op.epoch
    BY DEF RunnerInv, OperationOK
  <2> HIDE DEF t, l
  <2>5. Elements(Chain) = Elements(t) \cup Elements(l)
    BY <2>1, <2>2, UnitsJoined
  <2>6. Rising(t)
    BY <2>1, <2>2, RisingJoin DEF RunnerInv, ChainOK
  <2>7. ASSUME NEW e \in 1..taken
        PROVE  \/ \E i \in DOMAIN pending : pending[i].epoch = e
               \/ UnitsOf(e) \subseteq Elements(t) \cup ignored'
    <3>1. CASE e = op.epoch
      BY <1>1, <3>1
    <3>2. CASE e # op.epoch
      <4>1. e \in 1..Len(sent) /\ SentOK
        BY <2>7 DEF RunnerInv, SentOK, TypeOK
      <4>2. \A u \in UnitsOf(e) : u.epoch = e
        BY <1>2, <4>1, OutputIsASequence
      <4>3. UnitsOf(e) \cap Elements(l) = {}
        BY <2>4, <3>2, <4>2
      <4> QED BY <1>1, <2>5, <4>3 DEF RunnerInv, ChainOK
    <3> QED BY <3>1, <3>2
  <2>8. \A e : UnitsOf(e)' = UnitsOf(e)
    BY <1>2 DEF UnitsOf
  <2>9. /\ \A u \in Elements(t) : u.epoch <= taken
        /\ \A u \in Elements(t) : \A i \in DOMAIN pending : pending[i].epoch # 0 => u.epoch < pending[i].epoch
    BY <2>5 DEF RunnerInv, ChainOK
  <2> QED BY <1>2, <2>3, <2>6, <2>7, <2>8, <2>9 DEF ChainOK
<1>10. TextOK'
  BY <1>1, <1>2, <1>3 DEF RunnerInv, TextOK
<1>11. EpochOK'
  BY <1>1, <1>2, <1>3, <1>6 DEF RunnerInv, EpochOK
<1> QED BY <1>2, <1>7, <1>8, <1>9, <1>10, <1>11 DEF RunnerInv

\* Where a command of no output ends, or replays the tail of the hold it ended.
LEMMA AdmissionEndsKeeps ==
    ASSUME RunnerInv, NEW kind \in CommandKinds \ {"output"}, Admits(kind),
           \/ Retired /\ UNCHANGED <<hold, applied>>
           \/ hold # <<>> /\ kind \in {"settle", "exit"} /\ Release(kind = "settle"),
           UNCHANGED <<processed, ready, ignored>>,
           stopRequested' \in BOOLEAN, stopSequence' \in Nat, exited' \in BOOLEAN
    PROVE  RunnerInv'
<1>1. /\ gui = "step" /\ gui' = "loop" /\ Stays
      /\ UNCHANGED <<sent, taken, pending, sequence, tail, stash, work, stopped, windowTaken, window,
                     replies, incomplete, call, draining, timed, target, frames, answer, inputs, captured>>
      /\ SentOK' /\ QueueOK' /\ CallOK'
      /\ op.kind = kind /\ op.kind # "none" /\ op.phase = "new" /\ ~work
      /\ hold = <<>> => tail = <<>>
      /\ op.left = <<>>
      /\ op.epoch # 0 => processed < op.epoch
      /\ TypeOK
  BY AdmitsFacts
<1>2. CASE Retired /\ UNCHANGED <<hold, applied>>
  <2>1. op' = [op EXCEPT !.phase = "retired"]
    BY <1>2 DEF Retired
  <2>2. /\ op' \in Operations /\ op'.kind = op.kind /\ op'.epoch = op.epoch /\ op'.phase = "retired"
        /\ op'.left = op.left
    BY <1>1, <2>1, OperationTypes DEF Operations, Phases
  <2>3. TypeOK'
    BY <1>1, <1>2, <2>2 DEF TypeOK, Places
  <2>4. OperationOK'
    BY <1>1, <2>2, InnerOperation DEF Phases
  <2>5. ChainOK'
    BY <1>1, <1>2, <2>2, InnerChain
  <2>6. TextOK'
    BY <1>1, <1>2, <2>2 DEF RunnerInv, TextOK
  <2>7. EpochOK'
    BY <1>1, <2>2 DEF RunnerInv, EpochOK
  <2> QED BY <1>1, <2>3, <2>4, <2>5, <2>6, <2>7 DEF RunnerInv
<1>3. CASE hold # <<>> /\ kind \in {"settle", "exit"} /\ Release(kind = "settle")
  <2>1. /\ hold' = <<>> /\ applied' = applied \o hold
        /\ op' = [op EXCEPT !.phase = "tail", !.owns = TRUE, !.rearm = (kind = "settle")]
    BY <1>3 DEF Release
  <2>2. /\ op' \in Operations /\ op'.kind = op.kind /\ op'.epoch = op.epoch /\ op'.phase = "tail"
        /\ op'.left = op.left /\ op'.owns /\ op'.rearm = (kind = "settle")
    BY <1>1, <2>1, OperationTypes DEF Operations, Phases
  <2>3. TypeOK'
    <3>1. applied' \in Seq(Units) /\ hold' \in Seq(Units)
      BY <1>1, <2>1 DEF TypeOK
    <3> QED BY <1>1, <2>2, <3>1 DEF TypeOK, Places
  <2>4. OperationOK'
    BY <1>1, <1>3, <2>2, InnerOperation DEF Phases
  <2>5. ChainOK'
    <3>1. <<>> \in Seq(Units) /\ Cat(tail, op.left) \in Seq(Units)
      BY <1>1, ChainOfPlaces
    <3> DEFINE r == Cat(tail, op.left)
    <3> HIDE DEF r
    <3>3. Line(Cat(applied, hold), <<>>, stash, r) = Line(applied, hold, stash, r)
      BY <1>1, <3>1, HoldIsApplied DEF TypeOK, r
    <3>4. Line(applied', hold', stash', Cat(tail', op'.left)) = Line(applied, hold, stash, Cat(tail, op.left))
      BY <1>1, <2>1, <2>2, <3>3 DEF Cat, r
    <3> QED BY <1>1, <3>4, InnerChain
  <2>6. TextOK'
    BY <1>1, <1>3, <2>1, <2>2 DEF RunnerInv, TextOK
  <2>7. EpochOK'
    BY <1>1, <2>2 DEF RunnerInv, EpochOK
  <2> QED BY <1>1, <2>3, <2>4, <2>5, <2>6, <2>7 DEF RunnerInv
<1> QED BY <1>2, <1>3

LEMMA AdmissionsKeep ==
    ASSUME RunnerInv,
           AdmitOutput \/ AdmitIgnoredOutput \/ AdmitSettle \/ AdmitExit \/ AdmitOther \/ AdmitTerminate
    PROVE  RunnerInv'
<1>1. stopRequested \in BOOLEAN /\ stopSequence \in Nat /\ exited \in BOOLEAN /\ op.seq \in Nat
  BY OperationTypes DEF RunnerInv, TypeOK
<1>2. CASE AdmitOutput
  BY <1>2, AdmitOutputKeeps
<1>3. CASE AdmitIgnoredOutput
  BY <1>3, AdmitIgnoredOutputKeeps
<1>4. CASE AdmitSettle
  <2>1. "settle" \in CommandKinds \ {"output"}
    BY DEF CommandKinds
  <2>2. /\ Admits("settle") /\ UNCHANGED <<processed, ready, ignored>>
        /\ stopRequested' \in BOOLEAN /\ stopSequence' \in Nat /\ exited' \in BOOLEAN
        /\ \/ Retired /\ UNCHANGED <<hold, applied>>
           \/ hold # <<>> /\ "settle" \in {"settle", "exit"} /\ Release("settle" = "settle")
    BY <1>1, <1>4 DEF AdmitSettle, stops, Release
  <2> QED BY <2>1, <2>2, AdmissionEndsKeeps
<1>5. CASE AdmitExit
  <2>1. "exit" \in CommandKinds \ {"output"}
    BY DEF CommandKinds
  <2>2. /\ Admits("exit") /\ UNCHANGED <<processed, ready, ignored>>
        /\ stopRequested' \in BOOLEAN /\ stopSequence' \in Nat /\ exited' \in BOOLEAN
        /\ \/ Retired /\ UNCHANGED <<hold, applied>>
           \/ hold # <<>> /\ "exit" \in {"settle", "exit"} /\ Release("exit" = "settle")
    BY <1>1, <1>5 DEF AdmitExit, ApplyExit, stops, Release
  <2> QED BY <2>1, <2>2, AdmissionEndsKeeps
<1>6. CASE AdmitOther
  <2>1. PICK kind \in {"write", "error"} : Admits(kind)
    BY <1>6 DEF AdmitOther
  <2>2. kind \in CommandKinds \ {"output"}
    BY <2>1 DEF CommandKinds
  <2>3. /\ UNCHANGED <<processed, ready, ignored>> /\ Retired /\ UNCHANGED <<hold, applied>>
        /\ stopRequested' \in BOOLEAN /\ stopSequence' \in Nat /\ exited' \in BOOLEAN
    BY <1>1, <1>6 DEF AdmitOther, stops
  <2> QED BY <2>1, <2>2, <2>3, AdmissionEndsKeeps
<1>7. CASE AdmitTerminate
  <2>1. "terminate" \in CommandKinds \ {"output"}
    BY DEF CommandKinds
  <2>2. Admits("terminate") /\ UNCHANGED <<processed, ready, ignored>> /\ Retired /\ UNCHANGED <<hold, applied>>
    BY <1>7 DEF AdmitTerminate
  <2>3. /\ stopRequested' \in {TRUE, FALSE, stopRequested} /\ stopSequence' \in {0, op.seq, stopSequence}
        /\ exited' = exited
    BY <1>7 DEF AdmitTerminate, stops
  <2>4. stopSequence' \in Nat
    BY <1>1, <2>3
  <2>5. stopRequested' \in BOOLEAN /\ exited' \in BOOLEAN
    BY <1>1, <2>3, Zenon
  <2> QED BY <2>1, <2>2, <2>4, <2>5, AdmissionEndsKeeps
<1> QED BY <1>2, <1>3, <1>4, <1>5, <1>6, <1>7

(***************************************************************************)
(* The steps of the runner.                                                *)
(***************************************************************************)
\* What an open operation finds, at any step but the beginning of its own.
LEMMA RunsFacts ==
    ASSUME RunnerInv, gui = "loop" \/ gui = "window", Stays, gui' \in {"loop", "window", "end"}
    PROVE  /\ UNCHANGED <<sent, taken, pending, sequence, call, draining, timed, target, frames, answer, inputs>>
           /\ SentOK' /\ QueueOK' /\ CallOK' /\ gui' \in Places
           /\ TypeOK /\ op.kind # "none" /\ op.phase # "new"
           /\ op.epoch # 0 <=> op.kind \in {"output", "error", "exit"}
           /\ op.phase = "source" => op.kind = "output" /\ op.owns
           /\ op.phase = "exit" => op.kind = "exit"
           /\ op.kind # "output" \/ op.phase = "retired" => op.left = <<>>
           /\ op.phase # "retired" /\ op.epoch # 0 => processed < op.epoch
<1>1. UNCHANGED <<sent, taken, pending, sequence, call, draining, timed, target, frames, answer, inputs>>
  BY DEF Stays, ingress, queue, calls
<1>2. SentOK' /\ QueueOK' /\ CallOK'
  BY InnerStep DEF Inner
<1>3. /\ TypeOK /\ op.kind # "none" /\ op.phase # "new"
      /\ op.epoch # 0 <=> op.kind \in {"output", "error", "exit"}
      /\ op.phase = "source" => op.kind = "output" /\ op.owns
      /\ op.phase = "exit" => op.kind = "exit"
      /\ op.kind # "output" \/ op.phase = "retired" => op.left = <<>>
  BY DEF RunnerInv, OperationOK
<1>4. op.phase # "retired" /\ op.epoch # 0 => processed < op.epoch
  BY DEF RunnerInv, EpochOK
<1> QED BY <1>1, <1>2, <1>3, <1>4 DEF Places

\* The operation stays, and with it everything but the model's own work.
LEMMA OperationStays ==
    ASSUME RunnerInv, gui = "loop", Stays, gui' \in {"loop", "window", "end"},
           UNCHANGED <<op, hold, tail, stash, replies, processed, ready, incomplete, stopRequested, stopSequence,
                       exited, applied, ignored, captured>>,
           work' \in BOOLEAN, stopped' \in BOOLEAN, windowTaken' \in BOOLEAN, window' \in Nat
    PROVE  /\ TypeOK' /\ SentOK' /\ QueueOK' /\ OperationOK' /\ ChainOK' /\ EpochOK' /\ CallOK'
<1>1. /\ UNCHANGED <<sent, taken, pending, sequence, call, draining, timed, target, frames, answer, inputs>>
      /\ SentOK' /\ QueueOK' /\ CallOK' /\ gui' \in Places /\ TypeOK
  BY RunsFacts
<1>2. TypeOK'
  BY <1>1 DEF TypeOK
<1>3. OperationOK'
  BY <1>1 DEF RunnerInv, OperationOK
<1>4. ChainOK'
  BY InnerChain
<1>5. EpochOK'
  BY <1>1 DEF RunnerInv, EpochOK
<1> QED BY <1>1, <1>2, <1>3, <1>4, <1>5

LEMMA WorkKeeps ==
    ASSUME RunnerInv, WorkFinishes \/ WorkOutlastsStep \/ LoopEnds \/ TakeWindow
    PROVE  RunnerInv'
<1>0. /\ work \in BOOLEAN /\ stopped \in BOOLEAN /\ windowTaken \in BOOLEAN /\ window \in Nat
      /\ op.left \in Seq(Units) /\ tail \in Seq(Units) /\ Len(op.left) \in Nat /\ Len(tail) \in Nat
  BY OperationTypes DEF RunnerInv, TypeOK
<1>1. CASE WorkFinishes
  <2>1. /\ gui = "loop" /\ gui' = "loop" /\ Stays /\ work' = FALSE
        /\ UNCHANGED <<op, hold, tail, stash, replies, processed, ready, incomplete, stopRequested, stopSequence,
                       exited, applied, ignored, captured, stopped, windowTaken, window>>
    BY <1>1 DEF WorkFinishes, Runs, step, epochs, stops, history
  <2>2. TypeOK' /\ SentOK' /\ QueueOK' /\ OperationOK' /\ ChainOK' /\ EpochOK' /\ CallOK'
    BY <1>0, <2>1, OperationStays
  <2>3. TextOK'
    BY <2>1 DEF RunnerInv, TextOK
  <2> QED BY <2>2, <2>3 DEF RunnerInv
<1>2. CASE WorkOutlastsStep
  <2>1. /\ gui = "loop" /\ gui' = "loop" /\ Stays /\ stopped' = TRUE
        /\ UNCHANGED <<op, hold, tail, stash, replies, processed, ready, incomplete, stopRequested, stopSequence,
                       exited, applied, ignored, captured, work, windowTaken, window>>
    BY <1>2 DEF WorkOutlastsStep, Runs, text, epochs, stops, history
  <2>2. TypeOK' /\ SentOK' /\ QueueOK' /\ OperationOK' /\ ChainOK' /\ EpochOK' /\ CallOK'
    BY <1>0, <2>1, OperationStays
  <2>3. TextOK'
    BY <2>1 DEF RunnerInv, TextOK
  <2> QED BY <2>2, <2>3 DEF RunnerInv
<1>3. CASE LoopEnds
  <2>1. /\ gui = "loop" /\ gui' = "end" /\ Stays
        /\ UNCHANGED <<op, hold, tail, stash, replies, processed, ready, incomplete, stopRequested, stopSequence,
                       exited, applied, ignored, captured, work, stopped, windowTaken, window>>
    BY <1>3 DEF LoopEnds, text, step, epochs, stops, history
  <2>2. TypeOK' /\ SentOK' /\ QueueOK' /\ OperationOK' /\ ChainOK' /\ EpochOK' /\ CallOK'
    BY <1>0, <2>1, OperationStays
  <2>3. TextOK'
    BY <2>1 DEF RunnerInv, TextOK
  <2> QED BY <2>2, <2>3 DEF RunnerInv
<1>4. CASE TakeWindow
  <2>1. /\ gui = "loop" /\ ~stopped /\ ~work /\ hold = <<>>
        /\ gui' = "window" /\ Stays /\ windowTaken' = TRUE
        /\ UNCHANGED <<op, hold, tail, stash, replies, processed, ready, incomplete, stopRequested, stopSequence,
                       exited, applied, ignored, captured, work, stopped>>
        /\ \/ op.phase = "source" /\ op.left # <<>> /\ window' \in Windows(op.left)
           \/ op.phase = "tail" /\ tail # <<>> /\ window' \in Windows(tail)
    BY <1>4 DEF TakeWindow, Runs, text, epochs, stops, history
  <2>2. op.phase \in {"source", "tail"} /\ window' \in 1..Len(Source) /\ Source' = Source /\ window' \in Nat
    <3>1. Source' = Source
      BY <2>1 DEF Source
    <3>2. CASE op.phase = "source" /\ op.left # <<>> /\ window' \in Windows(op.left)
      BY <1>0, <3>1, <3>2 DEF Source, Windows
    <3>3. CASE op.phase = "tail" /\ tail # <<>> /\ window' \in Windows(tail)
      BY <1>0, <3>1, <3>3 DEF Source, Windows
    <3> QED BY <2>1, <3>2, <3>3
  <2>3. TypeOK' /\ SentOK' /\ QueueOK' /\ OperationOK' /\ ChainOK' /\ EpochOK' /\ CallOK'
    BY <1>0, <2>1, <2>2, OperationStays
  <2>4. TextOK'
    BY <2>1, <2>2 DEF RunnerInv, TextOK
  <2> QED BY <2>3, <2>4 DEF RunnerInv
<1> QED BY <1>1, <1>2, <1>3, <1>4

\* What a source completes at its end.
LEMMA CompletionKeeps ==
    ASSUME RunnerInv, Stays, CompleteOutput(op.epoch), op'.epoch = op.epoch, op'.phase = "retired",
           stash' = <<>>
    PROVE  EpochOK' /\ processed' \in Nat /\ ready' \in Nat /\ incomplete' \in Nat
<1>1. /\ incomplete' = (IF op.epoch > incomplete THEN 0 ELSE incomplete)
      /\ FlushReady(Later(ready, op.epoch)) /\ taken' = taken /\ pending' = pending
  BY DEF CompleteOutput, Advance, Stays, ingress, queue
<1>2. /\ processed \in Nat /\ processed <= taken /\ ready \in Nat /\ ready <= taken /\ taken \in Nat
      /\ incomplete \in Nat /\ op.epoch \in Nat /\ op.epoch <= taken
      /\ \A i \in DOMAIN pending : pending[i].epoch # 0 => processed < pending[i].epoch
      /\ incomplete # 0 => processed < incomplete
  BY OperationTypes DEF RunnerInv, TypeOK, EpochOK, OperationOK
<1>3. incomplete' \in Nat /\ (incomplete' # 0 => processed < incomplete')
  BY <1>1, <1>2
<1> DEFINE e == Later(ready, op.epoch)
<1>4. e \in Nat /\ e <= taken
  BY <1>2 DEF Later
<1>5. \A i \in DOMAIN pending' : pending'[i].epoch \in Nat
  BY <1>1, PendingTypes DEF RunnerInv
<1>6. FlushReady(e)
  BY <1>1
<1> HIDE DEF e
<1>7. /\ processed' \in Nat /\ ready' \in Nat
      /\ processed' <= taken' /\ ready' <= taken'
      /\ \A i \in DOMAIN pending' : pending'[i].epoch # 0 => processed' < pending'[i].epoch
      /\ incomplete' # 0 => processed' < incomplete'
  BY <1>1, <1>2, <1>3, <1>4, <1>5, <1>6, FlushKeeps
<1>8. Elements(stash') = {}
  BY DEF Elements
<1> QED BY <1>3, <1>7, <1>8 DEF EpochOK

LEMMA HoldCapturesKeeps == ASSUME RunnerInv, HoldCaptures PROVE RunnerInv'
<1>1. /\ gui = "loop" /\ gui' = "loop" /\ Stays /\ ~work /\ op.phase = "source" /\ hold # <<>>
      /\ Len(op.left) <= HoldLimit - Len(tail)
      /\ tail' = tail \o op.left /\ windowTaken' = TRUE
      /\ op' = [op EXCEPT !.left = <<>>, !.phase = "retired"]
      /\ captured' = captured \cup Elements(op.left)
      /\ UNCHANGED <<hold, stash, work, stopped, window, replies, stopRequested, stopSequence, exited, applied, ignored>>
      /\ CompleteOutput(op.epoch)
  BY DEF HoldCaptures, Runs, HoldHasRoom, stops
<1>2. /\ UNCHANGED <<sent, taken, pending, sequence, call, draining, timed, target, frames, answer, inputs>>
      /\ SentOK' /\ QueueOK' /\ CallOK' /\ gui' \in Places /\ TypeOK /\ op.kind # "none" /\ op.kind = "output"
  BY <1>1, RunsFacts
<1>3. /\ op' \in Operations /\ op'.kind = op.kind /\ op'.epoch = op.epoch /\ op'.phase = "retired"
      /\ op'.left = <<>>
  <2>1. op \in Operations /\ <<>> \in Seq(Units) /\ "retired" \in Phases
    BY <1>2, OperationTypes DEF Phases
  <2> QED BY <1>1, <2>1 DEF Operations
<1>4. stash = <<>> /\ op.left \in Seq(Units) /\ tail \in Seq(Units) /\ Elements(op.left) \subseteq Units
  <2>1. op.left \in Seq(Units)
    BY <1>2, OperationTypes
  <2> DEFINE l == op.left
  <2>2. l \in Seq(Units)
    BY <2>1
  <2> HIDE DEF l
  <2>3. Elements(l) \subseteq Units
    BY <2>2, ElementsOf
  <2>4. stash = <<>>
    BY <1>1 DEF RunnerInv, TextOK
  <2> QED BY <1>2, <2>1, <2>3, <2>4 DEF TypeOK, l
<1>5. EpochOK' /\ processed' \in Nat /\ ready' \in Nat /\ incomplete' \in Nat
  BY <1>1, <1>3, <1>4, CompletionKeeps
<1>6. TypeOK'
  <2>1. tail' \in Seq(Units) /\ captured' \subseteq Units
    BY <1>1, <1>2, <1>4 DEF TypeOK
  <2> QED BY <1>1, <1>2, <1>3, <1>5, <2>1 DEF TypeOK
<1>7. OperationOK'
  <2>1. Elements(op'.left) = {}
    BY <1>3 DEF Elements
  <2> QED BY <1>1, <1>2, <1>3, <2>1, InnerOperation DEF Phases
<1> DEFINE l == op.left
<1>8. tail' = Cat(tail, l) /\ l \in Seq(Units) /\ tail \in Seq(Units)
  BY <1>1, <1>4 DEF Cat
<1> HIDE DEF l
<1>9. ChainOK'
  <2>1. Cat(tail, l) \in Seq(Units)
    BY <1>8, CatType
  <2>2. Cat(tail', op'.left) = Cat(tail, l)
    BY <1>3, <1>8, <2>1, CatEmpty
  <2> QED BY <1>1, <2>2, InnerChain DEF l
<1>10. TextOK'
  <2>1. Len(tail') = Len(tail) + Len(l) /\ Len(tail) \in Nat /\ Len(l) \in Nat
    BY <1>8, CatLength
  <2>2. Len(tail') <= HoldLimit
    BY <1>1, <2>1, RunnerAssumption DEF l
  <2>3. Elements(tail') \subseteq captured'
    <3>1. Elements(tail') = Elements(tail) \cup Elements(l)
      BY <1>8, UnitsJoined
    <3>2. Elements(tail) \subseteq captured
      BY DEF RunnerInv, TextOK
    <3> QED BY <1>1, <3>1, <3>2 DEF l
  <2> QED BY <1>1, <1>3, <1>4, <2>2, <2>3 DEF TextOK
<1> QED BY <1>2, <1>5, <1>6, <1>7, <1>9, <1>10 DEF RunnerInv

LEMMA HoldOverflowsKeeps == ASSUME RunnerInv, HoldOverflows PROVE RunnerInv'
<1>1. /\ gui = "loop" /\ gui' = "loop" /\ Stays /\ ~work /\ op.phase = "source" /\ hold # <<>>
      /\ ~(Len(op.left) <= HoldLimit - Len(tail))
      /\ hold' = <<>> /\ applied' = applied \o hold
      /\ op' = [op EXCEPT !.phase = "tail", !.owns = TRUE, !.rearm = TRUE]
      /\ UNCHANGED <<tail, stash, work, stopped, windowTaken, window, replies, processed, ready, incomplete,
                     stopRequested, stopSequence, exited, ignored, captured>>
  BY DEF HoldOverflows, Runs, HoldHasRoom, Release, step, epochs, stops
<1>2. /\ UNCHANGED <<sent, taken, pending, sequence, call, draining, timed, target, frames, answer, inputs>>
      /\ SentOK' /\ QueueOK' /\ CallOK' /\ gui' \in Places /\ TypeOK /\ op.kind # "none" /\ op.kind = "output"
      /\ op.epoch # 0 => processed < op.epoch
  BY <1>1, RunsFacts
<1>3. /\ op' \in Operations /\ op'.kind = op.kind /\ op'.epoch = op.epoch /\ op'.phase = "tail"
      /\ op'.left = op.left /\ op'.owns
  BY <1>1, <1>2, OperationTypes DEF Operations, Phases
<1>4. op.left # <<>>
  <2>1. Len(tail) <= HoldLimit /\ Len(tail) \in Nat
    BY <1>1 DEF RunnerInv, TextOK, TypeOK
  <2>2. ASSUME op.left = <<>> PROVE FALSE
    <3>1. Len(op.left) = 0
      BY <2>2
    <3> QED BY <1>1, <2>1, <3>1, RunnerAssumption
  <2> QED BY <2>2
<1>5. TypeOK'
  <2>1. applied' \in Seq(Units) /\ hold' \in Seq(Units)
    BY <1>1, <1>2 DEF TypeOK
  <2> QED BY <1>1, <1>2, <1>3, <2>1 DEF TypeOK
<1>6. OperationOK'
  BY <1>1, <1>2, <1>3, <1>4, InnerOperation DEF Phases
<1>7. ChainOK'
  <2> DEFINE r == Cat(tail, op.left)
  <2>1. /\ applied \in Seq(Units) /\ hold \in Seq(Units) /\ stash \in Seq(Units)
        /\ r \in Seq(Units)
    BY <1>1, <1>2, ChainOfPlaces DEF TypeOK
  <2> HIDE DEF r
  <2>2. Line(Cat(applied, hold), <<>>, stash, r) = Line(applied, hold, stash, r)
    BY <2>1, HoldIsApplied
  <2>3. Line(applied', hold', stash', Cat(tail', op'.left)) = Line(applied, hold, stash, Cat(tail, op.left))
    BY <1>1, <1>3, <2>2 DEF Cat, r
  <2> QED BY <1>1, <2>3, InnerChain
<1>8. TextOK'
  BY <1>1, <1>2, <1>3 DEF RunnerInv, TextOK
<1>9. EpochOK'
  <2>1. stash = <<>>
    BY <1>1 DEF RunnerInv, TextOK
  <2>2. Elements(stash') = {}
    BY <1>1, <2>1 DEF Elements
  <2> QED BY <1>1, <1>2, <1>3, <2>2 DEF RunnerInv, EpochOK
<1> QED BY <1>2, <1>5, <1>6, <1>7, <1>8, <1>9 DEF RunnerInv

LEMMA SourceIsEmptyKeeps == ASSUME RunnerInv, SourceIsEmpty PROVE RunnerInv'
<1>1. /\ gui = "loop" /\ gui' = "loop" /\ Stays /\ ~work /\ op.phase = "source" /\ hold = <<>> /\ op.left = <<>>
      /\ op' = [op EXCEPT !.phase = "retired"] /\ windowTaken' = TRUE
      /\ UNCHANGED <<hold, tail, stash, work, stopped, window, replies, stopRequested, stopSequence, exited,
                     applied, ignored, captured>>
      /\ CompleteOutput(op.epoch)
  BY DEF SourceIsEmpty, Runs, Retired, text, stops, history
<1>2. /\ UNCHANGED <<sent, taken, pending, sequence, call, draining, timed, target, frames, answer, inputs>>
      /\ SentOK' /\ QueueOK' /\ CallOK' /\ gui' \in Places /\ TypeOK /\ op.kind # "none" /\ op.kind = "output"
  BY <1>1, RunsFacts
<1>3. /\ op' \in Operations /\ op'.kind = op.kind /\ op'.epoch = op.epoch /\ op'.phase = "retired"
      /\ op'.left = op.left
  BY <1>1, <1>2, OperationTypes DEF Operations, Phases
<1>4. stash = <<>> /\ tail = <<>>
  BY <1>1, NoTail DEF RunnerInv, TextOK
<1>5. EpochOK' /\ processed' \in Nat /\ ready' \in Nat /\ incomplete' \in Nat
  BY <1>1, <1>3, <1>4, CompletionKeeps
<1>6. TypeOK'
  BY <1>1, <1>2, <1>3, <1>5 DEF TypeOK
<1>7. OperationOK'
  BY <1>1, <1>2, <1>3, InnerOperation DEF Phases
<1>8. ChainOK'
  BY <1>1, <1>3, InnerChain
<1>9. TextOK'
  BY <1>1, <1>3, <1>4 DEF RunnerInv, TextOK
<1> QED BY <1>2, <1>5, <1>6, <1>7, <1>8, <1>9 DEF RunnerInv

LEMMA TailFinishesKeeps == ASSUME RunnerInv, TailFinishes PROVE RunnerInv'
<1>1. /\ gui = "loop" /\ gui' = "loop" /\ Stays /\ ~work /\ op.phase = "tail" /\ (hold # <<>> \/ tail = <<>>)
      /\ \/ applied' = applied /\ stash' = stash
         \/ hold = <<>> /\ applied' = applied \o stash /\ stash' = <<>>
      /\ op' = [op EXCEPT !.phase = CASE op.kind = "output" -> "source"
                                      [] op.kind = "exit"   -> "exit"
                                      [] OTHER              -> "retired"]
      /\ UNCHANGED <<hold, tail, work, stopped, windowTaken, window, replies, processed, ready, incomplete,
                     stopRequested, stopSequence, exited, ignored, captured>>
  <2>1. PICK flushed : /\ flushed = IF hold = <<>> /\ ~op.rearm THEN stash ELSE <<>>
                       /\ applied' = applied \o flushed
                       /\ stash' = IF flushed # <<>> THEN <<>> ELSE stash
    BY DEF TailFinishes
  <2>2. applied \o <<>> = applied
    BY DEF RunnerInv, TypeOK
  <2>3. \/ applied' = applied /\ stash' = stash
        \/ hold = <<>> /\ applied' = applied \o stash /\ stash' = <<>>
    BY <2>1, <2>2
  <2> QED BY <2>3 DEF TailFinishes, Runs, step, epochs, stops
<1>2. /\ UNCHANGED <<sent, taken, pending, sequence, call, draining, timed, target, frames, answer, inputs>>
      /\ SentOK' /\ QueueOK' /\ CallOK' /\ gui' \in Places /\ TypeOK /\ op.kind # "none"
      /\ op.kind # "output" => op.left = <<>>
      /\ op.epoch # 0 => processed < op.epoch
      /\ op.owns /\ (op.kind = "output" => op.left # <<>>) /\ (op.kind = "exit" => hold = <<>>)
  <2>1. op.owns /\ (op.kind = "output" => op.left # <<>>) /\ (op.kind = "exit" => hold = <<>>)
    BY <1>1 DEF RunnerInv, OperationOK, TextOK
  <2> QED BY <1>1, <2>1, RunsFacts
<1>3. /\ op' \in Operations /\ op'.kind = op.kind /\ op'.epoch = op.epoch /\ op'.left = op.left /\ op'.owns
      /\ op'.phase \in {"source", "exit", "retired"}
      /\ (op'.phase = "source") <=> (op.kind = "output")
      /\ (op'.phase = "exit") <=> (op.kind = "exit")
  <2> DEFINE p == CASE op.kind = "output" -> "source" [] op.kind = "exit" -> "exit" [] OTHER -> "retired"
  <2>1. /\ p \in {"source", "exit", "retired"} /\ ((p = "source") <=> (op.kind = "output"))
        /\ ((p = "exit") <=> (op.kind = "exit"))
    OBVIOUS
  <2>2. op' = [op EXCEPT !.phase = p]
    BY <1>1
  <2> HIDE DEF p
  <2>3. p \in Phases
    BY <2>1 DEF Phases
  <2>4. op' \in Operations /\ op'.kind = op.kind /\ op'.epoch = op.epoch /\ op'.left = op.left /\ op'.owns = op.owns
        /\ op'.phase = p
    BY <1>2, <2>2, <2>3, OperationTypes DEF Operations
  <2> QED BY <1>2, <2>1, <2>4
<1>4. TypeOK'
  <2>1. applied' \in Seq(Units) /\ stash' \in Seq(Units)
    <3>1. applied \in Seq(Units) /\ stash \in Seq(Units) /\ applied \o stash \in Seq(Units) /\ <<>> \in Seq(Units)
      BY <1>2 DEF TypeOK
    <3> QED BY <1>1, <3>1
  <2> QED BY <1>1, <1>2, <1>3, <2>1 DEF TypeOK
<1>5. OperationOK'
  BY <1>1, <1>2, <1>3, InnerOperation DEF Phases
<1>6. ChainOK'
  <2> DEFINE r == Cat(tail, op.left)
  <2>1. applied \in Seq(Units) /\ stash \in Seq(Units) /\ r \in Seq(Units)
    BY <1>2, ChainOfPlaces DEF TypeOK
  <2> HIDE DEF r
  <2>2. Line(Cat(applied, stash), <<>>, <<>>, r) = Line(applied, <<>>, stash, r)
    BY <2>1, CandidateIsApplied
  <2>3. Line(applied', hold', stash', Cat(tail', op'.left)) = Line(applied, hold, stash, Cat(tail, op.left))
    BY <1>1, <1>3, <2>2 DEF Cat, r
  <2> QED BY <1>1, <2>3, InnerChain
<1>7. stash' = stash \/ stash' = <<>>
  BY <1>1
<1>8. TextOK'
  BY <1>1, <1>2, <1>3, <1>7 DEF RunnerInv, TextOK
<1>9. EpochOK'
  <2>1. Elements(stash') \subseteq Elements(stash)
    BY <1>7 DEF Elements
  <2>2. op.phase # "source"
    BY <1>1
  <2> QED BY <1>1, <1>2, <1>3, <2>1, <2>2 DEF RunnerInv, EpochOK
<1> QED BY <1>2, <1>4, <1>5, <1>6, <1>8, <1>9 DEF RunnerInv

LEMMA ExitEffectsKeeps == ASSUME RunnerInv, ExitEffects PROVE RunnerInv'
<1>1. /\ gui = "loop" /\ gui' = "loop" /\ Stays /\ op.phase = "exit" /\ replies' = <<>>
      /\ op' = [op EXCEPT !.phase = "retired"]
      /\ exited' = TRUE /\ stopRequested' = FALSE
      /\ UNCHANGED <<hold, tail, stash, work, stopped, windowTaken, window, processed, ready, incomplete,
                     stopSequence, applied, ignored, captured>>
  BY DEF ExitEffects, Runs, DisposeReplies, Retired, ApplyExit, text, step, epochs, history
<1>2. /\ UNCHANGED <<sent, taken, pending, sequence, call, draining, timed, target, frames, answer, inputs>>
      /\ SentOK' /\ QueueOK' /\ CallOK' /\ gui' \in Places /\ TypeOK /\ op.kind # "none" /\ op.kind = "exit"
      /\ op.left = <<>>
  BY <1>1, RunsFacts
<1>3. /\ op' \in Operations /\ op'.kind = op.kind /\ op'.epoch = op.epoch /\ op'.phase = "retired"
      /\ op'.left = op.left
  BY <1>1, <1>2, OperationTypes DEF Operations, Phases
<1>4. hold = <<>> /\ tail = <<>> /\ ~work
  BY <1>1, NoTail DEF RunnerInv, TextOK
<1>5. TypeOK'
  <2>1. replies' \in Seq(Units) /\ stopRequested' = FALSE /\ exited' = TRUE
    <3>1. <<>> \in Seq(Units)
      OBVIOUS
    <3> QED BY <1>1, <3>1
  <2> QED BY <1>1, <1>2, <1>3, <2>1 DEF TypeOK
<1>6. OperationOK'
  BY <1>1, <1>2, <1>3, InnerOperation DEF Phases
<1>7. ChainOK'
  BY <1>1, <1>3, InnerChain
<1>8. TextOK' /\ EpochOK'
  BY <1>1, <1>2, <1>3, <1>4 DEF RunnerInv, TextOK, EpochOK
<1> QED BY <1>2, <1>5, <1>6, <1>7, <1>8 DEF RunnerInv

(***************************************************************************)
(* The units of a window.                                                  *)
(***************************************************************************)
\* What a window has in front: a unit, and behind it what the two places keep.
LEMMA WindowFacts ==
    ASSUME RunnerInv, gui = "window", Stays, gui' \in {"loop", "window"}
    PROVE  /\ UNCHANGED <<sent, taken, pending, sequence, call, draining, timed, target, frames, answer, inputs>>
           /\ SentOK' /\ QueueOK' /\ CallOK' /\ gui' \in Places
           /\ TypeOK /\ op.kind # "none" /\ hold = <<>> /\ ~work /\ ~stopped
           /\ op.phase \in {"source", "tail"} /\ window \in 1..Len(Source) /\ Source # <<>>
           /\ op.epoch # 0 => processed < op.epoch
           /\ op.owns /\ (op.phase = "source" => op.kind = "output")
           /\ op.phase = "source" => Source = op.left /\ tail = <<>>
           /\ op.phase = "tail" => Source = tail
           /\ Source \in Seq(Units) /\ Head(Source) \in Units /\ Tail(Source) \in Seq(Units)
           /\ Len(Tail(Source)) = Len(Source) - 1
           /\ op.left \in Seq(Units) /\ tail \in Seq(Units)
           /\ Cat(tail, op.left) = Cat(<<Head(Source)>>, IF op.phase = "source" THEN Tail(op.left) ELSE Cat(Tail(tail), op.left))
           /\ op.phase = "source" => Head(Source).epoch = op.epoch
           /\ op.phase = "tail" => Head(Source) \in captured
<1>1. /\ UNCHANGED <<sent, taken, pending, sequence, call, draining, timed, target, frames, answer, inputs>>
      /\ SentOK' /\ QueueOK' /\ CallOK' /\ gui' \in Places /\ TypeOK /\ op.kind # "none"
      /\ op.phase = "source" => op.kind = "output"
      /\ op.phase # "retired" /\ op.epoch # 0 => processed < op.epoch
  BY RunsFacts
<1>2. op.phase \in {"source", "tail"} /\ window \in 1..Len(Source) /\ hold = <<>> /\ ~work /\ ~stopped
  BY DEF RunnerInv, TextOK
<1>3. op.owns
  BY <1>2 DEF RunnerInv, OperationOK
<1>4. op.left \in Seq(Units) /\ tail \in Seq(Units)
  BY <1>1, OperationTypes DEF TypeOK
<1>5. /\ op.phase = "source" => Source = op.left /\ tail = <<>>
      /\ op.phase = "tail" => Source = tail
  BY <1>2, NoTail DEF Source
<1>6. Source \in Seq(Units)
  BY <1>2, <1>4, <1>5
<1> DEFINE q == Source
<1>7. q \in Seq(Units) /\ q # <<>>
  <2>1. ASSUME Source = <<>> PROVE FALSE
    BY <1>2, <2>1
  <2> QED BY <1>6, <2>1
<1> HIDE DEF q
<1>8. /\ Head(q) \in Units /\ Tail(q) \in Seq(Units) /\ Len(Tail(q)) = Len(q) - 1
      /\ <<Head(q)>> \in Seq(Units) /\ q = Cat(<<Head(q)>>, Tail(q))
  BY <1>7, HeadAndTail
<1>9. Cat(tail, op.left) = Cat(<<Head(q)>>, IF op.phase = "source" THEN Tail(op.left) ELSE Cat(Tail(tail), op.left))
  <2>1. CASE op.phase = "source"
    <3>1. Cat(tail, op.left) = q
      BY <1>4, <1>5, <2>1, CatEmpty DEF q
    <3> QED BY <1>5, <1>8, <2>1, <3>1 DEF q
  <2>2. CASE op.phase = "tail"
    <3>1. tail = q
      BY <1>5, <2>2 DEF q
    <3> DEFINE l == op.left
               v == <<Head(q)>>
               w == Tail(q)
    <3>2. l \in Seq(Units) /\ v \in Seq(Units) /\ w \in Seq(Units) /\ q = Cat(v, w)
      BY <1>4, <1>8
    <3> HIDE DEF l, v, w
    <3>3. Cat(Cat(v, w), l) = Cat(v, Cat(w, l))
      BY <3>2, CatAssociates
    <3> QED BY <2>2, <3>1, <3>2, <3>3 DEF l, v, w
  <2> QED BY <1>2, <2>1, <2>2
<1>10. Head(q) \in Elements(q)
  <2>1. 1 \in DOMAIN q /\ Head(q) = q[1]
    BY <1>7
  <2> QED BY <2>1 DEF Elements
<1>11. /\ op.phase = "source" => Head(q).epoch = op.epoch
       /\ op.phase = "tail" => Head(q) \in captured
  <2>1. Elements(tail) \subseteq captured /\ \A u \in Elements(op.left) : u.epoch = op.epoch
    BY DEF RunnerInv, TextOK, OperationOK
  <2> QED BY <1>5, <1>10, <2>1 DEF q
<1> QED BY <1>1, <1>2, <1>3, <1>4, <1>5, <1>6, <1>7, <1>8, <1>9, <1>11 DEF q

\* The epochs at the end of a source, or of no source.
LEMMA UnitEpochs ==
    ASSUME RunnerInv, gui = "window", Stays, gui' \in {"loop", "window"}, WindowEndsSource,
           op'.epoch = op.epoch, op'.phase \in {op.phase, "retired"}, captured \subseteq captured',
           op'.phase = "retired" <=> (op.phase = "source" /\ op'.left = <<>> /\ ~stopped'),
           \A u \in Elements(stash') :
             u \in captured' \/ (op.phase = "source" /\ u.epoch = op.epoch) \/ u \in Elements(stash)
    PROVE  EpochOK' /\ processed' \in Nat /\ ready' \in Nat /\ incomplete' \in Nat
<1>1. /\ op.phase \in {"source", "tail"} /\ (op.epoch # 0 => processed < op.epoch)
      /\ taken' = taken /\ pending' = pending
      /\ op.phase = "source" => op.kind = "output"
  BY WindowFacts
<1>2. /\ processed \in Nat /\ processed <= taken /\ ready \in Nat /\ ready <= taken /\ taken \in Nat
      /\ incomplete \in Nat /\ op.epoch \in Nat /\ op.epoch <= taken
      /\ \A i \in DOMAIN pending : pending[i].epoch # 0 => processed < pending[i].epoch
      /\ incomplete # 0 => processed < incomplete
      /\ op.kind = "output" => op.epoch # 0
  BY OperationTypes DEF RunnerInv, TypeOK, EpochOK, OperationOK
<1>3. /\ \A u \in Elements(stash) : \/ u \in captured
                                    \/ incomplete # 0 /\ incomplete <= u.epoch
                                    \/ op.phase = "source" /\ u.epoch = op.epoch
      /\ \A u \in Elements(stash) : u.epoch \in Nat
  <2>1. stash \in Seq(Units)
    BY DEF RunnerInv, TypeOK
  <2>2. Elements(stash) \subseteq Units
    BY <2>1, ElementsOf
  <2> QED BY <2>2 DEF RunnerInv, EpochOK, Units
<1>4. CASE ~(op.phase = "source" /\ op'.left = <<>> /\ ~stopped')
  <2>1. UNCHANGED <<processed, ready, incomplete>> /\ op'.phase = op.phase
    BY <1>4 DEF WindowEndsSource, epochs
  <2>2. \A u \in Elements(stash') : \/ u \in captured'
                                    \/ incomplete # 0 /\ incomplete <= u.epoch
                                    \/ op.phase = "source" /\ u.epoch = op.epoch
    BY <1>3
  <2> QED BY <1>1, <1>2, <2>1, <2>2 DEF EpochOK
<1>5. CASE op.phase = "source" /\ op'.left = <<>> /\ ~stopped' /\ stash' # <<>>
  <2>1. RecordIncomplete(op.epoch) /\ op'.phase = "retired"
    BY <1>5 DEF WindowEndsSource
  <2>2. /\ incomplete' = (IF incomplete = 0 \/ op.epoch < incomplete THEN op.epoch ELSE incomplete)
        /\ UNCHANGED <<processed, ready>>
    BY <2>1 DEF RecordIncomplete
  <2>3. /\ incomplete' \in Nat /\ incomplete' # 0 /\ processed < incomplete' /\ incomplete' <= op.epoch
        /\ incomplete # 0 => incomplete' <= incomplete
    BY <1>1, <1>2, <1>5, <2>2
  <2>4. ASSUME NEW u \in Elements(stash') PROVE u \in captured' \/ (incomplete' # 0 /\ incomplete' <= u.epoch)
    <3>1. CASE u \in Elements(stash)
      BY <1>2, <1>3, <2>3, <3>1
    <3>2. CASE u \notin Elements(stash)
      BY <2>3, <3>2
    <3> QED BY <3>1, <3>2
  <2> QED BY <1>1, <1>2, <2>1, <2>2, <2>3, <2>4 DEF EpochOK
<1>6. CASE op.phase = "source" /\ op'.left = <<>> /\ ~stopped' /\ stash' = <<>>
  <2>1. CompleteOutput(op.epoch) /\ op'.phase = "retired"
    BY <1>6 DEF WindowEndsSource
  <2> QED BY <1>6, <2>1, CompletionKeeps
<1> QED BY <1>4, <1>5, <1>6

\* A request is captured with what is left of its window.
LEMMA ArmHoldKeeps == ASSUME RunnerInv, ArmHold PROVE RunnerInv'
<1> DEFINE u == Head(Source)
           lft == IF op.phase = "source" THEN SubSeq(op.left, window + 1, Len(op.left)) ELSE op.left
           rest == IF op.phase = "source" THEN Tail(op.left) ELSE Cat(Tail(tail), op.left)
<1>1. /\ gui = "window" /\ gui' = "loop" /\ Stays /\ WindowEndsSource
      /\ UNCHANGED <<stopRequested, stopSequence, exited, ignored, work, replies, stopped, windowTaken>>
      /\ Arms(u) /\ hold' = Request(u) /\ applied' = applied \o Flushed(u) /\ stash' = <<>>
      /\ tail' = IF op.phase = "source" THEN RestOfWindow(op.left) ELSE Tail(tail)
      /\ captured' = captured \cup Elements(tail')
      /\ op' = [op EXCEPT !.left = lft, !.phase = IF @ = "source" /\ lft = <<>> THEN "retired" ELSE @]
      /\ window' = 0
  BY DEF ArmHold, InWindow, stops
<1>2. /\ UNCHANGED <<sent, taken, pending, sequence, call, draining, timed, target, frames, answer, inputs>>
      /\ SentOK' /\ QueueOK' /\ CallOK' /\ gui' \in Places
      /\ TypeOK /\ op.kind # "none" /\ hold = <<>> /\ ~work /\ ~stopped
      /\ op.phase \in {"source", "tail"} /\ window \in 1..Len(Source)
      /\ op.owns /\ (op.phase = "source" => op.kind = "output")
      /\ op.phase = "source" => Source = op.left /\ tail = <<>>
      /\ op.phase = "tail" => Source = tail
      /\ Source \in Seq(Units) /\ u \in Units /\ Tail(Source) \in Seq(Units)
      /\ op.left \in Seq(Units) /\ tail \in Seq(Units)
      /\ Cat(tail, op.left) = Cat(<<u>>, rest)
  BY <1>1, WindowFacts
<1> HIDE DEF u
<1>3. /\ lft \in Seq(Units) /\ tail' \in Seq(Units) /\ Cat(tail', lft) = rest /\ rest \in Seq(Units)
      /\ Len(tail') <= Len(Tail(Source)) /\ (op.phase = "tail" => lft = op.left)
  <2>1. CASE op.phase = "source"
    <3> DEFINE s == op.left
               w == window
    <3>1. s \in Seq(Units) /\ w \in 1..Len(s)
      BY <1>2, <2>1
    <3> HIDE DEF s, w
    <3>2. /\ SubSeq(s, 2, w) \in Seq(Units) /\ SubSeq(s, w + 1, Len(s)) \in Seq(Units)
          /\ Tail(s) = Cat(SubSeq(s, 2, w), SubSeq(s, w + 1, Len(s)))
          /\ Len(SubSeq(s, 2, w)) <= Len(Tail(s))
      BY <3>1, WindowAndRest
    <3>3. Cat(SubSeq(s, 2, w), SubSeq(s, w + 1, Len(s))) \in Seq(Units)
      BY <3>2, CatType
    <3>4. Tail(s) \in Seq(Units)
      BY <3>2, <3>3
    <3>5. tail' = SubSeq(s, 2, w) /\ lft = SubSeq(s, w + 1, Len(s)) /\ rest = Tail(s) /\ Source = s
      BY <1>1, <1>2, <2>1 DEF RestOfWindow, s, w
    <3> HIDE DEF lft, rest
    <3> QED BY <2>1, <3>2, <3>4, <3>5
  <2>2. CASE op.phase = "tail"
    <3>1. tail' = Tail(tail) /\ lft = op.left /\ rest = Cat(Tail(tail), op.left) /\ Source = tail
      BY <1>1, <1>2, <2>2
    <3>2. Tail(tail) \in Seq(Units) /\ op.left \in Seq(Units) /\ Len(Tail(tail)) \in Nat
      BY <1>2, <3>1
    <3>3. Cat(Tail(tail), op.left) \in Seq(Units)
      BY <3>2, CatType
    <3> HIDE DEF lft, rest
    <3> QED BY <3>1, <3>2, <3>3
  <2> QED BY <1>2, <2>1, <2>2
<1> HIDE DEF lft
<1>4. /\ op' \in Operations /\ op'.kind = op.kind /\ op'.epoch = op.epoch /\ op'.left = lft /\ op'.owns
      /\ op'.rearm = op.rearm
      /\ op'.phase = (IF op.phase = "source" /\ lft = <<>> THEN "retired" ELSE op.phase)
  <2> DEFINE p == IF op.phase = "source" /\ lft = <<>> THEN "retired" ELSE op.phase
  <2>1. op' = [op EXCEPT !.left = lft, !.phase = p]
    BY <1>1
  <2>2. p \in Phases
    BY <1>2 DEF Phases
  <2> HIDE DEF p
  <2>3. op' \in Operations /\ op'.kind = op.kind /\ op'.epoch = op.epoch /\ op'.left = lft /\ op'.owns = op.owns
        /\ op'.phase = p /\ op'.rearm = op.rearm
    BY <1>2, <1>3, <2>1, <2>2, OperationTypes DEF Operations
  <2> QED BY <1>2, <2>3 DEF p
<1>5. Len(tail') <= HoldLimit /\ (op.phase = "source" \/ op.rearm) /\ Request(u) # <<>>
  <2>1. Len(Tail(Source)) <= HoldLimit /\ Len(Tail(Source)) \in Nat /\ Len(tail') \in Nat
    BY <1>1, <1>2, <1>3 DEF Arms, u
  <2> QED BY <1>1, <1>3, <2>1, RunnerAssumption DEF Arms
<1>6. Elements(tail') \subseteq Units /\ captured' \subseteq Units /\ captured \subseteq captured'
  <2> DEFINE t == tail'
  <2>1. t \in Seq(Units)
    BY <1>3
  <2> HIDE DEF t
  <2>2. Elements(t) \subseteq Units
    BY <2>1, ElementsOf
  <2> QED BY <1>1, <1>2, <2>2 DEF TypeOK, t
<1> DEFINE v == <<u>>
<1>7. v \in Seq(Units) /\ applied \in Seq(Units) /\ stash \in Seq(Units)
  BY <1>2 DEF TypeOK
<1>8. \/ hold' = v /\ applied' = Cat(applied, stash)
      \/ hold' = Cat(stash, v) /\ applied' = applied
  <2>1. applied \o <<>> = applied
    BY <1>7
  <2>2. CASE u.kind = "request"
    BY <1>1, <2>2 DEF Request, Flushed, Cat
  <2>3. CASE u.kind = "rest"
    <3>1. Request(u) = stash \o v /\ Flushed(u) = <<>>
      BY <1>5, <2>3 DEF Request, Flushed
    <3> QED BY <1>1, <2>1, <3>1 DEF Cat
  <2>4. CASE u.kind \notin {"request", "rest"}
    BY <1>5, <2>4 DEF Request
  <2> QED BY <2>2, <2>3, <2>4
<1> HIDE DEF v, rest
<1>9. hold' \in Seq(Units) /\ applied' \in Seq(Units)
  BY <1>7, <1>8, CatType
<1>10. EpochOK' /\ processed' \in Nat /\ ready' \in Nat /\ incomplete' \in Nat
  <2>1. Elements(stash') = {}
    BY <1>1 DEF Elements
  <2>2. op'.phase = "retired" <=> (op.phase = "source" /\ op'.left = <<>> /\ ~stopped')
    BY <1>1, <1>2, <1>4
  <2> QED BY <1>1, <1>2, <1>4, <1>6, <2>1, <2>2, UnitEpochs
<1>11. TypeOK'
  <2>1. stash' \in Seq(Units) /\ window' \in Nat
    BY <1>1
  <2> QED BY <1>1, <1>2, <1>3, <1>4, <1>6, <1>9, <1>10, <2>1 DEF TypeOK
<1>12. OperationOK'
  <2>1. Elements(lft) \subseteq Elements(op.left)
    <3>1. CASE op.phase = "source"
      <4>1. lft = SubSeq(op.left, window + 1, Len(op.left)) /\ window \in Nat
        BY <1>2, <3>1 DEF lft
      <4>2. \A i \in DOMAIN lft : lft[i] = op.left[window + i] /\ window + i \in DOMAIN op.left
        BY <1>2, <4>1
      <4> QED BY <4>2 DEF Elements
    <3>2. CASE op.phase = "tail"
      BY <1>3, <3>2
    <3> QED BY <1>2, <3>1, <3>2
  <2>2. op.kind # "output" => op.left = <<>> /\ op.phase = "tail"
    BY <1>2 DEF RunnerInv, OperationOK
  <2>3. op.kind = "output" /\ op.phase = "tail" => op.left # <<>>
    BY DEF RunnerInv, OperationOK
  <2> QED BY <1>1, <1>2, <1>3, <1>4, <2>1, <2>2, <2>3, InnerOperation DEF Phases
<1>13. ChainOK'
  <2>1. /\ Line(Cat(applied, stash), v, <<>>, rest) = Line(applied, <<>>, stash, Cat(v, rest))
        /\ Line(applied, Cat(stash, v), <<>>, rest) = Line(applied, <<>>, stash, Cat(v, rest))
    BY <1>3, <1>7, LineStays
  <2>2. Line(applied', hold', stash', Cat(tail', op'.left)) = Line(applied, hold, stash, Cat(tail, op.left))
    <3>1. Cat(tail', op'.left) = rest /\ Cat(tail, op.left) = Cat(v, rest) /\ stash' = <<>> /\ hold = <<>>
      BY <1>1, <1>2, <1>3, <1>4 DEF v, rest
    <3> QED BY <1>8, <2>1, <3>1
  <2> QED BY <1>1, <2>2, InnerChain
<1>14. TextOK'
  <2>1. hold' # <<>> /\ stash' = <<>> /\ ~work'
    BY <1>1, <1>2, <1>5
  <2>2. op.kind = "exit" /\ op.phase = "tail" => ~op.rearm
    BY DEF RunnerInv, TextOK
  <2>3. ~(op'.kind = "exit" /\ op'.phase = "tail") /\ op'.phase # "exit"
    BY <1>2, <1>4, <1>5, <2>2
  <2>4. op'.phase = "source" => op'.left # <<>>
    BY <1>4
  <2> QED BY <1>1, <1>5, <2>1, <2>3, <2>4 DEF TextOK
<1> QED BY <1>2, <1>10, <1>11, <1>12, <1>13, <1>14 DEF RunnerInv

\* One unit leaves the window; what it becomes is in front of the rest.
LEMMA ConsumeKeeps ==
    ASSUME RunnerInv, InWindow, NEW stops_here \in BOOLEAN, Consume(stops_here),
           UNCHANGED <<hold, captured>>, replies' \in Seq(Units), work' = TRUE => stops_here,
           work' \in BOOLEAN, stops_here => stash' = <<>>,
           \/ /\ applied' = Cat(applied, stash) /\ stash' = <<Head(Source)>>
           \/ /\ applied' = Cat(Cat(applied, stash), <<Head(Source)>>) /\ stash' = <<>>
    PROVE  RunnerInv'
<1> DEFINE u == Head(Source)
           lft == IF op.phase = "source" THEN Tail(op.left) ELSE op.left
           rest == IF op.phase = "source" THEN Tail(op.left) ELSE Cat(Tail(tail), op.left)
<1>1. /\ gui = "window" /\ Stays /\ WindowEndsSource
      /\ UNCHANGED <<stopRequested, stopSequence, exited, ignored, windowTaken>>
      /\ tail' = IF op.phase = "tail" THEN Tail(tail) ELSE tail
      /\ op' = [op EXCEPT !.left = lft, !.phase = IF @ = "source" /\ lft = <<>> /\ ~stops_here THEN "retired" ELSE @]
      /\ stopped' = stops_here
      /\ window' = (IF stops_here THEN 0 ELSE window - 1)
      /\ gui' = (IF window' = 0 THEN "loop" ELSE "window")
  BY DEF InWindow, Consume, stops
<1>2. /\ UNCHANGED <<sent, taken, pending, sequence, call, draining, timed, target, frames, answer, inputs>>
      /\ SentOK' /\ QueueOK' /\ CallOK' /\ gui' \in Places
      /\ TypeOK /\ op.kind # "none" /\ hold = <<>> /\ ~work /\ ~stopped
      /\ op.phase \in {"source", "tail"} /\ window \in 1..Len(Source)
      /\ op.owns /\ (op.phase = "source" => op.kind = "output")
      /\ op.phase = "source" => Source = op.left /\ tail = <<>>
      /\ op.phase = "tail" => Source = tail
      /\ Source \in Seq(Units) /\ u \in Units /\ Tail(Source) \in Seq(Units)
      /\ Len(Tail(Source)) = Len(Source) - 1
      /\ op.left \in Seq(Units) /\ tail \in Seq(Units)
      /\ Cat(tail, op.left) = Cat(<<u>>, rest)
      /\ op.phase = "source" => u.epoch = op.epoch
      /\ op.phase = "tail" => u \in captured
  <2>1. gui' \in {"loop", "window"}
    BY <1>1
  <2> QED BY <1>1, <2>1, WindowFacts
<1> DEFINE q == Source
<1>3. /\ lft \in Seq(Units) /\ tail' \in Seq(Units) /\ Cat(tail', lft) = rest /\ rest \in Seq(Units)
      /\ op.phase = "tail" => lft = op.left /\ tail' = Tail(q)
      /\ op.phase = "source" => lft = Tail(q) /\ tail' = <<>>
  <2>1. CASE op.phase = "source"
    <3>1. Tail(op.left) \in Seq(Units) /\ tail' = <<>> /\ <<>> \in Seq(Units) /\ Source = op.left
      BY <1>1, <1>2, <2>1
    <3> DEFINE l == Tail(op.left)
    <3>2. l \in Seq(Units)
      BY <3>1
    <3> HIDE DEF l
    <3>3. Cat(<<>>, l) = l
      BY <3>2, CatEmpty
    <3> QED BY <2>1, <3>1, <3>3 DEF l
  <2>2. CASE op.phase = "tail"
    <3>1. tail' = Tail(tail) /\ lft = op.left /\ rest = Cat(Tail(tail), op.left) /\ Source = tail
      BY <1>1, <1>2, <2>2
    <3>2. Tail(tail) \in Seq(Units) /\ op.left \in Seq(Units)
      BY <1>2, <3>1
    <3>3. Cat(Tail(tail), op.left) \in Seq(Units)
      BY <3>2, CatType
    <3> HIDE DEF lft, rest
    <3> QED BY <2>2, <3>1, <3>2, <3>3
  <2> QED BY <1>2, <2>1, <2>2
<1>4. q \in Seq(Units) /\ Tail(q) \in Seq(Units) /\ Len(q) \in Nat /\ Len(Tail(q)) = Len(q) - 1 /\ window \in 1..Len(q)
  BY <1>2
<1> HIDE DEF lft, u, q
<1>5. /\ op' \in Operations /\ op'.kind = op.kind /\ op'.epoch = op.epoch /\ op'.left = lft /\ op'.owns
      /\ op'.rearm = op.rearm
      /\ op'.phase = (IF op.phase = "source" /\ lft = <<>> /\ ~stops_here THEN "retired" ELSE op.phase)
  <2> DEFINE p == IF op.phase = "source" /\ lft = <<>> /\ ~stops_here THEN "retired" ELSE op.phase
  <2>1. op' = [op EXCEPT !.left = lft, !.phase = p]
    BY <1>1
  <2>2. p \in Phases
    BY <1>2 DEF Phases
  <2> HIDE DEF p
  <2>3. op' \in Operations /\ op'.kind = op.kind /\ op'.epoch = op.epoch /\ op'.left = lft /\ op'.owns = op.owns
        /\ op'.phase = p /\ op'.rearm = op.rearm
    BY <1>2, <1>3, <2>1, <2>2, OperationTypes DEF Operations
  <2> QED BY <1>2, <2>3 DEF p
<1> DEFINE v == <<u>>
<1>6. v \in Seq(Units) /\ applied \in Seq(Units) /\ stash \in Seq(Units) /\ <<>> \in Seq(Units)
  BY <1>2 DEF TypeOK
<1>7. \/ applied' = Cat(applied, stash) /\ stash' = v
      \/ applied' = Cat(Cat(applied, stash), v) /\ stash' = <<>>
  BY DEF u
<1>8. \A x \in Elements(v) : x = u
  <2>1. DOMAIN v = 1..1 /\ v[1] = u
    OBVIOUS
  <2> QED BY <2>1 DEF Elements
<1> HIDE DEF v, rest
<1>9. applied' \in Seq(Units) /\ stash' \in Seq(Units)
  <2>1. Cat(applied, stash) \in Seq(Units)
    BY <1>6, CatType
  <2>2. Cat(Cat(applied, stash), v) \in Seq(Units)
    BY <1>6, <2>1, CatType
  <2> QED BY <1>6, <1>7, <2>1, <2>2
<1>10. EpochOK' /\ processed' \in Nat /\ ready' \in Nat /\ incomplete' \in Nat
  <2>1. ASSUME NEW x \in Elements(stash')
        PROVE  x \in captured' \/ (op.phase = "source" /\ x.epoch = op.epoch)
    <3>1. stash' = v
      BY <1>7, <2>1 DEF Elements
    <3>2. x = u
      BY <1>8, <2>1, <3>1
    <3> QED BY <1>2, <3>2 DEF u
  <2>2. op'.phase = "retired" <=> (op.phase = "source" /\ op'.left = <<>> /\ ~stopped')
    BY <1>1, <1>2, <1>5
  <2>3. gui' \in {"loop", "window"} /\ captured \subseteq captured' /\ op'.phase \in {op.phase, "retired"}
    BY <1>1, <1>5
  <2> QED BY <1>1, <1>5, <2>1, <2>2, <2>3, UnitEpochs
<1>11. TypeOK'
  <2>1. window' \in Nat
    BY <1>1, <1>4
  <2>2. stopped' \in BOOLEAN
    BY <1>1
  <2> QED BY <1>1, <1>2, <1>3, <1>5, <1>9, <1>10, <2>1, <2>2 DEF TypeOK
<1>12. OperationOK'
  <2>1. Elements(lft) \subseteq Elements(op.left)
    <3>1. CASE op.phase = "source"
      <4>1. lft = Tail(op.left) /\ op.left # <<>>
        <5>1. op.left = q
          BY <1>2, <3>1 DEF q
        <5>2. q # <<>>
          BY <1>4
        <5> QED BY <1>3, <3>1, <5>1, <5>2
      <4>2. \A i \in DOMAIN lft : lft[i] = op.left[i + 1] /\ i + 1 \in DOMAIN op.left
        BY <1>2, <4>1
      <4> QED BY <4>2 DEF Elements
    <3>2. CASE op.phase = "tail"
      BY <1>3, <3>2
    <3> QED BY <1>2, <3>1, <3>2
  <2>2. op.kind # "output" => op.left = <<>> /\ op.phase = "tail"
    BY <1>2 DEF RunnerInv, OperationOK
  <2>3. op.kind = "output" /\ op.phase = "tail" => op.left # <<>>
    BY DEF RunnerInv, OperationOK
  <2>4. gui' \in {"loop", "window", "end"}
    BY <1>1
  <2> QED BY <1>1, <1>2, <1>3, <1>5, <2>1, <2>2, <2>3, <2>4, InnerOperation DEF Phases
<1>13. ChainOK'
  <2>1. /\ Line(Cat(applied, stash), <<>>, v, rest) = Line(applied, <<>>, stash, Cat(v, rest))
        /\ Line(Cat(Cat(applied, stash), v), <<>>, <<>>, rest) = Line(applied, <<>>, stash, Cat(v, rest))
    BY <1>3, <1>6, LineStays
  <2>2. Line(applied', hold', stash', Cat(tail', op'.left)) = Line(applied, hold, stash, Cat(tail, op.left))
    <3>1. Cat(tail', op'.left) = rest /\ Cat(tail, op.left) = Cat(v, rest) /\ hold' = <<>> /\ hold = <<>>
      BY <1>2, <1>3, <1>5 DEF v, rest, u
    <3> QED BY <1>7, <2>1, <3>1
  <2> QED BY <1>1, <2>2, InnerChain
<1>14. TextOK'
  <2>1. hold' = <<>> /\ (tail' # <<>> => op'.phase = "tail")
    BY <1>2, <1>3, <1>5
  <2>2. work' => op'.phase \in {"source", "tail"}
    BY <1>2, <1>5
  <2>3. op'.phase = "source" /\ op'.left = <<>> => stash' = <<>>
    BY <1>5
  <2>4. op'.kind = "exit" /\ op'.phase = "tail" => ~op'.rearm
    BY <1>5, <1>2 DEF RunnerInv, TextOK
  <2>5. op'.phase # "exit"
    BY <1>2, <1>5
  <2>6. Elements(tail') \subseteq captured'
    <3>1. Elements(tail) \subseteq captured
      BY DEF RunnerInv, TextOK
    <3>2. CASE op.phase = "source"
      BY <1>3, <3>2 DEF Elements
    <3>3. CASE op.phase = "tail"
      <4>1. tail' = Tail(tail) /\ tail # <<>>
        <5>1. tail = q
          BY <1>2, <3>3 DEF q
        <5>2. q # <<>>
          BY <1>4
        <5> QED BY <1>1, <3>3, <5>1, <5>2
      <4>2. \A i \in DOMAIN tail' : tail'[i] = tail[i + 1] /\ i + 1 \in DOMAIN tail
        BY <1>2, <4>1
      <4> QED BY <3>1, <4>2 DEF Elements
    <3> QED BY <1>2, <3>2, <3>3
  <2>7. gui' = "window" =>
          /\ op'.phase \in {"source", "tail"} /\ window' \in 1..Len(Source)'
          /\ hold' = <<>> /\ ~work' /\ ~stopped'
    <3> SUFFICES ASSUME gui' = "window"
                 PROVE  /\ op'.phase \in {"source", "tail"} /\ window' \in 1..Len(Source)'
                        /\ hold' = <<>> /\ ~work' /\ ~stopped'
      OBVIOUS
    <3>1. window' # 0 /\ ~stops_here /\ window' = window - 1 /\ ~work' /\ ~stopped'
      BY <1>1
    <3>2. window' \in 1..Len(Tail(q)) /\ Tail(q) # <<>>
      <4>1. window' \in 1..Len(Tail(q))
        BY <1>4, <3>1
      <4>2. ASSUME Tail(q) = <<>> PROVE FALSE
        BY <4>1, <4>2
      <4> QED BY <4>1, <4>2
    <3>3. op'.phase = op.phase
      BY <1>2, <1>3, <1>5, <3>2
    <3>4. Source' = Tail(q)
      BY <1>2, <1>3, <1>5, <3>3 DEF Source
    <3> QED BY <1>2, <2>1, <3>1, <3>2, <3>3, <3>4
  <2> QED BY <2>1, <2>2, <2>3, <2>4, <2>5, <2>6, <2>7 DEF TextOK
<1> QED BY <1>2, <1>10, <1>11, <1>12, <1>13, <1>14 DEF RunnerInv

LEMMA UnitsKeep == ASSUME RunnerInv, StashCandidate \/ ApplyUnit PROVE RunnerInv'
<1>1. CASE StashCandidate
  <2>1. /\ InWindow /\ UNCHANGED <<hold, captured, work, replies>> /\ Consume(FALSE)
        /\ applied' = applied \o stash /\ stash' = <<Head(Source)>>
    BY <1>1 DEF StashCandidate
  <2>2. ~work /\ replies \in Seq(Units)
    BY <2>1 DEF InWindow, RunnerInv, TextOK, TypeOK
  <2>3. ~work' /\ work' \in BOOLEAN /\ replies' \in Seq(Units) /\ applied' = Cat(applied, stash) /\ FALSE \in BOOLEAN
    BY <2>1, <2>2 DEF Cat, RunnerInv, TypeOK
  <2> QED BY <2>1, <2>3, ConsumeKeeps
<1>2. CASE ApplyUnit
  <2> DEFINE u == Head(Source)
  <2>1. /\ InWindow /\ UNCHANGED <<hold, captured>> /\ Consume(work')
        /\ applied' = applied \o stash \o <<u>> /\ stash' = <<>>
        /\ replies' = (IF u.kind = "query" THEN Append(replies, u) ELSE replies)
        /\ work' \in (IF u.kind = "image" /\ timed THEN BOOLEAN ELSE {work})
    BY <1>2 DEF ApplyUnit
  <2>2. ~work /\ work \in BOOLEAN /\ replies \in Seq(Units) /\ u \in Units
    <3>1. gui = "window" /\ Stays /\ gui' \in {"loop", "window"}
      BY <2>1 DEF InWindow, Consume
    <3>2. u \in Units
      BY <3>1, WindowFacts
    <3> QED BY <3>1, <3>2 DEF RunnerInv, TextOK, TypeOK
  <2>3. work' \in BOOLEAN
    BY <2>1, <2>2
  <2>4. replies' \in Seq(Units)
    <3> HIDE DEF u
    <3> QED BY <2>1, <2>2
  <2> QED BY <2>1, <2>3, <2>4, ConsumeKeeps DEF Cat
<1> QED BY <1>1, <1>2
-----------------------------------------------------------------------------
(***************************************************************************)
(* The invariant, and what follows from it.                                *)
(***************************************************************************)
LEMMA RunnerNext == RunnerInv /\ [Next]_vars => RunnerInv'
<1> SUFFICES ASSUME RunnerInv, [Next]_vars PROVE RunnerInv'
  OBVIOUS
<1>1. CASE Callbacks
  BY <1>1, CallbacksKeep
<1>2. CASE ScopeBegins \/ ScopeEnds
  BY <1>2, ScopesKeep
<1>3. CASE PostedDrain \/ FrameDrain \/ Input \/ Settle \/ Terminate
  BY <1>3, BeginsKeep
<1>4. CASE Dispatch
  BY <1>4, DispatchKeeps
<1>5. CASE EnqueueTerminate
  BY <1>5, EnqueueTerminateKeeps
<1>6. CASE DrainOverflow \/ DrainIgnored \/ DrainQueued
  BY <1>6, DrainsKeep
<1>7. CASE DrainEnds
  BY <1>7, DrainEndsKeeps
<1>8. CASE RunEnds
  BY <1>8, RunEndsKeeps
<1>9. CASE StepBegins
  BY <1>9, StepBeginsKeeps
<1>10. CASE StepStops
  BY <1>10, StepStopsKeeps
<1>11. CASE StepGoesOn
  BY <1>11, StepGoesOnKeeps
<1>12. CASE AdmitOutput \/ AdmitIgnoredOutput \/ AdmitSettle \/ AdmitExit \/ AdmitOther \/ AdmitTerminate
  BY <1>12, AdmissionsKeep
<1>13. CASE WorkFinishes \/ WorkOutlastsStep \/ LoopEnds \/ TakeWindow
  BY <1>13, WorkKeeps
<1>14. CASE HoldCaptures
  BY <1>14, HoldCapturesKeeps
<1>15. CASE HoldOverflows
  BY <1>15, HoldOverflowsKeeps
<1>16. CASE SourceIsEmpty
  BY <1>16, SourceIsEmptyKeeps
<1>17. CASE TailFinishes
  BY <1>17, TailFinishesKeeps
<1>18. CASE ExitEffects
  BY <1>18, ExitEffectsKeeps
<1>19. CASE StepEnds
  BY <1>19, StepEndsKeeps
<1>20. CASE ArmHold
  BY <1>20, ArmHoldKeeps
<1>21. CASE StashCandidate \/ ApplyUnit
  BY <1>21, UnitsKeep
<1>22. CASE UNCHANGED vars
  <2>1. UNCHANGED <<sent, taken, pending, sequence, op, hold, tail, stash, work, stopped, windowTaken, window,
                    replies, processed, ready, incomplete, stopRequested, stopSequence, exited, gui,
                    call, draining, timed, target, frames, answer, inputs, applied, ignored, captured>>
    BY <1>22 DEF vars, ingress, queue, text, step, epochs, stops, calls, history
  <2>2. TypeOK'
    BY <2>1 DEF RunnerInv, TypeOK
  <2>3. SentOK' /\ QueueOK'
    BY <2>1, QueueStays DEF RunnerInv
  <2>4. ChainOK'
    BY <2>1, ChainStays DEF RunnerInv, Chain
  <2>5. OperationOK' /\ TextOK' /\ EpochOK' /\ CallOK'
    BY <2>1 DEF RunnerInv, OperationOK, TextOK, Source, EpochOK, CallOK
  <2> QED BY <2>2, <2>3, <2>4, <2>5 DEF RunnerInv
<1>23. Next => \/ Callbacks \/ ScopeBegins \/ ScopeEnds \/ PostedDrain \/ FrameDrain \/ Input \/ Settle \/ Terminate
               \/ Steps
  BY DEF Next, Requests
<1>24. CASE Steps
  BY <1>4, <1>5, <1>6, <1>7, <1>8, <1>9, <1>10, <1>11, <1>12, <1>13, <1>14, <1>15, <1>16, <1>17, <1>18,
     <1>19, <1>20, <1>21, <1>24 DEF Steps
<1> QED BY <1>1, <1>2, <1>3, <1>22, <1>23, <1>24

\* The invariant holds whatever the outputs, the calls and the limits are.
THEOREM RunnerInvariant == Spec => []RunnerInv
<1>1. Init => RunnerInv
  BY RunnerInit
<1>2. RunnerInv /\ [Next]_vars => RunnerInv'
  BY RunnerNext
<1> QED BY <1>1, <1>2, PTL DEF Spec

\* Every variable of the runner keeps its type.
THEOREM RunnerTypeCorrect == Spec => []TypeOK
<1>1. RunnerInv => TypeOK
  BY DEF RunnerInv
<1> QED BY <1>1, RunnerInvariant, PTL

\* Output takes effect once and in the order it was sent (ingest_backend_output_bytes,
\* scan_backend_output_span and the replay of a tail), and what waits has one owner.
THEOREM OutputStaysInOrder == Spec => []OutputOrder
<1>1. RunnerInv => OutputOrder
  <2> SUFFICES ASSUME RunnerInv PROVE OutputOrder
    OBVIOUS
  <2>1. applied \in Seq(Units) /\ hold \in Seq(Units) /\ stash \in Seq(Units) /\ Cat(tail, op.left) \in Seq(Units)
    BY ChainOfPlaces DEF RunnerInv, TypeOK
  <2> DEFINE p == Cat(applied, hold)
             q == Cat(p, stash)
             r == Cat(tail, op.left)
  <2>2. p \in Seq(Units)
    BY <2>1, CatType
  <2>3. q \in Seq(Units)
    BY <2>1, <2>2, CatType
  <2>4. Rising(Cat(q, r))
    BY ChainIsALine DEF RunnerInv, ChainOK, Line
  <2>5. r \in Seq(Units)
    BY <2>1
  <2> HIDE DEF r
  <2> HIDE DEF q
  <2>6. Rising(q)
    BY <2>3, <2>4, <2>5, RisingJoin
  <2>7. q = Cat(p, stash)
    BY DEF q
  <2> HIDE DEF p
  <2>8. Rising(p)
    BY <2>1, <2>2, <2>6, <2>7, RisingJoin
  <2>9. p = Cat(applied, hold)
    BY DEF p
  <2>10. Rising(applied)
    BY <2>1, <2>8, <2>9, RisingJoin
  <2>11. ASSUME NEW i \in DOMAIN applied, i > 1 PROVE Before(applied[i - 1], applied[i])
    <3>1. i - 1 \in DOMAIN applied /\ i - 1 < i
      BY <2>1, <2>11
    <3> QED BY <2>10, <3>1 DEF Rising
  <2>12. hold # <<>> => stash = <<>> /\ ~work /\ Len(tail) <= HoldLimit
    BY DEF RunnerInv, TextOK
  <2>13. hold = <<>> /\ tail # <<>> => OutputOpen /\ op.phase = "tail"
    BY DEF RunnerInv, TextOK, OperationOK, OutputOpen
  <2> QED BY <2>11, <2>12, <2>13 DEF OutputOrder
<1> QED BY <1>1, RunnerInvariant, PTL

\* Without an open operation and with nothing of it in the queue, what a callback
\* carried has taken effect, was ignored, is held, or begins a sequence.
LEMMA BehindIsDisposed ==
    ASSUME RunnerInv, op.left = <<>>, tail # <<>> => hold # <<>>, NEW e \in 1..taken,
           \A i \in DOMAIN pending : pending[i].epoch # e,
           NEW u \in UnitsOf(e)
    PROVE  Disposed(u) \/ u \in Elements(stash)
<1>1. UnitsOf(e) \subseteq Elements(Chain) \cup ignored
  BY DEF RunnerInv, ChainOK
<1>2. Elements(op.left) = {} /\ (tail = <<>> => Elements(tail) = {}) /\ (hold = <<>> => Elements(hold) = {})
  BY DEF Elements
<1>3. Elements(Chain) = Elements(applied) \cup Elements(hold) \cup Elements(stash)
                        \cup Elements(tail) \cup Elements(op.left)
  BY ChainOfPlaces DEF RunnerInv
<1> QED BY <1>1, <1>2, <1>3 DEF Disposed

\* A unit of the chain is of the epoch that carried it.
LEMMA UnitsAreOfTheirEpoch ==
    ASSUME RunnerInv, NEW e \in 1..taken
    PROVE  /\ \A u \in UnitsOf(e) : u.epoch = e /\ u \in Units
<1>1. e \in 1..Len(sent) /\ TypeOK /\ SentOK
  <2>1. taken \in Nat /\ Len(sent) \in Nat /\ taken <= Len(sent)
    BY DEF RunnerInv, TypeOK, SentOK
  <2> QED BY <2>1 DEF RunnerInv
<1> QED BY <1>1, OutputIsASequence

\* The processed epoch says what it says: what backend_output_settled promises to a
\* caller has happened; the command of a call is done when the call returns; and the
\* drain before an input or a settlement always settles its frontier.
THEOREM CallsStayComplete == Spec => []CallsComplete
<1>1. RunnerInv => CallsComplete
  <2> SUFFICES ASSUME RunnerInv PROVE CallsComplete
    OBVIOUS
  <2>1. /\ TypeOK /\ taken \in Nat /\ target \in Nat /\ processed \in Nat /\ processed <= taken
        /\ taken <= Len(sent)
        /\ \A i \in DOMAIN pending : pending[i].epoch \in Nat
    BY PendingTypes DEF RunnerInv, TypeOK, EpochOK, SentOK
  <2>2. ASSUME gui = "dispatch", call \in {"input", "settle"} PROVE FrontierReady(target)
    <3>1. op.kind = "none" /\ draining /\ target <= taken /\ \A i \in DOMAIN pending : pending[i].epoch > target
      BY <2>2 DEF RunnerInv, CallOK
    <3>2. op = NoOperation
      BY <3>1 DEF RunnerInv, OperationOK
    <3>3. ~OutputOpen /\ op.epoch = 0
      BY <3>2 DEF NoOperation, OutputOpen
    <3>4. \A i \in DOMAIN pending : pending[i].epoch \notin 1..target
      BY <2>1, <3>1
    <3> QED BY <2>1, <3>1, <3>3, <3>4 DEF FrontierReady
  <2>3. Idle => \A i \in DOMAIN pending : pending[i].epoch # 0
    BY DEF Idle, RunnerInv, CallOK
  <2>4. ASSUME ~OutputOpen
        PROVE  /\ ~work /\ (gui \in {"idle", "drain", "admit"} => replies = <<>>)
               /\ \A e \in 1..processed : \A u \in UnitsOf(e) : Disposed(u)
    <3>1. op.phase \in {"new", "retired"}
      BY <2>1, <2>4, OperationTypes DEF RunnerInv, OperationOK, OutputOpen, Phases
    <3>2. ~work /\ (tail # <<>> => hold # <<>>)
      BY <3>1 DEF RunnerInv, TextOK
    <3>3. gui \in {"idle", "drain", "admit"} => replies = <<>>
      BY DEF RunnerInv, OperationOK
    <3>4. ASSUME NEW e \in 1..processed, NEW u \in UnitsOf(e) PROVE Disposed(u)
      <4>1. e \in 1..taken /\ e <= processed /\ e \in Nat
        BY <2>1
      <4>2. u.epoch = e
        BY <4>1, UnitsAreOfTheirEpoch
      <4>3. \A i \in DOMAIN pending : pending[i].epoch # e
        BY <2>1, <4>1 DEF RunnerInv, EpochOK
      <4>4. u \in Elements(Chain) \cup ignored
        BY <4>1, <4>3 DEF RunnerInv, ChainOK
      <4>5. u \notin Elements(op.left)
        <5>1. op.phase = "new" /\ op.epoch # 0 => processed < op.epoch
          BY DEF RunnerInv, EpochOK
        <5>2. op.phase = "retired" => op.left = <<>>
          BY DEF RunnerInv, OperationOK
        <5>3. \A x \in Elements(op.left) : x.epoch = op.epoch
          BY DEF RunnerInv, OperationOK
        <5>4. op.epoch \in Nat
          BY <2>1, OperationTypes
        <5>5. ASSUME op.phase = "new" PROVE u \notin Elements(op.left)
          BY <2>1, <4>1, <4>2, <5>1, <5>3, <5>4, <5>5
        <5>6. ASSUME op.phase = "retired" PROVE u \notin Elements(op.left)
          BY <5>2, <5>6 DEF Elements
        <5> QED BY <3>1, <5>5, <5>6
      <4>6. Elements(Chain) = Elements(applied) \cup Elements(hold) \cup Elements(stash)
                              \cup Elements(tail) \cup Elements(op.left)
        BY <2>1, ChainOfPlaces
      <4>7. (tail = <<>> => Elements(tail) = {}) /\ (hold = <<>> => Elements(hold) = {})
        BY DEF Elements
      <4>8. ASSUME u \in Elements(stash) PROVE u \in captured
        <5>1. \/ u \in captured
              \/ incomplete # 0 /\ incomplete <= u.epoch
              \/ op.phase = "source" /\ u.epoch = op.epoch
          BY <4>8 DEF RunnerInv, EpochOK
        <5>2. incomplete \in Nat /\ (incomplete # 0 => processed < incomplete)
          BY DEF RunnerInv, EpochOK, TypeOK
        <5> QED BY <2>1, <3>1, <4>1, <4>2, <5>1, <5>2
      <4> QED BY <3>2, <4>4, <4>5, <4>6, <4>7, <4>8 DEF Disposed
    <3> QED BY <3>2, <3>3, <3>4
  <2> QED BY <2>2, <2>3, <2>4 DEF CallsComplete
<1> QED BY <1>1, RunnerInvariant, PTL
-----------------------------------------------------------------------------
(***************************************************************************)
(* Effects.                                                                *)
(***************************************************************************)
\* A command becomes the operation only in the step that admits it, and the exit is
\* reported only by the command of the exit or behind the tail it released.
LEMMA OtherSteps ==
    ASSUME RunnerInv, Next, ~StepBegins
    PROVE  /\ op'.kind \in {op.kind, "none"}
           /\ exited' = exited \/ AdmitExit \/ ExitEffects
<1>0. op \in Operations /\ NoOperation.kind = "none"
  BY OperationTypes DEF RunnerInv, NoOperation
<1>1. CASE Callbacks
  BY <1>1 DEF Callbacks, OutputReceived, OtherCallback, Callback, stops
<1>2. CASE ScopeBegins \/ ScopeEnds
  BY <1>2 DEF ScopeBegins, ScopeEnds, Untouched, stops
<1>3. CASE PostedDrain \/ FrameDrain \/ Input \/ Settle \/ Terminate
  BY <1>3 DEF PostedDrain, FrameDrain, Input, Settle, Terminate, DrainThenDispatch, Begin, Untouched, stops
<1>4. CASE Dispatch \/ EnqueueTerminate \/ DrainEnds \/ RunEnds \/ StepStops \/ StepGoesOn
  BY <1>4 DEF Dispatch, EnqueueTerminate, DrainEnds, RunEnds, StepStops, StepGoesOn, Untouched, stops
<1>5. CASE DrainOverflow \/ DrainIgnored \/ DrainQueued
  BY <1>5 DEF DrainOverflow, DrainIgnored, DrainQueued, DrainNext
<1>6. CASE AdmitOutput
  BY <1>0, <1>6 DEF AdmitOutput, stops, Operations
<1>7. CASE AdmitIgnoredOutput
  BY <1>0, <1>7 DEF AdmitIgnoredOutput, stops, Operations
<1>8. CASE AdmitSettle
  BY <1>0, <1>8 DEF AdmitSettle, Release, Retired, stops, Operations
<1>9. CASE AdmitExit
  BY <1>0, <1>9 DEF AdmitExit, Release, Retired, Operations
<1>10. CASE AdmitOther
  BY <1>0, <1>10 DEF AdmitOther, Retired, stops, Operations
<1>11. CASE AdmitTerminate
  BY <1>0, <1>11 DEF AdmitTerminate, Retired, stops, Operations
<1>12. CASE WorkFinishes \/ WorkOutlastsStep \/ LoopEnds \/ TakeWindow
  BY <1>12 DEF WorkFinishes, WorkOutlastsStep, LoopEnds, TakeWindow, stops
<1>13. CASE HoldCaptures
  BY <1>0, <1>13 DEF HoldCaptures, stops, Operations
<1>14. CASE HoldOverflows
  BY <1>0, <1>14 DEF HoldOverflows, Release, stops, Operations
<1>15. CASE SourceIsEmpty
  BY <1>0, <1>15 DEF SourceIsEmpty, Retired, stops, Operations
<1>16. CASE TailFinishes
  BY <1>0, <1>16 DEF TailFinishes, stops, Operations
<1>17. CASE ExitEffects
  BY <1>0, <1>17 DEF ExitEffects, Retired, Operations
<1>18. CASE StepEnds
  BY <1>0, <1>18 DEF StepEnds, stops
<1>19. CASE ArmHold
  BY <1>0, <1>19 DEF ArmHold, InWindow, stops, Operations
<1>20. CASE StashCandidate \/ ApplyUnit
  BY <1>0, <1>20 DEF StashCandidate, ApplyUnit, Consume, InWindow, stops, Operations
<1>21. Next => \/ Callbacks \/ ScopeBegins \/ ScopeEnds \/ PostedDrain \/ FrameDrain \/ Input \/ Settle \/ Terminate
               \/ Steps
  BY DEF Next, Requests
<1>22. CASE Steps
  BY <1>4, <1>5, <1>6, <1>7, <1>8, <1>9, <1>10, <1>11, <1>12, <1>13, <1>14, <1>15, <1>16, <1>17, <1>18,
     <1>19, <1>20, <1>22 DEF Steps
<1> QED BY <1>1, <1>2, <1>3, <1>21, <1>22

\* A write is admitted where a call put it, behind its frontier.
LEMMA WriteIsBehind ==
    ASSUME RunnerInv, [Next]_vars, op.kind # "write", op'.kind = "write"
    PROVE  /\ replies = <<>> /\ ~work
           /\ tail # <<>> => hold # <<>>
           /\ \A e \in 1..target : \A u \in UnitsOf(e) : Disposed(u) \/ u \in Elements(stash)
<1>1. StepBegins
  <2>1. CASE UNCHANGED vars
    BY <2>1 DEF vars
  <2> QED BY <2>1, OtherSteps
<1>2. CASE op.kind # "none"
  BY <1>1, <1>2 DEF StepBegins
<1>3. CASE op.kind = "none"
  <2> DEFINE c == pending[1]
  <2>1. /\ gui = "admit" /\ pending # <<>> /\ pending \in Seq(Commands) /\ 1 \in DOMAIN pending
        /\ op'.kind = c.kind /\ op = NoOperation
    BY <1>1, <1>3 DEF StepBegins, NothingToAdmit, RunnerInv, TypeOK, OperationOK
  <2>2. c.kind = "write" /\ c.epoch = 0
    BY <2>1 DEF RunnerInv, QueueOK
  <2>3. ~draining
    BY <2>1, <2>2 DEF RunnerInv, CallOK
  <2>4. /\ target <= taken /\ target \in Nat /\ taken \in Nat
        /\ \A i \in DOMAIN pending : pending[i].epoch # 0 => target < pending[i].epoch
    BY <2>1, <2>3 DEF RunnerInv, CallOK, TypeOK
  <2>5. op.left = <<>> /\ op.phase = "retired"
    BY <2>1 DEF NoOperation
  <2>6. replies = <<>> /\ ~work /\ (tail # <<>> => hold # <<>>)
    BY <2>1, <2>5 DEF RunnerInv, OperationOK, TextOK
  <2>7. ASSUME NEW e \in 1..target PROVE \A u \in UnitsOf(e) : Disposed(u) \/ u \in Elements(stash)
    <3>1. e \in 1..taken
      BY <2>4
    <3>2. \A i \in DOMAIN pending : pending[i].epoch # e
      <4>1. \A i \in DOMAIN pending : pending[i].epoch \in Nat
        BY PendingTypes DEF RunnerInv
      <4> QED BY <2>4, <4>1
    <3> QED BY <2>5, <2>6, <3>1, <3>2, BehindIsDisposed
  <2> QED BY <2>6, <2>7
<1> QED BY <1>2, <1>3

\* The exit is reported where nothing of what came before it waits.
LEMMA ExitIsBehind ==
    ASSUME RunnerInv, [Next]_vars, exited' # exited
    PROVE  /\ hold' = <<>> /\ tail = <<>> /\ replies' = <<>> /\ ~work
           /\ \A e \in 1..op.epoch : \A u \in UnitsOf(e) :
                u \in Elements(applied) \cup ignored \cup Elements(stash)
<1>1. AdmitExit \/ ExitEffects
  <2>1. CASE UNCHANGED vars
    BY <2>1 DEF vars, stops
  <2>2. ~StepBegins
    BY DEF StepBegins, stops
  <2> QED BY <2>1, <2>2, OtherSteps
<1>2. hold = <<>> /\ hold' = <<>> /\ replies' = <<>> /\ op.kind = "exit" /\ op.phase # "tail" /\ op.phase # "source"
  <2>1. CASE AdmitExit
    <3>1. Admits("exit") /\ hold = <<>> /\ hold' = hold
      BY <2>1 DEF AdmitExit, stops
    <3>2. gui = "step" /\ op.kind = "exit" /\ replies' = replies
      BY <3>1 DEF Admits
    <3>3. op.phase = "new" /\ replies = <<>>
      BY <3>2 DEF RunnerInv, OperationOK
    <3> QED BY <3>1, <3>2, <3>3
  <2>2. CASE ExitEffects
    <3>1. op.phase = "exit" /\ hold' = hold /\ replies' = <<>>
      BY <2>2 DEF ExitEffects, DisposeReplies, text
    <3>2. op.kind = "exit" /\ hold = <<>>
      BY <3>1 DEF RunnerInv, OperationOK, TextOK
    <3> QED BY <3>1, <3>2
  <2> QED BY <1>1, <2>1, <2>2
<1>3. tail = <<>> /\ ~work /\ op.left = <<>>
  BY <1>2, NoTail DEF RunnerInv, TextOK, OperationOK
<1>4. ASSUME NEW e \in 1..op.epoch, NEW u \in UnitsOf(e)
      PROVE  u \in Elements(applied) \cup ignored \cup Elements(stash)
  <2>1. /\ op.epoch \in Nat /\ op.epoch <= taken /\ taken \in Nat
        /\ \A i \in DOMAIN pending : pending[i].epoch # 0 => op.epoch < pending[i].epoch
        /\ \A i \in DOMAIN pending : pending[i].epoch \in Nat
    BY OperationTypes, PendingTypes DEF RunnerInv, TypeOK, OperationOK
  <2>2. e \in 1..taken /\ \A i \in DOMAIN pending : pending[i].epoch # e
    BY <2>1
  <2>3. u \in Elements(Chain) \cup ignored
    BY <2>2 DEF RunnerInv, ChainOK
  <2>4. Elements(Chain) = Elements(applied) \cup Elements(hold) \cup Elements(stash)
                          \cup Elements(tail) \cup Elements(op.left)
    BY ChainOfPlaces DEF RunnerInv
  <2>5. Elements(hold) = {} /\ Elements(tail) = {} /\ Elements(op.left) = {}
    BY <1>2, <1>3 DEF Elements
  <2> QED BY <2>3, <2>4, <2>5
<1> QED BY <1>2, <1>3, <1>4

\* Input reaches the backend behind everything its frontier sealed (write_user_bytes,
\* process_backend_callback_events_to_current_epoch), and the exit is the last effect
\* of a process (process_backend_exit_command).
THEOREM EffectsStayInOrder == Spec => EffectsInOrder
<1>1. RunnerInv /\ [Next]_vars =>
        [op.kind # "write" /\ op'.kind = "write" =>
           /\ replies = <<>> /\ ~work
           /\ tail # <<>> => hold # <<>>
           /\ \A e \in 1..target : \A u \in UnitsOf(e) : Disposed(u) \/ u \in Elements(stash)]_vars
  BY WriteIsBehind
<1>2. RunnerInv /\ [Next]_vars =>
        [exited' # exited =>
           /\ hold' = <<>> /\ tail = <<>> /\ replies' = <<>> /\ ~work
           /\ \A e \in 1..op.epoch : \A u \in UnitsOf(e) :
                u \in Elements(applied) \cup ignored \cup Elements(stash)]_vars
  BY ExitIsBehind
<1>3. Spec => InputFollowsOutput
  BY <1>1, RunnerInvariant, PTL DEF Spec, InputFollowsOutput
<1>4. Spec => ExitIsLast
  BY <1>2, RunnerInvariant, PTL DEF Spec, ExitIsLast
<1> QED BY <1>3, <1>4, PTL DEF EffectsInOrder
=============================================================================
