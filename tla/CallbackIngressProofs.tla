------------------------ MODULE CallbackIngressProofs ------------------------
(***************************************************************************)
(* Invariants of CallbackIngress for every queue limit and any number of   *)
(* units, errors and frontiers: the barrier of close(), what a stop leaves *)
(* in the queue, the exact accounting, the order of the epochs; and that   *)
(* the queue implements OutputStream.                                      *)
(***************************************************************************)
EXTENDS CallbackIngress, SequenceTheorems, FiniteSetTheorems, WellFoundedInduction, TLAPS

\* A set of naturals that is not empty has a least element.
LEMMA LeastNatural ==
  ASSUME NEW T \in SUBSET Nat, T # {}
  PROVE  \E m \in T : \A k \in T : m <= k
<1>1. PICK m \in T : \A k \in T : <<k, m>> \notin OpToRel(<, Nat)
  BY WFMin, NatLessThanWellFounded, Zenon
<1>2. \A k \in T : ~(k < m)
  BY <1>1, Zenon DEF OpToRel
<1> QED BY <1>2

\* A set of naturals that holds 0 and each successor of its elements is all of them.
LEMMA SetInduction ==
  ASSUME NEW T \in SUBSET Nat, 0 \in T, \A n \in T : n + 1 \in T
  PROVE  T = Nat
<1> SUFFICES ASSUME Nat \ T # {} PROVE FALSE
  OBVIOUS
<1>1. PICK m \in Nat \ T : \A k \in Nat \ T : m <= k
  BY LeastNatural
<1>2. m # 0 /\ m - 1 \in Nat
  OBVIOUS
<1> QED BY <1>1, <1>2

Join(a, b) == a \o b

Agree(ss, tt, n) == \A i \in 1..n : ss[i] = tt[i]

Steps(g, ss, n) == \A i \in 1..n : g[i] = IF i = 1 THEN ss[i] ELSE g[i - 1] \o ss[i]

\* The partial concatenations of a sequence of sequences exist.
LEMMA StepsExist ==
  ASSUME NEW X, NEW ss \in Seq(Seq(X))
  PROVE  \A n \in Nat : n <= Len(ss) => \E g \in [1..n -> Seq(X)] : Steps(g, ss, n)
<1> DEFINE T == {n \in Nat : n <= Len(ss) => \E g \in [1..n -> Seq(X)] : Steps(g, ss, n)}
<1>1. 0 \in T
  <2> DEFINE g == [i \in 1..0 |-> <<>>]
  <2>1. g \in [1..0 -> Seq(X)] /\ Steps(g, ss, 0)
    BY DEF Steps
  <2> QED BY <2>1
<1>2. ASSUME NEW n \in T PROVE n + 1 \in T
  <2> SUFFICES ASSUME n + 1 <= Len(ss)
               PROVE  \E g \in [1..(n + 1) -> Seq(X)] : Steps(g, ss, n + 1)
    OBVIOUS
  <2>1. PICK g \in [1..n -> Seq(X)] : Steps(g, ss, n)
    OBVIOUS
  <2> DEFINE v == IF n = 0 THEN ss[1] ELSE g[n] \o ss[n + 1]
             h == [i \in 1..(n + 1) |-> IF i = n + 1 THEN v ELSE g[i]]
  <2>2. ss[n + 1] \in Seq(X)
    BY ElementOfSeq
  <2>3. v \in Seq(X)
    BY <2>2, ConcatProperties
  <2>4. h \in [1..(n + 1) -> Seq(X)]
    BY <2>3
  <2>5. ASSUME NEW i \in 1..(n + 1)
        PROVE  h[i] = IF i = 1 THEN ss[i] ELSE h[i - 1] \o ss[i]
    <3>1. CASE i = n + 1
      BY <3>1
    <3>2. CASE i \in 1..n
      <4>1. g[i] = IF i = 1 THEN ss[i] ELSE g[i - 1] \o ss[i]
        BY <2>1, <3>2 DEF Steps
      <4> HIDE DEF v
      <4>2. n \in Nat /\ i # n + 1 /\ i - 1 # n + 1 /\ i \in 1..(n + 1)
            /\ (i # 1 => i - 1 \in 1..(n + 1))
        BY <3>2
      <4>3. h[i] = g[i] /\ (i # 1 => h[i - 1] = g[i - 1])
        BY <4>2
      <4> QED BY <4>1, <4>3
    <3> QED BY <3>1, <3>2
  <2>6. Steps(h, ss, n + 1)
    BY <2>5 DEF Steps
  <2> QED BY <2>4, <2>6
<1>3. T = Nat
  <2> HIDE DEF T
  <2>1. T \in SUBSET Nat
    BY DEF T
  <2> QED BY <1>1, <1>2, <2>1, SetInduction
<1> QED BY <1>3

\* The partial concatenations are unique.
LEMMA StepsAgree ==
  ASSUME NEW n \in Nat, NEW ss, NEW tt, NEW g, NEW h,
         \A i \in 1..n : ss[i] = tt[i], Steps(g, ss, n), Steps(h, tt, n)
  PROVE  \A i \in 1..n : g[i] = h[i]
<1> DEFINE T == {k \in Nat : k \in 1..n => g[k] = h[k]}
<1>1. 0 \in T
  OBVIOUS
<1>2. ASSUME NEW k \in T PROVE k + 1 \in T
  BY DEF Steps
<1>3. T = Nat
  <2> HIDE DEF T
  <2>1. T \in SUBSET Nat
    BY DEF T
  <2> QED BY <1>1, <1>2, <2>1, SetInduction
<1> QED BY <1>3

\* One more sequence adds one more partial concatenation.
LEMMA StepsExtend ==
  ASSUME NEW n \in Nat, n # 0, NEW ss, NEW tt, NEW g, NEW h,
         Agree(tt, ss, n), Steps(g, ss, n), Steps(h, tt, n + 1)
  PROVE  h[n + 1] = Join(g[n], tt[n + 1])
<1>1. Steps(h, tt, n)
  BY DEF Steps
<1>2. h[n] = g[n]
  <2>1. \A i \in 1..n : h[i] = g[i]
    BY <1>1, StepsAgree DEF Agree
  <2> QED BY <2>1
<1>3. \A i \in 1..(n + 1) : i # 1 => h[i] = Join(h[i - 1], tt[i])
  BY DEF Steps, Join
<1>4. n + 1 \in 1..(n + 1) /\ n + 1 # 1 /\ n + 1 - 1 = n
  OBVIOUS
<1> QED BY <1>2, <1>3, <1>4

\* FlattenSeq is the last of the partial concatenations.
LEMMA FlattenByStep ==
  ASSUME NEW X, NEW ss \in Seq(Seq(X)), ss # <<>>
  PROVE  \E g \in [1..Len(ss) -> Seq(X)] : Steps(g, ss, Len(ss)) /\ FlattenSeq(ss) = g[Len(ss)]
<1> DEFINE P(g) == g = [i \in 1..Len(ss) |-> IF i = 1 THEN ss[i] ELSE g[i - 1] \o ss[i]]
<1>1. Len(ss) \in Nat /\ Len(ss) # 0
  BY EmptySeq
<1>2. PICK g \in [1..Len(ss) -> Seq(X)] : Steps(g, ss, Len(ss))
  BY <1>1, StepsExist, SMTT(40)
<1>3. P(g)
  BY <1>2 DEF Steps
<1> DEFINE f == CHOOSE f : P(f)
<1>4. P(f)
  <2> HIDE DEF P
  <2> QED BY <1>3
<1>5. FlattenSeq(ss) = f[Len(ss)]
  BY <1>1 DEF FlattenSeq
<1> HIDE DEF f
<1>6. Steps(f, ss, Len(ss))
  BY <1>4 DEF Steps
<1>7. \A i \in 1..Len(ss) : f[i] = g[i]
  <2> HIDE DEF P
  <2> QED BY <1>1, <1>2, <1>6, StepsAgree
<1>8. FlattenSeq(ss) = g[Len(ss)]
  BY <1>1, <1>5, <1>7
<1> QED BY <1>2, <1>8

\* Nothing flattens to nothing.
LEMMA FlattenEmpty == FlattenSeq(<<>>) = <<>>
  BY DEF FlattenSeq

\* What sequences over X flatten to is a sequence over X.
LEMMA FlattenType ==
  ASSUME NEW X, NEW ss \in Seq(Seq(X))
  PROVE  FlattenSeq(ss) \in Seq(X)
<1>1. CASE ss = <<>>
  BY <1>1, FlattenEmpty, EmptySeq
<1>2. CASE ss # <<>>
  <2>1. Len(ss) \in Nat /\ Len(ss) # 0
    BY <1>2, EmptySeq
  <2>2. PICK g \in [1..Len(ss) -> Seq(X)] : FlattenSeq(ss) = g[Len(ss)]
    BY <1>2, FlattenByStep
  <2>3. Len(ss) \in 1..Len(ss)
    BY <2>1
  <2> QED BY <2>2, <2>3
<1> QED BY <1>1, <1>2

\* One more sequence at the back is joined to what the others flatten to.
LEMMA FlattenAppend ==
  ASSUME NEW X, NEW ss \in Seq(Seq(X)), NEW s \in Seq(X)
  PROVE  FlattenSeq(Append(ss, s)) = FlattenSeq(ss) \o s
<1> DEFINE tt == Append(ss, s)
           n == Len(ss)
<1>1. tt \in Seq(Seq(X)) /\ tt # <<>> /\ Len(tt) = n + 1 /\ n \in Nat
      /\ (\A i \in 1..n : tt[i] = ss[i]) /\ tt[n + 1] = s
  BY AppendProperties, LenProperties
<1> HIDE DEF tt
<1>2. PICK h \in [1..(n + 1) -> Seq(X)] : Steps(h, tt, n + 1) /\ FlattenSeq(tt) = h[n + 1]
  BY <1>1, FlattenByStep
<1>3. CASE ss = <<>>
  <2>1. n = 0
    BY <1>3
  <2>2. h[1] = s
    BY <1>1, <1>2, <2>1 DEF Steps
  <2> QED BY <1>2, <1>3, <2>1, <2>2, FlattenEmpty, ConcatEmptySeq DEF tt
<1>4. CASE ss # <<>>
  <2>1. n # 0
    BY <1>4, EmptySeq
  <2>2. PICK g \in [1..n -> Seq(X)] : Steps(g, ss, n) /\ FlattenSeq(ss) = g[n]
    BY <1>4, FlattenByStep
  <2>3. h[n + 1] = Join(g[n], tt[n + 1])
    <3> HIDE DEF n
    <3>1. n \in Nat /\ n # 0
      BY <1>1, <2>1
    <3>2. Agree(tt, ss, n)
      BY <1>1 DEF Agree
    <3>3. Steps(g, ss, n) /\ Steps(h, tt, n + 1)
      BY <1>2, <2>2
    <3> QED BY <3>1, <3>2, <3>3, StepsExtend
  <2> QED BY <1>1, <1>2, <2>2, <2>3 DEF tt, Join
<1> QED BY <1>3, <1>4

\* Joining is associative.
LEMMA JoinAssociative ==
  ASSUME NEW X, NEW a \in Seq(X), NEW b \in Seq(X), NEW c \in Seq(X)
  PROVE  Join(Join(a, b), c) = Join(a, Join(b, c))
  BY ConcatAssociative DEF Join

\* Flattening distributes over joining.
LEMMA FlattenConcat ==
  ASSUME NEW X, NEW ss \in Seq(Seq(X)), NEW tt \in Seq(Seq(X))
  PROVE  FlattenSeq(ss \o tt) = FlattenSeq(ss) \o FlattenSeq(tt)
<1> DEFINE P(uu) == FlattenSeq(ss \o uu) = FlattenSeq(ss) \o FlattenSeq(uu)
           T == {n \in Nat : \A uu \in Seq(Seq(X)) : Len(uu) = n => P(uu)}
<1>1. 0 \in T
  <2> SUFFICES ASSUME NEW uu \in Seq(Seq(X)), Len(uu) = 0 PROVE P(uu)
    OBVIOUS
  <2>1. uu = <<>>
    BY EmptySeq
  <2> QED BY <2>1, FlattenEmpty, FlattenType, ConcatEmptySeq
<1>2. ASSUME NEW n \in T PROVE n + 1 \in T
  <2> SUFFICES ASSUME NEW uu \in Seq(Seq(X)), Len(uu) = n + 1 PROVE P(uu)
    OBVIOUS
  <2>1. PICK vv \in Seq(Seq(X)), s \in Seq(X) : uu = Append(vv, s)
    <3>1. uu # <<>>
      BY EmptySeq
    <3> QED BY <3>1, SequenceEmptyOrAppend
  <2>2. Len(vv) = n
    BY <2>1, AppendProperties, LenProperties
  <2>3. P(vv)
    BY <2>2
  <2>4. ss \o uu = Append(ss \o vv, s)
    BY <2>1
  <2>5. ss \o vv \in Seq(Seq(X))
    BY ConcatProperties
  <2>6. FlattenSeq(ss \o uu) = Join(FlattenSeq(ss \o vv), s)
    BY <2>4, <2>5, FlattenAppend DEF Join
  <2>7. FlattenSeq(uu) = Join(FlattenSeq(vv), s)
    BY <2>1, FlattenAppend DEF Join
  <2>8. FlattenSeq(ss) \in Seq(X) /\ FlattenSeq(vv) \in Seq(X)
    BY FlattenType
  <2>9. Join(Join(FlattenSeq(ss), FlattenSeq(vv)), s) = Join(FlattenSeq(ss), Join(FlattenSeq(vv), s))
    BY <2>8, JoinAssociative
  <2>10. FlattenSeq(ss \o uu) = Join(FlattenSeq(ss), FlattenSeq(uu))
    BY <2>3, <2>6, <2>7, <2>9 DEF Join
  <2> QED BY <2>10 DEF Join
<1>3. T = Nat
  <2> HIDE DEF T
  <2>1. T \in SUBSET Nat
    BY DEF T
  <2> QED BY <1>1, <1>2, <2>1, SetInduction
<1> QED BY <1>3, LenProperties

-----------------------------------------------------------------------------
Each(p) == [i \in DOMAIN p |-> p[i].units]

Kept(p) == [i \in DOMAIN p |-> IF p[i].kind = "output" THEN <<>> ELSE <<p[i]>>]

\* The fields of a queued command have their types.
LEMMA CommandFields ==
  ASSUME NEW p \in Seq(Command), NEW i \in DOMAIN p
  PROVE  /\ p[i] \in Command /\ p[i].kind \in Kind /\ p[i].units \in Seq(Units)
         /\ p[i].epoch \in 1..MaxEpoch
<1>1. p[i] \in Command
  BY ElementOfSeq, LenProperties
<1> QED BY <1>1 DEF Command

\* The output of each command, as a sequence of sequences of units.
LEMMA EachType ==
  ASSUME NEW p \in Seq(Command)
  PROVE  Each(p) \in Seq(Seq(Units)) /\ Len(Each(p)) = Len(p)
<1>1. Each(p) \in [1..Len(p) -> Seq(Units)] /\ Len(p) \in Nat
  BY CommandFields, LenProperties DEF Each
<1> QED BY <1>1

\* What the drop of output keeps of each command, as a sequence of sequences.
LEMMA KeptType ==
  ASSUME NEW p \in Seq(Command)
  PROVE  Kept(p) \in Seq(Seq(Command)) /\ Len(Kept(p)) = Len(p)
<1>1. Kept(p) \in [1..Len(p) -> Seq(Command)] /\ Len(p) \in Nat
  BY CommandFields, LenProperties DEF Kept
<1> QED BY <1>1

\* The output of each command of a queue with one more.
LEMMA EachAppend ==
  ASSUME NEW p \in Seq(Command), NEW c \in Command
  PROVE  Each(Append(p, c)) = Append(Each(p), c.units)
<1>1. c.units \in Seq(Units)
  BY DEF Command
<1>2. Append(p, c) \in Seq(Command) /\ Len(Append(p, c)) = Len(p) + 1
      /\ (\A i \in 1..Len(p) : Append(p, c)[i] = p[i]) /\ Append(p, c)[Len(p) + 1] = c
  BY AppendProperties
<1>3. Append(Each(p), c.units) \in Seq(Seq(Units)) /\ Len(Append(Each(p), c.units)) = Len(p) + 1
      /\ (\A i \in 1..Len(p) : Append(Each(p), c.units)[i] = p[i].units)
      /\ Append(Each(p), c.units)[Len(p) + 1] = c.units
  BY <1>1, EachType, AppendProperties, LenProperties DEF Each
<1>4. Each(Append(p, c)) \in Seq(Seq(Units)) /\ Len(Each(Append(p, c))) = Len(p) + 1
      /\ (\A i \in 1..Len(p) : Each(Append(p, c))[i] = p[i].units)
      /\ Each(Append(p, c))[Len(p) + 1] = c.units
  <2>1. Each(Append(p, c)) \in Seq(Seq(Units)) /\ Len(Each(Append(p, c))) = Len(p) + 1
    BY <1>2, EachType
  <2>2. \A i \in 1..(Len(p) + 1) : Each(Append(p, c))[i] = Append(p, c)[i].units
    BY <1>2, LenProperties DEF Each
  <2> QED BY <1>2, <2>1, <2>2, LenProperties
<1>5. \A i \in 1..(Len(p) + 1) : Each(Append(p, c))[i] = Append(Each(p), c.units)[i]
  BY <1>3, <1>4, LenProperties
<1> QED BY <1>3, <1>4, <1>5, SeqEqual

\* What is kept of each command of a queue with one more.
LEMMA KeptAppend ==
  ASSUME NEW p \in Seq(Command), NEW c \in Command
  PROVE  Kept(Append(p, c)) = Append(Kept(p), IF c.kind = "output" THEN <<>> ELSE <<c>>)
<1> DEFINE k(x) == IF x.kind = "output" THEN <<>> ELSE <<x>>
<1>1. k(c) \in Seq(Command)
  OBVIOUS
<1>2. Append(p, c) \in Seq(Command) /\ Len(Append(p, c)) = Len(p) + 1
      /\ (\A i \in 1..Len(p) : Append(p, c)[i] = p[i]) /\ Append(p, c)[Len(p) + 1] = c
  BY AppendProperties
<1>3. Append(Kept(p), k(c)) \in Seq(Seq(Command)) /\ Len(Append(Kept(p), k(c))) = Len(p) + 1
      /\ (\A i \in 1..Len(p) : Append(Kept(p), k(c))[i] = k(p[i]))
      /\ Append(Kept(p), k(c))[Len(p) + 1] = k(c)
  BY <1>1, KeptType, AppendProperties, LenProperties DEF Kept
<1>4. Kept(Append(p, c)) \in Seq(Seq(Command)) /\ Len(Kept(Append(p, c))) = Len(p) + 1
      /\ (\A i \in 1..Len(p) : Kept(Append(p, c))[i] = k(p[i]))
      /\ Kept(Append(p, c))[Len(p) + 1] = k(c)
  BY <1>2, KeptType, LenProperties DEF Kept
<1>5. \A i \in 1..(Len(p) + 1) : Kept(Append(p, c))[i] = Append(Kept(p), k(c))[i]
  <2> HIDE DEF k
  <2>1. Len(p) \in Nat
    BY LenProperties
  <2> QED BY <1>3, <1>4, <2>1
<1> QED BY <1>3, <1>4, <1>5, SeqEqual

\* The empty queue holds no output.
LEMMA UnitsEmpty == UnitsOf(<<>>) = <<>>
<1>1. [i \in DOMAIN <<>> |-> <<>>[i].units] = <<>>
  OBVIOUS
<1> QED BY <1>1, FlattenEmpty DEF UnitsOf

\* The empty queue keeps nothing.
LEMMA DropsEmpty == DropsOutput(<<>>) = <<>>
<1> DEFINE e == [i \in DOMAIN <<>> |-> IF <<>>[i].kind = "output" THEN <<>> ELSE <<<<>>[i]>>]
<1>1. e = <<>>
  OBVIOUS
<1> QED BY <1>1, FlattenEmpty DEF DropsOutput

\* The output of a queue is a sequence of units.
LEMMA UnitsType ==
  ASSUME NEW p \in Seq(Command)
  PROVE  UnitsOf(p) \in Seq(Units)
<1>1. UnitsOf(p) = FlattenSeq(Each(p))
  BY DEF UnitsOf, Each
<1> QED BY <1>1, EachType, FlattenType

\* A queue without its output is a queue.
LEMMA DropsType ==
  ASSUME NEW p \in Seq(Command)
  PROVE  DropsOutput(p) \in Seq(Command)
<1>1. DropsOutput(p) = FlattenSeq(Kept(p))
  BY DEF DropsOutput, Kept
<1> QED BY <1>1, KeptType, FlattenType

\* One more command adds its output at the end.
LEMMA UnitsAppend ==
  ASSUME NEW p \in Seq(Command), NEW c \in Command
  PROVE  UnitsOf(Append(p, c)) = Join(UnitsOf(p), c.units)
<1>1. UnitsOf(p) = FlattenSeq(Each(p)) /\ UnitsOf(Append(p, c)) = FlattenSeq(Each(Append(p, c)))
  BY DEF UnitsOf, Each
<1>2. c.units \in Seq(Units)
  BY DEF Command
<1>3. FlattenSeq(Append(Each(p), c.units)) = FlattenSeq(Each(p)) \o c.units
  BY <1>2, EachType, FlattenAppend
<1> QED BY <1>1, <1>3, EachAppend DEF Join

\* One more command is kept if it is not output.
LEMMA DropsAppend ==
  ASSUME NEW p \in Seq(Command), NEW c \in Command
  PROVE  DropsOutput(Append(p, c)) =
             IF c.kind = "output" THEN DropsOutput(p) ELSE Append(DropsOutput(p), c)
<1> DEFINE k == IF c.kind = "output" THEN <<>> ELSE <<c>>
<1>1. DropsOutput(p) = FlattenSeq(Kept(p)) /\ DropsOutput(Append(p, c)) = FlattenSeq(Kept(Append(p, c)))
  BY DEF DropsOutput, Kept
<1>2. k \in Seq(Command)
  OBVIOUS
<1>3. FlattenSeq(Append(Kept(p), k)) = FlattenSeq(Kept(p)) \o k
  BY <1>2, KeptType, FlattenAppend
<1>4. DropsOutput(Append(p, c)) = DropsOutput(p) \o k
  BY <1>1, <1>3, KeptAppend
<1>5. DropsOutput(p) \in Seq(Command)
  BY DropsType
<1>6. CASE c.kind = "output"
  BY <1>4, <1>5, <1>6, ConcatEmptySeq
<1>7. CASE c.kind # "output"
  BY <1>4, <1>5, <1>7, AppendIsConcat
<1> QED BY <1>6, <1>7

(***************************************************************************)
(* A sequence is exhausted by appending: what holds of the empty queue and *)
(* survives an Append holds of every queue.                                *)
(***************************************************************************)
LEMMA QueueInduction ==
  ASSUME NEW T \in SUBSET Seq(Command), <<>> \in T,
         \A p \in T, c \in Command : Append(p, c) \in T
  PROVE  T = Seq(Command)
<1> DEFINE N == {n \in Nat : \A p \in Seq(Command) : Len(p) = n => p \in T}
<1>1. 0 \in N
  BY EmptySeq
<1>2. ASSUME NEW n \in N PROVE n + 1 \in N
  <2> SUFFICES ASSUME NEW p \in Seq(Command), Len(p) = n + 1 PROVE p \in T
    OBVIOUS
  <2>1. p # <<>>
    BY EmptySeq
  <2>2. PICK q \in Seq(Command), c \in Command : p = Append(q, c)
    BY <2>1, SequenceEmptyOrAppend
  <2>3. Len(q) = n
    BY <2>2, AppendProperties, LenProperties
  <2> QED BY <2>2, <2>3
<1>3. N = Nat
  <2> HIDE DEF N
  <2>1. N \in SUBSET Nat
    BY DEF N
  <2> QED BY <1>1, <1>2, <2>1, SetInduction
<1> QED BY <1>3, LenProperties

\* The output of two queues joined is theirs, joined.
LEMMA UnitsConcat ==
  ASSUME NEW p \in Seq(Command), NEW q \in Seq(Command)
  PROVE  UnitsOf(Join(p, q)) = Join(UnitsOf(p), UnitsOf(q))
<1> DEFINE T == {r \in Seq(Command) : UnitsOf(Join(p, r)) = Join(UnitsOf(p), UnitsOf(r))}
<1>1. <<>> \in T
  <2>1. Join(p, <<>>) = p /\ Join(UnitsOf(p), <<>>) = UnitsOf(p)
    BY UnitsType, ConcatEmptySeq DEF Join
  <2> QED BY <2>1, UnitsEmpty, EmptySeq
<1>2. ASSUME NEW r \in T, NEW c \in Command PROVE Append(r, c) \in T
  <2>1. r \in Seq(Command) /\ UnitsOf(Join(p, r)) = Join(UnitsOf(p), UnitsOf(r))
    OBVIOUS
  <2>2. Join(p, Append(r, c)) = Append(Join(p, r), c) /\ Join(p, r) \in Seq(Command)
    BY <2>1 DEF Join
  <2>3. UnitsOf(Append(Join(p, r), c)) = Join(UnitsOf(Join(p, r)), c.units)
    BY <2>2, UnitsAppend
  <2>4. UnitsOf(Append(r, c)) = Join(UnitsOf(r), c.units)
    BY <2>1, UnitsAppend
  <2>5. c.units \in Seq(Units) /\ UnitsOf(p) \in Seq(Units) /\ UnitsOf(r) \in Seq(Units)
    BY <2>1, UnitsType DEF Command
  <2>6. Join(Join(UnitsOf(p), UnitsOf(r)), c.units) = Join(UnitsOf(p), Join(UnitsOf(r), c.units))
    BY <2>5, JoinAssociative
  <2>7. Append(r, c) \in Seq(Command)
    BY <2>1
  <2> QED BY <2>1, <2>2, <2>3, <2>4, <2>6, <2>7
<1>3. T = Seq(Command)
  <2> HIDE DEF T
  <2>1. T \in SUBSET Seq(Command)
    BY DEF T
  <2> QED BY <1>1, <1>2, <2>1, QueueInduction
<1> QED BY <1>3

\* Commands without output hold none together.
LEMMA UnitsNone ==
  ASSUME NEW p \in Seq(Command), \A i \in DOMAIN p : p[i].units = <<>>
  PROVE  UnitsOf(p) = <<>>
<1> DEFINE T == {r \in Seq(Command) : (\A i \in DOMAIN r : r[i].units = <<>>) => UnitsOf(r) = <<>>}
<1>1. <<>> \in T
  BY UnitsEmpty, EmptySeq
<1>2. ASSUME NEW r \in T, NEW c \in Command PROVE Append(r, c) \in T
  <2>1. Append(r, c) \in Seq(Command)
    OBVIOUS
  <2> SUFFICES ASSUME \A i \in DOMAIN Append(r, c) : Append(r, c)[i].units = <<>>
               PROVE  UnitsOf(Append(r, c)) = <<>>
    BY <2>1
  <2>2. Len(Append(r, c)) = Len(r) + 1 /\ DOMAIN Append(r, c) = 1..(Len(r) + 1)
        /\ (\A i \in 1..Len(r) : Append(r, c)[i] = r[i]) /\ Append(r, c)[Len(r) + 1] = c
        /\ DOMAIN r = 1..Len(r) /\ Len(r) \in Nat
    BY AppendProperties, LenProperties
  <2>3. \A i \in DOMAIN r : r[i].units = <<>>
    BY <2>2
  <2>4. c.units = <<>>
    BY <2>2
  <2>5. UnitsOf(Append(r, c)) = Join(UnitsOf(r), c.units)
    BY UnitsAppend
  <2> QED BY <2>3, <2>4, <2>5 DEF Join
<1>3. T = Seq(Command)
  <2> HIDE DEF T
  <2>1. T \in SUBSET Seq(Command)
    BY DEF T
  <2> QED BY <1>1, <1>2, <2>1, QueueInduction
<1> QED BY <1>3

(***************************************************************************)
(* The places h in p of the commands that q keeps: in order, and every     *)
(* command that is not output.                                             *)
(***************************************************************************)
Places(h, q, p) ==
    /\ h \in [1..Len(q) -> 1..Len(p)]
    /\ \A i, j \in 1..Len(q) : i < j => h[i] < h[j]
    /\ \A j \in 1..Len(q) : q[j] = p[h[j]] /\ q[j].kind # "output"
    /\ \A i \in 1..Len(p) : p[i].kind # "output" => \E j \in 1..Len(q) : h[j] = i

\* Dropping output keeps the order of what it keeps.
LEMMA DropsKeepPlaces ==
  ASSUME NEW p \in Seq(Command)
  PROVE  \E h : Places(h, DropsOutput(p), p)
<1> DEFINE T == {r \in Seq(Command) : \E h : Places(h, DropsOutput(r), r)}
<1>1. <<>> \in T
  <2> DEFINE h == [j \in 1..0 |-> j]
  <2>1. Places(h, <<>>, <<>>)
    BY DEF Places
  <2> QED BY <2>1, DropsEmpty, EmptySeq
<1>2. ASSUME NEW r \in T, NEW c \in Command PROVE Append(r, c) \in T
  <2> DEFINE q == DropsOutput(r)
             s == Append(r, c)
  <2>1. PICK h : Places(h, q, r)
    OBVIOUS
  <2>2. s \in Seq(Command) /\ Len(s) = Len(r) + 1 /\ (\A i \in 1..Len(r) : s[i] = r[i])
        /\ s[Len(r) + 1] = c /\ Len(r) \in Nat
    BY AppendProperties, LenProperties
  <2>3. q \in Seq(Command) /\ Len(q) \in Nat
    BY DropsType, LenProperties
  <2>4. CASE c.kind = "output"
    <3>1. DropsOutput(s) = q
      BY <2>4, DropsAppend
    <3>2. h \in [1..Len(q) -> 1..Len(s)]
      BY <2>1, <2>2, <2>3 DEF Places
    <3>3. \A j \in 1..Len(q) : q[j] = s[h[j]] /\ q[j].kind # "output"
      BY <2>1, <2>2, <2>3 DEF Places
    <3>4. \A i \in 1..Len(s) : s[i].kind # "output" => \E j \in 1..Len(q) : h[j] = i
      BY <2>1, <2>2, <2>3, <2>4 DEF Places
    <3>5. Places(h, q, s)
      BY <2>1, <3>2, <3>3, <3>4 DEF Places
    <3> QED BY <2>2, <3>1, <3>5
  <2>5. CASE c.kind # "output"
    <3> DEFINE n == Len(q)
               t == Append(q, c)
               g == [j \in 1..(n + 1) |-> IF j = n + 1 THEN Len(r) + 1 ELSE h[j]]
    <3>1. DropsOutput(s) = t
      BY <2>5, DropsAppend
    <3>2. Len(t) = n + 1 /\ (\A j \in 1..n : t[j] = q[j]) /\ t[n + 1] = c
      BY <2>3, AppendProperties
    <3> HIDE DEF q, s, t, n
    <3>3. n = Len(q) /\ n \in Nat
      BY <2>3 DEF n
    <3>4. g \in [1..Len(t) -> 1..Len(s)]
      BY <2>1, <2>2, <3>2, <3>3 DEF Places
    <3>5. \A j \in 1..n : g[j] = h[j] /\ h[j] \in 1..Len(r)
      <4>1. \A j \in 1..n : h[j] \in 1..Len(r)
        BY <2>1, <3>3 DEF Places
      <4>2. \A j \in 1..n : j \in 1..(n + 1) /\ j # n + 1
        BY <3>3
      <4>3. \A j \in 1..n : g[j] = h[j]
        BY <4>2
      <4> QED BY <4>1, <4>3
    <3>6. g[n + 1] = Len(r) + 1
      BY <3>3
    <3> HIDE DEF g
    <3>7. \A i, j \in 1..Len(t) : i < j => g[i] < g[j]
      <4> SUFFICES ASSUME NEW i \in 1..Len(t), NEW j \in 1..Len(t), i < j PROVE g[i] < g[j]
        OBVIOUS
      <4>1. i \in 1..n
        BY <3>2, <3>3
      <4>2. CASE j = n + 1
        BY <2>2, <3>5, <3>6, <4>1, <4>2
      <4>3. CASE j \in 1..n
        BY <2>1, <3>5, <3>3, <4>1, <4>3 DEF Places
      <4> QED BY <3>2, <3>3, <4>2, <4>3
    <3>8. \A j \in 1..Len(t) : t[j] = s[g[j]] /\ t[j].kind # "output"
      <4> SUFFICES ASSUME NEW j \in 1..Len(t) PROVE t[j] = s[g[j]] /\ t[j].kind # "output"
        OBVIOUS
      <4>1. CASE j = n + 1
        BY <2>2, <2>5, <3>2, <3>6, <4>1
      <4>2. CASE j \in 1..n
        <5>1. t[j] = q[j] /\ q[j] = r[h[j]] /\ q[j].kind # "output" /\ g[j] = h[j] /\ h[j] \in 1..Len(r)
          BY <2>1, <3>2, <3>3, <3>5, <4>2 DEF Places
        <5> QED BY <2>2, <5>1
      <4> QED BY <3>2, <3>3, <4>1, <4>2
    <3>9. ASSUME NEW i \in 1..Len(s), s[i].kind # "output" PROVE \E j \in 1..Len(t) : g[j] = i
      <4>1. CASE i = Len(r) + 1
        <5>1. n + 1 \in 1..Len(t) /\ g[n + 1] = i
          BY <3>2, <3>3, <3>6, <4>1
        <5> QED BY <5>1
      <4>2. CASE i \in 1..Len(r)
        <5>1. PICK j \in 1..n : h[j] = i
          BY <2>1, <2>2, <3>3, <3>9, <4>2 DEF Places
        <5>2. j \in 1..Len(t) /\ g[j] = i
          BY <3>2, <3>3, <3>5, <5>1
        <5> QED BY <5>2
      <4> QED BY <2>2, <4>1, <4>2
    <3>10. Places(g, t, s)
      BY <3>4, <3>7, <3>8, <3>9 DEF Places
    <3> QED BY <2>2, <3>1, <3>10 DEF s
  <2> QED BY <2>4, <2>5
<1>3. T = Seq(Command)
  <2> HIDE DEF T
  <2>1. T \in SUBSET Seq(Command)
    BY DEF T
  <2> QED BY <1>1, <1>2, <2>1, QueueInduction
<1> QED BY <1>3

(***************************************************************************)
(* Epochs that rise along a queue count its commands.                      *)
(***************************************************************************)
Rises(p) == \A i, j \in DOMAIN p : i < j => p[i].epoch < p[j].epoch

Epochs(p) == {p[i].epoch : i \in DOMAIN p}

\* Rising epochs count the commands at any set of places.
LEMMA CountByEpoch ==
  ASSUME NEW p \in Seq(Command), Rises(p), NEW I \in SUBSET DOMAIN p
  PROVE  /\ IsFiniteSet({p[i].epoch : i \in I})
         /\ Cardinality({p[i].epoch : i \in I}) = Cardinality(I)
         /\ IsFiniteSet(I) /\ Cardinality(I) \in Nat
<1> DEFINE f == [i \in I |-> p[i].epoch]
           E == {p[i].epoch : i \in I}
<1>1. DOMAIN p = 1..Len(p) /\ Len(p) \in Nat
  BY LenProperties
<1>2. IsFiniteSet(I) /\ Cardinality(I) \in Nat
  <2>1. IsFiniteSet(1..Len(p))
    BY <1>1, FS_Interval
  <2>2. I \in SUBSET (1..Len(p))
    BY <1>1
  <2>3. IsFiniteSet(I)
    BY <2>1, <2>2, FS_Subset
  <2> QED BY <2>3, FS_CardinalityType
<1>3. \A i, j \in I : f[i] = f[j] => i = j
  <2> SUFFICES ASSUME NEW i \in I, NEW j \in I, f[i] = f[j], i # j PROVE FALSE
    OBVIOUS
  <2>1. i \in DOMAIN p /\ j \in DOMAIN p /\ p[i].epoch \in Nat /\ p[j].epoch \in Nat
    BY CommandFields
  <2>2. i < j \/ j < i
    BY <1>1, <2>1
  <2> QED BY <2>1, <2>2 DEF Rises
<1>4. f \in Bijection(I, E)
  BY <1>3 DEF Bijection, Injection, Surjection, IsInjective
<1>5. ExistsBijection(I, E)
  BY <1>4 DEF ExistsBijection
<1> QED BY <1>2, <1>5, FS_Bijection

\* The commands that hold a reservation are as many as their epochs.
LEMMA CountReserved ==
  ASSUME NEW p \in Seq(Command), Rises(p), NEW U
  PROVE  /\ Cardinality({i \in DOMAIN p : p[i].epoch \notin U}) = Cardinality(Epochs(p) \ U)
         /\ IsFiniteSet(Epochs(p) \ U) /\ Cardinality(Epochs(p) \ U) \in Nat
<1> DEFINE I == {i \in DOMAIN p : p[i].epoch \notin U}
<1>1. {p[i].epoch : i \in I} = Epochs(p) \ U
  BY DEF Epochs
<1> QED BY <1>1, CountByEpoch

(***************************************************************************)
(* What each change of the queue does to the set of its commands, to the   *)
(* order of their epochs and to the output they hold.                      *)
(***************************************************************************)
LEMMA InRange ==
  ASSUME NEW p \in Seq(Command)
  PROVE  /\ Range(p) \subseteq Command
         /\ \A c \in Range(p) : \E i \in DOMAIN p : p[i] = c
         /\ \A i \in DOMAIN p : p[i] \in Range(p)
         /\ Epochs(p) = {c.epoch : c \in Range(p)}
         /\ \A c \in Range(p) : c.epoch \in 1..MaxEpoch /\ c.units \in Seq(Units) /\ c.kind \in Kind
<1>1. \A c \in Range(p) : \E i \in DOMAIN p : p[i] = c
  BY DEF Range
<1>2. \A i \in DOMAIN p : p[i] \in Range(p)
  BY DEF Range
<1>3. Range(p) \subseteq Command
  BY <1>1, CommandFields
<1>4. \A c \in Range(p) : c.epoch \in 1..MaxEpoch /\ c.units \in Seq(Units) /\ c.kind \in Kind
  BY <1>1, CommandFields
<1>5. Epochs(p) = {c.epoch : c \in Range(p)}
  BY <1>1, <1>2 DEF Epochs
<1> QED BY <1>1, <1>2, <1>3, <1>4, <1>5

\* A command with a higher epoch may follow any queue.
LEMMA AppendQueue ==
  ASSUME NEW p \in Seq(Command), NEW c \in Command, Rises(p), \A d \in Range(p) : d.epoch < c.epoch
  PROVE  /\ Append(p, c) \in Seq(Command) /\ Rises(Append(p, c))
         /\ Range(Append(p, c)) = Range(p) \cup {c}
<1> DEFINE q == Append(p, c)
<1>1. q \in Seq(Command) /\ DOMAIN q = 1..(Len(p) + 1) /\ DOMAIN p = 1..Len(p) /\ Len(p) \in Nat
      /\ (\A i \in 1..Len(p) : q[i] = p[i]) /\ q[Len(p) + 1] = c
  BY AppendProperties, LenProperties
<1> HIDE DEF q
<1>2. Range(q) = Range(p) \cup {c}
  BY <1>1 DEF Range
<1>3. \A i \in DOMAIN p : p[i].epoch < c.epoch
  BY InRange
<1>4. ASSUME NEW i \in DOMAIN q, NEW j \in DOMAIN q, i < j PROVE q[i].epoch < q[j].epoch
  <2>1. i \in 1..Len(p)
    BY <1>1, <1>4
  <2>2. CASE j = Len(p) + 1
    BY <1>1, <1>3, <2>1, <2>2
  <2>3. CASE j \in 1..Len(p)
    BY <1>1, <1>4, <2>1, <2>3 DEF Rises
  <2> QED BY <1>1, <2>2, <2>3
<1>5. Rises(q)
  BY <1>4 DEF Rises
<1> QED BY <1>1, <1>2, <1>5 DEF q

\* A command with other units and another epoch.
LEMMA Grown ==
  ASSUME NEW c \in Command, NEW v, NEW e
  PROVE  [c EXCEPT !.units = v, !.epoch = e] = [kind |-> c.kind, units |-> v, epoch |-> e]
<1> DEFINE x == [c EXCEPT !.units = v]
<1>1. PICK k, w, f : c = [kind |-> k, units |-> w, epoch |-> f]
  BY DEF Command
<1>2. x = [kind |-> k, units |-> v, epoch |-> f]
  BY <1>1
<1>3. [x EXCEPT !.epoch = e] = [kind |-> k, units |-> v, epoch |-> e]
  <2> HIDE DEF x
  <2> QED BY <1>2
<1>4. c.kind = k
  BY <1>1
<1> QED BY <1>3, <1>4

\* The last command of a queue grows by what is joined to it.
LEMMA JoinLast ==
  ASSUME NEW p \in Seq(Command), p # <<>>, Rises(p), NEW u \in Seq(Units), NEW e \in 1..MaxEpoch,
         \A d \in Range(p) : d.epoch < e,
         NEW q, q = [p EXCEPT ![Len(p)].units = @ \o u, ![Len(p)].epoch = e]
  PROVE  LET last == p[Len(p)]
             grown == [kind |-> last.kind, units |-> last.units \o u, epoch |-> e]
         IN  /\ q \in Seq(Command) /\ Rises(q)
             /\ last \in Range(p) /\ grown \in Command
             /\ \A d \in Range(p) : d # last => d.epoch # last.epoch
             /\ Range(q) = (Range(p) \ {last}) \cup {grown}
             /\ UnitsOf(q) = Join(UnitsOf(p), u)
<1> DEFINE last == p[Len(p)]
           grown == [kind |-> last.kind, units |-> last.units \o u, epoch |-> e]
<1>1. PICK f \in Seq(Command), c \in Command : p = Append(f, c)
  BY SequenceEmptyOrAppend
<1>2. Len(f) \in Nat /\ DOMAIN f = 1..Len(f) /\ Len(p) = Len(f) + 1 /\ DOMAIN p = 1..(Len(f) + 1)
      /\ (\A i \in 1..Len(f) : p[i] = f[i]) /\ last = c
  BY <1>1, AppendProperties, LenProperties
<1>3. c.units \in Seq(Units) /\ c.kind \in Kind /\ c.units \o u \in Seq(Units)
  BY ConcatProperties DEF Command
<1>4. grown \in Command
  BY <1>2, <1>3 DEF Command
<1>5. Rises(f)
  BY <1>2 DEF Rises
<1>6. Range(p) = Range(f) \cup {c}
  BY <1>2, SMTT(40) DEF Range
<1>7. ASSUME NEW d \in Range(f) PROVE d.epoch < c.epoch /\ d \in Command /\ d.epoch \in Nat /\ c.epoch \in Nat
  <2>1. PICK i \in DOMAIN f : f[i] = d
    BY InRange
  <2>2. i \in DOMAIN p /\ Len(p) \in DOMAIN p /\ i < Len(p) /\ p[i] = d
    BY <1>2, <2>1
  <2>3. d.epoch < c.epoch
    BY <1>2, <2>2 DEF Rises
  <2>4. d \in Command /\ d.epoch \in Nat
    BY InRange
  <2>5. c.epoch \in Nat
    BY DEF Command
  <2> QED BY <2>3, <2>4, <2>5
<1>8. q = Append(f, grown)
  <2>1. c = [kind |-> c.kind, units |-> c.units, epoch |-> c.epoch]
    BY DEF Command
  <2>2. [c EXCEPT !.units = @ \o u, !.epoch = e] = grown
    <3> DEFINE v == c.units \o u
    <3>1. grown = [kind |-> c.kind, units |-> v, epoch |-> e]
      BY <1>2
    <3> HIDE DEF v, grown
    <3>2. [c EXCEPT !.units = v, !.epoch = e] = grown
      BY <3>1, Grown
    <3> QED BY <3>2 DEF v
  <2>3. q = [p EXCEPT ![Len(p)] = grown]
    BY <1>2, <2>2
  <2>4. q \in Seq(Command) /\ Len(q) = Len(f) + 1 /\ \A i \in 1..(Len(f) + 1) :
          q[i] = IF i = Len(f) + 1 THEN grown ELSE f[i]
    <3>1. Len(p) \in 1..Len(p)
      BY <1>2
    <3> HIDE DEF grown, last
    <3> QED BY <1>2, <1>4, <2>3, <3>1, ExceptSeq
  <2>5. Append(f, grown) \in Seq(Command) /\ Len(Append(f, grown)) = Len(f) + 1
        /\ \A i \in 1..(Len(f) + 1) : Append(f, grown)[i] = IF i = Len(f) + 1 THEN grown ELSE f[i]
    <3> HIDE DEF grown
    <3> QED BY <1>2, <1>4, AppendProperties
  <2> HIDE DEF grown
  <2> QED BY <2>4, <2>5, SeqEqual, ZenonT(60)
<1>9. \A d \in Range(f) : d.epoch < grown.epoch
  BY <1>6
<1>10. q \in Seq(Command) /\ Rises(q) /\ Range(q) = Range(f) \cup {grown}
  <2> HIDE DEF grown
  <2> QED BY <1>4, <1>5, <1>8, <1>9, AppendQueue
<1>11. c \notin Range(f) /\ \A d \in Range(p) : d # c => d.epoch # c.epoch
  BY <1>6, <1>7
<1>12. UnitsOf(q) = Join(UnitsOf(p), u)
  <2>1. UnitsOf(q) = Join(UnitsOf(f), Join(c.units, u))
    <3>1. UnitsOf(Append(f, grown)) = Join(UnitsOf(f), grown.units)
      <4> HIDE DEF grown
      <4> QED BY <1>4, UnitsAppend
    <3>2. grown.units = Join(c.units, u)
      BY <1>2 DEF Join
    <3> HIDE DEF grown
    <3> QED BY <1>8, <3>1, <3>2
  <2>2. UnitsOf(p) = Join(UnitsOf(f), c.units)
    BY <1>1, UnitsAppend
  <2>3. UnitsOf(f) \in Seq(Units)
    BY UnitsType
  <2>4. Join(Join(UnitsOf(f), c.units), u) = Join(UnitsOf(f), Join(c.units, u))
    BY <1>3, <2>3, JoinAssociative
  <2> QED BY <2>1, <2>2, <2>4
<1> HIDE DEF grown
<1>13. last \in Range(p) /\ Range(q) = (Range(p) \ {last}) \cup {grown}
  BY <1>2, <1>6, <1>10, <1>11
<1>14. \A d \in Range(p) : d # last => d.epoch # last.epoch
  BY <1>2, <1>11
<1> QED BY <1>4, <1>10, <1>12, <1>13, <1>14 DEF grown

\* Dropping output leaves the other commands, still in order.
LEMMA DropQueue ==
  ASSUME NEW p \in Seq(Command), Rises(p)
  PROVE  /\ DropsOutput(p) \in Seq(Command) /\ Rises(DropsOutput(p))
         /\ Range(DropsOutput(p)) = {c \in Range(p) : c.kind # "output"}
<1> DEFINE q == DropsOutput(p)
<1>1. PICK h : Places(h, q, p)
  BY DropsKeepPlaces
<1>2. q \in Seq(Command) /\ DOMAIN q = 1..Len(q) /\ DOMAIN p = 1..Len(p)
  BY DropsType, LenProperties
<1> HIDE DEF q
<1>3. Rises(q)
  BY <1>1, <1>2 DEF Places, Rises
<1>4. ASSUME NEW c \in Range(q) PROVE c \in Range(p) /\ c.kind # "output"
  BY <1>1, <1>2 DEF Places, Range
<1>5. ASSUME NEW c \in Range(p), c.kind # "output" PROVE c \in Range(q)
  <2>1. PICK i \in 1..Len(p) : p[i] = c
    BY <1>2 DEF Range
  <2>2. PICK j \in 1..Len(q) : h[j] = i
    BY <1>1, <1>5, <2>1 DEF Places
  <2>3. q[j] = c
    BY <1>1, <2>1, <2>2 DEF Places
  <2> QED BY <1>2, <2>3 DEF Range
<1>6. Range(q) = {c \in Range(p) : c.kind # "output"}
  BY <1>4, <1>5
<1> QED BY <1>2, <1>3, <1>6 DEF q

\* Two queues join when all epochs of the second are higher.
LEMMA JoinQueues ==
  ASSUME NEW a \in Seq(Command), NEW b \in Seq(Command), Rises(a), Rises(b),
         \A c \in Range(a), d \in Range(b) : c.epoch < d.epoch
  PROVE  /\ Join(a, b) \in Seq(Command) /\ Rises(Join(a, b))
         /\ Range(Join(a, b)) = Range(a) \cup Range(b)
         /\ Len(Join(a, b)) = Len(a) + Len(b)
<1> DEFINE q == Join(a, b)
<1>1. q \in Seq(Command) /\ Len(q) = Len(a) + Len(b)
      /\ \A i \in 1..(Len(a) + Len(b)) : q[i] = IF i <= Len(a) THEN a[i] ELSE b[i - Len(a)]
  BY ConcatProperties DEF Join
<1>2. Range(q) = Range(a) \cup Range(b)
  BY RangeConcatenation DEF Join
<1> HIDE DEF q
<1>3. DOMAIN q = 1..(Len(a) + Len(b)) /\ DOMAIN a = 1..Len(a) /\ DOMAIN b = 1..Len(b)
      /\ Len(a) \in Nat /\ Len(b) \in Nat
  BY <1>1, LenProperties
<1>4. ASSUME NEW i \in DOMAIN q, NEW j \in DOMAIN q, i < j PROVE q[i].epoch < q[j].epoch
  <2>1. CASE j <= Len(a)
    <3>1. i \in DOMAIN a /\ j \in DOMAIN a /\ q[i] = a[i] /\ q[j] = a[j]
      BY <1>1, <1>3, <1>4, <2>1
    <3> QED BY <1>4, <3>1 DEF Rises
  <2>2. CASE i > Len(a)
    <3>1. i - Len(a) \in DOMAIN b /\ j - Len(a) \in DOMAIN b /\ q[i] = b[i - Len(a)]
          /\ q[j] = b[j - Len(a)] /\ i - Len(a) < j - Len(a)
      BY <1>1, <1>3, <1>4, <2>2
    <3> QED BY <3>1 DEF Rises
  <2>3. CASE i <= Len(a) /\ j > Len(a)
    <3>1. i \in DOMAIN a /\ j - Len(a) \in DOMAIN b /\ q[i] = a[i] /\ q[j] = b[j - Len(a)]
      BY <1>1, <1>3, <2>3
    <3>2. a[i] \in Range(a) /\ b[j - Len(a)] \in Range(b)
      BY <3>1, InRange
    <3> QED BY <3>1, <3>2
  <2> QED BY <1>3, <2>1, <2>2, <2>3
<1>5. Rises(q)
  BY <1>4 DEF Rises
<1> QED BY <1>1, <1>2, <1>5 DEF q

\* A queue cut at k falls into two, and so do its commands and its output.
LEMMA SplitQueue ==
  ASSUME NEW p \in Seq(Command), Rises(p), NEW k \in 0..Len(p)
  PROVE  LET a == SubSeq(p, 1, k)
             b == SubSeq(p, k + 1, Len(p))
         IN  /\ a \in Seq(Command) /\ b \in Seq(Command) /\ Rises(a) /\ Rises(b)
             /\ p = Join(a, b) /\ Range(p) = Range(a) \cup Range(b)
             /\ \A c \in Range(a), d \in Range(b) : c.epoch < d.epoch
             /\ UnitsOf(p) = Join(UnitsOf(a), UnitsOf(b))
             /\ Len(a) = k /\ \A i \in 1..k : a[i] = p[i]
             /\ Len(b) = Len(p) - k /\ \A i \in 1..Len(b) : b[i] = p[k + i]
<1> DEFINE a == SubSeq(p, 1, k)
           b == SubSeq(p, k + 1, Len(p))
<1>1. Len(p) \in Nat /\ DOMAIN p = 1..Len(p) /\ k \in Nat /\ k <= Len(p)
  BY LenProperties
<1>2. a \in Seq(Command) /\ Len(a) = k /\ \A i \in 1..k : a[i] = p[i]
  <2>1. \A i \in 1..k : p[i] \in Command
    BY <1>1, CommandFields
  <2> QED BY <1>1, <2>1, SubSeqProperties
<1>3. b \in Seq(Command) /\ Len(b) = Len(p) - k /\ \A i \in 1..(Len(p) - k) : b[i] = p[k + i]
  <2> DEFINE m == k + 1
             n == Len(p)
  <2>1. m \in Int /\ n \in Int /\ \A i \in m..n : p[i] \in Command
    BY <1>1, CommandFields
  <2>2. m = k + 1 /\ n = Len(p)
    OBVIOUS
  <2> HIDE DEF m, n
  <2>3. /\ SubSeq(p, m, n) \in Seq(Command)
        /\ Len(SubSeq(p, m, n)) = IF m <= n THEN n - m + 1 ELSE 0
        /\ \A i \in 1..(n - m + 1) : SubSeq(p, m, n)[i] = p[m + i - 1]
    BY <2>1, SubSeqProperties
  <2>4. \A i \in 1..(Len(p) - k) : i \in 1..(n - m + 1) /\ m + i - 1 = k + i
    BY <1>1, <2>2
  <2>5. SubSeq(p, m, n) = b
    BY <2>2
  <2> HIDE DEF b
  <2>6. Len(b) = Len(p) - k
    <3>1. Len(b) = IF m <= n THEN n - m + 1 ELSE 0
      BY <2>3, <2>5
    <3>2. CASE k < Len(p)
      <4>1. m <= n
        BY <1>1, <2>2, <3>2
      <4>2. Len(b) = n - m + 1
        BY <3>1, <4>1
      <4>3. n - m + 1 = Len(p) - k
        BY <1>1, <2>2
      <4> QED BY <4>2, <4>3
    <3>3. CASE k = Len(p)
      <4>1. ~(m <= n)
        BY <1>1, <2>2, <3>3
      <4>2. Len(b) = 0
        BY <3>1, <4>1
      <4>3. 0 = Len(p) - k
        BY <1>1, <3>3
      <4> QED BY <4>2, <4>3
    <3>4. k < Len(p) \/ k = Len(p)
      <4>1. Len(p) \in Nat
        BY <1>1
      <4>2. ASSUME NEW l \in Nat, NEW i \in 0..l PROVE i < l \/ i = l
        BY <4>2
      <4> QED BY <4>1, <4>2
    <3> QED BY <3>2, <3>3, <3>4
  <2> QED BY <2>3, <2>4, <2>5, <2>6
<1>4. p = Join(a, b)
  <2>1. SubSeq(p, 1, k) \o SubSeq(p, k + 1, Len(p)) = SubSeq(p, 1, Len(p))
    <3>1. 1 \in 1..(Len(p) + 1) /\ k \in (1 - 1)..Len(p) /\ Len(p) \in k..Len(p)
      BY <1>1
    <3> QED BY <3>1, ConcatAdjacentSubSeq
  <2>2. SubSeq(p, 1, Len(p)) = p
    BY SubSeqFull
  <2> QED BY <2>1, <2>2 DEF Join
<1> HIDE DEF a, b
<1>5. DOMAIN a = 1..k /\ DOMAIN b = 1..(Len(p) - k)
  BY <1>2, <1>3, LenProperties
<1>6. Rises(a)
  BY <1>1, <1>2, <1>5 DEF Rises
<1>7. Rises(b)
  <2> SUFFICES ASSUME NEW i \in DOMAIN b, NEW j \in DOMAIN b, i < j PROVE b[i].epoch < b[j].epoch
    BY DEF Rises
  <2>1. b[i] = p[k + i] /\ b[j] = p[k + j] /\ k + i \in DOMAIN p /\ k + j \in DOMAIN p /\ k + i < k + j
    BY <1>1, <1>3, <1>5
  <2> QED BY <2>1 DEF Rises
<1>8. ASSUME NEW c \in Range(a), NEW d \in Range(b) PROVE c.epoch < d.epoch
  <2>1. PICK i \in 1..k : c = a[i]
    BY <1>5 DEF Range
  <2>2. PICK j \in 1..(Len(p) - k) : d = b[j]
    BY <1>5 DEF Range
  <2>3. c = p[i] /\ d = p[k + j] /\ i \in DOMAIN p /\ k + j \in DOMAIN p /\ i < k + j
    BY <1>1, <1>2, <1>3, <2>1, <2>2
  <2> QED BY <2>3 DEF Rises
<1>9. Range(p) = Range(a) \cup Range(b)
  BY <1>2, <1>3, <1>4, RangeConcatenation DEF Join
<1>10. UnitsOf(p) = Join(UnitsOf(a), UnitsOf(b))
  BY <1>2, <1>3, <1>4, UnitsConcat
<1> QED BY <1>2, <1>3, <1>4, <1>6, <1>7, <1>8, <1>9, <1>10 DEF a, b

\* A command inserted where its epoch belongs leaves the epochs rising.
LEMMA InsertInQueue ==
  ASSUME NEW p \in Seq(Command), Rises(p), NEW c \in Command, NEW i \in 1..(Len(p) + 1),
         \A d \in Range(p) : d.epoch # c.epoch,
         i <= Len(p) => p[i].epoch >= c.epoch,
         \A j \in 1..(i - 1) : p[j].epoch < c.epoch
  PROVE  /\ InsertAt(p, i, c) \in Seq(Command) /\ Rises(InsertAt(p, i, c))
         /\ Range(InsertAt(p, i, c)) = Range(p) \cup {c}
         /\ c.units = <<>> => UnitsOf(InsertAt(p, i, c)) = UnitsOf(p)
<1> DEFINE a == SubSeq(p, 1, i - 1)
           b == SubSeq(p, i, Len(p))
           k == i - 1
<1>1. Len(p) \in Nat /\ DOMAIN p = 1..Len(p) /\ k \in 0..Len(p) /\ k + 1 = i
  BY LenProperties
<1>2. /\ a \in Seq(Command) /\ b \in Seq(Command) /\ Rises(a) /\ Rises(b)
      /\ p = Join(a, b) /\ Range(p) = Range(a) \cup Range(b)
      /\ UnitsOf(p) = Join(UnitsOf(a), UnitsOf(b))
      /\ Len(a) = k /\ \A j \in 1..k : a[j] = p[j]
      /\ Len(b) = Len(p) - k /\ \A j \in 1..Len(b) : b[j] = p[k + j]
  <2> HIDE DEF k
  <2>1. a = SubSeq(p, 1, k) /\ b = SubSeq(p, k + 1, Len(p))
    BY <1>1 DEF k
  <2>2. k \in 0..Len(p)
    BY <1>1 DEF k
  <2>3. /\ SubSeq(p, 1, k) \in Seq(Command) /\ SubSeq(p, k + 1, Len(p)) \in Seq(Command)
        /\ Rises(SubSeq(p, 1, k)) /\ Rises(SubSeq(p, k + 1, Len(p)))
        /\ p = Join(SubSeq(p, 1, k), SubSeq(p, k + 1, Len(p)))
        /\ Range(p) = Range(SubSeq(p, 1, k)) \cup Range(SubSeq(p, k + 1, Len(p)))
        /\ UnitsOf(p) = Join(UnitsOf(SubSeq(p, 1, k)), UnitsOf(SubSeq(p, k + 1, Len(p))))
        /\ Len(SubSeq(p, 1, k)) = k /\ \A j \in 1..k : SubSeq(p, 1, k)[j] = p[j]
        /\ Len(SubSeq(p, k + 1, Len(p))) = Len(p) - k
        /\ \A j \in 1..Len(SubSeq(p, k + 1, Len(p))) : SubSeq(p, k + 1, Len(p))[j] = p[k + j]
    BY <2>2, SplitQueue
  <2> HIDE DEF a, b
  <2> QED BY <2>1, <2>3
<1>3. ASSUME NEW d \in Range(a) PROVE d.epoch < c.epoch
  <2>1. PICK j \in DOMAIN a : a[j] = d
    BY <1>2, InRange
  <2>2. j \in 1..k /\ j \in 1..(i - 1) /\ a[j] = p[j]
    BY <1>1, <1>2, <2>1, LenProperties
  <2> QED BY <2>1, <2>2
<1>4. ASSUME NEW d \in Range(b) PROVE c.epoch < d.epoch
  <2>1. PICK j \in DOMAIN b : b[j] = d
    BY <1>2, InRange
  <2>2. j \in 1..Len(b) /\ Len(b) = Len(p) - k
    BY <1>2, <2>1, LenProperties
  <2>3. b[j] = p[k + j] /\ k + j \in DOMAIN p /\ i \in DOMAIN p /\ k + j >= i /\ i <= Len(p)
    BY <1>1, <1>2, <2>2
  <2>4. p[k + j].epoch \in Nat /\ p[i].epoch \in Nat /\ c.epoch \in Nat /\ p[k + j] \in Range(p)
    <3>1. c.epoch \in Nat
      BY DEF Command
    <3>2. p[k + j].epoch \in 1..MaxEpoch /\ p[i].epoch \in 1..MaxEpoch
      BY <2>3, CommandFields
    <3>3. p[k + j] \in Range(p)
      BY <2>3, InRange
    <3> QED BY <3>1, <3>2, <3>3
  <2>5. p[k + j].epoch >= p[i].epoch
    <3>1. CASE k + j = i
      BY <2>4, <3>1
    <3>2. CASE k + j > i
      BY <1>1, <2>3, <2>4, <3>2, SMTT(40) DEF Rises
    <3> QED BY <1>1, <2>2, <2>3, <3>1, <3>2
  <2>6. p[k + j].epoch # c.epoch /\ p[i].epoch >= c.epoch
    BY <2>3, <2>4
  <2>7. c.epoch < p[k + j].epoch
    BY <2>4, <2>5, <2>6
  <2> QED BY <2>1, <2>3, <2>7
<1> DEFINE m == Append(a, c)
<1>5. m \in Seq(Command) /\ Rises(m) /\ Range(m) = Range(a) \cup {c}
  BY <1>2, <1>3, AppendQueue
<1>6. InsertAt(p, i, c) = Join(m, b)
  BY <1>2, AppendIsConcat DEF InsertAt, Join
<1>7. \A d \in Range(m), e \in Range(b) : d.epoch < e.epoch
  <2>1. \A d \in Range(a) : d.epoch \in Nat
    BY <1>2, InRange
  <2>2. \A d \in Range(b) : d.epoch \in Nat
    BY <1>2, InRange
  <2>3. c.epoch \in Nat
    BY DEF Command
  <2> HIDE DEF a, b, m
  <2> QED BY <1>3, <1>4, <1>5, <2>1, <2>2, <2>3
<1>8. Join(m, b) \in Seq(Command) /\ Rises(Join(m, b)) /\ Range(Join(m, b)) = Range(m) \cup Range(b)
  <2> HIDE DEF a, b, m
  <2> QED BY <1>2, <1>5, <1>7, JoinQueues
<1>9. ASSUME c.units = <<>> PROVE UnitsOf(Join(m, b)) = UnitsOf(p)
  <2>1. UnitsOf(Join(m, b)) = Join(UnitsOf(m), UnitsOf(b))
    <3> HIDE DEF a, b, m
    <3> QED BY <1>2, <1>5, UnitsConcat
  <2>2. UnitsOf(m) = Join(UnitsOf(a), c.units)
    <3> HIDE DEF a, b
    <3> QED BY <1>2, UnitsAppend
  <2>3. UnitsOf(m) = UnitsOf(a)
    <3> HIDE DEF a, b, m
    <3> QED BY <1>2, <1>9, <2>2, UnitsType, ConcatEmptySeq DEF Join
  <2> HIDE DEF a, b, m
  <2> QED BY <1>2, <2>1, <2>3
<1> HIDE DEF a, b, m
<1> QED BY <1>2, <1>5, <1>6, <1>8, <1>9
(***************************************************************************)
(* The strengthening.                                                      *)
(***************************************************************************)
InSession(t) == IF pc[t] # "idle" /\ admitted[t] THEN 1 ELSE 0

\* close() and the callbacks it waits for.
BarrierHolds ==
    /\ active = InSession("reader") + InSession("waiter")
    /\ accepting <=> closer = "open"
    /\ closer \in {"woken", "closed"} => active = 0
    /\ ~accepting => pending = <<>>
    /\ closer = "closed" => captureFailure = 0
    /\ accepting => \A t \in Thread : pc[t] # "idle" => admitted[t]

\* What has been stopped, reported and lost so far.
StopsHold ==
    /\ callbacksStopped => overflowReported
    /\ overflowReported => outputStopped
    /\ exitAfterStop => exited # "no" /\ callbacksStopped
    /\ exited = "lost" => ~accepting
    /\ exited = "no" => "exit" \notin reports
    /\ ended => "exit" \in reports
    /\ accepting /\ ~outputStopped => accepted = produced

\* The callbacks made; each took one epoch, and so did the overflow and the capture failure.
Calls == produced + errors + (IF exited = "no" THEN 0 ELSE 1)

EpochBound ==
    Calls + (IF overflowReported THEN 1 ELSE 0) + (IF captureReported THEN 1 ELSE 0)

Queued == Range(pending)

EpochsHold ==
    /\ epoch <= EpochBound
    /\ captureFailure <= epoch /\ unreserved \subseteq 1..epoch
    /\ captureFailure # 0 => captureReported /\ captureFailure \notin unreserved
    /\ Rises(pending)
    /\ \A c \in Queued : c.epoch <= epoch /\ c.epoch # captureFailure
    /\ \A f \in DOMAIN frontiers : frontiers[f].epoch <= epoch /\ frontiers[f].mark <= accepted

\* What the commands in the queue may be, and that the exit comes last of the stream.
CommandsHold ==
    /\ \A c \in Queued :
         IF c.kind = "output"
         THEN ~outputStopped /\ c.epoch \notin unreserved
         ELSE c.units = <<>>
    /\ \A c \in Queued : \A n \in Range(c.units) : n <= accepted
    /\ \A c, d \in Queued :
         c.kind = "exit" /\ d.kind \in {"output", "exit"} /\ d # c => d.epoch < c.epoch
    /\ exited = "no" => \A c \in Queued : c.kind # "exit"
    /\ "exit" \in reports => \A c \in Queued : c.kind \notin {"output", "exit"}

\* The accounting, by epochs.
AccountHolds ==
    accepting => /\ bytes = Len(UnitsOf(pending))
                 /\ commands = Cardinality(Epochs(pending) \ unreserved)

MarksHold ==
    \A f \in DOMAIN frontiers : \A c \in Queued : \A n \in Range(c.units) :
        n <= frontiers[f].mark <=> c.epoch <= frontiers[f].epoch

\* While the stream is open, what was taken and what is queued is what was accepted.
StreamHolds ==
    accepting /\ ~outputStopped => Join(taken, UnitsOf(pending)) = [i \in 1..accepted |-> i]

ExitHolds ==
    accepting /\ exited = "queued" => "exit" \in reports \/ \E c \in Queued : c.kind = "exit"

IInv ==
    /\ TypeOK /\ BarrierHolds /\ StopsHold /\ EpochsHold /\ CommandsHold
    /\ AccountHolds /\ MarksHold /\ StreamHolds /\ ExitHolds
-----------------------------------------------------------------------------
(***************************************************************************)
(* A callback of any kind, with what the source becomes.                   *)
(***************************************************************************)
ArrivesAs(kind, t, units) ==
    \/ /\ kind = "output" /\ t = "reader" /\ exited = "no"
       /\ \E n \in 1..(MaxUnits - produced) :
            units = [i \in 1..n |-> produced + i] /\ produced' = produced + n
       /\ UNCHANGED <<errors, exited>>
    \/ /\ kind = "error" /\ t = "waiter" /\ units = <<>>
       /\ errors < MaxErrors /\ errors' = errors + 1 /\ UNCHANGED <<produced, exited>>
    \/ /\ kind = "exit" /\ t = "waiter" /\ units = <<>> /\ exited = "no"
       /\ exited' = IF admitted["waiter"] /\ accepting THEN "queued" ELSE "lost"
       /\ UNCHANGED <<produced, errors>>

Arrival(t, kind, units) == Callback(t, kind, units) /\ ArrivesAs(kind, t, units)

\* Each delivery of the backend is a callback of some kind.
LEMMA DeliverArrives ==
  ASSUME Deliver
  PROVE  \E t \in Thread : \E kind, units : Arrival(t, kind, units)
<1>1. CASE OutputReceived
  <2>1. PICK n \in 1..(MaxUnits - produced) :
          /\ Callback("reader", "output", [i \in 1..n |-> produced + i])
          /\ produced' = produced + n
    BY <1>1 DEF OutputReceived
  <2>2. Arrival("reader", "output", [i \in 1..n |-> produced + i])
    BY <1>1, <2>1 DEF OutputReceived, Arrival, ArrivesAs
  <2> QED BY <2>2 DEF Thread
<1>2. CASE ErrorReported
  <2>1. Arrival("waiter", "error", <<>>)
    BY <1>2 DEF ErrorReported, Arrival, ArrivesAs
  <2> QED BY <2>1 DEF Thread
<1>3. CASE ProcessExited
  <2>1. Arrival("waiter", "exit", <<>>)
    BY <1>3 DEF ProcessExited, Arrival, ArrivesAs
  <2> QED BY <2>1 DEF Thread
<1> QED BY <1>1, <1>2, <1>3 DEF Deliver

\* The steps, with the take and the release at what they chose.
LEMMA NextCases ==
  ASSUME TypeOK, Next
  PROVE  \/ \E t \in Thread : BeginCallback(t) \/ EndCallback(t)
         \/ \E t \in Thread : \E kind, units : Arrival(t, kind, units)
         \/ CaptureFails
         \/ \E k : TakePendingCommands(k)
         \/ CaptureFrontier \/ ReleaseFrontier \/ StopBackendOutput \/ Close \/ CloseWakes
  BY DeliverArrives DEF Next, BackendStep, SessionStep, Take

(***************************************************************************)
(* The barrier of close().                                                 *)
(***************************************************************************)
BarrierType ==
    /\ accepting \in BOOLEAN /\ active \in Nat
    /\ closer \in {"open", "asleep", "woken", "closed"}
    /\ pc \in [Thread -> {"idle", "begun", "inside"}]
    /\ admitted \in [Thread -> BOOLEAN]

\* There are two backend threads.
LEMMA ThreadsAreTwo == IsFiniteSet(Thread) /\ Cardinality(Thread) = 2
<1>1. IsFiniteSet({"reader"}) /\ Cardinality({"reader"}) = 1
  BY FS_Singleton
<1>2. Thread = {"reader"} \cup {"waiter"} /\ "waiter" \notin {"reader"}
  BY DEF Thread
<1> QED BY <1>1, <1>2, FS_AddElement

\* The type invariant, for the barrier alone.
LEMMA TypeOfBarrier ==
  ASSUME TypeOK
  PROVE  BarrierType
<1>1. Cardinality(Thread) \in Nat
  BY ThreadsAreTwo
<1> QED BY <1>1 DEF TypeOK, BarrierType

\* Only a callback the session admitted changes the queue.
LEMMA ArrivalIsAdmitted ==
  ASSUME NEW t \in Thread, NEW kind, NEW units, Arrival(t, kind, units),
         pending' # pending
  PROVE  accepting /\ admitted[t]
  BY DEF Arrival, Callback, Enqueue, EnqueueRefused, EnqueueExitAfterStop, EnqueueAccepted,
         EnqueueOverflow, Refuse, queue

\* No step breaks the barrier.
LEMMA BarrierStep ==
  ASSUME TypeOK, BarrierHolds, Next
  PROVE  BarrierHolds'
<1>1. BarrierType
  BY TypeOfBarrier
<1> USE DEF BarrierHolds, InSession
<1>2. ASSUME NEW t \in Thread, BeginCallback(t) PROVE BarrierHolds'
  BY <1>1, <1>2 DEF BeginCallback, BarrierType, Thread, queue, capture
<1>3. ASSUME NEW t \in Thread, EndCallback(t) PROVE BarrierHolds'
  BY <1>1, <1>3 DEF EndCallback, BarrierType, Thread, queue, capture
<1>4. ASSUME NEW t \in Thread, NEW kind, NEW units, Arrival(t, kind, units) PROVE BarrierHolds'
  <2>1. /\ pc[t] = "begun" /\ pc' = [pc EXCEPT ![t] = "inside"]
        /\ UNCHANGED <<accepting, active, closer, admitted, captureFailure>>
    BY <1>4 DEF Arrival, Callback, barrier, capture
  <2>2. ~accepting => pending' = pending
    BY <1>4, ArrivalIsAdmitted
  <2> QED BY <1>1, <2>1, <2>2 DEF BarrierType, Thread
<1>5. CASE CaptureFails
  BY <1>1, <1>5 DEF CaptureFails, BarrierType, Thread, barrier, threads
<1>6. ASSUME NEW k, TakePendingCommands(k) PROVE BarrierHolds'
  BY <1>1, <1>6 DEF TakePendingCommands, BarrierType, Thread, barrier, threads
<1>7. CASE CaptureFrontier
  BY <1>7 DEF CaptureFrontier, barrier, threads, queue, capture
<1>8. CASE ReleaseFrontier
  BY <1>8 DEF ReleaseFrontier, barrier, threads, queue, capture
<1>9. CASE StopBackendOutput
  BY <1>9 DEF StopBackendOutput, barrier, threads, capture
<1>10. CASE Close
  BY <1>1, <1>10 DEF Close, BarrierType, Thread, threads
<1>11. CASE CloseWakes
  BY <1>1, <1>11 DEF CloseWakes, BarrierType, Thread, threads
<1> QED BY <1>2, <1>3, <1>4, <1>5, <1>6, <1>7, <1>8, <1>9, <1>10, <1>11, NextCases

(***************************************************************************)
(* What a callback is, and what the queue makes of it.                     *)
(***************************************************************************)
LEMMA OutputUnits ==
  ASSUME NEW a \in Nat, NEW n \in Nat, a + n <= MaxUnits
  PROVE  /\ [i \in 1..n |-> a + i] \in Seq(Units) /\ Len([i \in 1..n |-> a + i]) = n
         /\ Range([i \in 1..n |-> a + i]) = (a + 1)..(a + n)
<1> DEFINE u == [i \in 1..n |-> a + i]
<1>1. \A i \in 1..n : a + i \in Units
  BY IngressAssumption DEF Units
<1>2. u \in [1..n -> Units]
  BY <1>1
<1>3. u \in Seq(Units) /\ Len(u) = n
  BY <1>2, LenProperties
<1>4. Range(u) = (a + 1)..(a + n)
  <2>1. Range(u) = {a + i : i \in 1..n}
    BY DEF Range
  <2>2. ASSUME NEW x \in (a + 1)..(a + n) PROVE x - a \in 1..n /\ x = a + (x - a)
    OBVIOUS
  <2>3. \A i \in 1..n : a + i \in (a + 1)..(a + n)
    OBVIOUS
  <2> QED BY <2>1, <2>2, <2>3
<1> QED BY <1>3, <1>4

SourceType ==
    /\ produced \in 0..MaxUnits /\ errors \in 0..MaxErrors
    /\ exited \in {"no", "lost", "queued"}

\* What a callback carries, and that it is counted.
LEMMA ArrivalCounts ==
  ASSUME SourceType, NEW t \in Thread, NEW kind, NEW units, Arrival(t, kind, units)
  PROVE  /\ kind \in {"output", "error", "exit"} /\ units \in Seq(Units)
         /\ kind # "output" => units = <<>> /\ produced' = produced
         /\ kind = "output" => /\ exited = "no" /\ Len(units) \in Nat \ {0}
                               /\ produced' = produced + Len(units)
                               /\ units = [i \in 1..Len(units) |-> produced + i]
                               /\ Range(units) = (produced + 1)..produced'
         /\ kind = "exit" => /\ t = "waiter" /\ exited = "no"
                             /\ exited' = IF admitted[t] /\ accepting THEN "queued" ELSE "lost"
         /\ kind # "exit" => exited' = exited
         /\ SourceType'
         /\ produced <= produced'
         /\ Calls \in Nat /\ Calls' \in Nat /\ Calls + 1 <= Calls' /\ Calls' <= MaxUnits + MaxErrors + 1
<1> USE IngressAssumption DEF SourceType, Calls
<1>1. CASE kind = "output"
  <2>1. PICK n \in 1..(MaxUnits - produced) :
          units = [i \in 1..n |-> produced + i] /\ produced' = produced + n
    BY <1>1 DEF Arrival, ArrivesAs
  <2>2. exited = "no" /\ exited' = exited /\ errors' = errors
    BY <1>1 DEF Arrival, ArrivesAs
  <2>3. n \in Nat /\ n # 0 /\ produced \in Nat /\ produced + n <= MaxUnits
    BY <2>1
  <2>4. units \in Seq(Units) /\ Len(units) = n /\ Range(units) = (produced + 1)..(produced + n)
    BY <2>1, <2>3, OutputUnits, ZenonT(60)
  <2>5. /\ SourceType' /\ produced <= produced' /\ Calls \in Nat /\ Calls' \in Nat
        /\ Calls + 1 <= Calls' /\ Calls' <= MaxUnits + MaxErrors + 1
    BY <2>1, <2>2, <2>3
  <2> HIDE DEF SourceType, Calls
  <2> QED BY <1>1, <2>1, <2>2, <2>3, <2>4, <2>5
<1>2. CASE kind # "output"
  <2>1. units = <<>> /\ produced' = produced /\ kind \in {"error", "exit"}
    BY <1>2 DEF Arrival, ArrivesAs
  <2>2. \/ kind = "error" /\ errors < MaxErrors /\ errors' = errors + 1 /\ exited' = exited
        \/ /\ kind = "exit" /\ t = "waiter" /\ exited = "no" /\ errors' = errors
           /\ exited' = IF admitted[t] /\ accepting THEN "queued" ELSE "lost"
    BY <1>2 DEF Arrival, ArrivesAs
  <2>3. <<>> \in Seq(Units)
    OBVIOUS
  <2>4. /\ SourceType' /\ produced <= produced' /\ Calls \in Nat /\ Calls' \in Nat
        /\ Calls + 1 <= Calls' /\ Calls' <= MaxUnits + MaxErrors + 1
    BY <2>1, <2>2
  <2> HIDE DEF SourceType, Calls
  <2> QED BY <1>2, <2>1, <2>2, <2>3, <2>4
<1> QED BY <1>1, <1>2

\* A callback without the session, or one that is refused, changes nothing it can see.
Ignored == UNCHANGED <<queue, stops, accepted>>

\* A callback is ignored or takes one of the three ways into the queue.
LEMMA ArrivalCases ==
  ASSUME NEW t \in Thread, NEW kind, NEW units, Arrival(t, kind, units)
  PROVE  /\ UNCHANGED <<captureFailure, captureReported, frontiers, accepting, active, closer,
                        admitted, taken, reports, ended>>
         /\ pc[t] = "begun" /\ pc' = [pc EXCEPT ![t] = "inside"]
         /\ \/ /\ Ignored
               /\ ~admitted[t] \/ Refuse(kind)
            \/ /\ accepting /\ admitted[t]
               /\ \/ EnqueueExitAfterStop(kind)
                  \/ EnqueueAccepted(kind, units)
                  \/ EnqueueOverflow(kind, units)
  BY DEF Arrival, Callback, Enqueue, EnqueueRefused, EnqueueExitAfterStop, EnqueueAccepted,
         EnqueueOverflow, Refuse, queue, capture, barrier, session, Ignored

(***************************************************************************)
(* The queue after a callback: what stays of it (K), what enters (N) and   *)
(* the epochs that enter without a reservation (R).                        *)
(***************************************************************************)
QueueType ==
    /\ pending \in Seq(Command)
    /\ captureFailure \in 0..MaxEpoch /\ captureReported \in BOOLEAN
    /\ bytes \in 0..HardBytes /\ commands \in 0..HardCommands
    /\ epoch \in 0..MaxEpoch /\ unreserved \subseteq 1..MaxEpoch
    /\ overflowReported \in BOOLEAN /\ outputStopped \in BOOLEAN
    /\ callbacksStopped \in BOOLEAN /\ exitAfterStop \in BOOLEAN
    /\ accepting \in BOOLEAN /\ ended \in BOOLEAN
    /\ accepted \in 0..produced
    /\ taken \in Seq(Units)
    /\ reports \subseteq Kind \ {"output"}

FrontierType ==
    /\ frontiers \in Seq([epoch : 0..MaxEpoch, mark : 0..MaxUnits])
    /\ Len(frontiers) <= MaxFrontiers

\* The type invariant by the parts that use it.
LEMMA TypeParts == TypeOK <=> SourceType /\ QueueType /\ FrontierType /\ BarrierType /\ active <= 2
<1>1. \A n : n \in 0..Cardinality(Thread) <=> n \in Nat /\ n <= 2
  BY ThreadsAreTwo
<1>2. active \in 0..Cardinality(Thread) <=> active \in Nat /\ active <= 2
  BY <1>1
<1> QED BY <1>2 DEF TypeOK, SourceType, QueueType, FrontierType, BarrierType

Entered(K, N, R) ==
    /\ K \subseteq Queued /\ N \subseteq Command /\ Queued' = K \cup N /\ Rises(pending')
    /\ epoch' \in Nat /\ epoch <= epoch' /\ epoch' <= EpochBound'
    /\ \A c \in N : epoch < c.epoch /\ c.epoch <= epoch'
    /\ R \subseteq (epoch + 1)..epoch' /\ unreserved' = unreserved \cup R
    /\ UNCHANGED <<captureFailure, captureReported, frontiers, reports>>
    /\ accepted' \in Nat /\ accepted <= accepted'
    /\ outputStopped' => \A c \in K : c.kind # "output"
    /\ \A c \in N : IF c.kind = "output"
                    THEN ~outputStopped' /\ c.epoch \notin R /\ exited' = "no"
                    ELSE c.units = <<>>
    /\ \A c \in N : c.kind = "exit" => exited = "no" /\ exited' # "no"
    /\ \A c \in N : \A n \in Range(c.units) :
         n \in Nat /\ n <= accepted' /\ \A f \in DOMAIN frontiers : n > frontiers[f].mark
    /\ \A c, d \in N : c.kind = "exit" /\ d.kind \in {"output", "exit"} => c = d
    /\ exited = "no" \/ exited' = exited

\* The fields of a frontier are naturals.
LEMMA FrontierFields ==
  ASSUME FrontierType
  PROVE  \A f \in DOMAIN frontiers : frontiers[f].epoch \in Nat /\ frontiers[f].mark \in Nat
<1>1. frontiers \in [1..Len(frontiers) -> [epoch : 0..MaxEpoch, mark : 0..MaxUnits]]
  BY LenProperties DEF FrontierType
<1>2. ASSUME NEW f \in DOMAIN frontiers PROVE frontiers[f] \in [epoch : 0..MaxEpoch, mark : 0..MaxUnits]
  BY <1>1, <1>2
<1> QED BY <1>2

\* What may enter beside what stays leaves epochs, commands and marks as they should be.
LEMMA EnteredHolds ==
  ASSUME QueueType, FrontierType, StopsHold, EpochsHold, CommandsHold, MarksHold,
         NEW K, NEW N, NEW R, Entered(K, N, R)
  PROVE  EpochsHold' /\ CommandsHold' /\ MarksHold'
<1>1. \A c \in Queued : c.epoch \in Nat /\ c.epoch > 0 /\ c.units \in Seq(Units)
  BY InRange DEF QueueType, Queued
<1>2. epoch \in Nat /\ accepted \in Nat /\ captureFailure \in Nat
  BY DEF QueueType
<1>3. \A c \in N : c.epoch \in Nat
  BY DEF Entered, Command
<1>4. \A f \in DOMAIN frontiers : frontiers[f].epoch \in Nat /\ frontiers[f].mark \in Nat
  BY FrontierFields
<1>5. EpochsHold'
  <2>1. captureFailure' <= epoch' /\ unreserved' \subseteq 1..epoch'
    BY <1>2 DEF EpochsHold, Entered
  <2>2. captureFailure' # 0 => captureReported' /\ captureFailure' \notin unreserved'
    BY <1>2 DEF EpochsHold, Entered
  <2>3. \A c \in Queued' : c.epoch <= epoch' /\ c.epoch # captureFailure'
    BY <1>1, <1>2, <1>3 DEF EpochsHold, Entered
  <2>4. \A f \in DOMAIN frontiers' : frontiers'[f].epoch <= epoch' /\ frontiers'[f].mark <= accepted'
    BY <1>2, <1>4 DEF EpochsHold, Entered
  <2> QED BY <2>1, <2>2, <2>3, <2>4 DEF EpochsHold, Entered
<1>6. CommandsHold'
  <2>1. ASSUME NEW c \in Queued'
        PROVE  IF c.kind = "output"
               THEN ~outputStopped' /\ c.epoch \notin unreserved'
               ELSE c.units = <<>>
    <3>1. CASE c \in K
      <4>1. c \in Queued /\ c.epoch <= epoch /\ c.epoch \in Nat
        BY <1>1, <3>1 DEF EpochsHold, Entered
      <4>2. c.epoch \notin R
        BY <1>2, <4>1 DEF Entered
      <4> QED BY <3>1, <4>1, <4>2 DEF CommandsHold, Entered
    <3>2. CASE c \in N
      <4>1. c.epoch \notin unreserved
        BY <1>2, <1>3, <3>2 DEF EpochsHold, Entered
      <4> QED BY <3>2, <4>1 DEF Entered
    <3> QED BY <3>1, <3>2 DEF Entered
  <2>2. ASSUME NEW c \in Queued', NEW n \in Range(c.units) PROVE n <= accepted'
    <3>1. CASE c \in K
      <4>1. n <= accepted /\ c.units \in Seq(Units)
        BY <1>1, <3>1 DEF CommandsHold, Entered
      <4>2. n \in Nat
        <5>1. Range(c.units) \in SUBSET Units
          BY <4>1, RangeOfSeq
        <5> QED BY <5>1 DEF Units
      <4> QED BY <1>2, <4>1, <4>2 DEF Entered
    <3> QED BY <3>1 DEF Entered
  <2>3. ASSUME NEW c \in Queued', NEW d \in Queued',
               c.kind = "exit", d.kind \in {"output", "exit"}, d # c
        PROVE  d.epoch < c.epoch
    <3>1. CASE c \in K /\ d \in K
      BY <2>3, <3>1 DEF CommandsHold, Entered
    <3>2. CASE c \in N /\ d \in K
      <4>1. d.epoch <= epoch /\ epoch < c.epoch /\ d.epoch \in Nat /\ c.epoch \in Nat
        BY <1>1, <1>3, <3>2 DEF EpochsHold, Entered
      <4> QED BY <1>2, <4>1
    <3>3. CASE c \in K /\ d \in N
      BY <2>3, <3>3 DEF CommandsHold, Entered
    <3>4. CASE c \in N /\ d \in N
      BY <2>3, <3>4 DEF Entered
    <3> QED BY <3>1, <3>2, <3>3, <3>4 DEF Entered
  <2>4. exited' = "no" => \A c \in Queued' : c.kind # "exit"
    BY DEF CommandsHold, Entered
  <2>5. "exit" \in reports' => \A c \in Queued' : c.kind \notin {"output", "exit"}
    BY DEF CommandsHold, StopsHold, Entered
  <2> QED BY <2>1, <2>2, <2>3, <2>4, <2>5 DEF CommandsHold
<1>7. MarksHold'
  <2> SUFFICES ASSUME NEW f \in DOMAIN frontiers, NEW c \in Queued', NEW n \in Range(c.units)
               PROVE  n <= frontiers[f].mark <=> c.epoch <= frontiers[f].epoch
    BY DEF MarksHold, Entered
  <2>1. CASE c \in K
    BY <2>1 DEF MarksHold, Entered
  <2>2. CASE c \in N
    <3>1. n > frontiers[f].mark /\ epoch < c.epoch /\ frontiers[f].epoch <= epoch /\ n \in Nat
      BY <2>2 DEF EpochsHold, Entered
    <3> QED BY <1>2, <1>3, <1>4, <2>2, <3>1
  <2> QED BY <2>1, <2>2 DEF Entered
<1> QED BY <1>5, <1>6, <1>7

QueueHolds ==
    /\ StopsHold /\ EpochsHold /\ CommandsHold
    /\ AccountHolds /\ MarksHold /\ StreamHolds /\ ExitHolds

\* There is room for the epochs of one more callback.
LEMMA EpochFits ==
  ASSUME QueueType, SourceType, EpochsHold,
         NEW t \in Thread, NEW kind, NEW units, Arrival(t, kind, units)
  PROVE  /\ epoch + 1 \in 1..MaxEpoch
         /\ epoch + 1 <= Calls' + (IF overflowReported THEN 1 ELSE 0) + (IF captureReported THEN 1 ELSE 0)
         /\ ~overflowReported => epoch + 2 \in 1..MaxEpoch
<1>1. Calls \in Nat /\ Calls' \in Nat /\ Calls + 1 <= Calls' /\ Calls' <= MaxUnits + MaxErrors + 1
  BY ArrivalCounts
<1>2. epoch \in Nat /\ MaxUnits \in Nat /\ MaxErrors \in Nat
  BY IngressAssumption DEF QueueType
<1>3. epoch <= Calls + (IF overflowReported THEN 1 ELSE 0) + (IF captureReported THEN 1 ELSE 0)
  BY DEF EpochsHold, EpochBound
<1> DEFINE o == IF overflowReported THEN 1 ELSE 0
           r == IF captureReported THEN 1 ELSE 0
<1>4. o \in {0, 1} /\ r \in {0, 1} /\ (~overflowReported => o = 0) /\ epoch <= Calls + o + r
  BY <1>3
<1> HIDE DEF o, r
<1>5. epoch + 1 <= Calls' + o + r
  <2>1. o \in Nat /\ r \in Nat
    BY <1>4
  <2>2. ASSUME NEW a \in Nat, NEW b \in Nat, NEW x \in Nat, NEW y \in Nat, NEW e \in Nat,
               e <= a + x + y, a + 1 <= b
        PROVE  e + 1 <= b + x + y
    BY <2>2
  <2> QED BY <1>1, <1>2, <1>4, <2>1, <2>2
<1>6. epoch + 2 <= MaxUnits + MaxErrors + 4
  <2>1. epoch <= Calls + 2
    BY <1>1, <1>2, <1>4
  <2> QED BY <1>1, <1>2, <2>1
<1>7. epoch + 1 \in 1..MaxEpoch /\ epoch + 2 \in 1..MaxEpoch
  BY <1>2, <1>6 DEF MaxEpoch
<1> QED BY <1>5, <1>7 DEF o, r

\* A callback that enters nothing: the session is closing, or has stopped this kind.
LEMMA IgnoredHolds ==
  ASSUME QueueType, SourceType, BarrierType, BarrierHolds, QueueHolds,
         NEW t \in Thread, NEW kind, NEW units, Arrival(t, kind, units),
         Ignored, ~admitted[t] \/ Refuse(kind)
  PROVE  QueueType' /\ QueueHolds'
<1> USE DEF QueueHolds
<1>1. /\ UNCHANGED <<captureFailure, captureReported, frontiers, accepting, active, closer,
                     admitted, taken, reports, ended>>
      /\ UNCHANGED <<pending, bytes, commands, epoch, unreserved, overflowReported, outputStopped,
                     callbacksStopped, exitAfterStop, accepted>>
      /\ pc[t] = "begun"
  BY ArrivalCases DEF Ignored, queue, stops
<1>2. accepting => admitted[t] /\ Refuse(kind)
  BY <1>1 DEF BarrierHolds
<1>3. accepting => \/ callbacksStopped /\ (kind # "exit" \/ exitAfterStop)
                   \/ outputStopped /\ kind = "output"
  BY <1>2 DEF Refuse
<1>4. accepting => (kind = "output" => outputStopped) /\ kind # "exit"
  BY <1>3, ArrivalCounts DEF StopsHold
<1>5. QueueType'
  <2>1. accepted \in 0..produced'
    BY ArrivalCounts DEF QueueType, SourceType
  <2> QED BY <1>1, <2>1 DEF QueueType
<1>6. StopsHold'
  <2>1. exitAfterStop => exited' # "no"
    BY ArrivalCounts DEF StopsHold
  <2>2. exited' = "lost" => ~accepting
    BY <1>4, ArrivalCounts DEF StopsHold
  <2>3. exited' = "no" => "exit" \notin reports
    BY ArrivalCounts DEF StopsHold
  <2>4. accepting /\ ~outputStopped => accepted = produced'
    BY <1>4, ArrivalCounts DEF StopsHold
  <2> QED BY <1>1, <2>1, <2>2, <2>3, <2>4 DEF StopsHold
<1>7. EpochsHold'
  <2>1. epoch <= EpochBound'
    <3>1. epoch \in Nat /\ epoch + 1 <= EpochBound'
      BY <1>1, EpochFits DEF EpochBound, QueueType
    <3>2. EpochBound' \in Nat
      BY <1>1, ArrivalCounts DEF EpochBound, QueueType
    <3> QED BY <3>1, <3>2
  <2> QED BY <1>1, <2>1 DEF EpochsHold, Queued
<1>8. CommandsHold'
  <2>1. exited' = "no" => exited = "no"
    BY ArrivalCounts
  <2> QED BY <1>1, <2>1 DEF CommandsHold, Queued
<1>9. AccountHolds' /\ MarksHold' /\ StreamHolds'
  BY <1>1 DEF AccountHolds, MarksHold, StreamHolds, Queued
<1>10. ExitHolds'
  <2>1. accepting /\ exited' = "queued" => exited = "queued"
    BY <1>4, ArrivalCounts
  <2> QED BY <1>1, <2>1 DEF ExitHolds, Queued
<1> QED BY <1>5, <1>6, <1>7, <1>8, <1>9, <1>10

\* The fields of a command that is called for.
LEMMA MessageFields ==
  ASSUME NEW kind \in Kind, NEW units \in Seq(Units), NEW e \in 1..MaxEpoch
  PROVE  LET c == [kind |-> kind, units |-> units, epoch |-> e]
         IN  c \in Command /\ c.kind = kind /\ c.units = units /\ c.epoch = e
  BY DEF Command

\* No output: it is a sequence of units, and joining it changes nothing.
LEMMA EmptyUnits == <<>> \in Seq(Units) /\ Range(<<>>) = {} /\ \A u \in Seq(Units) : Join(u, <<>>) = u
<1>1. Range(<<>>) = {}
  BY DEF Range
<1>2. ASSUME NEW u \in Seq(Units) PROVE Join(u, <<>>) = u
  BY ConcatEmptySeq DEF Join
<1> QED BY <1>1, <1>2

\* The queue with one more command at its back.
LEMMA AppendedQueue ==
  ASSUME QueueType, EpochsHold, NEW c \in Command, c.epoch = epoch + 1, pending' = Append(pending, c)
  PROVE  /\ pending' \in Seq(Command) /\ Rises(pending')
         /\ Queued' = Queued \cup {c}
         /\ Epochs(pending') = Epochs(pending) \cup {epoch + 1} /\ epoch + 1 \notin Epochs(pending)
         /\ epoch + 1 \notin unreserved
         /\ UnitsOf(pending') = Join(UnitsOf(pending), c.units)
<1>1. pending \in Seq(Command) /\ epoch \in Nat /\ Rises(pending)
  BY DEF QueueType, EpochsHold
<1>2. \A d \in Range(pending) : d.epoch \in Nat /\ d.epoch <= epoch
  BY <1>1, InRange DEF EpochsHold, Queued
<1>3. \A d \in Range(pending) : d.epoch < c.epoch
  BY <1>1, <1>2
<1>4. pending' \in Seq(Command) /\ Rises(pending') /\ Range(pending') = Range(pending) \cup {c}
  BY <1>1, <1>3, AppendQueue
<1>5. Epochs(pending) = {d.epoch : d \in Range(pending)}
      /\ Epochs(pending') = {d.epoch : d \in Range(pending')}
  BY <1>1, <1>4, InRange
<1>6. UnitsOf(pending') = Join(UnitsOf(pending), c.units)
  BY <1>1, UnitsAppend
<1>7. epoch + 1 \notin Epochs(pending)
  BY <1>1, <1>2, <1>5
<1>8. epoch + 1 \notin unreserved
  BY <1>1 DEF EpochsHold
<1>9. Epochs(pending') = Epochs(pending) \cup {epoch + 1}
  BY <1>4, <1>5
<1> QED BY <1>4, <1>6, <1>7, <1>8, <1>9 DEF Queued

\* The exit after the stop enters without a reservation.
LEMMA AfterStopHolds ==
  ASSUME QueueType, SourceType, FrontierType, QueueHolds,
         NEW t \in Thread, NEW kind, NEW units, Arrival(t, kind, units),
         accepting, admitted[t], EnqueueExitAfterStop(kind)
  PROVE  QueueType' /\ QueueHolds'
<1> USE DEF QueueHolds
<1>1. /\ UNCHANGED <<captureFailure, captureReported, frontiers, accepting, active, closer,
                     admitted, taken, reports, ended, bytes, commands, overflowReported,
                     outputStopped, callbacksStopped, accepted>>
      /\ pending' = Append(pending, Message(kind, <<>>)) /\ epoch' = epoch + 1
      /\ unreserved' = unreserved \cup {epoch + 1} /\ exitAfterStop' = TRUE
  BY ArrivalCases DEF EnqueueExitAfterStop
<1>2. callbacksStopped /\ outputStopped /\ overflowReported /\ kind = "exit"
  BY DEF EnqueueExitAfterStop, Refuse, StopsHold
<1>3. exited = "no" /\ exited' = "queued" /\ SourceType' /\ produced' = produced
  BY <1>2, ArrivalCounts
<1> DEFINE c == Message(kind, <<>>)
<1>4. epoch \in Nat /\ epoch + 1 \in 1..MaxEpoch /\ epoch' <= EpochBound'
  BY <1>1, EpochFits DEF EpochBound, QueueType
<1>5. c \in Command /\ c.kind = "exit" /\ c.units = <<>> /\ c.epoch = epoch + 1
  BY <1>2, <1>4, MessageFields, EmptyUnits DEF Message, Kind
<1> HIDE DEF c
<1>6. /\ pending' \in Seq(Command) /\ Rises(pending') /\ Queued' = Queued \cup {c}
      /\ Epochs(pending') = Epochs(pending) \cup {epoch + 1} /\ epoch + 1 \notin unreserved
      /\ UnitsOf(pending') = Join(UnitsOf(pending), c.units)
  <2>1. pending' = Append(pending, c)
    BY <1>1 DEF c
  <2> QED BY <1>5, <2>1, AppendedQueue
<1>7. QueueType'
  BY <1>1, <1>3, <1>4, <1>6 DEF QueueType
<1>8. StopsHold'
  BY <1>1, <1>2, <1>3 DEF StopsHold
<1>9. Entered(Queued, {c}, {epoch + 1})
  <2>1. \A d \in Queued : d.kind # "output"
    BY <1>2 DEF CommandsHold
  <2>2. accepted \in Nat
    BY DEF QueueType
  <2>3. Range(c.units) = {}
    BY <1>5, EmptyUnits
  <2> QED BY <1>1, <1>3, <1>4, <1>5, <1>6, <2>1, <2>2, <2>3 DEF Entered
<1>10. EpochsHold' /\ CommandsHold' /\ MarksHold'
  BY <1>9, EnteredHolds
<1>11. AccountHolds'
  <2>1. UnitsOf(pending') = UnitsOf(pending)
    BY <1>5, <1>6, UnitsType, EmptyUnits DEF QueueType
  <2>2. Epochs(pending') \ unreserved' = Epochs(pending) \ unreserved
    BY <1>1, <1>6, <1>4, AppendedQueue, <1>5 DEF c
  <2> QED BY <1>1, <2>1, <2>2 DEF AccountHolds
<1>12. StreamHolds'
  BY <1>1, <1>2 DEF StreamHolds
<1>13. ExitHolds'
  BY <1>5, <1>6 DEF ExitHolds
<1> QED BY <1>7, <1>8, <1>10, <1>11, <1>12, <1>13

\* Two sequences of naturals, joined.
LEMMA JoinNaturals ==
  ASSUME NEW s \in Seq(Nat), NEW u \in Seq(Nat)
  PROVE  /\ Join(s, u) \in Seq(Nat) /\ Len(Join(s, u)) = Len(s) + Len(u)
         /\ \A i \in 1..(Len(s) + Len(u)) :
              Join(s, u)[i] = IF i <= Len(s) THEN s[i] ELSE u[i - Len(s)]
BY ConcatProperties DEF Join

\* The units counted up to a, and those that follow, are the units counted further.
LEMMA StreamGrows ==
  ASSUME NEW a \in Nat, NEW u \in Seq(Units), u = [i \in 1..Len(u) |-> a + i]
  PROVE  Join([i \in 1..a |-> i], u) = [i \in 1..(a + Len(u)) |-> i]
<1> DEFINE s == [i \in 1..a |-> i]
           n == Len(u)
           w == [i \in 1..(a + n) |-> i]
<1>1. n \in Nat /\ u = [i \in 1..n |-> a + i]
  BY LenProperties
<1> HIDE DEF n
<1>2. s \in Seq(Nat) /\ Len(s) = a /\ w \in Seq(Nat) /\ Len(w) = a + n /\ u \in Seq(Nat) /\ Len(u) = n
  <2>1. s \in [1..a -> Nat] /\ w \in [1..(a + n) -> Nat] /\ u \in [1..n -> Nat]
    BY <1>1
  <2> QED BY <1>1, <2>1, LenProperties
<1>3. /\ Join(s, u) \in Seq(Nat) /\ Len(Join(s, u)) = a + n
      /\ \A i \in 1..(a + n) : Join(s, u)[i] = IF i <= a THEN s[i] ELSE u[i - a]
  <2> HIDE DEF s
  <2>1. /\ Join(s, u) \in Seq(Nat) /\ Len(Join(s, u)) = Len(s) + Len(u)
        /\ \A i \in 1..(Len(s) + Len(u)) :
             Join(s, u)[i] = IF i <= Len(s) THEN s[i] ELSE u[i - Len(s)]
    BY <1>2, JoinNaturals
  <2> QED BY <1>2, <2>1
<1>4. ASSUME NEW i \in 1..(a + n) PROVE Join(s, u)[i] = w[i]
  <2>1. CASE i <= a
    BY <1>3, <2>1
  <2>2. CASE i > a
    <3>1. i - a \in 1..n /\ a + (i - a) = i
      BY <1>1, <2>2
    <3>2. u[i - a] = i
      BY <1>1, <3>1
    <3>3. ~(i <= a) /\ i \in 1..(a + n)
      BY <2>2
    <3>4. Join(s, u)[i] = u[i - a]
      BY <1>3, <3>3
    <3>5. w[i] = i
      BY <3>3 DEF w
    <3> QED BY <3>2, <3>4, <3>5
  <2> QED BY <1>1, <2>1, <2>2
<1> HIDE DEF s, w
<1>5. Join(s, u) = w
  BY <1>2, <1>3, <1>4, SeqEqual
<1> QED BY <1>5 DEF s, w, n

\* What an accepted callback does to the counts and to the stream, however it entered.
LEMMA AcceptedCounts ==
  ASSUME QueueType, SourceType, QueueHolds,
         NEW t \in Thread, NEW kind, NEW units, Arrival(t, kind, units),
         accepting, admitted[t], EnqueueAccepted(kind, units),
         pending' \in Seq(Command), UnitsOf(pending') = Join(UnitsOf(pending), units)
  PROVE  /\ UNCHANGED <<captureFailure, captureReported, frontiers, accepting, active, closer,
                        admitted, taken, reports, ended, overflowReported, outputStopped,
                        callbacksStopped, exitAfterStop, unreserved>>
         /\ epoch \in Nat /\ epoch + 1 \in 1..MaxEpoch /\ epoch' = epoch + 1 /\ epoch' <= EpochBound'
         /\ units \in Seq(Units) /\ kind \in Kind
         /\ kind = "output" => ~outputStopped
         /\ accepted' \in 0..produced' /\ accepted \in Nat /\ accepted <= accepted'
         /\ \A n \in Range(units) : n \in Nat /\ n <= accepted' /\ n > accepted
         /\ bytes' \in 0..HardBytes /\ bytes' = Len(UnitsOf(pending'))
         /\ StopsHold' /\ StreamHolds'
<1> USE DEF QueueHolds
<1>1. /\ UNCHANGED <<captureFailure, captureReported, frontiers, accepting, active, closer,
                     admitted, taken, reports, ended, overflowReported, outputStopped,
                     callbacksStopped, exitAfterStop, unreserved>>
      /\ epoch' = epoch + 1
      /\ bytes' = bytes + Len(units) /\ bytes + Len(units) <= HardBytes
      /\ accepted' = accepted + Len(units)
      /\ ~callbacksStopped /\ ~Refuse(kind)
  BY ArrivalCases DEF EnqueueAccepted, stops, WouldAccept
<1>2. epoch \in Nat /\ epoch + 1 \in 1..MaxEpoch /\ epoch' <= EpochBound'
  BY <1>1, EpochFits DEF EpochBound, QueueType
<1>3. kind = "output" => ~outputStopped
  BY <1>1 DEF Refuse
<1>4. /\ units \in Seq(Units) /\ kind \in Kind
      /\ kind # "output" => units = <<>> /\ Len(units) = 0 /\ Range(units) = {} /\ produced' = produced
      /\ kind = "output" => /\ produced' = produced + Len(units)
                            /\ units = [i \in 1..Len(units) |-> produced + i]
                            /\ Range(units) = (produced + 1)..produced'
      /\ SourceType' /\ produced <= produced'
  BY ArrivalCounts, EmptyUnits DEF Kind
<1>5. Len(units) \in Nat /\ accepted \in Nat /\ produced \in Nat /\ produced' \in Nat /\ accepted <= produced
  BY <1>4, LenProperties DEF QueueType, SourceType
<1>6. ~outputStopped => accepted = produced
  BY DEF StopsHold
<1>7. ~outputStopped => accepted' = produced'
  BY <1>1, <1>3, <1>4, <1>5, <1>6
<1>8. accepted' \in 0..produced' /\ accepted <= accepted'
  BY <1>1, <1>3, <1>4, <1>5, <1>6
<1>9. \A n \in Range(units) : n \in Nat /\ n <= accepted' /\ n > accepted
  BY <1>3, <1>4, <1>5, <1>6, <1>7
<1>10. bytes' \in 0..HardBytes /\ bytes' = Len(UnitsOf(pending'))
  <2>1. bytes = Len(UnitsOf(pending)) /\ UnitsOf(pending) \in Seq(Units)
    BY UnitsType DEF AccountHolds, QueueType
  <2>2. Len(Join(UnitsOf(pending), units)) = Len(UnitsOf(pending)) + Len(units)
    BY <1>4, <2>1, ConcatProperties DEF Join
  <2>3. bytes \in Nat
    BY DEF QueueType
  <2>4. HardBytes \in Nat
    BY IngressAssumption
  <2> QED BY <1>1, <1>5, <2>1, <2>2, <2>3, <2>4
<1>11. StopsHold'
  <2>1. exitAfterStop => exited' # "no"
    BY ArrivalCounts DEF StopsHold
  <2>2. exited' = "lost" => ~accepting
    BY ArrivalCounts DEF StopsHold
  <2>3. exited' = "no" => "exit" \notin reports
    BY ArrivalCounts DEF StopsHold
  <2> QED BY <1>1, <1>7, <2>1, <2>2, <2>3 DEF StopsHold
<1>12. StreamHolds'
  <2> SUFFICES ASSUME ~outputStopped
               PROVE  Join(taken, UnitsOf(pending')) = [i \in 1..accepted' |-> i]
    BY <1>1 DEF StreamHolds
  <2>1. Join(taken, UnitsOf(pending)) = [i \in 1..accepted |-> i]
    BY DEF StreamHolds
  <2>2. taken \in Seq(Units) /\ UnitsOf(pending) \in Seq(Units)
    BY UnitsType DEF QueueType
  <2>3. Join(taken, Join(UnitsOf(pending), units)) = Join(Join(taken, UnitsOf(pending)), units)
    BY <1>4, <2>2, JoinAssociative
  <2>4. CASE kind = "output"
    <3>1. units = [i \in 1..Len(units) |-> accepted + i]
      BY <1>4, <1>6, <2>4
    <3>2. Join([i \in 1..accepted |-> i], units) = [i \in 1..(accepted + Len(units)) |-> i]
      BY <1>4, <1>5, <3>1, StreamGrows
    <3> QED BY <1>1, <2>1, <2>3, <3>2
  <2>5. CASE kind # "output"
    <3>1. UnitsOf(pending') = UnitsOf(pending) /\ accepted' = accepted
      BY <1>1, <1>4, <1>5, <2>2, <2>5, EmptyUnits
    <3> QED BY <2>1, <3>1
  <2> QED BY <2>4, <2>5
<1> QED BY <1>1, <1>2, <1>3, <1>4, <1>5, <1>8, <1>9, <1>10, <1>11, <1>12

\* An accepted callback whose command joins the back of the queue.
LEMMA AppendedHolds ==
  ASSUME QueueType, SourceType, FrontierType, QueueHolds,
         NEW t \in Thread, NEW kind, NEW units, Arrival(t, kind, units),
         accepting, admitted[t], EnqueueAccepted(kind, units), ~MayAppend(kind)
  PROVE  QueueType' /\ QueueHolds'
<1> USE DEF QueueHolds
<1> DEFINE c == Message(kind, units)
<1>1. pending' = Append(pending, c) /\ commands' = commands + 1 /\ commands + 1 <= HardCommands
  BY DEF EnqueueAccepted, WouldAccept
<1>2. epoch + 1 \in 1..MaxEpoch /\ units \in Seq(Units) /\ kind \in Kind
  BY EpochFits, ArrivalCounts DEF Kind
<1>3. c \in Command /\ c.kind = kind /\ c.units = units /\ c.epoch = epoch + 1
  BY <1>2, MessageFields DEF Message
<1> HIDE DEF c
<1>4. /\ pending' \in Seq(Command) /\ Rises(pending') /\ Queued' = Queued \cup {c}
      /\ Epochs(pending') = Epochs(pending) \cup {epoch + 1} /\ epoch + 1 \notin Epochs(pending)
      /\ epoch + 1 \notin unreserved
      /\ UnitsOf(pending') = Join(UnitsOf(pending), units)
  BY <1>1, <1>3, AppendedQueue
<1>5. /\ UNCHANGED <<captureFailure, captureReported, frontiers, accepting, active, closer,
                     admitted, taken, reports, ended, overflowReported, outputStopped,
                     callbacksStopped, exitAfterStop, unreserved>>
      /\ epoch \in Nat /\ epoch' = epoch + 1 /\ epoch' <= EpochBound'
      /\ kind = "output" => ~outputStopped
      /\ accepted' \in 0..produced' /\ accepted \in Nat /\ accepted <= accepted'
      /\ \A n \in Range(units) : n \in Nat /\ n <= accepted' /\ n > accepted
      /\ bytes' \in 0..HardBytes /\ bytes' = Len(UnitsOf(pending'))
      /\ StopsHold' /\ StreamHolds'
  BY <1>4, AcceptedCounts
<1>6. /\ kind # "output" => units = <<>>
      /\ kind = "output" => exited = "no" /\ exited' = "no"
      /\ kind = "exit" => exited = "no" /\ exited' = "queued"
      /\ kind # "exit" => exited' = exited
      /\ produced' \in Nat
  BY ArrivalCounts DEF SourceType
<1>7. commands' \in 0..HardCommands
  BY <1>1, IngressAssumption DEF QueueType
<1>8. QueueType'
  BY <1>2, <1>4, <1>5, <1>7 DEF QueueType
<1>9. Entered(Queued, {c}, {})
  <2>1. ASSUME NEW n \in Range(units), NEW f \in DOMAIN frontiers PROVE n > frontiers[f].mark
    BY <1>5, FrontierFields DEF EpochsHold
  <2>2. outputStopped' => \A d \in Queued : d.kind # "output"
    BY <1>5 DEF CommandsHold
  <2>3. accepted' \in Nat
    BY <1>5, <1>6
  <2> QED BY <1>3, <1>4, <1>5, <1>6, <2>1, <2>2, <2>3 DEF Entered
<1>10. EpochsHold' /\ CommandsHold' /\ MarksHold'
  BY <1>9, EnteredHolds
<1>11. commands' = Cardinality(Epochs(pending') \ unreserved')
  <2> DEFINE E == Epochs(pending) \ unreserved
  <2>1. commands = Cardinality(E) /\ IsFiniteSet(E)
    BY CountReserved DEF AccountHolds, QueueType, EpochsHold
  <2>2. Epochs(pending') \ unreserved' = E \cup {epoch + 1} /\ epoch + 1 \notin E
    BY <1>4, <1>5
  <2> HIDE DEF E
  <2>3. Cardinality(E \cup {epoch + 1}) = Cardinality(E) + 1
    BY <2>1, <2>2, FS_AddElement
  <2> QED BY <1>1, <2>1, <2>2, <2>3
<1>12. AccountHolds'
  BY <1>5, <1>11 DEF AccountHolds
<1>13. ExitHolds'
  BY <1>3, <1>4, <1>5, <1>6 DEF ExitHolds
<1> QED BY <1>5, <1>8, <1>10, <1>12, <1>13

\* An accepted callback whose output the last command of the queue takes in.
LEMMA JoinedHolds ==
  ASSUME QueueType, SourceType, FrontierType, QueueHolds,
         NEW t \in Thread, NEW kind, NEW units, Arrival(t, kind, units),
         accepting, admitted[t], EnqueueAccepted(kind, units), MayAppend(kind)
  PROVE  QueueType' /\ QueueHolds'
<1> USE DEF QueueHolds
<1> DEFINE last  == pending[Len(pending)]
           grown == [kind |-> last.kind, units |-> last.units \o units, epoch |-> epoch + 1]
<1>1. /\ pending' = [pending EXCEPT ![Len(pending)].units = @ \o units,
                                    ![Len(pending)].epoch = epoch + 1]
      /\ commands' = commands
      /\ kind = "output" /\ pending # <<>> /\ last.kind = "output" /\ Unsealed(last.epoch)
  BY DEF EnqueueAccepted, MayAppend, Last
<1>2. epoch + 1 \in 1..MaxEpoch /\ units \in Seq(Units) /\ epoch \in Nat
  BY EpochFits, ArrivalCounts DEF QueueType
<1>3. pending \in Seq(Command) /\ Rises(pending)
  BY DEF QueueType, EpochsHold
<1>4. \A d \in Queued : d.epoch \in Nat /\ d.epoch <= epoch /\ d.epoch < epoch + 1 /\ d.units \in Seq(Units)
  BY <1>2, <1>3, InRange DEF EpochsHold, Queued
<1>5. /\ pending' \in Seq(Command) /\ Rises(pending')
      /\ last \in Queued /\ grown \in Command
      /\ \A d \in Queued : d # last => d.epoch # last.epoch
      /\ Queued' = (Queued \ {last}) \cup {grown}
      /\ UnitsOf(pending') = Join(UnitsOf(pending), units)
  BY <1>1, <1>2, <1>3, <1>4, JoinLast DEF Queued
<1>6. grown.kind = "output" /\ grown.epoch = epoch + 1 /\ grown.units = last.units \o units
  BY <1>1
<1> HIDE DEF last, grown
<1>7. /\ UNCHANGED <<captureFailure, captureReported, frontiers, accepting, active, closer,
                     admitted, taken, reports, ended, overflowReported, outputStopped,
                     callbacksStopped, exitAfterStop, unreserved>>
      /\ epoch' = epoch + 1 /\ epoch' <= EpochBound'
      /\ ~outputStopped
      /\ accepted' \in 0..produced' /\ accepted \in Nat /\ accepted <= accepted'
      /\ \A n \in Range(units) : n \in Nat /\ n <= accepted' /\ n > accepted
      /\ bytes' \in 0..HardBytes /\ bytes' = Len(UnitsOf(pending'))
      /\ StopsHold' /\ StreamHolds'
  BY <1>1, <1>5, AcceptedCounts
<1>8. exited = "no" /\ exited' = "no" /\ produced' \in Nat
  BY <1>1, ArrivalCounts DEF SourceType
<1>9. QueueType'
  BY <1>1, <1>2, <1>5, <1>7 DEF QueueType
<1>10. Entered(Queued \ {last}, {grown}, {})
  <2>1. Range(grown.units) = Range(last.units) \cup Range(units)
    BY <1>2, <1>4, <1>5, <1>6, RangeConcatenation
  <2>2. ASSUME NEW n \in Range(last.units)
        PROVE  n \in Nat /\ n <= accepted /\ \A f \in DOMAIN frontiers : n > frontiers[f].mark
    <3>1. Range(last.units) \in SUBSET Units
      BY <1>4, <1>5, RangeOfSeq
    <3>2. n \in Nat /\ n <= accepted
      BY <1>5, <3>1 DEF Units, CommandsHold
    <3>3. ASSUME NEW f \in DOMAIN frontiers PROVE n > frontiers[f].mark
      <4>1. frontiers[f].epoch \in Nat /\ frontiers[f].mark \in Nat /\ last.epoch \in Nat
        BY <1>4, <1>5, FrontierFields
      <4>2. frontiers[f].epoch < last.epoch
        BY <1>1 DEF Unsealed
      <4>3. n <= frontiers[f].mark <=> last.epoch <= frontiers[f].epoch
        BY <1>5 DEF MarksHold
      <4> QED BY <3>2, <4>1, <4>2, <4>3
    <3> QED BY <3>2, <3>3
  <2>3. ASSUME NEW n \in Range(grown.units)
        PROVE  n \in Nat /\ n <= accepted' /\ \A f \in DOMAIN frontiers : n > frontiers[f].mark
    <3>1. CASE n \in Range(last.units)
      BY <1>7, <1>8, <2>2, <3>1
    <3>2. CASE n \in Range(units)
      BY <1>7, <3>2, FrontierFields DEF EpochsHold
    <3> QED BY <2>1, <3>1, <3>2
  <2>4. accepted' \in Nat
    BY <1>7, <1>8
  <2>5. Queued \ {last} \subseteq Queued /\ {grown} \subseteq Command /\ Rises(pending')
        /\ Queued' = (Queued \ {last}) \cup {grown}
    BY <1>5
  <2>6. epoch' \in Nat /\ epoch <= epoch' /\ epoch' <= EpochBound' /\ epoch < grown.epoch
        /\ grown.epoch <= epoch'
    BY <1>2, <1>6, <1>7
  <2>7. {} \subseteq (epoch + 1)..epoch' /\ unreserved' = unreserved \cup {}
        /\ UNCHANGED <<captureFailure, captureReported, frontiers, reports>>
    BY <1>7
  <2>8. accepted <= accepted' /\ ~outputStopped'
    BY <1>7
  <2> QED BY <1>6, <1>8, <2>3, <2>4, <2>5, <2>6, <2>7, <2>8 DEF Entered
<1>11. EpochsHold' /\ CommandsHold' /\ MarksHold'
  BY <1>10, EnteredHolds
<1>12. commands' = Cardinality(Epochs(pending') \ unreserved')
  <2> DEFINE E == Epochs(pending) \ unreserved
             F == E \ {last.epoch}
  <2>1. commands = Cardinality(E) /\ IsFiniteSet(E)
    BY <1>3, CountReserved DEF AccountHolds
  <2>2. Epochs(pending) = {d.epoch : d \in Queued} /\ Epochs(pending') = {d.epoch : d \in Queued'}
    BY <1>3, <1>5, InRange DEF Queued
  <2>3. last.epoch \in E
    BY <1>1, <1>5, <2>2 DEF CommandsHold
  <2>4. epoch + 1 \notin unreserved /\ epoch + 1 \notin E
    BY <1>2, <1>4, <2>2 DEF EpochsHold
  <2>5. Epochs(pending') = (Epochs(pending) \ {last.epoch}) \cup {epoch + 1}
    BY <1>5, <1>6, <2>2
  <2>6. Epochs(pending') \ unreserved' = F \cup {epoch + 1} /\ epoch + 1 \notin F
    BY <1>7, <2>4, <2>5
  <2> HIDE DEF E
  <2>7. IsFiniteSet(F) /\ Cardinality(F) = Cardinality(E) - 1
    BY <2>1, <2>3, FS_RemoveElement
  <2> HIDE DEF F
  <2>8. Cardinality(F \cup {epoch + 1}) = Cardinality(F) + 1
    BY <2>6, <2>7, FS_AddElement
  <2>9. commands \in Nat
    BY DEF QueueType
  <2>10. Cardinality(E) \in Nat
    BY <2>1, <2>9
  <2>11. Cardinality(F \cup {epoch + 1}) = Cardinality(E)
    BY <2>7, <2>8, <2>10
  <2>12. Cardinality(Epochs(pending') \ unreserved') = Cardinality(F \cup {epoch + 1})
    BY <2>6
  <2> QED BY <1>1, <2>1, <2>11, <2>12
<1>13. AccountHolds'
  BY <1>7, <1>12 DEF AccountHolds
<1>14. ExitHolds'
  BY <1>8 DEF ExitHolds
<1> QED BY <1>7, <1>9, <1>11, <1>13, <1>14

\* The queue without its output: no units, and the reservations of the rest.
LEMMA DroppedQueue ==
  ASSUME QueueType, EpochsHold, CommandsHold, AccountHolds, accepting
  PROVE  LET q == DropsOutput(pending)
         IN  /\ q \in Seq(Command) /\ Rises(q)
             /\ Range(q) = {c \in Queued : c.kind # "output"}
             /\ UnitsOf(q) = <<>>
             /\ bytes - PendingBytes(pending) = 0
             /\ commands - Outputs(pending) = Cardinality(Epochs(q) \ unreserved)
             /\ commands - Outputs(pending) \in 0..HardCommands
<1> DEFINE q == DropsOutput(pending)
           I == {i \in DOMAIN pending : pending[i].kind = "output"}
           O == {pending[i].epoch : i \in I}
           E == Epochs(pending) \ unreserved
<1>1. pending \in Seq(Command) /\ Rises(pending)
  BY DEF QueueType, EpochsHold
<1>2. q \in Seq(Command) /\ Rises(q) /\ Range(q) = {c \in Queued : c.kind # "output"}
  BY <1>1, DropQueue DEF Queued
<1>3. Outputs(pending) = Cardinality(I)
  BY DEF Outputs
<1> HIDE DEF q
<1>4. UnitsOf(q) = <<>>
  <2>1. \A i \in DOMAIN q : q[i].units = <<>>
    BY <1>2, InRange DEF CommandsHold
  <2> QED BY <1>2, <2>1, UnitsNone
<1>5. bytes - PendingBytes(pending) = 0
  BY DEF AccountHolds, PendingBytes, QueueType
<1>6. IsFiniteSet(O) /\ Cardinality(O) = Cardinality(I) /\ Cardinality(I) \in Nat
  <2>1. I \in SUBSET DOMAIN pending
    OBVIOUS
  <2> HIDE DEF I
  <2> QED BY <1>1, <2>1, CountByEpoch
<1>7. commands = Cardinality(E) /\ IsFiniteSet(E) /\ Cardinality(E) \in Nat
  BY <1>1, CountReserved DEF AccountHolds
<1>8. O = {c.epoch : c \in {d \in Queued : d.kind = "output"}}
  BY <1>1, InRange DEF Queued
<1>9. Epochs(pending) = {c.epoch : c \in Queued} /\ Epochs(q) = {c.epoch : c \in Range(q)}
  BY <1>1, <1>2, InRange DEF Queued
<1>10. O \subseteq E
  BY <1>8, <1>9 DEF CommandsHold
<1>11. \A c, d \in Queued : c.epoch = d.epoch => c = d
  <2> SUFFICES ASSUME NEW c \in Queued, NEW d \in Queued, c.epoch = d.epoch PROVE c = d
    OBVIOUS
  <2>1. PICK i \in DOMAIN pending, j \in DOMAIN pending : c = pending[i] /\ d = pending[j]
    BY <1>1, InRange DEF Queued
  <2>2. i \in Nat /\ j \in Nat /\ c.epoch \in Nat /\ d.epoch \in Nat
    BY <1>1, <2>1, LenProperties, InRange DEF Queued
  <2>3. ~(i < j) /\ ~(j < i)
    BY <1>1, <2>1, <2>2 DEF Rises
  <2> QED BY <2>1, <2>2, <2>3
<1>12. Epochs(q) \ unreserved = E \ O
  <2>1. ASSUME NEW e \in Epochs(q) \ unreserved PROVE e \in E \ O
    <3>1. PICK c \in Queued : c.epoch = e /\ c.kind # "output"
      BY <1>2, <1>9, <2>1
    <3>2. e \notin O
      BY <1>8, <1>11, <3>1
    <3> QED BY <1>9, <3>1, <3>2
  <2>2. ASSUME NEW e \in E \ O PROVE e \in Epochs(q) \ unreserved
    <3>1. PICK c \in Queued : c.epoch = e
      BY <1>9
    <3>2. c.kind # "output"
      BY <1>8, <3>1
    <3> QED BY <1>2, <1>9, <3>1, <3>2
  <2> QED BY <2>1, <2>2
<1> HIDE DEF E, O, I
<1>13. Cardinality(E \ O) = Cardinality(E) - Cardinality(O) /\ Cardinality(E \ O) \in Nat
  <2>1. E \cap O = O
    BY <1>10
  <2>2. IsFiniteSet(E \ O) /\ Cardinality(E \ O) = Cardinality(E) - Cardinality(E \cap O)
    BY <1>7, FS_Difference
  <2> QED BY <2>1, <2>2, FS_CardinalityType
<1>14. commands - Outputs(pending) = Cardinality(Epochs(q) \ unreserved)
  BY <1>3, <1>6, <1>7, <1>12, <1>13
<1>15. commands - Outputs(pending) \in 0..HardCommands
  <2>1. commands \in 0..HardCommands /\ HardCommands \in Nat
    BY IngressAssumption DEF QueueType
  <2>2. Outputs(pending) \in Nat /\ commands - Outputs(pending) \in Nat
    BY <1>3, <1>6, <1>12, <1>13, <1>14
  <2> QED BY <2>1, <2>2
<1> QED BY <1>2, <1>4, <1>5, <1>14, <1>15 DEF q

\* A queue with one command without output at its back, or without.
LEMMA PerhapsAppended ==
  ASSUME NEW p \in Seq(Command), Rises(p), NEW c \in Command, NEW b \in BOOLEAN,
         \A d \in Range(p) : d.epoch < c.epoch, c.units = <<>>
  PROVE  LET q == p \o (IF b THEN <<c>> ELSE <<>>)
         IN  /\ q \in Seq(Command) /\ Rises(q)
             /\ Range(q) = Range(p) \cup (IF b THEN {c} ELSE {})
             /\ UnitsOf(q) = UnitsOf(p)
<1>1. CASE b
  <2>1. p \o <<c>> = Append(p, c)
    BY AppendIsConcat
  <2>2. /\ Append(p, c) \in Seq(Command) /\ Rises(Append(p, c))
        /\ Range(Append(p, c)) = Range(p) \cup {c}
    BY AppendQueue
  <2>3. UnitsOf(Append(p, c)) = UnitsOf(p)
    <3>1. UnitsOf(Append(p, c)) = Join(UnitsOf(p), c.units)
      BY UnitsAppend
    <3> QED BY <3>1, UnitsType, EmptyUnits
  <2> QED BY <1>1, <2>1, <2>2, <2>3
<1>2. CASE ~b
  <2>1. p \o <<>> = p
    BY ConcatEmptySeq
  <2> QED BY <1>2, <2>1
<1> QED BY <1>1, <1>2

\* What a callback leaves that did not fit.
LEMMA OverflowQueue ==
  ASSUME QueueType, SourceType, QueueHolds,
         NEW t \in Thread, NEW kind, NEW units, Arrival(t, kind, units),
         accepting, EnqueueOverflow(kind, units)
  PROVE  LET K == {c \in Queued : c.kind # "output"}
             m == [kind |-> "overflow", units |-> <<>>, epoch |-> epoch + 1]
             e == IF overflowReported THEN epoch ELSE epoch + 1
             x == [kind |-> "exit", units |-> <<>>, epoch |-> e + 1]
             N == (IF ~overflowReported THEN {m} ELSE {}) \cup (IF kind = "exit" THEN {x} ELSE {})
         IN  /\ N \subseteq Command /\ Queued' = K \cup N /\ Rises(pending')
             /\ pending' \in Seq(Command) /\ UnitsOf(pending') = <<>>
             /\ epoch' = IF kind = "exit" THEN e + 1 ELSE e
             /\ exitAfterStop' = (kind = "exit")
             /\ epoch' \in 0..MaxEpoch /\ epoch <= epoch'
             /\ unreserved' = unreserved \cup (epoch + 1)..epoch'
             /\ \A c \in N : epoch < c.epoch /\ c.epoch <= epoch' /\ c.units = <<>>
<1> USE DEF QueueHolds
<1> DEFINE K == {c \in Queued : c.kind # "output"}
           m == [kind |-> "overflow", units |-> <<>>, epoch |-> epoch + 1]
           e == IF overflowReported THEN epoch ELSE epoch + 1
           x == [kind |-> "exit", units |-> <<>>, epoch |-> e + 1]
           N == (IF ~overflowReported THEN {m} ELSE {}) \cup (IF kind = "exit" THEN {x} ELSE {})
           q == DropsOutput(pending)
           error == IF ~overflowReported THEN <<m>> ELSE <<>>
           exit == IF kind = "exit" THEN <<x>> ELSE <<>>
<1>1. ~exitAfterStop
  BY DEF EnqueueOverflow, StopsHold
<1>2. epoch \in Nat /\ epoch + 1 \in 1..MaxEpoch /\ (~overflowReported => epoch + 2 \in 1..MaxEpoch)
      /\ kind \in Kind /\ overflowReported \in BOOLEAN
  BY EpochFits, ArrivalCounts DEF QueueType, Kind
<1>3. m \in Command /\ m.kind = "overflow" /\ m.units = <<>> /\ m.epoch = epoch + 1
  BY <1>2, MessageFields, EmptyUnits DEF Kind
<1>4. e \in Nat /\ e + 1 \in 1..MaxEpoch /\ epoch <= e /\ e <= epoch + 1
  BY <1>2
<1>5. x \in Command /\ x.kind = "exit" /\ x.units = <<>> /\ x.epoch = e + 1
  <2> HIDE DEF e
  <2> QED BY <1>4, MessageFields, EmptyUnits DEF Kind
<1>6. Len(error) = (IF overflowReported THEN 0 ELSE 1) /\ Len(exit) = (IF kind = "exit" THEN 1 ELSE 0)
  OBVIOUS
<1>7. epoch + Len(error) = e
  BY <1>2, <1>6
<1>8. /\ pending' = q \o error \o exit /\ epoch' = e + Len(exit)
      /\ unreserved' = unreserved \cup (epoch + 1)..(e + Len(exit))
      /\ exitAfterStop' = (exitAfterStop \/ kind = "exit")
  BY <1>1, <1>7 DEF EnqueueOverflow, Message
<1>9. epoch' = (IF kind = "exit" THEN e + 1 ELSE e) /\ epoch' \in 0..MaxEpoch /\ epoch <= epoch'
      /\ unreserved' = unreserved \cup (epoch + 1)..epoch'
  <2>1. epoch' = IF kind = "exit" THEN e + 1 ELSE e
    BY <1>4, <1>6, <1>8
  <2> HIDE DEF e
  <2>2. MaxEpoch \in Nat
    BY IngressAssumption DEF MaxEpoch
  <2>3. epoch' \in 0..MaxEpoch /\ epoch <= epoch'
    BY <1>2, <1>4, <2>1, <2>2
  <2> QED BY <1>8, <2>1, <2>3
<1>10. q \in Seq(Command) /\ Rises(q) /\ Range(q) = K /\ UnitsOf(q) = <<>>
  BY DroppedQueue
<1>11. \A d \in K : d.epoch \in Nat /\ d.epoch <= epoch
  BY InRange DEF Queued, QueueType, EpochsHold
<1> HIDE DEF q, K
<1> DEFINE p == q \o error
<1>12. p \in Seq(Command) /\ Rises(p) /\ UnitsOf(p) = <<>>
       /\ Range(p) = K \cup (IF ~overflowReported THEN {m} ELSE {})
  <2>1. \A d \in Range(q) : d.epoch < m.epoch
    BY <1>2, <1>3, <1>10, <1>11
  <2> HIDE DEF m
  <2> QED BY <1>2, <1>3, <1>10, <2>1, PerhapsAppended
<1>13. \A d \in Range(p) : d.epoch \in Nat /\ d.epoch <= e
  <2>1. \A d \in K : d.epoch <= e
    BY <1>2, <1>4, <1>11
  <2>2. ~overflowReported => m.epoch = e
    BY <1>3
  <2> HIDE DEF m, e, p
  <2> QED BY <1>2, <1>3, <1>4, <1>11, <1>12, <2>1, <2>2
<1> HIDE DEF p, error
<1>14. /\ p \o exit \in Seq(Command) /\ Rises(p \o exit) /\ UnitsOf(p \o exit) = <<>>
       /\ Range(p \o exit) = Range(p) \cup (IF kind = "exit" THEN {x} ELSE {})
  <2>1. \A d \in Range(p) : d.epoch < x.epoch
    BY <1>4, <1>5, <1>13
  <2> HIDE DEF x
  <2> QED BY <1>5, <1>12, <2>1, PerhapsAppended
<1>15. pending' = p \o exit
  BY <1>8 DEF p
<1>16. Queued' = K \cup N
  BY <1>12, <1>14, <1>15 DEF Queued
<1>17. \A c \in N : epoch < c.epoch /\ c.epoch <= epoch' /\ c.units = <<>> /\ c \in Command
  <2>1. ~overflowReported => epoch < m.epoch /\ m.epoch <= epoch'
    BY <1>2, <1>3, <1>4, <1>9
  <2>2. kind = "exit" => epoch < x.epoch /\ x.epoch <= epoch'
    BY <1>2, <1>4, <1>5, <1>9
  <2> HIDE DEF m, x
  <2> QED BY <1>3, <1>5, <2>1, <2>2
<1>18. exitAfterStop' = (kind = "exit")
  BY <1>1, <1>8
<1> HIDE DEF N
<1>19. /\ N \subseteq Command /\ Queued' = K \cup N /\ Rises(pending')
       /\ pending' \in Seq(Command) /\ UnitsOf(pending') = <<>>
       /\ \A c \in N : epoch < c.epoch /\ c.epoch <= epoch' /\ c.units = <<>>
  BY <1>14, <1>15, <1>16, <1>17
<1> QED BY <1>9, <1>18, <1>19 DEF K, N

\* Arithmetic of the epochs: an overflow already reported.
LEMMA OneMore ==
  ASSUME NEW c \in Nat, NEW r \in Nat, NEW a \in Nat, NEW b \in Nat, b <= a + 1, a + 1 <= c + 1 + r
  PROVE  b <= c + 1 + r
  OBVIOUS

\* Arithmetic of the epochs: an overflow to report.
LEMMA TwoMore ==
  ASSUME NEW c \in Nat, NEW r \in Nat, NEW a \in Nat, NEW b \in Nat, b <= a + 2, a + 1 <= c + 0 + r
  PROVE  b <= c + 1 + r
  OBVIOUS

\* A callback that does not fit: the output queued goes, the error and the exit enter.
LEMMA OverflowHolds ==
  ASSUME QueueType, SourceType, FrontierType, QueueHolds,
         NEW t \in Thread, NEW kind, NEW units, Arrival(t, kind, units),
         accepting, admitted[t], EnqueueOverflow(kind, units)
  PROVE  QueueType' /\ QueueHolds'
<1> USE DEF QueueHolds
<1> DEFINE K == {c \in Queued : c.kind # "output"}
           m == [kind |-> "overflow", units |-> <<>>, epoch |-> epoch + 1]
           e == IF overflowReported THEN epoch ELSE epoch + 1
           x == [kind |-> "exit", units |-> <<>>, epoch |-> e + 1]
           N == (IF ~overflowReported THEN {m} ELSE {}) \cup (IF kind = "exit" THEN {x} ELSE {})
           R == (epoch + 1)..epoch'
<1>1. /\ N \subseteq Command /\ Queued' = K \cup N /\ Rises(pending')
      /\ pending' \in Seq(Command) /\ UnitsOf(pending') = <<>>
      /\ epoch' = IF kind = "exit" THEN e + 1 ELSE e
      /\ exitAfterStop' = (kind = "exit")
      /\ epoch' \in 0..MaxEpoch /\ epoch <= epoch'
      /\ unreserved' = unreserved \cup R
      /\ \A c \in N : epoch < c.epoch /\ c.epoch <= epoch' /\ c.units = <<>>
  BY OverflowQueue
<1>2. /\ UNCHANGED <<captureFailure, captureReported, frontiers, accepting, active, closer,
                     admitted, taken, reports, ended, accepted>>
      /\ outputStopped' = TRUE /\ overflowReported' = TRUE /\ callbacksStopped' = (kind # "output")
      /\ bytes' = bytes - PendingBytes(pending) /\ commands' = commands - Outputs(pending)
      /\ ~callbacksStopped /\ ~exitAfterStop
  BY ArrivalCases DEF EnqueueOverflow, DropPendingOutput, StopsHold
<1>3. /\ kind = "exit" => exited = "no" /\ exited' = "queued"
      /\ kind # "exit" => exited' = exited
      /\ produced <= produced' /\ SourceType'
  BY <1>2, ArrivalCounts
<1>4. epoch \in Nat /\ accepted \in Nat /\ produced \in Nat /\ produced' \in Nat
  BY <1>3 DEF QueueType, SourceType
<1>5. epoch' <= EpochBound'
  <2> DEFINE r == IF captureReported THEN 1 ELSE 0
  <2>1. EpochBound' = Calls' + 1 + r
    BY <1>2 DEF EpochBound
  <2>2. r \in Nat /\ Calls' \in Nat
    BY ArrivalCounts
  <2>3. epoch + 1 <= Calls' + (IF overflowReported THEN 1 ELSE 0) + r
    BY EpochFits
  <2> HIDE DEF r
  <2>4. epoch' \in Nat /\ epoch' <= e + 1
    BY <1>1, <1>4
  <2>5. overflowReported => epoch' <= epoch + 1
    BY <1>4, <2>4
  <2>6. ~overflowReported => epoch' <= epoch + 2
    BY <1>4, <2>4
  <2>7. CASE overflowReported
    <3>1. epoch + 1 <= Calls' + 1 + r
      BY <2>3, <2>7
    <3> QED BY <1>4, <2>1, <2>2, <2>7, <2>4, <2>5, <3>1, OneMore
  <2>8. CASE ~overflowReported
    <3>1. epoch + 1 <= Calls' + 0 + r
      BY <2>3, <2>8
    <3> QED BY <1>4, <2>1, <2>2, <2>8, <2>4, <2>6, <3>1, TwoMore
  <2> QED BY <2>7, <2>8
<1>6. \A c \in N : c.kind \in {"overflow", "exit"} /\ (c.kind = "exit" => kind = "exit")
  OBVIOUS
<1>7. \A c, d \in N : c.kind = "exit" /\ d.kind = "exit" => c = d
  OBVIOUS
<1>8. kind = "exit" => x \in N /\ x.kind = "exit"
  OBVIOUS
<1>9. /\ DropsOutput(pending) \in Seq(Command) /\ Range(DropsOutput(pending)) = K
      /\ bytes - PendingBytes(pending) = 0
      /\ commands - Outputs(pending) = Cardinality(Epochs(DropsOutput(pending)) \ unreserved)
      /\ commands - Outputs(pending) \in 0..HardCommands
  BY DroppedQueue
<1>10. \A c \in K : c.epoch \in Nat /\ c.epoch <= epoch
  BY InRange DEF Queued, QueueType, EpochsHold
<1>11. K \subseteq Queued /\ \A c \in K : c.kind # "output"
  OBVIOUS
<1>12. \A c \in Queued : c.kind # "output" => c \in K
  OBVIOUS
<1> HIDE DEF K, N, m, x, e
<1>13. QueueType'
  <2>1. bytes' \in 0..HardBytes
    BY <1>2, <1>9, IngressAssumption
  <2>2. unreserved' \subseteq 1..MaxEpoch
    <3>1. \A z \in R : z \in 1..MaxEpoch
      <4>1. MaxEpoch \in Nat
        BY IngressAssumption DEF MaxEpoch
      <4> QED BY <1>1, <1>4, <4>1
    <3> HIDE DEF R
    <3> QED BY <1>1, <3>1 DEF QueueType
  <2>3. accepted' \in 0..produced'
    BY <1>2, <1>3, <1>4 DEF QueueType
  <2>4. exitAfterStop' \in BOOLEAN /\ callbacksStopped' \in BOOLEAN
    BY <1>1, <1>2
  <2> QED BY <1>1, <1>2, <1>9, <2>1, <2>2, <2>3, <2>4 DEF QueueType
<1>14. StopsHold'
  BY <1>1, <1>2, <1>3 DEF StopsHold
<1>15. Entered(K, N, R)
  <2>1. \A c \in N : Range(c.units) = {}
    BY <1>1, EmptyUnits
  <2>2. \A c \in N : IF c.kind = "output"
                     THEN ~outputStopped' /\ c.epoch \notin R /\ exited' = "no"
                     ELSE c.units = <<>>
    BY <1>1, <1>6
  <2>3. \A c \in N : c.kind = "exit" => exited = "no" /\ exited' # "no"
    BY <1>3, <1>6
  <2>4. \A c, d \in N : c.kind = "exit" /\ d.kind \in {"output", "exit"} => c = d
    BY <1>6, <1>7
  <2>5. exited = "no" \/ exited' = exited
    BY <1>3
  <2>6. epoch' \in Nat
    BY <1>1
  <2>7. accepted' \in Nat /\ accepted <= accepted'
    BY <1>2, <1>4
  <2> HIDE DEF R
  <2>8. R \subseteq (epoch + 1)..epoch'
    BY DEF R
  <2> QED BY <1>1, <1>2, <1>5, <1>11, <2>1, <2>2, <2>3, <2>4, <2>5, <2>6, <2>7, <2>8 DEF Entered
<1>16. EpochsHold' /\ CommandsHold' /\ MarksHold'
  BY <1>15, EnteredHolds
<1>17. AccountHolds'
  <2>1. Len(UnitsOf(pending')) = 0
    BY <1>1
  <2>2. /\ Epochs(pending') = {c.epoch : c \in Queued'}
        /\ Epochs(DropsOutput(pending)) = {c.epoch : c \in K}
    BY <1>1, <1>9, InRange DEF Queued
  <2>3. \A c \in K : c.epoch \notin R
    BY <1>4, <1>10
  <2>4. \A c \in N : c.epoch \in R
    <3>1. \A c \in N : c.epoch \in Nat
      BY <1>1 DEF Command
    <3> QED BY <1>1, <1>4, <3>1
  <2> HIDE DEF R
  <2>5. Epochs(pending') \ unreserved' = Epochs(DropsOutput(pending)) \ unreserved
    BY <1>1, <2>2, <2>3, <2>4
  <2> QED BY <1>2, <1>9, <2>1, <2>5 DEF AccountHolds
<1>18. StreamHolds'
  BY <1>2 DEF StreamHolds
<1>19. ExitHolds'
  <2>1. CASE kind = "exit"
    BY <1>1, <1>8, <2>1 DEF ExitHolds
  <2>2. CASE kind # "exit"
    <3> SUFFICES ASSUME accepting', exited' = "queued", "exit" \notin reports'
                 PROVE  \E c \in Queued' : c.kind = "exit"
      BY DEF ExitHolds
    <3>1. PICK c \in Queued : c.kind = "exit"
      BY <1>2, <1>3, <2>2 DEF ExitHolds
    <3> QED BY <1>1, <1>12, <3>1
  <2> QED BY <2>1, <2>2
<1> QED BY <1>13, <1>14, <1>16, <1>17, <1>18, <1>19

\* No callback breaks what holds of the queue.
LEMMA ArrivalHolds ==
  ASSUME QueueType, SourceType, FrontierType, BarrierType, BarrierHolds, QueueHolds,
         NEW t \in Thread, NEW kind, NEW units, Arrival(t, kind, units)
  PROVE  QueueType' /\ QueueHolds'
<1>1. \/ Ignored /\ (~admitted[t] \/ Refuse(kind))
      \/ accepting /\ admitted[t] /\ EnqueueExitAfterStop(kind)
      \/ accepting /\ admitted[t] /\ EnqueueAccepted(kind, units)
      \/ accepting /\ admitted[t] /\ EnqueueOverflow(kind, units)
  BY ArrivalCases
<1> QED BY <1>1, IgnoredHolds, AfterStopHolds, AppendedHolds, JoinedHolds, OverflowHolds

(***************************************************************************)
(* What the session takes.                                                 *)
(***************************************************************************)
LEMMA LowerBoundFits ==
  ASSUME NEW p \in Seq(Command), p = pending, captureFailure \in Nat
  PROVE  /\ LowerBound \in 1..(Len(p) + 1)
         /\ LowerBound <= Len(p) => p[LowerBound].epoch >= captureFailure
         /\ \A j \in 1..(LowerBound - 1) : p[j].epoch < captureFailure
<1> DEFINE T == {i \in Nat : i \in 1..(Len(p) + 1) /\ (i <= Len(p) => p[i].epoch >= captureFailure)}
<1>1. Len(p) \in Nat /\ DOMAIN p = 1..Len(p)
  BY LenProperties
<1>2. T # {} /\ T \subseteq Nat
  <2>1. Len(p) + 1 \in T
    BY <1>1
  <2> QED BY <2>1
<1>3. PICK m \in T : \A i \in T : m <= i
  <2> HIDE DEF T
  <2> QED BY <1>2, LeastNatural
<1>4. ASSUME NEW j \in 1..(m - 1) PROVE p[j].epoch < captureFailure
  <2>1. j \in Nat /\ j \in 1..(Len(p) + 1) /\ ~(m <= j)
    BY <1>1, <1>3
  <2>2. j \in DOMAIN p /\ j <= Len(p)
    BY <1>1, <1>3
  <2>3. ~(p[j].epoch >= captureFailure)
    BY <1>3, <2>1, <2>2
  <2>4. p[j].epoch \in 1..MaxEpoch
    BY <2>2, CommandFields
  <2> QED BY <2>3, <2>4
<1>5. m \in 1..(Len(p) + 1) /\ (m <= Len(p) => p[m].epoch >= captureFailure)
  BY <1>3
<1> DEFINE Q(i) == /\ i <= Len(pending) => pending[i].epoch >= captureFailure
                   /\ \A j \in 1..(i - 1) : pending[j].epoch < captureFailure
<1>6. m \in 1..(Len(pending) + 1) /\ Q(m)
  BY <1>4, <1>5
<1>7. LowerBound = CHOOSE i \in 1..(Len(pending) + 1) : Q(i)
  BY DEF LowerBound
<1> HIDE DEF Q
<1>8. LowerBound \in 1..(Len(pending) + 1) /\ Q(LowerBound)
  BY <1>6, <1>7
<1> QED BY <1>8 DEF Q

\* The queue as the session sees it: with the capture failure in its place.
LEMMA CaptureInPlace ==
  ASSUME QueueType, EpochsHold, CommandsHold
  PROVE  LET p == WithCaptureFailure
         IN  /\ p \in Seq(Command) /\ Rises(p)
             /\ Range(p) = Queued \cup (IF captureFailure = 0 THEN {} ELSE {CaptureCommand})
             /\ UnitsOf(p) = UnitsOf(pending)
<1>1. pending \in Seq(Command) /\ Rises(pending) /\ captureFailure \in 0..MaxEpoch
  BY DEF QueueType, EpochsHold
<1>2. CASE captureFailure = 0
  BY <1>1, <1>2 DEF WithCaptureFailure, Queued
<1>3. CASE captureFailure # 0
  <2>1. captureFailure \in 1..MaxEpoch
    BY <1>1, <1>3
  <2>2. CaptureCommand \in Command /\ CaptureCommand.epoch = captureFailure /\ CaptureCommand.units = <<>>
    BY <2>1, MessageFields, EmptyUnits DEF CaptureCommand, Kind
  <2>3. /\ LowerBound \in 1..(Len(pending) + 1)
        /\ LowerBound <= Len(pending) => pending[LowerBound].epoch >= CaptureCommand.epoch
        /\ \A j \in 1..(LowerBound - 1) : pending[j].epoch < CaptureCommand.epoch
    BY <1>1, <2>2, LowerBoundFits
  <2>4. \A d \in Range(pending) : d.epoch # CaptureCommand.epoch
    BY <2>2 DEF EpochsHold, Queued
  <2> DEFINE p == InsertAt(pending, LowerBound, CaptureCommand)
  <2>5. /\ p \in Seq(Command) /\ Rises(p) /\ Range(p) = Range(pending) \cup {CaptureCommand}
        /\ CaptureCommand.units = <<>> => UnitsOf(p) = UnitsOf(pending)
    BY <1>1, <2>2, <2>3, <2>4, InsertInQueue
  <2>6. p = WithCaptureFailure
    BY <1>3 DEF WithCaptureFailure
  <2> HIDE DEF p
  <2> QED BY <1>3, <2>2, <2>5, <2>6 DEF Queued
<1> QED BY <1>2, <1>3

\* No more commands are taken than there are.
LEMMA TakeCountFits ==
  ASSUME NEW p \in Seq(Command), NEW roomBytes, NEW roomCommands, NEW target
  PROVE  TakeCount(p, roomBytes, roomCommands, target) \in 0..Len(p)
<1> DEFINE S == {k \in DOMAIN p : \E i \in 1..k : ~Fits(p, i, roomBytes, roomCommands, target)}
<1>1. DOMAIN p = 1..Len(p) /\ Len(p) \in Nat
  BY LenProperties
<1>2. IsFiniteSet(1..Len(p)) /\ Cardinality(1..Len(p)) = Len(p)
  BY <1>1, FS_Interval
<1>3. S \in SUBSET (1..Len(p))
  BY <1>1
<1>4. TakeCount(p, roomBytes, roomCommands, target) = Len(p) - Cardinality(S)
  BY DEF TakeCount
<1> HIDE DEF S
<1>5. Cardinality(S) \in Nat /\ Cardinality(S) <= Len(p)
  BY <1>2, <1>3, FS_Subset, FS_CardinalityType
<1> QED BY <1>1, <1>4, <1>5

\* A take is a take of some number of the commands there are.
LEMMA TakeIsBounded ==
  ASSUME QueueType, EpochsHold, CommandsHold, Take
  PROVE  \E k \in 0..Len(WithCaptureFailure) : TakePendingCommands(k)
<1>1. WithCaptureFailure \in Seq(Command)
  BY CaptureInPlace
<1>2. PICK roomBytes, roomCommands, target :
        TakePendingCommands(TakeCount(WithCaptureFailure, roomBytes, roomCommands, target))
  BY DEF Take
<1> QED BY <1>1, <1>2, TakeCountFits

\* What a take leaves: the back b of the queue as the session sees it, its front a taken.
LEMMA TakeSplits ==
  ASSUME QueueType, EpochsHold, CommandsHold, closer = "open",
         NEW k \in 0..Len(WithCaptureFailure), TakePendingCommands(k)
  PROVE  \E a, b \in Seq(Command) :
           LET exempt == unreserved \cup ({captureFailure} \ {0})
               kinds == {c.kind : c \in Range(a)}
           IN  /\ Rises(a) /\ Rises(b) /\ pending' = b
               /\ \A c \in Range(a), d \in Range(b) : c.epoch < d.epoch
               /\ Range(a) \cup Range(b)
                    = Queued \cup (IF captureFailure = 0 THEN {} ELSE {CaptureCommand})
               /\ UnitsOf(pending) = Join(UnitsOf(a), UnitsOf(b))
               /\ captureFailure' = 0
               /\ unreserved' = exempt \ Epochs(a)
               /\ bytes' = bytes - Len(UnitsOf(a))
               /\ commands' = commands - Cardinality(Epochs(a) \ exempt)
               /\ taken' = Join(taken, UnitsOf(a))
               /\ reports' = reports \cup (kinds \ {"output"})
               /\ ended' = (ended \/ ("exit" \in kinds /\ ~outputStopped))
<1> DEFINE p == WithCaptureFailure
           a == SubSeq(p, 1, k)
           b == SubSeq(p, k + 1, Len(p))
           exempt == unreserved \cup ({captureFailure} \ {0})
           kinds == {c.kind : c \in Range(a)}
<1>1. /\ p \in Seq(Command) /\ Rises(p)
      /\ Range(p) = Queued \cup (IF captureFailure = 0 THEN {} ELSE {CaptureCommand})
      /\ UnitsOf(p) = UnitsOf(pending)
  BY CaptureInPlace
<1>2. /\ pending' = b /\ captureFailure' = 0
      /\ unreserved' = exempt \ {a[i].epoch : i \in DOMAIN a}
      /\ bytes' = bytes - PendingBytes(a)
      /\ commands' = commands - Cardinality({i \in DOMAIN a : a[i].epoch \notin exempt})
      /\ taken' = taken \o UnitsOf(a)
      /\ reports' = reports \cup ({a[i].kind : i \in DOMAIN a} \ {"output"})
      /\ ended' = (ended \/ ("exit" \in {a[i].kind : i \in DOMAIN a} /\ ~outputStopped))
  BY DEF TakePendingCommands, ReleaseBatch
<1> HIDE DEF p
<1>3. /\ a \in Seq(Command) /\ b \in Seq(Command) /\ Rises(a) /\ Rises(b)
      /\ Range(p) = Range(a) \cup Range(b)
      /\ \A c \in Range(a), d \in Range(b) : c.epoch < d.epoch
      /\ UnitsOf(p) = Join(UnitsOf(a), UnitsOf(b))
  <2>1. k \in 0..Len(p)
    BY DEF p
  <2> QED BY <1>1, <2>1, SplitQueue
<1> HIDE DEF a, b
<1>4. {a[i].kind : i \in DOMAIN a} = {c.kind : c \in Range(a)}
  BY DEF Range
<1>5. {a[i].epoch : i \in DOMAIN a} = Epochs(a)
  BY DEF Epochs
<1>6. Cardinality({i \in DOMAIN a : a[i].epoch \notin exempt}) = Cardinality(Epochs(a) \ exempt)
  <2> HIDE DEF exempt
  <2> QED BY <1>3, CountReserved
<1>7. PendingBytes(a) = Len(UnitsOf(a)) /\ Join(taken, UnitsOf(a)) = taken \o UnitsOf(a)
  BY DEF PendingBytes, Join
<1> HIDE DEF exempt, kinds
<1>8. /\ pending' = b /\ captureFailure' = 0
      /\ unreserved' = exempt \ Epochs(a)
      /\ bytes' = bytes - Len(UnitsOf(a))
      /\ commands' = commands - Cardinality(Epochs(a) \ exempt)
      /\ taken' = Join(taken, UnitsOf(a))
      /\ reports' = reports \cup (kinds \ {"output"})
      /\ ended' = (ended \/ ("exit" \in kinds /\ ~outputStopped))
  BY <1>2, <1>4, <1>5, <1>6, <1>7 DEF kinds
<1>9. Range(a) \cup Range(b) = Queued \cup (IF captureFailure = 0 THEN {} ELSE {CaptureCommand})
  BY <1>1, <1>3
<1>10. UnitsOf(pending) = Join(UnitsOf(a), UnitsOf(b))
  BY <1>1, <1>3
<1> QED BY <1>3, <1>8, <1>9, <1>10 DEF exempt, kinds

\* No take breaks what holds of the queue.
LEMMA TakeHolds ==
  ASSUME QueueType, FrontierType, QueueHolds, BarrierHolds,
         NEW k \in 0..Len(WithCaptureFailure), TakePendingCommands(k)
  PROVE  QueueType' /\ QueueHolds'
<1> USE DEF QueueHolds
<1>1. closer = "open" /\ accepting
      /\ UNCHANGED <<epoch, captureReported, overflowReported, outputStopped, callbacksStopped,
                     exitAfterStop, frontiers, accepting, produced, errors, exited, accepted>>
  BY DEF TakePendingCommands, stops, barrier, source, BarrierHolds
<1> DEFINE exempt == unreserved \cup ({captureFailure} \ {0})
<1>2. PICK a \in Seq(Command), b \in Seq(Command) :
        /\ Rises(a) /\ Rises(b) /\ pending' = b
        /\ \A c \in Range(a), d \in Range(b) : c.epoch < d.epoch
        /\ Range(a) \cup Range(b)
             = Queued \cup (IF captureFailure = 0 THEN {} ELSE {CaptureCommand})
        /\ UnitsOf(pending) = Join(UnitsOf(a), UnitsOf(b))
        /\ captureFailure' = 0
        /\ unreserved' = exempt \ Epochs(a)
        /\ bytes' = bytes - Len(UnitsOf(a))
        /\ commands' = commands - Cardinality(Epochs(a) \ exempt)
        /\ taken' = Join(taken, UnitsOf(a))
        /\ reports' = reports \cup ({c.kind : c \in Range(a)} \ {"output"})
        /\ ended' = (ended \/ ("exit" \in {c.kind : c \in Range(a)} /\ ~outputStopped))
  BY <1>1, TakeSplits
<1>3. /\ epoch \in Nat /\ captureFailure \in Nat /\ captureFailure <= epoch
      /\ CaptureCommand.kind = "capture" /\ CaptureCommand.units = <<>>
      /\ CaptureCommand.epoch = captureFailure
  BY DEF QueueType, EpochsHold, CaptureCommand
<1>4. \A c \in Range(a) \cup Range(b) : c \in Queued \/ (captureFailure # 0 /\ c = CaptureCommand)
  BY <1>2
<1>5. \A c \in Range(a) \cup Range(b) : c.epoch \in Nat /\ c.epoch > 0 /\ c.epoch <= epoch /\ c.kind \in Kind
  <2>1. \A c \in Range(a) \cup Range(b) : c.epoch \in 1..MaxEpoch /\ c.kind \in Kind
    BY InRange
  <2> QED BY <1>3, <1>4, <2>1 DEF EpochsHold
<1>6. Queued \subseteq Range(a) \cup Range(b) /\ Queued' = Range(b)
  BY <1>2 DEF Queued
<1>7. UnitsOf(a) \in Seq(Units) /\ UnitsOf(b) \in Seq(Units) /\ taken \in Seq(Units)
  BY UnitsType DEF QueueType
<1>8. EpochsHold'
  <2>1. unreserved' \subseteq 1..epoch'
    <3>1. {captureFailure} \ {0} \subseteq 1..epoch
      BY <1>3
    <3> QED BY <1>1, <1>2, <3>1 DEF EpochsHold
  <2>2. \A c \in Queued' : c.epoch <= epoch' /\ c.epoch # captureFailure'
    BY <1>1, <1>2, <1>5, <1>6
  <2>3. epoch' <= EpochBound'
    BY <1>1 DEF EpochsHold, EpochBound, Calls
  <2>4. \A f \in DOMAIN frontiers' : frontiers'[f].epoch <= epoch' /\ frontiers'[f].mark <= accepted'
    BY <1>1 DEF EpochsHold
  <2>5. captureFailure' <= epoch'
    BY <1>1, <1>2, <1>3
  <2> QED BY <1>2, <2>1, <2>2, <2>3, <2>4, <2>5 DEF EpochsHold
<1>9. CommandsHold'
  <2>1. ASSUME NEW c \in Queued'
        PROVE  /\ IF c.kind = "output" THEN ~outputStopped' /\ c.epoch \notin unreserved' ELSE c.units = <<>>
               /\ \A n \in Range(c.units) : n <= accepted'
    <3>1. CASE c \in Queued
      <4>1. c.epoch # captureFailure
        BY <3>1 DEF EpochsHold
      <4> QED BY <1>1, <1>2, <3>1, <4>1 DEF CommandsHold
    <3>2. CASE c = CaptureCommand
      BY <1>3, <3>2, EmptyUnits
    <3> QED BY <1>4, <1>6, <2>1, <3>1, <3>2
  <2>2. ASSUME NEW c \in Range(a), c.kind = "exit", NEW d \in Range(b) PROVE d.kind \notin {"output", "exit"}
    <3>1. c \in Queued
      BY <1>3, <1>4, <2>2
    <3>2. CASE d \in Queued
      <4>1. c.epoch < d.epoch /\ c.epoch \in Nat /\ d.epoch \in Nat
        BY <1>2, <1>5
      <4>2. c # d /\ ~(d.epoch < c.epoch)
        BY <4>1
      <4> QED BY <2>2, <3>1, <3>2, <4>2 DEF CommandsHold
    <3>3. CASE d = CaptureCommand
      BY <1>3, <3>3
    <3> QED BY <1>4, <3>2, <3>3
  <2>3. ASSUME NEW c \in Queued', NEW d \in Queued',
               c.kind = "exit", d.kind \in {"output", "exit"}, d # c
        PROVE  d.epoch < c.epoch
    <3>1. c \in Queued /\ d \in Queued
      BY <1>3, <1>4, <1>6, <2>3
    <3> QED BY <2>3, <3>1 DEF CommandsHold
  <2>4. exited' = "no" => \A c \in Queued' : c.kind # "exit"
    BY <1>1, <1>3, <1>4, <1>6 DEF CommandsHold
  <2>5. ASSUME "exit" \in reports', NEW c \in Queued' PROVE c.kind \notin {"output", "exit"}
    <3>1. CASE "exit" \in reports
      BY <1>3, <1>4, <1>6, <3>1 DEF CommandsHold
    <3>2. CASE "exit" \notin reports
      <4>1. PICK d \in Range(a) : d.kind = "exit"
        BY <1>2, <2>5, <3>2
      <4> QED BY <1>6, <2>2, <4>1
    <3> QED BY <3>1, <3>2
  <2> QED BY <2>1, <2>3, <2>4, <2>5 DEF CommandsHold
<1>10. bytes' = Len(UnitsOf(b)) /\ bytes' \in 0..HardBytes
  <2>1. Len(Join(UnitsOf(a), UnitsOf(b))) = Len(UnitsOf(a)) + Len(UnitsOf(b))
    BY <1>7, ConcatProperties DEF Join
  <2>2. Len(UnitsOf(a)) \in Nat /\ Len(UnitsOf(b)) \in Nat
    BY <1>7, LenProperties
  <2>3. bytes = Len(UnitsOf(a)) + Len(UnitsOf(b)) /\ bytes \in 0..HardBytes /\ HardBytes \in Nat
    BY <1>1, <1>2, <2>1, IngressAssumption DEF AccountHolds, QueueType
  <2> QED BY <1>2, <2>2, <2>3
<1>11. commands' = Cardinality(Epochs(b) \ unreserved') /\ commands' \in 0..HardCommands
  <2> DEFINE A == Epochs(a) \ exempt
             B == Epochs(b) \ exempt
  <2>1. /\ IsFiniteSet(A) /\ Cardinality(A) \in Nat
        /\ IsFiniteSet(B) /\ Cardinality(B) \in Nat
    <3> HIDE DEF exempt
    <3> QED BY <1>2, CountReserved
  <2>2. /\ Epochs(a) = {c.epoch : c \in Range(a)} /\ Epochs(b) = {c.epoch : c \in Range(b)}
        /\ Epochs(pending) = {c.epoch : c \in Queued}
    BY InRange DEF Queued, QueueType
  <2>3. Epochs(a) \cap Epochs(b) = {}
    <3> SUFFICES ASSUME NEW c \in Range(a), NEW d \in Range(b) PROVE c.epoch # d.epoch
      BY <2>2
    <3> QED BY <1>2, <1>5
  <2>4. Epochs(pending) \ unreserved = A \cup B
    <3>1. ASSUME NEW e \in Epochs(pending) \ unreserved PROVE e \in A \cup B
      <4>1. PICK c \in Queued : c.epoch = e
        BY <2>2, <3>1
      <4>2. e # captureFailure
        BY <4>1 DEF EpochsHold
      <4>3. e \in Epochs(a) \/ e \in Epochs(b)
        BY <1>6, <2>2, <4>1
      <4> QED BY <3>1, <4>2, <4>3
    <3>2. ASSUME NEW e \in A \cup B PROVE e \in Epochs(pending) \ unreserved
      <4>1. PICK c \in Range(a) \cup Range(b) : c.epoch = e
        BY <2>2, <3>2
      <4>2. c \in Queued
        BY <1>3, <1>4, <3>2, <4>1
      <4> QED BY <2>2, <3>2, <4>1, <4>2
    <3> QED BY <3>1, <3>2
  <2>5. Epochs(b) \ unreserved' = B
    BY <1>2, <2>3
  <2>6. commands = Cardinality(A \cup B)
    BY <1>1, <2>4 DEF AccountHolds
  <2>7. A \cap B = {}
    BY <2>3
  <2>8. commands' = commands - Cardinality(A)
    BY <1>2
  <2> HIDE DEF A, B
  <2>9. Cardinality(A \cup B) = Cardinality(A) + Cardinality(B)
    <3>1. Cardinality(A \cup B) = Cardinality(A) + Cardinality(B) - Cardinality(A \cap B)
      BY <2>1, FS_Union
    <3>2. Cardinality(A \cap B) = 0
      BY <2>7, FS_EmptySet
    <3> QED BY <2>1, <3>1, <3>2
  <2>10. commands \in 0..HardCommands /\ HardCommands \in Nat
    BY IngressAssumption DEF QueueType
  <2>11. commands = Cardinality(A) + Cardinality(B)
    BY <2>6, <2>9
  <2>12. commands' = Cardinality(B)
    BY <2>1, <2>8, <2>11
  <2>13. Cardinality(B) \in 0..HardCommands
    BY <2>1, <2>10, <2>11
  <2> QED BY <2>5, <2>12, <2>13
<1>12. AccountHolds'
  BY <1>2, <1>10, <1>11 DEF AccountHolds
<1>13. MarksHold'
  <2> SUFFICES ASSUME NEW f \in DOMAIN frontiers, NEW c \in Queued', NEW n \in Range(c.units)
               PROVE  n <= frontiers[f].mark <=> c.epoch <= frontiers[f].epoch
    BY <1>1 DEF MarksHold
  <2>1. c \in Queued
    BY <1>3, <1>4, <1>6, EmptyUnits
  <2> QED BY <2>1 DEF MarksHold
<1>14. StreamHolds'
  <2>1. Join(Join(taken, UnitsOf(a)), UnitsOf(b)) = Join(taken, UnitsOf(pending))
    BY <1>2, <1>7, JoinAssociative
  <2>2. Join(taken', UnitsOf(pending')) = Join(taken, UnitsOf(pending))
    BY <1>2, <2>1
  <2> QED BY <1>1, <2>2 DEF StreamHolds
<1>15. StopsHold'
  <2>1. exited' = "no" => "exit" \notin reports'
    BY <1>1, <1>2, <1>3, <1>4 DEF StopsHold, CommandsHold
  <2>2. ended' => "exit" \in reports'
    BY <1>2 DEF StopsHold
  <2> QED BY <1>1, <2>1, <2>2 DEF StopsHold
<1>16. ExitHolds'
  <2> SUFFICES ASSUME exited = "queued" PROVE "exit" \in reports' \/ \E c \in Queued' : c.kind = "exit"
    BY <1>1 DEF ExitHolds
  <2>1. CASE "exit" \in reports
    BY <1>2, <2>1
  <2>2. CASE "exit" \notin reports
    <3>1. PICK c \in Queued : c.kind = "exit"
      BY <1>1, <2>2 DEF ExitHolds
    <3>2. c \in Range(a) => "exit" \in reports'
      BY <1>2, <3>1
    <3> QED BY <1>6, <3>1, <3>2
  <2> QED BY <2>1, <2>2
<1>17. QueueType'
  <2>1. taken' \in Seq(Units)
    BY <1>2, <1>7, ConcatProperties DEF Join
  <2>2. reports' \subseteq Kind \ {"output"}
    BY <1>2, <1>5 DEF QueueType
  <2>3. unreserved' \subseteq 1..MaxEpoch
    <3>1. {captureFailure} \ {0} \subseteq 1..MaxEpoch
      BY DEF QueueType
    <3> QED BY <1>2, <3>1 DEF QueueType
  <2>4. ended' \in BOOLEAN /\ captureFailure' \in 0..MaxEpoch /\ pending' \in Seq(Command)
    <3>1. MaxEpoch \in Nat
      BY IngressAssumption DEF MaxEpoch
    <3>2. ended' \in BOOLEAN
      BY <1>2 DEF QueueType
    <3> QED BY <1>2, <3>1, <3>2
  <2> QED BY <1>1, <1>10, <1>11, <2>1, <2>2, <2>3, <2>4 DEF QueueType
<1> QED BY <1>8, <1>9, <1>12, <1>13, <1>14, <1>15, <1>16, <1>17

(***************************************************************************)
(* The other steps that change the queue, the frontiers or the barrier.    *)
(***************************************************************************)
LEMMA StopHolds ==
  ASSUME QueueType, SourceType, QueueHolds, BarrierHolds, StopBackendOutput
  PROVE  QueueType' /\ QueueHolds'
<1> USE DEF QueueHolds
<1> DEFINE q == DropsOutput(pending)
<1>1. /\ UNCHANGED <<epoch, unreserved, captureFailure, captureReported, overflowReported,
                     callbacksStopped, exitAfterStop, frontiers, accepting, produced, errors, exited,
                     accepted, taken, reports, ended>>
      /\ accepting /\ outputStopped' = TRUE /\ pending' = q
      /\ bytes' = bytes - PendingBytes(pending) /\ commands' = commands - Outputs(pending)
  BY DEF StopBackendOutput, DropPendingOutput, capture, barrier, source, session, BarrierHolds
<1>2. /\ q \in Seq(Command) /\ Rises(q)
      /\ Range(q) = {c \in Queued : c.kind # "output"}
      /\ UnitsOf(q) = <<>>
      /\ bytes - PendingBytes(pending) = 0
      /\ commands - Outputs(pending) = Cardinality(Epochs(q) \ unreserved)
      /\ commands - Outputs(pending) \in 0..HardCommands
  BY <1>1, DroppedQueue
<1> HIDE DEF q
<1>3. Queued' = {c \in Queued : c.kind # "output"}
  BY <1>1, <1>2 DEF Queued
<1>4. QueueType'
  <2>1. bytes' \in 0..HardBytes
    BY <1>1, <1>2, IngressAssumption
  <2> QED BY <1>1, <1>2, <2>1 DEF QueueType
<1>5. StopsHold'
  BY <1>1 DEF StopsHold
<1>6. EpochsHold'
  <2>1. EpochBound' = EpochBound
    BY <1>1 DEF EpochBound, Calls
  <2> QED BY <1>1, <1>2, <1>3, <2>1 DEF EpochsHold
<1>7. CommandsHold'
  BY <1>1, <1>3 DEF CommandsHold
<1>8. AccountHolds'
  BY <1>1, <1>2 DEF AccountHolds
<1>9. MarksHold'
  BY <1>1, <1>3 DEF MarksHold
<1>10. StreamHolds'
  BY <1>1 DEF StreamHolds
<1>11. ExitHolds'
  BY <1>1, <1>3 DEF ExitHolds
<1> QED BY <1>4, <1>5, <1>6, <1>7, <1>8, <1>9, <1>10, <1>11

\* A capture failure takes an epoch of its own and leaves the queue alone.
LEMMA CaptureFailsHolds ==
  ASSUME QueueType, SourceType, FrontierType, QueueHolds, CaptureFails
  PROVE  QueueType' /\ QueueHolds'
<1> USE DEF QueueHolds
<1>1. /\ UNCHANGED <<pending, bytes, commands, unreserved, overflowReported, outputStopped,
                     callbacksStopped, exitAfterStop, frontiers, accepting, produced, errors, exited,
                     accepted, taken, reports, ended>>
      /\ ~captureReported /\ captureReported' = TRUE
      /\ captureFailure' = epoch + 1 /\ epoch' = epoch + 1
  BY DEF CaptureFails, stops, barrier, source, session
<1>2. epoch \in Nat /\ accepted \in Nat /\ captureFailure \in Nat
  BY DEF QueueType
<1> DEFINE o == IF overflowReported THEN 1 ELSE 0
<1>3. epoch <= Calls + o + 0
  BY <1>1 DEF EpochsHold, EpochBound
<1>4. EpochBound' = Calls + o + 1
  BY <1>1 DEF EpochBound, Calls
<1>5. Calls \in Nat /\ Calls <= MaxUnits + MaxErrors + 1 /\ MaxUnits \in Nat /\ MaxErrors \in Nat
  BY IngressAssumption DEF Calls, SourceType
<1>6. o \in Nat /\ o <= 1
  OBVIOUS
<1> HIDE DEF o
<1>7. epoch' <= EpochBound'
  BY <1>1, <1>2, <1>3, <1>4, <1>5, <1>6
<1>8. epoch + 1 \in 1..MaxEpoch
  BY <1>2, <1>3, <1>5, <1>6 DEF MaxEpoch
<1>9. \A c \in Queued : c.epoch \in Nat /\ c.epoch <= epoch
  BY InRange DEF Queued, QueueType, EpochsHold
<1>10. Queued' = Queued
  BY <1>1 DEF Queued
<1>11. EpochsHold'
  <2>1. unreserved' \subseteq 1..epoch' /\ epoch + 1 \notin unreserved
    BY <1>1, <1>2 DEF EpochsHold
  <2>2. \A c \in Queued' : c.epoch <= epoch' /\ c.epoch # captureFailure'
    BY <1>1, <1>2, <1>9, <1>10
  <2>3. \A f \in DOMAIN frontiers' : frontiers'[f].epoch <= epoch' /\ frontiers'[f].mark <= accepted'
    BY <1>1, <1>2, FrontierFields DEF EpochsHold
  <2>4. Rises(pending') /\ captureFailure' <= epoch'
    BY <1>1, <1>2 DEF EpochsHold
  <2> QED BY <1>1, <1>7, <2>1, <2>2, <2>3, <2>4 DEF EpochsHold
<1>12. QueueType'
  BY <1>1, <1>8 DEF QueueType
<1>13. StopsHold' /\ CommandsHold' /\ AccountHolds' /\ MarksHold' /\ StreamHolds' /\ ExitHolds'
  BY <1>1, <1>10 DEF StopsHold, CommandsHold, AccountHolds, MarksHold, StreamHolds, ExitHolds
<1> QED BY <1>11, <1>12, <1>13

\* What is left of a sequence when one of its elements goes.
LEMMA Removed ==
  ASSUME NEW S, NEW s \in Seq(S), NEW i \in DOMAIN s
  PROVE  /\ RemoveAt(s, i) \in Seq(S) /\ Len(RemoveAt(s, i)) <= Len(s)
         /\ Range(RemoveAt(s, i)) \subseteq Range(s)
<1> DEFINE a == SubSeq(s, 1, i - 1)
           b == SubSeq(s, i + 1, Len(s))
<1>1. Len(s) \in Nat /\ DOMAIN s = 1..Len(s) /\ i \in 1..Len(s)
  BY LenProperties
<1>2. \A j \in 1..Len(s) : s[j] \in S
  BY <1>1, ElementOfSeq
<1>3. a \in Seq(S) /\ Len(a) = i - 1 /\ \A j \in 1..(i - 1) : a[j] = s[j]
  BY <1>1, <1>2, SubSeqProperties
<1>4. b \in Seq(S) /\ Len(b) = Len(s) - i /\ \A j \in 1..(Len(s) - i) : b[j] = s[i + j]
  <2> DEFINE m == i + 1
             n == Len(s)
  <2>1. m \in Int /\ n \in Int /\ \A j \in m..n : s[j] \in S
    BY <1>1, <1>2
  <2>2. m = i + 1 /\ n = Len(s) /\ b = SubSeq(s, m, n)
    OBVIOUS
  <2> HIDE DEF b
  <2> HIDE DEF m, n
  <2>3. /\ SubSeq(s, m, n) \in Seq(S)
        /\ Len(SubSeq(s, m, n)) = IF m <= n THEN n - m + 1 ELSE 0
        /\ \A j \in 1..(n - m + 1) : SubSeq(s, m, n)[j] = s[m + j - 1]
    BY <2>1, SubSeqProperties
  <2>4. ASSUME NEW l \in Nat, NEW h \in 1..l, NEW j \in 1..(l - h)
        PROVE  j \in 1..(l - (h + 1) + 1) /\ (h + 1) + j - 1 = h + j
    OBVIOUS
  <2>5. \A j \in 1..(Len(s) - i) : j \in 1..(n - m + 1) /\ m + j - 1 = i + j
    BY <1>1, <2>2, <2>4
  <2>6. (IF m <= n THEN n - m + 1 ELSE 0) = n - i
    BY <1>1, <2>2
  <2> QED BY <2>2, <2>3, <2>5, <2>6
<1>5. RemoveAt(s, i) = a \o b
  BY DEF RemoveAt
<1> HIDE DEF a, b
<1>6. a \o b \in Seq(S) /\ Len(a \o b) = Len(a) + Len(b)
  BY <1>3, <1>4, ConcatProperties
<1>7. Range(a \o b) = Range(a) \cup Range(b)
  BY <1>3, <1>4, RangeConcatenation
<1>8. Range(a) \subseteq Range(s)
  <2>1. DOMAIN a = 1..(i - 1) /\ \A j \in 1..(i - 1) : j \in DOMAIN s
    BY <1>1, <1>3, LenProperties
  <2> QED BY <1>3, <2>1 DEF Range
<1>9. Range(b) \subseteq Range(s)
  <2>1. DOMAIN b = 1..(Len(s) - i) /\ \A j \in 1..(Len(s) - i) : i + j \in DOMAIN s
    BY <1>1, <1>4, LenProperties
  <2> QED BY <1>4, <2>1 DEF Range
<1> QED BY <1>1, <1>3, <1>4, <1>5, <1>6, <1>7, <1>8, <1>9

\* A frontier captured now splits what is queued and what is to come.
LEMMA CaptureFrontierHolds ==
  ASSUME QueueType, SourceType, FrontierType, QueueHolds, CaptureFrontier
  PROVE  QueueType' /\ FrontierType' /\ QueueHolds'
<1> USE DEF QueueHolds
<1> DEFINE r == [epoch |-> epoch, mark |-> accepted]
<1>1. /\ UNCHANGED <<pending, bytes, commands, epoch, unreserved, captureFailure, captureReported,
                     overflowReported, outputStopped, callbacksStopped, exitAfterStop, accepting,
                     produced, errors, exited, accepted, taken, reports, ended>>
      /\ Len(frontiers) < MaxFrontiers /\ frontiers' = Append(frontiers, r)
  BY DEF CaptureFrontier, queue, capture, stops, barrier, source, session
<1>2. epoch \in 0..MaxEpoch /\ accepted \in 0..MaxUnits /\ accepted \in Nat /\ epoch \in Nat
  BY IngressAssumption DEF QueueType, SourceType
<1>3. r \in [epoch : 0..MaxEpoch, mark : 0..MaxUnits] /\ r.epoch = epoch /\ r.mark = accepted
  BY <1>2
<1> HIDE DEF r
<1>4. frontiers \in Seq([epoch : 0..MaxEpoch, mark : 0..MaxUnits]) /\ Len(frontiers) \in Nat
      /\ DOMAIN frontiers = 1..Len(frontiers)
  BY LenProperties DEF FrontierType
<1>5. /\ frontiers' \in Seq([epoch : 0..MaxEpoch, mark : 0..MaxUnits])
      /\ Len(frontiers') = Len(frontiers) + 1 /\ DOMAIN frontiers' = 1..(Len(frontiers) + 1)
      /\ \A i \in 1..Len(frontiers) : frontiers'[i] = frontiers[i]
      /\ frontiers'[Len(frontiers) + 1] = r
  BY <1>1, <1>3, <1>4, AppendProperties, LenProperties
<1>6. \A f \in DOMAIN frontiers' : (f \in DOMAIN frontiers /\ frontiers'[f] = frontiers[f]) \/ frontiers'[f] = r
  BY <1>4, <1>5
<1>7. FrontierType'
  BY <1>1, <1>4, <1>5, IngressAssumption DEF FrontierType
<1>8. Queued' = Queued
  BY <1>1 DEF Queued
<1>9. EpochsHold'
  <2>1. EpochBound' = EpochBound
    BY <1>1 DEF EpochBound, Calls
  <2>2. \A f \in DOMAIN frontiers' : frontiers'[f].epoch <= epoch' /\ frontiers'[f].mark <= accepted'
    BY <1>1, <1>2, <1>3, <1>6 DEF EpochsHold
  <2> QED BY <1>1, <1>8, <2>1, <2>2 DEF EpochsHold
<1>10. MarksHold'
  <2> SUFFICES ASSUME NEW f \in DOMAIN frontiers', NEW c \in Queued, NEW n \in Range(c.units)
               PROVE  n <= frontiers'[f].mark <=> c.epoch <= frontiers'[f].epoch
    BY <1>8 DEF MarksHold
  <2>1. CASE f \in DOMAIN frontiers /\ frontiers'[f] = frontiers[f]
    BY <2>1 DEF MarksHold
  <2>2. CASE frontiers'[f] = r
    BY <1>3, <2>2 DEF CommandsHold, EpochsHold
  <2> QED BY <1>6, <2>1, <2>2
<1>11. QueueType' /\ StopsHold' /\ CommandsHold' /\ AccountHolds' /\ StreamHolds' /\ ExitHolds'
  BY <1>1, <1>8 DEF QueueType, StopsHold, CommandsHold, AccountHolds, StreamHolds, ExitHolds
<1> QED BY <1>7, <1>9, <1>10, <1>11

\* Releasing a frontier leaves the others.
LEMMA ReleaseFrontierHolds ==
  ASSUME QueueType, FrontierType, QueueHolds, ReleaseFrontier
  PROVE  QueueType' /\ FrontierType' /\ QueueHolds'
<1> USE DEF QueueHolds
<1>1. UNCHANGED <<pending, bytes, commands, epoch, unreserved, captureFailure, captureReported,
                  overflowReported, outputStopped, callbacksStopped, exitAfterStop, accepting,
                  produced, errors, exited, accepted, taken, reports, ended>>
  BY DEF ReleaseFrontier, queue, capture, stops, barrier, source, session
<1>2. PICK i \in DOMAIN frontiers : frontiers' = RemoveAt(frontiers, i)
  BY DEF ReleaseFrontier
<1>3. /\ frontiers' \in Seq([epoch : 0..MaxEpoch, mark : 0..MaxUnits])
      /\ Len(frontiers') <= Len(frontiers) /\ Range(frontiers') \subseteq Range(frontiers)
  BY <1>2, Removed DEF FrontierType
<1>4. \A f \in DOMAIN frontiers' : \E g \in DOMAIN frontiers : frontiers'[f] = frontiers[g]
  BY <1>3 DEF Range
<1>5. FrontierType'
  <2>1. Len(frontiers) \in Nat /\ Len(frontiers') \in Nat /\ MaxFrontiers \in Nat
    BY <1>3, LenProperties, IngressAssumption DEF FrontierType
  <2> QED BY <1>3, <2>1 DEF FrontierType
<1>6. Queued' = Queued
  BY <1>1 DEF Queued
<1>7. EpochsHold'
  <2>1. EpochBound' = EpochBound
    BY <1>1 DEF EpochBound, Calls
  <2>2. \A f \in DOMAIN frontiers' : frontiers'[f].epoch <= epoch' /\ frontiers'[f].mark <= accepted'
    BY <1>1, <1>4 DEF EpochsHold
  <2> QED BY <1>1, <1>6, <2>1, <2>2 DEF EpochsHold
<1>8. MarksHold'
  <2> SUFFICES ASSUME NEW f \in DOMAIN frontiers', NEW c \in Queued, NEW n \in Range(c.units)
               PROVE  n <= frontiers'[f].mark <=> c.epoch <= frontiers'[f].epoch
    BY <1>6 DEF MarksHold
  <2> QED BY <1>4 DEF MarksHold
<1>9. QueueType' /\ StopsHold' /\ CommandsHold' /\ AccountHolds' /\ StreamHolds' /\ ExitHolds'
  BY <1>1, <1>6 DEF QueueType, StopsHold, CommandsHold, AccountHolds, StreamHolds, ExitHolds
<1> QED BY <1>5, <1>7, <1>8, <1>9

\* close(), at its call or when it wakes: nothing is queued and nothing comes in.
LEMMA CloseHolds ==
  ASSUME QueueType, QueueHolds, BarrierHolds, Close \/ CloseWakes
  PROVE  QueueType' /\ QueueHolds'
<1> USE DEF QueueHolds
<1>1. /\ UNCHANGED <<bytes, commands, epoch, unreserved, captureReported, frontiers,
                     overflowReported, outputStopped, callbacksStopped, exitAfterStop,
                     produced, errors, exited, accepted, taken, reports, ended>>
      /\ accepting' = FALSE /\ pending' = <<>> /\ captureFailure' = 0
  BY DEF Close, CloseWakes, stops, source, session, BarrierHolds
<1>2. Queued' = {}
  BY <1>1, EmptyUnits DEF Queued
<1>3. EpochsHold'
  <2>1. EpochBound' = EpochBound
    BY <1>1 DEF EpochBound, Calls
  <2>2. Rises(pending')
    BY <1>1 DEF Rises
  <2>3. captureFailure' <= epoch'
    BY <1>1 DEF QueueType
  <2> QED BY <1>1, <1>2, <2>1, <2>2, <2>3 DEF EpochsHold
<1>4. CommandsHold' /\ MarksHold'
  BY <1>2 DEF CommandsHold, MarksHold
<1>5. AccountHolds' /\ StreamHolds' /\ ExitHolds'
  BY <1>1 DEF AccountHolds, StreamHolds, ExitHolds
<1>6. StopsHold'
  BY <1>1 DEF StopsHold
<1>7. QueueType'
  <2>1. 0 \in 0..MaxEpoch /\ <<>> \in Seq(Command)
    BY IngressAssumption DEF MaxEpoch
  <2> QED BY <1>1, <2>1 DEF QueueType
<1> QED BY <1>3, <1>4, <1>5, <1>6, <1>7

\* A callback that begins or ends leaves all of it as it is.
LEMMA BackendHolds ==
  ASSUME QueueType, FrontierType, SourceType, QueueHolds,
         UNCHANGED <<queue, capture, stops, frontiers, accepting, source, session>>
  PROVE  QueueType' /\ FrontierType' /\ SourceType' /\ QueueHolds'
<1>1. UNCHANGED <<pending, bytes, commands, epoch, unreserved, captureFailure, captureReported,
                  overflowReported, outputStopped, callbacksStopped, exitAfterStop, frontiers, accepting,
                  produced, errors, exited, accepted, taken, reports, ended>>
  BY DEF queue, capture, stops, source, session
<1>2. Queued' = Queued /\ EpochBound' = EpochBound
  BY <1>1 DEF Queued, EpochBound, Calls
<1>3. QueueType' /\ FrontierType' /\ SourceType'
  BY <1>1 DEF QueueType, FrontierType, SourceType
<1> QED BY <1>1, <1>2, <1>3 DEF QueueHolds, StopsHold, EpochsHold, CommandsHold, AccountHolds, MarksHold,
      StreamHolds, ExitHolds

(***************************************************************************)
(* The invariant and what it states.                                       *)
(***************************************************************************)
LEMMA BarrierTypeStep ==
  ASSUME BarrierType, BarrierHolds, BarrierHolds', Next, TypeOK
  PROVE  BarrierType' /\ active' <= 2
<1> DEFINE Typed == /\ accepting' \in BOOLEAN
                    /\ closer' \in {"open", "asleep", "woken", "closed"}
                    /\ pc' \in [Thread -> {"idle", "begun", "inside"}]
                    /\ admitted' \in [Thread -> BOOLEAN]
<1>1. Typed
  <2> USE DEF BarrierType
  <2>1. ASSUME NEW t \in Thread, BeginCallback(t) \/ EndCallback(t) PROVE Typed
    BY <2>1 DEF BeginCallback, EndCallback
  <2>2. ASSUME NEW t \in Thread, NEW kind, NEW units, Arrival(t, kind, units) PROVE Typed
    BY <2>2, ArrivalCases
  <2>3. ASSUME CaptureFails \/ (\E k : TakePendingCommands(k)) \/ CaptureFrontier \/ ReleaseFrontier
               \/ StopBackendOutput
        PROVE  Typed
    BY <2>3 DEF CaptureFails, TakePendingCommands, CaptureFrontier, ReleaseFrontier, StopBackendOutput,
                barrier, threads
  <2>4. ASSUME Close \/ CloseWakes PROVE Typed
    BY <2>4 DEF Close, CloseWakes, threads
  <2> QED BY <2>1, <2>2, <2>3, <2>4, NextCases
<1>2. active' \in Nat /\ active' <= 2
  BY DEF BarrierHolds, InSession
<1> QED BY <1>1, <1>2 DEF BarrierType

\* No step breaks what holds of the queue.
LEMMA QueueStep ==
  ASSUME SourceType, QueueType, FrontierType, BarrierType, TypeOK, BarrierHolds, QueueHolds, Next
  PROVE  SourceType' /\ QueueType' /\ FrontierType' /\ QueueHolds'
<1>1. ASSUME NEW t \in Thread, BeginCallback(t) \/ EndCallback(t)
      PROVE  SourceType' /\ QueueType' /\ FrontierType' /\ QueueHolds'
  BY <1>1, BackendHolds DEF BeginCallback, EndCallback
<1>2. ASSUME NEW t \in Thread, NEW kind, NEW units, Arrival(t, kind, units)
      PROVE  SourceType' /\ QueueType' /\ FrontierType' /\ QueueHolds'
  <2>1. frontiers' = frontiers
    BY <1>2, ArrivalCases
  <2> QED BY <1>2, <2>1, ArrivalHolds, ArrivalCounts DEF FrontierType
<1>3. CASE CaptureFails
  <2>1. frontiers' = frontiers /\ UNCHANGED <<produced, errors, exited>>
    BY <1>3 DEF CaptureFails, source
  <2> QED BY <1>3, <2>1, CaptureFailsHolds DEF FrontierType, SourceType
<1>4. CASE Take
  <2>1. PICK k \in 0..Len(WithCaptureFailure) : TakePendingCommands(k)
    BY <1>4, TakeIsBounded DEF QueueHolds
  <2>2. frontiers' = frontiers /\ UNCHANGED <<produced, errors, exited>>
    BY <2>1 DEF TakePendingCommands, source
  <2> QED BY <2>1, <2>2, TakeHolds DEF FrontierType, SourceType
<1>5. CASE CaptureFrontier
  <2>1. UNCHANGED <<produced, errors, exited>>
    BY <1>5 DEF CaptureFrontier, source
  <2> QED BY <1>5, <2>1, CaptureFrontierHolds DEF SourceType
<1>6. CASE ReleaseFrontier
  <2>1. UNCHANGED <<produced, errors, exited>>
    BY <1>6 DEF ReleaseFrontier, source
  <2> QED BY <1>6, <2>1, ReleaseFrontierHolds DEF SourceType
<1>7. CASE StopBackendOutput
  <2>1. frontiers' = frontiers /\ UNCHANGED <<produced, errors, exited>>
    BY <1>7 DEF StopBackendOutput, source
  <2> QED BY <1>7, <2>1, StopHolds DEF FrontierType, SourceType
<1>8. CASE Close \/ CloseWakes
  <2>1. frontiers' = frontiers /\ UNCHANGED <<produced, errors, exited>>
    BY <1>8 DEF Close, CloseWakes, source
  <2> QED BY <1>8, <2>1, CloseHolds DEF FrontierType, SourceType
<1> QED BY <1>1, <1>2, <1>3, <1>4, <1>5, <1>6, <1>7, <1>8, DeliverArrives
    DEF Next, BackendStep, SessionStep

\* The invariant by its parts.
LEMMA InvParts == IInv <=> TypeOK /\ BarrierHolds /\ QueueHolds
  BY DEF IInv, QueueHolds

\* The invariant holds at the start.
LEMMA InitHolds == Init => IInv
<1> SUFFICES ASSUME Init PROVE IInv
  OBVIOUS
<1> USE DEF Init
<1>1. TypeOK
  <2>1. SourceType /\ FrontierType /\ BarrierType /\ active <= 2
    BY IngressAssumption DEF SourceType, FrontierType, BarrierType
  <2>2. QueueType
    <3>1. MaxEpoch \in Nat /\ HardBytes \in Nat /\ HardCommands \in Nat
      BY IngressAssumption DEF MaxEpoch
    <3>2. <<>> \in Seq(Command) /\ <<>> \in Seq(Units)
      OBVIOUS
    <3>3. pending \in Seq(Command) /\ taken \in Seq(Units)
      BY <3>2
    <3>4. /\ captureFailure \in 0..MaxEpoch /\ epoch \in 0..MaxEpoch
          /\ bytes \in 0..HardBytes /\ commands \in 0..HardCommands /\ accepted \in 0..produced
      BY <3>1
    <3>5. unreserved \subseteq 1..MaxEpoch /\ reports \subseteq Kind \ {"output"}
      OBVIOUS
    <3> QED BY <3>3, <3>4, <3>5 DEF QueueType
  <2> QED BY <2>1, <2>2, TypeParts
<1>2. Queued = {} /\ Epochs(pending) = {} /\ UnitsOf(pending) = <<>>
  BY EmptyUnits, UnitsEmpty DEF Queued, Epochs
<1>3. BarrierHolds
  BY DEF BarrierHolds, InSession, Thread
<1>4. StopsHold /\ CommandsHold /\ MarksHold /\ ExitHolds
  BY <1>2 DEF StopsHold, CommandsHold, MarksHold, ExitHolds
<1>5. EpochsHold
  BY <1>2 DEF EpochsHold, EpochBound, Calls, Rises
<1>6. AccountHolds
  <2>1. Cardinality({} \ unreserved) = 0
    BY FS_EmptySet
  <2> QED BY <1>2, <2>1 DEF AccountHolds
<1>7. StreamHolds
  <2>1. Join(<<>>, <<>>) = <<>>
    BY EmptyUnits
  <2>2. [i \in 1..0 |-> i] = <<>>
    OBVIOUS
  <2> QED BY <1>2, <2>1, <2>2 DEF StreamHolds
<1> QED BY <1>1, <1>3, <1>4, <1>5, <1>6, <1>7 DEF IInv

\* Every step preserves the invariant.
LEMMA InvStep == IInv /\ [Next]_vars => IInv'
<1> SUFFICES ASSUME IInv, [Next]_vars PROVE IInv'
  OBVIOUS
<1>1. TypeOK /\ BarrierHolds /\ QueueHolds /\ SourceType /\ QueueType /\ FrontierType /\ BarrierType
  BY InvParts, TypeParts
<1>2. CASE Next
  <2>1. BarrierHolds'
    BY <1>1, <1>2, BarrierStep
  <2>2. BarrierType' /\ active' <= 2
    BY <1>1, <1>2, <2>1, BarrierTypeStep
  <2>3. SourceType' /\ QueueType' /\ FrontierType' /\ QueueHolds'
    BY <1>1, <1>2, QueueStep
  <2>4. TypeOK'
    <3>1. TypeOK' <=> (SourceType /\ QueueType /\ FrontierType /\ BarrierType /\ active <= 2)'
      BY TypeParts, PTL
    <3> QED BY <2>2, <2>3, <3>1
  <2> QED BY <2>1, <2>3, <2>4 DEF IInv, QueueHolds
<1>3. CASE UNCHANGED vars
  <2>1. UNCHANGED <<queue, capture, stops, frontiers, accepting, source, session>>
        /\ UNCHANGED <<pending, captureFailure, accepting, active, closer, pc, admitted>>
    BY <1>3 DEF vars, queue, capture, barrier, threads
  <2>2. BarrierHolds' /\ BarrierType' /\ active' <= 2
    BY <1>1, <2>1, TypeParts DEF BarrierHolds, InSession, BarrierType
  <2>3. SourceType' /\ QueueType' /\ FrontierType' /\ QueueHolds'
    BY <1>1, <2>1, BackendHolds
  <2>4. TypeOK'
    <3>1. TypeOK' <=> (SourceType /\ QueueType /\ FrontierType /\ BarrierType /\ active <= 2)'
      BY TypeParts, PTL
    <3> QED BY <2>2, <2>3, <3>1
  <2> QED BY <2>2, <2>3, <2>4 DEF IInv, QueueHolds
<1> QED BY <1>2, <1>3

\* The inductive invariant: the barrier, the stops, the epochs, the commands,
\* the accounting, the marks of the frontiers, the stream and the exit.
THEOREM Invariant == Spec => []IInv
  BY InitHolds, InvStep, PTL DEF Spec

\* The variables keep their types; the epochs stay within what the callbacks can use up.
THEOREM TypeCorrect == Spec => []TypeOK
<1>1. IInv => TypeOK
  BY DEF IInv
<1> QED BY <1>1, Invariant, PTL

(***************************************************************************)
(* Once close() has returned no callback is in the session and none is     *)
(* queued for it, whatever the threads were doing when it was called.      *)
(***************************************************************************)
THEOREM ClosedStaysQuiescent == Spec => []ClosedIsQuiescent
<1>1. IInv => ClosedIsQuiescent
  BY DEF IInv, BarrierHolds, InSession, ClosedIsQuiescent, Thread
<1> QED BY <1>1, Invariant, PTL

(***************************************************************************)
(* The exit is never swallowed: it enters past the capacity, overflow and  *)
(* the drop of output leave it in the queue, and only a take removes it.   *)
(***************************************************************************)
THEOREM ExitStays == Spec => []ExitSurvives
<1>1. IInv => ExitSurvives
  <2> SUFFICES ASSUME IInv, accepting, exited = "queued", "exit" \notin reports
               PROVE  \E i \in DOMAIN pending : pending[i].kind = "exit"
    BY DEF ExitSurvives
  <2>1. PICK c \in Queued : c.kind = "exit"
    BY DEF IInv, ExitHolds
  <2> QED BY <2>1 DEF Queued, Range
<1> QED BY <1>1, Invariant, PTL

(***************************************************************************)
(* The accounting is exact, the epochs rise along the queue and the        *)
(* captured frontiers split the output, through every overflow, join,      *)
(* insertion and partial take.                                             *)
(***************************************************************************)
THEOREM QueueStaysSound == Spec => []QueueIsSound
<1>1. IInv => QueueIsSound
  <2> SUFFICES ASSUME IInv PROVE QueueIsSound
    OBVIOUS
  <2>1. pending \in Seq(Command) /\ Rises(pending)
    BY DEF IInv, TypeOK, EpochsHold
  <2>2. ReservationsExact
    <3>1. Cardinality({i \in DOMAIN pending : pending[i].epoch \notin unreserved})
            = Cardinality(Epochs(pending) \ unreserved)
      BY <2>1, CountReserved
    <3> QED BY <3>1 DEF IInv, AccountHolds, ReservationsExact, PendingBytes
  <2>3. DOMAIN pending = 1..Len(pending) /\ Len(pending) \in Nat
        /\ \A i \in DOMAIN pending : pending[i] \in Queued
    BY <2>1, LenProperties, InRange DEF Queued
  <2>4. EpochsRise
    <3>1. \A i \in DOMAIN pending : i > 1 => pending[i - 1].epoch < pending[i].epoch
      <4>1. \A i \in DOMAIN pending : i > 1 => i - 1 \in DOMAIN pending /\ i - 1 < i
        BY <2>3
      <4> QED BY <2>1, <4>1 DEF Rises
    <3>2. pending # <<>> => Last(pending).epoch <= epoch
      <4>1. pending # <<>> => Len(pending) \in DOMAIN pending
        BY <2>1, <2>3, EmptySeq
      <4> QED BY <2>3, <4>1 DEF Last, IInv, EpochsHold
    <3>3. \A i \in DOMAIN pending : pending[i].epoch # captureFailure
      BY <2>3 DEF IInv, EpochsHold
    <3> QED BY <3>1, <3>2, <3>3 DEF EpochsRise
  <2>5. FrontierSplits
    BY <2>3 DEF IInv, MarksHold, FrontierSplits
  <2> QED BY <2>2, <2>4, <2>5 DEF QueueIsSound
<1> QED BY <1>1, Invariant, PTL

(***************************************************************************)
(* The queue implements OutputStream.                                      *)
(***************************************************************************)
Counted(n) == [i \in 1..n |-> i]

\* The queue starts as the stream does.
LEMMA StreamInit == Init => Stream!Init
<1> SUFFICES ASSUME Init PROVE Stream!Init
  OBVIOUS
<1>1. [i \in 1..accepted |-> i] = <<>>
  BY DEF Init
<1> QED BY <1>1 DEF Init, Stream!Init

\* A sequence is a prefix of what it becomes when something is joined to it.
LEMMA PrefixOfJoin ==
  ASSUME NEW X, NEW s \in Seq(X), NEW u \in Seq(X)
  PROVE  /\ Stream!IsPrefix(s, Join(s, u))
         /\ u # <<>> => Stream!IsStrictPrefix(s, Join(s, u))
<1> DEFINE w == Join(s, u)
<1>1. Len(s) \in Nat /\ Len(u) \in Nat /\ Len(w) = Len(s) + Len(u)
  BY LenProperties, ConcatProperties DEF Join
<1>2. SubSeq(s, 1, Len(s)) = SubSeq(w, 1, Len(s))
  <2>1. CASE Len(s) = 0
    <3>1. SubSeq(s, 1, 0) = <<>> /\ SubSeq(w, 1, 0) = <<>>
      BY SubSeqEmpty
    <3> QED BY <2>1, <3>1
  <2>2. CASE Len(s) # 0
    <3>1. 1 \in 1..Len(s) /\ Len(s) \in 1..Len(s)
      BY <1>1, <2>2
    <3> QED BY <3>1, SubSeqOfConcat1 DEF Join
  <2> QED BY <2>1, <2>2
<1>3. u # <<>> => s # w
  BY ConcatEqualIffEmpty DEF Join
<1> HIDE DEF w
<1>4. Stream!IsPrefix(s, w)
  BY <1>1, <1>2 DEF Stream!IsPrefix
<1> QED BY <1>3, <1>4 DEF Stream!IsStrictPrefix, w

Unseen == UNCHANGED <<accepted, taken, ended, outputStopped, accepting>>

\* What changes none of the five is a stutter of the stream.
LEMMA UnseenStutters ==
  ASSUME Unseen
  PROVE  UNCHANGED Stream!vars
  BY DEF Unseen, Stream!vars

\* Stopping output, or closing the session, closes the stream.
LEMMA StoppedCloses ==
  ASSUME UNCHANGED <<accepted, taken, ended>>, outputStopped' \/ ~accepting'
  PROVE  Stream!Close
  BY DEF Stream!Close

\* A callback is an Accept of the stream, a Close or a stutter.
LEMMA ArrivalStreams ==
  ASSUME IInv, NEW t \in Thread, NEW kind, NEW units, Arrival(t, kind, units)
  PROVE  Stream!Accept \/ Stream!Close \/ UNCHANGED Stream!vars
<1>1. QueueType /\ SourceType /\ StopsHold
  BY InvParts, TypeParts DEF QueueHolds
<1>2. UNCHANGED <<accepting, taken, ended>>
  BY ArrivalCases
<1>3. CASE Ignored \/ EnqueueExitAfterStop(kind)
  <2>1. Unseen
    BY <1>2, <1>3 DEF Unseen, Ignored, EnqueueExitAfterStop, stops
  <2> QED BY <2>1, UnseenStutters
<1>4. CASE EnqueueOverflow(kind, units)
  <2>1. UNCHANGED <<accepted, taken, ended>> /\ outputStopped'
    BY <1>2, <1>4 DEF EnqueueOverflow
  <2> QED BY <2>1, StoppedCloses
<1>5. CASE accepting /\ EnqueueAccepted(kind, units)
  <2>1. accepted' = accepted + Len(units) /\ outputStopped' = outputStopped /\ ~Refuse(kind)
        /\ ~callbacksStopped
    BY <1>5 DEF EnqueueAccepted, stops
  <2>2. CASE kind = "output"
    <3>1. /\ exited = "no" /\ Len(units) \in Nat \ {0} /\ units \in Seq(Units)
          /\ units = [i \in 1..Len(units) |-> produced + i]
      BY <1>1, <2>2, ArrivalCounts
    <3>2. ~outputStopped /\ accepted = produced /\ ~ended /\ accepted \in Nat
      BY <1>1, <1>5, <2>1, <2>2, <3>1 DEF Refuse, StopsHold, QueueType
    <3>3. Counted(accepted') = Join(Counted(accepted), units)
      BY <2>1, <3>1, <3>2, StreamGrows DEF Counted
    <3>4. Counted(accepted) \in Seq(Nat) /\ units \in Seq(Nat) /\ units # <<>>
      <4>1. Counted(accepted) \in Seq(Nat)
        BY <3>2 DEF Counted
      <4>2. units \in Seq(Nat)
        <5>1. Units \subseteq Nat
          BY DEF Units
        <5>2. units \in [1..Len(units) -> Nat]
          BY <3>1, <5>1, LenProperties
        <5> QED BY <3>1, <5>2
      <4>3. units # <<>>
        BY <3>1
      <4> QED BY <4>1, <4>2, <4>3
    <3>5. Stream!IsStrictPrefix(Counted(accepted), Counted(accepted'))
      BY <3>3, <3>4, PrefixOfJoin
    <3>6. Stream!IsStrictPrefix([i \in 1..accepted |-> i], [i \in 1..accepted' |-> i])
      BY <3>5 DEF Counted
    <3> QED BY <1>2, <2>1, <3>2, <3>6 DEF Stream!Accept
  <2>3. CASE kind # "output"
    <3>1. Len(units) = 0 /\ accepted \in Nat
      BY <1>1, <2>3, ArrivalCounts DEF QueueType, SourceType
    <3>2. Unseen
      BY <1>2, <2>1, <3>1 DEF Unseen
    <3> QED BY <3>2, UnseenStutters
  <2> QED BY <2>2, <2>3
<1> QED BY <1>3, <1>4, <1>5, ArrivalCases

\* A take is a Deliver of the stream, its End or a stutter.
LEMMA TakeStreams ==
  ASSUME IInv, Take
  PROVE  Stream!Deliver \/ Stream!End \/ UNCHANGED Stream!vars
<1>1. QueueType /\ StopsHold /\ EpochsHold /\ CommandsHold /\ StreamHolds
  BY InvParts, TypeParts DEF QueueHolds
<1>2. PICK k \in 0..Len(WithCaptureFailure) : TakePendingCommands(k)
  BY <1>1, TakeIsBounded
<1>3. accepting /\ closer = "open" /\ UNCHANGED <<outputStopped, accepting, accepted>>
  BY <1>2 DEF TakePendingCommands, stops, barrier, source, IInv, BarrierHolds
<1> DEFINE exempt == unreserved \cup ({captureFailure} \ {0})
<1>4. PICK a \in Seq(Command), b \in Seq(Command) :
        /\ \A c \in Range(a), d \in Range(b) : c.epoch < d.epoch
        /\ Range(a) \cup Range(b)
             = Queued \cup (IF captureFailure = 0 THEN {} ELSE {CaptureCommand})
        /\ UnitsOf(pending) = Join(UnitsOf(a), UnitsOf(b))
        /\ taken' = Join(taken, UnitsOf(a))
        /\ ended' = (ended \/ ("exit" \in {c.kind : c \in Range(a)} /\ ~outputStopped))
  BY <1>1, <1>2, <1>3, TakeSplits
<1>5. CaptureCommand.kind = "capture" /\ CaptureCommand.units = <<>>
  BY DEF CaptureCommand
<1>6. \A c \in Range(a) \cup Range(b) : c \in Queued \/ c = CaptureCommand
  BY <1>4
<1>7. UnitsOf(a) \in Seq(Units) /\ UnitsOf(b) \in Seq(Units) /\ taken \in Seq(Units)
  BY <1>1, UnitsType DEF QueueType
<1>8. \A c \in Range(a) \cup Range(b) : c.kind # "output" => c.units = <<>>
  BY <1>1, <1>5, <1>6 DEF CommandsHold
<1>9. (\A c \in Range(a) : c.kind # "output") => UnitsOf(a) = <<>>
  <2>1. (\A c \in Range(a) : c.units = <<>>) => UnitsOf(a) = <<>>
    BY InRange, UnitsNone
  <2> QED BY <1>8, <2>1
<1>10. (\A c \in Range(b) : c.kind # "output") => UnitsOf(b) = <<>>
  <2>1. (\A c \in Range(b) : c.units = <<>>) => UnitsOf(b) = <<>>
    BY InRange, UnitsNone
  <2> QED BY <1>8, <2>1
<1>11. CASE outputStopped
  <2>1. UnitsOf(a) = <<>>
    BY <1>1, <1>5, <1>6, <1>9, <1>11 DEF CommandsHold
  <2>2. taken' = taken
    BY <1>4, <1>7, <2>1, EmptyUnits
  <2>3. Unseen
    BY <1>1, <1>3, <1>4, <1>11, <2>2 DEF Unseen, QueueType
  <2> QED BY <2>3, UnseenStutters
<1>12. CASE ~outputStopped
  <2>1. Join(taken', UnitsOf(b)) = Counted(accepted)
    <3>1. Join(Join(taken, UnitsOf(a)), UnitsOf(b)) = Join(taken, UnitsOf(pending))
      BY <1>4, <1>7, JoinAssociative
    <3> QED BY <1>1, <1>3, <1>4, <1>12, <3>1 DEF StreamHolds, Counted
  <2>2. taken' \in Seq(Units)
    BY <1>4, <1>7, ConcatProperties DEF Join
  <2>3. Stream!IsPrefix(taken', Counted(accepted))
    BY <1>7, <2>1, <2>2, PrefixOfJoin
  <2>4. CASE \E c \in Range(a) : c.kind = "exit"
    <3>1. PICK c \in Range(a) : c.kind = "exit"
      BY <2>4
    <3>2. c \in Queued
      BY <1>5, <1>6, <3>1
    <3>3. ~ended /\ ended'
      BY <1>1, <1>4, <1>12, <3>1, <3>2 DEF StopsHold, CommandsHold
    <3>4. ASSUME NEW d \in Range(b) PROVE d.kind # "output"
      <4>1. c.epoch < d.epoch /\ c.epoch \in Nat /\ d.epoch \in Nat
        BY <1>4, InRange
      <4>2. d \in Queued => ~(d.epoch < c.epoch) /\ d # c
        BY <4>1
      <4> QED BY <1>1, <1>5, <1>6, <3>1, <3>2, <4>2 DEF CommandsHold
    <3>5. taken' = Counted(accepted)
      BY <1>10, <2>1, <2>2, <3>4, EmptyUnits
    <3>6. Stream!IsPrefix(taken, Counted(accepted))
      <4>1. Join(taken, UnitsOf(a)) = Counted(accepted)
        BY <1>4, <3>5
      <4> QED BY <1>7, <4>1, PrefixOfJoin
    <3>7. taken' = [i \in 1..accepted |-> i] /\ Stream!IsPrefix(taken, [i \in 1..accepted |-> i])
      BY <3>5, <3>6 DEF Counted
    <3> QED BY <1>3, <1>12, <3>3, <3>7 DEF Stream!End
  <2>5. CASE ~\E c \in Range(a) : c.kind = "exit"
    <3>1. ended' = ended
      BY <1>1, <1>4, <2>5 DEF QueueType
    <3>2. CASE UnitsOf(a) = <<>>
      <4>1. taken' = taken
        BY <1>4, <1>7, <3>2, EmptyUnits
      <4>2. Unseen
        BY <1>3, <3>1, <4>1 DEF Unseen
      <4> QED BY <4>2, UnseenStutters
    <3>3. CASE UnitsOf(a) # <<>>
      <4>1. PICK c \in Range(a) : c.kind = "output"
        BY <1>9, <3>3
      <4>2. ~ended
        BY <1>1, <1>5, <1>6, <4>1 DEF StopsHold, CommandsHold
      <4>3. Stream!IsStrictPrefix(taken, taken')
        BY <1>4, <1>7, <3>3, PrefixOfJoin
      <4>4. Stream!IsPrefix(taken', [i \in 1..accepted |-> i])
        BY <2>3 DEF Counted
      <4> QED BY <1>3, <1>12, <3>1, <4>2, <4>3, <4>4 DEF Stream!Deliver
    <3> QED BY <3>2, <3>3
  <2> QED BY <2>4, <2>5
<1> QED BY <1>11, <1>12

\* Every step of the queue is a step of the stream or a stutter.
LEMMA StreamStep == IInv /\ [Next]_vars => [Stream!Next]_(Stream!vars)
<1> SUFFICES ASSUME IInv, [Next]_vars PROVE [Stream!Next]_(Stream!vars)
  OBVIOUS
<1>1. ASSUME NEW t \in Thread, BackendStep(t) PROVE Unseen
  BY <1>1 DEF BackendStep, BeginCallback, EndCallback, Unseen, stops, source, session
<1>2. CASE CaptureFails \/ CaptureFrontier \/ ReleaseFrontier \/ UNCHANGED vars
  <2>1. Unseen
    BY <1>2 DEF CaptureFails, CaptureFrontier, ReleaseFrontier, vars, Unseen, stops, barrier, source, session
  <2> QED BY <2>1, UnseenStutters
<1>3. CASE Deliver
  BY <1>3, DeliverArrives, ArrivalStreams DEF Stream!Next
<1>4. CASE Take
  BY <1>4, TakeStreams DEF Stream!Next
<1>5. CASE StopBackendOutput
  <2>1. UNCHANGED <<accepted, taken, ended>> /\ outputStopped'
    BY <1>5 DEF StopBackendOutput, source, session
  <2> QED BY <2>1, StoppedCloses DEF Stream!Next
<1>6. CASE Close \/ CloseWakes
  <2>1. UNCHANGED <<accepted, taken, ended>> /\ ~accepting'
    BY <1>6 DEF Close, CloseWakes, source, session, IInv, BarrierHolds
  <2> QED BY <2>1, StoppedCloses DEF Stream!Next
<1> QED BY <1>1, <1>2, <1>3, <1>4, <1>5, <1>6, UnseenStutters DEF Next, SessionStep

(***************************************************************************)
(* The session is given the accepted output from its beginning and in      *)
(* order, and the exit once and after all of it, or the stream is closed.  *)
(***************************************************************************)
THEOREM QueueIsAStream == Spec => ImplementsStream
<1>1. Init => Stream!Init
  BY StreamInit
<1>2. IInv /\ [Next]_vars => [Stream!Next]_(Stream!vars)
  BY StreamStep
<1> QED BY <1>1, <1>2, Invariant, PTL DEF Spec, ImplementsStream, Stream!Spec
=============================================================================
