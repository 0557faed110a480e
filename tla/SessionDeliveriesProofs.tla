------------------------ MODULE SessionDeliveriesProofs ------------------------
(***************************************************************************)
(* For any number of requests: the host is shown one request at a time and *)
(* told its end once, every unpresented request waits where the surface    *)
(* will find it, and a request before the host has its deadline running.   *)
(* The arbitration does not change within the session.                     *)
(*                                                                         *)
(* For any output and any cut of it: the parser answers and comes back to  *)
(* a state of its own, the host's handlers see the deliveries in the order *)
(* of their recording, and the host ends with the last names, the exit and *)
(* the bells, unless the limit of the queue forgot one.                    *)
(*                                                                         *)
(* Four parts: the arbitration (ArbitrationInv), the arbitration within    *)
(* the session, the parser (Answer), and the queue (OrderInv, HostInv).    *)
(***************************************************************************)
EXTENDS SessionDeliveries, SequenceTheorems, FiniteSetTheorems, WellFoundedInduction, TLAPS
-------------------------------------------------------------------------------
(***************************************************************************)
(* The arbitration: what the two queues can hold.                          *)
(***************************************************************************)
\* A settlement of request s, request id, or the one before the other.
OnlySettled(q, s) == q = <<SettledEvent(s)>>
OnlyRequest(q, id) == q = <<Requested(id)>>
Both(q, s, id) == q = <<SettledEvent(s), Requested(id)>>

HasRequest(q, s, id) == OnlyRequest(q, id) \/ Both(q, s, id)
HasSettled(q, s, id) == OnlySettled(q, s) \/ Both(q, s, id)

\* What the queues can hold: the settlement is of the request shown last, and a request
\* on its way is newer.
EventForms == events = <<>> \/ OnlySettled(events, shown) \/ HasRequest(events, shown, armed)
BatchForms ==
    \/ batch = <<>> \/ OnlySettled(batch, shown)
    \/ \E id \in Nat : id > shown /\ id <= armed /\ HasRequest(batch, shown, id)

\* Where the request in progress is.
HoldForms ==
    /\ holding \in {0, armed} /\ shown <= armed
    /\ HasRequest(events, shown, armed) <=> (Held /\ delivery = "QUEUED")
    /\ Held /\ delivery # "PRESENTED" => shown < armed
    /\ Held /\ delivery = "CLAIMABLE" => HasRequest(batch, shown, armed)
    /\ Presented => shown = holding /\ events = <<>> /\ batch = <<>>

BatchHasSettled == OnlySettled(batch, shown) \/ \E id \in Nat : Both(batch, shown, id)

\* What the host has still to be told.
Untold ==
    /\ told # shown <=> (Presented \/ HasSettled(events, shown, armed) \/ BatchHasSettled)
    /\ HasSettled(events, shown, armed) => batch = <<>>
    /\ told = shown => ~timer
    /\ Presented => timer = timeout

ArbitrationInv == TypeOK /\ EventForms /\ BatchForms /\ HoldForms /\ Untold

\* Events are told apart by kind and id.
LEMMA Distinct ==
    ASSUME NEW i \in Nat, NEW j \in Nat
    PROVE  /\ Requested(i) # SettledEvent(j)
           /\ Requested(i) = Requested(j) <=> i = j
           /\ Requested(i) \in Event /\ SettledEvent(i) \in Event
           /\ Requested(i).kind = "REQUESTED" /\ SettledEvent(i).kind = "SETTLED"
           /\ Requested(i).id = i /\ SettledEvent(i).id = i
  BY DEF Requested, SettledEvent, Event

\* What Append does, at the type of the queues.
LEMMA Appended ==
    ASSUME NEW z \in Seq(Event), NEW r \in Event
    PROVE  /\ Append(z, r) \in Seq(Event) /\ Len(Append(z, r)) = Len(z) + 1
           /\ \A i \in 1..Len(z) : Append(z, r)[i] = z[i]
           /\ Append(z, r)[Len(z) + 1] = r
  BY AppendProperties

\* What the queue operations make of the forms.
LEMMA Queues ==
    ASSUME NEW s \in Event, NEW r \in Event
    PROVE  /\ <<s>> # <<>> /\ <<s, r>> # <<>> /\ <<s>> # <<s, r>> /\ <<r>> # <<s, r>>
           /\ Len(<<s>>) = 1 /\ Len(<<s, r>>) = 2
           /\ <<s>>[1] = s /\ <<s, r>>[1] = s /\ <<s, r>>[2] = r
           /\ Head(<<s>>) = s /\ Tail(<<s>>) = <<>>
           /\ Head(<<s, r>>) = s /\ Tail(<<s, r>>) = <<r>>
           /\ Append(<<>>, s) = <<s>> /\ Append(<<s>>, r) = <<s, r>>
           /\ SubSeq(<<s>>, 1, 0) = <<>> /\ SubSeq(<<s, r>>, 1, 1) = <<s>>
           /\ <<s>> \in Seq(Event) /\ <<s, r>> \in Seq(Event)
  <1>1. Len(<<s>>) = 1 /\ Len(<<s, r>>) = 2 /\ Len(<<>>) = 0 /\ Len(<<r>>) = 1
    OBVIOUS
  <1>2. <<s>> # <<>> /\ <<s, r>> # <<>> /\ <<s>> # <<s, r>> /\ <<r>> # <<s, r>>
    BY <1>1
  <1>3. <<s>>[1] = s /\ <<s, r>>[1] = s /\ <<s, r>>[2] = r
    OBVIOUS
  <1>4. <<s>> \in Seq(Event) /\ <<s, r>> \in Seq(Event) /\ <<r>> \in Seq(Event) /\ <<>> \in Seq(Event)
    OBVIOUS
  <1>5. Head(<<s>>) = s /\ Head(<<s, r>>) = s
    OBVIOUS
  <1>6. Tail(<<s>>) = <<>>
    OBVIOUS
  <1>7. Tail(<<s, r>>) = <<r>>
    <2> DEFINE q == <<s, r>>
    <2> DEFINE z == <<r>>
    <2>1. q \in Seq(Event) /\ z \in Seq(Event) /\ q # <<>> /\ Len(q) = 2 /\ Len(z) = 1
          /\ z[1] = r /\ q[2] = r
      BY <1>1, <1>2, <1>4
    <2> HIDE DEF q, z
    <2>2. /\ Tail(q) \in Seq(Event) /\ Len(Tail(q)) = Len(q) - 1
          /\ \A i \in 1..Len(Tail(q)) : Tail(q)[i] = q[i + 1]
      BY <2>1, HeadTailProperties
    <2>3. Len(Tail(q)) = 1 /\ \A i \in 1..1 : Tail(q)[i] = z[i]
      BY <2>1, <2>2
    <2>4. Tail(q) = z
      BY <2>1, <2>2, <2>3, SeqEqual
    <2> QED
      BY <2>4 DEF q, z
  <1>8. Append(<<>>, s) = <<s>> /\ Append(<<s>>, r) = <<s, r>>
    <2> DEFINE z == <<s>>
    <2> DEFINE q == <<s, r>>
    <2>1. /\ z \in Seq(Event) /\ Len(z) = 1 /\ z[1] = s
          /\ q \in Seq(Event) /\ Len(q) = 2 /\ q[1] = s /\ q[2] = r
      BY <1>1, <1>3, <1>4
    <2>2. <<>> \in Seq(Event) /\ Len(<<>>) = 0
      BY <1>1, <1>4
    <2> HIDE DEF q, z
    <2>3. /\ Append(<<>>, s) \in Seq(Event) /\ Len(Append(<<>>, s)) = 1
          /\ Append(<<>>, s)[1] = s
      BY <2>2, AppendProperties
    <2>4. /\ Append(z, r) \in Seq(Event) /\ Len(Append(z, r)) = 2
          /\ Append(z, r)[1] = s /\ Append(z, r)[2] = r
      <3>1. /\ Append(z, r) \in Seq(Event) /\ Len(Append(z, r)) = Len(z) + 1
            /\ \A i \in 1..Len(z) : Append(z, r)[i] = z[i]
            /\ Append(z, r)[Len(z) + 1] = r
        BY <2>1, Appended
      <3>2. Append(z, r)[1] = z[1]
        BY <2>1, <3>1
      <3>3. Append(z, r)[2] = r
        BY <2>1, <3>1
      <3> QED
        BY <2>1, <3>1, <3>2, <3>3
    <2>5. (\A i \in 1..1 : Append(<<>>, s)[i] = z[i]) /\ (\A i \in 1..2 : Append(z, r)[i] = q[i])
      BY <2>1, <2>3, <2>4
    <2>6. Append(<<>>, s) = z
      BY <2>1, <2>3, <2>5, SeqEqual
    <2>7. Append(z, r) = q
      BY <2>1, <2>4, <2>5, SeqEqual
    <2> QED
      BY <2>6, <2>7 DEF q, z
  <1>9. SubSeq(<<s>>, 1, 0) = <<>>
    BY SubSeqEmpty
  <1>10. SubSeq(<<s, r>>, 1, 1) = <<s>>
    <2> DEFINE q == <<s, r>>
    <2> DEFINE z == <<s>>
    <2>1. z \in Seq(Event) /\ Len(z) = 1 /\ z[1] = s /\ q[1] = s
      BY <1>1, <1>3, <1>4
    <2> HIDE DEF q, z
    <2>2. \A i \in 1..1 : q[i] \in Event
      BY <2>1
    <2>3. /\ SubSeq(q, 1, 1) \in Seq(Event) /\ Len(SubSeq(q, 1, 1)) = 1
          /\ \A i \in 1..1 : SubSeq(q, 1, 1)[i] = q[1 + i - 1]
      BY <2>2, SubSeqProperties
    <2>4. \A i \in 1..1 : SubSeq(q, 1, 1)[i] = z[i]
      BY <2>1, <2>3
    <2>5. SubSeq(q, 1, 1) = z
      BY <2>1, <2>3, <2>4, SeqEqual
    <2> QED
      BY <2>5 DEF q, z
  <1> QED
    BY <1>1, <1>2, <1>3, <1>4, <1>5, <1>6, <1>7, <1>8, <1>9, <1>10

\* The forms of a queue exclude each other and name their request.
LEMMA Exclusive ==
    ASSUME NEW q, NEW s \in Nat, NEW i \in Nat, NEW j \in Nat
    PROVE  /\ q = <<>> => ~OnlySettled(q, s) /\ ~OnlyRequest(q, i) /\ ~Both(q, s, i)
           /\ OnlySettled(q, s) => ~OnlyRequest(q, i) /\ ~Both(q, s, i)
           /\ OnlyRequest(q, i) => ~Both(q, s, j)
           /\ OnlyRequest(q, i) /\ OnlyRequest(q, j) => i = j
           /\ Both(q, s, i) /\ Both(q, s, j) => i = j
  <1> DEFINE t == SettledEvent(s)
  <1> DEFINE r == Requested(i)
  <1> DEFINE u == Requested(j)
  <1>1. t \in Event /\ r \in Event /\ u \in Event /\ r # t /\ u # t /\ (r = u <=> i = j)
    BY Distinct
  <1> HIDE DEF t, r, u
  <1>2. <<t>> # <<>> /\ <<t, r>> # <<>> /\ <<r>> # <<>> /\ <<t>> # <<t, r>>
    BY <1>1, Queues
  <1>3. <<t>> # <<r>> /\ <<r>> # <<t, u>>
    BY <1>1, Queues
  <1>4. (<<r>> = <<u>> => r = u) /\ (<<t, r>> = <<t, u>> => r = u)
    BY <1>1, Queues
  <1> QED
    BY <1>1, <1>2, <1>3, <1>4 DEF t, r, u, OnlySettled, OnlyRequest, Both

\* What a queue in one of its forms gives up, and what it becomes.
LEMMA FormSteps ==
    ASSUME NEW q, NEW s \in Nat, NEW id \in Nat
    PROVE  /\ OnlySettled(q, s) => /\ q \in Seq(Event) /\ Len(q) = 1
                                   /\ Both(Append(q, Requested(id)), s, id)
                                   /\ Head(q) = SettledEvent(s) /\ Tail(q) = <<>>
                                   /\ q[Len(q)] = SettledEvent(s)
           /\ OnlyRequest(q, id) => /\ q \in Seq(Event) /\ Len(q) = 1
                                    /\ Head(q) = Requested(id) /\ Tail(q) = <<>>
                                    /\ q[Len(q)] = Requested(id)
                                    /\ SubSeq(q, 1, Len(q) - 1) = <<>>
           /\ Both(q, s, id) => /\ q \in Seq(Event) /\ Len(q) = 2
                                /\ Head(q) = SettledEvent(s) /\ OnlyRequest(Tail(q), id)
                                /\ q[Len(q)] = Requested(id)
                                /\ OnlySettled(SubSeq(q, 1, Len(q) - 1), s)
           /\ OnlyRequest(Append(<<>>, Requested(id)), id)
           /\ OnlySettled(Append(<<>>, SettledEvent(s)), s)
  <1> DEFINE t == SettledEvent(s)
  <1> DEFINE r == Requested(id)
  <1>1. t \in Event /\ r \in Event
    BY Distinct
  <1> HIDE DEF t, r
  <1>2. /\ Len(<<t>>) = 1 /\ <<t>>[1] = t /\ <<t>> \in Seq(Event) /\ Head(<<t>>) = t
        /\ Tail(<<t>>) = <<>> /\ Append(<<t>>, r) = <<t, r>> /\ Append(<<>>, t) = <<t>>
    BY <1>1, Queues
  <1>3. /\ Len(<<r>>) = 1 /\ <<r>>[1] = r /\ <<r>> \in Seq(Event) /\ Head(<<r>>) = r
        /\ Tail(<<r>>) = <<>> /\ SubSeq(<<r>>, 1, 0) = <<>> /\ Append(<<>>, r) = <<r>>
    BY <1>1, Queues
  <1>4. /\ Len(<<t, r>>) = 2 /\ <<t, r>>[2] = r /\ <<t, r>> \in Seq(Event)
        /\ Head(<<t, r>>) = t /\ Tail(<<t, r>>) = <<r>> /\ SubSeq(<<t, r>>, 1, 1) = <<t>>
    BY <1>1, Queues
  <1>5. ASSUME q = <<t>>
        PROVE  /\ q \in Seq(Event) /\ Len(q) = 1 /\ Append(q, r) = <<t, r>>
               /\ Head(q) = t /\ Tail(q) = <<>> /\ q[Len(q)] = t
    BY <1>2, <1>5
  <1>6. ASSUME q = <<r>>
        PROVE  /\ q \in Seq(Event) /\ Len(q) = 1 /\ Head(q) = r /\ Tail(q) = <<>>
               /\ q[Len(q)] = r /\ SubSeq(q, 1, Len(q) - 1) = <<>>
    BY <1>3, <1>6
  <1>7. ASSUME q = <<t, r>>
        PROVE  /\ q \in Seq(Event) /\ Len(q) = 2 /\ Head(q) = t /\ Tail(q) = <<r>>
               /\ q[Len(q)] = r /\ SubSeq(q, 1, Len(q) - 1) = <<t>>
    BY <1>4, <1>7
  <1> QED
    BY <1>2, <1>3, <1>5, <1>6, <1>7 DEF t, r, OnlySettled, OnlyRequest, Both
-------------------------------------------------------------------------------
LEMMA InitArbitration == Init => ArbitrationInv
  <1> SUFFICES ASSUME Init PROVE ArbitrationInv
    OBVIOUS
  <1> USE DEF Init, Held, Presented
  <1>1. TypeOK
    <2>1. <<>> \in Seq(Event) /\ Len(<<>>) = 0
      OBVIOUS
    <2>2. events \in Seq(Event) /\ batch \in Seq(Event) /\ Len(events) <= 2
      BY <2>1
    <2>3. timeout \in BOOLEAN /\ timer \in BOOLEAN
      OBVIOUS
    <2>4. /\ holding \in Nat /\ armed \in Nat /\ changes \in Nat /\ shown \in Nat /\ told \in Nat
          /\ delivery \in {"QUEUED", "CLAIMABLE", "PRESENTED"}
      OBVIOUS
    <2> QED
      BY <2>2, <2>3, <2>4 DEF TypeOK
  <1>2. \A id \in Nat : /\ ~OnlySettled(<<>>, 0) /\ ~OnlyRequest(<<>>, id) /\ ~Both(<<>>, 0, id)
    BY Exclusive
  <1>3. EventForms /\ BatchForms
    BY DEF EventForms, BatchForms
  <1>4. HoldForms
    BY <1>2 DEF HoldForms, HasRequest
  <1>5. Untold
    BY <1>2 DEF Untold, HasSettled, BatchHasSettled
  <1> QED
    BY <1>1, <1>3, <1>4, <1>5 DEF ArbitrationInv

\* A new request stands alone or behind the settlement of the last one.
LEMMA ArmStep == ArbitrationInv /\ Arm => ArbitrationInv'
  <1> SUFFICES ASSUME ArbitrationInv, Arm PROVE ArbitrationInv'
    OBVIOUS
  <1> DEFINE n == armed + 1
  <1>1. /\ TypeOK /\ EventForms /\ BatchForms /\ HoldForms /\ Untold
        /\ ~Held /\ armed' = n /\ holding' = n /\ delivery' = "QUEUED"
        /\ events' = Append(events, Requested(n))
        /\ UNCHANGED <<batch, timeout, timer, changes, shown, told>>
    BY DEF ArbitrationInv, Arm, deadline, host
  <1>2. armed \in Nat /\ n \in Nat /\ shown \in Nat /\ shown <= armed
    BY <1>1 DEF TypeOK, HoldForms
  <1>3. ~Presented /\ ~HasRequest(events, shown, armed)
    BY <1>1 DEF Presented, HoldForms
  <1>4. CASE events = <<>>
    <2>1. OnlyRequest(events', n)
      BY <1>1, <1>2, <1>4, FormSteps
    <2>2. /\ ~Both(events', shown, n) /\ ~OnlySettled(events', shown)
          /\ events' \in Seq(Event) /\ Len(events') = 1
      BY <2>1, <1>2, Exclusive, FormSteps
    <2>3. ~OnlySettled(events, shown) /\ ~Both(events, shown, armed)
      BY <1>4, <1>2, Exclusive
    <2> QED
      BY <2>1, <2>2, <2>3, <1>1, <1>2, <1>3
      DEF ArbitrationInv, TypeOK, EventForms, BatchForms, HoldForms, Untold, HasRequest,
          HasSettled, BatchHasSettled, Held, Presented
  <1>5. CASE OnlySettled(events, shown)
    <2>1. Both(events', shown, n)
      BY <1>1, <1>2, <1>5, FormSteps
    <2>2. events' \in Seq(Event) /\ Len(events') = 2
      BY <2>1, <1>2, FormSteps
    <2> QED
      BY <2>1, <2>2, <1>1, <1>2, <1>3, <1>5
      DEF ArbitrationInv, TypeOK, EventForms, BatchForms, HoldForms, Untold, HasRequest,
          HasSettled, BatchHasSettled, Held, Presented
  <1> QED
    BY <1>1, <1>3, <1>4, <1>5 DEF EventForms

\* The end of a hold withdraws what the surface has not taken, and reports what the host
\* was shown.
LEMMA ReleaseStep ==
    ASSUME ArbitrationInv, Held, Release, timer' \in {timer, FALSE},
           UNCHANGED <<batch, timeout, changes, shown, told>>
    PROVE  ArbitrationInv'
  <1>1. /\ TypeOK /\ EventForms /\ BatchForms /\ HoldForms /\ Untold
        /\ holding' = 0 /\ delivery' = delivery /\ armed' = armed
        /\ events' = IF Presented THEN Append(events, SettledEvent(holding)) ELSE Withdrawn
    BY DEF ArbitrationInv, Release
  <1>2. /\ armed \in Nat /\ shown \in Nat /\ shown <= armed /\ holding = armed
        /\ ~Held' /\ ~Presented'
    BY <1>1 DEF TypeOK, HoldForms, Held, Presented
  <1>3. CASE Presented
    <2>1. /\ holding = shown /\ events = <<>> /\ batch = <<>> /\ told # shown
          /\ events' = Append(<<>>, SettledEvent(shown))
      BY <1>1, <1>3 DEF HoldForms, Untold
    <2>2. OnlySettled(events', shown)
      BY <2>1, <1>2, FormSteps
    <2>3. /\ ~OnlyRequest(events', armed) /\ ~Both(events', shown, armed)
          /\ events' \in Seq(Event) /\ Len(events') = 1
      BY <2>2, <1>2, Exclusive, FormSteps
    <2>4. TypeOK'
      <3>1. events' \in Seq(Event) /\ Len(events') <= 2
        BY <2>2, <2>3
      <3>2. timer' \in BOOLEAN
        BY <1>1 DEF TypeOK
      <3> QED
        BY <3>1, <3>2, <1>1 DEF TypeOK
    <2>5. EventForms' /\ BatchForms'
      BY <2>1, <2>2, <2>3, <1>1, <1>2 DEF EventForms, BatchForms
    <2>6. HoldForms'
      BY <2>1, <2>2, <2>3, <1>1, <1>2 DEF HoldForms, HasRequest
    <2>7. Untold'
      <3>1. BatchHasSettled' <=> BatchHasSettled
        BY DEF BatchHasSettled
      <3>2. told = shown => ~timer'
        BY <1>1 DEF Untold
      <3> QED
        BY <3>1, <3>2, <2>1, <2>2, <2>3, <1>1, <1>2 DEF Untold, HasSettled
    <2> QED
      BY <2>4, <2>5, <2>6, <2>7 DEF ArbitrationInv
  <1>4. CASE ~Presented
    <2>1. events' = Withdrawn
      BY <1>1, <1>4
    <2>2. /\ events' \in Seq(Event) /\ Len(events') <= 2
          /\ events' = <<>> \/ OnlySettled(events', shown)
          /\ OnlySettled(events', shown) <=> HasSettled(events, shown, armed)
      <3>1. CASE events = <<>>
        <4>1. events' = <<>>
          BY <3>1, <2>1 DEF Withdrawn
        <4>2. ~OnlySettled(<<>>, shown) /\ ~Both(<<>>, shown, armed)
          BY <1>2, Exclusive
        <4> QED
          BY <3>1, <4>1, <4>2 DEF HasSettled
      <3>2. CASE OnlySettled(events, shown)
        <4>1. events \in Seq(Event) /\ Len(events) = 1 /\ events[Len(events)] = SettledEvent(shown)
          BY <3>2, <1>2, FormSteps
        <4>2. events' = events
          BY <4>1, <2>1, <1>2, Distinct DEF Withdrawn
        <4>3. OnlySettled(events', shown) /\ HasSettled(events, shown, armed)
          BY <3>2, <4>2 DEF HasSettled
        <4>4. events' \in Seq(Event) /\ Len(events') = 1
          BY <4>1, <4>2
        <4> QED
          BY <4>3, <4>4
      <3>3. CASE OnlyRequest(events, armed)
        <4>1. /\ events[Len(events)] = Requested(holding) /\ SubSeq(events, 1, Len(events) - 1) = <<>>
              /\ events # <<>>
          BY <3>3, <1>2, FormSteps, Exclusive
        <4>2. events' = <<>>
          BY <4>1, <2>1 DEF Withdrawn
        <4>3. ~OnlySettled(<<>>, shown) /\ ~HasSettled(events, shown, armed)
          BY <3>3, <1>2, Exclusive DEF HasSettled
        <4> QED
          BY <4>2, <4>3
      <3>4. CASE Both(events, shown, armed)
        <4>1. /\ events[Len(events)] = Requested(holding)
              /\ OnlySettled(SubSeq(events, 1, Len(events) - 1), shown)
              /\ events # <<>>
          BY <3>4, <1>2, FormSteps, Exclusive
        <4>2. OnlySettled(events', shown)
          BY <4>1, <2>1 DEF Withdrawn
        <4>3. events' \in Seq(Event) /\ Len(events') = 1
          BY <4>2, <1>2, FormSteps
        <4> QED
          BY <3>4, <4>2, <4>3 DEF HasSettled
      <3> QED
        BY <3>1, <3>2, <3>3, <3>4, <1>1 DEF EventForms, HasRequest
    <2>3. ~OnlyRequest(events', armed) /\ ~Both(events', shown, armed)
      BY <2>2, <1>2, Exclusive
    <2>4. TypeOK'
      <3>1. events' \in Seq(Event) /\ Len(events') <= 2
        BY <2>2, <2>3
      <3>2. timer' \in BOOLEAN
        BY <1>1 DEF TypeOK
      <3> QED
        BY <3>1, <3>2, <1>1 DEF TypeOK
    <2>5. EventForms' /\ BatchForms'
      BY <2>2, <2>3, <1>1, <1>2, <1>4 DEF EventForms, BatchForms
    <2>6. HoldForms'
      BY <2>2, <2>3, <1>1, <1>2, <1>4 DEF HoldForms, HasRequest
    <2>7. Untold'
      <3>1. BatchHasSettled' <=> BatchHasSettled
        BY DEF BatchHasSettled
      <3>2. told = shown => ~timer'
        BY <1>1 DEF Untold
      <3> QED
        BY <3>1, <3>2, <2>2, <2>3, <1>1, <1>2, <1>4 DEF Untold, HasSettled
    <2> QED
      BY <2>4, <2>5, <2>6, <2>7 DEF ArbitrationInv
  <1> QED
    BY <1>3, <1>4

\* What waits moves to the batch as it stands; a request on its way becomes claimable.
LEMMA TakeStep == ArbitrationInv /\ TakeDeliveries => ArbitrationInv'
  <1> SUFFICES ASSUME ArbitrationInv, TakeDeliveries PROVE ArbitrationInv'
    OBVIOUS
  <1>1. /\ TypeOK /\ EventForms /\ BatchForms /\ HoldForms /\ Untold
        /\ batch = <<>> /\ batch' = events /\ events' = <<>> /\ delivery' = Claim
        /\ UNCHANGED <<holding, armed, timeout, timer, changes, shown, told>>
    BY DEF ArbitrationInv, TakeDeliveries, deadline, host
  <1>2. armed \in Nat /\ shown \in Nat /\ shown <= armed /\ (Held => holding = armed)
    BY <1>1 DEF TypeOK, HoldForms, Held
  <1>3. \A id \in Nat : /\ ~OnlySettled(<<>>, shown) /\ ~OnlyRequest(<<>>, id)
                        /\ ~Both(<<>>, shown, id)
    BY <1>2, Exclusive
  <1>4. ~BatchHasSettled
    BY <1>1, <1>3 DEF BatchHasSettled
  <1>5. BatchHasSettled' <=> HasSettled(events, shown, armed)
    <2>1. BatchHasSettled' <=> OnlySettled(events, shown) \/ \E id \in Nat : Both(events, shown, id)
      BY <1>1 DEF BatchHasSettled
    <2>2. ASSUME NEW id \in Nat, Both(events, shown, id) PROVE Both(events, shown, armed)
      BY <2>2, <1>1, <1>2, <1>3, Exclusive DEF EventForms, HasRequest
    <2> QED
      BY <2>1, <2>2, <1>2 DEF HasSettled
  <1>6. /\ HasRequest(events, shown, armed) => Held /\ delivery' = "CLAIMABLE"
        /\ ~(Held /\ delivery' = "QUEUED")
        /\ Held /\ delivery' = "CLAIMABLE" =>
             delivery = "CLAIMABLE" \/ HasRequest(events, shown, armed)
        /\ delivery' = "PRESENTED" <=> delivery = "PRESENTED"
        /\ delivery' \in {"QUEUED", "CLAIMABLE", "PRESENTED"}
    <2>1. HasRequest(events, shown, armed) => events # <<>> /\ events[Len(events)] = Requested(armed)
      BY <1>2, FormSteps, Exclusive DEF HasRequest
    <2>2. HasRequest(events, shown, armed) <=> Held /\ delivery = "QUEUED"
      BY <1>1 DEF HoldForms
    <2> QED
      BY <2>1, <2>2, <1>1, <1>2 DEF Claim, TypeOK
  <1>7. TypeOK'
    <2>1. events' \in Seq(Event) /\ Len(events') = 0 /\ batch' \in Seq(Event)
      BY <1>1 DEF TypeOK
    <2> QED
      BY <2>1, <1>1, <1>6 DEF TypeOK
  <1>8. EventForms' /\ BatchForms'
    <2>1. HasRequest(events, shown, armed) => armed > shown
      BY <1>1, <1>2 DEF HoldForms
    <2> QED
      BY <2>1, <1>1, <1>2 DEF EventForms, BatchForms
  <1>9. HoldForms'
    <2>1. ~(Held /\ delivery = "CLAIMABLE")
      BY <1>1, <1>2, <1>3 DEF HoldForms, HasRequest
    <2>2. Presented' <=> Presented
      BY <1>1, <1>6 DEF Presented, Held
    <2>3. ~HasRequest(events, shown, armed)' /\ ~(Held /\ delivery = "QUEUED")'
      BY <1>1, <1>2, <1>3, <1>6 DEF HasRequest, Held
    <2>4. (Held /\ delivery = "CLAIMABLE")' => HasRequest(batch, shown, armed)'
      BY <2>1, <1>1, <1>6 DEF Held
    <2>5. (Held /\ delivery # "PRESENTED")' => shown' < armed'
      BY <1>1, <1>6 DEF Held, HoldForms
    <2> QED
      BY <2>2, <2>3, <2>4, <2>5, <1>1 DEF HoldForms
  <1>10. Untold'
    <2>1. Presented' <=> Presented
      BY <1>1, <1>6 DEF Presented, Held
    <2>2. ~HasSettled(events, shown, armed)'
      BY <1>1, <1>2, <1>3 DEF HasSettled
    <2> QED
      BY <2>1, <2>2, <1>1, <1>4, <1>5 DEF Untold
  <1> QED
    BY <1>7, <1>8, <1>9, <1>10 DEF ArbitrationInv

\* What a replayed event can be: a settlement of the request shown last, or a request
\* newer than it with nothing behind it.
LEMMA HeadOfBatch ==
    ASSUME ArbitrationInv, batch # <<>>
    PROVE  /\ armed \in Nat /\ shown \in Nat /\ shown <= armed /\ (Held => holding = armed)
           /\ ~Presented /\ ~HasSettled(events, shown, armed)
           /\ Tail(batch) \in Seq(Event)
           /\ Head(batch).kind = "SETTLED" =>
                /\ Head(batch).id = shown /\ BatchHasSettled
                /\ \/ Tail(batch) = <<>> /\ OnlySettled(batch, shown)
                   \/ \E id \in Nat : /\ id > shown /\ id <= armed
                                       /\ Both(batch, shown, id) /\ OnlyRequest(Tail(batch), id)
           /\ Head(batch).kind = "REQUESTED" =>
                /\ Tail(batch) = <<>> /\ ~BatchHasSettled
                /\ OnlyRequest(batch, Head(batch).id)
                /\ Head(batch).id \in Nat /\ Head(batch).id > shown /\ Head(batch).id <= armed
  <1>1. TypeOK /\ BatchForms /\ HoldForms /\ Untold
    BY DEF ArbitrationInv
  <1>2. armed \in Nat /\ shown \in Nat /\ shown <= armed /\ (Held => holding = armed)
    BY <1>1 DEF TypeOK, HoldForms, Held
  <1>3. ~Presented /\ ~HasSettled(events, shown, armed)
    BY <1>1 DEF HoldForms, Untold
  <1>4. /\ SettledEvent(shown).kind = "SETTLED" /\ SettledEvent(shown).id = shown
        /\ <<>> \in Seq(Event)
    BY <1>2, Distinct
  <1>5. CASE OnlySettled(batch, shown)
    <2>1. Head(batch) = SettledEvent(shown) /\ Tail(batch) = <<>> /\ BatchHasSettled
      BY <1>5, <1>2, FormSteps DEF BatchHasSettled
    <2> QED
      BY <2>1, <1>2, <1>3, <1>4, <1>5
  <1>6. ASSUME NEW id \in Nat, id > shown, id <= armed, OnlyRequest(batch, id)
        PROVE  /\ Head(batch) = Requested(id) /\ Head(batch).kind = "REQUESTED"
               /\ Head(batch).id = id /\ Tail(batch) = <<>> /\ ~BatchHasSettled
    <2>1. Head(batch) = Requested(id) /\ Tail(batch) = <<>>
      BY <1>6, <1>2, FormSteps
    <2>2. ~OnlySettled(batch, shown) /\ \A j \in Nat : ~Both(batch, shown, j)
      BY <1>6, <1>2, Exclusive
    <2> QED
      BY <2>1, <2>2, Distinct DEF BatchHasSettled
  <1>7. ASSUME NEW id \in Nat, id > shown, id <= armed, Both(batch, shown, id)
        PROVE  /\ Head(batch) = SettledEvent(shown) /\ OnlyRequest(Tail(batch), id)
               /\ BatchHasSettled /\ Tail(batch) \in Seq(Event)
    <2>1. Head(batch) = SettledEvent(shown) /\ OnlyRequest(Tail(batch), id)
      BY <1>7, <1>2, FormSteps
    <2> QED
      BY <2>1, <1>2, <1>7, FormSteps DEF BatchHasSettled
  <1>8. ASSUME NEW id \in Nat, id > shown, id <= armed, HasRequest(batch, shown, id)
        PROVE  /\ Tail(batch) \in Seq(Event)
               /\ Head(batch).kind = "SETTLED" =>
                    /\ Head(batch).id = shown /\ BatchHasSettled
                    /\ Both(batch, shown, id) /\ OnlyRequest(Tail(batch), id)
               /\ Head(batch).kind = "REQUESTED" =>
                    /\ Tail(batch) = <<>> /\ ~BatchHasSettled
                    /\ OnlyRequest(batch, id) /\ Head(batch).id = id
    <2>1. CASE OnlyRequest(batch, id)
      BY <2>1, <1>4, <1>6, <1>8
    <2>2. CASE Both(batch, shown, id)
      BY <2>2, <1>4, <1>7, <1>8
    <2> QED
      BY <2>1, <2>2, <1>8 DEF HasRequest
  <1>9. CASE \E id \in Nat : id > shown /\ id <= armed /\ HasRequest(batch, shown, id)
    <2>1. PICK id \in Nat : id > shown /\ id <= armed /\ HasRequest(batch, shown, id)
      BY <1>9
    <2> QED
      BY <2>1, <1>2, <1>3, <1>8
  <1> QED
    BY <1>1, <1>5, <1>9 DEF BatchForms

\* A request is presented when everything before it was told, and nothing else waits.
LEMMA PresentStep ==
    ASSUME ArbitrationInv, PresentRequest
    PROVE  ArbitrationInv' /\ told = shown /\ shown' > shown /\ told' = told
  <1>1. /\ TypeOK /\ EventForms /\ HoldForms /\ Untold
        /\ batch # <<>> /\ Head(batch).kind = "REQUESTED"
        /\ Held /\ holding = Head(batch).id /\ delivery = "CLAIMABLE"
        /\ batch' = Tail(batch) /\ delivery' = "PRESENTED" /\ timer' = (timeout \/ timer)
        /\ shown' = Head(batch).id
        /\ UNCHANGED <<holding, armed, events, timeout, changes, told>>
    BY DEF ArbitrationInv, PresentRequest, MayPresent
  <1>2. /\ armed \in Nat /\ shown \in Nat /\ holding = armed /\ shown < armed
        /\ ~Presented /\ ~HasSettled(events, shown, armed) /\ ~BatchHasSettled
        /\ batch' = <<>> /\ shown' = armed
    BY <1>1, HeadOfBatch
  <1>3. told = shown /\ ~timer
    BY <1>1, <1>2 DEF Untold
  <1>4. events = <<>>
    BY <1>1, <1>2 DEF EventForms, HoldForms, HasSettled
  <1>5. \A id \in Nat : /\ ~OnlySettled(<<>>, armed) /\ ~OnlyRequest(<<>>, id)
                        /\ ~Both(<<>>, armed, id)
    BY <1>2, Exclusive
  <1>6. Presented' /\ Held'
    BY <1>1 DEF Presented, Held
  <1>7. TypeOK'
    <2>1. events' \in Seq(Event) /\ batch' \in Seq(Event) /\ Len(events') <= 2
      BY <1>1, <1>2 DEF TypeOK
    <2>2. timer' = timeout
      BY <1>1, <1>3 DEF TypeOK
    <2> QED
      BY <2>1, <2>2, <1>1, <1>2 DEF TypeOK
  <1>8. EventForms' /\ BatchForms'
    BY <1>1, <1>2, <1>4 DEF EventForms, BatchForms
  <1>9. HoldForms'
    BY <1>1, <1>2, <1>4, <1>5, <1>6 DEF HoldForms, HasRequest
  <1>10. Untold'
    <2>1. timer' = timeout
      BY <1>1, <1>3 DEF TypeOK
    <2>2. ~HasSettled(events, shown, armed)'
      BY <1>1, <1>2, <1>4, <1>5 DEF HasSettled
    <2>3. told' # shown'
      BY <1>1, <1>2, <1>3
    <2> QED
      BY <2>1, <2>2, <2>3, <1>1, <1>6 DEF Untold
  <1> QED
    BY <1>1, <1>2, <1>3, <1>7, <1>8, <1>9, <1>10 DEF ArbitrationInv

\* A request that is skipped is no longer the one the session holds.
LEMMA SkipStep == ArbitrationInv /\ SkipRequest => ArbitrationInv'
  <1> SUFFICES ASSUME ArbitrationInv, SkipRequest PROVE ArbitrationInv'
    OBVIOUS
  <1>1. /\ TypeOK /\ EventForms /\ HoldForms /\ Untold
        /\ batch # <<>> /\ Head(batch).kind = "REQUESTED" /\ ~MayPresent(Head(batch).id)
        /\ batch' = Tail(batch)
        /\ UNCHANGED <<holding, delivery, armed, events, timeout, timer, changes>>
        /\ UNCHANGED <<shown, told>>
    BY DEF ArbitrationInv, SkipRequest, session, deadline, host
  <1>2. /\ armed \in Nat /\ shown \in Nat /\ (Held => holding = armed)
        /\ ~Presented /\ ~BatchHasSettled /\ batch' = <<>>
        /\ OnlyRequest(batch, Head(batch).id) /\ Head(batch).id \in Nat
    BY <1>1, HeadOfBatch
  <1>3. ~(Held /\ delivery = "CLAIMABLE")
    <2>1. ASSUME HasRequest(batch, shown, armed) PROVE Head(batch).id = armed
      BY <2>1, <1>2, Exclusive DEF HasRequest
    <2> QED
      BY <2>1, <1>1, <1>2 DEF HoldForms, MayPresent
  <1>4. ~Presented' /\ (Held' <=> Held)
    BY <1>1, <1>2 DEF Presented, Held
  <1>5. ~BatchHasSettled'
    BY <1>1, <1>2, Exclusive DEF BatchHasSettled
  <1>6. TypeOK'
    BY <1>1, <1>2 DEF TypeOK
  <1>7. EventForms' /\ BatchForms' /\ HoldForms'
    BY <1>1, <1>2, <1>3, <1>4 DEF EventForms, BatchForms, HoldForms
  <1>8. Untold'
    BY <1>1, <1>2, <1>4, <1>5 DEF Untold
  <1> QED
    BY <1>6, <1>7, <1>8 DEF ArbitrationInv

\* A settlement that is told is of the request shown last, and was not told before.
LEMMA ReportStep ==
    ASSUME ArbitrationInv, ReportSettlement
    PROVE  ArbitrationInv' /\ told # shown /\ told' = shown /\ shown' = shown
  <1>1. /\ TypeOK /\ EventForms /\ HoldForms /\ Untold
        /\ batch # <<>> /\ Head(batch).kind = "SETTLED"
        /\ batch' = Tail(batch) /\ timer' = FALSE /\ told' = Head(batch).id
        /\ UNCHANGED <<holding, delivery, armed, events, timeout, changes, shown>>
    BY DEF ArbitrationInv, ReportSettlement, session
  <1>2. /\ armed \in Nat /\ shown \in Nat /\ shown <= armed
        /\ ~Presented /\ ~HasSettled(events, shown, armed)
        /\ BatchHasSettled /\ told' = shown /\ Tail(batch) \in Seq(Event)
        /\ \/ batch' = <<>> /\ OnlySettled(batch, shown)
           \/ \E id \in Nat : /\ id > shown /\ id <= armed
                               /\ Both(batch, shown, id) /\ OnlyRequest(batch', id)
    BY <1>1, HeadOfBatch
  <1>3. told # shown
    BY <1>1, <1>2 DEF Untold
  <1>4. ~Presented' /\ (Held' <=> Held)
    BY <1>1, <1>2 DEF Presented, Held
  <1>5. TypeOK'
    <2>1. /\ timer' \in BOOLEAN /\ told' \in Nat
          /\ batch' \in Seq(Event)
      BY <1>1, <1>2
    <2> QED
      BY <2>1, <1>1 DEF TypeOK
  <1>6. EventForms'
    BY <1>1 DEF EventForms
  <1>7. CASE batch' = <<>> /\ OnlySettled(batch, shown)
    <2>1. \A id \in Nat : /\ ~OnlySettled(<<>>, shown) /\ ~Both(<<>>, shown, id)
      BY <1>2, Exclusive
    <2>2. ~HasRequest(batch, shown, armed)
      BY <1>2, <1>7, Exclusive DEF HasRequest
    <2>3. BatchForms' /\ ~BatchHasSettled'
      BY <2>1, <1>1, <1>7 DEF BatchForms, BatchHasSettled
    <2>4. HoldForms'
      BY <2>2, <1>1, <1>2, <1>4 DEF HoldForms
    <2>5. Untold'
      BY <2>3, <1>1, <1>2, <1>4, <1>7 DEF Untold
    <2> QED
      BY <2>3, <2>4, <2>5, <1>1, <1>2, <1>3, <1>5, <1>6 DEF ArbitrationInv
  <1>8. CASE \E id \in Nat : /\ id > shown /\ id <= armed
                             /\ Both(batch, shown, id) /\ OnlyRequest(batch', id)
    <2>1. PICK id \in Nat : /\ id > shown /\ id <= armed
                            /\ Both(batch, shown, id) /\ OnlyRequest(batch', id)
      BY <1>8
    <2>2. ~OnlySettled(batch', shown) /\ \A j \in Nat : ~Both(batch', shown, j)
      BY <2>1, <1>2, Exclusive
    <2>3. HasRequest(batch, shown, armed) => id = armed
      BY <2>1, <1>2, Exclusive DEF HasRequest
    <2>4. BatchForms' /\ ~BatchHasSettled'
      BY <2>1, <2>2, <1>1 DEF BatchForms, BatchHasSettled, HasRequest
    <2>5. HoldForms'
      BY <2>1, <2>3, <1>1, <1>2, <1>4 DEF HoldForms, HasRequest
    <2>6. Untold'
      BY <2>4, <1>1, <1>2, <1>4 DEF Untold
    <2> QED
      BY <2>4, <2>5, <2>6, <1>1, <1>2, <1>3, <1>5, <1>6 DEF ArbitrationInv
  <1> QED
    BY <1>2, <1>7, <1>8

LEMMA TimerStep == ArbitrationInv /\ TimerFires => ArbitrationInv' /\ UNCHANGED host
  <1> SUFFICES ASSUME ArbitrationInv, TimerFires PROVE ArbitrationInv' /\ UNCHANGED host
    OBVIOUS
  <1>1. timer' = FALSE /\ UNCHANGED <<batch, timeout, changes, shown, told>>
    BY DEF TimerFires, host
  <1>2. CASE Presented
    <2>1. Held /\ Release
      BY <1>2 DEF TimerFires, Presented
    <2> QED
      BY <2>1, <1>1, ReleaseStep DEF host
  <1>3. CASE ~Presented
    <2>1. UNCHANGED <<holding, delivery, armed, events>>
      BY <1>3 DEF TimerFires, session
    <2>2. ~Presented' /\ (Held' <=> Held) /\ (BatchHasSettled' <=> BatchHasSettled)
      BY <2>1, <1>1, <1>3 DEF Presented, Held, BatchHasSettled
    <2>3. TypeOK' /\ EventForms' /\ BatchForms'
      BY <2>1, <1>1 DEF ArbitrationInv, TypeOK, EventForms, BatchForms
    <2>4. HoldForms'
      BY <2>1, <2>2, <1>1, <1>3 DEF ArbitrationInv, HoldForms
    <2>5. Untold'
      BY <2>1, <2>2, <1>1, <1>3 DEF ArbitrationInv, Untold
    <2> QED
      BY <2>3, <2>4, <2>5, <1>1 DEF ArbitrationInv, host
  <1> QED
    BY <1>2, <1>3

LEMMA SetTimeoutStep == ArbitrationInv /\ SetTimeout => ArbitrationInv'
  <1> SUFFICES ASSUME ArbitrationInv, SetTimeout PROVE ArbitrationInv'
    OBVIOUS
  <1>1. /\ TypeOK /\ EventForms /\ BatchForms /\ HoldForms /\ Untold
        /\ changes' = changes + 1 /\ timeout' = ~timeout
        /\ timer' = IF Presented THEN timeout' ELSE timer
        /\ UNCHANGED <<holding, delivery, armed, events, batch, shown, told>>
    BY DEF ArbitrationInv, SetTimeout, ChangedTimer, session, host
  <1>2. (Presented' <=> Presented) /\ (Held' <=> Held) /\ (BatchHasSettled' <=> BatchHasSettled)
    BY <1>1 DEF Presented, Held, BatchHasSettled
  <1>3. timeout' \in BOOLEAN /\ timer' \in BOOLEAN
    BY <1>1 DEF TypeOK
  <1>4. TypeOK'
    BY <1>1, <1>3 DEF TypeOK
  <1>5. EventForms' /\ BatchForms'
    BY <1>1 DEF EventForms, BatchForms
  <1>6. HoldForms'
    BY <1>1, <1>2 DEF HoldForms
  <1>7. Untold'
    <2>1. told = shown => ~Presented
      BY <1>1 DEF Untold
    <2> QED
      BY <2>1, <1>1, <1>2 DEF Untold
  <1> QED
    BY <1>4, <1>5, <1>6, <1>7 DEF ArbitrationInv

LEMMA StutterStep == ArbitrationInv /\ UNCHANGED vars => ArbitrationInv'
  <1> SUFFICES ASSUME ArbitrationInv, UNCHANGED vars PROVE ArbitrationInv'
    OBVIOUS
  <1>1. /\ UNCHANGED <<holding, delivery, armed, events, batch>>
        /\ UNCHANGED <<timeout, timer, changes, shown, told>>
    BY DEF vars, session, deadline, host
  <1>2. (Presented' <=> Presented) /\ (Held' <=> Held) /\ (BatchHasSettled' <=> BatchHasSettled)
    BY <1>1 DEF Presented, Held, BatchHasSettled
  <1>3. TypeOK' /\ EventForms' /\ BatchForms'
    BY <1>1 DEF ArbitrationInv, TypeOK, EventForms, BatchForms
  <1>4. HoldForms'
    BY <1>1, <1>2 DEF ArbitrationInv, HoldForms
  <1>5. Untold'
    BY <1>1, <1>2 DEF ArbitrationInv, Untold
  <1> QED
    BY <1>3, <1>4, <1>5 DEF ArbitrationInv

\* The host's view of a step: what it is shown and told, and when.
HostStep ==
    /\ shown' # shown => told = shown /\ shown' > shown
    /\ told' # told => told # shown /\ told' = shown

\* Every step keeps the invariant, and shows and tells the host what it may.
LEMMA ArbitrationStep == ArbitrationInv /\ [Next]_vars => ArbitrationInv' /\ HostStep
  <1> SUFFICES ASSUME ArbitrationInv, [Next]_vars PROVE ArbitrationInv' /\ HostStep
    OBVIOUS
  <1> USE DEF HostStep, host
  <1>1. CASE Arm
    BY <1>1, ArmStep DEF Arm
  <1>2. CASE SessionSettles
    BY <1>2, ReleaseStep DEF SessionSettles, deadline
  <1>3. CASE HostAnswers
    BY <1>3, ReleaseStep DEF HostAnswers, Presented, deadline
  <1>4. CASE TakeDeliveries
    BY <1>4, TakeStep DEF TakeDeliveries
  <1>5. CASE PresentRequest
    BY <1>5, PresentStep
  <1>6. CASE SkipRequest
    BY <1>6, SkipStep DEF SkipRequest
  <1>7. CASE ReportSettlement
    BY <1>7, ReportStep
  <1>8. CASE TimerFires
    BY <1>8, TimerStep
  <1>9. CASE SetTimeout
    BY <1>9, SetTimeoutStep DEF SetTimeout
  <1>10. CASE UNCHANGED vars
    BY <1>10, StutterStep DEF vars
  <1> QED
    BY <1>1, <1>2, <1>3, <1>4, <1>5, <1>6, <1>7, <1>8, <1>9, <1>10 DEF Next, Deliver

\* The invariant holds of every behaviour.
LEMMA ArbitrationInvariant == Spec => []ArbitrationInv
  <1>1. ArbitrationInv /\ [Next]_vars => ArbitrationInv'
    BY ArbitrationStep
  <1> QED
    BY InitArbitration, <1>1, PTL DEF Spec
-------------------------------------------------------------------------------
\* The queues hold events, at most two of them, as the session asserts.
THEOREM TypeCorrect == Spec => []TypeOK
  <1>1. ArbitrationInv => TypeOK
    BY DEF ArbitrationInv
  <1> QED
    BY ArbitrationInvariant, <1>1, PTL

\* The host is shown one request at a time, each newer than the last.
THEOREM OneAtATime == Spec => OneActionable
  <1>1. ArbitrationInv /\ [Next]_vars => [shown' # shown => told = shown /\ shown' > shown]_vars
    BY ArbitrationStep DEF HostStep
  <1> QED
    BY ArbitrationInvariant, <1>1, PTL DEF Spec, OneActionable

\* The host is told the end of every request once.
THEOREM ToldOnce == Spec => SettledOnce
  <1>1. ArbitrationInv /\ [Next]_vars => [told' # told => told # shown /\ told' = shown]_vars
    BY ArbitrationStep DEF HostStep
  <1> QED
    BY ArbitrationInvariant, <1>1, PTL DEF Spec, SettledOnce

\* No request is lost between the session and the host.
THEOREM NoRequestLost == Spec => []RequestWaits
  <1>1. ASSUME ArbitrationInv PROVE RequestWaits
    <2>1. TypeOK /\ HoldForms
      BY <1>1 DEF ArbitrationInv
    <2>2. armed \in Nat /\ shown \in Nat
      BY <2>1 DEF TypeOK
    <2>3. ASSUME NEW q, HasRequest(q, shown, armed)
          PROVE  \E i \in DOMAIN q : q[i] = Requested(armed)
      <3>1. /\ q \in Seq(Event) /\ Len(q) \in 1..2 /\ q[Len(q)] = Requested(armed)
        <4>1. CASE OnlyRequest(q, armed)
          <5>1. q \in Seq(Event) /\ Len(q) = 1 /\ q[Len(q)] = Requested(armed)
            BY <4>1, <2>2, FormSteps
          <5> QED
            BY <5>1
        <4>2. CASE Both(q, shown, armed)
          <5>1. q \in Seq(Event) /\ Len(q) = 2 /\ q[Len(q)] = Requested(armed)
            BY <4>2, <2>2, FormSteps
          <5> QED
            BY <5>1
        <4> QED
          BY <4>1, <4>2, <2>3 DEF HasRequest
      <3> QED
        BY <3>1
    <2>4. Held => holding = armed
      BY <2>1 DEF HoldForms, Held
    <2>5. CASE Held /\ delivery = "QUEUED"
      BY <2>1, <2>3, <2>4, <2>5 DEF HoldForms, RequestWaits
    <2>6. CASE Held /\ delivery = "CLAIMABLE"
      BY <2>1, <2>3, <2>4, <2>6 DEF HoldForms, RequestWaits
    <2>7. CASE Held /\ delivery = "PRESENTED"
      BY <2>1, <2>7 DEF HoldForms, RequestWaits, Presented
    <2>8. CASE ~Held
      BY <2>8 DEF RequestWaits
    <2> QED
      BY <2>1, <2>5, <2>6, <2>7, <2>8 DEF TypeOK
  <1> QED
    BY ArbitrationInvariant, <1>1, PTL

\* A request before the host has its deadline running, unless the host set none.
THEOREM DeadlineHolds == Spec => []DeadlineRuns
  <1>1. ArbitrationInv => DeadlineRuns
    BY DEF ArbitrationInv, Untold, DeadlineRuns
  <1> QED
    BY ArbitrationInvariant, <1>1, PTL
-------------------------------------------------------------------------------
(***************************************************************************)
(* The arbitration within the session.                                     *)
(***************************************************************************)
\* A step of the session is one of the arbitration or leaves it alone.
LEMMA DeliveriesStepIs == DeliveriesNext => [Next]_vars
<1> SUFFICES ASSUME DeliveriesNext PROVE [Next]_vars
  OBVIOUS
<1>1. CASE OutputArrives \/ Parse \/ RecordError \/ ProcessExits \/ WindowEnds \/ SetBellPolicy
  BY <1>1 DEF OutputArrives, Parse, RecordError, ProcessExits, WindowEnds, SetBellPolicy
<1>2. CASE RequestArrives \/ HoldEnds \/ DeadlinePasses \/ TimeoutChanges
  BY <1>2 DEF RequestArrives, HoldEnds, DeadlinePasses, TimeoutChanges, Next
<1>3. CASE DeliverAll
  BY <1>3 DEF DeliverAll, TakeAll, ReplayEvent, ReplayCommon, Next, Deliver
<1> QED BY <1>1, <1>2, <1>3 DEF DeliveriesNext

\* The session's arbitration is ResizeArbitration, whatever output, notifications and
\* batches it is mixed with.
THEOREM DeliveriesArbitrate == DeliveriesSpec => Spec
<1>1. DeliveriesInit => Init
  BY DEF DeliveriesInit
<1>2. [DeliveriesNext]_allVars => [Next]_vars
  <2>1. allVars' = allVars => vars' = vars
    BY DEF allVars
  <2> QED BY <2>1, DeliveriesStepIs
<1> QED BY <1>1, <1>2, PTL DEF DeliveriesSpec, Spec

\* So the host is shown one request at a time, each newer than the last, also while output
\* is parsed and notifications are replayed between the events.
THEOREM DeliveriesOneAtATime == DeliveriesSpec => OneActionable
BY DeliveriesArbitrate, OneAtATime, PTL

LEMMA DeliveriesKeepArbitration == DeliveriesSpec => []ArbitrationInv
BY DeliveriesArbitrate, ArbitrationInvariant, PTL
-------------------------------------------------------------------------------
(***************************************************************************)
(* Induction and recursion over data that has a measure.                   *)
(***************************************************************************)
\* A set of naturals that is not empty has a least element.
LEMMA LeastNatural ==
    ASSUME NEW T \in SUBSET Nat, T # {}
    PROVE  \E m \in T : \A k \in T : m <= k
<1>1. PICK m \in T : \A k \in T : <<k, m>> \notin OpToRel(<, Nat)
  BY WFMin, NatLessThanWellFounded, Zenon
<1>2. \A k \in T : ~(k < m)
  BY <1>1, Zenon DEF OpToRel
<1> QED BY <1>2

\* A set of naturals that holds 0 and each successor of its elements is all of them.
LEMMA SetInduction ==
    ASSUME NEW T \in SUBSET Nat, 0 \in T, \A n \in T : n + 1 \in T
    PROVE  T = Nat
<1> SUFFICES ASSUME Nat \ T # {} PROVE FALSE
  OBVIOUS
<1>1. PICK m \in Nat \ T : \A k \in Nat \ T : m <= k
  BY LeastNatural
<1>2. m # 0 /\ m - 1 \in Nat
  OBVIOUS
<1> QED BY <1>1, <1>2

\* A set that holds an element when it holds every smaller one holds them all.
LEMMA MeasureInduction ==
    ASSUME NEW D, NEW m \in [D -> Nat], NEW S,
           \A x \in D : (\A y \in D : m[y] < m[x] => y \in S) => x \in S
    PROVE  D \subseteq S
<1> SUFFICES ASSUME NEW z \in D, z \notin S PROVE FALSE
  OBVIOUS
<1> DEFINE T == {m[x] : x \in {y \in D : y \notin S}}
<1>1. T \in SUBSET Nat /\ T # {}
  OBVIOUS
<1>2. PICK k \in T : \A j \in T : k <= j
  <2> HIDE DEF T
  <2> QED BY <1>1, LeastNatural
<1>3. PICK x \in D : x \notin S /\ m[x] = k
  OBVIOUS
<1>4. ASSUME NEW y \in D, m[y] < m[x] PROVE y \in S
  <2> SUFFICES ASSUME y \notin S PROVE FALSE
    OBVIOUS
  <2>1. m[y] \in T
    OBVIOUS
  <2>2. m[x] <= m[y]
    BY <1>2, <1>3, <2>1
  <2> QED BY <1>4, <2>2
<1> QED BY <1>3, <1>4

\* G[<<x, f>>] uses f only below x.
LooksBelow(G, D, R, m) ==
    /\ m \in [D -> Nat] /\ G \in [D \X [D -> R] -> R]
    /\ \A x \in D : \A f, g \in [D -> R] :
           (\A y \in D : m[y] < m[x] => f[y] = g[y]) => G[<<x, f>>] = G[<<x, g>>]

\* f follows G below n.
Follows(f, G, D, m, n) == \A x \in D : m[x] < n => f[x] = G[<<x, f>>]

\* A recursion that looks below can be followed to any depth ...
LEMMA FollowedBelow ==
    ASSUME NEW D, NEW R, NEW r0 \in R, NEW m, NEW G, LooksBelow(G, D, R, m)
    PROVE  \A n \in Nat : \E f \in [D -> R] : Follows(f, G, D, m, n)
<1>0. m \in [D -> Nat] /\ G \in [D \X [D -> R] -> R]
  BY DEF LooksBelow
<1> DEFINE T == {n \in Nat : \E f \in [D -> R] : Follows(f, G, D, m, n)}
<1>1. 0 \in T
  <2>1. [x \in D |-> r0] \in [D -> R] /\ Follows([x \in D |-> r0], G, D, m, 0)
    BY <1>0 DEF Follows
  <2> QED BY <2>1
<1>2. ASSUME NEW n \in T PROVE n + 1 \in T
  <2>1. PICK f \in [D -> R] : Follows(f, G, D, m, n)
    OBVIOUS
  <2> DEFINE g == [x \in D |-> G[<<x, f>>]]
  <2>2. g \in [D -> R]
    BY <1>0
  <2>3. ASSUME NEW y \in D, m[y] < n PROVE f[y] = g[y]
    BY <2>1, <2>3 DEF Follows
  <2>4. ASSUME NEW x \in D, m[x] < n + 1 PROVE g[x] = G[<<x, g>>]
    <3>1. ASSUME NEW y \in D, m[y] < m[x] PROVE f[y] = g[y]
      <4>1. m[y] \in Nat /\ m[x] \in Nat /\ n \in Nat
        BY <1>0
      <4>2. m[y] < n
        BY <2>4, <3>1, <4>1
      <4> QED BY <2>3, <4>2
    <3>2. g[x] = G[<<x, f>>]
      OBVIOUS
    <3> HIDE DEF g
    <3>3. G[<<x, f>>] = G[<<x, g>>]
      BY <2>2, <3>1 DEF LooksBelow
    <3> QED BY <2>1, <3>1, <3>2, <3>3
  <2>5. Follows(g, G, D, m, n + 1)
    BY <2>4 DEF Follows
  <2> HIDE DEF g
  <2>6. \E f1 \in [D -> R] : Follows(f1, G, D, m, n + 1)
    BY <2>2, <2>5
  <2> QED BY <2>6
<1>3. T = Nat
  <2> HIDE DEF T
  <2>1. T \in SUBSET Nat
    BY DEF T
  <2> QED BY <1>1, <1>2, <2>1, SetInduction
<1> QED BY <1>3

\* ... by functions that agree ...
LEMMA FollowersAgree ==
    ASSUME NEW D, NEW R, NEW m, NEW G, LooksBelow(G, D, R, m),
           NEW f \in [D -> R], NEW g \in [D -> R]
    PROVE  \A n, k \in Nat :
               Follows(f, G, D, m, n) /\ Follows(g, G, D, m, k)
               => \A x \in D : m[x] < n /\ m[x] < k => f[x] = g[x]
<1> SUFFICES ASSUME NEW n \in Nat, NEW k \in Nat, Follows(f, G, D, m, n), Follows(g, G, D, m, k)
             PROVE  \A x \in D : m[x] < n /\ m[x] < k => f[x] = g[x]
  OBVIOUS
<1>0. m \in [D -> Nat] /\ G \in [D \X [D -> R] -> R]
  BY DEF LooksBelow
<1> DEFINE S == {x \in D : m[x] < n /\ m[x] < k => f[x] = g[x]}
<1>1. ASSUME NEW x \in D, \A y \in D : m[y] < m[x] => y \in S PROVE x \in S
  <2> SUFFICES ASSUME m[x] < n, m[x] < k PROVE f[x] = g[x]
    OBVIOUS
  <2>1. ASSUME NEW y \in D, m[y] < m[x] PROVE f[y] = g[y]
    <3>1. m[y] \in Nat /\ m[x] \in Nat
      BY <1>0
    <3>2. m[y] < n /\ m[y] < k
      BY <2>1, <3>1
    <3> QED BY <1>1, <2>1, <3>2
  <2>2. G[<<x, f>>] = G[<<x, g>>]
    BY <2>1 DEF LooksBelow
  <2> QED BY <2>2 DEF Follows
<1>2. D \subseteq S
  <2> HIDE DEF S
  <2> QED BY <1>0, <1>1, MeasureInduction
<1> QED BY <1>2

Solves(f, G, D, R) == f \in [D -> R] /\ \A x \in D : f[x] = G[<<x, f>>]

\* ... and so by one function everywhere.
LEMMA RecursionExists ==
    ASSUME NEW D, NEW R, R # {}, NEW m, NEW G, LooksBelow(G, D, R, m)
    PROVE  \E f : Solves(f, G, D, R)
<1>0. m \in [D -> Nat] /\ G \in [D \X [D -> R] -> R]
  BY DEF LooksBelow
<1>1. \A n \in Nat : \E f \in [D -> R] : Follows(f, G, D, m, n)
  <2>1. PICK r0 \in R : TRUE
    OBVIOUS
  <2> QED BY <2>1, FollowedBelow
<1> DEFINE F == [n \in Nat |-> CHOOSE f \in [D -> R] : Follows(f, G, D, m, n)]
<1>2. \A n \in Nat : F[n] \in [D -> R] /\ Follows(F[n], G, D, m, n)
  BY <1>1
<1> HIDE DEF F
<1> DEFINE h == [x \in D |-> F[m[x] + 1][x]]
<1>3. h \in [D -> R]
  BY <1>0, <1>2
<1>4. ASSUME NEW x \in D PROVE h[x] = G[<<x, h>>]
  <2> DEFINE f == F[m[x] + 1]
  <2>1. f \in [D -> R] /\ Follows(f, G, D, m, m[x] + 1) /\ m[x] \in Nat
    <3>1. m[x] \in Nat /\ m[x] + 1 \in Nat
      BY <1>0
    <3> QED BY <1>2, <3>1
  <2>2. h[x] = f[x]
    OBVIOUS
  <2>3. f[x] = G[<<x, f>>]
    <3> HIDE DEF f
    <3>1. m[x] < m[x] + 1
      BY <2>1
    <3> QED BY <2>1, <3>1 DEF Follows
  <2>4. ASSUME NEW y \in D, m[y] < m[x] PROVE f[y] = h[y]
    <3> DEFINE g == F[m[y] + 1]
    <3>0. m[y] \in Nat /\ m[y] + 1 \in Nat
      BY <1>0
    <3>1. g \in [D -> R] /\ Follows(g, G, D, m, m[y] + 1) /\ m[y] \in Nat /\ h[y] = g[y]
      BY <1>2, <3>0
    <3>2. m[y] < m[y] + 1 /\ m[y] < m[x] + 1 /\ m[x] + 1 \in Nat /\ m[y] + 1 \in Nat
      BY <2>1, <2>4, <3>1
    <3> HIDE DEF f, g, h
    <3>3. \A i, k \in Nat :
              Follows(f, G, D, m, i) /\ Follows(g, G, D, m, k)
              => \A z \in D : m[z] < i /\ m[z] < k => f[z] = g[z]
      BY <2>1, <3>1, FollowersAgree
    <3>4. f[y] = g[y]
      BY <2>1, <3>1, <3>2, <3>3
    <3> QED BY <3>1, <3>4
  <2>5. G[<<x, f>>] = G[<<x, h>>]
    <3> HIDE DEF f, h
    <3> QED BY <1>3, <2>1, <2>4 DEF LooksBelow
  <2> QED BY <2>2, <2>3, <2>5
<1>5. Solves(h, G, D, R)
  BY <1>3, <1>4 DEF Solves
<1> QED BY <1>5

Iterates(f, H, n, r0, R) ==
    f \in [0..n -> R] /\ f[0] = r0 /\ \A i \in 1..n : f[i] = H[<<i, f[i - 1]>>]

\* Steps that stay in a set can be taken one after another.
LEMMA IterationExists ==
    ASSUME NEW n \in Nat, NEW R, NEW r0 \in R, NEW H \in [(1..n) \X R -> R]
    PROVE  \E f : Iterates(f, H, n, r0, R)
<1> DEFINE D == 0..n
           m == [i \in D |-> i]
           Body(i, f) == IF i = 0 THEN r0 ELSE H[<<i, f[i - 1]>>]
           G == [xf \in D \X [D -> R] |-> Body(xf[1], xf[2])]
<1>1. ASSUME NEW i \in D, NEW f \in [D -> R] PROVE Body(i, f) \in R
  <2>1. CASE i = 0
    BY <2>1
  <2>2. CASE i # 0
    <3>1. i \in 1..n /\ i - 1 \in D
      BY <2>2
    <3>2. f[i - 1] \in R
      BY <3>1
    <3>3. H[<<i, f[i - 1]>>] \in R
      <4> HIDE DEF D
      <4> QED BY <3>1, <3>2
    <3> QED BY <2>2, <3>3
  <2> QED BY <2>1, <2>2
<1>2. m \in [D -> Nat]
  OBVIOUS
<1>3. G \in [D \X [D -> R] -> R]
  <2> HIDE DEF Body, D
  <2> QED BY <1>1
<1>4. ASSUME NEW i \in D, NEW f \in [D -> R], NEW g \in [D -> R],
             \A y \in D : m[y] < m[i] => f[y] = g[y]
      PROVE  G[<<i, f>>] = G[<<i, g>>]
  <2>1. i # 0 => i - 1 \in D /\ m[i - 1] < m[i]
    OBVIOUS
  <2>2. i # 0 => f[i - 1] = g[i - 1]
    BY <1>4, <2>1
  <2>3. Body(i, f) = Body(i, g)
    BY <2>2
  <2> HIDE DEF Body, D
  <2> QED BY <2>3
<1>5. LooksBelow(G, D, R, m)
  <2> HIDE DEF G, m, D
  <2> QED BY <1>2, <1>3, <1>4 DEF LooksBelow
<1>6. PICK f : Solves(f, G, D, R)
  <2> HIDE DEF G, m, D
  <2> QED BY <1>5, RecursionExists
<1>7. f \in [D -> R] /\ \A i \in D : f[i] = Body(i, f)
  <2>1. f \in [D -> R] /\ \A i \in D : f[i] = G[<<i, f>>]
    BY <1>6 DEF Solves
  <2> HIDE DEF D, Body
  <2> QED BY <2>1
<1>8. Iterates(f, H, n, r0, R)
  <2>1. f \in [0..n -> R] /\ f[0] = r0
    <3>1. 0 \in D
      OBVIOUS
    <3>2. f[0] = Body(0, f)
      <4> HIDE DEF Body, D
      <4> QED BY <1>7, <3>1
    <3> QED BY <1>7, <3>2
  <2>2. ASSUME NEW i \in 1..n PROVE f[i] = H[<<i, f[i - 1]>>]
    <3>1. i \in D /\ i # 0
      OBVIOUS
    <3> HIDE DEF D
    <3> QED BY <1>7, <3>1
  <2> QED BY <2>1, <2>2 DEF Iterates
<1> QED BY <1>8
-------------------------------------------------------------------------------
(***************************************************************************)
(* The parser's operators on sequences and sets.                           *)
(***************************************************************************)
LEMMA LeastOf ==
    ASSUME NEW T \in SUBSET Nat, T # {}
    PROVE  P!Min(T) \in T /\ \A k \in T : P!Min(T) <= k
  BY LeastNatural DEF P!Min

LEMMA GreatestOf ==
    ASSUME NEW n \in Nat, NEW T \in SUBSET (0..n), T # {}
    PROVE  P!Max(T) \in T /\ \A k \in T : P!Max(T) >= k
<1> DEFINE U == {n - k : k \in T}
<1>1. U \in SUBSET Nat /\ U # {}
  <2>1. PICK k \in T : TRUE
    OBVIOUS
  <2>2. n - k \in U /\ \A j \in T : n - j \in Nat
    OBVIOUS
  <2> QED BY <2>2
<1>2. PICK u \in U : \A v \in U : u <= v
  <2> HIDE DEF U
  <2> QED BY <1>1, LeastNatural
<1>3. PICK m \in T : u = n - m
  OBVIOUS
<1>4. ASSUME NEW k \in T PROVE m >= k
  <2>1. n - k \in U
    OBVIOUS
  <2>2. n - m <= n - k /\ m \in Nat /\ k \in Nat
    BY <1>2, <1>3, <2>1
  <2> QED BY <2>2
<1> QED BY <1>3, <1>4 DEF P!Max

LEMMA FromProperties ==
    ASSUME NEW S, NEW s \in Seq(S), NEW i \in Nat, i >= 1
    PROVE  /\ P!From(s, i) \in Seq(S)
           /\ Len(P!From(s, i)) = IF i <= Len(s) THEN Len(s) - i + 1 ELSE 0
<1>1. Len(s) \in Nat /\ \A k \in i..Len(s) : s[k] \in S
  BY LenProperties, ElementOfSeq
<1> QED BY <1>1, SubSeqProperties DEF P!From

LEMMA PartOf ==
    ASSUME NEW S, NEW s \in Seq(S), NEW i \in Nat, i >= 1, NEW j \in Int, j <= Len(s)
    PROVE  /\ SubSeq(s, i, j) \in Seq(S)
           /\ Len(SubSeq(s, i, j)) = IF i <= j THEN j - i + 1 ELSE 0
           /\ \A k \in 1..j - i + 1 : SubSeq(s, i, j)[k] = s[i + k - 1]
<1>1. Len(s) \in Nat /\ \A k \in i..j : s[k] \in S
  BY LenProperties, ElementOfSeq
<1> QED BY <1>1, SubSeqProperties

LEMMA FirstInProperties ==
    ASSUME NEW S, NEW s \in Seq(S), NEW T, NEW from \in Nat, from >= 1
    PROVE  LET i == P!FirstIn(s, T, from)
           IN  /\ i \in Nat
               /\ i = Len(s) + 1 \/ (i \in from..Len(s) /\ s[i] \in T)
               /\ \A k \in from..Len(s) : s[k] \in T => i <= k
<1> DEFINE U == {i \in from..Len(s) : s[i] \in T} \cup {Len(s) + 1}
<1>1. Len(s) \in Nat
  BY LenProperties
<1>2. U \in SUBSET Nat /\ U # {}
  BY <1>1
<1>3. P!FirstIn(s, T, from) = P!Min(U)
  BY DEF P!FirstIn
<1>4. P!Min(U) \in U /\ \A k \in U : P!Min(U) <= k
  <2> HIDE DEF U
  <2> QED BY <1>2, LeastOf
<1> HIDE DEF U
<1>5. P!FirstIn(s, T, from) \in Nat
  BY <1>2, <1>3, <1>4
<1>6. \/ P!FirstIn(s, T, from) = Len(s) + 1
      \/ P!FirstIn(s, T, from) \in from..Len(s) /\ s[P!FirstIn(s, T, from)] \in T
  BY <1>3, <1>4 DEF U
<1>7. ASSUME NEW k \in from..Len(s), s[k] \in T PROVE P!FirstIn(s, T, from) <= k
  BY <1>3, <1>4, <1>7 DEF U
<1> QED BY <1>5, <1>6, <1>7

\* Sequences over X flatten to a sequence over X.
LEMMA FlattenType ==
    ASSUME NEW X, NEW ss \in Seq(Seq(X))
    PROVE  P!FlattenSeq(ss) \in Seq(X)
<1> DEFINE n == Len(ss)
           D == 1..n
           R == Seq(X)
           m == [i \in D |-> i]
           G == [xf \in D \X [D -> R] |->
                    IF xf[1] = 1 THEN ss[xf[1]] ELSE xf[2][xf[1] - 1] \o ss[xf[1]]]
           Body(f) == [i \in 1..Len(ss) |-> IF i = 1 THEN ss[i] ELSE f[i - 1] \o ss[i]]
           ff == CHOOSE f : f = Body(f)
<1>1. n \in Nat /\ \A i \in D : ss[i] \in Seq(X)
  BY LenProperties, ElementOfSeq
<1>2. CASE n = 0
  <2>1. ss = <<>>
    BY <1>2, EmptySeq
  <2> QED BY <2>1, EmptySeq DEF P!FlattenSeq
<1>3. CASE n # 0
  <2>1. G \in [D \X [D -> R] -> R]
    <3>1. ASSUME NEW i \in D, NEW f \in [D -> R]
          PROVE  (IF i = 1 THEN ss[i] ELSE f[i - 1] \o ss[i]) \in R
      <4>1. i # 1 => i - 1 \in D
        BY <1>1
      <4> QED BY <1>1, <4>1, ConcatProperties
    <3> QED BY <3>1
  <2>2. LooksBelow(G, D, R, m)
    <3> SUFFICES ASSUME NEW i \in D, NEW f \in [D -> R], NEW g \in [D -> R],
                        \A y \in D : m[y] < m[i] => f[y] = g[y]
                 PROVE  G[<<i, f>>] = G[<<i, g>>]
      <4>1. m \in [D -> Nat]
        BY <1>1
      <4> HIDE DEF G, m, D, R
      <4> QED BY <2>1, <4>1 DEF LooksBelow
    <3>1. i # 1 => i - 1 \in D /\ m[i - 1] < m[i]
      BY <1>1
    <3>2. i # 1 => f[i - 1] = g[i - 1]
      BY <3>1
    <3> QED BY <3>2
  <2>3. PICK h : Solves(h, G, D, R)
    <3>1. R # {}
      BY EmptySeq
    <3> HIDE DEF G, m, D, R
    <3> QED BY <2>2, <3>1, RecursionExists
  <2>4. h = Body(h)
    BY <2>3 DEF Solves
  <2>5. ff = Body(ff)
    <3> HIDE DEF Body
    <3> QED BY <2>4
  <2>6. P!FlattenSeq(ss) = ff[n]
    BY <1>3 DEF P!FlattenSeq
  <2> HIDE DEF ff
  <2> DEFINE S == {i \in D : ff[i] \in R}
  <2>7. ASSUME NEW i \in D, \A y \in D : m[y] < m[i] => y \in S PROVE i \in S
    <3>1. ff[i] = IF i = 1 THEN ss[i] ELSE ff[i - 1] \o ss[i]
      BY <2>5
    <3>2. i # 1 => i - 1 \in D /\ m[i - 1] < m[i]
      BY <1>1
    <3>3. i # 1 => ff[i - 1] \in R
      BY <2>7, <3>2
    <3>4. ff[i] \in R
      <4> HIDE DEF D
      <4> QED BY <1>1, <3>1, <3>3, ConcatProperties
    <3> QED BY <3>4
  <2>8. D \subseteq S
    <3>1. m \in [D -> Nat]
      BY <1>1
    <3> HIDE DEF S, m, D
    <3>2. \A x \in D : (\A y \in D : m[y] < m[x] => y \in S) => x \in S
      BY <2>7
    <3> QED BY <3>1, <3>2, MeasureInduction
  <2>9. n \in D
    BY <1>1, <1>3
  <2>10. ff[n] \in R
    BY <2>8, <2>9
  <2> QED BY <2>6, <2>10
<1> QED BY <1>2, <1>3

LEMMA OnlyType ==
    ASSUME NEW X, NEW s \in Seq(X), NEW S
    PROVE  P!Only(S, s) \in Seq(S \cap X)
<1> DEFINE e(i) == IF s[i] \in S THEN <<s[i]>> ELSE <<>>
           ss == [i \in 1..Len(s) |-> e(i)]
<1>1. Len(s) \in Nat /\ DOMAIN s = 1..Len(s)
  BY LenProperties
<1>2. ASSUME NEW i \in 1..Len(s) PROVE e(i) \in Seq(S \cap X)
  <2>1. s[i] \in X
    BY ElementOfSeq
  <2>2. s[i] \in S => s[i] \in S \cap X
    BY <2>1
  <2>3. <<>> \in Seq(S \cap X)
    BY EmptySeq
  <2>4. s[i] \in S => <<s[i]>> \in Seq(S \cap X)
    BY <2>2
  <2> QED BY <2>3, <2>4
<1>3. ss \in Seq(Seq(S \cap X))
  <2> HIDE DEF e
  <2> QED BY <1>1, <1>2, IsASeq
<1>4. P!Only(S, s) = P!FlattenSeq(ss)
  BY <1>1 DEF P!Only
<1> HIDE DEF ss
<1> QED BY <1>3, <1>4, FlattenType
-------------------------------------------------------------------------------
(***************************************************************************)
(* The types of the parser's results.                                      *)
(***************************************************************************)
Words == {"CSI", "ESC", "OSC", "DCS", "NONE", "PRINTABLE", "malformed", "recursive",
          "expansion", "limit", "unsupported", "recovery"}

\* What the parser says: what the host is told of, and the rest.
Notices == {<< "notify", "BELL" >>} \cup ({"notify"} \X {"ICON", "TITLE"} \X P!Input)
Silent ==
    {<<"control", "BEL">>, <<"ESC", "M">>}
    \cup ({"icon", "title"} \X P!Input) \cup ({"text"} \X Seq(P!Bytes \cup {"replacement"}))
    \cup ({"diagnostic"} \X Words \X Words) \cup ({"CSI"} \X P!Input \X P!Input \X P!Bytes)
Acts == Notices \cup Silent

Utf8 == [left : 0..2, high : BOOLEAN]
Frame == [id : {"0", "1"}, bytes : P!Input]
Result == [p : P!Parser, rest : P!Input, out : Seq(Acts), stop : BOOLEAN]

\* A result that begins no replay, and leaves at most n bytes.
Calm(r, p, n) ==
    /\ r \in Result /\ ~r.stop
    /\ r.p.frames = p.frames /\ r.p.expansion = p.expansion
    /\ Len(r.rest) <= n

LEMMA ParserFields ==
    ASSUME NEW p \in P!Parser
    PROVE  /\ p.prefix \in P!Input /\ p.family \in {"NONE", "OSC", "DCS"} /\ p.payload \in P!Input
           /\ p.over \in BOOLEAN /\ p.header \in BOOLEAN /\ p.utf8 \in Utf8
           /\ p.discard \in {"NONE", "CSI", "ESC"}
           /\ p.macros \in [{"0", "1"} -> P!Input] /\ p.frames \in Seq(Frame)
           /\ p.expansion \in 0..ExpansionLimit
  BY DEF P!Parser, P!Input, Utf8, Frame

LEMMA ParserWith ==
    ASSUME NEW p \in P!Parser
    PROVE  /\ \A x \in P!Input : /\ [p EXCEPT !.prefix = x] \in P!Parser
                                 /\ [p EXCEPT !.payload = x] \in P!Parser
           /\ \A x \in {"NONE", "OSC", "DCS"} : [p EXCEPT !.family = x] \in P!Parser
           /\ \A x \in BOOLEAN : /\ [p EXCEPT !.over = x] \in P!Parser
                                 /\ [p EXCEPT !.header = x] \in P!Parser
           /\ \A x \in Utf8 : [p EXCEPT !.utf8 = x] \in P!Parser
           /\ \A x \in {"NONE", "CSI", "ESC"} : [p EXCEPT !.discard = x] \in P!Parser
           /\ \A x \in [{"0", "1"} -> P!Input] : [p EXCEPT !.macros = x] \in P!Parser
           /\ \A x \in Seq(Frame) : [p EXCEPT !.frames = x] \in P!Parser
           /\ \A x \in 0..ExpansionLimit : [p EXCEPT !.expansion = x] \in P!Parser
  BY DEF P!Parser, P!Input, Utf8, Frame

LEMMA TookType ==
    ASSUME NEW p \in P!Parser, NEW rest \in P!Input, NEW out \in Seq(Acts)
    PROVE  /\ P!Took(p, rest, out) \in Result /\ P!Took(p, rest, out).stop = FALSE
           /\ P!Took(p, rest, out).p = p /\ P!Took(p, rest, out).rest = rest
           /\ P!Took(p, rest, out).out = out
  BY DEF P!Took, Result

LEMMA ThenType ==
    ASSUME NEW out \in Seq(Acts), NEW r \in Result
    PROVE  /\ P!Then(out, r) \in Result /\ P!Then(out, r).stop = r.stop
           /\ P!Then(out, r).p = r.p /\ P!Then(out, r).rest = r.rest
<1>1. r.out \in Seq(Acts)
  BY DEF Result
<1>2. out \o r.out \in Seq(Acts)
  BY <1>1, ConcatProperties
<1> HIDE DEF Acts
<1> QED BY <1>2 DEF P!Then, Result

\* Results that say nothing, or one thing.
LEMMA SaysType ==
    /\ <<>> \in Seq(Acts)
    /\ \A a \in Acts : <<a>> \in Seq(Acts)
    /\ \A f, w \in Words : P!Diagnostic(f, w) \in Seq(Acts)
    /\ \A b \in Seq(P!Bytes \cup {"replacement"}) : P!Text(b) \in Seq(Acts)
<1>1. <<>> \in Seq(Acts)
  BY EmptySeq
<1>2. ASSUME NEW a \in Acts PROVE <<a>> \in Seq(Acts)
  <2> HIDE DEF Acts
  <2> QED OBVIOUS
<1>3. ASSUME NEW f \in Words, NEW w \in Words PROVE P!Diagnostic(f, w) \in Seq(Acts)
  <2>1. <<"diagnostic", f, w>> \in Acts
    BY DEF Acts, Silent
  <2> QED BY <1>2, <2>1 DEF P!Diagnostic
<1>4. ASSUME NEW b \in Seq(P!Bytes \cup {"replacement"}) PROVE P!Text(b) \in Seq(Acts)
  <2>1. <<"text", b>> \in Acts
    BY DEF Acts, Silent
  <2> QED BY <1>2, <2>1 DEF P!Text
<1> QED BY <1>1, <1>2, <1>3, <1>4

LEMMA ControlsType ==
    ASSUME NEW bytes \in P!Input
    PROVE  P!ControlActions(bytes) \in Seq(Acts)
<1> DEFINE e(i) == IF bytes[i] = "BEL"
                   THEN P!Action("control", "BEL") \o P!Action("notify", "BELL") ELSE <<>>
           ss == [i \in 1..Len(bytes) |-> e(i)]
<1>1. Len(bytes) \in Nat /\ DOMAIN bytes = 1..Len(bytes)
  BY LenProperties DEF P!Input
<1>2. /\ P!Action("control", "BEL") \in Seq(Acts) /\ P!Action("notify", "BELL") \in Seq(Acts)
      /\ <<>> \in Seq(Acts)
  <2>1. <<"control", "BEL">> \in Acts /\ <<"notify", "BELL">> \in Acts
    BY DEF Acts, Notices, Silent
  <2> QED BY <2>1, SaysType DEF P!Action
<1>3. P!Action("control", "BEL") \o P!Action("notify", "BELL") \in Seq(Acts)
  BY <1>2, ConcatProperties
<1>4. \A i \in 1..Len(bytes) : e(i) \in Seq(Acts)
  BY <1>2, <1>3
<1>5. ss \in Seq(Seq(Acts))
  <2> HIDE DEF e
  <2> QED BY <1>1, <1>4, IsASeq
<1>6. P!ControlActions(bytes) = P!FlattenSeq(ss)
  BY <1>1 DEF P!ControlActions
<1> HIDE DEF ss
<1> QED BY <1>5, <1>6, FlattenType

LEMMA BytesAre ==
    /\ P!Controls \subseteq P!Bytes /\ P!Printable \subseteq P!Bytes /\ P!Letters \subseteq P!Bytes
    /\ P!Parameters \subseteq P!Bytes /\ P!Intermediates \subseteq P!Bytes
    /\ P!HexPairs \subseteq P!Bytes /\ P!Text8 \subseteq P!Bytes /\ P!Leads \subseteq P!Bytes
    /\ \A b \in P!HexPairs : P!Hex(b) \in P!Bytes
    /\ "ESC" \in P!Bytes /\ "9B" \in P!Bytes
  BY DEF P!Controls, P!Printable, P!Letters, P!Parameters, P!Intermediates, P!HexPairs,
         P!Text8, P!Leads, P!Introducers, P!Bytes, P!Hex

\* A result with nothing to say, of a parser that differs in what it keeps.
LEMMA CalmTook ==
    ASSUME NEW p \in P!Parser, NEW q \in P!Parser, NEW rest \in P!Input, NEW out \in Seq(Acts),
           NEW n \in Nat, q.frames = p.frames, q.expansion = p.expansion, Len(rest) <= n
    PROVE  Calm(P!Took(q, rest, out), p, n)
<1>1. P!Took(q, rest, out) \in Result
  BY TookType
<1>2. /\ P!Took(q, rest, out).stop = FALSE
      /\ P!Took(q, rest, out).p = q /\ P!Took(q, rest, out).rest = rest
  BY DEF P!Took
<1> QED BY <1>1, <1>2 DEF Calm

LEMMA CalmThen ==
    ASSUME NEW p \in P!Parser, NEW r, NEW out \in Seq(Acts), NEW n \in Nat, Calm(r, p, n)
    PROVE  /\ Calm(P!Then(out, r), p, n)
           /\ P!Then(out, r).p = r.p /\ P!Then(out, r).rest = r.rest
<1>1. r \in Result
  BY DEF Calm
<1>2. /\ P!Then(out, r) \in Result /\ P!Then(out, r).stop = r.stop
      /\ P!Then(out, r).p = r.p /\ P!Then(out, r).rest = r.rest
  BY <1>1, ThenType
<1> QED BY <1>2 DEF Calm

LEMMA DiscardCsiType ==
    ASSUME NEW p \in P!Parser, NEW bytes \in P!Input, bytes # <<>>
    PROVE  LET r == P!DiscardCsi(p, bytes)
           IN  /\ Calm(r, p, Len(bytes)) /\ r.p.family = p.family
               /\ r.p.discard = "NONE" \/ r.rest = <<>>
<1> DEFINE i == P!FirstIn(bytes, P!Letters \cup {"ESC", "9B"}, 1)
           final == i <= Len(bytes) /\ bytes[i] \in P!Letters
           k == IF final THEN i + 1 ELSE i
           q == [p EXCEPT !.discard = IF i > Len(bytes) THEN "CSI" ELSE "NONE"]
           rest == P!From(bytes, k)
<1>1. i \in Nat /\ i >= 1 /\ Len(bytes) \in Nat /\ i <= Len(bytes) + 1
  <2>1. Len(bytes) \in Nat
    BY LenProperties DEF P!Input
  <2>2. i \in Nat /\ (i = Len(bytes) + 1 \/ i \in 1..Len(bytes))
    BY FirstInProperties DEF P!Input
  <2> HIDE DEF i
  <2> QED BY <2>1, <2>2
<1>2. P!DiscardCsi(p, bytes) = P!Took(q, rest, <<>>)
  BY DEF P!DiscardCsi
<1> HIDE DEF i
<1>3. q \in P!Parser
  BY ParserWith
<1>4. q.frames = p.frames /\ q.expansion = p.expansion /\ q.family = p.family
      /\ q.discard = IF i > Len(bytes) THEN "CSI" ELSE "NONE"
  BY DEF P!Parser
<1>5. k \in Nat /\ k >= 1
  BY <1>1
<1>6. rest \in P!Input /\ Len(rest) = IF k <= Len(bytes) THEN Len(bytes) - k + 1 ELSE 0
  <2> HIDE DEF k
  <2> QED BY <1>5, FromProperties DEF P!Input
<1>7. i > Len(bytes) => rest = <<>>
  <2>1. i > Len(bytes) => Len(rest) = 0
    BY <1>1, <1>6
  <2> HIDE DEF rest
  <2> QED BY <1>6, <2>1, EmptySeq DEF P!Input
<1>8. Len(rest) <= Len(bytes)
  <2> HIDE DEF rest
  <2> QED BY <1>1, <1>5, <1>6
<1> HIDE DEF q, rest, k
<1>9. Calm(P!Took(q, rest, <<>>), p, Len(bytes))
  BY <1>1, <1>3, <1>4, <1>6, <1>8, SaysType, CalmTook
<1>10. P!Took(q, rest, <<>>).p = q /\ P!Took(q, rest, <<>>).rest = rest
  BY DEF P!Took
<1> QED BY <1>1, <1>2, <1>4, <1>7, <1>9, <1>10

LEMMA DiscardEscapeType ==
    ASSUME NEW p \in P!Parser, NEW bytes \in P!Input, bytes # <<>>
    PROVE  LET r == P!DiscardEscape(p, bytes)
           IN  /\ Calm(r, p, Len(bytes)) /\ r.p.family = p.family
               /\ r.p.discard = "NONE" \/ r.rest = <<>>
<1> DEFINE i == P!FirstIn(bytes, P!Bytes \ P!Intermediates, 1)
           final == i <= Len(bytes) /\ bytes[i] \in P!Parameters \cup P!Letters
           k == IF final THEN i + 1 ELSE i
           q == [p EXCEPT !.discard = IF i > Len(bytes) THEN "ESC" ELSE "NONE"]
           rest == P!From(bytes, k)
<1>1. i \in Nat /\ i >= 1 /\ Len(bytes) \in Nat /\ i <= Len(bytes) + 1
  <2>1. Len(bytes) \in Nat
    BY LenProperties DEF P!Input
  <2>2. i \in Nat /\ (i = Len(bytes) + 1 \/ i \in 1..Len(bytes))
    BY FirstInProperties DEF P!Input
  <2> HIDE DEF i
  <2> QED BY <2>1, <2>2
<1>2. P!DiscardEscape(p, bytes) = P!Took(q, rest, <<>>)
  BY DEF P!DiscardEscape
<1> HIDE DEF i
<1>3. q \in P!Parser
  BY ParserWith
<1>4. q.frames = p.frames /\ q.expansion = p.expansion /\ q.family = p.family
      /\ q.discard = IF i > Len(bytes) THEN "ESC" ELSE "NONE"
  BY DEF P!Parser
<1>5. k \in Nat /\ k >= 1
  BY <1>1
<1>6. rest \in P!Input /\ Len(rest) = IF k <= Len(bytes) THEN Len(bytes) - k + 1 ELSE 0
  <2> HIDE DEF k
  <2> QED BY <1>5, FromProperties DEF P!Input
<1>7. i > Len(bytes) => rest = <<>>
  <2>1. i > Len(bytes) => Len(rest) = 0
    BY <1>1, <1>6
  <2> HIDE DEF rest
  <2> QED BY <1>6, <2>1, EmptySeq DEF P!Input
<1>8. Len(rest) <= Len(bytes)
  <2> HIDE DEF rest
  <2> QED BY <1>1, <1>5, <1>6
<1> HIDE DEF q, rest, k
<1>9. Calm(P!Took(q, rest, <<>>), p, Len(bytes))
  BY <1>1, <1>3, <1>4, <1>6, <1>8, SaysType, CalmTook
<1>10. P!Took(q, rest, <<>>).p = q /\ P!Took(q, rest, <<>>).rest = rest
  BY DEF P!Took
<1> QED BY <1>1, <1>2, <1>4, <1>7, <1>9, <1>10

\* A result that begins the replay of a macro, whose bytes it counts.
Begins(r, p, n) ==
    /\ r \in Result /\ r.stop
    /\ Len(r.p.frames) = Len(p.frames) + 1 /\ r.p.expansion > p.expansion
    /\ Len(r.rest) <= n

Turned(r, p, n) == Calm(r, p, n) \/ Begins(r, p, n)

LEMMA TurnedThen ==
    ASSUME NEW p \in P!Parser, NEW r, NEW out \in Seq(Acts), NEW n \in Nat, Turned(r, p, n)
    PROVE  Turned(P!Then(out, r), p, n)
<1>1. r \in Result
  BY DEF Turned, Calm, Begins
<1>2. /\ P!Then(out, r) \in Result /\ P!Then(out, r).stop = r.stop
      /\ P!Then(out, r).p = r.p /\ P!Then(out, r).rest = r.rest
  BY <1>1, ThenType
<1> QED BY <1>2 DEF Turned, Calm, Begins

LEMMA TurnedLess ==
    ASSUME NEW p, NEW r, NEW n \in Nat, NEW k \in Nat, n <= k, Turned(r, p, n)
    PROVE  Turned(r, p, k)
<1>1. Len(r.rest) \in Nat
  <2>1. r.rest \in P!Input
    BY DEF Turned, Calm, Begins, Result
  <2> QED BY <2>1, LenProperties DEF P!Input
<1> QED BY <1>1 DEF Turned, Calm, Begins

\* The digits of a list of parameters.
LEMMA ParameterDigit ==
    ASSUME NEW header \in Seq(P!Parameters), NEW k
    PROVE  P!Parameter(header, k) \in {"0", "1"}
<1> DEFINE of == {i \in DOMAIN header : header[i] # ";" /\
                      P!Cardinality({j \in 1..i : header[j] = ";"}) = k}
<1>1. Len(header) \in Nat /\ DOMAIN header = 1..Len(header)
  BY LenProperties
<1>2. P!Parameter(header, k) = IF of = {} THEN "0" ELSE header[P!Max(of)]
  BY DEF P!Parameter
<1>3. CASE of # {}
  <2>1. of \in SUBSET (0..Len(header))
    <3>1. ASSUME NEW i \in of PROVE i \in 0..Len(header)
      <4>1. i \in 1..Len(header)
        BY <1>1
      <4> HIDE DEF of
      <4> QED BY <1>1, <4>1
    <3> QED BY <3>1
  <2>2. P!Max(of) \in of
    <3> HIDE DEF of
    <3> QED BY <1>1, <1>3, <2>1, GreatestOf
  <2>3. header[P!Max(of)] # ";" /\ P!Max(of) \in 1..Len(header)
    <3> HIDE DEF P!Max
    <3> QED BY <1>1, <2>2
  <2>4. header[P!Max(of)] \in P!Parameters
    BY <2>3, ElementOfSeq
  <2> QED BY <1>2, <1>3, <2>3, <2>4 DEF P!Parameters
<1> QED BY <1>2, <1>3

LEMMA StoppedType ==
    ASSUME NEW r \in Result
    PROVE  LET t == [r EXCEPT !.stop = TRUE]
           IN  t \in Result /\ t.p = r.p /\ t.rest = r.rest /\ t.stop
<1> HIDE DEF Acts
<1> QED BY DEF Result

LEMMA InvokeType ==
    ASSUME NEW p \in P!Parser, NEW parameters \in Seq(P!Parameters), NEW rest \in P!Input
    PROVE  Turned(P!Invoke(p, parameters, rest), p, Len(rest))
<1> DEFINE id == P!Parameter(parameters, 0)
           size == Len(p.macros[id])
           frame == [id |-> id, bytes |-> p.macros[id]]
           q == [p EXCEPT !.expansion = @ + size, !.frames = Append(@, frame)]
           r == P!Invoke(p, parameters, rest)
<1>1. id \in {"0", "1"}
  BY ParameterDigit
<1>2. p.macros[id] \in P!Input /\ size \in Nat
  <2> HIDE DEF id
  <2>1. p.macros[id] \in P!Input
    BY <1>1, ParserFields
  <2> QED BY <2>1, LenProperties DEF P!Input
<1>3. p.expansion \in Nat /\ p.frames \in Seq(Frame) /\ Len(rest) \in Nat
      /\ p.expansion \in 0..ExpansionLimit /\ ExpansionLimit \in Nat
  <2>1. Len(rest) \in Nat /\ p.frames \in Seq(Frame) /\ p.expansion \in 0..ExpansionLimit
    BY ParserFields, LenProperties DEF P!Input
  <2>2. ExpansionLimit \in Nat
    BY LimitsAssumption
  <2> QED BY <2>1, <2>2
<1>4. ASSUME r = P!Took(p, rest, <<>>) \/ \E w \in Words : r = P!Took(p, rest, P!Diagnostic("CSI", w))
      PROVE  Calm(r, p, Len(rest))
  <2>1. PICK out \in Seq(Acts) : r = P!Took(p, rest, out)
    <3>1. "CSI" \in Words
      BY DEF Words
    <3> HIDE DEF r
    <3> QED BY <1>4, <3>1, SaysType
  <2> HIDE DEF r
  <2> QED BY <1>3, <2>1, CalmTook
<1>5. ASSUME r = [P!Took(q, rest, <<>>) EXCEPT !.stop = TRUE], size # 0,
             p.expansion + size <= ExpansionLimit
      PROVE  Begins(r, p, Len(rest))
  <2>1. frame \in Frame
    <3> HIDE DEF id
    <3> QED BY <1>1, <1>2 DEF Frame
  <2>2. Append(p.frames, frame) \in Seq(Frame) /\ Len(Append(p.frames, frame)) = Len(p.frames) + 1
    <3> HIDE DEF frame
    <3> QED BY <1>3, <2>1, AppendProperties
  <2>3. p.expansion + size \in 0..ExpansionLimit /\ p.expansion + size > p.expansion
    <3> HIDE DEF size
    <3> QED BY <1>2, <1>3, <1>5
  <2> DEFINE q1 == [p EXCEPT !.expansion = p.expansion + size]
  <2>4. q1 \in P!Parser /\ q1.frames = p.frames
    <3>1. q1 \in P!Parser
      <4> HIDE DEF size
      <4> QED BY <2>3, ParserWith
    <3> QED BY <3>1 DEF P!Parser
  <2>5. q = [q1 EXCEPT !.frames = Append(p.frames, frame)]
    <3> HIDE DEF size, frame
    <3> QED BY <2>4 DEF P!Parser
  <2>6. q \in P!Parser
    <3> HIDE DEF q1, frame, q
    <3> QED BY <2>2, <2>4, <2>5, ParserWith
  <2>7. q.frames = Append(p.frames, frame) /\ q.expansion = p.expansion + size
    <3> HIDE DEF size, frame
    <3> QED BY DEF P!Parser
  <2>8. <<>> \in Seq(Acts)
    BY SaysType
  <2>9. P!Took(q, rest, <<>>) \in Result
    <3> HIDE DEF q
    <3> QED BY <2>6, <2>8, TookType
  <2>10. P!Took(q, rest, <<>>).p = q /\ P!Took(q, rest, <<>>).rest = rest
    BY DEF P!Took
  <2>11. r \in Result /\ r.p = q /\ r.rest = rest /\ r.stop
    <3>1. r = [P!Took(q, rest, <<>>) EXCEPT !.stop = TRUE]
      BY <1>5
    <3> HIDE DEF q, r
    <3> QED BY <2>9, <2>10, <3>1, StoppedType
  <2> HIDE DEF q, r, size, frame
  <2> QED BY <1>3, <2>2, <2>3, <2>7, <2>11 DEF Begins
<1> DEFINE separated == \E i \in DOMAIN parameters : parameters[i] = ";"
           replayed == \E i \in DOMAIN p.frames : p.frames[i].id = id
<1>6. r = CASE separated -> P!Took(p, rest, P!Diagnostic("CSI", "malformed"))
            [] size = 0 -> P!Took(p, rest, <<>>)
            [] size # 0 /\ replayed -> P!Took(p, rest, P!Diagnostic("CSI", "recursive"))
            [] OTHER ->
                 IF p.expansion + size > ExpansionLimit
                 THEN P!Took(p, rest, P!Diagnostic("CSI", "expansion"))
                 ELSE [P!Took(q, rest, <<>>) EXCEPT !.stop = TRUE]
  BY DEF P!Invoke
<1>7. \/ r = P!Took(p, rest, P!Diagnostic("CSI", "malformed"))
      \/ r = P!Took(p, rest, <<>>)
      \/ r = P!Took(p, rest, P!Diagnostic("CSI", "recursive"))
      \/ r = P!Took(p, rest, P!Diagnostic("CSI", "expansion"))
      \/ size # 0 /\ ~(p.expansion + size > ExpansionLimit)
         /\ r = [P!Took(q, rest, <<>>) EXCEPT !.stop = TRUE]
  <2> HIDE DEF r, size, q, separated, replayed
  <2> QED BY <1>6
<1>8. "malformed" \in Words /\ "recursive" \in Words /\ "expansion" \in Words
  BY DEF Words
<1>9. ~(p.expansion + size > ExpansionLimit) => p.expansion + size <= ExpansionLimit
  <2> HIDE DEF size
  <2> QED BY <1>2, <1>3
<1> HIDE DEF r, q, size
<1>10. Calm(r, p, Len(rest)) \/ Begins(r, p, Len(rest))
  BY <1>4, <1>5, <1>7, <1>8, <1>9
<1> QED BY <1>10 DEF Turned, r

LEMMA NoMacrosType == P!NoMacros \in [{"0", "1"} -> P!Input]
  BY EmptySeq DEF P!NoMacros, P!Input

LEMMA DefinedType ==
    ASSUME NEW macros \in [{"0", "1"} -> P!Input], NEW payload \in P!Input, P!HeaderEnd(payload) # 0
    PROVE  P!Defined(macros, payload) \in [{"0", "1"} -> P!Input]
<1> DEFINE end == P!HeaderEnd(payload)
           header == SubSeq(payload, 1, end - 1)
           hex == P!Parameter(header, 2) = "1"
           kept == IF P!Parameter(header, 1) = "1" THEN P!NoMacros
                   ELSE [macros EXCEPT ![P!Parameter(header, 0)] = <<>>]
           text == P!From(payload, end + 2)
           body == P!Decoded(text, hex)
<1>1. end \in Nat
  <2> DEFINE ends == {i \in 1..Len(payload) - 1 : payload[i] = "!" /\ payload[i + 1] = "z"}
  <2>1. P!HeaderEnd(payload) = P!Min(ends) /\ ends # {}
    BY DEF P!HeaderEnd
  <2>2. ends \in SUBSET Nat
    <3>1. Len(payload) \in Nat
      BY LenProperties DEF P!Input
    <3> QED BY <3>1
  <2> HIDE DEF ends
  <2> QED BY <2>1, <2>2, LeastOf
<1> HIDE DEF end
<1>2. kept \in [{"0", "1"} -> P!Input]
  <2>1. <<>> \in P!Input
    BY EmptySeq DEF P!Input
  <2> HIDE DEF header
  <2> QED BY <2>1, NoMacrosType
<1>3. text \in P!Input
  <2>1. end + 2 \in Nat /\ end + 2 >= 1
    BY <1>1
  <2> QED BY <2>1, FromProperties DEF P!Input
<1> HIDE DEF text, hex, kept, header
<1>4. ASSUME P!Encoded(text, hex) PROVE body \in P!Input
  <2>1. CASE hex
    <3> DEFINE d(i) == P!Hex(text[i])
    <3>1. Len(text) \in Nat /\ DOMAIN text = 1..Len(text)
      BY <1>3, LenProperties DEF P!Input
    <3>2. ASSUME NEW i \in 1..Len(text) PROVE d(i) \in P!Bytes
      <4>1. text[i] \in P!HexPairs
        BY <1>4, <2>1, <3>1 DEF P!Encoded
      <4> QED BY <4>1, BytesAre
    <3>3. [i \in 1..Len(text) |-> d(i)] \in Seq(P!Bytes)
      <4> HIDE DEF d
      <4> QED BY <3>1, <3>2, IsASeq
    <3>4. body = [i \in 1..Len(text) |-> d(i)]
      BY <2>1, <3>1 DEF P!Decoded
    <3> QED BY <3>3, <3>4 DEF P!Input
  <2>2. CASE ~hex
    BY <1>3, <2>2 DEF P!Decoded
  <2> QED BY <2>1, <2>2
<1>5. \/ P!Defined(macros, payload) = macros
      \/ /\ P!Encoded(text, hex)
         /\ P!Defined(macros, payload) = [kept EXCEPT ![P!Parameter(header, 0)] = body]
  BY DEF P!Defined, end, text, hex, kept, header
<1> HIDE DEF body
<1> QED BY <1>2, <1>4, <1>5

LEMMA FinishCsiType ==
    ASSUME NEW p \in P!Parser, NEW between \in P!Input, NEW final \in P!Letters, NEW rest \in P!Input
    PROVE  Turned(P!FinishCsi(p, between, final, rest), p, Len(rest))
<1> DEFINE body == P!Only(P!Bytes \ P!Controls, between)
           parameters == P!Only(P!Parameters, body)
           intermediates == P!Only(P!Intermediates, body)
           said == << <<"CSI", parameters, intermediates, final>> >>
           r == P!FinishCsi(p, between, final, rest)
<1>1. body \in P!Input
  <2>1. body \in Seq((P!Bytes \ P!Controls) \cap P!Bytes)
    BY OnlyType DEF P!Input
  <2> HIDE DEF body
  <2> QED BY <2>1, SeqMonotonic DEF P!Input
<1> HIDE DEF body
<1>2. parameters \in Seq(P!Parameters \cap P!Bytes) /\ intermediates \in Seq(P!Intermediates \cap P!Bytes)
  BY <1>1, OnlyType DEF P!Input
<1> HIDE DEF parameters, intermediates
<1>3. parameters \in Seq(P!Parameters) /\ parameters \in P!Input /\ intermediates \in P!Input
  BY <1>2, SeqMonotonic DEF P!Input
<1>4. said \in Seq(Acts)
  <2>1. final \in P!Bytes
    BY BytesAre
  <2>2. <<"CSI", parameters, intermediates, final>> \in Acts
    BY <1>3, <2>1 DEF Acts, Silent
  <2> QED BY <2>2, SaysType
<1>5. P!Diagnostic("CSI", "malformed") \in Seq(Acts)
  <2>1. "CSI" \in Words /\ "malformed" \in Words
    BY DEF Words
  <2> QED BY <2>1, SaysType
<1>6. Len(rest) \in Nat
  BY LenProperties DEF P!Input
<1> HIDE DEF said
<1>7. \/ r = P!Took(p, rest, P!Diagnostic("CSI", "malformed"))
      \/ r = P!Invoke(p, parameters, rest)
      \/ r = P!Took(p, rest, said)
  BY DEF P!FinishCsi, said, parameters, intermediates, body
<1>8. Calm(P!Took(p, rest, P!Diagnostic("CSI", "malformed")), p, Len(rest))
  BY <1>5, <1>6, CalmTook
<1>9. Calm(P!Took(p, rest, said), p, Len(rest))
  BY <1>4, <1>6, CalmTook
<1>10. Turned(P!Invoke(p, parameters, rest), p, Len(rest))
  BY <1>3, InvokeType
<1> HIDE DEF r
<1> QED BY <1>7, <1>8, <1>9, <1>10 DEF Turned, r

\* Bytes from the second on are fewer.
LEMMA FewerFrom ==
    ASSUME NEW bytes \in P!Input, bytes # <<>>, NEW i \in Nat, i >= 2
    PROVE  P!From(bytes, i) \in P!Input /\ Len(P!From(bytes, i)) <= Len(bytes) - 1
<1>1. Len(bytes) \in Nat /\ Len(bytes) # 0
  BY EmptySeq, LenProperties DEF P!Input
<1>2. /\ P!From(bytes, i) \in P!Input
      /\ Len(P!From(bytes, i)) = IF i <= Len(bytes) THEN Len(bytes) - i + 1 ELSE 0
  <2>1. i >= 1
    OBVIOUS
  <2> QED BY <2>1, FromProperties DEF P!Input
<1> QED BY <1>1, <1>2

LEMMA EmptyIsShort ==
    ASSUME NEW bytes \in P!Input, bytes # <<>>
    PROVE  /\ Len(bytes) - 1 \in Nat /\ <<>> \in P!Input /\ Len(<<>>) <= Len(bytes) - 1
           /\ bytes[1] \in P!Bytes /\ Tail(bytes) \in P!Input /\ Len(Tail(bytes)) = Len(bytes) - 1
<1>1. Len(bytes) \in Nat /\ Len(bytes) # 0 /\ <<>> \in P!Input /\ Len(<<>>) = 0
  BY EmptySeq, LenProperties DEF P!Input
<1>2. bytes[1] \in P!Bytes
  <2>1. 1 \in 1..Len(bytes)
    BY <1>1
  <2> QED BY <2>1, ElementOfSeq DEF P!Input
<1>3. Tail(bytes) \in P!Input /\ Len(Tail(bytes)) = Len(bytes) - 1
  BY HeadTailProperties DEF P!Input
<1> QED BY <1>1, <1>2, <1>3

LEMMA CsiType ==
    ASSUME NEW p \in P!Parser, NEW bytes \in P!Input, bytes # <<>>,
           bytes[1] = "9B" \/ Len(bytes) > 1
    PROVE  Turned(P!Csi(p, bytes), p, Len(bytes) - 1)
<1> DEFINE from == IF bytes[1] = "9B" THEN 2 ELSE 3
           bad == P!FirstIn(bytes, P!Letters \cup {"ESC", "9B"}, from)
           i == P!Min({bad, P!Max({from, PendingLimit + 1})})
           between == SubSeq(bytes, from, i - 1)
           done == P!ControlActions(between)
           n == Len(bytes) - 1
           q == [p EXCEPT !.prefix = <<bytes[1]>> \o P!Only(P!Bytes \ P!Controls, Tail(bytes))]
           q2 == [p EXCEPT !.discard = "CSI"]
           r == P!Csi(p, bytes)
<1>1. Len(bytes) \in Nat /\ n \in Nat /\ PendingLimit \in Nat
  BY EmptyIsShort, LimitsAssumption, LenProperties DEF P!Input
<1>2. from \in Nat /\ from >= 2 /\ from <= Len(bytes) + 1
  BY <1>1, EmptyIsShort
<1>3. /\ bad \in Nat /\ bad >= from /\ bad <= Len(bytes) + 1
      /\ bad <= Len(bytes) => bytes[bad] \in P!Letters \cup {"ESC", "9B"}
  <2>1. from >= 1
    BY <1>2
  <2> HIDE DEF from
  <2>2. bad \in Nat /\ \/ bad = Len(bytes) + 1
                       \/ bad \in from..Len(bytes) /\ bytes[bad] \in P!Letters \cup {"ESC", "9B"}
    BY <1>2, <2>1, FirstInProperties DEF P!Input
  <2> HIDE DEF bad
  <2> QED BY <1>1, <1>2, <2>2
<1> HIDE DEF bad, from
<1>4. i \in Nat /\ i >= from /\ i <= bad /\ (i <= PendingLimit => i = bad)
  <2> DEFINE top == P!Max({from, PendingLimit + 1})
  <2>1. top \in {from, PendingLimit + 1} /\ top >= from /\ top >= PendingLimit + 1
    <3> DEFINE m == from + PendingLimit + 1
    <3>1. m \in Nat /\ {from, PendingLimit + 1} \in SUBSET (0..m) /\ {from, PendingLimit + 1} # {}
      BY <1>1, <1>2
    <3> HIDE DEF m
    <3>2. /\ top \in {from, PendingLimit + 1}
          /\ \A k \in {from, PendingLimit + 1} : top >= k
      BY <3>1, GreatestOf
    <3> QED BY <3>2
  <2> HIDE DEF top
  <2>2. top \in Nat
    BY <1>1, <1>2, <2>1
  <2>3. {bad, top} \in SUBSET Nat /\ {bad, top} # {}
    BY <1>3, <2>2
  <2>4. i \in {bad, top} /\ \A k \in {bad, top} : i <= k
    BY <2>3, LeastOf DEF top
  <2> HIDE DEF i
  <2> QED BY <1>1, <1>2, <1>3, <2>1, <2>2, <2>4
<1> HIDE DEF i
<1>5. between \in P!Input
  <2>1. from >= 1 /\ i - 1 \in Int /\ i - 1 <= Len(bytes)
    BY <1>1, <1>2, <1>3, <1>4
  <2> QED BY <1>2, <2>1, PartOf DEF P!Input
<1> HIDE DEF between
<1>6. done \in Seq(Acts)
  BY <1>5, ControlsType
<1> HIDE DEF done
<1>7. ASSUME NEW w \in Words PROVE done \o P!Diagnostic("CSI", w) \in Seq(Acts)
  <2>1. "CSI" \in Words
    BY DEF Words
  <2>2. P!Diagnostic("CSI", w) \in Seq(Acts)
    BY <2>1, SaysType
  <2> HIDE DEF Acts
  <2> QED BY <1>6, <2>2, ConcatProperties
<1>8. q \in P!Parser /\ q.frames = p.frames /\ q.expansion = p.expansion
  <2> DEFINE x == <<bytes[1]>> \o P!Only(P!Bytes \ P!Controls, Tail(bytes))
  <2>1. P!Only(P!Bytes \ P!Controls, Tail(bytes)) \in P!Input
    <3>1. P!Only(P!Bytes \ P!Controls, Tail(bytes)) \in Seq((P!Bytes \ P!Controls) \cap P!Bytes)
      BY EmptyIsShort, OnlyType DEF P!Input
    <3> QED BY <3>1, SeqMonotonic DEF P!Input
  <2>2. <<bytes[1]>> \in P!Input
    BY EmptyIsShort DEF P!Input
  <2>3. x \in P!Input
    BY <2>1, <2>2, ConcatProperties DEF P!Input
  <2> HIDE DEF x
  <2>4. q = [p EXCEPT !.prefix = x]
    BY DEF x
  <2> HIDE DEF q
  <2>5. q \in P!Parser
    BY <2>3, <2>4, ParserWith
  <2> QED BY <2>4, <2>5 DEF P!Parser
<1>9. q2 \in P!Parser /\ q2.frames = p.frames /\ q2.expansion = p.expansion
  <2>1. q2 \in P!Parser
    BY ParserWith
  <2> QED BY <2>1 DEF P!Parser
<1> HIDE DEF q, q2
<1>10. P!From(bytes, i) \in P!Input /\ Len(P!From(bytes, i)) <= n
  <2>1. i >= 2
    BY <1>2, <1>4
  <2> QED BY <1>4, <2>1, FewerFrom
<1>11. P!From(bytes, i + 1) \in P!Input /\ Len(P!From(bytes, i + 1)) <= n
  <2>1. i + 1 \in Nat /\ i + 1 >= 2
    BY <1>2, <1>4
  <2> QED BY <2>1, FewerFrom
<1>12. CASE i > Len(bytes)
  <2>1. r = P!Took(q, <<>>, done)
    BY <1>1, <1>4, <1>12 DEF P!Csi, done, between, i, bad, from, q
  <2>2. Calm(P!Took(q, <<>>, done), p, n)
    BY <1>1, <1>6, <1>8, EmptyIsShort, CalmTook
  <2> QED BY <2>1, <2>2 DEF Turned
<1>13. CASE i <= Len(bytes) /\ i > PendingLimit
  <2>1. r = P!Took(q2, P!From(bytes, i), done \o P!Diagnostic("CSI", "limit"))
    BY <1>1, <1>4, <1>13 DEF P!Csi, done, between, i, bad, from, q2
  <2>2. "limit" \in Words
    BY DEF Words
  <2>3. done \o P!Diagnostic("CSI", "limit") \in Seq(Acts)
    BY <1>7, <2>2
  <2>4. Calm(P!Took(q2, P!From(bytes, i), done \o P!Diagnostic("CSI", "limit")), p, n)
    BY <1>1, <1>9, <1>10, <2>3, CalmTook
  <2> QED BY <2>1, <2>4 DEF Turned
<1>14. CASE i <= Len(bytes) /\ i <= PendingLimit /\ bytes[i] \in {"ESC", "9B"}
  <2>1. r = P!Took(p, P!From(bytes, i), done \o P!Diagnostic("CSI", "unsupported"))
    <3>1. ~(i > Len(bytes)) /\ ~(i > PendingLimit) /\ bytes[i] \notin P!Letters
      BY <1>1, <1>4, <1>14 DEF P!Letters
    <3> QED BY <1>14, <3>1 DEF P!Csi, done, between, i, bad, from
  <2>2. "unsupported" \in Words
    BY DEF Words
  <2>3. done \o P!Diagnostic("CSI", "unsupported") \in Seq(Acts)
    BY <1>7, <2>2
  <2>4. Calm(P!Took(p, P!From(bytes, i), done \o P!Diagnostic("CSI", "unsupported")), p, n)
    BY <1>1, <1>10, <2>3, CalmTook
  <2> QED BY <2>1, <2>4 DEF Turned
<1>15. CASE i <= Len(bytes) /\ i <= PendingLimit /\ bytes[i] \in P!Letters
  <2> DEFINE f == P!FinishCsi(p, between, bytes[i], P!From(bytes, i + 1))
  <2>1. r = P!Then(done, f)
    <3>1. ~(i > Len(bytes)) /\ ~(i > PendingLimit) /\ bytes[i] \notin {"ESC", "9B"}
      BY <1>1, <1>4, <1>15 DEF P!Letters
    <3> QED BY <1>15, <3>1 DEF P!Csi, done, between, i, bad, from
  <2>2. Turned(f, p, Len(P!From(bytes, i + 1)))
    BY <1>5, <1>11, <1>15, FinishCsiType
  <2>3. Len(P!From(bytes, i + 1)) \in Nat
    BY <1>11, LenProperties DEF P!Input
  <2> HIDE DEF f
  <2>4. Turned(f, p, n)
    BY <1>1, <1>11, <2>2, <2>3, TurnedLess
  <2> HIDE DEF n
  <2>5. Turned(P!Then(done, f), p, n)
    BY <1>1, <1>6, <2>4, TurnedThen
  <2> QED BY <2>1, <2>5 DEF n
<1>16. i <= Len(bytes) /\ i <= PendingLimit => bytes[i] \in P!Letters \cup {"ESC", "9B"}
  BY <1>3, <1>4
<1> QED BY <1>1, <1>4, <1>12, <1>13, <1>14, <1>15, <1>16

LEMMA EscapeType ==
    ASSUME NEW p \in P!Parser, NEW bytes \in P!Input, bytes # <<>>
    PROVE  Turned(P!Escape(p, bytes), p, Len(bytes) - 1)
<1> DEFINE i == P!FirstIn(bytes, P!Bytes \ P!Intermediates, 2)
           size == P!Min({i, Len(bytes)})
           n == Len(bytes) - 1
           q1 == [p EXCEPT !.discard = "ESC"]
           q2 == [p EXCEPT !.prefix = bytes]
           q3 == IF i = 2 /\ bytes[i] = "c" THEN [p EXCEPT !.macros = P!NoMacros] ELSE p
           said == IF i = 2 /\ bytes[i] = "M" THEN << <<"ESC", "M">> >>
                   ELSE P!Diagnostic("ESC", "unsupported")
           r == P!Escape(p, bytes)
<1>1. Len(bytes) \in Nat /\ n \in Nat /\ PendingLimit \in Nat
  BY EmptyIsShort, LimitsAssumption, LenProperties DEF P!Input
<1>2. i \in Nat /\ i >= 2
  <2>1. i \in Nat /\ (i = Len(bytes) + 1 \/ i \in 2..Len(bytes))
    <3>1. 2 \in Nat /\ 2 >= 1
      OBVIOUS
    <3> QED BY <3>1, FirstInProperties DEF P!Input
  <2> HIDE DEF i
  <2> QED BY <1>1, <2>1
<1> HIDE DEF i
<1>3. size \in Nat
  <2>1. {i, Len(bytes)} \in SUBSET Nat /\ {i, Len(bytes)} # {}
    BY <1>1, <1>2
  <2>2. size \in {i, Len(bytes)}
    BY <2>1, LeastOf
  <2> HIDE DEF size
  <2> QED BY <2>1, <2>2
<1> HIDE DEF size
<1>4. \A w \in {"limit", "unsupported"} : P!Diagnostic("ESC", w) \in Seq(Acts)
  <2>1. "ESC" \in Words /\ "limit" \in Words /\ "unsupported" \in Words
    BY DEF Words
  <2> QED BY <2>1, SaysType
<1>5. said \in Seq(Acts)
  <2>1. <<"ESC", "M">> \in Acts
    BY DEF Acts, Silent
  <2> QED BY <1>4, <2>1, SaysType
<1>6. /\ q1 \in P!Parser /\ q1.frames = p.frames /\ q1.expansion = p.expansion
      /\ q2 \in P!Parser /\ q2.frames = p.frames /\ q2.expansion = p.expansion
  <2>1. q1 \in P!Parser /\ q2 \in P!Parser
    BY ParserWith
  <2> QED BY <2>1 DEF P!Parser
<1>7. q3 \in P!Parser /\ q3.frames = p.frames /\ q3.expansion = p.expansion
  <2> DEFINE q4 == [p EXCEPT !.macros = P!NoMacros]
  <2>1. q4 \in P!Parser
    BY NoMacrosType, ParserWith
  <2>2. q4.frames = p.frames /\ q4.expansion = p.expansion
    BY <2>1 DEF P!Parser
  <2> HIDE DEF q4
  <2> QED BY <2>1, <2>2 DEF q4
<1>8. P!From(bytes, i) \in P!Input /\ Len(P!From(bytes, i)) <= n
  BY <1>2, FewerFrom
<1>9. P!From(bytes, i + 1) \in P!Input /\ Len(P!From(bytes, i + 1)) <= n
  <2>1. i + 1 \in Nat /\ i + 1 >= 2
    BY <1>2
  <2> QED BY <2>1, FewerFrom
<1>10. <<>> \in Seq(Acts) /\ <<>> \in P!Input /\ Len(<<>>) <= n
  BY SaysType, EmptyIsShort
<1> DEFINE e1 == P!Took(q1, P!From(bytes, i), P!Diagnostic("ESC", "limit"))
           e2 == P!Took(q2, <<>>, <<>>)
           e3 == P!Took(p, P!From(bytes, i), P!Diagnostic("ESC", "unsupported"))
           e4 == P!Took(q3, P!From(bytes, i + 1), said)
<1> HIDE DEF q1, q2, q3, said
<1>11. r = CASE size > PendingLimit -> e1
             [] size <= PendingLimit /\ i > Len(bytes) -> e2
             [] size <= PendingLimit /\ i <= Len(bytes) ->
                  IF bytes[i] \notin P!Parameters \cup P!Letters THEN e3 ELSE e4
  BY DEF P!Escape, i, size, q1, q2, q3, said
<1>12. Calm(e1, p, n)
  BY <1>1, <1>4, <1>6, <1>8, CalmTook
<1>13. Calm(e2, p, n)
  BY <1>1, <1>6, <1>10, CalmTook
<1>14. Calm(e3, p, n)
  BY <1>1, <1>4, <1>8, CalmTook
<1>15. Calm(e4, p, n)
  BY <1>1, <1>5, <1>7, <1>9, CalmTook
<1> HIDE DEF e1, e2, e3, e4, r
<1>16. r = e1 \/ r = e2 \/ r = e3 \/ r = e4
  BY <1>1, <1>2, <1>3, <1>11
<1> QED BY <1>12, <1>13, <1>14, <1>15, <1>16 DEF Turned, r
-------------------------------------------------------------------------------
(***************************************************************************)
(* Strings.                                                                *)
(***************************************************************************)
\* The same parser, but for what it keeps of a string.
Same(q, p) == q.frames = p.frames /\ q.expansion = p.expansion /\ q.discard = p.discard

\* A part of the turn that stays in the string and takes nothing.
Within(r, p) == r \in Result /\ ~r.stop /\ Same(r.p, p) /\ r.p.family = p.family

LEMMA WithinTook ==
    ASSUME NEW p \in P!Parser, NEW q \in P!Parser, NEW rest \in P!Input, NEW out \in Seq(Acts),
           Same(q, p), q.family = p.family
    PROVE  Within(P!Took(q, rest, out), p)
<1>1. P!Took(q, rest, out) \in Result
  BY TookType
<1>2. P!Took(q, rest, out).stop = FALSE /\ P!Took(q, rest, out).p = q
  BY DEF P!Took
<1> QED BY <1>1, <1>2 DEF Within

LEMMA ClassifyType ==
    ASSUME NEW p \in P!Parser, NEW bytes \in P!Input
    PROVE  Within(P!ClassifyHeader(p, bytes), p)
<1> DEFINE end == P!FirstIn(bytes, P!Bytes \ ({"0", "1", ";", "BEL"}), 1)
           q1 == [p EXCEPT !.payload = <<>>, !.over = TRUE, !.header = FALSE]
           q2 == [p EXCEPT !.header = end > Len(bytes)]
           said == P!Diagnostic("DCS", "limit")
<1>1. /\ q1 \in P!Parser /\ Same(q1, p) /\ q1.family = p.family
      /\ q2 \in P!Parser /\ Same(q2, p) /\ q2.family = p.family
  <2>1. <<>> \in P!Input
    BY EmptySeq DEF P!Input
  <2>2. q1 \in P!Parser
    BY <2>1 DEF P!Parser, P!Input
  <2>3. q2 \in P!Parser
    <3>1. (end > Len(bytes)) \in BOOLEAN
      OBVIOUS
    <3> HIDE DEF end
    <3> QED BY <3>1, ParserWith
  <2> HIDE DEF end
  <2> QED BY <2>2, <2>3 DEF P!Parser, Same
<1>2. <<>> \in Seq(Acts) /\ said \in Seq(Acts)
  <2>1. "DCS" \in Words /\ "limit" \in Words
    BY DEF Words
  <2> QED BY <2>1, SaysType
<1> DEFINE e1 == P!Took(p, bytes, <<>>)
           e2 == P!Took(q1, bytes, said)
           e3 == P!Took(q2, bytes, <<>>)
           r == P!ClassifyHeader(p, bytes)
<1>3. r = e1 \/ r = e2 \/ r = e3
  BY DEF P!ClassifyHeader
<1> HIDE DEF q1, q2, said
<1>4. Within(e1, p)
  BY <1>2, WithinTook DEF Same
<1>5. Within(e2, p)
  BY <1>1, <1>2, WithinTook
<1>6. Within(e3, p)
  BY <1>1, <1>2, WithinTook
<1> HIDE DEF r, e1, e2, e3
<1> QED BY <1>3, <1>4, <1>5, <1>6 DEF r

LEMMA AppendPayloadType ==
    ASSUME NEW p \in P!Parser, NEW added \in P!Input
    PROVE  Within(P!AppendPayload(p, added), p)
<1> DEFINE q1 == [p EXCEPT !.payload = <<>>, !.over = TRUE]
           q2 == [p EXCEPT !.payload = @ \o added]
           said == P!Diagnostic(p.family, "limit")
<1>1. <<>> \in P!Input
  BY EmptySeq DEF P!Input
<1>2. p.payload \in P!Input /\ p.payload \o added \in P!Input /\ p.family \in Words
  <2>1. p.payload \in P!Input /\ p.family \in Words
    BY ParserFields DEF Words
  <2> QED BY <2>1, ConcatProperties DEF P!Input
<1>3. /\ q1 \in P!Parser /\ Same(q1, p) /\ q1.family = p.family
      /\ q2 \in P!Parser /\ Same(q2, p) /\ q2.family = p.family
  <2>1. q1 \in P!Parser
    BY <1>1 DEF P!Parser, P!Input
  <2>2. q2 \in P!Parser
    BY <1>2, ParserWith
  <2> QED BY <2>1, <2>2 DEF P!Parser, Same
<1>4. <<>> \in Seq(Acts) /\ said \in Seq(Acts)
  <2>1. "limit" \in Words
    BY DEF Words
  <2> QED BY <1>2, <2>1, SaysType
<1> DEFINE e1 == P!Took(p, <<>>, <<>>)
           e2 == P!Took(q1, <<>>, said)
           e3 == P!Took(q2, <<>>, <<>>)
           r == P!AppendPayload(p, added)
<1>5. r = e1 \/ r = e2 \/ r = e3
  BY DEF P!AppendPayload
<1> HIDE DEF q1, q2, said
<1>6. Within(e1, p)
  BY <1>1, <1>4, WithinTook DEF Same
<1>7. Within(e2, p)
  BY <1>1, <1>3, <1>4, WithinTook
<1>8. Within(e3, p)
  BY <1>1, <1>3, <1>4, WithinTook
<1> HIDE DEF r, e1, e2, e3
<1> QED BY <1>5, <1>6, <1>7, <1>8 DEF r

LEMMA AfterType ==
    ASSUME NEW b, NEW u \in Utf8
    PROVE  P!After(b, u) \in Utf8
<1>1. P!Started(b) \in Utf8
  BY DEF P!Started, P!Reset, Utf8
<1>2. u.left \in 0..2
  BY DEF Utf8
<1>3. u.left > 0 => [left |-> u.left - 1, high |-> FALSE] \in Utf8
  BY <1>2 DEF Utf8
<1>4. P!Reset \in Utf8
  BY DEF P!Reset, Utf8
<1>5. u.left # 0 => u.left > 0
  BY <1>2
<1> HIDE DEF Utf8
<1> QED BY <1>1, <1>3, <1>4, <1>5 DEF P!After

LEMMA ScanStatesType ==
    ASSUME NEW u \in Utf8, NEW bytes \in P!Input
    PROVE  P!ScanStates(u, bytes) \in [0..Len(bytes) -> Utf8]
<1> DEFINE n == Len(bytes)
           Body(f) == [i \in 0..Len(bytes) |-> IF i = 0 THEN u ELSE P!After(bytes[i], f[i - 1])]
           ff == CHOOSE f : f = Body(f)
           H == [ix \in (1..n) \X Utf8 |-> P!After(bytes[ix[1]], ix[2])]
<1>1. n \in Nat
  BY LenProperties DEF P!Input
<1>2. H \in [(1..n) \X Utf8 -> Utf8]
  BY AfterType
<1>3. PICK h : Iterates(h, H, n, u, Utf8)
  <2> HIDE DEF H, n
  <2> QED BY <1>1, <1>2, IterationExists
<1>4. h = Body(h)
  <2>1. h \in [0..n -> Utf8] /\ h[0] = u /\ \A i \in 1..n : h[i] = H[<<i, h[i - 1]>>]
    BY <1>3 DEF Iterates
  <2>2. ASSUME NEW i \in 1..n PROVE h[i] = P!After(bytes[i], h[i - 1])
    <3>1. h[i - 1] \in Utf8
      BY <1>1, <2>1
    <3> HIDE DEF n
    <3> QED BY <2>1, <3>1
  <2> QED BY <1>1, <2>1, <2>2
<1>5. ff = Body(ff)
  <2> HIDE DEF Body
  <2> QED BY <1>4
<1>6. P!ScanStates(u, bytes) = ff
  BY DEF P!ScanStates
<1> HIDE DEF ff
<1> DEFINE T == {k \in Nat : k \in 0..n => ff[k] \in Utf8}
<1>7. 0 \in T
  BY <1>1, <1>5
<1>8. ASSUME NEW k \in T PROVE k + 1 \in T
  <2> SUFFICES ASSUME k + 1 \in 0..n PROVE ff[k + 1] \in Utf8
    OBVIOUS
  <2>1. ff[k] \in Utf8
    BY <1>1
  <2>2. ff[k + 1] = P!After(bytes[k + 1], ff[k])
    BY <1>1, <1>5
  <2> QED BY <2>1, <2>2, AfterType
<1>9. T = Nat
  <2> HIDE DEF T
  <2>1. T \in SUBSET Nat
    BY DEF T
  <2> QED BY <1>7, <1>8, <2>1, SetInduction
<1> QED BY <1>1, <1>5, <1>6, <1>9

LEMMA OscType ==
    ASSUME NEW payload \in P!Input
    PROVE  P!OscActions(payload) \in Seq(Acts)
<1> DEFINE name == P!From(payload, 3)
           a1 == <<"icon", name>>
           a2 == <<"notify", "ICON", name>>
           a3 == <<"title", name>>
           a4 == <<"notify", "TITLE", name>>
<1>1. name \in P!Input
  <2>1. 3 \in Nat /\ 3 >= 1
    OBVIOUS
  <2> QED BY <2>1, FromProperties DEF P!Input
<1> HIDE DEF name
<1>2. a1 \in Acts /\ a2 \in Acts /\ a3 \in Acts /\ a4 \in Acts
  BY <1>1 DEF Acts, Notices, Silent
<1> DEFINE one == <<a1, a2>>
           two == <<a3, a4>>
           bad == P!Diagnostic("OSC", "unsupported")
<1> HIDE DEF a1, a2, a3, a4, Acts
<1>3. one \in Seq(Acts) /\ two \in Seq(Acts)
  BY <1>2
<1>4. one \o two \in Seq(Acts)
  BY <1>3, ConcatProperties
<1>5. bad \in Seq(Acts)
  <2>1. "OSC" \in Words /\ "unsupported" \in Words
    BY DEF Words
  <2> QED BY <2>1, SaysType
<1> HIDE DEF one, two, bad
<1>6. P!OscActions(payload) \in {one, one \o two, bad}
  BY DEF P!OscActions, one, two, bad, a1, a2, a3, a4, name
<1> QED BY <1>3, <1>4, <1>5, <1>6

Ends == {"ST", "RECOVERY", "CANCEL"}

LEMMA TerminatorIs ==
    ASSUME NEW family, NEW bytes, NEW i
    PROVE  P!Terminator(family, bytes, i) \in Ends \cup {"none"}
  BY DEF P!Terminator, Ends

LEMMA FinishStringType ==
    ASSUME NEW p \in P!Parser, p.family # "NONE", NEW end \in Ends, NEW rest \in P!Input
    PROVE  LET r == P!FinishString(p, end, rest)
           IN  /\ r \in Result /\ ~r.stop /\ Same(r.p, p)
               /\ r.p.family = "NONE" /\ r.rest = rest
<1> DEFINE closed == [p EXCEPT !.family = "NONE", !.payload = <<>>, !.over = FALSE,
                               !.header = FALSE, !.utf8 = P!Reset]
           named == P!OscActions(p.payload)
           q == [closed EXCEPT !.macros = P!Defined(@, p.payload)]
           bad == P!Diagnostic(p.family, "recovery")
           none == P!Diagnostic("DCS", "unsupported")
           r == P!FinishString(p, end, rest)
<1>1. p.payload \in P!Input /\ p.macros \in [{"0", "1"} -> P!Input] /\ p.family \in {"OSC", "DCS"}
      /\ p.over \in BOOLEAN
  BY ParserFields
<1>2. closed \in P!Parser
  <2>1. <<>> \in P!Input /\ P!Reset \in Utf8
    BY EmptySeq DEF P!Input, P!Reset, Utf8
  <2>2. [p EXCEPT !.family = "NONE", !.payload = <<>>, !.over = FALSE, !.header = FALSE] \in P!Parser
    BY <2>1 DEF P!Parser, P!Input
  <2>3. closed = [[p EXCEPT !.family = "NONE", !.payload = <<>>, !.over = FALSE, !.header = FALSE]
                   EXCEPT !.utf8 = P!Reset]
    BY <2>2 DEF P!Parser
  <2> QED BY <2>1, <2>2, <2>3, ParserWith
<1>3. /\ Same(closed, p) /\ closed.family = "NONE" /\ closed.macros = p.macros
  BY <1>2 DEF P!Parser, Same
<1>4. /\ <<>> \in Seq(Acts) /\ named \in Seq(Acts) /\ bad \in Seq(Acts) /\ none \in Seq(Acts)
  <2>1. /\ "recovery" \in Words /\ "DCS" \in Words /\ "unsupported" \in Words /\ p.family \in Words
    BY <1>1 DEF Words
  <2> QED BY <1>1, <2>1, SaysType, OscType
<1> HIDE DEF closed
<1>5. P!HeaderEnd(p.payload) # 0 => q \in P!Parser /\ Same(q, p) /\ q.family = "NONE"
  <2> SUFFICES ASSUME P!HeaderEnd(p.payload) # 0
               PROVE  q \in P!Parser /\ Same(q, p) /\ q.family = "NONE"
    OBVIOUS
  <2> DEFINE x == P!Defined(closed.macros, p.payload)
  <2>1. x \in [{"0", "1"} -> P!Input]
    BY <1>1, <1>3, DefinedType
  <2>2. q = [closed EXCEPT !.macros = x]
    OBVIOUS
  <2> HIDE DEF x, q
  <2>3. q \in P!Parser
    BY <1>2, <2>1, <2>2, ParserWith
  <2>4. Same(q, closed) /\ q.family = closed.family
    BY <1>2, <2>2 DEF P!Parser, Same
  <2> QED BY <1>3, <2>3, <2>4 DEF Same
<1> DEFINE e1 == P!Took(closed, rest, <<>>)
           e2 == P!Took(closed, rest, bad)
           e3 == P!Took(closed, rest, named)
           e4 == P!Took(q, rest, <<>>)
           e5 == P!Took(closed, rest, none)
           Good(t) == /\ t \in Result /\ ~t.stop /\ Same(t.p, p)
                      /\ t.p.family = "NONE" /\ t.rest = rest
<1> HIDE DEF bad, named, none, q
<1>6. ASSUME NEW c \in P!Parser, Same(c, p), c.family = "NONE", NEW out \in Seq(Acts)
      PROVE  Good(P!Took(c, rest, out))
  <2>1. P!Took(c, rest, out) \in Result
    BY TookType
  <2>2. P!Took(c, rest, out).stop = FALSE /\ P!Took(c, rest, out).p = c
        /\ P!Took(c, rest, out).rest = rest
    BY DEF P!Took
  <2> QED BY <1>6, <2>1, <2>2
<1>7. r = CASE p.over \/ end = "CANCEL" -> e1
            [] ~p.over /\ end = "RECOVERY" -> e2
            [] ~p.over /\ end = "ST" /\ p.family = "OSC" -> e3
            [] ~p.over /\ end = "ST" /\ p.family = "DCS" ->
                  IF P!HeaderEnd(p.payload) # 0 THEN e4 ELSE e5
  BY DEF P!FinishString, closed, bad, named, none, q
<1>8. Good(e1) /\ Good(e2) /\ Good(e3) /\ Good(e5)
  BY <1>2, <1>3, <1>4, <1>6
<1>9. P!HeaderEnd(p.payload) # 0 => Good(e4)
  BY <1>4, <1>5, <1>6
<1> HIDE DEF Good, e1, e2, e3, e4, e5, r
<1>10. Good(r)
  BY <1>1, <1>7, <1>8, <1>9 DEF Ends
<1> QED BY <1>10 DEF Good, r

\* A turn within a string ends it or takes all the bytes.
Strung(r, p, n) ==
    /\ r \in Result /\ ~r.stop /\ Same(r.p, p)
    /\ Len(r.rest) <= n
    /\ r.p.family = "NONE" \/ r.rest = <<>>

LEMMA StrungThen ==
    ASSUME NEW p, NEW n, NEW r, NEW out \in Seq(Acts), Strung(r, p, n)
    PROVE  Strung(P!Then(out, r), p, n)
<1>1. r \in Result
  BY DEF Strung
<1>2. /\ P!Then(out, r) \in Result /\ P!Then(out, r).stop = r.stop
      /\ P!Then(out, r).p = r.p /\ P!Then(out, r).rest = r.rest
  BY <1>1, ThenType
<1> QED BY <1>2 DEF Strung

LEMMA AppendUntilType ==
    ASSUME NEW p \in P!Parser, p.family # "NONE", NEW bytes \in P!Input,
           NEW u \in [0..Len(bytes) -> Utf8], NEW ends \in SUBSET (1..Len(bytes)),
           \A i \in ends : P!Terminator(p.family, bytes, i) # "none"
    PROVE  Strung(P!AppendUntil(p, bytes, u, ends), p, Len(bytes))
<1> DEFINE open == bytes # <<>> /\ P!Last(bytes) = "ESC"
           at == P!Min(ends)
           end == P!Terminator(p.family, bytes, at)
           eaten == CASE end = "RECOVERY" -> 0
                      [] end = "ST" /\ bytes[at] = "ESC" -> 2
                      [] OTHER -> 1
           added == IF ends # {} THEN SubSeq(bytes, 1, at - 1)
                    ELSE IF open THEN P!Front(bytes) ELSE bytes
           a == P!AppendPayload(p, added)
           kept == IF open THEN <<"ESC">> ELSE <<>>
           q == [a.p EXCEPT !.utf8 = P!Carried(u, bytes), !.prefix = kept]
           rest == P!From(bytes, at + eaten)
           inner == IF ends = {} THEN P!Took(q, <<>>, <<>>) ELSE P!FinishString(a.p, end, rest)
           n == Len(bytes)
<1>1. n \in Nat
  BY LenProperties DEF P!Input
<1>2. ends # {} => at \in 1..n
  <2>1. ends \in SUBSET Nat
    BY <1>1
  <2> QED BY <2>1, LeastOf
<1>3. added \in P!Input
  <2>1. ends # {} => SubSeq(bytes, 1, at - 1) \in P!Input
    <3> SUFFICES ASSUME ends # {} PROVE SubSeq(bytes, 1, at - 1) \in P!Input
      OBVIOUS
    <3>1. at - 1 \in Int /\ at - 1 <= Len(bytes) /\ 1 \in Nat /\ 1 >= 1
      BY <1>1, <1>2
    <3> HIDE DEF at
    <3> QED BY <3>1, PartOf DEF P!Input
  <2>2. P!Front(bytes) \in P!Input
    <3>1. Len(bytes) - 1 \in Int /\ Len(bytes) - 1 <= Len(bytes) /\ 1 \in Nat /\ 1 >= 1
      BY <1>1
    <3> QED BY <3>1, PartOf DEF P!Input, P!Front
  <2> HIDE DEF at, open
  <2> QED BY <2>1, <2>2
<1>4. P!AppendUntil(p, bytes, u, ends) = P!Then(a.out, inner)
  BY DEF P!AppendUntil
<1> HIDE DEF added
<1>5. a \in Result /\ ~a.stop /\ Same(a.p, p) /\ a.p.family = p.family
  BY <1>3, AppendPayloadType DEF Within
<1>6. a.p \in P!Parser /\ a.out \in Seq(Acts)
  BY <1>5 DEF Result
<1> HIDE DEF a
<1>7. CASE ends = {}
  <2>1. P!Carried(u, bytes) \in Utf8
    BY <1>1 DEF P!Carried
  <2>2. kept \in P!Input
    <3>1. <<>> \in P!Input /\ <<"ESC">> \in P!Input
      BY EmptySeq, BytesAre DEF P!Input
    <3> HIDE DEF open
    <3> QED BY <3>1
  <2> DEFINE q1 == [a.p EXCEPT !.utf8 = P!Carried(u, bytes)]
  <2>3. q1 \in P!Parser
    BY <1>6, <2>1, ParserWith
  <2>4. q = [q1 EXCEPT !.prefix = kept]
    <3> HIDE DEF kept
    <3> QED BY <1>6 DEF P!Parser
  <2>5. q \in P!Parser
    <3> HIDE DEF q1, q, kept
    <3> QED BY <2>2, <2>3, <2>4, ParserWith
  <2>6. Same(q, p)
    <3> HIDE DEF kept
    <3> QED BY <1>5, <1>6 DEF Same, P!Parser
  <2>7. <<>> \in P!Input /\ Len(<<>>) = 0 /\ <<>> \in Seq(Acts)
    BY EmptySeq, SaysType DEF P!Input
  <2>8. inner = P!Took(q, <<>>, <<>>)
    BY <1>7
  <2> HIDE DEF q, inner
  <2>9. P!Took(q, <<>>, <<>>) \in Result
    BY <2>5, <2>7, TookType
  <2>10. P!Took(q, <<>>, <<>>).stop = FALSE /\ P!Took(q, <<>>, <<>>).p = q
         /\ P!Took(q, <<>>, <<>>).rest = <<>>
    BY DEF P!Took
  <2>11. Strung(inner, p, n)
    BY <1>1, <2>6, <2>7, <2>8, <2>9, <2>10 DEF Strung
  <2> QED BY <1>4, <1>6, <2>11, StrungThen
<1>8. CASE ends # {}
  <2>1. end \in Ends
    <3>1. at \in ends
      <4>1. ends \in SUBSET Nat
        BY <1>1
      <4> QED BY <1>8, <4>1, LeastOf
    <3>2. end # "none"
      <4> HIDE DEF at
      <4> QED BY <3>1
    <3>3. end \in Ends \cup {"none"}
      BY TerminatorIs
    <3> HIDE DEF end
    <3> QED BY <3>2, <3>3
  <2>2. eaten \in {0, 1, 2}
    <3> HIDE DEF end, at
    <3> QED OBVIOUS
  <2>3. at + eaten \in Nat /\ at + eaten >= 1
    <3> HIDE DEF eaten, at
    <3> QED BY <1>1, <1>2, <1>8, <2>2
  <2> HIDE DEF eaten, end, at
  <2>4. /\ rest \in P!Input
        /\ Len(rest) = IF at + eaten <= Len(bytes) THEN Len(bytes) - (at + eaten) + 1 ELSE 0
    <3> DEFINE k == at + eaten
    <3>1. k \in Nat /\ k >= 1
      BY <2>3
    <3> HIDE DEF k
    <3>2. /\ P!From(bytes, k) \in P!Input
          /\ Len(P!From(bytes, k)) = IF k <= Len(bytes) THEN Len(bytes) - k + 1 ELSE 0
      BY <3>1, FromProperties DEF P!Input
    <3> QED BY <3>2 DEF k
  <2>5. Len(rest) <= n
    <3> HIDE DEF rest
    <3> QED BY <1>1, <2>3, <2>4
  <2>6. inner = P!FinishString(a.p, end, rest)
    BY <1>8
  <2> HIDE DEF inner, rest
  <2>7. /\ inner \in Result /\ ~inner.stop /\ Same(inner.p, a.p)
        /\ inner.p.family = "NONE" /\ inner.rest = rest
    BY <1>5, <1>6, <2>1, <2>4, <2>6, FinishStringType
  <2>8. Strung(inner, p, n)
    BY <1>5, <2>5, <2>7 DEF Strung, Same
  <2> QED BY <1>4, <1>6, <2>8, StrungThen
<1> QED BY <1>7, <1>8

LEMMA ContinueStringType ==
    ASSUME NEW q \in P!Parser, q.family # "NONE", NEW bytes \in P!Input
    PROVE  Strung(P!ContinueString(q, bytes), q, Len(bytes))
<1> DEFINE c == P!ClassifyHeader(q, bytes)
           u == P!ScanStates(q.utf8, bytes)
           ends == {i \in DOMAIN bytes : /\ ~P!Consumes(bytes[i], u[i - 1])
                                         /\ P!Terminator(q.family, bytes, i) # "none"}
           inner == P!AppendUntil(c.p, bytes, u, ends)
<1>1. P!ContinueString(q, bytes) = P!Then(c.out, inner)
  BY DEF P!ContinueString
<1>2. c \in Result /\ ~c.stop /\ Same(c.p, q) /\ c.p.family = q.family
  BY ClassifyType DEF Within
<1>3. c.p \in P!Parser /\ c.out \in Seq(Acts)
  <2> HIDE DEF c
  <2> QED BY <1>2 DEF Result
<1>4. u \in [0..Len(bytes) -> Utf8]
  BY ParserFields, ScanStatesType
<1> HIDE DEF c, u
<1>5. ends \in SUBSET (1..Len(bytes)) /\ \A i \in ends : P!Terminator(q.family, bytes, i) # "none"
  <2>1. DOMAIN bytes = 1..Len(bytes)
    BY LenProperties DEF P!Input
  <2> QED BY <2>1
<1> HIDE DEF ends
<1>6. Strung(inner, c.p, Len(bytes))
  BY <1>2, <1>3, <1>4, <1>5, AppendUntilType
<1> HIDE DEF inner
<1>7. Strung(inner, q, Len(bytes))
  BY <1>2, <1>6 DEF Strung, Same
<1> QED BY <1>1, <1>3, <1>7, StrungThen

LEMMA StartStringType ==
    ASSUME NEW p \in P!Parser, NEW family \in {"OSC", "DCS"}, NEW bytes \in P!Input
    PROVE  Strung(P!StartString(p, family, bytes), p, Len(bytes))
<1> DEFINE q == [p EXCEPT !.family = family, !.payload = <<>>, !.over = FALSE,
                          !.header = (family = "DCS"), !.utf8 = P!Reset]
           q1 == [p EXCEPT !.family = family, !.payload = <<>>, !.over = FALSE,
                           !.header = (family = "DCS")]
<1>1. <<>> \in P!Input /\ P!Reset \in Utf8 /\ (family = "DCS") \in BOOLEAN
  BY EmptySeq DEF P!Input, P!Reset, Utf8
<1>2. q1 \in P!Parser
  BY <1>1 DEF P!Parser, P!Input
<1>3. q = [q1 EXCEPT !.utf8 = P!Reset]
  BY <1>2 DEF P!Parser
<1>4. q \in P!Parser
  <2> HIDE DEF q1, q
  <2> QED BY <1>1, <1>2, <1>3, ParserWith
<1>5. Same(q, p) /\ q.family = family
  BY <1>4 DEF Same, P!Parser
<1>6. P!StartString(p, family, bytes) = P!ContinueString(q, bytes)
  BY DEF P!StartString
<1> HIDE DEF q
<1>7. Strung(P!ContinueString(q, bytes), q, Len(bytes))
  BY <1>4, <1>5, ContinueStringType
<1> QED BY <1>5, <1>6, <1>7 DEF Strung, Same
-------------------------------------------------------------------------------
(***************************************************************************)
(* The parse loop: a turn ends a replay's wait or leaves less to do.       *)
(***************************************************************************)
LEMMA ScalarType ==
    ASSUME NEW p \in P!Parser, NEW bytes \in P!Input, bytes # <<>>
    PROVE  Calm(P!Scalar(p, bytes), p, Len(bytes) - 1)
<1> DEFINE run == P!ScalarRun(bytes)
           n == Len(bytes) - 1
           q == [p EXCEPT !.prefix = bytes]
           whole == P!Text(SubSeq(bytes, 1, run))
           bad == P!Text(<<"replacement">>) \o P!Diagnostic("PRINTABLE", "malformed")
           e1 == P!Took(p, P!From(bytes, run + 1), whole)
           e2 == P!Took(q, <<>>, <<>>)
           e3 == P!Took(p, Tail(bytes), bad)
           r == P!Scalar(p, bytes)
<1>1. Len(bytes) \in Nat /\ n \in Nat /\ Len(bytes) = n + 1
  BY EmptyIsShort, LenProperties DEF P!Input
<1>2. run \in Nat /\ run >= 1 /\ run <= Len(bytes)
  <2> DEFINE u == P!ScanStates(P!Reset, bytes)
             ks == {k \in 1..Len(bytes) : \A i \in 2..k : P!Continues(bytes[i], u[i - 1])}
  <2>1. run = P!Max(ks)
    BY DEF P!ScalarRun
  <2>2. ks \in SUBSET (0..Len(bytes)) /\ ks # {} /\ ks \subseteq 1..Len(bytes)
    <3>1. 1 \in ks
      BY <1>1
    <3>2. ks \subseteq 1..Len(bytes)
      OBVIOUS
    <3> HIDE DEF ks
    <3> QED BY <1>1, <3>1, <3>2
  <2> HIDE DEF ks
  <2>3. P!Max(ks) \in ks
    BY <1>1, <2>2, GreatestOf
  <2>4. run \in 1..Len(bytes)
    BY <2>1, <2>2, <2>3
  <2> HIDE DEF run
  <2> QED BY <1>1, <2>4
<1> HIDE DEF run
<1>3. whole \in Seq(Acts) /\ bad \in Seq(Acts) /\ <<>> \in Seq(Acts)
  <2> DEFINE bs == P!Bytes \cup {"replacement"}
  <2>1. SubSeq(bytes, 1, run) \in P!Input
    <3>1. 1 \in Nat /\ 1 >= 1 /\ run \in Int
      BY <1>2
    <3> QED BY <1>2, <3>1, PartOf DEF P!Input
  <2>2. SubSeq(bytes, 1, run) \in Seq(bs)
    BY <2>1, SeqMonotonic DEF P!Input
  <2>3. <<"replacement">> \in Seq(bs)
    OBVIOUS
  <2>4. "PRINTABLE" \in Words /\ "malformed" \in Words
    BY DEF Words
  <2>5. /\ P!Text(SubSeq(bytes, 1, run)) \in Seq(Acts) /\ P!Text(<<"replacement">>) \in Seq(Acts)
        /\ P!Diagnostic("PRINTABLE", "malformed") \in Seq(Acts) /\ <<>> \in Seq(Acts)
    BY <2>2, <2>3, <2>4, SaysType
  <2> HIDE DEF Acts
  <2> QED BY <2>5, ConcatProperties
<1>4. q \in P!Parser /\ q.frames = p.frames /\ q.expansion = p.expansion
  <2>1. q \in P!Parser
    BY ParserWith
  <2> QED BY <2>1 DEF P!Parser
<1>5. P!From(bytes, run + 1) \in P!Input /\ Len(P!From(bytes, run + 1)) <= n
  <2>1. run + 1 \in Nat /\ run + 1 >= 2
    BY <1>2
  <2> QED BY <2>1, FewerFrom
<1>6. Tail(bytes) \in P!Input /\ Len(Tail(bytes)) <= n /\ <<>> \in P!Input /\ Len(<<>>) <= n
  BY <1>1, EmptyIsShort
<1>7. r = e1 \/ r = e2 \/ r = e3
  BY DEF P!Scalar, run
<1> HIDE DEF q, whole, bad
<1>8. Calm(e1, p, n)
  BY <1>1, <1>3, <1>5, CalmTook
<1>9. Calm(e2, p, n)
  BY <1>1, <1>3, <1>4, <1>6, CalmTook
<1>10. Calm(e3, p, n)
  BY <1>1, <1>3, <1>6, CalmTook
<1> HIDE DEF r, e1, e2, e3
<1> QED BY <1>7, <1>8, <1>9, <1>10 DEF r

\* What is left to do: the bytes, and what the bytes are given to.
Left(p, bytes) ==
    3 * Len(bytes) + (IF p.discard = "NONE" THEN 0 ELSE 1) + (IF p.family = "NONE" THEN 0 ELSE 1)

LEMMA LeftIs ==
    ASSUME NEW p \in P!Parser, NEW bytes \in P!Input
    PROVE  /\ Left(p, bytes) \in Nat
           /\ 3 * Len(bytes) <= Left(p, bytes) /\ Left(p, bytes) <= 3 * Len(bytes) + 2
           /\ p.discard = "NONE" => Left(p, bytes) <= 3 * Len(bytes) + 1
           /\ p.discard = "NONE" /\ p.family = "NONE" => Left(p, bytes) = 3 * Len(bytes)
<1>1. Len(bytes) \in Nat
  BY LenProperties DEF P!Input
<1> QED BY <1>1 DEF Left

\* One turn: it begins a replay, or goes on with the same frames and less to do.
Goes(r, p, bytes) ==
    \/ Begins(r, p, Len(bytes))
    \/ Calm(r, p, Len(bytes)) /\ Left(r.p, r.rest) < Left(p, bytes)

LEMMA GoesOn ==
    ASSUME NEW p \in P!Parser, NEW bytes \in P!Input, bytes # <<>>, NEW r,
           Turned(r, p, Len(bytes) - 1)
    PROVE  Goes(r, p, bytes)
<1>1. Len(bytes) - 1 \in Nat /\ Len(bytes) \in Nat
  BY EmptyIsShort, LenProperties DEF P!Input
<1>2. Turned(r, p, Len(bytes))
  BY <1>1, TurnedLess
<1>3. ASSUME Calm(r, p, Len(bytes) - 1) PROVE Left(r.p, r.rest) < Left(p, bytes)
  <2>1. r.p \in P!Parser /\ r.rest \in P!Input /\ Len(r.rest) <= Len(bytes) - 1
    BY <1>3 DEF Calm, Result
  <2>2. /\ Left(r.p, r.rest) \in Nat /\ Left(r.p, r.rest) <= 3 * Len(r.rest) + 2
        /\ Left(p, bytes) \in Nat /\ 3 * Len(bytes) <= Left(p, bytes)
    BY <2>1, LeftIs
  <2>3. Len(r.rest) \in Nat
    BY <2>1, LenProperties DEF P!Input
  <2> QED BY <1>1, <2>1, <2>2, <2>3
<1>4. Begins(r, p, Len(bytes) - 1) => Begins(r, p, Len(bytes))
  <2>1. Begins(r, p, Len(bytes) - 1) => Len(r.rest) \in Nat
    BY LenProperties DEF Begins, Result, P!Input
  <2> QED BY <1>1, <2>1 DEF Begins
<1>5. Calm(r, p, Len(bytes) - 1) => Calm(r, p, Len(bytes))
  <2>1. Calm(r, p, Len(bytes) - 1) => Len(r.rest) \in Nat
    BY LenProperties DEF Calm, Result, P!Input
  <2> QED BY <1>1, <2>1 DEF Calm
<1> QED BY <1>3, <1>4, <1>5 DEF Turned, Goes

\* In a string, from these bytes or from fewer.
LEMMA StringGoesOn ==
    ASSUME NEW p \in P!Parser, p.discard = "NONE", NEW bytes \in P!Input, bytes # <<>>, NEW r,
           \/ p.family # "NONE" /\ Strung(r, p, Len(bytes))
           \/ Strung(r, p, Len(bytes) - 1)
    PROVE  Goes(r, p, bytes)
<1>1. Len(bytes) \in Nat /\ Len(bytes) >= 1
  BY EmptyIsShort, LenProperties DEF P!Input
<1>2. /\ r \in Result /\ ~r.stop /\ Same(r.p, p) /\ (r.p.family = "NONE" \/ r.rest = <<>>)
  BY DEF Strung
<1>3. r.p \in P!Parser /\ r.rest \in P!Input
  BY <1>2 DEF Result
<1>4. Len(r.rest) \in Nat
  BY <1>3, LenProperties DEF P!Input
<1>5. Len(r.rest) <= Len(bytes) /\ (p.family # "NONE" \/ Len(r.rest) <= Len(bytes) - 1)
  BY <1>1, <1>4 DEF Strung
<1>6. Calm(r, p, Len(bytes))
  BY <1>2, <1>5 DEF Calm, Same
<1>7. r.p.discard = "NONE"
  BY <1>2 DEF Same
<1>8. /\ Left(r.p, r.rest) \in Nat /\ Left(p, bytes) \in Nat
      /\ Left(r.p, r.rest) <= 3 * Len(r.rest) + 1
      /\ r.p.family = "NONE" => Left(r.p, r.rest) = 3 * Len(r.rest)
      /\ 3 * Len(bytes) <= Left(p, bytes)
  BY <1>3, <1>7, LeftIs
<1>9. p.family # "NONE" => Left(p, bytes) = 3 * Len(bytes) + 1
  BY <1>1 DEF Left
<1>10. r.rest = <<>> => Len(r.rest) = 0
  BY EmptySeq
<1>11. Left(r.p, r.rest) < Left(p, bytes)
  BY <1>1, <1>2, <1>4, <1>5, <1>8, <1>9, <1>10
<1> QED BY <1>6, <1>11 DEF Goes

LEMMA DiscardGoesOn ==
    ASSUME NEW p \in P!Parser, p.discard # "NONE", NEW bytes \in P!Input, bytes # <<>>, NEW r,
           Calm(r, p, Len(bytes)), r.p.family = p.family, r.p.discard = "NONE" \/ r.rest = <<>>
    PROVE  Goes(r, p, bytes)
<1>1. Len(bytes) \in Nat /\ Len(bytes) >= 1
  BY EmptyIsShort, LenProperties DEF P!Input
<1>2. r.p \in P!Parser /\ r.rest \in P!Input /\ Len(r.rest) <= Len(bytes)
  BY DEF Calm, Result
<1>3. Len(r.rest) \in Nat /\ (r.rest = <<>> => Len(r.rest) = 0)
  BY <1>2, EmptySeq, LenProperties DEF P!Input
<1>4. CASE r.rest = <<>>
  <2>1. Left(r.p, r.rest) <= 2 /\ Left(r.p, r.rest) \in Nat
    BY <1>2, <1>3, <1>4, LeftIs
  <2>2. 3 * Len(bytes) <= Left(p, bytes) /\ Left(p, bytes) \in Nat
    BY LeftIs
  <2>3. Left(r.p, r.rest) < Left(p, bytes)
    BY <1>1, <2>1, <2>2
  <2> QED BY <2>3 DEF Goes
<1>5. CASE r.p.discard = "NONE"
  <2> DEFINE f == IF p.family = "NONE" THEN 0 ELSE 1
  <2>1. Left(r.p, r.rest) = 3 * Len(r.rest) + f
    BY <1>3, <1>5 DEF Left
  <2>2. Left(p, bytes) = 3 * Len(bytes) + 1 + f
    BY <1>1 DEF Left
  <2>3. f \in Nat
    OBVIOUS
  <2> HIDE DEF f
  <2>4. Left(r.p, r.rest) < Left(p, bytes)
    BY <1>1, <1>2, <1>3, <2>1, <2>2, <2>3
  <2> QED BY <2>4 DEF Goes
<1> QED BY <1>4, <1>5

LEMMA TookGoesOn ==
    ASSUME NEW p \in P!Parser, NEW q \in P!Parser, q.frames = p.frames, q.expansion = p.expansion,
           NEW bytes \in P!Input, bytes # <<>>, NEW rest \in P!Input, Len(rest) <= Len(bytes) - 1,
           NEW out \in Seq(Acts)
    PROVE  Goes(P!Took(q, rest, out), p, bytes)
<1>1. Len(bytes) - 1 \in Nat
  BY EmptyIsShort
<1>2. Calm(P!Took(q, rest, out), p, Len(bytes) - 1)
  BY <1>1, CalmTook
<1> QED BY <1>2, GoesOn DEF Turned

\* What an ESC begins.
LEMMA EscGoesOn ==
    ASSUME NEW p \in P!Parser, p.discard = "NONE", NEW bytes \in P!Input, bytes # <<>>
    PROVE  LET next == IF Len(bytes) > 1 THEN bytes[2] ELSE "none"
           IN  Goes(IF next = "none" THEN P!Took([p EXCEPT !.prefix = bytes], <<>>, <<>>)
                    ELSE IF P!EscStringOf(next) # "NONE"
                         THEN P!StartString(p, P!EscStringOf(next), P!From(bytes, 3))
                         ELSE IF next = "[" THEN P!Csi(p, bytes) ELSE P!Escape(p, bytes), p, bytes)
<1> DEFINE next == IF Len(bytes) > 1 THEN bytes[2] ELSE "none"
           q == [p EXCEPT !.prefix = bytes]
<1>1. Len(bytes) \in Nat /\ Len(bytes) - 1 \in Nat /\ <<>> \in P!Input /\ Len(<<>>) <= Len(bytes) - 1
  BY EmptyIsShort, LenProperties DEF P!Input
<1>2. Goes(P!Took(q, <<>>, <<>>), p, bytes)
  <2>1. q \in P!Parser
    BY ParserWith
  <2>2. q.frames = p.frames /\ q.expansion = p.expansion
    BY <2>1 DEF P!Parser
  <2>3. <<>> \in Seq(Acts)
    BY SaysType
  <2> HIDE DEF q
  <2> QED BY <1>1, <2>1, <2>2, <2>3, TookGoesOn
<1>3. ASSUME P!EscStringOf(next) # "NONE"
      PROVE  Goes(P!StartString(p, P!EscStringOf(next), P!From(bytes, 3)), p, bytes)
  <2> DEFINE r == P!StartString(p, P!EscStringOf(next), P!From(bytes, 3))
             rest == P!From(bytes, 3)
  <2>1. P!EscStringOf(next) \in {"OSC", "DCS"}
    BY <1>3 DEF P!EscStringOf
  <2>2. rest \in P!Input /\ Len(rest) <= Len(bytes) - 1
    <3>1. 3 \in Nat /\ 3 >= 2
      OBVIOUS
    <3> QED BY <3>1, FewerFrom
  <2> HIDE DEF rest
  <2>3. Strung(P!StartString(p, P!EscStringOf(next), rest), p, Len(rest))
    <3> HIDE DEF next
    <3> QED BY <2>1, <2>2, StartStringType
  <2>4. Strung(r, p, Len(rest))
    BY <2>3 DEF rest
  <2>5. Len(rest) \in Nat /\ Len(r.rest) \in Nat
    <3> HIDE DEF r
    <3>1. r.rest \in P!Input
      BY <2>4 DEF Strung, Result
    <3> QED BY <2>2, <3>1, LenProperties DEF P!Input
  <2> HIDE DEF r
  <2>6. Strung(r, p, Len(bytes) - 1)
    BY <1>1, <2>2, <2>4, <2>5 DEF Strung
  <2>7. Goes(r, p, bytes)
    BY <2>6, StringGoesOn
  <2> QED BY <2>7 DEF r
<1>4. Len(bytes) > 1 => Goes(P!Csi(p, bytes), p, bytes)
  <2> SUFFICES ASSUME Len(bytes) > 1 PROVE Goes(P!Csi(p, bytes), p, bytes)
    OBVIOUS
  <2>1. Turned(P!Csi(p, bytes), p, Len(bytes) - 1)
    BY CsiType
  <2> QED BY <2>1, GoesOn
<1>5. Goes(P!Escape(p, bytes), p, bytes)
  BY EscapeType, GoesOn
<1>6. next # "none" => Len(bytes) > 1
  OBVIOUS
<1> HIDE DEF next, q
<1> QED BY <1>2, <1>3, <1>4, <1>5, <1>6 DEF next, q

LEMMA TurnGoesOn ==
    ASSUME NEW p \in P!Parser, NEW bytes \in P!Input, bytes # <<>>
    PROVE  Goes(P!Turn(p, bytes), p, bytes)
<1> DEFINE b == bytes[1]
           next == IF Len(bytes) > 1 THEN bytes[2] ELSE "none"
           t1 == P!Took(p, Tail(bytes), P!Text(<<b>>))
           t2 == P!StartString(p, P!StringOf(b), Tail(bytes))
           t3 == P!Csi(p, bytes)
           t4 == IF next = "none" THEN P!Took([p EXCEPT !.prefix = bytes], <<>>, <<>>)
                 ELSE IF P!EscStringOf(next) # "NONE"
                      THEN P!StartString(p, P!EscStringOf(next), P!From(bytes, 3))
                      ELSE IF next = "[" THEN P!Csi(p, bytes) ELSE P!Escape(p, bytes)
           t5 == P!Took(p, Tail(bytes), P!ControlActions(<<b>>))
           t6 == P!Scalar(p, bytes)
           d1 == P!DiscardCsi(p, bytes)
           d2 == P!DiscardEscape(p, bytes)
           s == P!ContinueString(p, bytes)
           isText == b \in P!Printable
           isString == P!StringOf(b) # "NONE"
           isCsi == b = "9B"
           isEsc == b = "ESC"
           isControl == b \in {"BEL", "CAN"}
           t == P!Turn(p, bytes)
<1>1. t = CASE p.discard = "CSI" -> d1
            [] p.discard = "ESC" -> d2
            [] p.discard = "NONE" /\ p.family # "NONE" -> s
            [] OTHER -> CASE isText -> t1
                          [] isString -> t2
                          [] isCsi -> t3
                          [] isEsc -> t4
                          [] isControl -> t5
                          [] OTHER -> t6
  BY DEF P!Turn
<1>2. /\ b \in P!Bytes /\ Tail(bytes) \in P!Input /\ Len(Tail(bytes)) = Len(bytes) - 1
      /\ Len(bytes) - 1 \in Nat
  BY EmptyIsShort
<1>3. p.discard = "CSI" => Goes(d1, p, bytes)
  BY DiscardCsiType, DiscardGoesOn
<1>4. p.discard = "ESC" => Goes(d2, p, bytes)
  BY DiscardEscapeType, DiscardGoesOn
<1>5. p.discard = "NONE" /\ p.family # "NONE" => Goes(s, p, bytes)
  BY ContinueStringType, StringGoesOn
<1>6. Goes(t1, p, bytes)
  <2>1. <<b>> \in Seq(P!Bytes \cup {"replacement"})
    BY <1>2
  <2>2. P!Text(<<b>>) \in Seq(Acts)
    BY <2>1, SaysType
  <2>3. Len(Tail(bytes)) <= Len(bytes) - 1
    BY <1>2
  <2> HIDE DEF b
  <2> QED BY <1>2, <2>2, <2>3, TookGoesOn
<1>7. p.discard = "NONE" /\ isString => Goes(t2, p, bytes)
  <2> SUFFICES ASSUME p.discard = "NONE", isString PROVE Goes(t2, p, bytes)
    OBVIOUS
  <2>1. P!StringOf(b) \in {"OSC", "DCS"}
    BY DEF P!StringOf
  <2>2. Strung(t2, p, Len(Tail(bytes)))
    <3> HIDE DEF b
    <3> QED BY <1>2, <2>1, StartStringType
  <2>3. Strung(t2, p, Len(bytes) - 1)
    <3> HIDE DEF t2
    <3> QED BY <1>2, <2>2
  <2> HIDE DEF t2
  <2> QED BY <2>3, StringGoesOn
<1>8. isCsi => Goes(t3, p, bytes)
  <2> SUFFICES ASSUME isCsi PROVE Goes(t3, p, bytes)
    OBVIOUS
  <2>1. Turned(t3, p, Len(bytes) - 1)
    BY CsiType
  <2> HIDE DEF t3
  <2> QED BY <2>1, GoesOn
<1>9. p.discard = "NONE" => Goes(t4, p, bytes)
  BY EscGoesOn
<1>10. Goes(t5, p, bytes)
  <2>1. <<b>> \in P!Input
    BY <1>2 DEF P!Input
  <2>2. P!ControlActions(<<b>>) \in Seq(Acts)
    BY <2>1, ControlsType
  <2>3. Len(Tail(bytes)) <= Len(bytes) - 1
    BY <1>2
  <2> HIDE DEF b
  <2> QED BY <1>2, <2>2, <2>3, TookGoesOn
<1>11. Goes(t6, p, bytes)
  <2>1. Calm(t6, p, Len(bytes) - 1)
    BY ScalarType
  <2> HIDE DEF t6
  <2> QED BY <2>1, GoesOn DEF Turned
<1>12. p.discard \in {"NONE", "CSI", "ESC"}
  BY ParserFields
<1> HIDE DEF t, t1, t2, t3, t4, t5, t6, d1, d2, s, isText, isString, isCsi, isEsc, isControl, b
<1>13. ASSUME p.discard = "CSI" PROVE Goes(t, p, bytes)
  <2>1. t = d1
    BY <1>1, <1>13
  <2> QED BY <1>3, <1>13, <2>1
<1>14. ASSUME p.discard = "ESC" PROVE Goes(t, p, bytes)
  <2>1. t = d2
    BY <1>1, <1>14
  <2> QED BY <1>4, <1>14, <2>1
<1>15. ASSUME p.discard = "NONE", p.family # "NONE" PROVE Goes(t, p, bytes)
  <2>1. t = s
    BY <1>1, <1>15
  <2> QED BY <1>5, <1>15, <2>1
<1>16. ASSUME p.discard = "NONE", p.family = "NONE" PROVE Goes(t, p, bytes)
  <2>1. t = CASE isText -> t1 [] isString -> t2 [] isCsi -> t3 [] isEsc -> t4
              [] isControl -> t5 [] OTHER -> t6
    BY <1>1, <1>16
  <2>2. t = t1 \/ (isString /\ t = t2) \/ (isCsi /\ t = t3) \/ t = t4 \/ t = t5 \/ t = t6
    BY <2>1
  <2>3. Goes(t1, p, bytes) /\ (isString => Goes(t2, p, bytes)) /\ (isCsi => Goes(t3, p, bytes))
        /\ Goes(t4, p, bytes) /\ Goes(t5, p, bytes) /\ Goes(t6, p, bytes)
    BY <1>6, <1>7, <1>8, <1>9, <1>10, <1>11, <1>16
  <2> QED BY <2>2, <2>3
<1>17. Goes(t, p, bytes)
  BY <1>12, <1>13, <1>14, <1>15, <1>16
<1> QED BY <1>17 DEF t

BufferBody(f, p, bytes) ==
    IF bytes = <<>> THEN P!Took(p, <<>>, <<>>)
    ELSE IF P!Turn(p, bytes).stop THEN P!Turn(p, bytes)
    ELSE P!Then(P!Turn(p, bytes).out, f[<<P!Turn(p, bytes).p, P!Turn(p, bytes).rest>>])

Given == P!Parser \X P!Input
Weight == [of \in Given |-> Left(of[1], of[2])]

LEMMA WeightType ==
    /\ Weight \in [Given -> Nat]
    /\ \A p \in P!Parser, bytes \in P!Input :
           <<p, bytes>> \in Given /\ Weight[<<p, bytes>>] = Left(p, bytes)
<1>1. ASSUME NEW p \in P!Parser, NEW bytes \in P!Input
      PROVE  <<p, bytes>> \in Given /\ Weight[<<p, bytes>>] = Left(p, bytes)
  <2>1. <<p, bytes>> \in P!Parser \X P!Input
    OBVIOUS
  <2> QED BY <2>1 DEF Weight, Given
<1>2. ASSUME NEW of \in Given PROVE Left(of[1], of[2]) \in Nat
  <2>1. of[1] \in P!Parser /\ of[2] \in P!Input
    BY DEF Given
  <2> QED BY <2>1, LeftIs
<1>3. Weight \in [Given -> Nat]
  BY <1>2 DEF Weight
<1> QED BY <1>1, <1>3

\* What the loop goes on with after a turn.
LEMMA TurnLeaves ==
    ASSUME NEW p \in P!Parser, NEW bytes \in P!Input, bytes # <<>>
    PROVE  LET t == P!Turn(p, bytes)
           IN  /\ t \in Result /\ t.out \in Seq(Acts) /\ t.p \in P!Parser /\ t.rest \in P!Input
               /\ Len(t.rest) <= Len(bytes)
               /\ t.stop => Begins(t, p, Len(bytes))
               /\ ~t.stop => /\ t.p.frames = p.frames /\ t.p.expansion = p.expansion
                             /\ Left(t.p, t.rest) < Left(p, bytes)
<1> DEFINE t == P!Turn(p, bytes)
<1>1. Goes(t, p, bytes)
  BY TurnGoesOn
<1> HIDE DEF t
<1>2. t \in Result /\ Len(t.rest) <= Len(bytes)
  BY <1>1 DEF Goes, Begins, Calm
<1>3. t.stop => Begins(t, p, Len(bytes))
  BY <1>1 DEF Goes, Calm
<1>4. ~t.stop => /\ t.p.frames = p.frames /\ t.p.expansion = p.expansion
                 /\ Left(t.p, t.rest) < Left(p, bytes)
  BY <1>1 DEF Goes, Calm, Begins
<1>5. t.out \in Seq(Acts) /\ t.p \in P!Parser /\ t.rest \in P!Input
  <2> HIDE DEF Acts
  <2> QED BY <1>2 DEF Result
<1> QED BY <1>2, <1>3, <1>4, <1>5 DEF t

LEMMA BufferBodyType ==
    ASSUME NEW f \in [Given -> Result], NEW p \in P!Parser, NEW bytes \in P!Input
    PROVE  BufferBody(f, p, bytes) \in Result
<1> DEFINE t == P!Turn(p, bytes)
<1>1. CASE bytes = <<>>
  <2>1. <<>> \in P!Input /\ <<>> \in Seq(Acts)
    BY SaysType, EmptySeq DEF P!Input
  <2>2. P!Took(p, <<>>, <<>>) \in Result
    BY <2>1, TookType
  <2> QED BY <1>1, <2>2 DEF BufferBody
<1>2. CASE bytes # <<>>
  <2>1. t \in Result /\ t.out \in Seq(Acts) /\ t.p \in P!Parser /\ t.rest \in P!Input
    BY <1>2, TurnLeaves
  <2> HIDE DEF t
  <2>2. f[<<t.p, t.rest>>] \in Result
    BY <2>1, WeightType
  <2>3. P!Then(t.out, f[<<t.p, t.rest>>]) \in Result
    BY <2>1, <2>2, ThenType
  <2>4. BufferBody(f, p, bytes) = t \/ BufferBody(f, p, bytes) = P!Then(t.out, f[<<t.p, t.rest>>])
    BY <1>2 DEF BufferBody, t
  <2> QED BY <2>1, <2>3, <2>4
<1> QED BY <1>1, <1>2

LEMMA BufferLooksBelow ==
    ASSUME NEW f \in [Given -> Result], NEW g \in [Given -> Result],
           NEW p \in P!Parser, NEW bytes \in P!Input,
           \A y \in Given : Weight[y] < Weight[<<p, bytes>>] => f[y] = g[y]
    PROVE  BufferBody(f, p, bytes) = BufferBody(g, p, bytes)
<1>1. CASE bytes = <<>>
  BY <1>1 DEF BufferBody
<1>2. CASE bytes # <<>> /\ P!Turn(p, bytes).stop
  BY <1>2 DEF BufferBody
<1>3. CASE bytes # <<>> /\ ~P!Turn(p, bytes).stop
  <2> DEFINE t == P!Turn(p, bytes)
             y == <<t.p, t.rest>>
  <2>1. t.p \in P!Parser /\ t.rest \in P!Input /\ Left(t.p, t.rest) < Left(p, bytes)
    BY <1>3, TurnLeaves
  <2>2. y \in Given /\ Weight[y] < Weight[<<p, bytes>>]
    <3> HIDE DEF t
    <3> QED BY <2>1, WeightType
  <2>3. f[y] = g[y]
    <3> HIDE DEF y
    <3> QED BY <2>2
  <2> QED BY <1>3, <2>3 DEF BufferBody
<1> QED BY <1>1, <1>2, <1>3

\* The loop is defined, whatever the parser and the bytes.
LEMMA BufferIs ==
    ASSUME NEW p \in P!Parser, NEW bytes \in P!Input
    PROVE  P!Buffer[<<p, bytes>>] = BufferBody(P!Buffer, p, bytes)
<1> DEFINE G == [xf \in Given \X [Given -> Result] |-> BufferBody(xf[2], xf[1][1], xf[1][2])]
           Body(f) == [of \in Given |-> BufferBody(f, of[1], of[2])]
<1>1. \A of \in Given : of[1] \in P!Parser /\ of[2] \in P!Input /\ of = <<of[1], of[2]>>
  BY DEF Given
<1>2. ASSUME NEW of \in Given, NEW f \in [Given -> Result]
      PROVE  G[<<of, f>>] = BufferBody(f, of[1], of[2])
  OBVIOUS
<1>3. G \in [Given \X [Given -> Result] -> Result]
  <2>1. ASSUME NEW xf \in Given \X [Given -> Result]
        PROVE  BufferBody(xf[2], xf[1][1], xf[1][2]) \in Result
    <3>1. xf[1] \in Given /\ xf[2] \in [Given -> Result]
      BY <2>1
    <3>2. xf[1][1] \in P!Parser /\ xf[1][2] \in P!Input
      BY <1>1, <3>1
    <3> QED BY <3>1, <3>2, BufferBodyType
  <2> QED BY <2>1
<1>4. ASSUME NEW of \in Given, NEW f \in [Given -> Result], NEW g \in [Given -> Result],
             \A y \in Given : Weight[y] < Weight[of] => f[y] = g[y]
      PROVE  G[<<of, f>>] = G[<<of, g>>]
  <2>1. of[1] \in P!Parser /\ of[2] \in P!Input /\ of = <<of[1], of[2]>>
    BY <1>1
  <2>2. \A y \in Given : Weight[y] < Weight[<<of[1], of[2]>>] => f[y] = g[y]
    BY <1>4, <2>1
  <2>3. BufferBody(f, of[1], of[2]) = BufferBody(g, of[1], of[2])
    BY <2>1, <2>2, BufferLooksBelow
  <2> HIDE DEF G
  <2> QED BY <1>2, <2>3
<1>5. LooksBelow(G, Given, Result, Weight)
  <2> HIDE DEF G
  <2> QED BY <1>3, <1>4, WeightType DEF LooksBelow
<1>6. Result # {}
  <2>1. <<>> \in P!Input /\ <<>> \in Seq(Acts)
    BY SaysType, EmptySeq DEF P!Input
  <2>2. P!Took(p, <<>>, <<>>) \in Result
    BY <2>1, TookType
  <2> QED BY <2>2
<1>7. PICK h : Solves(h, G, Given, Result)
  <2> HIDE DEF G
  <2> QED BY <1>5, <1>6, RecursionExists
<1>8. h \in [Given -> Result] /\ \A of \in Given : h[of] = BufferBody(h, of[1], of[2])
  <2>1. h \in [Given -> Result] /\ \A of \in Given : h[of] = G[<<of, h>>]
    <3> HIDE DEF G
    <3> QED BY <1>7 DEF Solves
  <2> HIDE DEF G
  <2> QED BY <1>2, <2>1
<1>9. h = Body(h)
  BY <1>8
<1>10. P!Buffer = CHOOSE f : f = Body(f)
  BY DEF P!Buffer, BufferBody, Given
<1> HIDE DEF Body
<1>11. P!Buffer = Body(P!Buffer)
  BY <1>9, <1>10
<1>12. P!Buffer[<<p, bytes>>] = BufferBody(P!Buffer, p, bytes)
  <2>1. <<p, bytes>> \in Given
    BY WeightType
  <2> DEFINE of == <<p, bytes>>
             bf == P!Buffer
  <2>2. of \in Given /\ of[1] = p /\ of[2] = bytes
    BY <2>1
  <2>3. bf = Body(bf)
    BY <1>11
  <2> HIDE DEF of, bf
  <2>4. bf[of] = BufferBody(bf, of[1], of[2])
    BY <2>2, <2>3 DEF Body
  <2> QED BY <2>2, <2>4 DEF of, bf
<1> QED BY <1>12

\* It takes all the bytes, or stops where a replay begins.
Buffered(r, p, n) == Begins(r, p, n) \/ (Calm(r, p, n) /\ r.rest = <<>>)

LEMMA BufferType ==
    ASSUME NEW p \in P!Parser, NEW bytes \in P!Input
    PROVE  Buffered(P!Buffer[<<p, bytes>>], p, Len(bytes))
<1> DEFINE S == {of \in Given : Buffered(P!Buffer[of], of[1], Len(of[2]))}
<1>1. ASSUME NEW of \in Given, \A y \in Given : Weight[y] < Weight[of] => y \in S
      PROVE  of \in S
  <2> DEFINE q == of[1]
             b == of[2]
             t == P!Turn(q, b)
             y == <<t.p, t.rest>>
             r == P!Buffer[of]
             r2 == P!Buffer[y]
  <2>1. q \in P!Parser /\ b \in P!Input /\ of = <<q, b>>
    BY DEF Given
  <2>2. r = BufferBody(P!Buffer, q, b)
    <3>1. P!Buffer[<<q, b>>] = BufferBody(P!Buffer, q, b)
      <4> HIDE DEF q, b
      <4> QED BY <2>1, BufferIs
    <3> QED BY <2>1, <3>1
  <2> HIDE DEF q, b
  <2>3. CASE b = <<>>
    <3>1. r = P!Took(q, <<>>, <<>>)
      BY <2>2, <2>3 DEF BufferBody
    <3>2. <<>> \in P!Input /\ <<>> \in Seq(Acts) /\ Len(<<>>) <= Len(b) /\ Len(b) \in Nat
      BY <2>1, <2>3, SaysType, EmptySeq, LenProperties DEF P!Input
    <3>3. Calm(P!Took(q, <<>>, <<>>), q, Len(b))
      BY <2>1, <3>2, CalmTook
    <3>4. P!Took(q, <<>>, <<>>).rest = <<>>
      BY DEF P!Took
    <3> QED BY <2>1, <3>1, <3>3, <3>4 DEF Buffered, q, b
  <2>4. CASE b # <<>> /\ t.stop
    <3>1. Begins(t, q, Len(b))
      BY <2>1, <2>4, TurnLeaves
    <3>2. r = t
      BY <2>2, <2>4 DEF BufferBody
    <3> QED BY <3>1, <3>2 DEF Buffered, q, b
  <2>5. CASE b # <<>> /\ ~t.stop
    <3>1. /\ t \in Result /\ t.out \in Seq(Acts) /\ t.p \in P!Parser /\ t.rest \in P!Input
          /\ t.p.frames = q.frames /\ t.p.expansion = q.expansion
          /\ Len(t.rest) <= Len(b) /\ Left(t.p, t.rest) < Left(q, b)
      BY <2>1, <2>5, TurnLeaves
    <3>2. r = P!Then(t.out, r2)
      BY <2>2, <2>5 DEF BufferBody
    <3> HIDE DEF t
    <3>3. y \in Given /\ Weight[y] < Weight[of] /\ y[1] = t.p /\ y[2] = t.rest
      BY <2>1, <3>1, WeightType
    <3>4. Buffered(r2, t.p, Len(t.rest))
      <4> HIDE DEF y
      <4>1. y \in S
        <5> HIDE DEF S
        <5> QED BY <1>1, <3>3
      <4> QED BY <3>3, <4>1
    <3> HIDE DEF y, r, r2
    <3>5. r2 \in Result
      BY <3>4 DEF Buffered, Begins, Calm
    <3>6. r \in Result /\ r.stop = r2.stop /\ r.p = r2.p /\ r.rest = r2.rest
      BY <3>1, <3>2, <3>5, ThenType
    <3>7. Len(b) \in Nat /\ Len(t.rest) \in Nat /\ Len(r2.rest) \in Nat
      <4>1. r2.rest \in P!Input
        BY <3>5 DEF Result
      <4> QED BY <2>1, <3>1, <4>1, LenProperties DEF P!Input
    <3>8. Buffered(r, q, Len(b))
      BY <3>1, <3>4, <3>6, <3>7 DEF Buffered, Begins, Calm
    <3> QED BY <3>8 DEF q, b, r
  <2> QED BY <2>3, <2>4, <2>5
<1>2. Given \subseteq S
  <2> HIDE DEF S
  <2> QED BY <1>1, WeightType, MeasureInduction
<1>3. <<p, bytes>> \in S
  BY <1>2, WeightType
<1> QED BY <1>3
-------------------------------------------------------------------------------
(***************************************************************************)
(* The source: what was left over, and what is left again.                 *)
(***************************************************************************)
LEMMA SourceType ==
    ASSUME NEW p \in P!Parser, NEW bytes \in P!Input
    PROVE  Buffered(P!Source(p, bytes), p, Len(bytes))
<1> DEFINE q == [p EXCEPT !.prefix = <<>>]
           b == p.prefix \o bytes
           r == P!Buffer[<<q, b>>]
           left == Len(r.rest) - Len(bytes)
           again == SubSeq(r.rest, 1, left)
           s == [r EXCEPT !.p.prefix = again, !.rest = bytes]
<1>1. P!Source(p, bytes) = IF left > 0 THEN s ELSE r
  BY DEF P!Source
<1>2. q \in P!Parser /\ q.frames = p.frames /\ q.expansion = p.expansion
  <2>1. <<>> \in P!Input
    BY EmptySeq DEF P!Input
  <2>2. q \in P!Parser
    BY <2>1, ParserWith
  <2> QED BY <2>2 DEF P!Parser
<1>3. b \in P!Input
  <2>1. p.prefix \in P!Input
    BY ParserFields
  <2> QED BY <2>1, ConcatProperties DEF P!Input
<1>4. Buffered(r, q, Len(b))
  <2> HIDE DEF q, b
  <2> QED BY <1>2, <1>3, BufferType
<1> HIDE DEF q, b, r
<1>5. r \in Result /\ r.rest \in P!Input /\ r.p \in P!Parser
  <2>1. r \in Result
    BY <1>4 DEF Buffered, Begins, Calm
  <2> QED BY <2>1 DEF Result
<1>6. Len(r.rest) \in Nat /\ Len(bytes) \in Nat /\ (r.rest = <<>> => Len(r.rest) = 0)
  BY <1>5, EmptySeq, LenProperties DEF P!Input
<1>7. CASE left > 0
  <2>1. Begins(r, q, Len(b))
    <3>1. r.rest # <<>>
      BY <1>6, <1>7
    <3> QED BY <1>4, <3>1 DEF Buffered
  <2>2. again \in P!Input
    <3>1. 1 \in Nat /\ 1 >= 1 /\ left \in Int /\ left <= Len(r.rest)
      BY <1>6
    <3> HIDE DEF left
    <3> QED BY <1>5, <3>1, PartOf DEF P!Input
  <2> HIDE DEF again
  <2>3. [r.p EXCEPT !.prefix = again] \in P!Parser
    BY <1>5, <2>2, ParserWith
  <2>4. /\ s \in Result /\ s.rest = bytes /\ s.stop = r.stop
        /\ s.p = [r.p EXCEPT !.prefix = again]
    <3> HIDE DEF Acts
    <3> QED BY <1>5, <2>3 DEF Result
  <2>5. s.p.frames = r.p.frames /\ s.p.expansion = r.p.expansion
    BY <1>5, <2>4 DEF P!Parser
  <2> HIDE DEF s
  <2>6. Begins(s, p, Len(bytes))
    BY <1>2, <1>6, <2>1, <2>4, <2>5 DEF Begins
  <2>7. P!Source(p, bytes) = s
    BY <1>1, <1>7
  <2> QED BY <2>6, <2>7 DEF Buffered
<1>8. CASE ~(left > 0)
  <2>1. Len(r.rest) <= Len(bytes)
    BY <1>6, <1>8
  <2>2. Buffered(r, p, Len(bytes))
    BY <1>2, <1>4, <2>1 DEF Buffered, Begins, Calm
  <2>3. P!Source(p, bytes) = r
    BY <1>1, <1>8
  <2> QED BY <2>2, <2>3
<1> QED BY <1>7, <1>8

LEMMA SourceLeaves ==
    ASSUME NEW p \in P!Parser, NEW bytes \in P!Input
    PROVE  LET r == P!Source(p, bytes)
           IN  /\ r \in Result /\ r.out \in Seq(Acts) /\ r.p \in P!Parser /\ r.rest \in P!Input
               /\ Len(r.rest) \in Nat /\ Len(r.rest) <= Len(bytes)
               /\ \/ Len(r.p.frames) = Len(p.frames) + 1 /\ r.p.expansion > p.expansion
                  \/ /\ r.p.frames = p.frames /\ r.p.expansion = p.expansion
                     /\ r.rest = <<>>
<1> DEFINE r == P!Source(p, bytes)
<1>1. Buffered(r, p, Len(bytes))
  BY SourceType
<1> HIDE DEF r
<1>2. r \in Result
  BY <1>1 DEF Buffered, Begins, Calm
<1>3. r.out \in Seq(Acts) /\ r.p \in P!Parser /\ r.rest \in P!Input
  <2> HIDE DEF Acts
  <2> QED BY <1>2 DEF Result
<1>4. Len(r.rest) \in Nat /\ Len(r.rest) <= Len(bytes)
  BY <1>1, <1>3, LenProperties DEF Buffered, Begins, Calm, P!Input
<1>5. \/ Len(r.p.frames) = Len(p.frames) + 1 /\ r.p.expansion > p.expansion
      \/ r.p.frames = p.frames /\ r.p.expansion = p.expansion /\ r.rest = <<>>
  BY <1>1 DEF Buffered, Begins, Calm
<1> QED BY <1>2, <1>3, <1>4, <1>5 DEF r
-------------------------------------------------------------------------------
(***************************************************************************)
(* The macros' replay.                                                     *)
(***************************************************************************)
\* A slice of a call: a parser, the bytes, and how many macro bytes it may replay.
Slices == P!Parser \X P!Input \X (0..ExpansionLimit)

\* A replay uses up the budget, or what expansion is allowed, or a frame.
Work(p, bytes, budget) ==
    2 * (ExpansionLimit - p.expansion) + budget + Len(p.frames) + (IF bytes = <<>> THEN 0 ELSE 1)
WorkOf == [of \in Slices |-> Work(of[1], of[2], of[3])]

LEMMA WorkType ==
    /\ WorkOf \in [Slices -> Nat]
    /\ \A p \in P!Parser, bytes \in P!Input, budget \in 0..ExpansionLimit :
           /\ <<p, bytes, budget>> \in Slices
           /\ WorkOf[<<p, bytes, budget>>] = Work(p, bytes, budget)
<1>1. ASSUME NEW p \in P!Parser, NEW bytes \in P!Input, NEW budget \in 0..ExpansionLimit
      PROVE  /\ <<p, bytes, budget>> \in Slices
             /\ WorkOf[<<p, bytes, budget>>] = Work(p, bytes, budget)
  <2>1. <<p, bytes, budget>> \in P!Parser \X P!Input \X (0..ExpansionLimit)
    OBVIOUS
  <2> QED BY <2>1 DEF WorkOf, Slices
<1>2. ASSUME NEW of \in Slices PROVE Work(of[1], of[2], of[3]) \in Nat
  <2>1. of[1] \in P!Parser /\ of[3] \in 0..ExpansionLimit
    BY DEF Slices
  <2>2. of[1].expansion \in 0..ExpansionLimit /\ of[1].frames \in Seq(Frame)
    BY <2>1, ParserFields
  <2>3. Len(of[1].frames) \in Nat /\ ExpansionLimit \in Nat
    BY <2>2, LenProperties, LimitsAssumption
  <2>4. ExpansionLimit - of[1].expansion \in Nat
    BY <2>2, <2>3
  <2>5. of[3] \in Nat /\ (IF of[2] = <<>> THEN 0 ELSE 1) \in Nat
    BY <2>1, <2>3
  <2> DEFINE x == ExpansionLimit - of[1].expansion
             b == of[3]
             n == Len(of[1].frames)
             one == IF of[2] = <<>> THEN 0 ELSE 1
  <2>6. Work(of[1], of[2], of[3]) = 2 * x + b + n + one
    BY DEF Work
  <2>7. x \in Nat /\ b \in Nat /\ n \in Nat /\ one \in Nat
    BY <2>3, <2>4, <2>5
  <2> HIDE DEF x, b, n, one
  <2> QED BY <2>6, <2>7
<1>3. WorkOf \in [Slices -> Nat]
  BY <1>2 DEF WorkOf
<1> QED BY <1>1, <1>3

\* The replayed frame, what of it a slice replays, and what the parser makes of that.
Top(p) == p.frames[Len(p.frames)].bytes
Piece(p, budget) == SubSeq(Top(p), 1, P!Min({Len(Top(p)), budget}))
Replay(p, budget) == P!Source(p, Piece(p, budget))
Spent(p, budget) == Len(Piece(p, budget)) - Len(Replay(p, budget).rest)
Popped(p) == [p EXCEPT !.frames = P!Front(@)]
Advanced(p, budget) ==
    P!Replayed(Replay(p, budget).p, Len(p.frames), P!From(Top(p), Spent(p, budget) + 1))

LEMMA PoppedType ==
    ASSUME NEW p \in P!Parser, Len(p.frames) # 0
    PROVE  /\ Popped(p) \in P!Parser /\ Popped(p).expansion = p.expansion
           /\ Len(Popped(p).frames) \in Nat /\ Len(p.frames) = Len(Popped(p).frames) + 1
<1>1. p.frames \in Seq(Frame)
  BY ParserFields
<1>2. Len(p.frames) \in Nat
  BY <1>1, LenProperties
<1>3. /\ P!Front(p.frames) \in Seq(Frame)
      /\ Len(P!Front(p.frames)) = Len(p.frames) - 1
  <2>1. 1 \in Nat /\ 1 >= 1 /\ Len(p.frames) - 1 \in Int /\ Len(p.frames) - 1 <= Len(p.frames)
    BY <1>2
  <2>2. P!Front(p.frames) = SubSeq(p.frames, 1, Len(p.frames) - 1)
    BY DEF P!Front
  <2>3. /\ SubSeq(p.frames, 1, Len(p.frames) - 1) \in Seq(Frame)
        /\ Len(SubSeq(p.frames, 1, Len(p.frames) - 1))
           = IF 1 <= Len(p.frames) - 1 THEN (Len(p.frames) - 1) - 1 + 1 ELSE 0
    BY <1>1, <2>1, PartOf
  <2> QED BY <1>2, <2>2, <2>3
<1>4. Popped(p) = [p EXCEPT !.frames = P!Front(p.frames)]
  BY DEF Popped
<1>5. Popped(p) \in P!Parser
  BY <1>3, <1>4, ParserWith
<1>6. Popped(p).frames = P!Front(p.frames) /\ Popped(p).expansion = p.expansion
  BY <1>4 DEF P!Parser
<1> QED BY <1>2, <1>3, <1>5, <1>6

LEMMA TopType ==
    ASSUME NEW p \in P!Parser, Len(p.frames) # 0
    PROVE  Top(p) \in P!Input /\ Len(p.frames) \in 1..Len(p.frames)
<1>1. p.frames \in Seq(Frame)
  BY ParserFields
<1>2. Len(p.frames) \in Nat /\ Len(p.frames) \in 1..Len(p.frames)
  BY <1>1, LenProperties
<1>3. p.frames[Len(p.frames)] \in Frame
  BY <1>1, <1>2, ElementOfSeq
<1> QED BY <1>2, <1>3 DEF Top, Frame

\* A slice's part of a frame is not empty unless the frame or the budget is.
LEMMA PieceType ==
    ASSUME NEW p \in P!Parser, Len(p.frames) # 0, NEW budget \in 0..ExpansionLimit
    PROVE  /\ Piece(p, budget) \in P!Input /\ Len(Piece(p, budget)) \in Nat
           /\ Len(Piece(p, budget)) <= budget /\ Len(Piece(p, budget)) <= Len(Top(p))
           /\ Top(p) # <<>> /\ budget # 0 => Len(Piece(p, budget)) >= 1
<1> DEFINE both == {Len(Top(p)), budget}
           k == P!Min(both)
<1>1. Top(p) \in P!Input
  BY TopType
<1>2. Len(Top(p)) \in Nat /\ budget \in Nat /\ (Top(p) # <<>> => Len(Top(p)) # 0)
  BY <1>1, EmptySeq, LenProperties DEF P!Input
<1>3. k \in both /\ \A j \in both : k <= j
  <2>1. both \in SUBSET Nat /\ both # {}
    BY <1>2
  <2> HIDE DEF both
  <2> QED BY <2>1, LeastOf
<1>4. k \in Nat /\ k <= Len(Top(p)) /\ k <= budget /\ (k = Len(Top(p)) \/ k = budget)
  <2> HIDE DEF k
  <2> QED BY <1>2, <1>3
<1>5. Piece(p, budget) = SubSeq(Top(p), 1, k)
  BY DEF Piece
<1> HIDE DEF k
<1>6. SubSeq(Top(p), 1, k) \in P!Input /\ Len(SubSeq(Top(p), 1, k)) = k
  <2>1. 1 \in Nat /\ 1 >= 1 /\ k \in Int
    BY <1>4
  <2>2. /\ SubSeq(Top(p), 1, k) \in Seq(P!Bytes)
        /\ Len(SubSeq(Top(p), 1, k)) = IF 1 <= k THEN k - 1 + 1 ELSE 0
    <3> HIDE DEF Top
    <3> QED BY <1>1, <1>4, <2>1, PartOf DEF P!Input
  <2> QED BY <1>4, <2>2 DEF P!Input
<1> QED BY <1>2, <1>4, <1>5, <1>6

\* What a slice goes on with after it replayed a part.
LEMMA AdvancedType ==
    ASSUME NEW p \in P!Parser, Len(p.frames) # 0, Top(p) # <<>>,
           NEW budget \in 0..ExpansionLimit, budget # 0, NEW bytes \in P!Input
    PROVE  /\ Replay(p, budget).out \in Seq(Acts)
           /\ Advanced(p, budget) \in P!Parser /\ budget - Spent(p, budget) \in 0..ExpansionLimit
           /\ Work(Advanced(p, budget), bytes, budget - Spent(p, budget)) < Work(p, bytes, budget)
<1> DEFINE r == Replay(p, budget)
           g == Piece(p, budget)
           n == Len(p.frames)
           k == Spent(p, budget)
           rest == P!From(Top(p), k + 1)
           a == Advanced(p, budget)
<1>1. /\ g \in P!Input /\ Len(g) \in Nat /\ Len(g) <= budget /\ Len(g) <= Len(Top(p))
      /\ Len(g) >= 1
  BY PieceType
<1>2. /\ r.out \in Seq(Acts) /\ r.p \in P!Parser /\ r.rest \in P!Input
      /\ Len(r.rest) \in Nat /\ Len(r.rest) <= Len(g)
      /\ \/ Len(r.p.frames) = n + 1 /\ r.p.expansion > p.expansion
         \/ r.p.frames = p.frames /\ r.p.expansion = p.expansion /\ r.rest = <<>>
  <2> HIDE DEF g
  <2> QED BY <1>1, SourceLeaves DEF Replay, g
<1>3. k = Len(g) - Len(r.rest)
  BY DEF Spent
<1>4. ExpansionLimit \in Nat /\ budget \in Nat /\ n \in Nat /\ n >= 1
  <2>1. p.frames \in Seq(Frame)
    BY ParserFields
  <2> QED BY <2>1, LimitsAssumption, LenProperties
<1> HIDE DEF r, g
<1>5. k \in Nat /\ k <= budget /\ budget - k \in 0..ExpansionLimit
  BY <1>1, <1>2, <1>3, <1>4
<1>6. rest \in P!Input
  <2>1. Top(p) \in P!Input /\ k + 1 \in Nat /\ k + 1 >= 1
    BY <1>5, TopType
  <2> HIDE DEF k
  <2> QED BY <2>1, FromProperties DEF P!Input
<1>7. a = IF Len(r.p.frames) = n /\ rest = <<>> THEN Popped(r.p)
          ELSE [r.p EXCEPT !.frames[n].bytes = rest]
  BY DEF Advanced, P!Replayed, Popped, r
<1>8. r.p.frames \in Seq(Frame) /\ r.p.expansion \in 0..ExpansionLimit /\ p.expansion \in 0..ExpansionLimit
  BY <1>2, ParserFields
<1>9. Len(r.p.frames) \in Nat /\ Len(r.p.frames) >= n
  BY <1>2, <1>4, <1>8, LenProperties
<1> HIDE DEF rest, k
<1>10. a \in P!Parser /\ a.expansion = r.p.expansion /\ Len(a.frames) \in Nat
       /\ Len(a.frames) <= Len(r.p.frames)
  <2>1. CASE Len(r.p.frames) = n /\ rest = <<>>
    <3>1. Len(r.p.frames) # 0
      BY <1>4, <2>1
    <3>2. a = Popped(r.p)
      BY <1>7, <2>1
    <3> HIDE DEF a
    <3>3. /\ Popped(r.p) \in P!Parser /\ Popped(r.p).expansion = r.p.expansion
          /\ Len(Popped(r.p).frames) \in Nat /\ Len(r.p.frames) = Len(Popped(r.p).frames) + 1
      BY <1>2, <3>1, PoppedType
    <3> QED BY <3>2, <3>3
  <2>2. CASE ~(Len(r.p.frames) = n /\ rest = <<>>)
    <3> DEFINE fs == [r.p.frames EXCEPT ![n].bytes = rest]
    <3>1. n \in 1..Len(r.p.frames)
      BY <1>4, <1>9
    <3>2. r.p.frames[n] \in Frame
      BY <1>8, <3>1, ElementOfSeq
    <3>3. [r.p.frames[n] EXCEPT !.bytes = rest] \in Frame
      BY <1>6, <3>2 DEF Frame
    <3>4. fs = [r.p.frames EXCEPT ![n] = [r.p.frames[n] EXCEPT !.bytes = rest]]
      OBVIOUS
    <3>5. fs \in Seq(Frame) /\ Len(fs) = Len(r.p.frames)
      <4> HIDE DEF fs
      <4> QED BY <1>8, <3>1, <3>3, <3>4, ExceptSeq
    <3>6. a = [r.p EXCEPT !.frames = fs]
      BY <1>7, <2>2
    <3> HIDE DEF fs, a
    <3>7. a \in P!Parser
      BY <1>2, <3>5, <3>6, ParserWith
    <3>8. a.frames = fs /\ a.expansion = r.p.expansion
      BY <1>2, <3>6 DEF P!Parser
    <3> QED BY <1>9, <3>5, <3>7, <3>8
  <2> QED BY <2>1, <2>2
<1> HIDE DEF a
<1>11. Work(a, bytes, budget - k) < Work(p, bytes, budget)
  <2> DEFINE one == IF bytes = <<>> THEN 0 ELSE 1
  <2>1. one \in Nat
    OBVIOUS
  <2>2. Work(a, bytes, budget - k) = 2 * (ExpansionLimit - a.expansion) + (budget - k) + Len(a.frames) + one
    BY DEF Work
  <2>3. Work(p, bytes, budget) = 2 * (ExpansionLimit - p.expansion) + budget + n + one
    BY DEF Work
  <2> HIDE DEF one, n
  <2>4. CASE Len(r.p.frames) = n + 1 /\ r.p.expansion > p.expansion
    <3> DEFINE x == ExpansionLimit - a.expansion
               y == ExpansionLimit - p.expansion
    <3>1. x \in Nat /\ y \in Nat /\ x + 1 <= y
      BY <1>4, <1>8, <1>10, <2>4, SMTT(40)
    <3>2. Len(a.frames) <= n + 1
      BY <1>10, <2>4
    <3>3. budget - k \in Nat /\ budget - k <= budget
      BY <1>4, <1>5
    <3>4. Work(a, bytes, budget - k) = 2 * x + (budget - k) + Len(a.frames) + one
      BY <2>2
    <3>5. Work(p, bytes, budget) = 2 * y + budget + n + one
      BY <2>3
    <3> HIDE DEF x, y
    <3> QED BY <1>4, <1>10, <2>1, <3>1, <3>2, <3>3, <3>4, <3>5
  <2>5. CASE r.p.frames = p.frames /\ r.p.expansion = p.expansion /\ r.rest = <<>>
    <3>1. k >= 1
      BY <1>1, <1>2, <1>3, <2>5, EmptySeq
    <3>2. Len(r.p.frames) = n
      BY <2>5 DEF n
    <3> DEFINE x == ExpansionLimit - p.expansion
               l == Len(a.frames)
               d == budget - k
    <3>3. x \in Nat /\ a.expansion = p.expansion
      BY <1>4, <1>8, <1>10, <2>5
    <3>4. d \in Nat /\ d + 1 <= budget
      BY <1>4, <1>5, <3>1
    <3>5. l \in Nat /\ l <= n
      BY <1>10, <3>2
    <3>6. Work(a, bytes, d) = 2 * x + d + l + one
      BY <2>2, <3>3
    <3>7. Work(p, bytes, budget) = 2 * x + budget + n + one
      BY <2>3
    <3> HIDE DEF x, l, d
    <3>8. Work(a, bytes, d) < Work(p, bytes, budget)
      BY <1>4, <2>1, <3>3, <3>4, <3>5, <3>6, <3>7
    <3> QED BY <3>8 DEF d
  <2> QED BY <1>2, <2>4, <2>5
<1> QED BY <1>2, <1>5, <1>10, <1>11 DEF r, k, a

\* The body of ingest's loop, f being what it goes on with.
IngestBody(f, p, bytes, budget) ==
    IF Len(p.frames) = 0
    THEN IF bytes = <<>> THEN P!Took(p, <<>>, <<>>)
         ELSE P!Then(P!Source(p, bytes).out, f[<<P!Source(p, bytes).p, P!Source(p, bytes).rest, budget>>])
    ELSE IF Top(p) = <<>> THEN f[<<Popped(p), bytes, budget>>]
    ELSE IF budget = 0 THEN P!Took(p, bytes, <<>>)
    ELSE P!Then(Replay(p, budget).out,
                f[<<Advanced(p, budget), bytes, budget - Spent(p, budget)>>])

LEMMA Unfolded ==
    P!Ingest = CHOOSE f : f = [of \in Slices |-> IngestBody(f, of[1], of[2], of[3])]
<1> DEFINE Body(f, p, bytes, budget) ==
             LET n == Len(p.frames)
                 top == p.frames[n].bytes
                 given == SubSeq(top, 1, P!Min({Len(top), budget}))
                 r == P!Source(p, given)
             IN  CASE n = 0 /\ bytes = <<>> -> P!Took(p, <<>>, <<>>)
                   [] n = 0 /\ bytes # <<>> ->
                        P!Then(P!Source(p, bytes).out,
                               f[<<P!Source(p, bytes).p, P!Source(p, bytes).rest, budget>>])
                   [] n # 0 /\ top = <<>>   -> f[<< [p EXCEPT !.frames = P!Front(@)], bytes, budget >>]
                   [] n # 0 /\ top # <<>> /\ budget = 0 -> P!Took(p, bytes, <<>>)
                   [] OTHER ->
                        P!Then(r.out,
                               f[<<P!Replayed(r.p, n, P!From(top, Len(given) - Len(r.rest) + 1)), bytes,
                                   budget - (Len(given) - Len(r.rest))>>])
<1>1. P!Ingest = CHOOSE f : f = [of \in Slices |-> Body(f, of[1], of[2], of[3])]
  BY DEF P!Ingest, Slices
<1>2. ASSUME NEW f, NEW p, NEW bytes, NEW budget
      PROVE  Body(f, p, bytes, budget) = IngestBody(f, p, bytes, budget)
  BY DEF IngestBody, Top, Replay, Piece, Spent, Popped, Advanced
<1> HIDE DEF Body
<1> QED BY <1>1, <1>2

\* A call of which the source takes the bytes: a step of the loop without a replay.
LEMMA TakenType ==
    ASSUME NEW p \in P!Parser, Len(p.frames) = 0, NEW bytes \in P!Input, bytes # <<>>,
           NEW budget \in 0..ExpansionLimit
    PROVE  LET r == P!Source(p, bytes)
           IN  /\ r.out \in Seq(Acts) /\ r.p \in P!Parser /\ r.rest \in P!Input
               /\ Work(r.p, r.rest, budget) < Work(p, bytes, budget)
<1> DEFINE r == P!Source(p, bytes)
           one == IF r.rest = <<>> THEN 0 ELSE 1
           x == ExpansionLimit - r.p.expansion
           y == ExpansionLimit - p.expansion
           n == Len(r.p.frames)
<1>1. /\ r.out \in Seq(Acts) /\ r.p \in P!Parser /\ r.rest \in P!Input
      /\ \/ Len(r.p.frames) = Len(p.frames) + 1 /\ r.p.expansion > p.expansion
         \/ r.p.frames = p.frames /\ r.p.expansion = p.expansion /\ r.rest = <<>>
  BY SourceLeaves
<1> HIDE DEF r
<1>2. /\ r.p.expansion \in 0..ExpansionLimit /\ p.expansion \in 0..ExpansionLimit
      /\ ExpansionLimit \in Nat /\ budget \in Nat
  BY <1>1, ParserFields, LimitsAssumption
<1>3. Work(r.p, r.rest, budget) = 2 * x + budget + n + one
  BY DEF Work
<1>4. Work(p, bytes, budget) = 2 * y + budget + 0 + 1
  BY DEF Work
<1>5. x \in Nat /\ y \in Nat /\ one \in 0..1
  BY <1>2
<1>6. (n = 1 /\ x + 1 <= y) \/ (n = 0 /\ x = y /\ one = 0)
  BY <1>1, <1>2
<1> HIDE DEF one, x, y, n
<1>7. Work(r.p, r.rest, budget) < Work(p, bytes, budget)
  BY <1>2, <1>3, <1>4, <1>5, <1>6
<1> QED BY <1>1, <1>7 DEF r

LEMMA PoppedWork ==
    ASSUME NEW p \in P!Parser, Len(p.frames) # 0, NEW bytes \in P!Input,
           NEW budget \in 0..ExpansionLimit
    PROVE  Work(Popped(p), bytes, budget) < Work(p, bytes, budget)
<1> DEFINE x == 2 * (ExpansionLimit - p.expansion) + budget
           one == IF bytes = <<>> THEN 0 ELSE 1
           n == Len(Popped(p).frames)
<1>1. Popped(p).expansion = p.expansion /\ n \in Nat /\ Len(p.frames) = n + 1
  BY PoppedType
<1>2. Work(Popped(p), bytes, budget) = x + n + one /\ Work(p, bytes, budget) = x + (n + 1) + one
  BY <1>1 DEF Work
<1>3. x \in Int /\ one \in Int
  <2>1. p.expansion \in 0..ExpansionLimit /\ ExpansionLimit \in Nat
    BY ParserFields, LimitsAssumption
  <2>2. ExpansionLimit - p.expansion \in Int /\ budget \in Int
    BY <2>1
  <2> DEFINE d == ExpansionLimit - p.expansion
  <2>3. d \in Int
    BY <2>2
  <2> HIDE DEF d
  <2>4. 2 * d + budget \in Int
    BY <2>2, <2>3
  <2> QED BY <2>4 DEF d
<1> HIDE DEF x, one, n
<1> QED BY <1>1, <1>2, <1>3

\* What a slice answers: it is no boundary, and what it leaves waits for a replay's budget.
Answer == {r \in Result : ~r.stop /\ (r.rest # <<>> => r.p.frames # <<>>)}

LEMMA TookAnswers ==
    ASSUME NEW p \in P!Parser, NEW rest \in P!Input, rest # <<>> => p.frames # <<>>
    PROVE  P!Took(p, rest, <<>>) \in Answer
<1> DEFINE r == P!Took(p, rest, <<>>)
<1>1. <<>> \in Seq(Acts)
  BY SaysType
<1>2. r \in Result
  BY <1>1, TookType
<1>3. ~r.stop /\ r.p = p /\ r.rest = rest
  BY DEF P!Took
<1> HIDE DEF r
<1> QED BY <1>2, <1>3 DEF Answer, r

LEMMA ThenAnswers ==
    ASSUME NEW out \in Seq(Acts), NEW r \in Answer
    PROVE  P!Then(out, r) \in Answer
<1>1. r \in Result
  BY DEF Answer
<1>2. /\ P!Then(out, r) \in Result /\ P!Then(out, r).stop = r.stop
      /\ P!Then(out, r).p = r.p /\ P!Then(out, r).rest = r.rest
  BY <1>1, ThenType
<1> QED BY <1>2 DEF Answer

\* One step of the loop: it answers, or goes on with less to do.
LEMMA IngestSteps ==
    ASSUME NEW p \in P!Parser, NEW bytes \in P!Input, NEW budget \in 0..ExpansionLimit
    PROVE  \/ \E r \in Answer : \A f : IngestBody(f, p, bytes, budget) = r
           \/ \E y \in Slices :
                  /\ WorkOf[y] < WorkOf[<<p, bytes, budget>>]
                  /\ \/ \A f : IngestBody(f, p, bytes, budget) = f[y]
                     \/ \E out \in Seq(Acts) :
                            \A f : IngestBody(f, p, bytes, budget) = P!Then(out, f[y])
<1>1. <<>> \in P!Input
  BY EmptySeq DEF P!Input
<1>2. p.frames = <<>> => Len(p.frames) = 0
  BY ParserFields, EmptySeq
<1>3. CASE Len(p.frames) = 0 /\ bytes = <<>>
  <2>1. P!Took(p, <<>>, <<>>) \in Answer
    BY <1>1, TookAnswers
  <2>2. \A f : IngestBody(f, p, bytes, budget) = P!Took(p, <<>>, <<>>)
    BY <1>3 DEF IngestBody
  <2> QED BY <2>1, <2>2
<1>4. CASE Len(p.frames) = 0 /\ bytes # <<>>
  <2> DEFINE r == P!Source(p, bytes)
             y == <<r.p, r.rest, budget>>
  <2>1. /\ r.out \in Seq(Acts) /\ r.p \in P!Parser /\ r.rest \in P!Input
        /\ Work(r.p, r.rest, budget) < Work(p, bytes, budget)
    BY <1>4, TakenType
  <2>2. \A f : IngestBody(f, p, bytes, budget) = P!Then(r.out, f[y])
    BY <1>4 DEF IngestBody
  <2> HIDE DEF r
  <2>3. y \in Slices /\ WorkOf[y] < WorkOf[<<p, bytes, budget>>]
    BY <2>1, WorkType
  <2> HIDE DEF y
  <2> QED BY <2>1, <2>2, <2>3
<1>5. CASE Len(p.frames) # 0 /\ Top(p) = <<>>
  <2> DEFINE y == <<Popped(p), bytes, budget>>
  <2>1. Popped(p) \in P!Parser /\ Work(Popped(p), bytes, budget) < Work(p, bytes, budget)
    BY <1>5, PoppedType, PoppedWork
  <2>2. y \in Slices /\ WorkOf[y] < WorkOf[<<p, bytes, budget>>]
    BY <2>1, WorkType
  <2>3. \A f : IngestBody(f, p, bytes, budget) = f[y]
    BY <1>5 DEF IngestBody
  <2> HIDE DEF y
  <2> QED BY <2>2, <2>3
<1>6. CASE Len(p.frames) # 0 /\ Top(p) # <<>> /\ budget = 0
  <2>1. P!Took(p, bytes, <<>>) \in Answer
    BY <1>2, <1>6, TookAnswers
  <2>2. \A f : IngestBody(f, p, bytes, budget) = P!Took(p, bytes, <<>>)
    BY <1>6 DEF IngestBody
  <2> QED BY <2>1, <2>2
<1>7. CASE Len(p.frames) # 0 /\ Top(p) # <<>> /\ budget # 0
  <2> DEFINE a == Advanced(p, budget)
             k == budget - Spent(p, budget)
             out == Replay(p, budget).out
             y == <<a, bytes, k>>
  <2>1. /\ out \in Seq(Acts) /\ a \in P!Parser /\ k \in 0..ExpansionLimit
        /\ Work(a, bytes, k) < Work(p, bytes, budget)
    BY <1>7, AdvancedType
  <2>2. \A f : IngestBody(f, p, bytes, budget) = P!Then(out, f[y])
    BY <1>7 DEF IngestBody
  <2> HIDE DEF a, k, out
  <2>3. y \in Slices /\ WorkOf[y] < WorkOf[<<p, bytes, budget>>]
    BY <2>1, WorkType
  <2> HIDE DEF y
  <2> QED BY <2>1, <2>2, <2>3
<1> QED BY <1>3, <1>4, <1>5, <1>6, <1>7

LEMMA FreshType == P!Fresh \in P!Parser
<1>1. <<>> \in Seq(P!Bytes) /\ <<>> \in Seq([id : {"0", "1"}, bytes : Seq(P!Bytes)])
  BY EmptySeq
<1>2. P!NoMacros \in [{"0", "1"} -> Seq(P!Bytes)]
  BY <1>1 DEF P!NoMacros
<1>3. P!Reset \in [left : 0..2, high : BOOLEAN]
  BY DEF P!Reset
<1>4. 0 \in 0..ExpansionLimit
  BY LimitsAssumption
<1> HIDE DEF P!NoMacros, P!Reset
<1> QED BY <1>1, <1>2, <1>3, <1>4 DEF P!Fresh, P!Parser

LEMMA IngestBodyAnswers ==
    ASSUME NEW f \in [Slices -> Answer], NEW of \in Slices
    PROVE  IngestBody(f, of[1], of[2], of[3]) \in Answer
<1>1. /\ of[1] \in P!Parser /\ of[2] \in P!Input /\ of[3] \in 0..ExpansionLimit
  BY DEF Slices
<1> DEFINE p == of[1]
           bytes == of[2]
           budget == of[3]
<1>2. \/ \E r \in Answer : \A g : IngestBody(g, p, bytes, budget) = r
      \/ \E y \in Slices :
             /\ WorkOf[y] < WorkOf[<<p, bytes, budget>>]
             /\ \/ \A g : IngestBody(g, p, bytes, budget) = g[y]
                \/ \E out \in Seq(Acts) : \A g : IngestBody(g, p, bytes, budget) = P!Then(out, g[y])
  <2> HIDE DEF p, bytes, budget
  <2> QED BY <1>1, IngestSteps DEF p, bytes, budget
<1> HIDE DEF p, bytes, budget
<1>3. CASE \E r \in Answer : \A g : IngestBody(g, p, bytes, budget) = r
  BY <1>3 DEF p, bytes, budget
<1>4. ASSUME NEW y \in Slices, \A g : IngestBody(g, p, bytes, budget) = g[y]
      PROVE  IngestBody(f, p, bytes, budget) \in Answer
  BY <1>4
<1>5. ASSUME NEW y \in Slices, NEW out \in Seq(Acts),
             \A g : IngestBody(g, p, bytes, budget) = P!Then(out, g[y])
      PROVE  IngestBody(f, p, bytes, budget) \in Answer
  <2>1. f[y] \in Answer
    OBVIOUS
  <2>2. P!Then(out, f[y]) \in Answer
    BY <2>1, ThenAnswers
  <2> QED BY <1>5, <2>2
<1>6. IngestBody(f, p, bytes, budget) \in Answer
  BY <1>2, <1>3, <1>4, <1>5 DEF p, bytes, budget
<1> QED BY <1>6 DEF p, bytes, budget

LEMMA IngestLooksBelow ==
    ASSUME NEW f \in [Slices -> Answer], NEW g \in [Slices -> Answer], NEW of \in Slices,
           \A y \in Slices : WorkOf[y] < WorkOf[of] => f[y] = g[y]
    PROVE  IngestBody(f, of[1], of[2], of[3]) = IngestBody(g, of[1], of[2], of[3])
<1> DEFINE p == of[1]
           bytes == of[2]
           budget == of[3]
<1>1. p \in P!Parser /\ bytes \in P!Input /\ budget \in 0..ExpansionLimit /\ of = <<p, bytes, budget>>
  BY DEF Slices
<1> HIDE DEF p, bytes, budget
<1>2. \/ \E r \in Answer : \A h : IngestBody(h, p, bytes, budget) = r
      \/ \E y \in Slices :
             /\ WorkOf[y] < WorkOf[<<p, bytes, budget>>]
             /\ \/ \A h : IngestBody(h, p, bytes, budget) = h[y]
                \/ \E out \in Seq(Acts) : \A h : IngestBody(h, p, bytes, budget) = P!Then(out, h[y])
  BY <1>1, IngestSteps
<1>3. \A y \in Slices : WorkOf[y] < WorkOf[<<p, bytes, budget>>] => f[y] = g[y]
  BY <1>1
<1>4. ASSUME NEW r, \A h : IngestBody(h, p, bytes, budget) = r
      PROVE  IngestBody(f, p, bytes, budget) = IngestBody(g, p, bytes, budget)
  BY <1>4
<1>5. ASSUME NEW y \in Slices, WorkOf[y] < WorkOf[<<p, bytes, budget>>],
             \/ \A h : IngestBody(h, p, bytes, budget) = h[y]
             \/ \E out \in Seq(Acts) : \A h : IngestBody(h, p, bytes, budget) = P!Then(out, h[y])
      PROVE  IngestBody(f, p, bytes, budget) = IngestBody(g, p, bytes, budget)
  <2>1. f[y] = g[y]
    BY <1>3, <1>5
  <2> QED BY <1>5, <2>1
<1>6. IngestBody(f, p, bytes, budget) = IngestBody(g, p, bytes, budget)
  BY <1>2, <1>4, <1>5
<1> QED BY <1>6 DEF p, bytes, budget

LEMMA IngestSolves ==
    \E h \in [Slices -> Answer] :
        h = [of \in Slices |-> IngestBody(h, of[1], of[2], of[3])]
<1> DEFINE G == [xf \in Slices \X [Slices -> Answer] |-> IngestBody(xf[2], xf[1][1], xf[1][2], xf[1][3])]
<1>1. ASSUME NEW of \in Slices, NEW f \in [Slices -> Answer]
      PROVE  G[<<of, f>>] = IngestBody(f, of[1], of[2], of[3])
  OBVIOUS
<1>2. G \in [Slices \X [Slices -> Answer] -> Answer]
  <2>1. ASSUME NEW xf \in Slices \X [Slices -> Answer]
        PROVE  IngestBody(xf[2], xf[1][1], xf[1][2], xf[1][3]) \in Answer
    <3>1. xf[1] \in Slices /\ xf[2] \in [Slices -> Answer]
      BY <2>1
    <3> QED BY <3>1, IngestBodyAnswers
  <2> QED BY <2>1
<1>3. ASSUME NEW of \in Slices, NEW f \in [Slices -> Answer], NEW g \in [Slices -> Answer],
             \A y \in Slices : WorkOf[y] < WorkOf[of] => f[y] = g[y]
      PROVE  G[<<of, f>>] = G[<<of, g>>]
  <2>1. IngestBody(f, of[1], of[2], of[3]) = IngestBody(g, of[1], of[2], of[3])
    BY <1>3, IngestLooksBelow
  <2> HIDE DEF G
  <2> QED BY <1>1, <2>1
<1>4. LooksBelow(G, Slices, Answer, WorkOf)
  <2> HIDE DEF G
  <2> QED BY <1>2, <1>3, WorkType DEF LooksBelow
<1>5. Answer # {}
  <2>1. <<>> \in P!Input
    BY EmptySeq DEF P!Input
  <2>2. P!Parser # {}
    BY FreshType
  <2>3. PICK p \in P!Parser : TRUE
    BY <2>2
  <2>4. P!Took(p, <<>>, <<>>) \in Answer
    BY <2>1, TookAnswers
  <2> QED BY <2>4
<1>6. PICK h : Solves(h, G, Slices, Answer)
  <2> HIDE DEF G
  <2> QED BY <1>4, <1>5, RecursionExists
<1>7. h \in [Slices -> Answer] /\ \A of \in Slices : h[of] = IngestBody(h, of[1], of[2], of[3])
  <2>1. h \in [Slices -> Answer] /\ \A of \in Slices : h[of] = G[<<of, h>>]
    <3> HIDE DEF G
    <3> QED BY <1>6 DEF Solves
  <2> HIDE DEF G
  <2> QED BY <1>1, <2>1
<1>8. h = [of \in Slices |-> IngestBody(h, of[1], of[2], of[3])]
  BY <1>7
<1> QED BY <1>7, <1>8

\* The parser answers every call: whatever state it is in, whatever bytes and budget it is
\* given, ingest's loop ends, in a state of a parser and with actions of the known kinds;
\* bytes are left only while a macro replays (the loops of ingest, ingest_source and
\* ingest_buffer).
THEOREM ParserAnswers ==
    \A p \in P!Parser, bytes \in P!Input, budget \in 0..ExpansionLimit :
        P!Ingest[<<p, bytes, budget>>] \in Answer
<1> DEFINE Body(f) == [of \in Slices |-> IngestBody(f, of[1], of[2], of[3])]
           ff == P!Ingest
<1>1. PICK h \in [Slices -> Answer] : h = Body(h)
  BY IngestSolves
<1>2. ff = CHOOSE f : f = Body(f)
  BY Unfolded
<1>3. ff = Body(ff)
  <2> HIDE DEF Body, ff
  <2> QED BY <1>1, <1>2
<1> HIDE DEF ff
<1> DEFINE S == {of \in Slices : ff[of] \in Answer}
<1>4. ASSUME NEW of \in Slices, \A y \in Slices : WorkOf[y] < WorkOf[of] => y \in S
      PROVE  of \in S
  <2> DEFINE p == of[1]
             bytes == of[2]
             budget == of[3]
  <2>1. p \in P!Parser /\ bytes \in P!Input /\ budget \in 0..ExpansionLimit /\ of = <<p, bytes, budget>>
    BY DEF Slices
  <2>2. ff[of] = IngestBody(ff, p, bytes, budget)
    BY <1>3
  <2> HIDE DEF p, bytes, budget
  <2>3. \/ \E r \in Answer : \A g : IngestBody(g, p, bytes, budget) = r
        \/ \E y \in Slices :
               /\ WorkOf[y] < WorkOf[<<p, bytes, budget>>]
               /\ \/ \A g : IngestBody(g, p, bytes, budget) = g[y]
                  \/ \E out \in Seq(Acts) : \A g : IngestBody(g, p, bytes, budget) = P!Then(out, g[y])
    BY <2>1, IngestSteps
  <2>4. ASSUME NEW y \in Slices, WorkOf[y] < WorkOf[<<p, bytes, budget>>]
        PROVE  ff[y] \in Answer
    <3>1. y \in S
      <4> HIDE DEF S
      <4> QED BY <1>4, <2>1, <2>4
    <3> QED BY <3>1
  <2>5. ASSUME NEW y \in Slices, WorkOf[y] < WorkOf[<<p, bytes, budget>>],
               NEW out \in Seq(Acts), \A g : IngestBody(g, p, bytes, budget) = P!Then(out, g[y])
        PROVE  ff[of] \in Answer
    <3>1. ff[y] \in Answer
      BY <2>4, <2>5
    <3>2. P!Then(out, ff[y]) \in Answer
      BY <3>1, ThenAnswers
    <3>3. ff[of] = P!Then(out, ff[y])
      BY <2>2, <2>5
    <3> QED BY <3>2, <3>3
  <2>6. ASSUME NEW y \in Slices, WorkOf[y] < WorkOf[<<p, bytes, budget>>],
               \A g : IngestBody(g, p, bytes, budget) = g[y]
        PROVE  ff[of] \in Answer
    BY <2>2, <2>4, <2>6
  <2>7. ASSUME NEW r \in Answer, \A g : IngestBody(g, p, bytes, budget) = r
        PROVE  ff[of] \in Answer
    BY <2>2, <2>7
  <2>8. ff[of] \in Answer
    BY <2>3, <2>5, <2>6, <2>7
  <2> QED BY <2>8
<1>5. Slices \subseteq S
  <2> HIDE DEF S
  <2> QED BY <1>4, WorkType, MeasureInduction
<1>6. ASSUME NEW p \in P!Parser, NEW bytes \in P!Input, NEW budget \in 0..ExpansionLimit
      PROVE  P!Ingest[<<p, bytes, budget>>] \in Answer
  <2>1. <<p, bytes, budget>> \in S
    BY <1>5, WorkType
  <2> DEFINE of == <<p, bytes, budget>>
  <2> HIDE DEF of
  <2> QED BY <2>1 DEF ff, of
<1> QED BY <1>6
-------------------------------------------------------------------------------
(***************************************************************************)
(* The queue of notifications, from the recording of one to its replay.    *)
(***************************************************************************)
Entry ==
    [kind : {"BELL"}, value : BOOLEAN, order : Nat]
    \cup [kind : Kinds \ {"BELL"}, value : P!Input, order : Nat]
Queue == [common : Seq(Entry), order : Nat, lost : SUBSET Kinds, rung : Nat, owed : BOOLEAN]

Names == {"TITLE", "ICON"}

\* Some delivery of a sequence is of a kind.
Has(s, kind) == \E i \in DOMAIN s : s[i].kind = kind

\* No two deliveries have one order, nor one kind if it coalesces.
Apart(s) ==
    \A i, j \in DOMAIN s :
        i # j => s[i].order # s[j].order /\ (s[i].kind \in Coalescing => s[i].kind # s[j].kind)

Rising(s) == \A i, j \in DOMAIN s : i < j => s[i] < s[j]
InTurn(s) == \A i, j \in DOMAIN s : i < j => s[i].order < s[j].order

\* What waits has an order of its own, above all of what is taken.
QueueInv(q, ordersOfEvents, floors) ==
    /\ q \in Queue /\ Apart(q.common)
    /\ \A e \in ordersOfEvents : e <= q.order
    /\ \A f \in floors : f <= q.order
    /\ \A i \in DOMAIN q.common :
           /\ q.common[i].order <= q.order /\ q.common[i].order \notin ordersOfEvents
           /\ \A f \in floors : f < q.common[i].order

Orders(s) == {s[i].order : i \in DOMAIN s}
Floors == {seen} \cup Range(batchOrder) \cup Orders(others)

EventsInv ==
    /\ eventOrder \in Seq(Nat) /\ Len(eventOrder) = Len(events) /\ Rising(eventOrder)
    /\ \A f \in Floors, k \in DOMAIN eventOrder : f < eventOrder[k]

TakenInv ==
    /\ seen \in Nat
    /\ batchOrder \in Seq(Nat) /\ Len(batchOrder) = Len(batch) /\ Rising(batchOrder)
    /\ others \in Seq(Entry) /\ InTurn(others)
    /\ \A k \in DOMAIN batchOrder : seen < batchOrder[k]
    /\ \A i \in DOMAIN others : seen < others[i].order
    /\ \A k \in DOMAIN batchOrder, i \in DOMAIN others : batchOrder[k] # others[i].order

OrderInv == QueueInv(Pending, Range(eventOrder), Floors) /\ EventsInv /\ TakenInv

NameIn(actions, kind) ==
    LET named == {i \in DOMAIN actions : actions[i][1] = "notify" /\ actions[i][2] = kind}
    IN  IF named = {} THEN <<>> ELSE actions[Max(named)][3]

\* Unless the limit forgot one, the last name of a kind is where its latest delivery is.
NameInv(q, actions, kind, later, told1) ==
    kind \notin q.lost =>
        /\ \A i \in DOMAIN q.common : q.common[i].kind = kind => q.common[i].value = NameIn(actions, kind)
        /\ ~Has(q.common, kind) =>
               \A i \in DOMAIN later : later[i].kind = kind => later[i].value = NameIn(actions, kind)
        /\ ~Has(q.common, kind) /\ ~Has(later, kind) => told1 = NameIn(actions, kind)

Audible(s) == \E i \in DOMAIN s : s[i].kind = "BELL" /\ s[i].value
BellInv(q, later) == q.owed => "BELL" \in q.lost \/ Audible(q.common) \/ Audible(later)

\* Names come before the exit: no name waits that was recorded after it.
Before(s, t) ==
    \A i \in DOMAIN s, j \in DOMAIN t :
        s[i].kind \in Names /\ t[j].kind = "PROCESS_EXITED" => s[i].order < t[j].order

ExitInv ==
    /\ exited \in BOOLEAN /\ sawExit \in BOOLEAN
    /\ exited => ParserIdle
    /\ sawExit \/ Has(common, "PROCESS_EXITED") \/ Has(others, "PROCESS_EXITED") => exited
    /\ exited => \/ sawExit \/ "PROCESS_EXITED" \in lost
                 \/ Has(common, "PROCESS_EXITED") \/ Has(others, "PROCESS_EXITED")
    /\ sawExit => \A kind \in Names : ~Has(common, kind) /\ ~Has(others, kind)
    /\ Before(common, common) /\ Before(others, others) /\ Before(common, others) /\ Before(others, common)

HostInv ==
    /\ NameInv(Pending, applied, "TITLE", others, title)
    /\ NameInv(Pending, applied, "ICON", others, icon)
    /\ BellInv(Pending, others)
    /\ ExitInv

LEMMA Extremes ==
    ASSUME NEW T
    PROVE  Min(T) = P!Min(T) /\ Max(T) = P!Max(T)
  BY DEF Min, Max, P!Min, P!Max

\* A sequence in which a delivery took the place of those gone, or the last one.
Put(s, t, e, gone) ==
    \E d \in {0, 1}, k \in DOMAIN t :
        /\ t[k] = e
        /\ \A i \in DOMAIN t : i # k => i + d \in DOMAIN s /\ i + d \notin gone /\ t[i] = s[i + d]
        /\ \A j \in DOMAIN s : j \notin gone => j - d \in DOMAIN t /\ t[j - d] = s[j]

LEMMA PutInPlace ==
    ASSUME NEW s \in Seq(Entry), NEW k \in DOMAIN s, NEW e \in Entry
    PROVE  [s EXCEPT ![k] = e] \in Seq(Entry) /\ Put(s, [s EXCEPT ![k] = e], e, {k})
<1> DEFINE t == [s EXCEPT ![k] = e]
<1>1. Len(s) \in Nat /\ DOMAIN s = 1..Len(s)
  BY LenProperties
<1>2. t \in Seq(Entry) /\ DOMAIN t = DOMAIN s
  <2>1. k \in 1..Len(s)
    BY <1>1
  <2> HIDE DEF Entry
  <2> QED BY <2>1, ExceptSeq
<1>3. t[k] = e /\ \A i \in DOMAIN s : i # k => t[i] = s[i]
  OBVIOUS
<1> HIDE DEF t
<1>4. \A i \in DOMAIN s : i + 0 = i /\ i - 0 = i
  BY <1>1
<1>5. Put(s, t, e, {k})
  <2>1. /\ t[k] = e
        /\ \A i \in DOMAIN t : i # k => i + 0 \in DOMAIN s /\ i + 0 \notin {k} /\ t[i] = s[i + 0]
        /\ \A j \in DOMAIN s : j \notin {k} => j - 0 \in DOMAIN t /\ t[j - 0] = s[j]
    BY <1>2, <1>3, <1>4
  <2> QED BY <1>2, <2>1 DEF Put
<1> QED BY <1>2, <1>5 DEF t

LEMMA PutLast ==
    ASSUME NEW s \in Seq(Entry), NEW e \in Entry
    PROVE  Append(s, e) \in Seq(Entry) /\ Put(s, Append(s, e), e, {})
<1> DEFINE t == Append(s, e)
           k == Len(s) + 1
<1>1. Len(s) \in Nat /\ DOMAIN s = 1..Len(s)
  BY LenProperties
<1>2. /\ t \in Seq(Entry) /\ Len(t) = Len(s) + 1
      /\ \A i \in 1..Len(s) : t[i] = s[i]
      /\ t[Len(s) + 1] = e
  <2> HIDE DEF Entry
  <2> QED BY AppendProperties
<1> HIDE DEF t
<1>3. DOMAIN t = 1..k
  BY <1>2, LenProperties
<1>4. \A i \in DOMAIN t : i # k => i + 0 \in DOMAIN s /\ i + 0 \notin {} /\ t[i] = s[i + 0]
  BY <1>1, <1>2, <1>3
<1>5. \A j \in DOMAIN s : j \notin {} => j - 0 \in DOMAIN t /\ t[j - 0] = s[j]
  BY <1>1, <1>2, <1>3
<1>6. k \in DOMAIN t /\ t[k] = e
  BY <1>1, <1>2, <1>3
<1> HIDE DEF k
<1>7. Put(s, t, e, {})
  BY <1>4, <1>5, <1>6 DEF Put
<1> QED BY <1>2, <1>7 DEF t

LEMMA PutForFirst ==
    ASSUME NEW s \in Seq(Entry), s # <<>>, NEW e \in Entry
    PROVE  /\ Append(Tail(s), e) \in Seq(Entry) /\ Put(s, Append(Tail(s), e), e, {1})
           /\ 1 \in DOMAIN s
<1> DEFINE t == Append(Tail(s), e)
           k == Len(s)
<1>1. Len(s) \in Nat /\ DOMAIN s = 1..Len(s) /\ Len(s) # 0
  BY EmptySeq, LenProperties
<1>2. /\ Tail(s) \in Seq(Entry) /\ Len(Tail(s)) = Len(s) - 1
      /\ \A i \in 1..Len(Tail(s)) : Tail(s)[i] = s[i + 1]
  <2> HIDE DEF Entry
  <2> QED BY HeadTailProperties
<1>3. /\ t \in Seq(Entry) /\ Len(t) = Len(Tail(s)) + 1
      /\ \A i \in 1..Len(Tail(s)) : t[i] = Tail(s)[i]
      /\ t[Len(Tail(s)) + 1] = e
  <2> HIDE DEF Entry
  <2> QED BY <1>2, AppendProperties
<1> HIDE DEF t
<1>4. DOMAIN t = 1..k
  BY <1>1, <1>2, <1>3, LenProperties
<1>5. \A i \in DOMAIN t : i # k => i + 1 \in DOMAIN s /\ i + 1 \notin {1} /\ t[i] = s[i + 1]
  BY <1>1, <1>2, <1>3, <1>4
<1>6. \A j \in DOMAIN s : j \notin {1} => j - 1 \in DOMAIN t /\ t[j - 1] = s[j]
  <2>1. ASSUME NEW j \in DOMAIN s, j # 1 PROVE j - 1 \in DOMAIN t /\ t[j - 1] = s[j]
    <3>1. j - 1 \in 1..Len(Tail(s)) /\ j - 1 \in DOMAIN t /\ (j - 1) + 1 = j
      BY <1>1, <1>2, <1>4, <2>1
    <3>2. t[j - 1] = s[(j - 1) + 1]
      BY <1>2, <1>3, <3>1
    <3> QED BY <3>1, <3>2
  <2> QED BY <2>1
<1>7. k \in DOMAIN t /\ t[k] = e
  BY <1>1, <1>2, <1>3, <1>4
<1> HIDE DEF k
<1>8. Put(s, t, e, {1})
  BY <1>5, <1>6, <1>7 DEF Put
<1> QED BY <1>1, <1>3, <1>8 DEF t

\* What recording a notification does to the queue.
Recording(q, kind, value, r) ==
    /\ r \in Queue /\ r.order = q.order + 1 /\ r.rung = q.rung /\ r.owed = q.owed /\ q.lost \subseteq r.lost
    /\ \E e \in Entry : \E gone :
           /\ Put(q.common, r.common, e, gone)
           /\ e.kind = kind /\ e.order = q.order + 1
           /\ kind # "BELL" => e.value = value
           /\ kind = "BELL" => (value \/ Audible(q.common) => e.value)
           /\ \A j \in DOMAIN q.common :
                  /\ kind \in Coalescing /\ q.common[j].kind = kind => j \in gone
                  /\ j \in gone => \/ kind \in Coalescing /\ q.common[j].kind = kind
                                   \/ q.common[j].kind \in r.lost

Fits(kind, value) == kind \in Kinds /\ (IF kind = "BELL" THEN value \in BOOLEAN ELSE value \in P!Input)

LEMMA EntryIs ==
    ASSUME NEW kind, NEW value, Fits(kind, value), NEW n \in Nat
    PROVE  [kind |-> kind, value |-> value, order |-> n] \in Entry
  BY DEF Entry, Fits, Kinds

LEMMA RecordedIs ==
    ASSUME NEW q \in Queue, Apart(q.common), NEW kind, NEW value, Fits(kind, value)
    PROVE  Recording(q, kind, value, Recorded(q, Notification(kind, value)))
<1> DEFINE n == Notification(kind, value)
           s == q.common
           same == {i \in DOMAIN q.common : q.common[i].kind = n.kind}
           calm == {i \in DOMAIN q.common : q.common[i].kind \in Coalescing}
           new == [kind |-> n.kind, value |-> n.value, order |-> q.order + 1]
           next == [q EXCEPT !.order = @ + 1]
           forget(i) == [next EXCEPT !.lost = @ \cup {q.common[i].kind}]
           r1 == [next EXCEPT !.common[Min(same)] = Superseded(q, Min(same), n)]
           r2 == [next EXCEPT !.common = Append(@, new)]
           r3 == [forget(Min(calm)) EXCEPT !.common[Min(calm)] = new]
           r4 == [forget(1) EXCEPT !.common = Append(Tail(@), new)]
           r == Recorded(q, n)
<1>1. n.kind = kind /\ n.value = value
  BY DEF Notification
<1>2. r = IF kind \in Coalescing /\ same # {} THEN r1
          ELSE IF Len(s) < NotificationLimit THEN r2
          ELSE IF calm # {} THEN r3 ELSE r4
  BY DEF Recorded, Notification
<1>3. /\ s \in Seq(Entry) /\ q.order \in Nat /\ q.lost \in SUBSET Kinds /\ q.order + 1 \in Nat
      /\ q = [common |-> q.common, order |-> q.order, lost |-> q.lost, rung |-> q.rung, owed |-> q.owed]
      /\ q.rung \in Nat /\ q.owed \in BOOLEAN
  <2> HIDE DEF Entry
  <2> QED BY DEF Queue
<1>4. Len(s) \in Nat /\ DOMAIN s = 1..Len(s) /\ \A i \in DOMAIN s : s[i] \in Entry
  <2>1. Len(s) \in Nat /\ DOMAIN s = 1..Len(s)
    BY <1>3, LenProperties
  <2>2. \A i \in 1..Len(s) : s[i] \in Entry
    <3> HIDE DEF Entry, s
    <3> QED BY <1>3, <2>1, ElementOfSeq
  <2> QED BY <2>1, <2>2
<1>5. new \in Entry /\ new.kind = kind /\ new.value = value /\ new.order = q.order + 1
  <2>1. new \in Entry
    BY <1>1, <1>3, EntryIs
  <2> QED BY <1>1, <2>1
<1>6. \A i \in DOMAIN s : s[i].kind \in Kinds
  BY <1>4 DEF Entry, Kinds
<1>7. NotificationLimit \in Nat /\ NotificationLimit # 0
  BY LimitsAssumption
<1> HIDE DEF r, new
<1>8. CASE kind \in Coalescing /\ same # {}
  <2> DEFINE m == Min(same)
             e == Superseded(q, m, n)
             t == [s EXCEPT ![m] = e]
  <2>1. m \in same
    <3>1. same \in SUBSET Nat
      BY <1>4
    <3> HIDE DEF same
    <3> QED BY <1>8, <3>1, LeastOf, Extremes
  <2> HIDE DEF m
  <2>2. m \in DOMAIN s /\ s[m].kind = kind /\ s[m] \in Entry
    BY <1>1, <1>4, <2>1
  <2>3. e = [kind |-> kind, order |-> q.order + 1,
             value |-> IF kind = "BELL" THEN value \/ s[m].value ELSE value]
    BY <1>1 DEF Superseded
  <2>4. kind = "BELL" => s[m].value \in BOOLEAN
    BY <2>2 DEF Entry
  <2>5. e \in Entry /\ e.kind = kind /\ e.order = q.order + 1
        /\ (kind # "BELL" => e.value = value) /\ (kind = "BELL" => e.value = (value \/ s[m].value))
    <3>1. CASE kind = "BELL"
      BY <1>3, <2>3, <2>4, <3>1 DEF Entry, Fits, Kinds
    <3>2. CASE kind # "BELL"
      BY <1>3, <2>3, <3>2 DEF Entry, Fits, Kinds
    <3> QED BY <3>1, <3>2
  <2>6. \A j \in DOMAIN s : s[j].kind = kind => j = m
    BY <1>8, <2>2 DEF Apart
  <2> HIDE DEF e
  <2>7. t \in Seq(Entry) /\ Put(s, t, e, {m})
    BY <1>3, <2>2, <2>5, PutInPlace
  <2>8. r = [common |-> t, order |-> q.order + 1, lost |-> q.lost, rung |-> q.rung, owed |-> q.owed]
    <3>1. r = r1
      BY <1>2, <1>8
    <3>2. r1 = [q EXCEPT !.order = q.order + 1, !.common[m] = e]
      BY <1>3 DEF m, e
    <3> QED BY <1>3, <3>1, <3>2
  <2> HIDE DEF t
  <2>9. r \in Queue /\ r.common = t /\ r.order = q.order + 1 /\ r.rung = q.rung /\ r.owed = q.owed
        /\ r.lost = q.lost
    BY <1>3, <2>7, <2>8 DEF Queue
  <2>10. kind = "BELL" => (value \/ Audible(q.common) => e.value)
    <3>1. kind = "BELL" /\ Audible(q.common) => s[m].value
      BY <2>6 DEF Audible
    <3> QED BY <2>5, <3>1
  <2>11. \A j \in DOMAIN q.common :
             /\ kind \in Coalescing /\ q.common[j].kind = kind => j \in {m}
             /\ j \in {m} => \/ kind \in Coalescing /\ q.common[j].kind = kind
                             \/ q.common[j].kind \in r.lost
    BY <1>8, <2>2, <2>6
  <2> HIDE DEF s, n
  <2>12. Recording(q, kind, value, r)
    BY <2>5, <2>7, <2>9, <2>10, <2>11 DEF Recording, s
  <2> QED BY <2>12 DEF r, n
<1>9. ASSUME ~(kind \in Coalescing /\ same # {}), NEW t, NEW gone, Put(s, t, new, gone), t \in Seq(Entry),
             r.common = t, r \in Queue, r.order = q.order + 1, r.rung = q.rung, r.owed = q.owed,
             q.lost \subseteq r.lost, \A j \in gone : q.common[j].kind \in r.lost
      PROVE  Recording(q, kind, value, r)
  <2>1. kind \in Coalescing => \A j \in DOMAIN s : s[j].kind # kind
    BY <1>1, <1>9
  <2>2. kind = "BELL" => (value \/ Audible(q.common) => new.value)
    BY <1>5, <2>1 DEF Audible, Coalescing
  <2>3. \A j \in DOMAIN q.common :
             /\ kind \in Coalescing /\ q.common[j].kind = kind => j \in gone
             /\ j \in gone => \/ kind \in Coalescing /\ q.common[j].kind = kind
                              \/ q.common[j].kind \in r.lost
    BY <1>9, <2>1
  <2>4. Put(q.common, r.common, new, gone)
    BY <1>9
  <2> QED BY <1>5, <1>9, <2>2, <2>3, <2>4 DEF Recording
<1>10. CASE ~(kind \in Coalescing /\ same # {}) /\ Len(s) < NotificationLimit
  <2> DEFINE t == Append(s, new)
  <2>1. t \in Seq(Entry) /\ Put(s, t, new, {})
    BY <1>3, <1>5, PutLast
  <2>2. r = [common |-> t, order |-> q.order + 1, lost |-> q.lost, rung |-> q.rung, owed |-> q.owed]
    <3>1. r = r2
      BY <1>2, <1>10
    <3>2. r2 = [q EXCEPT !.order = q.order + 1, !.common = t]
      BY <1>3 DEF new
    <3> QED BY <1>3, <3>1, <3>2
  <2> HIDE DEF t
  <2>3. r \in Queue /\ r.common = t /\ r.order = q.order + 1 /\ r.rung = q.rung /\ r.owed = q.owed
        /\ r.lost = q.lost
    BY <1>3, <2>1, <2>2 DEF Queue
  <2>4. Recording(q, kind, value, r)
    BY <1>9, <1>10, <2>1, <2>3
  <2> QED BY <2>4 DEF r
<1>11. CASE ~(kind \in Coalescing /\ same # {}) /\ ~(Len(s) < NotificationLimit) /\ calm # {}
  <2> DEFINE m == Min(calm)
             t == [s EXCEPT ![m] = new]
  <2>1. m \in calm
    <3>1. calm \in SUBSET Nat
      BY <1>4
    <3> HIDE DEF calm
    <3> QED BY <1>11, <3>1, LeastOf, Extremes
  <2> HIDE DEF m
  <2>2. m \in DOMAIN s /\ s[m].kind \in Kinds
    BY <1>6, <2>1
  <2>3. t \in Seq(Entry) /\ Put(s, t, new, {m})
    BY <1>3, <1>5, <2>2, PutInPlace
  <2>4. r = [common |-> t, order |-> q.order + 1, lost |-> q.lost \cup {s[m].kind}, rung |-> q.rung,
             owed |-> q.owed]
    <3>1. r = r3
      BY <1>2, <1>11
    <3>2. r3 = [q EXCEPT !.order = q.order + 1, !.lost = q.lost \cup {s[m].kind}, !.common[m] = new]
      BY <1>3 DEF new, m
    <3> QED BY <1>3, <3>1, <3>2
  <2> HIDE DEF t
  <2>5. r \in Queue /\ r.common = t /\ r.order = q.order + 1 /\ r.rung = q.rung /\ r.owed = q.owed
        /\ r.lost = q.lost \cup {s[m].kind}
    BY <1>3, <2>2, <2>3, <2>4 DEF Queue
  <2>6. Recording(q, kind, value, r)
    BY <1>9, <1>11, <2>3, <2>5
  <2> QED BY <2>6 DEF r
<1>12. CASE ~(kind \in Coalescing /\ same # {}) /\ ~(Len(s) < NotificationLimit) /\ calm = {}
  <2> DEFINE t == Append(Tail(s), new)
  <2>1. s # <<>>
    BY <1>7, <1>12, EmptySeq
  <2>2. t \in Seq(Entry) /\ Put(s, t, new, {1}) /\ 1 \in DOMAIN s
    <3> HIDE DEF s
    <3> QED BY <1>3, <1>5, <2>1, PutForFirst
  <2>3. s[1].kind \in Kinds
    BY <1>6, <2>2
  <2>4. r = [common |-> t, order |-> q.order + 1, lost |-> q.lost \cup {s[1].kind}, rung |-> q.rung,
             owed |-> q.owed]
    <3>1. r = r4
      BY <1>2, <1>12
    <3>2. r4 = [q EXCEPT !.order = q.order + 1, !.lost = q.lost \cup {s[1].kind}, !.common = t]
      BY <1>3 DEF new
    <3> QED BY <1>3, <3>1, <3>2
  <2> HIDE DEF t
  <2>5. r \in Queue /\ r.common = t /\ r.order = q.order + 1 /\ r.rung = q.rung /\ r.owed = q.owed
        /\ r.lost = q.lost \cup {s[1].kind}
    BY <1>3, <2>2, <2>3, <2>4 DEF Queue
  <2>6. Recording(q, kind, value, r)
    BY <1>9, <1>12, <2>2, <2>5
  <2> QED BY <2>6 DEF r
<1> QED BY <1>8, <1>10, <1>11, <1>12

\* The same by what the queue holds: the new delivery, and of the others those not gone.
Latest(q, kind, value, r) ==
    /\ r \in Queue /\ r.order = q.order + 1 /\ r.rung = q.rung /\ r.owed = q.owed /\ q.lost \subseteq r.lost
    /\ \E k \in DOMAIN r.common :
           /\ r.common[k].kind = kind /\ r.common[k].order = q.order + 1
           /\ kind # "BELL" => r.common[k].value = value
           /\ kind = "BELL" => (value \/ Audible(q.common) => r.common[k].value)
           /\ \A i \in DOMAIN r.common :
                  i # k => \E j \in DOMAIN q.common :
                               /\ r.common[i] = q.common[j]
                               /\ ~(kind \in Coalescing /\ q.common[j].kind = kind)
    /\ \A j \in DOMAIN q.common :
           \/ \E i \in DOMAIN r.common : r.common[i] = q.common[j]
           \/ kind \in Coalescing /\ q.common[j].kind = kind
           \/ q.common[j].kind \in r.lost

LEMMA RecordingGives ==
    ASSUME NEW q \in Queue, Apart(q.common), \A i \in DOMAIN q.common : q.common[i].order <= q.order,
           NEW kind, NEW value, NEW r, Recording(q, kind, value, r)
    PROVE  Latest(q, kind, value, r) /\ Apart(r.common)
<1> DEFINE s == q.common
           t == r.common
<1>1. PICK e \in Entry : \E gone :
           /\ Put(q.common, r.common, e, gone)
           /\ e.kind = kind /\ e.order = q.order + 1
           /\ kind # "BELL" => e.value = value
           /\ kind = "BELL" => (value \/ Audible(q.common) => e.value)
           /\ \A j \in DOMAIN q.common :
                  /\ kind \in Coalescing /\ q.common[j].kind = kind => j \in gone
                  /\ j \in gone => \/ kind \in Coalescing /\ q.common[j].kind = kind
                                   \/ q.common[j].kind \in r.lost
  BY DEF Recording
<1>2. PICK gone :
           /\ Put(s, t, e, gone)
           /\ e.kind = kind /\ e.order = q.order + 1
           /\ kind # "BELL" => e.value = value
           /\ kind = "BELL" => (value \/ Audible(s) => e.value)
           /\ \A j \in DOMAIN s :
                  /\ kind \in Coalescing /\ s[j].kind = kind => j \in gone
                  /\ j \in gone => \/ kind \in Coalescing /\ s[j].kind = kind
                                   \/ s[j].kind \in r.lost
  BY <1>1
<1>3. PICK d \in {0, 1}, k \in DOMAIN t :
        /\ t[k] = e
        /\ \A i \in DOMAIN t : i # k => i + d \in DOMAIN s /\ i + d \notin gone /\ t[i] = s[i + d]
        /\ \A j \in DOMAIN s : j \notin gone => j - d \in DOMAIN t /\ t[j - d] = s[j]
  BY <1>2 DEF Put
<1>4. /\ r \in Queue /\ r.order = q.order + 1 /\ r.rung = q.rung /\ r.owed = q.owed
      /\ q.lost \subseteq r.lost
  BY DEF Recording
<1>5. s \in Seq(Entry) /\ t \in Seq(Entry) /\ q.order \in Nat
  <2> HIDE DEF Entry
  <2> QED BY <1>4 DEF Queue
<1>6. DOMAIN t \subseteq Nat /\ DOMAIN s \subseteq Nat
  BY <1>5, LenProperties
<1>7. \A j \in DOMAIN s : s[j].order <= q.order /\ s[j].order \in Nat
  <2>1. ASSUME NEW j \in DOMAIN s PROVE s[j].order \in Nat
    <3>1. s[j] \in Entry
      <4>1. j \in 1..Len(s)
        BY <1>5, LenProperties
      <4> HIDE DEF Entry, s
      <4> QED BY <1>5, <4>1, ElementOfSeq
    <3> QED BY <3>1 DEF Entry
  <2> QED BY <2>1
<1> HIDE DEF s, t
<1>8. ASSUME NEW i \in DOMAIN t, NEW j \in DOMAIN t, i # j
      PROVE  t[i].order # t[j].order /\ (t[i].kind \in Coalescing => t[i].kind # t[j].kind)
  <2>1. CASE i = k
    <3>1. /\ t[i] = e /\ e.kind = kind /\ e.order = q.order + 1
          /\ j + d \in DOMAIN s /\ j + d \notin gone /\ t[j] = s[j + d]
      BY <1>2, <1>3, <1>8, <2>1
    <3>2. s[j + d].order <= q.order /\ s[j + d].order \in Nat
      BY <1>7, <3>1
    <3>3. kind \in Coalescing => s[j + d].kind # kind
      BY <1>2, <3>1
    <3> QED BY <1>5, <3>1, <3>2, <3>3
  <2>2. CASE j = k
    <3>1. /\ t[j] = e /\ e.kind = kind /\ e.order = q.order + 1
          /\ i + d \in DOMAIN s /\ i + d \notin gone /\ t[i] = s[i + d]
      BY <1>2, <1>3, <1>8, <2>2
    <3>2. s[i + d].order <= q.order /\ s[i + d].order \in Nat
      BY <1>7, <3>1
    <3>3. kind \in Coalescing => s[i + d].kind # kind
      BY <1>2, <3>1
    <3> QED BY <1>5, <3>1, <3>2, <3>3
  <2>3. CASE i # k /\ j # k
    <3>1. i + d \in DOMAIN s /\ t[i] = s[i + d] /\ j + d \in DOMAIN s /\ t[j] = s[j + d]
      BY <1>3, <2>3
    <3>2. i + d # j + d
      BY <1>6, <1>8
    <3>3. /\ s[i + d].order # s[j + d].order
          /\ s[i + d].kind \in Coalescing => s[i + d].kind # s[j + d].kind
      BY <3>1, <3>2 DEF Apart, s
    <3> QED BY <3>1, <3>3
  <2> QED BY <2>1, <2>2, <2>3
<1>9. ASSUME NEW i \in DOMAIN t, i # k
      PROVE  \E j \in DOMAIN s : t[i] = s[j] /\ ~(kind \in Coalescing /\ s[j].kind = kind)
  BY <1>2, <1>3, <1>9
<1>10. ASSUME NEW j \in DOMAIN s
       PROVE  \/ \E i \in DOMAIN t : t[i] = s[j]
              \/ kind \in Coalescing /\ s[j].kind = kind
              \/ s[j].kind \in r.lost
  BY <1>2, <1>3
<1>11. /\ t[k].kind = kind /\ t[k].order = q.order + 1
       /\ kind # "BELL" => t[k].value = value
       /\ kind = "BELL" => (value \/ Audible(s) => t[k].value)
  BY <1>2, <1>3
<1>12. Latest(q, kind, value, r)
  <2>1. \E c \in DOMAIN t :
           /\ t[c].kind = kind /\ t[c].order = q.order + 1
           /\ kind # "BELL" => t[c].value = value
           /\ kind = "BELL" => (value \/ Audible(s) => t[c].value)
           /\ \A i \in DOMAIN t :
                  i # c => \E j \in DOMAIN s : t[i] = s[j] /\ ~(kind \in Coalescing /\ s[j].kind = kind)
    BY <1>9, <1>11
  <2> QED BY <1>4, <1>10, <2>1 DEF Latest, s, t
<1>13. Apart(t)
  BY <1>8 DEF Apart
<1> QED BY <1>12, <1>13 DEF t

\* A recorded delivery's order is new.
LEMMA QueueKept ==
    ASSUME NEW q, NEW es \in SUBSET Nat, NEW fs \in SUBSET Nat, QueueInv(q, es, fs),
           NEW kind, NEW value, NEW r, Recording(q, kind, value, r)
    PROVE  QueueInv(r, es, fs)
<1>1. q \in Queue /\ Apart(q.common) /\ \A i \in DOMAIN q.common : q.common[i].order <= q.order
  BY DEF QueueInv
<1>2. Latest(q, kind, value, r) /\ Apart(r.common)
  BY <1>1, RecordingGives
<1>3. r \in Queue /\ r.order = q.order + 1 /\ q.order \in Nat
  BY <1>1, <1>2 DEF Latest, Queue
<1>4. PICK k \in DOMAIN r.common :
           /\ r.common[k].order = q.order + 1
           /\ \A i \in DOMAIN r.common :
                  i # k => \E j \in DOMAIN q.common : r.common[i] = q.common[j]
  BY <1>2 DEF Latest
<1>5. /\ \A e \in es : e <= q.order /\ e \in Nat
      /\ \A f \in fs : f <= q.order /\ f \in Nat
  BY DEF QueueInv
<1>6. ASSUME NEW j \in DOMAIN q.common
      PROVE  /\ q.common[j].order <= q.order /\ q.common[j].order \notin es /\ q.common[j].order \in Nat
             /\ \A f \in fs : f < q.common[j].order
  <2>1. q.common[j] \in Entry
    <3>1. q.common \in Seq(Entry)
      BY <1>1 DEF Queue
    <3>2. j \in 1..Len(q.common)
      BY <3>1, LenProperties
    <3> HIDE DEF Entry
    <3> QED BY <3>1, <3>2, ElementOfSeq
  <2>2. q.common[j].order \in Nat
    BY <2>1 DEF Entry
  <2> QED BY <2>2 DEF QueueInv
<1>7. ASSUME NEW i \in DOMAIN r.common
      PROVE  /\ r.common[i].order <= r.order /\ r.common[i].order \notin es
             /\ \A f \in fs : f < r.common[i].order
  <2>1. CASE i = k
    BY <1>3, <1>4, <1>5, <2>1
  <2>2. CASE i # k
    <3>1. PICK j \in DOMAIN q.common : r.common[i] = q.common[j]
      BY <1>4, <2>2
    <3>2. /\ q.common[j].order <= q.order /\ q.common[j].order \notin es /\ q.common[j].order \in Nat
          /\ \A f \in fs : f < q.common[j].order
      BY <1>6
    <3> QED BY <1>3, <3>1, <3>2
  <2> QED BY <2>1, <2>2
<1>8. (\A e \in es : e <= r.order) /\ \A f \in fs : f <= r.order
  BY <1>3, <1>5
<1> QED BY <1>2, <1>3, <1>7, <1>8 DEF QueueInv

\* Recording another kind leaves a name where it was, or forgets it; recording a name makes
\* it the one that waits.
LEMMA NameKept ==
    ASSUME NEW q \in Queue, NEW kind, NEW value, NEW r, Latest(q, kind, value, r),
           NEW name \in Names, NEW actions, NEW actions1, NEW later, NEW told1,
           NameInv(q, actions, name, later, told1),
           kind = name => NameIn(actions1, name) = value,
           kind # name => NameIn(actions1, name) = NameIn(actions, name)
    PROVE  NameInv(r, actions1, name, later, told1)
<1> SUFFICES ASSUME name \notin r.lost
             PROVE  /\ \A i \in DOMAIN r.common :
                           r.common[i].kind = name => r.common[i].value = NameIn(actions1, name)
                    /\ ~Has(r.common, name) =>
                           \A i \in DOMAIN later :
                               later[i].kind = name => later[i].value = NameIn(actions1, name)
                    /\ ~Has(r.common, name) /\ ~Has(later, name) => told1 = NameIn(actions1, name)
  BY DEF NameInv
<1>1. name \notin q.lost
  BY DEF Latest
<1>2. /\ \A i \in DOMAIN q.common : q.common[i].kind = name => q.common[i].value = NameIn(actions, name)
      /\ ~Has(q.common, name) =>
             \A i \in DOMAIN later : later[i].kind = name => later[i].value = NameIn(actions, name)
      /\ ~Has(q.common, name) /\ ~Has(later, name) => told1 = NameIn(actions, name)
  BY <1>1 DEF NameInv
<1>3. PICK k \in DOMAIN r.common :
           /\ r.common[k].kind = kind
           /\ kind # "BELL" => r.common[k].value = value
           /\ \A i \in DOMAIN r.common :
                  i # k => \E j \in DOMAIN q.common :
                               /\ r.common[i] = q.common[j]
                               /\ ~(kind \in Coalescing /\ q.common[j].kind = kind)
  BY DEF Latest
<1>4. name \in Coalescing /\ name # "BELL"
  BY DEF Names, Coalescing
<1>5. CASE kind = name
  <2>1. Has(r.common, name)
    BY <1>3, <1>5 DEF Has
  <2>2. \A i \in DOMAIN r.common : r.common[i].kind = name => r.common[i].value = value
    BY <1>3, <1>4, <1>5
  <2> QED BY <1>5, <2>1, <2>2
<1>6. CASE kind # name
  <2>1. NameIn(actions1, name) = NameIn(actions, name)
    BY <1>6
  <2>2. \A i \in DOMAIN r.common : r.common[i].kind = name => r.common[i].value = NameIn(actions, name)
    <3>1. ASSUME NEW i \in DOMAIN r.common, r.common[i].kind = name
          PROVE  r.common[i].value = NameIn(actions, name)
      <4>1. i # k
        BY <1>3, <1>6, <3>1
      <4>2. PICK j \in DOMAIN q.common : r.common[i] = q.common[j]
        BY <1>3, <4>1
      <4> QED BY <1>2, <3>1, <4>2
    <3> QED BY <3>1
  <2>3. Has(q.common, name) => Has(r.common, name)
    <3>1. ASSUME NEW j \in DOMAIN q.common, q.common[j].kind = name
          PROVE  \E i \in DOMAIN r.common : r.common[i].kind = name
      <4>1. \/ \E i \in DOMAIN r.common : r.common[i] = q.common[j]
            \/ kind \in Coalescing /\ q.common[j].kind = kind
            \/ q.common[j].kind \in r.lost
        BY DEF Latest
      <4> QED BY <1>6, <3>1, <4>1
    <3> QED BY <3>1 DEF Has
  <2> QED BY <1>2, <2>1, <2>2, <2>3
<1> QED BY <1>5, <1>6

\* A bell that waits to be played waits on, joined with a later one, or is forgotten.
LEMMA BellKept ==
    ASSUME NEW q \in Queue, NEW kind, NEW value, NEW r, Latest(q, kind, value, r)
    PROVE  /\ Audible(q.common) => Audible(r.common) \/ "BELL" \in r.lost
           /\ kind = "BELL" /\ value => Audible(r.common)
<1>1. PICK k \in DOMAIN r.common :
           /\ r.common[k].kind = kind
           /\ kind = "BELL" => (value \/ Audible(q.common) => r.common[k].value)
  BY DEF Latest
<1>2. kind = "BELL" /\ (value \/ Audible(q.common)) => Audible(r.common)
  BY <1>1 DEF Audible
<1>3. ASSUME Audible(q.common), kind # "BELL" PROVE Audible(r.common) \/ "BELL" \in r.lost
  <2>1. PICK j \in DOMAIN q.common : q.common[j].kind = "BELL" /\ q.common[j].value
    BY <1>3 DEF Audible
  <2>2. \/ \E i \in DOMAIN r.common : r.common[i] = q.common[j]
        \/ kind \in Coalescing /\ q.common[j].kind = kind
        \/ q.common[j].kind \in r.lost
    BY DEF Latest
  <2> QED BY <1>3, <2>1, <2>2 DEF Audible
<1> QED BY <1>2, <1>3

\* What the last name is after one more action.
LEMMA NoticeIs ==
    ASSUME NEW a \in Acts, a[1] = "notify"
    PROVE  /\ a[2] \in {"BELL", "ICON", "TITLE"}
           /\ a[2] # "BELL" => Fits(a[2], a[3])
<1>1. a \in Notices \/ a \in Silent
  BY DEF Acts
<1>2. a \notin Silent
  <2>1. a \notin {"icon", "title"} \X P!Input
    OBVIOUS
  <2>2. a \notin {"text"} \X Seq(P!Bytes \cup {"replacement"})
    OBVIOUS
  <2>3. a \notin {"diagnostic"} \X Words \X Words
    OBVIOUS
  <2>4. a \notin {"CSI"} \X P!Input \X P!Input \X P!Bytes
    OBVIOUS
  <2>5. a # <<"control", "BEL">> /\ a # <<"ESC", "M">>
    OBVIOUS
  <2> QED BY <2>1, <2>2, <2>3, <2>4, <2>5 DEF Silent
<1>3. CASE a = <<"notify", "BELL">>
  BY <1>3
<1>4. CASE a \in {"notify"} \X {"ICON", "TITLE"} \X P!Input
  <2>1. a[2] \in {"ICON", "TITLE"} /\ a[3] \in P!Input
    BY <1>4
  <2> QED BY <2>1 DEF Fits, Kinds
<1> QED BY <1>1, <1>2, <1>3, <1>4 DEF Notices

LEMMA NameInAppended ==
    ASSUME NEW X, NEW s \in Seq(X), NEW a \in X, NEW name
    PROVE  NameIn(Append(s, a), name)
           = IF a[1] = "notify" /\ a[2] = name THEN a[3] ELSE NameIn(s, name)
<1> DEFINE t == Append(s, a)
           n == Len(s)
           named == {i \in DOMAIN s : s[i][1] = "notify" /\ s[i][2] = name}
           named1 == {i \in DOMAIN t : t[i][1] = "notify" /\ t[i][2] = name}
<1>1. /\ n \in Nat /\ DOMAIN s = 1..n /\ DOMAIN t = 1..(n + 1)
      /\ t[n + 1] = a /\ \A i \in 1..n : t[i] = s[i]
  BY AppendProperties, LenProperties
<1>2. /\ NameIn(s, name) = IF named = {} THEN <<>> ELSE s[Max(named)][3]
      /\ NameIn(t, name) = IF named1 = {} THEN <<>> ELSE t[Max(named1)][3]
  BY DEF NameIn
<1> HIDE DEF t
<1>3. CASE a[1] = "notify" /\ a[2] = name
  <2>1. n + 1 \in named1 /\ named1 \in SUBSET (0..(n + 1)) /\ named1 # {}
    BY <1>1, <1>3
  <2>2. Max(named1) = n + 1
    <3> HIDE DEF named1
    <3>1. n + 1 \in Nat
      BY <1>1
    <3> DEFINE m == P!Max(named1)
    <3>2. m \in named1 /\ \A k \in named1 : m >= k
      BY <2>1, <3>1, GreatestOf
    <3> HIDE DEF m
    <3>3. m = n + 1
      BY <1>1, <2>1, <3>2
    <3> QED BY <3>3, Extremes DEF m
  <2> HIDE DEF named1
  <2> QED BY <1>1, <1>2, <1>3, <2>1, <2>2 DEF t
<1>4. CASE ~(a[1] = "notify" /\ a[2] = name)
  <2>1. named1 = named
    BY <1>1, <1>4
  <2>2. named # {} => t[Max(named)] = s[Max(named)]
    <3> SUFFICES ASSUME named # {} PROVE t[Max(named)] = s[Max(named)]
      OBVIOUS
    <3>1. named \in SUBSET (0..n) /\ named \subseteq 1..n
      BY <1>1
    <3>2. P!Max(named) \in named
      <4> HIDE DEF named
      <4> QED BY <1>1, <3>1, GreatestOf
    <3>3. Max(named) \in 1..n
      <4> HIDE DEF named
      <4> QED BY <3>1, <3>2, Extremes
    <3> QED BY <1>1, <3>3
  <2> HIDE DEF named, named1
  <2> QED BY <1>2, <1>4, <2>1, <2>2 DEF t
<1> QED BY <1>3, <1>4

\* One action of the parser, as handle_parser_actions takes it.
Heard(q, a) ==
    IF a[1] # "notify" THEN q
    ELSE IF a[2] = "BELL" THEN Rung(q)
    ELSE Recorded(q, Notification(a[2], a[3]))

\* Everything a recording keeps.
Keeps(q, r, es, fs, a, exit) ==
    /\ QueueInv(r, es, fs) /\ q.lost \subseteq r.lost
    /\ \A name \in Names, s \in Seq(Acts) : \A later, told1 :
           NameInv(q, s, name, later, told1) => NameInv(r, Append(s, a), name, later, told1)
    /\ \A later : BellInv(q, later) => BellInv(r, later)
    /\ ~Has(q.common, exit) => ~Has(r.common, exit)

LEMMA RungKeeps ==
    ASSUME NEW es \in SUBSET Nat, NEW fs \in SUBSET Nat, NEW q, QueueInv(q, es, fs),
           audible \in BOOLEAN, NEW a \in Acts, a[1] = "notify", a[2] = "BELL"
    PROVE  Keeps(q, Rung(q), es, fs, a, "PROCESS_EXITED")
<1> DEFINE r0 == Recorded(q, Notification("BELL", audible))
           r == Rung(q)
<1>1. q \in Queue /\ Apart(q.common) /\ \A i \in DOMAIN q.common : q.common[i].order <= q.order
  BY DEF QueueInv
<1>2. Recording(q, "BELL", audible, r0)
  <2>1. Fits("BELL", audible)
    BY DEF Fits, Kinds
  <2> HIDE DEF r0
  <2> QED BY <1>1, <2>1, RecordedIs DEF r0
<1> HIDE DEF r0
<1>3. Latest(q, "BELL", audible, r0) /\ QueueInv(r0, es, fs)
  BY <1>1, <1>2, RecordingGives, QueueKept
<1>4. r0 \in Queue /\ r0.rung = q.rung /\ r0.owed = q.owed /\ q.lost \subseteq r0.lost
  BY <1>3 DEF Latest
<1>5. /\ r0 = [common |-> r0.common, order |-> r0.order, lost |-> r0.lost, rung |-> r0.rung, owed |-> r0.owed]
      /\ r0.rung \in Nat /\ r0.owed \in BOOLEAN /\ q.rung \in Nat
  BY <1>1, <1>4 DEF Queue
<1> DEFINE r1 == [common |-> r0.common, order |-> r0.order, lost |-> r0.lost, rung |-> r0.rung + 1,
                  owed |-> r0.owed \/ audible]
<1>6. r = IF q.rung >= 1 THEN q ELSE r1
  <2> DEFINE x == r0.owed \/ audible
  <2>0. [r0 EXCEPT !.rung = @ + 1, !.owed = @ \/ audible] = [r0 EXCEPT !.rung = r0.rung + 1, !.owed = x]
    OBVIOUS
  <2>1. [r0 EXCEPT !.rung = @ + 1, !.owed = @ \/ audible] = r1
    <3>1. r1 = [common |-> r0.common, order |-> r0.order, lost |-> r0.lost, rung |-> r0.rung + 1,
                owed |-> x]
      OBVIOUS
    <3> HIDE DEF x, r1
    <3> DEFINE y == r0.rung + 1
    <3> HIDE DEF y
    <3>2. [r0 EXCEPT !.rung = y, !.owed = x] = r1
      <4> DEFINE r5 == [r0 EXCEPT !.rung = y]
      <4>1. r5 = [common |-> r0.common, order |-> r0.order, lost |-> r0.lost, rung |-> y,
                  owed |-> r0.owed]
        BY <1>5
      <4>2. [r0 EXCEPT !.rung = y, !.owed = x] = [r5 EXCEPT !.owed = x]
        OBVIOUS
      <4> HIDE DEF r5
      <4>3. [r5 EXCEPT !.owed = x]
            = [common |-> r0.common, order |-> r0.order, lost |-> r0.lost, rung |-> y, owed |-> x]
        BY <4>1
      <4> QED BY <3>1, <4>2, <4>3 DEF y
    <3> QED BY <2>0, <3>2 DEF x, y
  <2>2. r = IF q.rung >= 1 THEN q ELSE [r0 EXCEPT !.rung = @ + 1, !.owed = @ \/ audible]
    BY DEF Rung, r0
  <2> QED BY <2>1, <2>2
<1>7. /\ r1.common = r0.common /\ r1.order = r0.order /\ r1.lost = r0.lost
      /\ r1.owed = (q.owed \/ audible) /\ r1 \in Queue
  <2>1. (r0.owed \/ audible) \in BOOLEAN /\ r0.rung + 1 \in Nat
    BY <1>5
  <2>2. r1 \in Queue
    BY <1>4, <2>1 DEF Queue
  <2>3. r1.owed = (q.owed \/ audible)
    BY <1>4
  <2> QED BY <2>2, <2>3
<1> HIDE DEF r, r1
<1>8. QueueInv(r1, es, fs)
  BY <1>3, <1>7 DEF QueueInv
<1>9. ASSUME NEW name \in Names, NEW s \in Seq(Acts)
      PROVE  NameIn(Append(s, a), name) = NameIn(s, name)
  <2>1. a[2] # name
    BY DEF Names
  <2> HIDE DEF Acts
  <2> QED BY <2>1, NameInAppended
<1>10. ASSUME NEW name \in Names, NEW s \in Seq(Acts), NEW later, NEW told1,
              NameInv(q, s, name, later, told1)
       PROVE  NameInv(q, Append(s, a), name, later, told1) /\ NameInv(r1, Append(s, a), name, later, told1)
  <2>1. NameIn(Append(s, a), name) = NameIn(s, name) /\ "BELL" # name
    BY <1>9 DEF Names
  <2>2. NameInv(r0, Append(s, a), name, later, told1)
    <3> DEFINE t == Append(s, a)
    <3> HIDE DEF t
    <3> QED BY <1>1, <1>3, <1>10, <2>1, NameKept DEF t
  <2> QED BY <1>7, <1>10, <2>1, <2>2 DEF NameInv
<1>11. ASSUME NEW later, BellInv(q, later) PROVE BellInv(r1, later)
  <2>1. /\ Audible(q.common) => Audible(r0.common) \/ "BELL" \in r0.lost
        /\ audible => Audible(r0.common)
    BY <1>1, <1>3, BellKept
  <2> QED BY <1>4, <1>7, <1>11, <2>1 DEF BellInv
<1>12. ~Has(q.common, "PROCESS_EXITED") => ~Has(r1.common, "PROCESS_EXITED")
  BY <1>3, <1>7 DEF Latest, Has
<1>13. q.lost \subseteq r1.lost
  BY <1>4, <1>7
<1>14. Keeps(q, q, es, fs, a, "PROCESS_EXITED")
  BY <1>10 DEF Keeps
<1>15. Keeps(q, r1, es, fs, a, "PROCESS_EXITED")
  BY <1>8, <1>10, <1>11, <1>12, <1>13 DEF Keeps
<1>16. r = q \/ r = r1
  BY <1>6
<1> QED BY <1>14, <1>15, <1>16 DEF r

LEMMA HeardKeeps ==
    ASSUME NEW es \in SUBSET Nat, NEW fs \in SUBSET Nat, NEW q, QueueInv(q, es, fs),
           audible \in BOOLEAN, NEW a \in Acts
    PROVE  Keeps(q, Heard(q, a), es, fs, a, "PROCESS_EXITED")
<1>1. q \in Queue /\ Apart(q.common) /\ \A i \in DOMAIN q.common : q.common[i].order <= q.order
  BY DEF QueueInv
<1>2. CASE a[1] # "notify"
  <2>1. ASSUME NEW name \in Names, NEW s \in Seq(Acts), NEW later, NEW told1,
               NameInv(q, s, name, later, told1)
        PROVE  NameInv(q, Append(s, a), name, later, told1)
    <3>1. NameIn(Append(s, a), name) = NameIn(s, name)
      <4> HIDE DEF Acts
      <4> QED BY <1>2, NameInAppended
    <3> QED BY <2>1, <3>1 DEF NameInv
  <2>2. Keeps(q, q, es, fs, a, "PROCESS_EXITED")
    BY <2>1 DEF Keeps
  <2> QED BY <1>2, <2>2 DEF Heard
<1>3. CASE a[1] = "notify" /\ a[2] = "BELL"
  <2>1. Keeps(q, Rung(q), es, fs, a, "PROCESS_EXITED")
    BY <1>3, RungKeeps
  <2> QED BY <1>3, <2>1 DEF Heard
<1>4. CASE a[1] = "notify" /\ a[2] # "BELL"
  <2> DEFINE kind == a[2]
             value == a[3]
             r == Recorded(q, Notification(kind, value))
  <2>1. kind \in Names /\ Fits(kind, value)
    BY <1>4, NoticeIs DEF Names
  <2> HIDE DEF r
  <2>2. Recording(q, kind, value, r)
    <3> HIDE DEF kind, value
    <3> QED BY <1>1, <2>1, RecordedIs DEF r
  <2>3. Latest(q, kind, value, r) /\ QueueInv(r, es, fs)
    <3> HIDE DEF kind, value
    <3> QED BY <1>1, <2>2, RecordingGives, QueueKept
  <2>4. ASSUME NEW name \in Names, NEW s \in Seq(Acts), NEW later, NEW told1,
               NameInv(q, s, name, later, told1)
        PROVE  NameInv(r, Append(s, a), name, later, told1)
    <3> DEFINE t == Append(s, a)
    <3>1. NameIn(t, name) = IF a[1] = "notify" /\ a[2] = name THEN a[3] ELSE NameIn(s, name)
      <4> HIDE DEF Acts
      <4> QED BY NameInAppended
    <3>2. /\ kind = name => NameIn(t, name) = value
          /\ kind # name => NameIn(t, name) = NameIn(s, name)
      BY <1>4, <3>1
    <3> HIDE DEF t, kind, value
    <3>3. NameInv(r, t, name, later, told1)
      BY <1>1, <2>3, <2>4, <3>2, NameKept
    <3> QED BY <3>3 DEF t
  <2>5. ASSUME NEW later, BellInv(q, later) PROVE BellInv(r, later)
    <3>1. Audible(q.common) => Audible(r.common) \/ "BELL" \in r.lost
      <4> HIDE DEF kind, value
      <4> QED BY <1>1, <2>3, BellKept
    <3>2. r.owed = q.owed /\ q.lost \subseteq r.lost
      BY <2>3 DEF Latest
    <3> QED BY <2>5, <3>1, <3>2 DEF BellInv
  <2>6. ~Has(q.common, "PROCESS_EXITED") => ~Has(r.common, "PROCESS_EXITED")
    <3>1. kind # "PROCESS_EXITED"
      BY <2>1 DEF Names
    <3> HIDE DEF kind, value
    <3> QED BY <2>3, <3>1 DEF Latest, Has
  <2>7. Keeps(q, r, es, fs, a, "PROCESS_EXITED")
    BY <2>3, <2>4, <2>5, <2>6 DEF Keeps, Latest
  <2>8. Heard(q, a) = r
    BY <1>4 DEF Heard, r
  <2> QED BY <2>7, <2>8
<1> QED BY <1>2, <1>3, <1>4

LEMMA UpTo ==
    ASSUME NEW X, NEW s \in Seq(X), NEW t \in Seq(X)
    PROVE  /\ s \o SubSeq(t, 1, 0) = s /\ s \o SubSeq(t, 1, Len(t)) = s \o t
           /\ \A k \in 0..Len(t) : s \o SubSeq(t, 1, k) \in Seq(X)
           /\ \A k \in 0..Len(t) : k + 1 \in 1..Len(t) =>
                  s \o SubSeq(t, 1, k + 1) = Append(s \o SubSeq(t, 1, k), t[k + 1])
<1>1. Len(t) \in Nat
  BY LenProperties
<1>2. s \o SubSeq(t, 1, 0) = s
  <2>1. SubSeq(t, 1, 0) = <<>>
    BY SubSeqEmpty
  <2> QED BY <2>1, ConcatEmptySeq
<1>3. SubSeq(t, 1, Len(t)) = t
  BY SubSeqFull
<1>4. ASSUME NEW k \in 0..Len(t)
      PROVE  SubSeq(t, 1, k) \in Seq(X) /\ s \o SubSeq(t, 1, k) \in Seq(X)
  <2>1. 1 \in Nat /\ 1 >= 1 /\ k \in Int /\ k <= Len(t)
    BY <1>1
  <2>2. SubSeq(t, 1, k) \in Seq(X)
    BY <2>1, PartOf
  <2> QED BY <2>2, ConcatProperties
<1>5. ASSUME NEW k \in 0..Len(t), k + 1 \in 1..Len(t)
      PROVE  s \o SubSeq(t, 1, k + 1) = Append(s \o SubSeq(t, 1, k), t[k + 1])
  <2> DEFINE u == SubSeq(t, 1, k)
             a == t[k + 1]
  <2>1. a \in X
    BY <1>5, ElementOfSeq
  <2>2. SubSeq(t, 1, k + 1) = u \o <<a>>
    <3>1. 1 \in 1..Len(t) /\ k + 1 \in 1..Len(t) /\ k + 1 - 1 = k
      BY <1>1, <1>5
    <3>2. SubSeq(t, 1, k + 1) = SubSeq(t, 1, k + 1 - 1) \o <<t[k + 1]>>
      <4> DEFINE m == k + 1
      <4>1. m \in 1..Len(t)
        BY <3>1
      <4> HIDE DEF m
      <4>2. SubSeq(t, 1, m) = SubSeq(t, 1, m - 1) \o <<t[m]>>
        BY <3>1, <4>1, SubSeqRecursiveSecond
      <4> QED BY <4>2 DEF m
    <3> QED BY <3>1, <3>2
  <2>3. u \in Seq(X) /\ s \o u \in Seq(X) /\ <<a>> \in Seq(X)
    BY <1>4, <2>1
  <2> HIDE DEF u, a
  <2>4. s \o (u \o <<a>>) = (s \o u) \o <<a>>
    BY <2>3, ConcatAssociative
  <2>5. Append(s \o u, a) = (s \o u) \o <<a>>
    BY <2>1, <2>3, AppendIsConcat
  <2> QED BY <2>2, <2>4, <2>5 DEF u, a
<1> QED BY <1>2, <1>3, <1>4, <1>5

\* Everything that taking the actions of a slice keeps.
KeepsAll(q, r, es, fs, actions, exit) ==
    /\ QueueInv(r, es, fs) /\ q.lost \subseteq r.lost
    /\ \A name \in Names, s \in Seq(Acts) : \A later, told1 :
           NameInv(q, s, name, later, told1) => NameInv(r, s \o actions, name, later, told1)
    /\ \A later : BellInv(q, later) => BellInv(r, later)
    /\ ~Has(q.common, exit) => ~Has(r.common, exit)

LEMMA NotifiedKeeps ==
    ASSUME NEW es \in SUBSET Nat, NEW fs \in SUBSET Nat, NEW q, QueueInv(q, es, fs),
           audible \in BOOLEAN, NEW actions \in Seq(Acts)
    PROVE  KeepsAll(q, Notified(q, actions), es, fs, actions, "PROCESS_EXITED")
<1> DEFINE n == Len(actions)
           R == {p \in Queue : QueueInv(p, es, fs)}
           Body(f) == [i \in 0..Len(actions) |-> IF i = 0 THEN q ELSE Heard(f[i - 1], actions[i])]
           ff == CHOOSE f : f = Body(f)
           H == [ix \in (1..n) \X R |-> Heard(ix[2], actions[ix[1]])]
           exit == "PROCESS_EXITED"
<1>1. n \in Nat /\ \A i \in 1..n : actions[i] \in Acts
  <2> HIDE DEF Acts
  <2> QED BY LenProperties, ElementOfSeq
<1>2. q \in R
  BY DEF QueueInv
<1>3. H \in [(1..n) \X R -> R]
  <2>1. ASSUME NEW ix \in (1..n) \X R PROVE Heard(ix[2], actions[ix[1]]) \in R
    <3>1. ix[1] \in 1..n /\ QueueInv(ix[2], es, fs)
      BY <2>1
    <3>2. actions[ix[1]] \in Acts
      BY <1>1, <3>1
    <3>3. Keeps(ix[2], Heard(ix[2], actions[ix[1]]), es, fs, actions[ix[1]], exit)
      <4> HIDE DEF Acts
      <4> QED BY <3>1, <3>2, HeardKeeps
    <3> QED BY <3>3 DEF Keeps, QueueInv
  <2> HIDE DEF R
  <2> QED BY <2>1
<1>4. PICK h : Iterates(h, H, n, q, R)
  <2> HIDE DEF H, n, R
  <2> QED BY <1>1, <1>2, <1>3, IterationExists
<1>5. h = Body(h)
  <2>1. h \in [0..n -> R] /\ h[0] = q /\ \A i \in 1..n : h[i] = H[<<i, h[i - 1]>>]
    BY <1>4 DEF Iterates
  <2>2. ASSUME NEW i \in 1..n PROVE h[i] = Heard(h[i - 1], actions[i])
    <3>1. h[i - 1] \in R
      <4> HIDE DEF R
      <4> QED BY <1>1, <2>1
    <3> HIDE DEF n, R
    <3> QED BY <2>1, <3>1
  <2> HIDE DEF R
  <2> QED BY <1>1, <2>1, <2>2
<1>6. ff = Body(ff)
  <2> HIDE DEF Body
  <2> QED BY <1>5
<1>7. Notified(q, actions) = ff[n]
  BY DEF Notified, Heard
<1> HIDE DEF ff
<1> DEFINE Good(k) == KeepsAll(q, ff[k], es, fs, SubSeq(actions, 1, k), exit)
           T == {k \in Nat : k \in 0..n => Good(k)}
<1>8. Good(0)
  <2>1. ff[0] = q
    BY <1>1, <1>6
  <2>2. \A s \in Seq(Acts) : s \o SubSeq(actions, 1, 0) = s
    <3> HIDE DEF Acts
    <3> QED BY UpTo
  <2> QED BY <2>1, <2>2 DEF KeepsAll
<1>9. ASSUME NEW k \in T PROVE k + 1 \in T
  <2> SUFFICES ASSUME k + 1 \in 0..n PROVE Good(k + 1)
    OBVIOUS
  <2> DEFINE p == ff[k]
             a == actions[k + 1]
             r == ff[k + 1]
  <2>1. k \in 0..n /\ k + 1 \in 1..n
    BY <1>1
  <2>2. KeepsAll(q, p, es, fs, SubSeq(actions, 1, k), exit)
    BY <2>1
  <2>3. r = Heard(p, a) /\ a \in Acts
    BY <1>1, <1>6, <2>1
  <2> HIDE DEF p, a, r
  <2>4. QueueInv(p, es, fs)
    BY <2>2 DEF KeepsAll
  <2>5. Keeps(p, r, es, fs, a, exit)
    BY <2>3, <2>4, HeardKeeps
  <2>6. ASSUME NEW name \in Names, NEW s \in Seq(Acts), NEW later, NEW told1,
               NameInv(q, s, name, later, told1)
        PROVE  NameInv(r, s \o SubSeq(actions, 1, k + 1), name, later, told1)
    <3> DEFINE u == s \o SubSeq(actions, 1, k)
    <3>1. u \in Seq(Acts) /\ s \o SubSeq(actions, 1, k + 1) = Append(u, a)
      <4> HIDE DEF Acts
      <4>1. \A j \in 0..Len(actions) : s \o SubSeq(actions, 1, j) \in Seq(Acts)
        BY UpTo
      <4>2. \A j \in 0..Len(actions) : j + 1 \in 1..Len(actions) =>
                s \o SubSeq(actions, 1, j + 1) = Append(s \o SubSeq(actions, 1, j), actions[j + 1])
        BY UpTo
      <4> QED BY <2>1, <4>1, <4>2 DEF a
    <3>2. NameInv(p, u, name, later, told1)
      BY <2>2, <2>6 DEF KeepsAll
    <3> HIDE DEF u
    <3>3. NameInv(r, Append(u, a), name, later, told1)
      BY <2>5, <3>1, <3>2 DEF Keeps
    <3> QED BY <3>1, <3>3
  <2>7. KeepsAll(q, r, es, fs, SubSeq(actions, 1, k + 1), exit)
    BY <2>2, <2>5, <2>6 DEF Keeps, KeepsAll
  <2> QED BY <2>7 DEF r
<1>10. T = Nat
  <2> HIDE DEF Good
  <2>1. 0 \in T
    BY <1>8
  <2>2. T \in SUBSET Nat
    OBVIOUS
  <2>3. \A k \in T : k + 1 \in T
    BY <1>9
  <2> HIDE DEF T
  <2> QED BY <2>1, <2>2, <2>3, SetInduction
<1>11. Good(n)
  <2> HIDE DEF Good
  <2> QED BY <1>1, <1>10
<1>12. \A s \in Seq(Acts) : s \o SubSeq(actions, 1, n) = s \o actions
  <2> HIDE DEF Acts
  <2> QED BY UpTo
<1> QED BY <1>7, <1>11, <1>12 DEF KeepsAll
-------------------------------------------------------------------------------
(***************************************************************************)
(* The order of delivery.                                                  *)
(***************************************************************************)
LEMMA EntryOf ==
    ASSUME NEW s \in Seq(Entry)
    PROVE  /\ Len(s) \in Nat /\ DOMAIN s = 1..Len(s)
           /\ \A i \in DOMAIN s : s[i] \in Entry /\ s[i].kind \in Kinds /\ s[i].order \in Nat
<1>1. Len(s) \in Nat /\ DOMAIN s = 1..Len(s)
  BY LenProperties
<1>2. ASSUME NEW i \in DOMAIN s PROVE s[i] \in Entry
  <2> HIDE DEF Entry
  <2> QED BY <1>1, ElementOfSeq
<1>3. \A e \in Entry : e.kind \in Kinds /\ e.order \in Nat
  BY DEF Entry, Kinds
<1> QED BY <1>1, <1>2, <1>3

\* Sorting loses and adds nothing, and what it gives rises.
LEMMA InOrderIs ==
    ASSUME NEW s \in Seq(Entry), Apart(s)
    PROVE  /\ InOrder(s) \in Seq(Entry) /\ InTurn(InOrder(s))
           /\ \A i \in DOMAIN InOrder(s) : \E j \in DOMAIN s : InOrder(s)[i] = s[j]
           /\ \A j \in DOMAIN s : \E i \in DOMAIN InOrder(s) : InOrder(s)[i] = s[j]
<1> DEFINE m == Len(s)
           Earlier(n) == {i \in DOMAIN s : s[i].order < n.order}
           rank(n) == Cardinality(Earlier(n))
           ranks == [j \in 1..m |-> rank(s[j])]
           pick(i) == CHOOSE n \in Range(s) : rank(n) = i - 1
           t == InOrder(s)
<1>1. m \in Nat /\ DOMAIN s = 1..m /\ \A i \in 1..m : s[i] \in Entry /\ s[i].order \in Nat
  BY EntryOf
<1>2. t = [i \in 1..m |-> pick(i)]
  BY <1>1 DEF InOrder
<1>3. IsFiniteSet(1..m) /\ Cardinality(1..m) = m
  <2> DEFINE W == 1..m
  <2>1. 1 \in Int /\ m \in Int
    BY <1>1
  <2> HIDE DEF m
  <2>2. IsFiniteSet(W) /\ Cardinality(W) = IF 1 > m THEN 0 ELSE m - 1 + 1
    BY <2>1, FS_Interval
  <2> HIDE DEF W
  <2>3. Cardinality(W) = m
    BY <1>1, <2>2
  <2> QED BY <2>2, <2>3 DEF W
<1>4. ASSUME NEW n PROVE IsFiniteSet(Earlier(n)) /\ rank(n) \in Nat
  <2>1. Earlier(n) \in SUBSET (1..m)
    BY <1>1
  <2> HIDE DEF Earlier
  <2>2. IsFiniteSet(Earlier(n))
    BY <1>3, <2>1, FS_Subset
  <2> QED BY <2>2, FS_CardinalityType
<1>5. ASSUME NEW i \in 1..m, NEW j \in 1..m, s[i].order < s[j].order
      PROVE  rank(s[i]) < rank(s[j])
  <2> DEFINE A == Earlier(s[i])
             B == Earlier(s[j])
  <2>1. A \in SUBSET B /\ i \in B /\ i \notin A
    BY <1>1, <1>5
  <2>2. IsFiniteSet(B) /\ Cardinality(A) \in Nat /\ Cardinality(B) \in Nat
    BY <1>4
  <2> HIDE DEF A, B
  <2>3. Cardinality(A) <= Cardinality(B) /\ (Cardinality(B) = Cardinality(A) => B = A)
    BY <2>1, <2>2, FS_Subset
  <2>4. Cardinality(A) < Cardinality(B)
    BY <2>1, <2>2, <2>3
  <2> QED BY <2>4 DEF A, B
<1>6. ASSUME NEW i \in 1..m, NEW j \in 1..m, i # j PROVE rank(s[i]) # rank(s[j])
  <2>1. s[i].order < s[j].order \/ s[j].order < s[i].order
    BY <1>1, <1>6 DEF Apart
  <2>2. rank(s[i]) \in Nat /\ rank(s[j]) \in Nat
    BY <1>4
  <2> HIDE DEF rank
  <2> QED BY <1>5, <2>1, <2>2
<1>7. ASSUME NEW j \in 1..m PROVE rank(s[j]) \in 0..m - 1
  <2> DEFINE A == Earlier(s[j])
  <2>1. A \in SUBSET (1..m \ {j})
    BY <1>1
  <2>2. IsFiniteSet(1..m \ {j}) /\ Cardinality(1..m \ {j}) = m - 1
    <3> DEFINE W == 1..m
    <3>1. j \in W /\ IsFiniteSet(W) /\ Cardinality(W) = m
      BY <1>3
    <3> HIDE DEF W
    <3>2. IsFiniteSet(W \ {j}) /\ Cardinality(W \ {j}) = m - 1
      BY <3>1, FS_RemoveElement
    <3> QED BY <3>2 DEF W
  <2>3. Cardinality(A) \in Nat
    BY <1>4
  <2> HIDE DEF A
  <2>4. Cardinality(A) <= m - 1
    <3> DEFINE U == 1..m \ {j}
    <3> HIDE DEF U
    <3>1. Cardinality(A) <= Cardinality(U)
      BY <2>1, <2>2, FS_Subset DEF U
    <3> QED BY <2>2, <3>1 DEF U
  <2>5. Cardinality(A) \in 0..m - 1
    BY <1>1, <2>3, <2>4
  <2> QED BY <2>5 DEF A
<1> HIDE DEF rank, Earlier
<1>8. ASSUME NEW v \in 0..m - 1 PROVE \E j \in 1..m : rank(s[j]) = v
  <2> SUFFICES ASSUME \A j \in 1..m : rank(s[j]) # v PROVE FALSE
    OBVIOUS
  <2> DEFINE V == 0..m - 1
             U == V \ {v}
  <2>1. IsFiniteSet(V) /\ Cardinality(V) = m
    <3>1. m - 1 \in Int /\ 0 \in Int /\ Cardinality(V) = IF 0 > m - 1 THEN 0 ELSE (m - 1) - 0 + 1
      BY <1>1, FS_Interval
    <3>2. IsFiniteSet(V)
      BY <1>1, FS_Interval
    <3>3. m >= 1
      BY <1>1
    <3> HIDE DEF V
    <3> QED BY <1>1, <3>1, <3>2, <3>3
  <2>2. v \in V /\ \A j \in 1..m : ranks[j] \in U
    BY <1>7
  <2> HIDE DEF V
  <2>3. IsFiniteSet(U) /\ Cardinality(U) = m - 1
    BY <2>1, <2>2, FS_RemoveElement
  <2>4. ranks \in [1..m -> U]
    BY <2>2
  <2>5. Cardinality(U) < Cardinality(1..m)
    BY <1>1, <1>3, <2>3
  <2> HIDE DEF U, ranks
  <2>6. \E x, y \in 1..m : x # y /\ ranks[x] = ranks[y]
    <3> DEFINE W == 1..m
    <3> HIDE DEF W
    <3>1. \E x, y \in W : x # y /\ ranks[x] = ranks[y]
      BY <1>3, <2>3, <2>4, <2>5, FS_PigeonHole DEF W
    <3> QED BY <3>1 DEF W
  <2> QED BY <1>6, <2>6 DEF ranks
<1>9. ASSUME NEW i \in 1..m
      PROVE  /\ t[i] \in Range(s) /\ rank(t[i]) = i - 1
  <2>1. i - 1 \in 0..m - 1
    BY <1>1
  <2>2. PICK j \in 1..m : rank(s[j]) = i - 1
    BY <1>8, <2>1
  <2>3. s[j] \in Range(s)
    BY <1>1 DEF Range
  <2>4. pick(i) \in Range(s) /\ rank(pick(i)) = i - 1
    BY <2>2, <2>3
  <2> HIDE DEF pick, t
  <2>5. t[i] = pick(i)
    BY <1>2
  <2> QED BY <2>4, <2>5
<1>10. DOMAIN t = 1..m
  BY <1>2
<1> HIDE DEF t
<1>11. ASSUME NEW i \in 1..m PROVE \E j \in 1..m : t[i] = s[j]
  BY <1>1, <1>9 DEF Range
<1>12. t \in Seq(Entry)
  <2>1. \A i \in 1..m : t[i] \in Entry
    <3> HIDE DEF Entry
    <3> QED BY <1>1, <1>11
  <2>2. t = [i \in 1..m |-> t[i]]
    BY <1>2 DEF t
  <2> DEFINE u(i) == t[i]
  <2>3. [i \in 1..m |-> u(i)] \in Seq(Entry)
    <3>1. \A i \in 1..m : u(i) \in Entry
      BY <2>1
    <3> HIDE DEF u, Entry
    <3> QED BY <1>1, <3>1, IsASeq
  <2> HIDE DEF Entry
  <2> QED BY <2>2, <2>3
<1>13. ASSUME NEW j \in 1..m PROVE \E i \in 1..m : t[i] = s[j]
  <2>1. rank(s[j]) \in 0..m - 1
    BY <1>7
  <2>2. rank(s[j]) + 1 \in 1..m /\ (rank(s[j]) + 1) - 1 = rank(s[j])
    BY <1>1, <2>1
  <2>3. rank(t[rank(s[j]) + 1]) = rank(s[j])
    BY <1>9, <2>2
  <2>4. PICK k \in 1..m : t[rank(s[j]) + 1] = s[k]
    BY <1>11, <2>2
  <2>5. rank(s[k]) = rank(s[j])
    BY <2>3, <2>4
  <2>6. k = j
    BY <1>6, <2>5
  <2> QED BY <2>2, <2>4, <2>6
<1>14. ASSUME NEW i \in 1..m, NEW j \in 1..m, i < j PROVE t[i].order < t[j].order
  <2>1. rank(t[i]) = i - 1 /\ rank(t[j]) = j - 1
    BY <1>9
  <2>2. PICK a \in 1..m : t[i] = s[a]
    BY <1>11
  <2>3. PICK b \in 1..m : t[j] = s[b]
    BY <1>11
  <2>4. a # b
    BY <1>1, <1>14, <2>1, <2>2, <2>3
  <2>5. s[a].order < s[b].order \/ s[b].order < s[a].order
    BY <1>1, <2>4 DEF Apart
  <2>6. s[b].order < s[a].order => rank(s[b]) < rank(s[a])
    BY <1>5
  <2>7. ~(rank(s[b]) < rank(s[a]))
    BY <1>1, <1>14, <2>1, <2>2, <2>3
  <2> QED BY <2>2, <2>3, <2>5, <2>6, <2>7
<1>15. InTurn(t)
  BY <1>10, <1>14 DEF InTurn
<1>16. /\ \A i \in DOMAIN t : \E j \in DOMAIN s : t[i] = s[j]
       /\ \A j \in DOMAIN s : \E i \in DOMAIN t : t[i] = s[j]
  BY <1>1, <1>10, <1>11, <1>13
<1> QED BY <1>12, <1>15, <1>16 DEF t
-------------------------------------------------------------------------------
(***************************************************************************)
(* What the session keeps of the output.                                   *)
(***************************************************************************)
ParsedInv ==
    /\ output \in Outputs /\ read \in Nat
    /\ chunk \in P!Input /\ parser \in P!Parser /\ applied \in Seq(Acts)
    /\ audible \in BOOLEAN

LEMMA ParseIs ==
    ASSUME ParsedInv, Parse
    PROVE  \E r \in Answer :
               /\ parser' = r.p /\ chunk' = r.rest /\ applied' = applied \o r.out
               /\ Keep(Notified(Pending, r.out))
               /\ rung' = Notified(Pending, r.out).rung /\ owed' = Notified(Pending, r.out).owed
<1>1. \A budget \in {1, ExpansionLimit} : budget \in 0..ExpansionLimit
  BY LimitsAssumption
<1>2. parser \in P!Parser /\ chunk \in P!Input
  BY DEF ParsedInv
<1>3. PICK budget \in {1, ExpansionLimit} :
          \E r \in {P!Ingest[<<parser, chunk, budget>>]} : \E q \in {Notified(Pending, r.out)} :
               /\ parser' = r.p /\ chunk' = r.rest /\ applied' = applied \o r.out
               /\ Keep(q) /\ rung' = q.rung /\ owed' = q.owed
  BY DEF Parse
<1> DEFINE r == P!Ingest[<<parser, chunk, budget>>]
<1>4. r \in Answer
  <2> HIDE DEF r
  <2>1. P!Ingest[<<parser, chunk, budget>>] \in Answer
    BY <1>1, <1>2, ParserAnswers
  <2> QED BY <2>1 DEF r
<1>5. \E q \in {Notified(Pending, r.out)} :
          /\ parser' = r.p /\ chunk' = r.rest /\ applied' = applied \o r.out
          /\ Keep(q) /\ rung' = q.rung /\ owed' = q.owed
  BY <1>3
<1> HIDE DEF r
<1> QED BY <1>4, <1>5

LEMMA AnswerIs ==
    ASSUME NEW r \in Answer
    PROVE  r.p \in P!Parser /\ r.rest \in P!Input /\ r.out \in Seq(Acts)
  BY DEF Answer, Result

LEMMA ParsedInit == DeliveriesInit => ParsedInv
<1>1. <<>> \in Seq(P!Bytes) /\ <<>> \in Seq(Acts)
  BY EmptySeq
<1>2. <<>> \in P!Input
  BY <1>1 DEF P!Input
<1> QED BY <1>1, <1>2, FreshType DEF DeliveriesInit, ParsedInv

LEMMA ParsedStep == ParsedInv /\ [DeliveriesNext]_allVars => ParsedInv'
<1> SUFFICES ASSUME ParsedInv, [DeliveriesNext]_allVars PROVE ParsedInv'
  OBVIOUS
<1>1. CASE OutputArrives
  <2>1. /\ read' \in output.cuts /\ read' > read /\ chunk' = SubSeq(output.bytes, read + 1, read')
        /\ parser' = P!Operation(parser) /\ UNCHANGED <<output, applied, audible>>
    BY <1>1 DEF OutputArrives, bell
  <2>2. output \in Outputs /\ read \in Nat /\ parser \in P!Parser /\ applied \in Seq(Acts) /\ audible \in BOOLEAN
    BY DEF ParsedInv
  <2>3. output.bytes \in Seq(P!Bytes) /\ output.cuts \subseteq 1..Len(output.bytes)
    BY <2>2, OutputsAssumption
  <2> DEFINE b == output.bytes
             n == Len(b)
  <2>4. n \in Nat
    BY <2>3, LenProperties
  <2>5. read' \in 1..n
    BY <2>1, <2>3
  <2> HIDE DEF n
  <2>6. read' \in Nat /\ read' \in Int /\ read' <= n /\ read + 1 \in Nat /\ read + 1 >= 1
    BY <2>2, <2>4, <2>5
  <2>7. SubSeq(b, read + 1, read') \in Seq(P!Bytes)
    <3> DEFINE j == read'
               k == read + 1
    <3>1. b \in Seq(P!Bytes) /\ k \in Nat /\ k >= 1 /\ j \in Int /\ j <= Len(b)
      BY <2>3, <2>6 DEF n
    <3> HIDE DEF b, j, k
    <3>2. SubSeq(b, k, j) \in Seq(P!Bytes)
      BY <3>1, PartOf
    <3> QED BY <3>2 DEF j, k
  <2>8. chunk' \in P!Input
    BY <2>1, <2>7 DEF P!Input
  <2>9. parser' \in P!Parser
    <3>1. 0 \in 0..ExpansionLimit
      BY LimitsAssumption
    <3>2. [parser EXCEPT !.expansion = 0] \in P!Parser
      BY <2>2, <3>1, ParserWith
    <3> QED BY <2>1, <3>2 DEF P!Operation
  <2> QED BY <2>1, <2>2, <2>6, <2>8, <2>9 DEF ParsedInv
<1>2. CASE Parse
  <2>1. PICK r \in Answer : parser' = r.p /\ chunk' = r.rest /\ applied' = applied \o r.out
    BY <1>2, ParseIs
  <2>2. r.p \in P!Parser /\ r.rest \in P!Input /\ r.out \in Seq(Acts)
    BY AnswerIs
  <2>3. applied \in Seq(Acts) /\ applied \o r.out \in Seq(Acts)
    <3>1. applied \in Seq(Acts)
      BY DEF ParsedInv
    <3> HIDE DEF Acts
    <3> QED BY <2>2, <3>1, ConcatProperties
  <2>4. UNCHANGED <<output, read, audible>>
    BY <1>2 DEF Parse
  <2> QED BY <2>1, <2>2, <2>3, <2>4 DEF ParsedInv
<1>3. CASE SetBellPolicy
  <2>1. UNCHANGED input /\ audible' = ~audible
    BY <1>3 DEF SetBellPolicy
  <2> QED BY <2>1 DEF ParsedInv, input
<1>4. ASSUME UNCHANGED input, UNCHANGED audible PROVE ParsedInv'
  BY <1>4 DEF ParsedInv, input
<1>5. CASE RecordError \/ ProcessExits \/ WindowEnds
  BY <1>4, <1>5 DEF RecordError, ProcessExits, WindowEnds, bell
<1>6. CASE RequestArrives \/ HoldEnds \/ DeadlinePasses
  BY <1>4, <1>6 DEF RequestArrives, HoldEnds, DeadlinePasses, Numbered, bell
<1>7. CASE TimeoutChanges \/ DeliverAll
  BY <1>4, <1>7 DEF TimeoutChanges, DeliverAll, TakeAll, ReplayEvent, ReplayCommon, bell
<1>8. CASE UNCHANGED allVars
  BY <1>4, <1>8 DEF allVars, bell
<1> QED BY <1>1, <1>2, <1>3, <1>5, <1>6, <1>7, <1>8 DEF DeliveriesNext

LEMMA SessionParses == DeliveriesSpec => []ParsedInv
<1> QED BY ParsedInit, ParsedStep, PTL DEF DeliveriesSpec
-------------------------------------------------------------------------------
(***************************************************************************)
(* A step keeps the order.                                                 *)
(***************************************************************************)
LEMMA OrdersAre ==
    ASSUME OrderInv
    PROVE  /\ Range(eventOrder) \in SUBSET Nat /\ Floors \in SUBSET Nat
           /\ Pending \in Queue /\ Apart(common) /\ order \in Nat
           /\ common \in Seq(Entry) /\ others \in Seq(Entry)
           /\ \A i \in DOMAIN common : common[i].order <= order
<1>1. /\ QueueInv(Pending, Range(eventOrder), Floors)
      /\ eventOrder \in Seq(Nat) /\ seen \in Nat /\ batchOrder \in Seq(Nat) /\ others \in Seq(Entry)
  BY DEF OrderInv, EventsInv, TakenInv
<1>2. ASSUME NEW z \in Seq(Nat) PROVE Range(z) \in SUBSET Nat
  <2>1. \A i \in DOMAIN z : z[i] \in Nat
    BY ElementOfSeq, LenProperties
  <2> QED BY <2>1 DEF Range
<1>3. Orders(others) \in SUBSET Nat
  <2>1. \A i \in DOMAIN others : others[i].order \in Nat
    BY <1>1, EntryOf
  <2> QED BY <2>1 DEF Orders
<1>4. Range(eventOrder) \in SUBSET Nat /\ Range(batchOrder) \in SUBSET Nat
  BY <1>1, <1>2
<1>5. Floors \in SUBSET Nat
  BY <1>1, <1>3, <1>4 DEF Floors
<1>6. /\ Pending \in Queue /\ Apart(Pending.common)
      /\ \A i \in DOMAIN Pending.common : Pending.common[i].order <= Pending.order
  BY <1>1 DEF QueueInv
<1>7. Pending.common = common /\ Pending.order = order
  BY DEF Pending
<1>8. Pending.common \in Seq(Entry) /\ Pending.order \in Nat
  <2> HIDE DEF Entry
  <2> QED BY <1>6 DEF Queue
<1> HIDE DEF Entry
<1> QED BY <1>1, <1>4, <1>5, <1>6, <1>7, <1>8

\* What waits is replaced, and nothing else changes.
LEMMA OrderKept ==
    ASSUME OrderInv, NEW r, QueueInv(r, Range(eventOrder), Floors),
           Keep(r), rung' = r.rung, owed' = r.owed,
           UNCHANGED <<events, batch, eventOrder, batchOrder, others, seen>>
    PROVE  OrderInv' /\ Pending' = r
<1>1. r \in Queue
  BY DEF QueueInv
<1>2. Pending' = r
  <2>1. r = [common |-> r.common, order |-> r.order, lost |-> r.lost, rung |-> r.rung, owed |-> r.owed]
    <3> HIDE DEF Entry
    <3> QED BY <1>1 DEF Queue
  <2> QED BY <2>1 DEF Pending, Keep
<1>3. Floors' = Floors /\ Range(eventOrder)' = Range(eventOrder)
  BY DEF Floors, Orders
<1>4. QueueInv(Pending, Range(eventOrder), Floors)'
  BY <1>2, <1>3
<1>5. EventsInv'
  BY <1>3 DEF OrderInv, EventsInv
<1>6. TakenInv'
  BY DEF OrderInv, TakenInv
<1> QED BY <1>2, <1>4, <1>5, <1>6 DEF OrderInv

LEMMA RecordKeepsOrder ==
    ASSUME OrderInv, NEW kind, NEW value, Fits(kind, value), Record(Notification(kind, value)),
           UNCHANGED <<rung, owed, events, batch, eventOrder, batchOrder, others, seen>>
    PROVE  OrderInv' /\ Latest(Pending, kind, value, Pending')
<1> DEFINE r == Recorded(Pending, Notification(kind, value))
<1>1. Pending \in Queue /\ Apart(Pending.common)
  BY OrdersAre DEF Pending
<1>2. Recording(Pending, kind, value, r)
  BY <1>1, RecordedIs
<1>3. Keep(r)
  BY DEF Record
<1> HIDE DEF r
<1>4. QueueInv(r, Range(eventOrder), Floors)
  <2>1. QueueInv(Pending, Range(eventOrder), Floors)
    BY DEF OrderInv
  <2> QED BY <1>2, <2>1, OrdersAre, QueueKept
<1>5. r.rung = rung /\ r.owed = owed
  BY <1>2 DEF Recording, Pending
<1>6. rung' = r.rung /\ owed' = r.owed
  BY <1>5
<1>7. OrderInv' /\ Pending' = r
  BY <1>3, <1>4, <1>6, OrderKept
<1>8. Latest(Pending, kind, value, r)
  <2>1. \A i \in DOMAIN Pending.common : Pending.common[i].order <= Pending.order
    BY OrdersAre DEF Pending
  <2> QED BY <1>1, <1>2, <2>1, RecordingGives
<1> QED BY <1>7, <1>8

\* The parser's actions, and the bell's window.
LEMMA ParseKeepsOrder ==
    ASSUME OrderInv, ParsedInv, Parse
    PROVE  /\ OrderInv'
           /\ \E r \in Answer :
                  /\ parser' = r.p /\ chunk' = r.rest /\ applied' = applied \o r.out
                  /\ KeepsAll(Pending, Pending', Range(eventOrder), Floors, r.out, "PROCESS_EXITED")
<1>1. PICK r \in Answer :
          /\ parser' = r.p /\ chunk' = r.rest /\ applied' = applied \o r.out
          /\ Keep(Notified(Pending, r.out))
          /\ rung' = Notified(Pending, r.out).rung /\ owed' = Notified(Pending, r.out).owed
  BY ParseIs
<1>2. r.out \in Seq(Acts) /\ audible \in BOOLEAN
  BY AnswerIs DEF ParsedInv
<1>3. QueueInv(Pending, Range(eventOrder), Floors)
  BY DEF OrderInv
<1> DEFINE q == Notified(Pending, r.out)
<1>4. KeepsAll(Pending, q, Range(eventOrder), Floors, r.out, "PROCESS_EXITED")
  BY <1>2, <1>3, OrdersAre, NotifiedKeeps
<1>5. Keep(q) /\ rung' = q.rung /\ owed' = q.owed
  BY <1>1
<1> HIDE DEF q
<1>6. QueueInv(q, Range(eventOrder), Floors)
  BY <1>4 DEF KeepsAll
<1>7. UNCHANGED <<events, batch, eventOrder, batchOrder, others, seen>>
  BY DEF Parse, vars, taken, view
<1>8. OrderInv' /\ Pending' = q
  BY <1>5, <1>6, <1>7, OrderKept
<1> QED BY <1>1, <1>4, <1>8

LEMMA WindowKeepsOrder ==
    ASSUME OrderInv, rung' = 0, UNCHANGED <<queue, owed, events, batch, eventOrder, batchOrder, others, seen>>
    PROVE  /\ OrderInv'
           /\ Pending'.common = Pending.common /\ Pending'.lost = Pending.lost
           /\ Pending'.owed = Pending.owed
<1> DEFINE r == [common |-> common, order |-> order, lost |-> lost, rung |-> 0, owed |-> owed]
<1>1. /\ Pending.common = common /\ Pending.order = order /\ Pending.lost = lost
      /\ Pending.owed = owed /\ Pending \in Queue
  BY OrdersAre DEF Pending
<1>2. /\ r.common = common /\ r.order = order /\ r.lost = lost /\ r.rung = 0 /\ r.owed = owed
      /\ r \in Queue
  <2> HIDE DEF Entry
  <2> QED BY <1>1 DEF Queue
<1> HIDE DEF r
<1>3. QueueInv(r, Range(eventOrder), Floors)
  BY <1>1, <1>2 DEF OrderInv, QueueInv
<1>4. Keep(r) /\ rung' = r.rung /\ owed' = r.owed
  BY <1>2 DEF Keep, queue
<1>5. OrderInv' /\ Pending' = r
  BY <1>3, <1>4, OrderKept
<1> QED BY <1>1, <1>2, <1>5

\* Releasing and firing change the events by one at most.
LEMMA EventsGrow ==
    ASSUME ArbitrationInv, Arm \/ SessionSettles \/ HostAnswers \/ TimerFires
    PROVE  events' \in Seq(Event) /\ Len(events') <= Len(events) + 1 /\ UNCHANGED batch
<1>1. events \in Seq(Event) /\ holding \in Nat /\ armed \in Nat
  BY DEF ArbitrationInv, TypeOK
<1>2. Len(events) \in Nat
  BY <1>1, LenProperties
<1>3. ASSUME NEW x \in Event PROVE Append(events, x) \in Seq(Event) /\ Len(Append(events, x)) <= Len(events) + 1
  <2> HIDE DEF Event
  <2>1. Append(events, x) \in Seq(Event) /\ Len(Append(events, x)) = Len(events) + 1
    BY <1>1, AppendProperties
  <2> QED BY <1>2, <2>1
<1>4. SettledEvent(holding) \in Event /\ Requested(armed + 1) \in Event
  BY <1>1 DEF SettledEvent, Requested, Event
<1>5. Withdrawn \in Seq(Event) /\ Len(Withdrawn) <= Len(events) + 1
  <2>1. CASE events = <<>>
    BY <1>1, <1>2, <2>1 DEF Withdrawn
  <2>2. CASE events # <<>>
    <3> DEFINE n == Len(events) - 1
    <3>1. Len(events) # 0
      BY <1>1, <2>2, EmptySeq
    <3>2. n \in Int /\ n <= Len(events) /\ 1 \in Nat /\ n + 1 = Len(events) /\ n >= 0
      BY <1>2, <3>1
    <3>3. SubSeq(events, 1, n) \in Seq(Event) /\ Len(SubSeq(events, 1, n)) = IF 1 <= n THEN n - 1 + 1 ELSE 0
      <4>1. 1 >= 1
        OBVIOUS
      <4> HIDE DEF n, Event
      <4> QED BY <1>1, <3>2, <4>1, PartOf
    <3>4. Len(SubSeq(events, 1, n)) <= Len(events) + 1
      <4> HIDE DEF n
      <4> QED BY <1>2, <3>2, <3>3
    <3> QED BY <1>1, <1>2, <3>3, <3>4 DEF Withdrawn
  <2> QED BY <2>1, <2>2
<1>6. ASSUME Release PROVE events' \in Seq(Event) /\ Len(events') <= Len(events) + 1
  BY <1>3, <1>4, <1>5, <1>6 DEF Release
<1>7. CASE Arm
  BY <1>3, <1>4, <1>7 DEF Arm
<1>8. CASE SessionSettles \/ HostAnswers
  BY <1>6, <1>8 DEF SessionSettles, HostAnswers
<1>9. CASE TimerFires
  BY <1>1, <1>2, <1>6, <1>9 DEF TimerFires, session
<1> QED BY <1>7, <1>8, <1>9

\* An event's order is new, and a withdrawn event was the last.
LEMMA NumberedKeepsOrder ==
    ASSUME OrderInv, ArbitrationInv, Arm \/ SessionSettles \/ HostAnswers \/ TimerFires, Numbered
    PROVE  OrderInv'
<1>1. /\ events' \in Seq(Event) /\ Len(events') <= Len(events) + 1 /\ batch' = batch
      /\ events \in Seq(Event)
  BY EventsGrow DEF ArbitrationInv, TypeOK
<1>2. Len(events) \in Nat /\ Len(events') \in Nat
  BY <1>1, LenProperties
<1>3. /\ EventsInv /\ TakenInv /\ QueueInv(Pending, Range(eventOrder), Floors)
      /\ eventOrder \in Seq(Nat) /\ Len(eventOrder) = Len(events) /\ Rising(eventOrder)
      /\ \A f \in Floors, k \in DOMAIN eventOrder : f < eventOrder[k]
  BY DEF OrderInv, EventsInv
<1>4. /\ Range(eventOrder) \in SUBSET Nat /\ Floors \in SUBSET Nat /\ Pending \in Queue
      /\ order \in Nat /\ common \in Seq(Entry) /\ \A i \in DOMAIN common : common[i].order <= order
  BY OrdersAre
<1>5. DOMAIN eventOrder = 1..Len(eventOrder) /\ \A i \in DOMAIN eventOrder : eventOrder[i] \in Nat
  BY <1>3, LenProperties, ElementOfSeq
<1>6. /\ UNCHANGED <<common, lost, rung, owed, batchOrder, others, seen>>
  BY DEF Numbered, bell, taken, view
<1>7. TakenInv'
  BY <1>1, <1>3, <1>6 DEF TakenInv
<1>8. Floors' = Floors
  BY <1>6 DEF Floors, Orders
<1>9. /\ Pending'.common = common /\ Pending.common = common
      /\ Pending'.order = order' /\ Pending.order = order
  BY <1>6 DEF Pending
<1>10. order' \in Nat => Pending' \in Queue
  <2>1. common \in Seq(Entry) /\ lost \in SUBSET Kinds /\ rung \in Nat /\ owed \in BOOLEAN
    <3> HIDE DEF Entry, Kinds
    <3> QED BY <1>4 DEF Queue, Pending
  <2> HIDE DEF Entry, Kinds
  <2> QED BY <1>6, <2>1 DEF Queue, Pending
<1>11. /\ Apart(common)
       /\ \A e \in Range(eventOrder) : e <= order
       /\ \A f \in Floors : f <= order
       /\ \A i \in DOMAIN common : common[i].order \notin Range(eventOrder)
       /\ \A i \in DOMAIN common, f \in Floors : f < common[i].order
  BY <1>3, <1>9 DEF QueueInv
<1>12. \A i \in DOMAIN common : common[i].order \in Nat
  BY <1>4, EntryOf
<1>13. CASE Len(events') > Len(events)
  <2>1. order' = order + 1 /\ eventOrder' = Append(eventOrder, order + 1) /\ order + 1 \in Nat
    BY <1>4, <1>13 DEF Numbered
  <2>2. /\ eventOrder' \in Seq(Nat) /\ Len(eventOrder') = Len(eventOrder) + 1
        /\ \A i \in 1..Len(eventOrder) : eventOrder'[i] = eventOrder[i]
        /\ eventOrder'[Len(eventOrder) + 1] = order + 1
    BY <1>3, <2>1, AppendProperties
  <2>3. DOMAIN eventOrder' = 1..Len(eventOrder) + 1
    BY <2>2, LenProperties
  <2>4. Len(eventOrder') = Len(events')
    BY <1>1, <1>2, <1>3, <1>13, <2>2
  <2>5. \A i \in DOMAIN eventOrder' : \/ i \in DOMAIN eventOrder /\ eventOrder'[i] = eventOrder[i]
                                      \/ i = Len(eventOrder) + 1 /\ eventOrder'[i] = order + 1
    <3> DEFINE m == Len(eventOrder)
    <3>1. m \in Nat /\ DOMAIN eventOrder = 1..m /\ DOMAIN eventOrder' = 1..m + 1
      BY <1>2, <1>3, <1>5, <2>3
    <3>2. \A i \in 1..m : eventOrder'[i] = eventOrder[i]
      BY <2>2
    <3>3. eventOrder'[m + 1] = order + 1
      BY <2>2
    <3> HIDE DEF m
    <3>4. \A i \in 1..m + 1 : i \in 1..m \/ i = m + 1
      BY <3>1
    <3>5. \A i \in DOMAIN eventOrder' : \/ i \in DOMAIN eventOrder /\ eventOrder'[i] = eventOrder[i]
                                        \/ i = m + 1 /\ eventOrder'[i] = order + 1
      BY <3>1, <3>2, <3>3, <3>4
    <3> QED BY <3>5 DEF m
  <2>6. \A i \in DOMAIN eventOrder : eventOrder[i] <= order
    BY <1>11 DEF Range
  <2>7. Rising(eventOrder')
    <3> SUFFICES ASSUME NEW i \in DOMAIN eventOrder', NEW j \in DOMAIN eventOrder', i < j
                 PROVE  eventOrder'[i] < eventOrder'[j]
      BY DEF Rising
    <3>1. i \in DOMAIN eventOrder /\ eventOrder'[i] = eventOrder[i]
      BY <1>2, <1>3, <2>2, <2>3, <2>5
    <3>2. CASE j \in DOMAIN eventOrder /\ eventOrder'[j] = eventOrder[j]
      BY <1>3, <3>1, <3>2 DEF Rising
    <3>3. CASE eventOrder'[j] = order + 1
      BY <1>4, <1>5, <2>6, <3>1, <3>3
    <3> QED BY <2>5, <3>2, <3>3
  <2>8. \A f \in Floors', k \in DOMAIN eventOrder' : f < eventOrder'[k]
    <3> SUFFICES ASSUME NEW f \in Floors, NEW k \in DOMAIN eventOrder' PROVE f < eventOrder'[k]
      BY <1>8
    <3>1. f \in Nat /\ f <= order
      BY <1>4, <1>11
    <3> QED BY <1>3, <1>4, <2>5, <3>1
  <2>9. Range(eventOrder)' = Range(eventOrder) \cup {order + 1}
    <3>1. \A i \in DOMAIN eventOrder : i \in DOMAIN eventOrder' /\ eventOrder'[i] = eventOrder[i]
      BY <1>2, <1>3, <1>5, <2>2, <2>3
    <3>2. Len(eventOrder) + 1 \in DOMAIN eventOrder' /\ eventOrder'[Len(eventOrder) + 1] = order + 1
      BY <1>2, <1>3, <2>2, <2>3
    <3> QED BY <2>5, <3>1, <3>2 DEF Range
  <2>10. QueueInv(Pending', Range(eventOrder)', Floors')
    <3> DEFINE es == Range(eventOrder)
               es1 == Range(eventOrder)'
    <3>1. \A e \in es1 : e <= order + 1
      <4>1. \A e \in es : e \in Nat /\ e <= order
        BY <1>4, <1>11
      <4>2. es1 = es \cup {order + 1}
        BY <2>9
      <4> HIDE DEF es, es1
      <4> QED BY <1>4, <4>1, <4>2
    <3>2. \A f \in Floors : f <= order + 1
      BY <1>4, <1>11
    <3>3. \A i \in DOMAIN common : common[i].order <= order + 1 /\ common[i].order \notin es1
      <4>1. \A i \in DOMAIN common : common[i].order \in Nat /\ common[i].order <= order /\ common[i].order \notin es
        BY <1>4, <1>11, <1>12
      <4>2. es1 = es \cup {order + 1}
        BY <2>9
      <4> HIDE DEF es, es1
      <4> QED BY <1>4, <4>1, <4>2
    <3>4. Pending' \in Queue
      BY <1>10, <2>1
    <3> HIDE DEF es, es1
    <3>5. QueueInv(Pending', es1, Floors)
      BY <1>9, <1>11, <2>1, <3>1, <3>2, <3>3, <3>4 DEF QueueInv
    <3> QED BY <1>8, <3>5 DEF es1
  <2>11. EventsInv'
    BY <2>2, <2>4, <2>7, <2>8 DEF EventsInv
  <2> QED BY <1>7, <2>10, <2>11 DEF OrderInv
<1>14. CASE ~(Len(events') > Len(events))
  <2> DEFINE n == Len(events')
  <2>1. order' = order /\ eventOrder' = SubSeq(eventOrder, 1, n) /\ order' \in Nat
    BY <1>4, <1>14 DEF Numbered
  <2>2. n \in Int /\ n \in Nat /\ n <= Len(eventOrder) /\ 1 \in Nat /\ 1 >= 1
    BY <1>2, <1>3, <1>14
  <2>3. /\ eventOrder' \in Seq(Nat) /\ Len(eventOrder') = (IF 1 <= n THEN n - 1 + 1 ELSE 0)
        /\ \A k \in 1..n - 1 + 1 : eventOrder'[k] = eventOrder[1 + k - 1]
    <3> HIDE DEF n
    <3>1. /\ SubSeq(eventOrder, 1, n) \in Seq(Nat)
          /\ Len(SubSeq(eventOrder, 1, n)) = (IF 1 <= n THEN n - 1 + 1 ELSE 0)
          /\ \A k \in 1..n - 1 + 1 : SubSeq(eventOrder, 1, n)[k] = eventOrder[1 + k - 1]
      BY <1>3, <2>2, PartOf
    <3> QED BY <2>1, <3>1
  <2>4. Len(eventOrder') = n
    <3> HIDE DEF n
    <3> QED BY <2>2, <2>3
  <2>5. DOMAIN eventOrder' = 1..n
    BY <2>3, <2>4, LenProperties
  <2>6. \A k \in DOMAIN eventOrder' : k \in DOMAIN eventOrder /\ eventOrder'[k] = eventOrder[k]
    <3>1. Len(eventOrder) \in Nat
      BY <1>3, LenProperties
    <3> HIDE DEF n
    <3>2. \A k \in 1..n : k \in 1..Len(eventOrder) /\ k \in 1..n - 1 + 1 /\ 1 + k - 1 = k
      BY <2>2, <3>1
    <3> QED BY <1>5, <2>3, <2>5, <3>2
  <2>7. Range(eventOrder)' \in SUBSET Range(eventOrder)
    BY <2>6 DEF Range
  <2>8. EventsInv'
    <3>1. Rising(eventOrder')
      BY <1>3, <2>6 DEF Rising
    <3>2. \A f \in Floors', k \in DOMAIN eventOrder' : f < eventOrder'[k]
      BY <1>3, <1>8, <2>6
    <3> QED BY <2>3, <2>4, <3>1, <3>2 DEF EventsInv
  <2>9. QueueInv(Pending', Range(eventOrder)', Floors')
    <3> DEFINE es1 == Range(eventOrder)'
    <3>1. Pending' \in Queue /\ es1 \in SUBSET Range(eventOrder)
      BY <1>10, <2>1, <2>7
    <3> HIDE DEF es1
    <3>2. QueueInv(Pending', es1, Floors)
      BY <1>4, <1>9, <1>11, <2>1, <3>1 DEF QueueInv
    <3> QED BY <1>8, <3>2 DEF es1
  <2> QED BY <1>7, <2>8, <2>9 DEF OrderInv
<1> QED BY <1>13, <1>14

\* What the surface takes gets its turn, after what was replayed.
LEMMA TakeKeepsOrder ==
    ASSUME OrderInv, ArbitrationInv, TakeAll
    PROVE  OrderInv'
<1>1. /\ EventsInv /\ TakenInv /\ QueueInv(Pending, Range(eventOrder), Floors)
      /\ eventOrder \in Seq(Nat) /\ Len(eventOrder) = Len(events) /\ Rising(eventOrder) /\ seen \in Nat
      /\ \A f \in Floors, k \in DOMAIN eventOrder : f < eventOrder[k]
  BY DEF OrderInv, EventsInv, TakenInv
<1>2. /\ Range(eventOrder) \in SUBSET Nat /\ Floors \in SUBSET Nat /\ Pending \in Queue
      /\ order \in Nat /\ common \in Seq(Entry) /\ Apart(common)
      /\ \A i \in DOMAIN common : common[i].order <= order
  BY OrdersAre
<1>3. /\ others' = InOrder(common) /\ common' = <<>> /\ batchOrder' = eventOrder /\ eventOrder' = <<>>
      /\ UNCHANGED <<order, lost, rung, owed, seen>>
  BY DEF TakeAll, bell, view
<1>4. events' = <<>> /\ batch' = events
  <2>1. CASE TakeDeliveries
    BY <2>1 DEF TakeDeliveries
  <2>2. CASE batch = <<>> /\ events = <<>> /\ UNCHANGED vars
    BY <2>2 DEF vars
  <2> QED BY <2>1, <2>2 DEF TakeAll
<1>5. Pending.common = common /\ Pending.order = order /\ Pending'.common = <<>> /\ Pending'.order = order
  BY <1>3 DEF Pending
<1>6. /\ InOrder(common) \in Seq(Entry) /\ InTurn(InOrder(common))
      /\ \A i \in DOMAIN InOrder(common) : \E j \in DOMAIN common : InOrder(common)[i] = common[j]
  BY <1>2, InOrderIs
<1> DEFINE t == InOrder(common)
<1>7. t \in Seq(Entry) /\ InTurn(t) /\ \A i \in DOMAIN t : \E j \in DOMAIN common : t[i] = common[j]
  BY <1>6
<1> HIDE DEF t
<1>8. others' = t
  BY <1>3 DEF t
<1>9. /\ \A f \in Floors : f <= order
      /\ \A e \in Range(eventOrder) : e <= order
      /\ \A i \in DOMAIN common : common[i].order \notin Range(eventOrder)
      /\ \A i \in DOMAIN common, f \in Floors : f < common[i].order
  BY <1>1, <1>5 DEF QueueInv
<1>10. seen \in Floors
  BY DEF Floors
<1>11. ASSUME NEW i \in DOMAIN t
       PROVE  t[i].order <= order /\ t[i].order \notin Range(eventOrder) /\ seen < t[i].order
  <2>1. PICK j \in DOMAIN common : t[i] = common[j]
    BY <1>7
  <2> QED BY <1>2, <1>9, <1>10, <2>1
<1>12. ASSUME NEW k \in DOMAIN eventOrder PROVE eventOrder[k] \in Range(eventOrder) /\ seen < eventOrder[k]
  BY <1>1, <1>10 DEF Range
<1>13. TakenInv'
  <2>1. seen' \in Nat /\ batchOrder' \in Seq(Nat) /\ Len(batchOrder') = Len(batch') /\ Rising(batchOrder')
    BY <1>1, <1>3, <1>4
  <2>2. others' \in Seq(Entry) /\ InTurn(others')
    <3> HIDE DEF Entry
    <3> QED BY <1>7, <1>8
  <2>3. /\ \A k \in DOMAIN batchOrder' : seen' < batchOrder'[k]
        /\ \A i \in DOMAIN others' : seen' < others'[i].order
        /\ \A k \in DOMAIN batchOrder', i \in DOMAIN others' : batchOrder'[k] # others'[i].order
    BY <1>3, <1>8, <1>11, <1>12
  <2> QED BY <2>1, <2>2, <2>3 DEF TakenInv
<1>14. EventsInv'
  <2>1. eventOrder' \in Seq(Nat) /\ Len(eventOrder') = 0 /\ DOMAIN eventOrder' = {} /\ Len(events') = 0
    <3>1. <<>> \in Seq(Nat) /\ Len(<<>>) = 0 /\ DOMAIN <<>> = {}
      BY EmptySeq
    <3> QED BY <1>3, <1>4, <3>1
  <2> QED BY <2>1 DEF EventsInv, Rising
<1>15. \A f \in Floors' : f <= order
  <2>1. Orders(others') \in SUBSET {x \in Nat : x <= order}
    <3>1. \A i \in DOMAIN t : t[i].order \in Nat
      BY <1>7, EntryOf
    <3> QED BY <1>8, <1>11, <3>1 DEF Orders
  <2>2. seen' <= order /\ \A e \in Range(batchOrder') : e <= order
    BY <1>3, <1>9, <1>10
  <2> QED BY <2>1, <2>2 DEF Floors
<1>16. Pending' \in Queue
  <2>1. lost \in SUBSET Kinds /\ rung \in Nat /\ owed \in BOOLEAN
    <3> HIDE DEF Entry, Kinds
    <3> QED BY <1>2 DEF Queue, Pending
  <2> HIDE DEF Entry, Kinds
  <2>2. <<>> \in Seq(Entry)
    BY EmptySeq
  <2> QED BY <1>2, <1>3, <2>1, <2>2 DEF Queue, Pending
<1>17. QueueInv(Pending', Range(eventOrder)', Floors')
  <2>1. Range(eventOrder)' = {}
    BY <1>3 DEF Range
  <2>2. DOMAIN Pending'.common = {} /\ Apart(Pending'.common)
    BY <1>5 DEF Apart
  <2> DEFINE es == Range(eventOrder)'
             fs == Floors'
  <2>3. es = {} /\ \A f \in fs : f <= order
    BY <1>15, <2>1
  <2> HIDE DEF es, fs
  <2>4. QueueInv(Pending', es, fs)
    BY <1>5, <1>16, <2>2, <2>3 DEF QueueInv
  <2> QED BY <2>4 DEF es, fs
<1> QED BY <1>13, <1>14, <1>17 DEF OrderInv

\* The head and the tail of a sequence that rises.
LEMMA TailIs ==
    ASSUME NEW X, NEW s \in Seq(X), s # <<>>
    PROVE  /\ Head(s) = s[1] /\ 1 \in DOMAIN s /\ Tail(s) \in Seq(X)
           /\ Len(s) \in Nat /\ Len(s) >= 1 /\ Len(Tail(s)) = Len(s) - 1
           /\ \A i \in DOMAIN Tail(s) : i \in Nat /\ i >= 1 /\ i + 1 \in DOMAIN s /\ Tail(s)[i] = s[i + 1]
           /\ \A j \in DOMAIN s : j = 1 \/ (j - 1 \in DOMAIN Tail(s) /\ s[j] = Tail(s)[j - 1])
<1> DEFINE n == Len(s)
           t == Tail(s)
<1>1. n \in Nat /\ n # 0 /\ DOMAIN s = 1..n
  BY LenProperties, EmptySeq
<1>2. t \in Seq(X) /\ Len(t) = n - 1 /\ \A i \in 1..Len(t) : t[i] = s[i + 1]
  BY HeadTailProperties
<1>3. Head(s) = s[1]
  BY HeadTailProperties
<1>4. DOMAIN t = 1..Len(t)
  BY <1>2, LenProperties
<1> HIDE DEF n, t
<1>5. /\ n >= 1 /\ 1 \in 1..n
      /\ \A i \in 1..n - 1 : i \in Nat /\ i >= 1 /\ i + 1 \in 1..n
      /\ \A j \in 1..n : j = 1 \/ (j - 1 \in 1..n - 1 /\ (j - 1) + 1 = j)
  BY <1>1
<1>6. \A i \in DOMAIN t : i \in Nat /\ i >= 1 /\ i + 1 \in DOMAIN s /\ t[i] = s[i + 1]
  BY <1>1, <1>2, <1>4, <1>5
<1>7. \A j \in DOMAIN s : j = 1 \/ (j - 1 \in DOMAIN t /\ s[j] = t[j - 1])
  BY <1>1, <1>2, <1>4, <1>5
<1> QED BY <1>1, <1>2, <1>3, <1>5, <1>6, <1>7 DEF n, t

LEMMA TailRises ==
    ASSUME NEW s \in Seq(Nat), s # <<>>, Rising(s)
    PROVE  /\ Rising(Tail(s)) /\ Head(s) \in Nat
           /\ \A i \in DOMAIN Tail(s) : Tail(s)[i] \in Nat /\ Head(s) < Tail(s)[i]
           /\ Range(s) = Range(Tail(s)) \cup {Head(s)}
<1> DEFINE t == Tail(s)
           h == Head(s)
<1>1. /\ h = s[1] /\ 1 \in DOMAIN s /\ t \in Seq(Nat)
      /\ \A i \in DOMAIN t : i \in Nat /\ i >= 1 /\ i + 1 \in DOMAIN s /\ t[i] = s[i + 1]
      /\ \A j \in DOMAIN s : j = 1 \/ (j - 1 \in DOMAIN t /\ s[j] = t[j - 1])
  BY TailIs
<1>2. (\A i \in DOMAIN s : s[i] \in Nat) /\ \A i \in DOMAIN t : t[i] \in Nat
  BY <1>1, LenProperties, ElementOfSeq
<1> HIDE DEF t, h
<1>3. Rising(t)
  BY <1>1 DEF Rising
<1>4. \A i \in DOMAIN t : h < t[i]
  BY <1>1 DEF Rising
<1>5. Range(s) = Range(t) \cup {h}
  <2>1. ASSUME NEW j \in DOMAIN s PROVE s[j] \in Range(t) \cup {h}
    <3>1. CASE j = 1
      BY <1>1, <3>1
    <3>2. CASE j - 1 \in DOMAIN t /\ s[j] = t[j - 1]
      BY <3>2 DEF Range
    <3> QED BY <1>1, <3>1, <3>2
  <2>2. ASSUME NEW i \in DOMAIN t PROVE t[i] \in Range(s)
    BY <1>1 DEF Range
  <2>3. h \in Range(s)
    BY <1>1 DEF Range
  <2>4. Range(s) \subseteq Range(t) \cup {h}
    BY <2>1 DEF Range
  <2>5. Range(t) \cup {h} \subseteq Range(s)
    <3>1. Range(t) \subseteq Range(s)
      BY <2>2 DEF Range
    <3> QED BY <2>3, <3>1
  <2> QED BY <2>4, <2>5
<1> QED BY <1>1, <1>2, <1>3, <1>4, <1>5 DEF t, h

LEMMA TailInTurn ==
    ASSUME NEW s \in Seq(Entry), s # <<>>, InTurn(s)
    PROVE  /\ InTurn(Tail(s)) /\ Tail(s) \in Seq(Entry) /\ Head(s).order \in Nat /\ Head(s).kind \in Kinds
           /\ Head(s) = s[1] /\ 1 \in DOMAIN s
           /\ \A i \in DOMAIN Tail(s) : Head(s).order < Tail(s)[i].order
           /\ \A i \in DOMAIN Tail(s) : i + 1 \in DOMAIN s /\ Tail(s)[i] = s[i + 1]
           /\ \A j \in DOMAIN s : s[j] = Head(s) \/ \E i \in DOMAIN Tail(s) : s[j] = Tail(s)[i]
           /\ Orders(s) = Orders(Tail(s)) \cup {Head(s).order}
<1> DEFINE t == Tail(s)
           h == Head(s)
<1>1. /\ h = s[1] /\ 1 \in DOMAIN s /\ t \in Seq(Entry)
      /\ \A i \in DOMAIN t : i \in Nat /\ i >= 1 /\ i + 1 \in DOMAIN s /\ t[i] = s[i + 1]
      /\ \A j \in DOMAIN s : j = 1 \/ (j - 1 \in DOMAIN t /\ s[j] = t[j - 1])
  <2> HIDE DEF Entry
  <2> QED BY TailIs
<1>2. \A i \in DOMAIN s : s[i].kind \in Kinds /\ s[i].order \in Nat
  BY EntryOf
<1> HIDE DEF t, h
<1>0. \A i, j \in DOMAIN s : i < j => s[i].order < s[j].order
  BY DEF InTurn
<1>3. InTurn(t)
  <2> SUFFICES ASSUME NEW i \in DOMAIN t, NEW j \in DOMAIN t, i < j PROVE t[i].order < t[j].order
    BY DEF InTurn
  <2>1. i + 1 \in DOMAIN s /\ j + 1 \in DOMAIN s /\ t[i] = s[i + 1] /\ t[j] = s[j + 1] /\ i + 1 < j + 1
    BY <1>1
  <2>2. s[i + 1].order < s[j + 1].order
    BY <1>0, <2>1
  <2> QED BY <2>1, <2>2
<1>4. ASSUME NEW i \in DOMAIN t PROVE h.order < t[i].order
  <2>1. 1 \in DOMAIN s /\ i + 1 \in DOMAIN s /\ 1 < i + 1
    BY <1>1
  <2>2. s[1].order < s[i + 1].order
    BY <1>0, <2>1
  <2> QED BY <1>1, <2>2
<1>5. \A j \in DOMAIN s : s[j] = h \/ \E i \in DOMAIN t : s[j] = t[i]
  BY <1>1
<1>6. Orders(s) = Orders(t) \cup {h.order}
  BY <1>1, <1>5 DEF Orders
<1>7. h.order \in Nat /\ h.kind \in Kinds
  BY <1>1, <1>2
<1> HIDE DEF Entry, Kinds
<1> QED BY <1>1, <1>3, <1>4, <1>5, <1>6, <1>7 DEF t, h

\* A delivery replayed leaves the floors no higher.
LEMMA ReplayKeepsOrder ==
    ASSUME OrderInv, UNCHANGED <<common, order, lost, rung, events, eventOrder>>, owed' \in BOOLEAN,
           Floors' \subseteq Floors, TakenInv'
    PROVE  OrderInv'
<1>1. EventsInv /\ QueueInv(Pending, Range(eventOrder), Floors)
  BY DEF OrderInv
<1>2. EventsInv'
  BY <1>1 DEF EventsInv
<1>3. /\ Pending'.common = Pending.common /\ Pending'.order = Pending.order
  BY DEF Pending
<1>4. Pending' \in Queue
  <2>1. Pending \in Queue
    BY OrdersAre
  <2> HIDE DEF Entry, Kinds
  <2>2. common \in Seq(Entry) /\ order \in Nat /\ lost \in SUBSET Kinds /\ rung \in Nat
    BY <2>1 DEF Queue, Pending
  <2> QED BY <2>2 DEF Queue, Pending
<1> DEFINE fs == Floors'
           es == Range(eventOrder)
<1>5. fs \subseteq Floors
  OBVIOUS
<1> HIDE DEF fs, es
<1>6. QueueInv(Pending', es, fs)
  BY <1>1, <1>3, <1>4, <1>5 DEF QueueInv, es
<1>7. QueueInv(Pending', Range(eventOrder)', Floors')
  BY <1>6 DEF fs, es
<1> QED BY <1>2, <1>7 DEF OrderInv

LEMMA ReplayEventKeepsOrder ==
    ASSUME OrderInv, ArbitrationInv, ReplayEvent
    PROVE  OrderInv' /\ seen' > seen
<1>1. /\ EventsInv /\ TakenInv /\ seen \in Nat /\ batchOrder \in Seq(Nat) /\ others \in Seq(Entry)
      /\ Len(batchOrder) = Len(batch) /\ Rising(batchOrder) /\ InTurn(others)
      /\ \A k \in DOMAIN batchOrder : seen < batchOrder[k]
      /\ \A k \in DOMAIN batchOrder, i \in DOMAIN others : batchOrder[k] # others[i].order
  BY DEF OrderInv, TakenInv
<1>2. /\ batch # <<>> /\ batch' = Tail(batch) /\ events' = events
      /\ batchOrder' = Tail(batchOrder) /\ seen' = Head(batchOrder)
      /\ others # <<>> => Head(batchOrder) < Head(others).order
  BY DEF ReplayEvent, EventIsDue, PresentRequest, SkipRequest, ReportSettlement
<1>3. batch \in Seq(Event)
  BY DEF ArbitrationInv, TypeOK
<1>4. Len(batch) \in Nat /\ Len(batch) # 0 /\ Len(Tail(batch)) = Len(batch) - 1
  <2> HIDE DEF Event
  <2> QED BY <1>2, <1>3, LenProperties, EmptySeq, TailIs
<1>5. batchOrder # <<>>
  BY <1>1, <1>4, EmptySeq
<1>6. /\ Tail(batchOrder) \in Seq(Nat) /\ Len(Tail(batchOrder)) = Len(batchOrder) - 1
      /\ Head(batchOrder) = batchOrder[1] /\ 1 \in DOMAIN batchOrder
      /\ \A i \in DOMAIN Tail(batchOrder) : i + 1 \in DOMAIN batchOrder /\ Tail(batchOrder)[i] = batchOrder[i + 1]
  BY <1>1, <1>5, TailIs
<1>7. /\ Rising(Tail(batchOrder)) /\ Head(batchOrder) \in Nat
      /\ \A i \in DOMAIN Tail(batchOrder) : Head(batchOrder) < Tail(batchOrder)[i]
      /\ Range(batchOrder) = Range(Tail(batchOrder)) \cup {Head(batchOrder)}
  BY <1>1, <1>5, TailRises
<1>8. UNCHANGED <<common, order, lost, rung, owed, eventOrder, others>> /\ owed \in BOOLEAN
  <2>1. Pending \in Queue
    BY OrdersAre
  <2>2. owed \in BOOLEAN
    <3> HIDE DEF Entry, Kinds
    <3> QED BY <2>1 DEF Queue, Pending
  <2> QED BY <2>2 DEF ReplayEvent, queue, bell
<1>9. ASSUME NEW i \in DOMAIN others PROVE seen' < others[i].order
  <2>1. others # <<>>
    BY <1>9, EmptySeq
  <2>2. /\ Head(others).order \in Nat
        /\ \A k \in DOMAIN Tail(others) : Head(others).order < Tail(others)[k].order
        /\ \A j \in DOMAIN others : others[j] = Head(others) \/ \E k \in DOMAIN Tail(others) : others[j] = Tail(others)[k]
    BY <1>1, <2>1, TailInTurn
  <2>3. others[i].order \in Nat
    BY <1>1, EntryOf
  <2>4. Head(others).order <= others[i].order
    BY <2>2, <2>3
  <2> QED BY <1>2, <1>7, <2>1, <2>2, <2>3, <2>4
<1>10. TakenInv'
  <2>1. seen' \in Nat /\ batchOrder' \in Seq(Nat) /\ Rising(batchOrder') /\ InTurn(others')
    BY <1>1, <1>2, <1>6, <1>7, <1>8
  <2>2. others' \in Seq(Entry)
    <3> HIDE DEF Entry
    <3> QED BY <1>1, <1>8
  <2>3. Len(batchOrder') = Len(batch')
    BY <1>1, <1>2, <1>4, <1>6
  <2>4. /\ \A k \in DOMAIN batchOrder' : seen' < batchOrder'[k]
        /\ \A i \in DOMAIN others' : seen' < others'[i].order
    BY <1>2, <1>7, <1>8, <1>9
  <2>5. \A k \in DOMAIN batchOrder', i \in DOMAIN others' : batchOrder'[k] # others'[i].order
    BY <1>1, <1>2, <1>6, <1>8, SMTT(40)
  <2> QED BY <2>1, <2>2, <2>3, <2>4, <2>5 DEF TakenInv
<1>11. Floors' \subseteq Floors
  <2>1. Orders(others') = Orders(others)
    BY <1>8
  <2> QED BY <1>2, <1>7, <2>1 DEF Floors
<1>12. seen' > seen
  BY <1>1, <1>2, <1>6, <1>7
<1> QED BY <1>2, <1>8, <1>10, <1>11, <1>12, ReplayKeepsOrder

LEMMA ReplayCommonKeepsOrder ==
    ASSUME OrderInv, ArbitrationInv, ReplayCommon
    PROVE  OrderInv' /\ seen' > seen
<1>1. /\ EventsInv /\ TakenInv /\ seen \in Nat /\ batchOrder \in Seq(Nat) /\ others \in Seq(Entry)
      /\ Len(batchOrder) = Len(batch) /\ Rising(batchOrder) /\ InTurn(others)
      /\ \A i \in DOMAIN others : seen < others[i].order
      /\ \A k \in DOMAIN batchOrder, i \in DOMAIN others : batchOrder[k] # others[i].order
  BY DEF OrderInv, TakenInv
<1>2. /\ others # <<>> /\ others' = Tail(others) /\ seen' = Head(others).order
      /\ batch # <<>> => ~(Head(batchOrder) < Head(others).order)
      /\ UNCHANGED <<batch, events, batchOrder, common, order, lost, rung, eventOrder>>
  BY DEF ReplayCommon, EventIsDue, vars, queue, bell
<1>3. batch \in Seq(Event)
  BY DEF ArbitrationInv, TypeOK
<1>4. /\ InTurn(Tail(others)) /\ Tail(others) \in Seq(Entry) /\ Head(others).order \in Nat
      /\ Head(others) = others[1] /\ 1 \in DOMAIN others
      /\ \A i \in DOMAIN Tail(others) : Head(others).order < Tail(others)[i].order
      /\ \A i \in DOMAIN Tail(others) : i + 1 \in DOMAIN others /\ Tail(others)[i] = others[i + 1]
      /\ Orders(others) = Orders(Tail(others)) \cup {Head(others).order}
  BY <1>1, <1>2, TailInTurn
<1>5. ASSUME NEW k \in DOMAIN batchOrder PROVE seen' < batchOrder[k]
  <2>1. batchOrder # <<>>
    BY <1>5, EmptySeq
  <2>2. batch # <<>>
    <3>1. Len(batchOrder) # 0
      BY <1>1, <2>1, EmptySeq
    <3> QED BY <1>1, <1>3, <3>1, EmptySeq
  <2>3. /\ Head(batchOrder) \in Nat
        /\ \A i \in DOMAIN Tail(batchOrder) : Head(batchOrder) < Tail(batchOrder)[i]
    BY <1>1, <2>1, TailRises
  <2>4. /\ Head(batchOrder) = batchOrder[1] /\ 1 \in DOMAIN batchOrder
        /\ \A j \in DOMAIN batchOrder : j = 1 \/ (j - 1 \in DOMAIN Tail(batchOrder) /\ batchOrder[j] = Tail(batchOrder)[j - 1])
    BY <1>1, <2>1, TailIs
  <2>5. batchOrder[k] \in Nat
    BY <1>1, LenProperties, ElementOfSeq
  <2>6. Head(batchOrder) <= batchOrder[k]
    <3>1. CASE k = 1
      BY <2>4, <2>5, <3>1
    <3>2. CASE k - 1 \in DOMAIN Tail(batchOrder) /\ batchOrder[k] = Tail(batchOrder)[k - 1]
      <4>1. Head(batchOrder) < Tail(batchOrder)[k - 1]
        BY <2>3, <3>2
      <4> QED BY <2>3, <2>5, <3>2, <4>1
    <3> QED BY <2>4, <3>1, <3>2
  <2>7. Head(batchOrder) # Head(others).order
    BY <1>1, <1>4, <2>4
  <2> QED BY <1>2, <1>4, <2>2, <2>3, <2>5, <2>6, <2>7
<1>6. owed' \in BOOLEAN
  <2>1. owed' = (owed /\ (Head(others).kind = "BELL" => ~Head(others).value))
    BY DEF ReplayCommon
  <2> QED BY <2>1
<1>7. TakenInv'
  <2>1. seen' \in Nat /\ batchOrder' \in Seq(Nat) /\ Rising(batchOrder') /\ InTurn(others')
    BY <1>1, <1>2, <1>4
  <2>2. others' \in Seq(Entry)
    <3> HIDE DEF Entry
    <3> QED BY <1>2, <1>4
  <2>3. Len(batchOrder') = Len(batch')
    BY <1>1, <1>2
  <2>4. /\ \A k \in DOMAIN batchOrder' : seen' < batchOrder'[k]
        /\ \A i \in DOMAIN others' : seen' < others'[i].order
    BY <1>2, <1>4, <1>5
  <2>5. \A k \in DOMAIN batchOrder', i \in DOMAIN others' : batchOrder'[k] # others'[i].order
    BY <1>1, <1>2, <1>4
  <2> QED BY <2>1, <2>2, <2>3, <2>4, <2>5 DEF TakenInv
<1>8. Floors' \subseteq Floors
  BY <1>2, <1>4 DEF Floors
<1>9. seen' > seen
  BY <1>1, <1>2, <1>4
<1> QED BY <1>2, <1>6, <1>7, <1>8, <1>9, ReplayKeepsOrder

LEMMA OrderInit == DeliveriesInit => OrderInv
<1> SUFFICES ASSUME DeliveriesInit PROVE OrderInv
  OBVIOUS
<1>1. /\ common = <<>> /\ order = 0 /\ lost = {} /\ rung = 0 /\ owed = FALSE
      /\ eventOrder = <<>> /\ batchOrder = <<>> /\ others = <<>> /\ seen = 0
      /\ events = <<>> /\ batch = <<>>
  BY DEF DeliveriesInit, Init
<1>2. <<>> \in Seq(Nat) /\ <<>> \in Seq(Entry) /\ DOMAIN <<>> = {} /\ Len(<<>>) = 0
  <2> HIDE DEF Entry
  <2> QED BY EmptySeq
<1>3. Range(eventOrder) = {} /\ Floors = {0}
  BY <1>1, <1>2 DEF Range, Floors, Orders
<1>4. EventsInv /\ TakenInv
  <2> HIDE DEF Entry
  <2> QED BY <1>1, <1>2 DEF EventsInv, TakenInv, Rising, InTurn
<1>5. Pending \in Queue
  <2> HIDE DEF Entry
  <2> QED BY <1>1, <1>2 DEF Pending, Queue
<1>6. Pending.common = <<>> /\ Pending.order = 0
  BY <1>1 DEF Pending
<1> DEFINE es == Range(eventOrder)
           fs == Floors
<1>7. es = {} /\ fs = {0}
  BY <1>3
<1> HIDE DEF es, fs
<1>8. QueueInv(Pending, es, fs)
  BY <1>2, <1>5, <1>6, <1>7 DEF QueueInv, Apart
<1> QED BY <1>4, <1>8 DEF OrderInv, es, fs

LEMMA OrderStutters ==
    ASSUME OrderInv, UNCHANGED <<common, order, lost, rung, owed, events, batch, eventOrder, batchOrder, others, seen>>
    PROVE  OrderInv'
<1>1. Pending' = Pending /\ Floors' = Floors /\ Range(eventOrder)' = Range(eventOrder)
  BY DEF Pending, Floors, Orders
<1>2. QueueInv(Pending, Range(eventOrder), Floors)' /\ EventsInv' /\ TakenInv'
  BY <1>1 DEF OrderInv, EventsInv, TakenInv
<1> QED BY <1>2 DEF OrderInv

\* A step of the session keeps the order, and what it replays is newer than what was replayed.
LEMMA OrderStep ==
    OrderInv /\ ParsedInv /\ ArbitrationInv /\ [DeliveriesNext]_allVars
        => OrderInv' /\ (seen' # seen => seen' > seen)
<1> SUFFICES ASSUME OrderInv, ParsedInv, ArbitrationInv, [DeliveriesNext]_allVars
             PROVE  OrderInv' /\ (seen' # seen => seen' > seen)
  OBVIOUS
<1>1. <<>> \in P!Input
  <2>1. <<>> \in Seq(P!Bytes)
    BY EmptySeq
  <2> QED BY <2>1 DEF P!Input
<1>2. Fits("OUTPUT_ACTIVITY", <<>>) /\ Fits("BACKEND_ERROR", <<>>) /\ Fits("PROCESS_EXITED", <<>>)
  BY <1>1 DEF Fits, Kinds
<1>3. CASE OutputArrives
  <2>1. /\ Record(Notification("OUTPUT_ACTIVITY", <<>>))
        /\ UNCHANGED <<rung, owed, events, batch, eventOrder, batchOrder, others, seen>>
    BY <1>3 DEF OutputArrives, vars, bell, taken, view
  <2> QED BY <1>2, <2>1, RecordKeepsOrder
<1>4. CASE Parse
  <2>1. seen' = seen
    BY <1>4 DEF Parse, view
  <2> QED BY <1>4, <2>1, ParseKeepsOrder
<1>5. CASE RecordError
  <2>1. /\ Record(Notification("BACKEND_ERROR", <<>>))
        /\ UNCHANGED <<rung, owed, events, batch, eventOrder, batchOrder, others, seen>>
    BY <1>5 DEF RecordError, vars, bell, taken, view
  <2> QED BY <1>2, <2>1, RecordKeepsOrder
<1>6. CASE ProcessExits
  <2>1. /\ Record(Notification("PROCESS_EXITED", <<>>))
        /\ UNCHANGED <<rung, owed, events, batch, eventOrder, batchOrder, others, seen>>
    BY <1>6 DEF ProcessExits, vars, bell, taken, view
  <2> QED BY <1>2, <2>1, RecordKeepsOrder
<1>7. CASE WindowEnds
  <2>1. rung' = 0 /\ UNCHANGED <<queue, owed, events, batch, eventOrder, batchOrder, others, seen>>
    BY <1>7 DEF WindowEnds, vars, taken, view
  <2> QED BY <2>1, WindowKeepsOrder
<1>8. CASE SetBellPolicy
  <2>1. rung' = 0 /\ UNCHANGED <<queue, owed, events, batch, eventOrder, batchOrder, others, seen>>
    BY <1>8 DEF SetBellPolicy, vars, taken, view
  <2> QED BY <2>1, WindowKeepsOrder
<1>9. CASE RequestArrives \/ HoldEnds \/ DeadlinePasses
  <2>1. (Arm \/ SessionSettles \/ HostAnswers \/ TimerFires) /\ Numbered
    BY <1>9 DEF RequestArrives, HoldEnds, DeadlinePasses
  <2>2. seen' = seen
    BY <2>1 DEF Numbered, view
  <2> QED BY <2>1, <2>2, NumberedKeepsOrder
<1>10. CASE TimeoutChanges
  <2>1. UNCHANGED <<common, order, lost, rung, owed, events, batch, eventOrder, batchOrder, others, seen>>
    BY <1>10 DEF TimeoutChanges, SetTimeout, bell, queue, taken, view
  <2> QED BY <2>1, OrderStutters
<1>11. CASE TakeAll
  <2>1. seen' = seen
    BY <1>11 DEF TakeAll, view
  <2> QED BY <1>11, <2>1, TakeKeepsOrder
<1>12. CASE ReplayEvent
  BY <1>12, ReplayEventKeepsOrder
<1>13. CASE ReplayCommon
  BY <1>13, ReplayCommonKeepsOrder
<1>14. CASE UNCHANGED allVars
  <2>1. UNCHANGED <<common, order, lost, rung, owed, events, batch, eventOrder, batchOrder, others, seen>>
    BY <1>14 DEF allVars, vars, bell, queue, taken, view
  <2> QED BY <2>1, OrderStutters
<1> QED BY <1>3, <1>4, <1>5, <1>6, <1>7, <1>8, <1>9, <1>10, <1>11, <1>12, <1>13, <1>14
        DEF DeliveriesNext, DeliverAll

LEMMA SessionOrders == DeliveriesSpec => []OrderInv
<1>1. OrderInv /\ ParsedInv /\ ArbitrationInv /\ [DeliveriesNext]_allVars => OrderInv'
  BY OrderStep
<1> QED BY OrderInit, <1>1, SessionParses, DeliveriesKeepArbitration, PTL DEF DeliveriesSpec

\* Whatever the output, however it is cut, and wherever the surface takes its batches: the
\* host's handlers see deliveries in the order of their recording.
THEOREM DeliveredRising == DeliveriesSpec => DeliveredInOrder
<1>1. OrderInv /\ ParsedInv /\ ArbitrationInv /\ [DeliveriesNext]_allVars
          => [seen' # seen => seen' > seen]_allVars
  BY OrderStep
<1> QED BY <1>1, SessionOrders, SessionParses, DeliveriesKeepArbitration, PTL
        DEF DeliveriesSpec, DeliveredInOrder
-------------------------------------------------------------------------------
(***************************************************************************)
(* A step keeps what the host is owed.                                     *)
(***************************************************************************)
LEMMA PendingIs ==
    /\ Pending.common = common /\ Pending.lost = lost /\ Pending.owed = owed /\ Pending.order = order
    /\ Pending'.common = common' /\ Pending'.lost = lost' /\ Pending'.owed = owed'
  BY DEF Pending

LEMMA HostStutters ==
    ASSUME HostInv, UNCHANGED <<common, lost, owed, applied, others, title, icon, sawExit, exited, chunk, parser>>
    PROVE  HostInv'
<1>1. NameInv(Pending', applied', "TITLE", others', title')
  <2>1. NameInv(Pending, applied, "TITLE", others, title)
    BY DEF HostInv
  <2> QED BY <2>1, PendingIs DEF NameInv
<1>2. NameInv(Pending', applied', "ICON", others', icon')
  <2>1. NameInv(Pending, applied, "ICON", others, icon)
    BY DEF HostInv
  <2> QED BY <2>1, PendingIs DEF NameInv
<1>3. BellInv(Pending, others)'
  BY PendingIs DEF HostInv, BellInv, Audible
<1>4. ExitInv'
  BY DEF HostInv, ExitInv, Has, Before, ParserIdle, Names
<1> QED BY <1>1, <1>2, <1>3, <1>4 DEF HostInv

\* Recording what is not a name.
LEMMA NoNameRecorded ==
    ASSUME HostInv, OrderInv, NEW kind, NEW value, kind \notin Names \cup {"BELL"},
           Latest(Pending, kind, value, Pending'),
           UNCHANGED <<applied, owed, others, title, icon>>
    PROVE  /\ NameInv(Pending', applied', "TITLE", others', title')
           /\ NameInv(Pending', applied', "ICON", others', icon')
           /\ BellInv(Pending', others')
<1> DEFINE q == Pending
           r == Pending'
<1>1. q \in Queue /\ Latest(q, kind, value, r)
  BY OrdersAre
<1>2. /\ NameInv(q, applied, "TITLE", others, title) /\ NameInv(q, applied, "ICON", others, icon)
      /\ BellInv(q, others)
  BY DEF HostInv
<1>3. kind # "TITLE" /\ kind # "ICON" /\ "TITLE" \in Names /\ "ICON" \in Names
  BY DEF Names
<1> HIDE DEF q, r, Names
<1>4. NameInv(r, applied, "TITLE", others, title)
  BY <1>1, <1>2, <1>3, NameKept
<1>5. NameInv(r, applied, "ICON", others, icon)
  BY <1>1, <1>2, <1>3, NameKept
<1>6. Audible(q.common) => Audible(r.common) \/ "BELL" \in r.lost
  BY <1>1, BellKept
<1>7. BellInv(r, others)
  BY <1>1, <1>2, <1>6 DEF BellInv, Latest
<1> QED BY <1>4, <1>5, <1>7 DEF r

LEMMA RecordKeepsHost ==
    ASSUME HostInv, OrderInv, NEW kind, NEW value, kind \notin Names \cup {"BELL", "PROCESS_EXITED"},
           Latest(Pending, kind, value, Pending'),
           UNCHANGED <<applied, owed, others, title, icon, sawExit, exited>>, exited => ParserIdle'
    PROVE  HostInv'
<1>1. /\ NameInv(Pending', applied', "TITLE", others', title')
      /\ NameInv(Pending', applied', "ICON", others', icon')
      /\ BellInv(Pending', others')
  BY NoNameRecorded
<1>2. /\ ExitInv
  BY DEF HostInv
<1>3. PICK k \in DOMAIN common' :
          /\ common'[k].kind = kind
          /\ \A i \in DOMAIN common' : i # k => \E j \in DOMAIN common : common'[i] = common[j]
  BY PendingIs DEF Latest
<1>4. /\ lost \subseteq lost'
      /\ \A j \in DOMAIN common : \/ \E i \in DOMAIN common' : common'[i] = common[j]
                                  \/ common[j].kind = kind
                                  \/ common[j].kind \in lost'
  BY PendingIs DEF Latest
<1>5. ASSUME NEW i \in DOMAIN common', common'[i].kind \in Names \cup {"PROCESS_EXITED"}
      PROVE  \E j \in DOMAIN common : common'[i] = common[j]
  BY <1>3, <1>5
<1>6. Has(common', "PROCESS_EXITED") => Has(common, "PROCESS_EXITED")
  BY <1>5 DEF Has
<1>7. \A name \in Names : Has(common', name) => Has(common, name)
  BY <1>5 DEF Has
<1>8. Has(common, "PROCESS_EXITED") => Has(common', "PROCESS_EXITED") \/ "PROCESS_EXITED" \in lost'
  BY <1>4 DEF Has
<1>9. /\ Before(common', common') /\ Before(others', others')
      /\ Before(common', others') /\ Before(others', common')
  BY <1>2, <1>5 DEF ExitInv, Before
<1>10. ExitInv'
  BY <1>2, <1>4, <1>6, <1>7, <1>8, <1>9 DEF ExitInv
<1> QED BY <1>1, <1>10 DEF HostInv

\* The exit is recorded after all the names.
LEMMA ExitKeepsHost ==
    ASSUME HostInv, OrderInv, NEW value, Latest(Pending, "PROCESS_EXITED", value, Pending'),
           ~exited, exited' = TRUE, ParserIdle',
           UNCHANGED <<applied, owed, others, title, icon, sawExit>>
    PROVE  HostInv'
<1>1. "PROCESS_EXITED" \notin Names \cup {"BELL"}
  BY DEF Names
<1>2. /\ NameInv(Pending', applied', "TITLE", others', title')
      /\ NameInv(Pending', applied', "ICON", others', icon')
      /\ BellInv(Pending', others')
  BY <1>1, NoNameRecorded
<1>3. /\ ~sawExit /\ ~Has(common, "PROCESS_EXITED") /\ ~Has(others, "PROCESS_EXITED") /\ sawExit \in BOOLEAN
  BY DEF HostInv, ExitInv
<1>4. PICK k \in DOMAIN common' :
          /\ common'[k].kind = "PROCESS_EXITED" /\ common'[k].order = order + 1
          /\ \A i \in DOMAIN common' : i # k => \E j \in DOMAIN common : common'[i] = common[j]
  BY PendingIs DEF Latest
<1>5. /\ order \in Nat /\ others \in Seq(Entry) /\ \A i \in DOMAIN common : common[i].order <= order
      /\ common \in Seq(Entry)
  BY OrdersAre
<1>6. \A i \in DOMAIN common : common[i].order \in Nat
  BY <1>5, EntryOf
<1>7. \A i \in DOMAIN others : others[i].order \in Nat /\ others[i].order <= order
  <2>1. \A f \in Floors : f <= order
    BY PendingIs DEF OrderInv, QueueInv
  <2>2. \A i \in DOMAIN others : others[i].order \in Floors
    BY DEF Floors, Orders
  <2>3. \A i \in DOMAIN others : others[i].order \in Nat
    BY <1>5, EntryOf
  <2> QED BY <2>1, <2>2, <2>3
<1>8. ASSUME NEW j \in DOMAIN common', common'[j].kind = "PROCESS_EXITED" PROVE j = k
  BY <1>3, <1>4, <1>8 DEF Has
<1>9. ASSUME NEW i \in DOMAIN common', common'[i].kind \in Names PROVE common'[i].order < order + 1
  <2>1. i # k
    BY <1>1, <1>4, <1>9
  <2>2. PICK j \in DOMAIN common : common'[i] = common[j]
    BY <1>4, <2>1
  <2> QED BY <1>5, <1>6, <2>2
<1>10. Before(common', common') /\ Before(others', common')
  <2>1. Before(common', common')
    BY <1>4, <1>8, <1>9 DEF Before
  <2>2. \A i \in DOMAIN others : others[i].order < order + 1
    BY <1>5, <1>7
  <2>3. Before(others', common')
    BY <1>4, <1>8, <2>2 DEF Before
  <2> QED BY <2>1, <2>3
<1>11. Before(others', others') /\ Before(common', others')
  BY <1>3 DEF Before, Has
<1>12. Has(common', "PROCESS_EXITED")
  BY <1>4 DEF Has
<1>13. ExitInv'
  BY <1>3, <1>10, <1>11, <1>12 DEF ExitInv
<1> QED BY <1>2, <1>13 DEF HostInv

LEMMA ParseKeepsHost ==
    ASSUME HostInv, OrderInv, ParsedInv, Parse
    PROVE  HostInv'
<1>1. PICK r \in Answer :
          /\ applied' = applied \o r.out
          /\ KeepsAll(Pending, Pending', Range(eventOrder), Floors, r.out, "PROCESS_EXITED")
  BY ParseKeepsOrder
<1>2. applied \in Seq(Acts) /\ UNCHANGED <<others, title, icon, sawExit, exited>> /\ ~ParserIdle
  BY DEF ParsedInv, Parse, taken, view, counts
<1>3. /\ NameInv(Pending, applied, "TITLE", others, title) /\ NameInv(Pending, applied, "ICON", others, icon)
      /\ BellInv(Pending, others) /\ ExitInv
  BY DEF HostInv
<1> DEFINE q == Pending
           q1 == Pending'
<1>4. "TITLE" \in Names /\ "ICON" \in Names
  BY DEF Names
<1>5. /\ \A name \in Names, s \in Seq(Acts) : \A later, told1 :
             NameInv(q, s, name, later, told1) => NameInv(q1, s \o r.out, name, later, told1)
      /\ \A later : BellInv(q, later) => BellInv(q1, later)
      /\ ~Has(q.common, "PROCESS_EXITED") => ~Has(q1.common, "PROCESS_EXITED")
  BY <1>1 DEF KeepsAll
<1>6. ~exited /\ exited \in BOOLEAN /\ ~sawExit /\ sawExit \in BOOLEAN
      /\ ~Has(common, "PROCESS_EXITED") /\ ~Has(others, "PROCESS_EXITED")
  BY <1>2, <1>3 DEF ExitInv
<1>7. q.common = common /\ q1.common = common'
  BY PendingIs
<1> HIDE DEF q, q1, Names, Acts
<1>8. ~Has(common', "PROCESS_EXITED")
  BY <1>5, <1>6, <1>7
<1>9. ExitInv'
  <2>1. ~Has(others', "PROCESS_EXITED")
    BY <1>2, <1>6
  <2>2. /\ Before(common', common') /\ Before(others', others')
        /\ Before(common', others') /\ Before(others', common')
    BY <1>8, <2>1 DEF Before, Has
  <2> QED BY <1>2, <1>6, <1>8, <2>1, <2>2 DEF ExitInv
<1>10. NameInv(q1, applied', "TITLE", others', title') /\ NameInv(q1, applied', "ICON", others', icon')
  <2>1. NameInv(q1, applied \o r.out, "TITLE", others, title)
    BY <1>2, <1>3, <1>4, <1>5 DEF q
  <2>2. NameInv(q1, applied \o r.out, "ICON", others, icon)
    BY <1>2, <1>3, <1>4, <1>5 DEF q
  <2> QED BY <1>1, <1>2, <2>1, <2>2
<1>11. BellInv(q1, others')
  BY <1>2, <1>3, <1>5 DEF q
<1> QED BY <1>9, <1>10, <1>11 DEF HostInv, q1

\* What is taken carries the last names as what waited did.
LEMMA TakeKeepsHost ==
    ASSUME HostInv, OrderInv, TakeAll
    PROVE  HostInv'
<1>1. /\ others = <<>> /\ others' = InOrder(common) /\ common' = <<>>
      /\ UNCHANGED <<lost, owed, applied, title, icon, sawExit, exited, chunk, parser>>
  BY DEF TakeAll, view, counts, input
<1>2. /\ \A i \in DOMAIN InOrder(common) : \E j \in DOMAIN common : InOrder(common)[i] = common[j]
      /\ \A j \in DOMAIN common : \E i \in DOMAIN InOrder(common) : InOrder(common)[i] = common[j]
  BY OrdersAre, InOrderIs
<1> DEFINE t == InOrder(common)
<1>3. /\ others' = t
      /\ \A i \in DOMAIN t : \E j \in DOMAIN common : t[i] = common[j]
      /\ \A j \in DOMAIN common : \E i \in DOMAIN t : t[i] = common[j]
  BY <1>1, <1>2
<1> HIDE DEF t
<1>4. DOMAIN others = {} /\ DOMAIN common' = {}
  BY <1>1, EmptySeq
<1>5. \A kind : /\ ~Has(others, kind) /\ ~Has(common', kind)
                /\ Has(t, kind) <=> Has(common, kind)
  BY <1>3, <1>4 DEF Has
<1>6. ASSUME NEW name, NEW told1, NameInv(Pending, applied, name, others, told1)
      PROVE  NameInv(Pending', applied', name, others', told1)
  <2>1. name \notin lost =>
            /\ \A i \in DOMAIN common : common[i].kind = name => common[i].value = NameIn(applied, name)
            /\ ~Has(common, name) => told1 = NameIn(applied, name)
    BY <1>5, <1>6, PendingIs DEF NameInv
  <2>2. name \notin lost =>
            \A i \in DOMAIN t : t[i].kind = name => t[i].value = NameIn(applied, name)
    BY <1>3, <2>1
  <2> QED BY <1>1, <1>3, <1>4, <1>5, <2>1, <2>2, PendingIs DEF NameInv
<1>7. NameInv(Pending', applied', "TITLE", others', title') /\ NameInv(Pending', applied', "ICON", others', icon')
  BY <1>1, <1>6 DEF HostInv
<1>8. BellInv(Pending', others')
  <2>1. owed => "BELL" \in lost \/ Audible(common)
    BY <1>4, PendingIs DEF HostInv, BellInv, Audible
  <2>2. Audible(common) => Audible(t)
    BY <1>3 DEF Audible
  <2> QED BY <1>1, <1>3, <2>1, <2>2, PendingIs DEF BellInv
<1>9. ExitInv'
  <2>1. ExitInv
    BY DEF HostInv
  <2>2. Before(common', common') /\ Before(common', others') /\ Before(others', common')
    BY <1>4 DEF Before
  <2>3. Before(t, t)
    <3>1. Before(common, common)
      BY <2>1 DEF ExitInv
    <3>2. \A i, j \in DOMAIN common :
              common[i].kind \in Names /\ common[j].kind = "PROCESS_EXITED" => common[i].order < common[j].order
      BY <3>1 DEF Before
    <3> SUFFICES ASSUME NEW i \in DOMAIN t, NEW j \in DOMAIN t, t[i].kind \in Names, t[j].kind = "PROCESS_EXITED"
                 PROVE  t[i].order < t[j].order
      BY DEF Before
    <3>3. PICK a \in DOMAIN common : t[i] = common[a]
      BY <1>3
    <3>4. PICK b \in DOMAIN common : t[j] = common[b]
      BY <1>3
    <3> QED BY <3>2, <3>3, <3>4
  <2>4. exited => ParserIdle'
    BY <1>1, <2>1 DEF ExitInv, ParserIdle
  <2> QED BY <1>1, <1>3, <1>5, <2>1, <2>2, <2>3, <2>4 DEF ExitInv
<1> QED BY <1>7, <1>8, <1>9 DEF HostInv

\* A name replayed is the host's.
LEMMA NameReplayed ==
    ASSUME NEW q, NEW actions, NEW name, NEW s \in Seq(Entry), s # <<>>, InTurn(s), NEW told1,
           NameInv(q, actions, name, s, told1)
    PROVE  NameInv(q, actions, name, Tail(s), IF Head(s).kind = name THEN Head(s).value ELSE told1)
<1> DEFINE t == Tail(s)
           h == Head(s)
<1>1. /\ h = s[1] /\ 1 \in DOMAIN s
      /\ \A i \in DOMAIN t : i + 1 \in DOMAIN s /\ t[i] = s[i + 1]
      /\ \A j \in DOMAIN s : s[j] = h \/ \E i \in DOMAIN t : s[j] = t[i]
  BY TailInTurn
<1> HIDE DEF t, h
<1>2. name \notin q.lost /\ ~Has(q.common, name) =>
          \A i \in DOMAIN s : s[i].kind = name => s[i].value = NameIn(actions, name)
  BY DEF NameInv
<1>3. name \notin q.lost /\ ~Has(q.common, name) =>
          /\ \A i \in DOMAIN t : t[i].kind = name => t[i].value = NameIn(actions, name)
          /\ h.kind = name => h.value = NameIn(actions, name)
  BY <1>1, <1>2
<1>4. h.kind # name /\ ~Has(t, name) => ~Has(s, name)
  BY <1>1 DEF Has
<1>5. name \notin q.lost /\ ~Has(q.common, name) /\ ~Has(t, name) =>
          (IF h.kind = name THEN h.value ELSE told1) = NameIn(actions, name)
  BY <1>3, <1>4 DEF NameInv
<1>6. name \notin q.lost =>
          \A i \in DOMAIN q.common : q.common[i].kind = name => q.common[i].value = NameIn(actions, name)
  BY DEF NameInv
<1> DEFINE told2 == IF h.kind = name THEN h.value ELSE told1
<1>7. name \notin q.lost /\ ~Has(q.common, name) /\ ~Has(t, name) => told2 = NameIn(actions, name)
  BY <1>5
<1> HIDE DEF told2
<1>8. NameInv(q, actions, name, t, told2)
  BY <1>3, <1>6, <1>7 DEF NameInv
<1> QED BY <1>8 DEF t, h, told2

LEMMA ReplayKeepsHost ==
    ASSUME HostInv, OrderInv, ReplayCommon
    PROVE  HostInv'
<1> DEFINE h == Head(others)
           t == Tail(others)
<1>1. /\ others # <<>> /\ others' = t
      /\ title' = (IF h.kind = "TITLE" THEN h.value ELSE title)
      /\ icon' = (IF h.kind = "ICON" THEN h.value ELSE icon)
      /\ sawExit' = (sawExit \/ h.kind = "PROCESS_EXITED")
      /\ owed' = (owed /\ (h.kind = "BELL" => ~h.value))
      /\ UNCHANGED <<common, order, lost, rung, applied, exited, chunk, parser>>
  BY DEF ReplayCommon, queue, bell, input, counts
<1>2. others \in Seq(Entry) /\ InTurn(others)
  BY DEF OrderInv, TakenInv
<1>3. /\ InTurn(t) /\ h.order \in Nat /\ h = others[1] /\ 1 \in DOMAIN others
      /\ \A i \in DOMAIN t : h.order < t[i].order
      /\ \A i \in DOMAIN t : i + 1 \in DOMAIN others /\ t[i] = others[i + 1]
      /\ \A j \in DOMAIN others : others[j] = h \/ \E i \in DOMAIN t : others[j] = t[i]
      /\ Orders(others) = Orders(t) \cup {h.order}
  BY <1>1, <1>2, TailInTurn
<1>4. NameInv(Pending', applied', "TITLE", others', title') /\ NameInv(Pending', applied', "ICON", others', icon')
  <2>1. NameInv(Pending, applied, "TITLE", others, title) /\ NameInv(Pending, applied, "ICON", others, icon)
    BY DEF HostInv
  <2>2. /\ NameInv(Pending, applied, "TITLE", t, IF h.kind = "TITLE" THEN h.value ELSE title)
        /\ NameInv(Pending, applied, "ICON", t, IF h.kind = "ICON" THEN h.value ELSE icon)
    BY <1>1, <1>2, <2>1, NameReplayed
  <2>3. NameInv(Pending, applied', "TITLE", others', title') /\ NameInv(Pending, applied', "ICON", others', icon')
    BY <1>1, <2>2
  <2>4. Pending'.common = Pending.common /\ Pending'.lost = Pending.lost
    BY <1>1, PendingIs
  <2> QED BY <2>3, <2>4 DEF NameInv
<1> HIDE DEF h, t
<1>5. BellInv(Pending', others')
  <2>1. owed => "BELL" \in lost \/ Audible(common) \/ Audible(others)
    BY PendingIs DEF HostInv, BellInv
  <2>2. Audible(others) => Audible(t) \/ (h.kind = "BELL" /\ h.value)
    BY <1>3 DEF Audible
  <2> QED BY <1>1, <2>1, <2>2, PendingIs DEF BellInv
<1>6. ExitInv
  BY DEF HostInv
<1>7. common \in Seq(Entry) /\ \A i \in DOMAIN common : common[i].order \in Nat /\ h.order < common[i].order
  <2>1. common \in Seq(Entry)
    BY OrdersAre
  <2>2. h.order \in Floors
    BY <1>3 DEF Floors
  <2>3. \A i \in DOMAIN common, f \in Floors : f < common[i].order
    BY PendingIs DEF OrderInv, QueueInv
  <2>4. \A i \in DOMAIN common : common[i].order \in Nat
    BY <2>1, EntryOf
  <2> HIDE DEF Entry
  <2> QED BY <2>1, <2>2, <2>3, <2>4
<1>8. \A kind : Has(t, kind) => Has(others, kind)
  BY <1>3 DEF Has
<1>9. \A kind : Has(others, kind) => Has(t, kind) \/ h.kind = kind
  BY <1>3 DEF Has
<1>10. Has(others, h.kind)
  BY <1>3 DEF Has
<1>11. ASSUME h.kind = "PROCESS_EXITED", NEW name \in Names PROVE ~Has(common, name) /\ ~Has(t, name)
  <2>1. ASSUME NEW i \in DOMAIN common, common[i].kind = name PROVE FALSE
    <3>1. common[i].order < h.order
      BY <1>3, <1>6, <1>11, <2>1 DEF ExitInv, Before
    <3> QED BY <1>3, <1>7, <3>1
  <2>2. ASSUME NEW i \in DOMAIN t, t[i].kind = name PROVE FALSE
    <3>1. t[i].order < h.order
      BY <1>3, <1>6, <1>11, <2>2 DEF ExitInv, Before
    <3>2. h.order < t[i].order /\ t[i].order \in Nat
      <4>1. \A j \in DOMAIN others : others[j].order \in Nat
        BY <1>2, EntryOf
      <4> QED BY <1>3, <4>1
    <3> QED BY <1>3, <3>1, <3>2
  <2> QED BY <2>1, <2>2 DEF Has
<1>12. /\ Before(common', common') /\ Before(others', others')
       /\ Before(common', others') /\ Before(others', common')
  BY <1>1, <1>3, <1>6 DEF ExitInv, Before
<1>13. /\ exited' \in BOOLEAN /\ sawExit' \in BOOLEAN
       /\ exited' => ParserIdle'
  BY <1>1, <1>6 DEF ExitInv, ParserIdle
<1>14. /\ sawExit' \/ Has(common', "PROCESS_EXITED") \/ Has(others', "PROCESS_EXITED") => exited'
       /\ exited' => \/ sawExit' \/ "PROCESS_EXITED" \in lost'
                     \/ Has(common', "PROCESS_EXITED") \/ Has(others', "PROCESS_EXITED")
  BY <1>1, <1>6, <1>8, <1>9, <1>10 DEF ExitInv
<1>15. sawExit' => \A name \in Names : ~Has(common', name) /\ ~Has(others', name)
  BY <1>1, <1>6, <1>8, <1>11 DEF ExitInv
<1>16. ExitInv'
  BY <1>12, <1>13, <1>14, <1>15 DEF ExitInv
<1> QED BY <1>4, <1>5, <1>16 DEF HostInv

LEMMA HostInit == DeliveriesInit => HostInv
<1> SUFFICES ASSUME DeliveriesInit PROVE HostInv
  OBVIOUS
<1>1. /\ common = <<>> /\ lost = {} /\ owed = FALSE /\ others = <<>> /\ applied = <<>>
      /\ title = <<>> /\ icon = <<>> /\ sawExit = FALSE /\ exited = FALSE
  BY DEF DeliveriesInit
<1>2. DOMAIN <<>> = {}
  BY EmptySeq
<1>3. \A kind : ~Has(common, kind) /\ ~Has(others, kind)
  BY <1>1, <1>2 DEF Has
<1>4. \A kind : NameIn(applied, kind) = <<>>
  <2>1. ASSUME NEW kind
        PROVE  {i \in DOMAIN applied : applied[i][1] = "notify" /\ applied[i][2] = kind} = {}
    BY <1>1, <1>2
  <2> QED BY <2>1 DEF NameIn
<1>5. NameInv(Pending, applied, "TITLE", others, title) /\ NameInv(Pending, applied, "ICON", others, icon)
  BY <1>1, <1>2, <1>3, <1>4, PendingIs DEF NameInv
<1>6. BellInv(Pending, others)
  BY <1>1, PendingIs DEF BellInv
<1>7. ExitInv
  <2>1. /\ Before(common, common) /\ Before(others, others) /\ Before(common, others) /\ Before(others, common)
    BY <1>1, <1>2 DEF Before
  <2> QED BY <1>1, <1>3, <2>1 DEF ExitInv
<1> QED BY <1>5, <1>6, <1>7 DEF HostInv

LEMMA CatchingUpStep ==
    HostInv /\ OrderInv /\ ParsedInv /\ [DeliveriesNext]_allVars => HostInv'
<1> SUFFICES ASSUME HostInv, OrderInv, ParsedInv, [DeliveriesNext]_allVars PROVE HostInv'
  OBVIOUS
<1>1. <<>> \in P!Input
  <2>1. <<>> \in Seq(P!Bytes)
    BY EmptySeq
  <2> QED BY <2>1 DEF P!Input
<1>2. Fits("OUTPUT_ACTIVITY", <<>>) /\ Fits("BACKEND_ERROR", <<>>) /\ Fits("PROCESS_EXITED", <<>>)
  BY <1>1 DEF Fits, Kinds
<1>3. CASE OutputArrives
  <2>1. /\ Record(Notification("OUTPUT_ACTIVITY", <<>>))
        /\ UNCHANGED <<rung, owed, events, batch, eventOrder, batchOrder, others, seen>>
        /\ UNCHANGED <<applied, title, icon, sawExit, exited>> /\ ~exited
    BY <1>3 DEF OutputArrives, vars, bell, taken, view, counts
  <2>2. Latest(Pending, "OUTPUT_ACTIVITY", <<>>, Pending')
    BY <1>2, <2>1, RecordKeepsOrder
  <2>3. "OUTPUT_ACTIVITY" \notin Names \cup {"BELL", "PROCESS_EXITED"}
    BY DEF Names
  <2> QED BY <2>1, <2>2, <2>3, RecordKeepsHost
<1>4. CASE Parse
  BY <1>4, ParseKeepsHost
<1>5. CASE RecordError
  <2>1. /\ Record(Notification("BACKEND_ERROR", <<>>))
        /\ UNCHANGED <<rung, owed, events, batch, eventOrder, batchOrder, others, seen>>
        /\ UNCHANGED <<applied, title, icon, sawExit, exited, chunk, parser>>
    BY <1>5 DEF RecordError, vars, bell, taken, view, input
  <2>2. Latest(Pending, "BACKEND_ERROR", <<>>, Pending')
    BY <1>2, <2>1, RecordKeepsOrder
  <2>3. "BACKEND_ERROR" \notin Names \cup {"BELL", "PROCESS_EXITED"}
    BY DEF Names
  <2>4. exited => ParserIdle'
    BY <2>1 DEF HostInv, ExitInv, ParserIdle
  <2> QED BY <2>1, <2>2, <2>3, <2>4, RecordKeepsHost
<1>6. CASE ProcessExits
  <2>1. /\ Record(Notification("PROCESS_EXITED", <<>>))
        /\ UNCHANGED <<rung, owed, events, batch, eventOrder, batchOrder, others, seen>>
        /\ UNCHANGED <<applied, title, icon, sawExit, chunk, parser>>
        /\ ~exited /\ exited' = TRUE /\ ParserIdle
    BY <1>6 DEF ProcessExits, vars, bell, taken, view, input
  <2>2. Latest(Pending, "PROCESS_EXITED", <<>>, Pending')
    BY <1>2, <2>1, RecordKeepsOrder
  <2>3. ParserIdle'
    BY <2>1 DEF ParserIdle
  <2> QED BY <2>1, <2>2, <2>3, ExitKeepsHost
<1>7. CASE UNCHANGED allVars
  BY <1>7, HostStutters DEF view, input, allVars, queue, taken, counts
<1>8. CASE WindowEnds \/ SetBellPolicy
  <2>1. UNCHANGED <<common, lost, owed, others, title, icon, sawExit, input, exited>>
    BY <1>8 DEF WindowEnds, SetBellPolicy, queue, taken, view, counts
  <2> QED BY <2>1, HostStutters DEF input
<1>9. CASE RequestArrives \/ HoldEnds \/ DeadlinePasses
  <2>1. UNCHANGED <<common, lost, owed, others, title, icon, sawExit, input, exited>>
    BY <1>9 DEF RequestArrives, HoldEnds, DeadlinePasses, Numbered, taken, view, counts
  <2> QED BY <2>1, HostStutters DEF input
<1>10. CASE TimeoutChanges \/ ReplayEvent
  <2>1. UNCHANGED <<common, lost, owed, others, title, icon, sawExit, input, exited>>
    BY <1>10 DEF TimeoutChanges, ReplayEvent, queue, taken, view, counts
  <2> QED BY <2>1, HostStutters DEF input
<1>11. CASE TakeAll
  BY <1>11, TakeKeepsHost
<1>12. CASE ReplayCommon
  BY <1>12, ReplayKeepsHost
<1> QED BY <1>3, <1>4, <1>5, <1>6, <1>7, <1>8, <1>9, <1>10, <1>11, <1>12 DEF DeliveriesNext, DeliverAll

\* The host is never behind for good: when nothing waits, and in any case once it was told
\* of the exit, it has the last names; it was told of the exit and has played the bells,
\* unless the limit forgot one.
THEOREM HostCaughtUp == DeliveriesSpec => []HostIsCaughtUp
<1>1. HostInv => HostIsCaughtUp
  <2> SUFFICES ASSUME HostInv PROVE HostIsCaughtUp
    OBVIOUS
  <2>1. /\ NameInv(Pending, applied, "TITLE", others, title) /\ NameInv(Pending, applied, "ICON", others, icon)
        /\ BellInv(Pending, others) /\ ExitInv
    BY DEF HostInv
  <2>2. DOMAIN <<>> = {}
    BY EmptySeq
  <2> DEFINE quiet == common = <<>> /\ others = <<>>
  <2>3. quiet => /\ \A kind : ~Has(common, kind) /\ ~Has(others, kind)
                 /\ ~Audible(common) /\ ~Audible(others)
    BY <2>2 DEF Has, Audible
  <2>4. sawExit => \A kind \in Names : ~Has(common, kind) /\ ~Has(others, kind)
    BY <2>1 DEF ExitInv
  <2>5. quiet \/ sawExit => \A kind \in Names : ~Has(common, kind) /\ ~Has(others, kind)
    BY <2>3, <2>4
  <2>6. "TITLE" \in Names /\ "ICON" \in Names
    BY DEF Names
  <2>7. \A kind : LastName(kind) = NameIn(applied, kind)
    BY DEF LastName, NameIn
  <2>8. quiet \/ sawExit => /\ title = LastName("TITLE") \/ "TITLE" \in lost
                            /\ icon = LastName("ICON") \/ "ICON" \in lost
    <3> HIDE DEF quiet
    <3> QED BY <2>1, <2>5, <2>6, <2>7, PendingIs DEF NameInv
  <2>9. quiet => /\ exited => sawExit \/ "PROCESS_EXITED" \in lost
                 /\ owed => "BELL" \in lost
    BY <2>1, <2>3, PendingIs DEF ExitInv, BellInv
  <2> QED BY <2>8, <2>9 DEF HostIsCaughtUp
<1>2. HostInv /\ OrderInv /\ ParsedInv /\ [DeliveriesNext]_allVars => HostInv'
  BY CatchingUpStep
<1> QED BY HostInit, <1>1, <1>2, SessionOrders, SessionParses, PTL DEF DeliveriesSpec
===============================================================================
