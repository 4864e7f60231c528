----------------------------- MODULE RelayProofs -----------------------------
(* Theorems about Relay, for any first flights of a client, any replies and any faults. *)
EXTENDS Relay, TLAPS

Item == Nat \cup {Close}

\* The object's id is what the parser finds: its type is not known before Recognized.
ObjectTyped ==
    object \in [state: {"none", "reading", "open", "refused", "reset"}, id: {object.id}, in: Items,
                got: Items, route: Nat, up: {"open", "ended", "closed"}, sent: Nat,
                ended: BOOLEAN, out: Items]

Typed ==
    /\ input \in Inputs /\ public \in Public /\ socket \in Socket /\ link \in Link
    /\ worker \in Worker /\ ObjectTyped /\ faults \in 0..MaxFaults
    /\ public.sent <= Len(input.ends) /\ worker.replayed <= Len(worker.chunks)

-----------------------------------------------------------------------------
(* Queues. *)

Unended(q)   == \A i \in 1..Len(q) : q[i] > 0
OnlyClose(q) == \A i \in 1..Len(q) : q[i] = Close
NoClose(q)   == \A i \in 1..Len(q) : q[i] # Close
HasEnd(q)    == \E i \in 1..Len(q) : q[i] = End

\* q has the chunks a+1 to b, in order, and behind them an end, a close, or both, or nothing.
Holds(q, a, b) ==
    /\ a <= b /\ Len(q) - (b - a) \in 0..2
    /\ \A i \in 1..b - a : q[i] = a + i
    /\ \A i \in 1..Len(q) : i > b - a => q[i] \in {End, Close}
    /\ \A i \in 1..Len(q) : i > b - a /\ i < Len(q) => q[i] = End /\ q[i + 1] = Close

LEMMA AppendItem ==
    ASSUME NEW q \in Items, NEW x \in Item
    PROVE  /\ Append(q, x) \in Items /\ Len(Append(q, x)) = Len(q) + 1
           /\ Append(q, x)[Len(q) + 1] = x
           /\ \A i \in 1..Len(q) : Append(q, x)[i] = q[i] /\ q[i] \in Item
  BY DEF Items, Item

LEMMA TailItems ==
    ASSUME NEW q \in Items, q # <<>>
    PROVE  /\ Tail(q) \in Items /\ Len(Tail(q)) = Len(q) - 1 /\ Len(q) \in Nat \ {0}
           /\ Head(q) \in Item /\ Head(q) = q[1]
           /\ \A i \in 1..Len(q) - 1 : Tail(q)[i] = q[i + 1]
  BY DEF Items, Item

LEMMA AppendParts ==
    ASSUME NEW q \in Items, NEW x \in Item
    PROVE  /\ Unended(q) /\ x > 0 => Unended(Append(q, x))
           /\ NoClose(q) /\ x # Close => NoClose(Append(q, x))
           /\ OnlyClose(q) /\ x = Close => OnlyClose(Append(q, x))
           /\ HasEnd(Append(q, x)) => HasEnd(q) \/ x = End
           /\ HasEnd(q) => HasEnd(Append(q, x))
<1>1. Len(q) \in Nat
  BY DEF Items
<1>2. \A i \in 1..Len(Append(q, x)) : \/ i \in 1..Len(q) /\ Append(q, x)[i] = q[i]
                                      \/ i = Len(q) + 1 /\ Append(q, x)[i] = x
  BY <1>1, AppendItem
<1>3. Unended(q) /\ x > 0 => Unended(Append(q, x))
  BY <1>2 DEF Unended
<1>4. (NoClose(q) /\ x # Close => NoClose(Append(q, x))) /\ (OnlyClose(q) /\ x = Close => OnlyClose(Append(q, x)))
  BY <1>2 DEF NoClose, OnlyClose
<1>5. HasEnd(Append(q, x)) => HasEnd(q) \/ x = End
  BY <1>2 DEF HasEnd
<1>6. HasEnd(q) => HasEnd(Append(q, x))
  BY <1>1, AppendItem DEF HasEnd
<1>7. QED BY <1>3, <1>4, <1>5, <1>6

LEMMA TailParts ==
    ASSUME NEW q \in Items, q # <<>>
    PROVE  /\ Unended(q) => Unended(Tail(q)) /\ Head(q) > 0
           /\ NoClose(q) => NoClose(Tail(q)) /\ Head(q) # Close
           /\ OnlyClose(q) => OnlyClose(Tail(q)) /\ Head(q) = Close
           /\ HasEnd(Tail(q)) => HasEnd(q)
           /\ Head(q) = End => HasEnd(q)
           /\ Head(q) > 0 /\ Unended(Tail(q)) => Unended(q)
<1>1. /\ Len(q) \in Nat \ {0} /\ Len(Tail(q)) = Len(q) - 1 /\ Head(q) = q[1]
      /\ \A i \in 1..Len(q) - 1 : Tail(q)[i] = q[i + 1]
  BY TailItems
<1>2. \A i \in 1..Len(Tail(q)) : i + 1 \in 1..Len(q) /\ Tail(q)[i] = q[i + 1]
  BY <1>1
<1>3. 1 \in 1..Len(q)
  BY <1>1
<1>4. /\ Unended(q) => Unended(Tail(q)) /\ Head(q) > 0
      /\ NoClose(q) => NoClose(Tail(q)) /\ Head(q) # Close
      /\ OnlyClose(q) => OnlyClose(Tail(q)) /\ Head(q) = Close
  BY <1>1, <1>2, <1>3 DEF Unended, NoClose, OnlyClose
<1>5. /\ HasEnd(Tail(q)) => HasEnd(q)
      /\ Head(q) = End => HasEnd(q)
  BY <1>1, <1>2, <1>3 DEF HasEnd
<1>6. ASSUME Head(q) > 0, Unended(Tail(q))
      PROVE  Unended(q)
  <2>1. \A i \in 1..Len(q) : i = 1 \/ (i - 1 \in 1..Len(Tail(q)) /\ q[i] = Tail(q)[i - 1])
    BY <1>1
  <2>2. QED BY <1>1, <1>6, <2>1 DEF Unended
<1>7. QED BY <1>4, <1>5, <1>6

LEMMA EmptyParts ==
    /\ <<>> \in Items /\ Len(<<>>) = 0
    /\ Unended(<<>>) /\ NoClose(<<>>) /\ OnlyClose(<<>>) /\ ~HasEnd(<<>>)
    /\ \A a \in Nat : Holds(<<>>, a, a)
    /\ \A a, b \in Nat : Holds(<<>>, a, b) => a = b
  BY DEF Items, Unended, NoClose, OnlyClose, HasEnd, Holds

\* What has no end and no close holds chunks only, and the other way round.
LEMMA KindsApart ==
    ASSUME NEW q \in Items
    PROVE  /\ Unended(q) => NoClose(q) /\ ~HasEnd(q)
           /\ NoClose(q) /\ ~HasEnd(q) => Unended(q)
           /\ OnlyClose(q) => ~HasEnd(q)
  BY DEF Items, Unended, NoClose, HasEnd, OnlyClose, End, Close

\* The next chunk, or what ends the queue, behind what it holds.
LEMMA HoldsMore ==
    ASSUME NEW q \in Items, NEW a \in Nat, NEW b \in Nat, Holds(q, a, b), Unended(q)
    PROVE  /\ Holds(Append(q, b + 1), a, b + 1)
           /\ Holds(Append(q, End), a, b) /\ Holds(Append(q, Close), a, b)
<1>1. Len(q) \in Nat /\ Len(q) = b - a
  BY DEF Items, Holds, Unended, End, Close
<1>2. ASSUME NEW x \in Item
      PROVE  /\ Len(Append(q, x)) = Len(q) + 1 /\ Append(q, x)[Len(q) + 1] = x
             /\ \A i \in 1..Len(q) : Append(q, x)[i] = q[i]
  BY AppendItem
<1>3. b + 1 \in Item /\ End \in Item /\ Close \in Item
  BY DEF Item, End, Close
<1>4. Holds(Append(q, b + 1), a, b + 1)
  <2> DEFINE r == Append(q, b + 1)
  <2>1. /\ Len(r) = Len(q) + 1 /\ r[Len(q) + 1] = b + 1
        /\ \A i \in 1..Len(q) : r[i] = q[i]
    BY <1>2, <1>3
  <2> HIDE DEF r
  <2>2. QED BY <1>1, <2>1 DEF Holds, r
<1>5. ASSUME NEW x \in {End, Close}
      PROVE  Holds(Append(q, x), a, b)
  <2> DEFINE r == Append(q, x)
  <2>1. /\ Len(r) = Len(q) + 1 /\ r[Len(q) + 1] = x
        /\ \A i \in 1..Len(q) : r[i] = q[i]
    BY <1>2, <1>3
  <2> HIDE DEF r
  <2>2. QED BY <1>1, <2>1 DEF Holds, r
<1>6. QED BY <1>4, <1>5

\* The close behind what is not closed yet.
LEMMA HoldsClose ==
    ASSUME NEW q \in Items, NEW a \in Nat, NEW b \in Nat, Holds(q, a, b), NoClose(q)
    PROVE  Holds(Append(q, Close), a, b)
<1> DEFINE r == Append(q, Close)
<1>1. /\ Len(q) \in Nat /\ Len(r) = Len(q) + 1 /\ r[Len(q) + 1] = Close
      /\ \A i \in 1..Len(q) : r[i] = q[i]
  BY AppendItem DEF Items, Item
<1>2. Len(q) - (b - a) \in 0..1
  <2>1. ASSUME Len(q) - (b - a) = 2
        PROVE  FALSE
    <3>1. Len(q) - 1 \in 1..Len(q) /\ Len(q) - 1 > b - a /\ Len(q) \in 1..Len(q)
      BY <1>1, <2>1 DEF Holds
    <3>2. q[Len(q) - 1 + 1] = Close
      BY <1>1, <3>1 DEF Holds
    <3>3. QED BY <1>1, <3>1, <3>2 DEF NoClose
  <2>2. QED BY <1>1, <2>1 DEF Holds
<1>3. \A i \in 1..Len(q) : i > b - a => q[i] = End
  BY DEF Holds, NoClose
<1> HIDE DEF r
<1>4. Holds(r, a, b)
  <2>1. a <= b /\ Len(r) - (b - a) \in 0..2
    BY <1>1, <1>2 DEF Holds
  <2>2. \A i \in 1..b - a : r[i] = a + i
    BY <1>1, <1>2 DEF Holds
  <2>3. \A i \in 1..Len(r) : i > b - a => r[i] \in {End, Close}
    BY <1>1, <1>3
  <2>4. \A i \in 1..Len(r) : i > b - a /\ i < Len(r) => r[i] = End /\ r[i + 1] = Close
    BY <1>1, <1>2, <1>3
  <2>5. QED BY <2>1, <2>2, <2>3, <2>4 DEF Holds
<1>5. QED BY <1>4 DEF r

\* A queue whose last item is no close has none.
LEMMA CloseIsLast ==
    ASSUME NEW q \in Items, NEW a \in Nat, NEW b \in Nat, Holds(q, a, b),
           q = <<>> \/ q[Len(q)] # Close
    PROVE  NoClose(q)
<1>1. Len(q) \in Nat
  BY DEF Items
<1>2. ASSUME NEW i \in 1..Len(q), q[i] = Close
      PROVE  FALSE
  <2>1. i > b - a
    <3>1. i \in 1..b - a => q[i] > 0
      BY DEF Holds
    <3>2. QED BY <1>1, <1>2, <3>1 DEF Holds, Close
  <2>2. i < Len(q)
    BY <1>1, <1>2
  <2>3. QED BY <1>2, <2>1, <2>2 DEF Holds, End, Close
<1>3. QED BY <1>2 DEF NoClose

\* Taking the head.
LEMMA HoldsTake ==
    ASSUME NEW q \in Items, NEW a \in Nat, NEW b \in Nat, Holds(q, a, b), q # <<>>
    PROVE  /\ Head(q) > 0 => Head(q) = a + 1 /\ a + 1 <= b /\ Holds(Tail(q), a + 1, b)
           /\ Head(q) <= 0 => a = b /\ Holds(Tail(q), b, b) /\ Head(q) \in {End, Close}
           /\ Head(q) = End => OnlyClose(Tail(q))
           /\ Head(q) = Close => Tail(q) = <<>>
<1> DEFINE r == Tail(q)
<1>1. /\ Len(q) \in Nat \ {0} /\ Len(r) = Len(q) - 1 /\ Head(q) = q[1] /\ r \in Items
      /\ \A i \in 1..Len(q) - 1 : r[i] = q[i + 1]
  BY TailItems
<1> HIDE DEF r
<1>2. CASE b - a >= 1
  <2>1. q[1] = a + 1 /\ q[1] > 0
    BY <1>2 DEF Holds
  <2>2. Holds(r, a + 1, b)
    <3>1. a + 1 <= b /\ Len(r) - (b - (a + 1)) \in 0..2
      BY <1>1, <1>2 DEF Holds
    <3>2. ASSUME NEW i \in 1..b - (a + 1)
          PROVE  r[i] = a + 1 + i
      <4>1. i \in 1..Len(q) - 1 /\ i + 1 \in 1..b - a
        BY <1>1, <1>2 DEF Holds
      <4>2. r[i] = q[i + 1] /\ q[i + 1] = a + (i + 1)
        BY <1>1, <4>1 DEF Holds
      <4>3. QED BY <4>2
    <3>3. \A i \in 1..Len(r) : i > b - (a + 1) => r[i] \in {End, Close}
      BY <1>1, <1>2 DEF Holds
    <3>4. \A i \in 1..Len(r) : i > b - (a + 1) /\ i < Len(r) => r[i] = End /\ r[i + 1] = Close
      <4> SUFFICES ASSUME NEW i \in 1..Len(r), i > b - (a + 1), i < Len(r)
                   PROVE  r[i] = End /\ r[i + 1] = Close
        OBVIOUS
      <4>1. r[i] = q[i + 1] /\ r[i + 1] = q[i + 1 + 1] /\ i + 1 \in 1..Len(q)
            /\ i + 1 > b - a /\ i + 1 < Len(q)
        BY <1>1
      <4>2. QED BY <4>1 DEF Holds
    <3>5. QED BY <3>1, <3>2, <3>3, <3>4 DEF Holds
  <2>3. a + 1 <= b /\ a + 1 > 0 /\ ~(a + 1 <= 0) /\ a + 1 # End /\ a + 1 # Close
    BY <1>2 DEF End, Close
  <2>4. QED BY <1>1, <2>1, <2>2, <2>3 DEF r
<1>3. CASE b - a = 0
  <2>1. q[1] \in {End, Close} /\ a = b /\ (Len(q) > 1 => q[1] = End /\ q[2] = Close) /\ Len(q) <= 2
    BY <1>1, <1>3 DEF Holds
  <2>2. Len(r) \in 0..1 /\ \A i \in 1..Len(r) : r[i] = Close
    BY <1>1, <2>1
  <2>3. Holds(r, b, b)
    BY <2>2 DEF Holds
  <2>4. q[1] = Close => Len(r) = 0
    BY <1>1, <2>1, <2>2 DEF End, Close
  <2>5. Len(r) = 0 => r = <<>>
    BY <1>1 DEF Items
  <2>6. q[1] <= 0
    BY <2>1 DEF End, Close
  <2>7. ~(q[1] > 0) /\ OnlyClose(r)
    BY <2>1, <2>2 DEF End, Close, OnlyClose
  <2>8. QED BY <1>1, <2>1, <2>3, <2>4, <2>5, <2>6, <2>7 DEF r
<1>4. b - a \in Nat
  BY DEF Holds
<1>5. QED BY <1>2, <1>3, <1>4

LEMMA CutItems ==
    ASSUME NEW q \in Items, NEW n \in 0..Len(q)
    PROVE  /\ SubSeq(q, 1, n) \in Items /\ Len(SubSeq(q, 1, n)) = n
           /\ \A i \in 1..n : SubSeq(q, 1, n)[i] = q[i]
  BY DEF Items

\* What is left of a queue that is cut.
LEMMA HoldsPrefix ==
    ASSUME NEW q \in Items, NEW a \in Nat, NEW b \in Nat, Holds(q, a, b), NEW n \in 0..Len(q),
           NoClose(q)
    PROVE  /\ SubSeq(q, 1, n) \in Items /\ NoClose(SubSeq(q, 1, n))
           /\ \E c \in Nat : c <= b /\ Holds(SubSeq(q, 1, n), a, c)
<1> DEFINE r == SubSeq(q, 1, n)
<1>1. /\ Len(q) \in Nat /\ r \in Items /\ Len(r) = n
      /\ \A i \in 1..n : r[i] = q[i]
  BY CutItems DEF Items
<1> HIDE DEF r
<1>2. NoClose(r)
  BY <1>1 DEF NoClose
<1>3. CASE n <= b - a
  <2> DEFINE c == a + n
  <2>1. Holds(r, a, c)
    <3>1. c - a = n /\ a <= c /\ Len(r) - (c - a) \in 0..2
      BY <1>1
    <3>2. \A i \in 1..n : r[i] = a + i
      BY <1>1, <1>3 DEF Holds
    <3>3. \A i \in 1..Len(r) : ~(i > c - a)
      BY <1>1, <3>1
    <3> HIDE DEF c
    <3>4. QED BY <3>1, <3>2, <3>3 DEF Holds
  <2>2. c \in Nat /\ c <= b
    BY <1>1, <1>3
  <2> HIDE DEF c
  <2>3. QED BY <1>1, <1>2, <2>1, <2>2 DEF r
<1>4. CASE n > b - a
  <2>1. n - (b - a) \in 0..2
    BY <1>1, <1>4 DEF Holds
  <2>2. Holds(r, a, b)
    <3>1. \A i \in 1..n : i > b - a => r[i] \in {End, Close}
      BY <1>1 DEF Holds
    <3>2. \A i \in 1..n : ~(i > b - a /\ i < n)
      <4>1. ASSUME NEW i \in 1..n, i > b - a, i < n
            PROVE  FALSE
        <5>1. i \in 1..Len(q) /\ i < Len(q) /\ i + 1 \in 1..Len(q)
          BY <1>1, <4>1
        <5>2. q[i + 1] = Close
          BY <4>1, <5>1 DEF Holds
        <5>3. QED BY <5>1, <5>2 DEF NoClose
      <4>2. QED BY <4>1
    <3>3. QED BY <1>1, <1>4, <2>1, <3>1, <3>2 DEF Holds
  <2>3. QED BY <1>1, <1>2, <2>2 DEF r
<1>5. QED BY <1>1, <1>3, <1>4

-----------------------------------------------------------------------------
(* Types. *)

LEMMA InitTyped == Init => Typed
<1> SUFFICES ASSUME Init
             PROVE  Typed
  OBVIOUS
<1>1. <<>> \in Items
  BY EmptyParts
<1>2. faults \in 0..MaxFaults /\ 0 <= Len(input.ends) /\ Len(<<>>) = 0
  BY RelayAssumption, EmptyParts DEF Init
<1>3. public \in Public /\ socket \in Socket /\ link \in Link
  BY <1>1 DEF Init, Public, Socket, Link
<1>4. worker \in Worker
  BY <1>1 DEF Init, Worker
<1>5. ObjectTyped
  BY <1>1 DEF Init, ObjectTyped, None
<1>6. QED BY <1>2, <1>3, <1>4, <1>5 DEF Init, Typed

LEMMA FaultType == ASSUME Typed, Fault PROVE faults' \in 0..MaxFaults
  BY RelayAssumption DEF Typed, Fault

LEMMA SentType ==
    ASSUME NEW l \in Link, NEW x \in Item
    PROVE  Sent(l, x) \in Link
<1>1. Append(l.up, x) \in Items
  BY AppendItem DEF Link
<1>2. QED BY <1>1 DEF Sent, Link

LEMMA DestroysType ==
    ASSUME Typed, NEW p \in Public, NEW l \in Link, Destroys(p, l)
    PROVE  /\ public' \in Public /\ socket' \in Socket /\ link' \in Link
           /\ public'.sent = p.sent
<1>1. socket' \in Socket
  BY EmptyParts DEF Destroys, Typed, Socket
<1>2. Append(l.up, Close) \in Items
  BY AppendItem DEF Link, Item
<1>3. link' \in Link
  <2>1. Bridge(l) \in Link
    BY <1>2 DEF Bridge, Link
  <2>2. QED BY <2>1 DEF Destroys
<1>4. public' \in Public /\ public'.sent = p.sent
  BY DEF Destroys, Public
<1>5. QED BY <1>1, <1>3, <1>4

LEMMA ClosesType ==
    ASSUME Typed, NEW w \in Worker, NEW phase \in {"rejected", "closed"}, Closes(w, phase)
    PROVE  /\ worker' \in Worker /\ link' \in Link
           /\ worker'.chunks = w.chunks /\ worker'.replayed = w.replayed
<1>1. Append(w.chain, End) \in Items
  BY AppendItem DEF Worker, Item, End
<1>2. closeIncoming(w) \in Worker /\ closeIncoming(w).chunks = w.chunks /\ closeIncoming(w).replayed = w.replayed
  BY <1>1 DEF closeIncoming, Worker
<1>3. /\ worker' \in Worker /\ worker'.chunks = w.chunks /\ worker'.replayed = w.replayed
  BY <1>2 DEF Closes, Worker
<1>4. Append(link.down, Close) \in Items
  BY AppendItem DEF Typed, Link, Item
<1>5. link' \in Link
  BY <1>4 DEF Closes, SendsDown, Typed, Link
<1>6. QED BY <1>3, <1>5

LEMMA ClientType ==
    ASSUME Typed, Client
    PROVE  Typed'
<1>1. /\ public.sent + 1 \in Item /\ End \in Item /\ socket.in \in Items
  BY DEF Typed, Public, Socket, Item, End
<1>2. socket' \in Socket
  <2>1. Append(socket.in, public.sent + 1) \in Items /\ Append(socket.in, End) \in Items
    BY <1>1, AppendItem
  <2>2. QED BY <2>1 DEF Client, sends, endsSending, Typed, Socket
<1>3. public' \in Public /\ public'.sent <= Len(input.ends)
  <2>1. Len(input.ends) \in Nat
    BY RelayAssumption DEF Typed
  <2>2. CASE sends
    BY <2>1, <2>2 DEF sends, Typed, Public
  <2>3. CASE endsSending
    <3>1. (public.saw = "open") \in BOOLEAN
      OBVIOUS
    <3>2. QED BY <2>1, <2>3, <3>1 DEF endsSending, Typed, Public
  <2>4. QED BY <2>2, <2>3 DEF Client
<1>4. UNCHANGED <<input, link, worker, object, faults>>
  BY DEF Client, sends, endsSending
<1>5. QED BY <1>2, <1>3, <1>4 DEF Typed, ObjectTyped

LEMMA RelayStepsType ==
    ASSUME Typed, RelaySteps
    PROVE  Typed'
<1> USE DEF Typed
<1>1. End \in Item /\ UNCHANGED <<input, object, faults>> /\ ObjectTyped'
  BY DEF Item, End, RelaySteps, opens, onData, onEnd, onMessage, writes, ObjectTyped
<1>2. CASE opens
  <2> DEFINE l == [link EXCEPT !.state = "open"]
  <2>1. l \in Link /\ Sent(l, End) \in Link
    <3>1. l \in Link
      BY DEF Link
    <3>2. QED BY <1>1, <3>1, SentType
  <2>2. link' \in Link /\ socket' \in Socket
    BY <1>2, <2>1 DEF opens, Socket
  <2>3. worker' \in Worker /\ worker'.chunks = worker.chunks /\ worker'.replayed = worker.replayed
    BY <1>2 DEF opens, Worker
  <2>4. QED BY <1>1, <1>2, <2>2, <2>3 DEF opens
<1>3. CASE onData
  <2>1. Head(socket.in) \in Item /\ Tail(socket.in) \in Items
    BY <1>3, TailItems DEF onData, Socket
  <2>2. link' \in Link /\ socket' \in Socket
    BY <1>3, <2>1, SentType DEF onData, Socket
  <2>3. QED BY <1>1, <1>3, <2>2 DEF onData
<1>4. CASE onEnd
  <2>1. Tail(socket.in) \in Items /\ Sent(link, End) \in Link
    BY <1>1, <1>4, TailItems, SentType DEF onEnd, Socket
  <2>2. public' \in Public /\ socket' \in Socket /\ link' \in Link /\ public'.sent = public.sent
    <3>1. CASE Destroys(public, Sent(link, End))
      BY <2>1, <3>1, DestroysType
    <3>2. CASE /\ socket' = [socket EXCEPT !.in = Tail(@), !.ended = TRUE]
               /\ link' = Sent(link, End) /\ UNCHANGED public
      BY <2>1, <3>2 DEF Socket
    <3>3. QED BY <1>4, <3>1, <3>2 DEF onEnd
  <2>3. QED BY <1>1, <1>4, <2>2 DEF onEnd
<1>5. CASE onMessage
  <2> DEFINE l == [link EXCEPT !.down = Tail(@)]
             lc == [l EXCEPT !.state = "closed"]
  <2>1. Head(link.down) \in Item /\ Tail(link.down) \in Items
    BY <1>5, TailItems DEF onMessage, Link
  <2>2. l \in Link /\ lc \in Link
    BY <2>1 DEF Link
  <2>3. Append(socket.out, Head(link.down)) \in Items
    BY <2>1, AppendItem DEF Socket
  <2>4. public' \in Public /\ socket' \in Socket /\ link' \in Link /\ public'.sent = public.sent
    <3>1. CASE Destroys(public, lc)
      BY <2>2, <3>1, DestroysType
    <3>2. CASE /\ link' = l /\ UNCHANGED public
               /\ socket' = IF socket.destroyed THEN socket
                            ELSE [socket EXCEPT !.out = Append(@, Head(link.down))]
      BY <2>2, <2>3, <3>2 DEF Socket
    <3>3. QED BY <1>5, <3>1, <3>2 DEF onMessage
  <2>5. QED BY <1>1, <1>5, <2>4 DEF onMessage
<1>6. CASE writes
  <2> DEFINE told == [public EXCEPT !.saw = "end"]
  <2>1. Head(socket.out) \in Item /\ Tail(socket.out) \in Items
    BY <1>6, TailItems DEF writes, Socket
  <2>2. Append(public.got, Head(socket.out)) \in Items
    BY <2>1, AppendItem DEF Public
  <2>3. told \in Public /\ told.sent = public.sent
    BY DEF Public
  <2>4. public' \in Public /\ socket' \in Socket /\ link' \in Link /\ public'.sent = public.sent
    <3>1. CASE Destroys(told, link)
      BY <2>3, <3>1, DestroysType
    <3>2. CASE /\ public' = told /\ UNCHANGED link
               /\ socket' = [socket EXCEPT !.out = Tail(@), !.finished = TRUE]
      BY <2>1, <2>3, <3>2 DEF Socket
    <3>3. CASE /\ public' = [public EXCEPT !.got = Append(@, Head(socket.out))]
               /\ socket' = [socket EXCEPT !.out = Tail(@)] /\ UNCHANGED link
      BY <2>1, <2>2, <3>3 DEF Socket, Public
    <3>4. QED BY <1>6, <3>1, <3>2, <3>3 DEF writes
  <2>5. QED BY <1>1, <1>6, <2>4 DEF writes
<1>7. QED BY <1>2, <1>3, <1>4, <1>5, <1>6 DEF RelaySteps

\* The worker's steps on its own record.
LEMMA WorkerStepsType ==
    ASSUME Typed, WorkerSteps
    PROVE  Typed'
<1> USE DEF Typed
<1>1. UNCHANGED <<input, public, socket, faults>>
  BY DEF WorkerSteps, received, readHello, timesOut, opened, replay, pipesUp, pipesDown, closesBoth
<1>2. End \in Item /\ Close \in Item
  BY DEF Item, End
<1>3. CASE received
  <2>1. Head(link.up) \in Item /\ Tail(link.up) \in Items
    BY <1>3, TailItems DEF received, Link
  <2>2. Append(worker.chain, Head(link.up)) \in Items /\ Append(worker.chain, End) \in Items
    BY <1>2, <2>1, AppendItem DEF Worker
  <2>3. link' \in Link
    BY <1>3, <2>1 DEF received, Link
  <2>4. worker' \in Worker /\ worker'.chunks = worker.chunks /\ worker'.replayed = worker.replayed
    BY <1>3, <2>2 DEF received, closeIncoming, Worker
  <2>5. QED BY <1>1, <1>3, <2>3, <2>4 DEF received, ObjectTyped
<1>4. CASE readHello
  <2> DEFINE item == Head(worker.chain)
             read == [worker EXCEPT !.chain = Tail(@), !.chunks = Append(@, item)]
             size == Size(Len(read.chunks))
             result == Parsed[input][size]
             tunnelID == tunnelIDFromHostname(result.serverName)
  <2>1. item \in Item /\ Tail(worker.chain) \in Items
    BY <1>4, TailItems DEF readHello, Worker
  <2>2. Append(worker.chunks, item) \in Items /\ Len(Append(worker.chunks, item)) = Len(worker.chunks) + 1
    BY <2>1, AppendItem DEF Worker
  <2>3. read \in Worker /\ read.replayed <= Len(read.chunks)
    <3>1. read \in Worker /\ read.replayed = worker.replayed /\ read.chunks = Append(worker.chunks, item)
      BY <2>1, <2>2 DEF Worker
    <3>2. worker.replayed \in Nat /\ Len(worker.chunks) \in Nat
      BY DEF Worker, Items
    <3> HIDE DEF read
    <3>3. QED BY <2>2, <3>1, <3>2
  <2> HIDE DEF read
  <2>4. CASE Closes(worker, "closed") /\ UNCHANGED object
    BY <1>1, <2>4, ClosesType DEF ObjectTyped
  <2>5. CASE worker' = read /\ UNCHANGED <<link, object>>
    BY <1>1, <2>3, <2>5 DEF ObjectTyped
  <2>6. CASE /\ worker' = [read EXCEPT !.phase = "opening"] /\ UNCHANGED link
             /\ object' = [object EXCEPT !.id = tunnelID]
    <3> HIDE DEF tunnelID
    <3>1. worker' \in Worker /\ worker'.replayed <= Len(worker'.chunks)
      BY <2>3, <2>6 DEF Worker
    <3>2. ObjectTyped'
      BY <2>6 DEF ObjectTyped
    <3>3. QED BY <1>1, <2>6, <3>1, <3>2
  <2>7. CASE Closes(read, "rejected") /\ UNCHANGED object
    BY <1>1, <2>3, <2>7, ClosesType DEF ObjectTyped
  <2>8. QED BY <1>4, <2>4, <2>5, <2>6, <2>7 DEF readHello, read
<1>5. CASE timesOut
  BY <1>1, <1>5, ClosesType DEF timesOut, ObjectTyped
<1>6. CASE opened
  <2>1. worker' \in Worker /\ worker'.chunks = worker.chunks /\ worker'.replayed = worker.replayed
    BY <1>6 DEF opened, Worker
  <2>2. ObjectTyped'
    BY <1>6 DEF opened, ObjectTyped
  <2>3. QED BY <1>1, <1>6, <2>1, <2>2 DEF opened
<1>7. CASE replay
  <2>1. CASE /\ worker.replayed = Len(worker.chunks)
             /\ worker' = [worker EXCEPT !.phase = "piping"] /\ UNCHANGED <<link, object>>
    BY <1>1, <2>1 DEF Worker, ObjectTyped
  <2>2. CASE Closes(worker, "closed") /\ UNCHANGED object
    BY <1>1, <2>2, ClosesType DEF ObjectTyped
  <2>3. CASE /\ worker.replayed # Len(worker.chunks)
             /\ worker' = [worker EXCEPT !.replayed = @ + 1]
             /\ object' = [object EXCEPT !.in = Append(@, worker.chunks[worker.replayed + 1])]
             /\ UNCHANGED link
    <3>1. worker.replayed + 1 \in 1..Len(worker.chunks) /\ worker.chunks \in Seq(Item)
      BY <2>3 DEF Worker, Items, Item
    <3>2. worker.chunks[worker.replayed + 1] \in Item
      BY <3>1
    <3>3. Append(object.in, worker.chunks[worker.replayed + 1]) \in Items
      BY <3>2, AppendItem DEF ObjectTyped
    <3>4. ObjectTyped'
      BY <2>3, <3>3 DEF ObjectTyped
    <3>5. worker' \in Worker /\ worker'.replayed <= Len(worker'.chunks)
      <4>1. /\ worker.replayed \in Nat /\ Len(worker.chunks) \in Nat
            /\ worker.replayed <= Len(worker.chunks)
        BY <3>1 DEF Worker
      <4>2. worker.replayed + 1 \in Nat /\ worker.replayed + 1 <= Len(worker.chunks)
        BY <2>3, <4>1
      <4>3. worker' \in Worker
        BY <2>3, <4>2 DEF Worker
      <4>4. worker'.replayed = worker.replayed + 1 /\ worker'.chunks = worker.chunks
        BY <2>3 DEF Worker
      <4>5. QED BY <4>2, <4>3, <4>4
    <3>6. QED BY <1>1, <2>3, <3>4, <3>5
  <2>4. QED BY <1>7, <2>1, <2>2, <2>3 DEF replay
<1>8. CASE pipesUp
  <2>1. CASE worker' = [worker EXCEPT !.up = "failed"] /\ UNCHANGED object
    BY <1>1, <1>8, <2>1 DEF pipesUp, Worker, ObjectTyped
  <2>2. CASE /\ worker.chain # <<>>
             /\ worker' = [worker EXCEPT !.chain = Tail(@),
                                         !.up = IF Head(worker.chain) = End THEN "done" ELSE @]
             /\ object' = [object EXCEPT !.in = Append(@, Head(worker.chain))]
    <3>1. Head(worker.chain) \in Item /\ Tail(worker.chain) \in Items
      BY <2>2, TailItems DEF Worker
    <3>2. Append(object.in, Head(worker.chain)) \in Items
      BY <3>1, AppendItem DEF ObjectTyped
    <3>3. ObjectTyped'
      BY <2>2, <3>2 DEF ObjectTyped
    <3>4. worker' \in Worker /\ worker'.chunks = worker.chunks /\ worker'.replayed = worker.replayed
      BY <2>2, <3>1 DEF Worker
    <3>5. QED BY <1>1, <1>8, <3>3, <3>4 DEF pipesUp
  <2>3. QED BY <1>8, <2>1, <2>2 DEF pipesUp
<1>9. CASE pipesDown
  <2>1. Head(object.out) \in Item /\ Tail(object.out) \in Items
    BY <1>9, TailItems DEF pipesDown, ObjectTyped
  <2>2. Append(link.down, Head(object.out)) \in Items
    BY <2>1, AppendItem DEF Link
  <2>3. link' \in Link
    BY <1>9, <2>2 DEF pipesDown, SendsDown, Link
  <2>4. ObjectTyped'
    BY <1>9, <2>1 DEF pipesDown, ObjectTyped
  <2>5. worker' \in Worker /\ worker'.chunks = worker.chunks /\ worker'.replayed = worker.replayed
    BY <1>9 DEF pipesDown, Worker
  <2>6. QED BY <1>1, <2>3, <2>4, <2>5
<1>10. CASE closesBoth
  <2>1. Append(object.in, Close) \in Items
    BY <1>2, AppendItem DEF ObjectTyped
  <2>2. ObjectTyped'
    BY <1>10, <2>1 DEF closesBoth, ObjectTyped
  <2>3. QED BY <1>1, <1>10, <2>2, ClosesType DEF closesBoth
<1>11. QED BY <1>3, <1>4, <1>5, <1>6, <1>7, <1>8, <1>9, <1>10 DEF WorkerSteps

\* What connect does with the next chunk.
ChunkRead == [object EXCEPT !.in = Tail(@), !.got = Append(@, Head(object.in))]
Opened(x) == [ChunkRead EXCEPT !.state = "open", !.route = x]

LEMMA ConnectCases ==
    ASSUME connect
    PROVE  \/ object' = Refused(object) /\ Head(object.in) <= 0
           \/ /\ ~(Head(object.in) <= 0)
              /\ \/ object' \in {ChunkRead, Refused(ChunkRead)}
                 \/ \E x \in Attached : object' = Opened(x)
<1> DEFINE size == Size(Len(ChunkRead.got))
           more == ChunkRead.in # <<>> /\ Head(ChunkRead.in) > 0
           low == Size(Len(object.got))
           complete(b) == Parsed[input][b].status = "complete"
           route(b) == routeOf(Parsed[input][b].serverName, object.id)
           decides(b) == object' = IF complete(b) /\ route(b) \in Attached
                                   THEN [ChunkRead EXCEPT !.state = "open", !.route = route(b)]
                                   ELSE Refused(ChunkRead)
<1>1. CASE Head(object.in) <= 0
  BY <1>1 DEF connect
<1>2. CASE ~(Head(object.in) <= 0)
  <2>1. \/ object' = ChunkRead
        \/ \E b \in low..size : decides(b)
    BY <1>2 DEF connect, ChunkRead
  <2>2. ASSUME NEW b \in low..size, decides(b)
        PROVE  object' = Refused(ChunkRead) \/ \E x \in Attached : object' = Opened(x)
    <3> HIDE DEF route, complete
    <3>1. QED BY <2>2 DEF Opened
  <2> HIDE DEF decides
  <2>3. QED BY <1>2, <2>1, <2>2
<1>3. QED BY <1>1, <1>2

LEMMA ObjectStepsType ==
    ASSUME Typed, ObjectSteps
    PROVE  Typed'
<1> USE DEF Typed
<1>1. UNCHANGED <<input, public, socket, link, worker, faults>>
  BY DEF ObjectSteps, connect, upload, replies, endsReplies
<1>2. End \in Item /\ <<>> \in Items /\ <<End>> \in Items
  BY DEF Item, End, Items
<1>3. CASE connect
  <2>0. object.in # <<>>
    BY <1>3 DEF connect
  <2>1. Head(object.in) \in Item /\ Tail(object.in) \in Items
    BY <2>0, TailItems DEF ObjectTyped
  <2>2. Append(object.got, Head(object.in)) \in Items
    BY <2>1, AppendItem DEF ObjectTyped
  <2>3. CASE object' = Refused(object)
    BY <1>1, <1>2, <2>3 DEF Refused, ObjectTyped
  <2>4. CASE object' = ChunkRead
    BY <1>1, <2>1, <2>2, <2>4 DEF ObjectTyped, ChunkRead
  <2>5. ASSUME NEW x \in Attached, object' = Opened(x)
        PROVE  Typed'
    <3>1. x \in Nat
      BY RelayAssumption
    <3>2. QED BY <1>1, <2>1, <2>2, <2>5, <3>1 DEF ObjectTyped, ChunkRead, Opened
  <2>6. CASE object' = Refused(ChunkRead)
    BY <1>1, <1>2, <2>1, <2>2, <2>6 DEF Refused, ObjectTyped, ChunkRead
  <2>7. QED BY <1>3, <2>3, <2>4, <2>5, <2>6, ConnectCases
<1>4. CASE upload
  <2>1. Head(object.in) \in Item /\ Tail(object.in) \in Items
    BY <1>4, TailItems DEF upload, ObjectTyped
  <2>2. Append(object.got, Head(object.in)) \in Items
    BY <2>1, AppendItem DEF ObjectTyped
  <2>3. ObjectTyped'
    <3>1. CASE object' = [object EXCEPT !.in = Tail(@), !.up = "ended"]
      BY <2>1, <3>1 DEF ObjectTyped
    <3>2. CASE object' = [object EXCEPT !.in = Tail(@), !.up = IF @ = "open" THEN "closed" ELSE @]
      BY <2>1, <3>2 DEF ObjectTyped
    <3>3. CASE object' = [object EXCEPT !.in = Tail(@), !.got = Append(@, Head(object.in))]
      BY <2>1, <2>2, <3>3 DEF ObjectTyped
    <3>4. QED BY <1>4, <3>1, <3>2, <3>3 DEF upload
  <2>4. QED BY <1>1, <2>3
<1>5. CASE replies
  <2>1. object.sent + 1 \in Item /\ object.sent + 1 \in Nat
    BY DEF ObjectTyped, Item
  <2>2. Append(object.out, object.sent + 1) \in Items
    BY <2>1, AppendItem DEF ObjectTyped
  <2>3. QED BY <1>1, <1>5, <2>1, <2>2 DEF replies, ObjectTyped
<1>6. CASE endsReplies
  <2>1. Append(object.out, End) \in Items
    BY <1>2, AppendItem DEF ObjectTyped
  <2>2. QED BY <1>1, <1>6, <2>1 DEF endsReplies, ObjectTyped
<1>7. QED BY <1>3, <1>4, <1>5, <1>6 DEF ObjectSteps

LEMMA FaultsType ==
    ASSUME Typed, Faults
    PROVE  Typed'
<1> USE DEF Typed
<1>1. faults' \in 0..MaxFaults /\ UNCHANGED input
  BY FaultType DEF Faults, aborts, loses, openFails, resets
<1>2. CASE aborts
  <2> DEFINE p == [public EXCEPT !.saw = "gone"]
  <2>1. p \in Public /\ p.sent = public.sent
    BY DEF Public
  <2>2. public' \in Public /\ socket' \in Socket /\ link' \in Link /\ public'.sent = public.sent
    BY <1>2, <2>1, DestroysType DEF aborts
  <2>3. QED BY <1>1, <1>2, <2>2 DEF aborts, ObjectTyped
<1>3. CASE loses
  <2>1. PICK n \in 0..Len(link.up) :
               Destroys(public, [state |-> "closed", up |-> SubSeq(link.up, 1, n) \o
                                     IF link.state = "connecting" THEN <<>> ELSE <<Close>>,
                                 down |-> <<>>])
    BY <1>3 DEF loses
  <2> DEFINE rest == SubSeq(link.up, 1, n) \o IF link.state = "connecting" THEN <<>> ELSE <<Close>>
             l == [state |-> "closed", up |-> rest, down |-> <<>>]
  <2>2. rest \in Items
    <3> DEFINE kept == SubSeq(link.up, 1, n)
               tail == IF link.state = "connecting" THEN <<>> ELSE <<Close>>
    <3>1. kept \in Seq(Nat \cup {Close}) /\ tail \in Seq(Nat \cup {Close})
      <4>1. link.up \in Seq(Nat \cup {Close}) /\ <<>> \in Seq(Nat \cup {Close})
            /\ <<Close>> \in Seq(Nat \cup {Close})
        BY DEF Link, Items
      <4>2. kept \in Seq(Nat \cup {Close})
        BY <4>1
      <4>3. QED BY <4>1, <4>2
    <3> HIDE DEF kept, tail
    <3>2. kept \o tail \in Items
      BY <3>1 DEF Items
    <3>3. QED BY <3>2 DEF kept, tail
  <2> HIDE DEF rest
  <2>3. l \in Link
    BY <2>2, EmptyParts DEF Link
  <2>4. Destroys(public, l)
    BY <2>1 DEF rest
  <2>5. public' \in Public /\ socket' \in Socket /\ link' \in Link /\ public'.sent = public.sent
    BY <2>3, <2>4, DestroysType
  <2>6. QED BY <1>1, <1>3, <2>5 DEF loses, ObjectTyped
<1>4. CASE openFails
  BY <1>1, <1>4, ClosesType DEF openFails, ObjectTyped
<1>5. CASE resets
  <2>1. <<>> \in Items /\ <<Close>> \in Items
    BY DEF Items
  <2>2. QED BY <1>1, <1>5, <2>1 DEF resets, ObjectTyped
<1>6. QED BY <1>2, <1>3, <1>4, <1>5 DEF Faults

LEMMA NextTyped == Typed /\ [Next]_vars => Typed'
<1>1. Typed /\ UNCHANGED vars => Typed'
  BY DEF Typed, ObjectTyped, vars
<1>2. QED BY <1>1, ClientType, RelayStepsType, WorkerStepsType, ObjectStepsType, FaultsType DEF Next

LEMMA AlwaysTyped == Spec => []Typed
  BY InitTyped, NextTyped, PTL DEF Spec

-----------------------------------------------------------------------------
(* Where the ends of the streams are. *)

\* The worker still takes what the client sends, and what the tunnel sends back.
Live == worker.phase \in {"none", "hello", "opening", "replay", "piping"}
Downloading == Live /\ worker.down = "running"

\* A connection that has been, or may yet be, accepted by the tunnel.
Going == ~Broken /\ ~(object.state = "none" /\ ~Live)

Ends ==
    /\ socket.destroyed <=> link.state \in {"closing", "closed"}
    /\ socket.destroyed => socket.in = <<>> /\ socket.out = <<>>
    /\ link.state = "connecting" =>
          link.up = <<>> /\ link.down = <<>> /\ worker.phase = "none" /\ ~socket.flowing
    /\ worker.phase = "none" =>
          ~worker.closed /\ worker.chain = <<>> /\ link.up = <<>> /\ link.state # "open"
    /\ NoClose(socket.in) /\ (~public.ended => Unended(socket.in))
    /\ socket.ended => public.ended /\ socket.in = <<>>
    /\ ~socket.destroyed => NoClose(link.up)
    /\ ~socket.destroyed /\ ~socket.ended => Unended(link.up) /\ (Live => ~worker.closed)
    /\ Live /\ worker.closed => OnlyClose(link.up)
    /\ Live => NoClose(worker.chain) /\ (~worker.closed => Unended(worker.chain))
    /\ Live /\ worker.up = "done" => worker.chain = <<>> /\ worker.closed
    /\ Live /\ worker.phase # "piping" => worker.up = "running" /\ worker.down = "running"
    /\ Live => NoClose(object.in) /\ (worker.up # "done" => Unended(object.in))
    /\ Live /\ worker.up = "failed" => Broken
    /\ object.up = "ended" => OnlyClose(object.in) /\ (Live => worker.up = "done")
    /\ object.state \in {"none", "reading", "refused"} => object.up = "open"
    /\ Broken => object.in = <<>>
    /\ object.state = "none" => object.in = <<>> /\ object.got = <<>>
    /\ worker.phase \in {"none", "hello", "opening", "rejected"} => object.state = "none"
    /\ worker.phase \in {"replay", "piping"} => object.state # "none"

\* The chunks on their way up: n1 of them were given to the object, n2 taken by the worker out
\* of its queue, n3 out of the WebSocket, and n4 sent by the relay.  When the replay is over, it
\* has what the worker inspected.
Upload(n1, n2, n3, n4) ==
    /\ \A i \in 1..Len(object.got) : object.got[i] = i
    /\ Holds(object.in, Len(object.got), n1) /\ n1 <= public.sent
    /\ Holds(link.up, n3, n4) /\ n4 <= public.sent
    /\ ~socket.destroyed => Holds(socket.in, n4, public.sent)
    /\ \A i \in 1..Len(worker.chunks) : worker.chunks[i] = i
    /\ Len(worker.chunks) <= public.sent
    /\ object.state = "reading" /\ worker.phase # "replay" => Len(worker.chunks) <= n1
    /\ Live => /\ Holds(worker.chain, n2, n3)
               /\ worker.phase = "piping" /\ ~Broken => n1 = n2
               /\ worker.phase # "piping" => n2 = Len(worker.chunks)
               /\ worker.phase # "piping" /\ ~Broken => n1 = worker.replayed

\* When nothing failed, what ended has been sent and handed on as a whole.
UploadEnds(n1, n4) == faults = 0 =>
    /\ Live /\ (socket.ended \/ socket.destroyed) => public.ended /\ n4 = public.sent
    /\ HasEnd(object.in) \/ object.up = "ended" \/ (Live /\ worker.up = "done" /\ ~Broken) =>
          public.ended /\ n1 = public.sent

\* The chunks on their way down: m1 came out of the WebSocket, m2 were sent by the worker, and
\* m3 by the tunnel.
Download(m0, m1, m2, m3) ==
    /\ \A i \in 1..Len(public.got) : public.got[i] = i
    /\ Holds(socket.out, Len(public.got), m0) /\ m0 <= object.sent
    /\ Holds(link.down, m1, m2) /\ m2 <= object.sent
    /\ ~socket.destroyed => m0 = m1
    /\ Downloading /\ ~socket.destroyed => Holds(object.out, m2, m3)
    /\ m3 <= object.sent /\ (object.state = "open" => m3 = object.sent)
    /\ object.state = "open" /\ ~object.ended => Unended(object.out)
    /\ object.state \in {"none", "reading"} => object.out = <<>> /\ object.sent = 0 /\ ~object.ended
    /\ NoClose(socket.out) /\ (socket.finished => socket.out = <<>>)
    /\ Downloading /\ ~socket.destroyed => Unended(link.down) /\ Unended(socket.out) /\ ~socket.finished
    /\ (~Unended(socket.out) \/ socket.finished) /\ ~socket.destroyed => OnlyClose(link.down)

\* When nothing failed, a client that waits for the end before it closes sees the end of a whole
\* download, and a worker that is done with the connection has told it so.
DownloadEnds(m2) ==
    /\ socket.destroyed \/ socket.finished \/ (public.ended /\ ~public.hasty) => public.saw # "open"
    /\ ~public.ended => ~public.hasty
    /\ faults = 0 => NoClose(object.out)
    /\ faults = 0 /\ Live => NoClose(link.down) /\ (worker.down = "failed" => socket.destroyed)
    /\ faults = 0 /\ Going /\ ~socket.destroyed
       /\ (HasEnd(link.down) \/ HasEnd(socket.out) \/ socket.finished) =>
          object.ended /\ m2 = object.sent
    /\ faults = 0 /\ Going /\ ~public.hasty =>
          /\ public.saw # "open" => object.ended /\ Len(public.got) = object.sent
          /\ ~Live => public.saw # "open"

-----------------------------------------------------------------------------
(* What the steps share. *)

LEMMA DestroysFields ==
    ASSUME Typed, NEW p \in Public, NEW l \in Link, Destroys(p, l)
    PROVE  /\ socket'.destroyed /\ socket'.in = <<>> /\ socket'.out = <<>>
           /\ socket'.ended = socket.ended /\ socket'.finished = socket.finished
           /\ public'.sent = p.sent /\ public'.ended = p.ended /\ public'.hasty = p.hasty
           /\ public'.got = p.got /\ public'.saw # "open" /\ (p.saw # "open" => public'.saw = p.saw)
           /\ link'.state \in {"closing", "closed"} /\ link'.down = l.down
           /\ link'.up = IF l.state = "open" THEN Append(l.up, Close) ELSE l.up
<1>1. /\ socket'.destroyed /\ socket'.in = <<>> /\ socket'.out = <<>>
      /\ socket'.ended = socket.ended /\ socket'.finished = socket.finished
  BY DEF Destroys, Typed, Socket
<1>2. /\ public'.sent = p.sent /\ public'.ended = p.ended /\ public'.hasty = p.hasty
      /\ public'.got = p.got /\ public'.saw # "open" /\ (p.saw # "open" => public'.saw = p.saw)
  BY DEF Destroys, Public
<1>3. /\ link'.state \in {"closing", "closed"} /\ link'.down = l.down
      /\ link'.up = IF l.state = "open" THEN Append(l.up, Close) ELSE l.up
  BY DEF Destroys, Bridge, Link
<1>4. QED BY <1>1, <1>2, <1>3

LEMMA ClosesFields ==
    ASSUME Typed, NEW w \in Worker, NEW phase \in {"rejected", "closed"}, Closes(w, phase)
    PROVE  /\ ~Live' /\ worker'.phase = phase /\ worker'.chunks = w.chunks
           /\ worker'.replayed = w.replayed
           /\ link'.state = link.state /\ link'.up = link.up
           /\ \/ link'.down = link.down
              \/ /\ link'.down = Append(link.down, Close) /\ link.state \notin {"closing", "closed"}
                 /\ link.down = <<>> \/ link.down[Len(link.down)] # Close
<1>1. /\ worker'.phase = phase /\ worker'.chunks = w.chunks /\ worker'.replayed = w.replayed
  BY DEF Closes, closeIncoming, Worker
<1>2. ~Live'
  BY <1>1 DEF Live
<1>3. /\ link'.state = link.state /\ link'.up = link.up
      /\ \/ link'.down = link.down
         \/ /\ link'.down = Append(link.down, Close) /\ link.state \notin {"closing", "closed"}
            /\ link.down = <<>> \/ link.down[Len(link.down)] # Close
  BY DEF Closes, SendsDown, Typed, Link
<1>4. QED BY <1>1, <1>2, <1>3

\* What is only closed holds no chunk.
LEMMA HoldsNothing ==
    ASSUME NEW q \in Items, NEW a \in Nat, NEW b \in Nat, Holds(q, a, b),
           OnlyClose(q) \/ q = <<>>
    PROVE  a = b
<1>1. b - a \in Nat /\ Len(q) \in Nat
  BY DEF Holds, Items
<1>2. CASE b - a >= 1
  <2>1. 1 \in 1..Len(q) /\ q[1] = a + 1
    BY <1>1, <1>2 DEF Holds
  <2>2. q # <<>> /\ q[1] # Close
    BY <1>1, <2>1, EmptyParts DEF Close
  <2>3. QED BY <2>1, <2>2 DEF OnlyClose
<1>3. QED BY <1>1, <1>2

\* A queue that is only closed, and is not closed, is empty.
LEMMA NothingLeft ==
    ASSUME NEW q \in Items, OnlyClose(q), NoClose(q)
    PROVE  q = <<>>
<1>1. Len(q) = 0
  <2>1. Len(q) \in Nat
    BY DEF Items
  <2>2. Len(q) # 0 => 1 \in 1..Len(q)
    BY <2>1
  <2>3. QED BY <2>1, <2>2 DEF OnlyClose, NoClose
<1>2. QED BY <1>1 DEF Items

\* A list of the numbers from 1 with the next one.
LEMMA NextNumber ==
    ASSUME NEW q \in Items, \A i \in 1..Len(q) : q[i] = i
    PROVE  \A i \in 1..Len(Append(q, Len(q) + 1)) : Append(q, Len(q) + 1)[i] = i
<1>1. Len(q) \in Nat /\ Len(q) + 1 \in Item
  BY DEF Items, Item
<1>2. QED BY <1>1, AppendItem

QueueTypes ==
    /\ socket.in \in Items /\ socket.out \in Items /\ link.up \in Items /\ link.down \in Items
    /\ worker.chain \in Items /\ worker.chunks \in Items /\ object.in \in Items
    /\ object.got \in Items /\ object.out \in Items /\ public.got \in Items
    /\ public.sent \in Nat /\ object.sent \in Nat /\ worker.replayed \in Nat

LEMMA TypedQueues == Typed => QueueTypes
  BY DEF Typed, ObjectTyped, QueueTypes, Public, Socket, Link, Worker

-----------------------------------------------------------------------------
(* The way up. *)

Up(n1, n2, n3, n4) == Upload(n1, n2, n3, n4) /\ UploadEnds(n1, n4)

LEMMA SendsUp ==
    ASSUME Typed, Ends, NEW n1 \in Nat, NEW n2 \in Nat, NEW n3 \in Nat, NEW n4 \in Nat,
           Up(n1, n2, n3, n4), sends
    PROVE  Ends' /\ Up(n1, n2, n3, n4)'
<1> DEFINE q == Append(socket.in, public.sent + 1)
<1>1. /\ UNCHANGED <<link, worker, object, faults>> /\ ~public.ended
      /\ public'.sent = public.sent + 1 /\ public'.ended = public.ended
      /\ socket'.destroyed = socket.destroyed /\ socket'.out = socket.out
      /\ socket'.ended = socket.ended /\ socket'.flowing = socket.flowing
      /\ socket'.in = IF socket.destroyed THEN socket.in ELSE q
  BY DEF sends, Typed, Public, Socket
<1>2. QueueTypes /\ public.sent + 1 \in Item /\ public.sent + 1 > 0 /\ public.sent + 1 # Close
  BY TypedQueues DEF QueueTypes, Item, Close
<1>3. NoClose(q) /\ Unended(q) /\ Unended(socket.in)
  BY <1>1, <1>2, AppendParts DEF Ends, QueueTypes
<1>4. ~socket.destroyed => Holds(q, n4, public.sent + 1)
  BY <1>2, <1>3, HoldsMore DEF Up, Upload, QueueTypes
<1> HIDE DEF q
<1>5. Ends'
  BY <1>1, <1>3 DEF Ends, Live, Broken
<1>6. Upload(n1, n2, n3, n4)'
  BY <1>1, <1>2, <1>4 DEF Up, Upload, Live, Broken, QueueTypes
<1>7. UploadEnds(n1, n4)'
  BY <1>1 DEF Up, UploadEnds, Live, Broken
<1>8. QED BY <1>5, <1>6, <1>7 DEF Up

LEMMA EndsSendingUp ==
    ASSUME Typed, Ends, NEW n1 \in Nat, NEW n2 \in Nat, NEW n3 \in Nat, NEW n4 \in Nat,
           Up(n1, n2, n3, n4), endsSending
    PROVE  Ends' /\ Up(n1, n2, n3, n4)'
<1> DEFINE q == Append(socket.in, End)
<1>1. /\ UNCHANGED <<link, worker, object, faults>> /\ ~public.ended
      /\ public'.sent = public.sent /\ public'.ended
      /\ socket'.destroyed = socket.destroyed /\ socket'.out = socket.out
      /\ socket'.ended = socket.ended /\ socket'.flowing = socket.flowing
      /\ socket'.in = IF socket.destroyed THEN socket.in ELSE q
  BY DEF endsSending, Typed, Public, Socket
<1>2. QueueTypes /\ End \in Item /\ End # Close
  BY TypedQueues DEF Item, End, Close
<1>3. NoClose(q) /\ Unended(socket.in)
  BY <1>1, <1>2, AppendParts DEF Ends, QueueTypes
<1>4. ~socket.destroyed => Holds(q, n4, public.sent)
  BY <1>2, <1>3, HoldsMore DEF Up, Upload, QueueTypes
<1> HIDE DEF q
<1>5. Ends'
  BY <1>1, <1>3 DEF Ends, Live, Broken
<1>6. Upload(n1, n2, n3, n4)'
  BY <1>1, <1>2, <1>4 DEF Up, Upload, Live, Broken, QueueTypes
<1>7. UploadEnds(n1, n4)'
  BY <1>1 DEF Up, UploadEnds, Live, Broken
<1>8. QED BY <1>5, <1>6, <1>7 DEF Up

LEMMA OpensUp ==
    ASSUME Typed, Ends, NEW n1 \in Nat, NEW n2 \in Nat, NEW n3 \in Nat, NEW n4 \in Nat,
           Up(n1, n2, n3, n4), opens
    PROVE  Ends' /\ Up(n1, n2, n3, n4)'
<1> DEFINE q == Append(<<>>, End)
<1>1. /\ UNCHANGED <<public, object, faults>> /\ link.state = "connecting" /\ link'.state = "open"
      /\ link'.down = link.down /\ link'.up = IF socket.ended THEN Append(link.up, End) ELSE link.up
      /\ socket'.destroyed = socket.destroyed /\ socket'.out = socket.out
      /\ socket'.ended = socket.ended /\ socket'.in = socket.in
      /\ worker'.phase = "hello" /\ worker'.chain = worker.chain /\ worker'.closed = worker.closed
      /\ worker'.chunks = worker.chunks /\ worker'.replayed = worker.replayed
      /\ worker'.up = worker.up /\ worker'.down = worker.down
  BY DEF opens, Sent, Typed, Link, Socket, Worker
<1>2. /\ link.up = <<>> /\ worker.phase = "none" /\ ~worker.closed /\ worker.chain = <<>>
      /\ ~socket.destroyed
  BY <1>1 DEF Ends
<1>0. End \in Item /\ End # Close
  BY DEF Item, End, Close
<1>3. NoClose(q) /\ NoClose(<<>>) /\ Unended(<<>>)
  BY <1>0, EmptyParts, AppendParts
<1>4. link'.up = IF socket.ended THEN q ELSE <<>>
  BY <1>1, <1>2
<1>5. Holds(<<>>, n3, n4) => Holds(q, n3, n4)
  BY EmptyParts, HoldsMore
<1> HIDE DEF q
<1>6. Ends'
  BY <1>1, <1>2, <1>3, <1>4 DEF Ends, Live, Broken
<1>7. Upload(n1, n2, n3, n4)'
  BY <1>1, <1>2, <1>4, <1>5 DEF Up, Upload, Live, Broken
<1>8. UploadEnds(n1, n4)'
  BY <1>1, <1>2 DEF Up, UploadEnds, Live, Broken
<1>9. QED BY <1>6, <1>7, <1>8 DEF Up

LEMMA OnDataUp ==
    ASSUME Typed, Ends, NEW n1 \in Nat, NEW n2 \in Nat, NEW n3 \in Nat, NEW n4 \in Nat,
           Up(n1, n2, n3, n4), onData
    PROVE  Ends' /\ Up(n1, n2, n3, n4 + 1)'
<1> DEFINE q == Append(link.up, Head(socket.in))
           r == Tail(socket.in)
<1>1. socket.in # <<>> /\ Head(socket.in) > 0 /\ socket.flowing /\ QueueTypes
  BY TypedQueues DEF onData
<1>2. ~socket.destroyed /\ ~socket.ended /\ link.state = "open" /\ Unended(link.up)
  BY <1>1 DEF Ends, Typed, Link
<1>3. /\ UNCHANGED <<public, worker, object, faults>> /\ link'.state = "open"
      /\ link'.down = link.down /\ link'.up = q
      /\ socket'.destroyed = socket.destroyed /\ socket'.out = socket.out
      /\ socket'.ended = socket.ended /\ socket'.in = r /\ socket'.flowing = socket.flowing
  BY <1>2 DEF onData, Sent, Typed, Link, Socket
<1>4. Head(socket.in) \in Item /\ Head(socket.in) # Close
  BY <1>1, TailItems DEF QueueTypes, Close
<1>5. Unended(q) /\ NoClose(q) /\ NoClose(r) /\ (~public.ended => Unended(r))
  BY <1>1, <1>2, <1>4, AppendParts, TailParts, KindsApart DEF Ends, QueueTypes
<1>6. Head(socket.in) = n4 + 1 /\ n4 + 1 <= public.sent /\ Holds(r, n4 + 1, public.sent)
  BY <1>1, <1>2, HoldsTake DEF Up, Upload, QueueTypes
<1>7. Holds(q, n3, n4 + 1)
  BY <1>1, <1>2, <1>6, HoldsMore DEF Up, Upload, QueueTypes
<1> HIDE DEF q, r
<1>8. Ends'
  BY <1>2, <1>3, <1>5 DEF Ends, Live, Broken
<1>9. Upload(n1, n2, n3, n4 + 1)'
  BY <1>2, <1>3, <1>6, <1>7 DEF Up, Upload, Live, Broken
<1>10. UploadEnds(n1, n4 + 1)'
  BY <1>2, <1>3 DEF Up, UploadEnds, Live, Broken
<1>11. QED BY <1>8, <1>9, <1>10 DEF Up

LEMMA OnEndUp ==
    ASSUME Typed, Ends, NEW n1 \in Nat, NEW n2 \in Nat, NEW n3 \in Nat, NEW n4 \in Nat,
           Up(n1, n2, n3, n4), onEnd
    PROVE  Ends' /\ Up(n1, n2, n3, n4)'
<1> DEFINE l == Sent(link, End)
           q == Append(link.up, End)
           r == Append(q, Close)
<1>1. socket.in # <<>> /\ Head(socket.in) = End /\ QueueTypes /\ End \in Item /\ End # Close
      /\ UNCHANGED <<worker, object, faults>>
  BY TypedQueues DEF onEnd, Item, End, Close
<1>2. ~socket.destroyed /\ ~socket.ended /\ Unended(link.up) /\ link.state \in {"connecting", "open"}
  BY <1>1 DEF Ends, Typed, Link
<1>3. /\ l \in Link /\ l.state = link.state /\ l.down = link.down
      /\ l.up = IF link.state = "open" THEN q ELSE link.up
  BY <1>1, SentType DEF Sent, Typed, Link
<1>4. /\ n4 = public.sent /\ Tail(socket.in) = <<>> /\ public.ended
  <2>1. HasEnd(socket.in) /\ NoClose(Tail(socket.in)) /\ Tail(socket.in) \in Items
    BY <1>1, TailParts, TailItems DEF Ends, QueueTypes
  <2>2. OnlyClose(Tail(socket.in)) /\ n4 = public.sent
    BY <1>1, <1>2, HoldsTake DEF Up, Upload, QueueTypes, End
  <2>3. QED BY <1>1, <2>1, <2>2, NothingLeft, KindsApart DEF Ends, QueueTypes
<1>5. NoClose(q) /\ q \in Items /\ Holds(q, n3, n4) /\ Holds(r, n3, n4)
  <2>1. NoClose(q) /\ q \in Items /\ Holds(q, n3, n4)
    BY <1>1, <1>2, AppendParts, AppendItem, HoldsMore, KindsApart DEF Up, Upload, QueueTypes
  <2>2. QED BY <2>1, HoldsClose
<1>6. /\ public'.sent = public.sent /\ public'.ended /\ socket'.in = <<>> /\ socket'.out \in {<<>>, socket.out}
      /\ link'.down = link.down
      /\ \/ /\ socket'.destroyed /\ socket'.out = <<>> /\ link'.state \in {"closing", "closed"}
            /\ link'.up = IF link.state = "open" THEN r ELSE link.up
         \/ /\ ~socket'.destroyed /\ socket'.ended /\ link'.state = link.state
            /\ socket'.flowing = socket.flowing
            /\ link'.up = IF link.state = "open" THEN q ELSE link.up
      /\ socket'.ended => public'.ended
  <2>1. CASE Destroys(public, l)
    <3>1. public \in Public
      BY DEF Typed
    <3> HIDE DEF l
    <3>2. QED BY <1>2, <1>3, <1>4, <2>1, <3>1, DestroysFields
  <2>2. CASE /\ socket' = [socket EXCEPT !.in = Tail(@), !.ended = TRUE]
             /\ link' = l /\ UNCHANGED public
    <3> HIDE DEF l
    <3>1. QED BY <1>2, <1>3, <1>4, <2>2 DEF Typed, Socket
  <2>3. QED BY <2>1, <2>2 DEF onEnd
<1>7. NoClose(<<>>)
  BY EmptyParts
<1> HIDE DEF l, q, r
<1>8. Ends'
  BY <1>1, <1>2, <1>4, <1>5, <1>6, <1>7 DEF Ends, Live, Broken
<1>9. Upload(n1, n2, n3, n4)'
  <2>1. Holds(link.up, n3, n4)' /\ Holds(<<>>, n4, public.sent)
    BY <1>4, <1>5, <1>6, EmptyParts, TypedQueues DEF Up, Upload, QueueTypes
  <2>2. QED BY <1>1, <1>2, <1>6, <2>1 DEF Up, Upload, Live, Broken
<1>10. UploadEnds(n1, n4)'
  BY <1>1, <1>4, <1>6 DEF Up, UploadEnds, Live, Broken
<1>11. QED BY <1>8, <1>9, <1>10 DEF Up

\* The socket is destroyed, and with it what the client sent and the relay has not.
LEMMA DestroyedUp ==
    ASSUME Typed, Ends, NEW n1 \in Nat, NEW n2 \in Nat, NEW n3 \in Nat, NEW n4 \in Nat,
           Up(n1, n2, n3, n4), NEW c \in Nat, NEW p \in Public, NEW l \in Link, Destroys(p, l),
           p.sent = public.sent, p.ended = public.ended, UNCHANGED <<input, worker, object>>,
           Holds(link.up, n3, c)', c <= public.sent,
           worker.phase = "none" => link'.up = <<>>,
           Live /\ worker.closed => OnlyClose(link.up)',
           faults' = 0 => faults = 0 /\ (Live => public.ended /\ c = public.sent)
    PROVE  Ends' /\ Up(n1, n2, n3, c)'
<1>1. /\ socket'.destroyed /\ socket'.in = <<>> /\ socket'.out = <<>> /\ socket'.ended = socket.ended
      /\ public'.sent = public.sent /\ public'.ended = public.ended
      /\ link'.state \in {"closing", "closed"}
  BY DestroysFields
<1>2. NoClose(<<>>) /\ Unended(<<>>)
  BY EmptyParts
<1>3. Ends'
  BY <1>1, <1>2 DEF Ends, Live, Broken
<1>4. Upload(n1, n2, n3, c)'
  BY <1>1 DEF Up, Upload, Live, Broken
<1>5. UploadEnds(n1, c)'
  BY <1>1 DEF Up, UploadEnds, Live, Broken
<1>6. QED BY <1>3, <1>4, <1>5 DEF Up

\* The worker closes the connection, and perhaps what it gives to the object.
LEMMA ClosesUp ==
    ASSUME Typed, Ends, NEW n1 \in Nat, NEW n2 \in Nat, NEW n3 \in Nat, NEW n4 \in Nat,
           Up(n1, n2, n3, n4), NEW w \in Worker, NEW phase \in {"rejected", "closed"},
           Closes(w, phase), Live, worker.phase # "none", worker.phase = "hello" \/ phase = "closed",
           UNCHANGED <<input, public, socket>>, faults' = 0 => faults = 0,
           \A i \in 1..Len(w.chunks) : w.chunks[i] = i,
           Len(w.chunks) <= public.sent,
           object.state = "reading" => w = worker /\ worker.phase = "piping",
           \/ object' = object
           \/ object' = [object EXCEPT !.in = Append(@, Close)] /\ ~Broken /\ worker.phase = "piping"
    PROVE  Ends' /\ Up(n1, n2, n3, n4)'
<1> DEFINE q == Append(object.in, Close)
<1>1. /\ ~Live' /\ worker'.phase = phase /\ worker'.chunks = w.chunks
      /\ link'.state = link.state /\ link'.up = link.up
  BY ClosesFields
<1>2. /\ object'.state = object.state /\ object'.up = object.up /\ object'.got = object.got
      /\ \/ object'.in = object.in
         \/ object'.in = q /\ ~Broken /\ object.state # "none"
  BY DEF Typed, ObjectTyped, Ends
<1>3. link.state # "connecting"
  BY DEF Ends
<1>4. QueueTypes /\ Close \in Item /\ End # Close
  BY TypedQueues DEF Item, Close, End
<1>5. /\ Holds(q, Len(object.got), n1) /\ (OnlyClose(object.in) => OnlyClose(q))
      /\ (HasEnd(q) => HasEnd(object.in))
  <2>1. /\ object.in \in Items /\ Len(object.got) \in Nat /\ NoClose(object.in)
        /\ Holds(object.in, Len(object.got), n1)
    BY <1>4 DEF Up, Upload, Ends, QueueTypes, Items
  <2>2. Holds(q, Len(object.got), n1)
    BY <2>1, HoldsClose
  <2>3. (OnlyClose(object.in) => OnlyClose(q)) /\ (HasEnd(q) => HasEnd(object.in))
    BY <1>4, <2>1, AppendParts
  <2>4. QED BY <2>2, <2>3
<1> HIDE DEF q
<1>6. Ends'
  BY <1>1, <1>2, <1>3, <1>5 DEF Ends, Live, Broken
<1>7. Upload(n1, n2, n3, n4)'
  BY <1>1, <1>2, <1>5 DEF Up, Upload, Live, Broken
<1>8. UploadEnds(n1, n4)'
  BY <1>1, <1>2, <1>5 DEF Up, UploadEnds, Live, Broken
<1>9. QED BY <1>6, <1>7, <1>8 DEF Up

LEMMA OnMessageUp ==
    ASSUME Typed, Ends, NEW n1 \in Nat, NEW n2 \in Nat, NEW n3 \in Nat, NEW n4 \in Nat,
           Up(n1, n2, n3, n4), faults = 0 /\ Live => NoClose(link.down), onMessage
    PROVE  Ends' /\ Up(n1, n2, n3, n4)'
<1> DEFINE l == [link EXCEPT !.down = Tail(@), !.state = "closed"]
<1>1. link.down # <<>> /\ UNCHANGED <<input, worker, object, faults>> /\ QueueTypes
      /\ public \in Public /\ link.state # "connecting"
  BY TypedQueues DEF onMessage, Typed, Ends
<1>2. CASE Head(link.down) = Close
  <2>1. Destroys(public, l)
    BY <1>1, <1>2 DEF onMessage
  <2>2. l \in Link /\ l.state = "closed" /\ l.up = link.up
    BY <1>1, TailItems DEF Typed, Link, QueueTypes
  <2> HIDE DEF l
  <2>3. link'.up = link.up
    BY <1>1, <2>1, <2>2, DestroysFields
  <2>4. ~(faults = 0 /\ Live)
    BY <1>1, <1>2, TailParts DEF QueueTypes
  <2>5. /\ Holds(link.up, n3, n4) /\ n4 <= public.sent /\ (Live /\ worker.closed => OnlyClose(link.up))
        /\ worker.phase = "none" => link.up = <<>>
    BY DEF Ends, Up, Upload
  <2>6. QED BY <1>1, <2>1, <2>2, <2>3, <2>4, <2>5, DestroyedUp
<1>3. CASE Head(link.down) # Close
  <2>1. /\ UNCHANGED public /\ link'.state = link.state /\ link'.up = link.up
        /\ socket'.destroyed = socket.destroyed /\ socket'.in = socket.in
        /\ socket'.ended = socket.ended /\ socket'.flowing = socket.flowing
        /\ (socket.destroyed => socket'.out = socket.out)
    BY <1>1, <1>3 DEF onMessage, Typed, Link, Socket
  <2>2. Ends'
    BY <1>1, <2>1 DEF Ends, Live, Broken
  <2>3. Up(n1, n2, n3, n4)'
    BY <1>1, <2>1 DEF Up, Upload, UploadEnds, Live, Broken
  <2>4. QED BY <2>2, <2>3
<1>4. QED BY <1>2, <1>3

LEMMA WritesUp ==
    ASSUME Typed, Ends, NEW n1 \in Nat, NEW n2 \in Nat, NEW n3 \in Nat, NEW n4 \in Nat,
           Up(n1, n2, n3, n4), writes
    PROVE  Ends' /\ Up(n1, n2, n3, n4)'
<1> DEFINE told == [public EXCEPT !.saw = "end"]
           q == Append(link.up, Close)
<1>1. socket.out # <<>> /\ UNCHANGED <<input, worker, object, faults>> /\ QueueTypes
      /\ Close \in Item
  BY TypedQueues DEF writes, Item
<1>2. ~socket.destroyed /\ NoClose(link.up) /\ link.state \in {"connecting", "open"}
  BY <1>1 DEF Ends, Typed, Link
<1>3. CASE ~(Head(socket.out) > 0) /\ socket.ended
  <2>1. Destroys(told, link) /\ told \in Public /\ link \in Link
        /\ told.sent = public.sent /\ told.ended = public.ended
    BY <1>3 DEF writes, Typed, Public
  <2> HIDE DEF told
  <2>2. link'.up = IF link.state = "open" THEN q ELSE link.up
    BY <2>1, DestroysFields
  <2>3. Holds(q, n3, n4) /\ Holds(link.up, n3, n4) /\ n4 <= public.sent
        /\ (OnlyClose(link.up) => OnlyClose(q))
    BY <1>1, <1>2, HoldsClose, AppendParts DEF Up, Upload, QueueTypes
  <2> HIDE DEF q
  <2>4. Holds(link.up, n3, n4)' /\ (Live /\ worker.closed => OnlyClose(link.up)')
        /\ (worker.phase = "none" => link'.up = <<>>)
    BY <2>2, <2>3 DEF Ends
  <2>5. faults' = 0 => faults = 0 /\ (Live => public.ended /\ n4 = public.sent)
    BY <1>1, <1>3 DEF Up, UploadEnds
  <2>6. QED BY <1>1, <2>1, <2>3, <2>4, <2>5, DestroyedUp
<1>4. CASE Head(socket.out) > 0 \/ ~socket.ended
  <2>1. /\ UNCHANGED link /\ public'.sent = public.sent /\ public'.ended = public.ended
        /\ socket'.destroyed = socket.destroyed /\ socket'.in = socket.in
        /\ socket'.ended = socket.ended /\ socket'.flowing = socket.flowing
    BY <1>4 DEF writes, Typed, Public, Socket
  <2>2. Ends'
    BY <1>1, <1>2, <2>1 DEF Ends, Live, Broken
  <2>3. Up(n1, n2, n3, n4)'
    BY <1>1, <2>1 DEF Up, Upload, UploadEnds, Live, Broken
  <2>4. QED BY <2>2, <2>3
<1>5. QED BY <1>3, <1>4

LEMMA ReceivedUp ==
    ASSUME Typed, Ends, NEW n1 \in Nat, NEW n2 \in Nat, NEW n3 \in Nat, NEW n4 \in Nat,
           Up(n1, n2, n3, n4), received
    PROVE  Ends' /\ \E c \in Nat : Up(n1, n2, c, n4)'
<1> DEFINE item == Head(link.up)
           r == Tail(link.up)
           q == Append(worker.chain, item)
           e == Append(worker.chain, End)
<1>1. link.up # <<>> /\ UNCHANGED <<input, public, socket, object, faults>> /\ QueueTypes
      /\ End \in Item /\ Close \in Item /\ End # Close
  BY TypedQueues DEF received, Item, End, Close
<1>2. /\ worker'.phase = worker.phase /\ worker'.chunks = worker.chunks
      /\ worker'.replayed = worker.replayed /\ worker'.up = worker.up /\ worker'.down = worker.down
      /\ link'.up = r /\ link'.state = link.state /\ link'.down = link.down
  BY DEF received, closeIncoming, Typed, Worker, Link
<1>3. /\ link.state # "connecting" /\ worker.phase # "none"
      /\ Holds(link.up, n3, n4) /\ (Live => Holds(worker.chain, n2, n3))
  BY <1>1 DEF Ends, Up, Upload
<1>4. /\ item \in Item /\ r \in Items /\ (NoClose(link.up) => NoClose(r))
      /\ (Unended(link.up) => Unended(r) /\ item > 0) /\ (OnlyClose(link.up) => OnlyClose(r) /\ item = Close)
  BY <1>1, TailItems, TailParts DEF QueueTypes
<1>5. /\ item > 0 => item = n3 + 1 /\ n3 + 1 <= n4 /\ Holds(r, n3 + 1, n4)
      /\ item <= 0 => n3 = n4 /\ Holds(r, n3, n4) /\ item \in {End, Close}
      /\ item = End => OnlyClose(r)
      /\ item = Close => r = <<>>
  BY <1>1, <1>3, HoldsTake DEF QueueTypes
<1>6. CASE item > 0
  <2>1. worker' = [worker EXCEPT !.chain = q]
    BY <1>6 DEF received
  <2>2. worker'.chain = q /\ worker'.closed = worker.closed
    BY <2>1 DEF Typed, Worker
  <2>3. Live => ~worker.closed /\ Unended(worker.chain) /\ worker.up # "done"
    BY <1>4, <1>6 DEF Ends, Close
  <2>4. Live => Unended(q) /\ NoClose(q) /\ Holds(q, n2, n3 + 1)
    <3>1. Unended(worker.chain) => Unended(q) /\ NoClose(q)
      BY <1>1, <1>4, <1>6, AppendParts, AppendItem, KindsApart DEF QueueTypes
    <3>2. Live => Holds(q, n2, n3 + 1)
      BY <1>1, <1>3, <1>5, <1>6, <2>3, HoldsMore DEF QueueTypes
    <3>3. QED BY <2>3, <3>1, <3>2
  <2> HIDE DEF item, r, q, e
  <2>5. Ends'
    BY <1>1, <1>2, <1>3, <1>4, <2>2, <2>3, <2>4 DEF Ends, Live, Broken
  <2>6. Upload(n1, n2, n3 + 1, n4)'
    BY <1>1, <1>2, <1>5, <1>6, <2>2, <2>4 DEF Up, Upload, Live, Broken
  <2>7. UploadEnds(n1, n4)'
    BY <1>1, <1>2 DEF Up, UploadEnds, Live, Broken
  <2>8. n3 + 1 \in Nat
    OBVIOUS
  <2>9. QED BY <2>5, <2>6, <2>7, <2>8 DEF Up
<1>7. CASE ~(item > 0)
  <2>1. worker' = closeIncoming(worker) /\ item <= 0
    BY <1>4, <1>7 DEF received, Item, Close
  <2>2. worker'.closed /\ worker'.chain = IF worker.closed THEN worker.chain ELSE e
    BY <2>1 DEF closeIncoming, Typed, Worker
  <2>3. Live => ~Unended(link.up) \/ worker.closed
    BY <1>4, <1>7 DEF Ends
  <2>4. Live => OnlyClose(r)
    BY <1>4, <1>5, <2>1, EmptyParts DEF Ends
  <2>5. Live => NoClose(worker'.chain) /\ Holds(worker'.chain, n2, n3)
    <3>1. ASSUME Live, ~worker.closed
          PROVE  NoClose(e) /\ Holds(e, n2, n3)
      <4>1. NoClose(worker.chain) /\ Unended(worker.chain)
        BY <3>1 DEF Ends
      <4>2. QED BY <1>1, <1>3, <3>1, <4>1, AppendParts, HoldsMore DEF QueueTypes
    <3> HIDE DEF e
    <3>2. QED BY <1>3, <2>2, <3>1 DEF Ends
  <2>6. Live /\ worker.up = "done" => worker.chain = <<>> /\ worker.closed
    BY DEF Ends
  <2> HIDE DEF item, r, q, e
  <2>7. Ends'
    <3>1. Live' <=> Live
      BY <1>2 DEF Live
    <3>2. ~socket.destroyed /\ ~socket.ended => ~Live
      BY <1>4, <1>7 DEF Ends
    <3>3. QED BY <1>1, <1>2, <1>3, <1>4, <2>2, <2>4, <2>5, <2>6, <3>1, <3>2 DEF Ends, Broken
  <2>8. Upload(n1, n2, n3, n4)'
    BY <1>1, <1>2, <1>5, <2>1, <2>5 DEF Up, Upload, Live, Broken
  <2>9. UploadEnds(n1, n4)'
    BY <1>1, <1>2 DEF Up, UploadEnds, Live, Broken
  <2>10. QED BY <2>7, <2>8, <2>9 DEF Up
<1>8. QED BY <1>6, <1>7

LEMMA ReadHelloUp ==
    ASSUME Typed, Ends, NEW n1 \in Nat, NEW n2 \in Nat, NEW n3 \in Nat, NEW n4 \in Nat,
           Up(n1, n2, n3, n4), readHello
    PROVE  Ends' /\ \E c \in Nat : Up(n1, c, n3, n4)'
<1> DEFINE item == Head(worker.chain)
           r == Tail(worker.chain)
           q == Append(worker.chunks, item)
           read == [worker EXCEPT !.chain = Tail(@), !.chunks = Append(@, item)]
<1>1. /\ worker.phase = "hello" /\ worker.chain # <<>> /\ QueueTypes
      /\ UNCHANGED <<input, public, socket, faults>> /\ Live /\ object.state = "none" /\ ~Broken
      /\ End \in Item /\ Close \in Item /\ End # Close
  BY TypedQueues DEF readHello, Item, End, Close, Live, Ends, Broken
<1>2. /\ item \in Item /\ r \in Items /\ item # Close /\ NoClose(r)
      /\ ~worker.closed => Unended(r)
  BY <1>1, TailItems, TailParts DEF QueueTypes, Ends
<1>3. /\ item > 0 => item = n2 + 1 /\ n2 + 1 <= n3 /\ Holds(r, n2 + 1, n3)
      /\ n2 = Len(worker.chunks) /\ n3 <= n4 /\ n4 <= public.sent
  <2>1. Holds(worker.chain, n2, n3) /\ n2 = Len(worker.chunks) /\ Holds(link.up, n3, n4) /\ n4 <= public.sent
    BY <1>1 DEF Up, Upload
  <2>2. n3 <= n4
    BY <2>1 DEF Holds
  <2>3. QED BY <1>1, <2>1, <2>2, HoldsTake DEF QueueTypes
<1>4. CASE item = End
  <2>1. Closes(worker, "closed") /\ UNCHANGED object /\ worker \in Worker
    BY <1>4 DEF readHello, Typed
  <2>2. Len(worker.chunks) <= public.sent /\ \A i \in 1..Len(worker.chunks) : worker.chunks[i] = i
    BY DEF Up, Upload
  <2> HIDE DEF item, r, q, read
  <2>3. QED BY <1>1, <2>1, <2>2, ClosesUp
<1>5. CASE item # End
  <2>1. item > 0 /\ item = Len(worker.chunks) + 1
    BY <1>2, <1>3, <1>5 DEF Item, End, Close
  <2>2. /\ q \in Items /\ Len(q) = n2 + 1 /\ \A i \in 1..Len(q) : q[i] = i
    <3>1. \A i \in 1..Len(worker.chunks) : worker.chunks[i] = i
      BY DEF Up, Upload
    <3> HIDE DEF item
    <3>2. q \in Items /\ Len(q) = n2 + 1
      BY <1>1, <1>2, <1>3, AppendItem DEF QueueTypes
    <3>3. QED BY <1>1, <2>1, <3>1, <3>2, NextNumber DEF QueueTypes
  <2>3. /\ read \in Worker /\ read.chain = r /\ read.chunks = q /\ read.phase = "hello"
        /\ read.replayed = worker.replayed /\ read.up = worker.up /\ read.down = worker.down
        /\ read.closed = worker.closed
    BY <1>1, <1>2, <2>2 DEF Typed, Worker
  <2>4. CASE Closes(read, "rejected") /\ UNCHANGED object
    <3>1. Len(read.chunks) <= public.sent /\ \A i \in 1..Len(read.chunks) : read.chunks[i] = i
      BY <1>1, <1>3, <2>1, <2>2, <2>3 DEF QueueTypes
    <3> HIDE DEF item, r, q, read
    <3>2. QED BY <1>1, <2>3, <2>4, <3>1, ClosesUp
  <2>5. CASE /\ worker' = read \/ worker' = [read EXCEPT !.phase = "opening"]
             /\ object' = object \/ \E id \in {tunnelIDFromHostname(Parsed[input][Size(Len(read.chunks))].serverName)} :
                                        object' = [object EXCEPT !.id = id]
             /\ UNCHANGED link
    <3>1. /\ worker'.phase \in {"hello", "opening"} /\ worker'.chain = r /\ worker'.chunks = q
          /\ worker'.closed = worker.closed /\ worker'.replayed = worker.replayed
          /\ worker'.up = worker.up /\ worker'.down = worker.down
      BY <2>3, <2>5 DEF Worker
    <3>2. /\ object'.state = object.state /\ object'.in = object.in /\ object'.got = object.got
          /\ object'.up = object.up
      <4> HIDE DEF item, r, q, read
      <4>1. QED BY <2>5 DEF Typed, ObjectTyped
    <3>3. n2 + 1 \in Nat /\ n2 + 1 <= public.sent /\ UNCHANGED link
      BY <1>1, <1>3, <2>1, <2>5 DEF QueueTypes
    <3> HIDE DEF item, r, q, read
    <3>4. Ends'
      BY <1>1, <1>2, <3>1, <3>2, <3>3 DEF Ends, Live, Broken
    <3>5. Upload(n1, n2 + 1, n3, n4)'
      BY <1>1, <1>3, <2>1, <2>2, <3>1, <3>2, <3>3 DEF Up, Upload, Live, Broken
    <3>6. UploadEnds(n1, n4)'
      BY <1>1, <3>1, <3>2, <3>3 DEF Up, UploadEnds, Live, Broken
    <3>7. QED BY <3>3, <3>4, <3>5, <3>6 DEF Up
  <2>6. QED BY <1>5, <2>4, <2>5 DEF readHello
<1>6. QED BY <1>4, <1>5

LEMMA ClosingUp ==
    ASSUME Typed, Ends, NEW n1 \in Nat, NEW n2 \in Nat, NEW n3 \in Nat, NEW n4 \in Nat,
           Up(n1, n2, n3, n4), timesOut \/ openFails \/ closesBoth
    PROVE  Ends' /\ Up(n1, n2, n3, n4)'
<1>1. Len(worker.chunks) <= public.sent /\ \A i \in 1..Len(worker.chunks) : worker.chunks[i] = i
  BY DEF Up, Upload
<1>2. worker \in Worker /\ Closes(worker, "closed") /\ Live /\ worker.phase # "none"
      /\ UNCHANGED <<input, public, socket>>
  BY DEF timesOut, openFails, closesBoth, Typed, Live
<1>3. faults' = 0 => faults = 0
  BY DEF timesOut, openFails, closesBoth, Fault, Typed
<1>4. \/ object' = object
      \/ object' = [object EXCEPT !.in = Append(@, Close)] /\ ~Broken /\ worker.phase = "piping"
  <2>1. [object EXCEPT !.in = @] = object
    BY DEF Typed, ObjectTyped
  <2>2. QED BY <2>1 DEF timesOut, openFails, closesBoth
<1>5. object.state = "reading" => worker.phase = "piping"
  BY DEF timesOut, openFails, closesBoth, Ends
<1>6. QED BY <1>1, <1>2, <1>3, <1>4, <1>5, ClosesUp

LEMMA OpenedUp ==
    ASSUME Typed, Ends, NEW n1 \in Nat, NEW n2 \in Nat, NEW n3 \in Nat, NEW n4 \in Nat,
           Up(n1, n2, n3, n4), opened
    PROVE  Ends' /\ Up(n1, n2, n3, n4)'
<1>1. /\ UNCHANGED <<input, public, socket, link, faults>> /\ worker.phase = "opening"
      /\ worker'.phase = "replay" /\ worker'.chain = worker.chain /\ worker'.chunks = worker.chunks
      /\ worker'.closed = worker.closed /\ worker'.replayed = worker.replayed
      /\ worker'.up = worker.up /\ worker'.down = worker.down
      /\ object'.state = "reading" /\ object'.in = object.in /\ object'.got = object.got
      /\ object'.up = object.up
  BY DEF opened, Typed, ObjectTyped, Worker
<1>2. object.state = "none"
  BY <1>1 DEF Ends
<1>3. Ends'
  BY <1>1, <1>2 DEF Ends, Live, Broken
<1>4. Upload(n1, n2, n3, n4)'
  BY <1>1, <1>2 DEF Up, Upload, Live, Broken
<1>5. UploadEnds(n1, n4)'
  BY <1>1, <1>2 DEF Up, UploadEnds, Live, Broken, Ends
<1>6. QED BY <1>3, <1>4, <1>5 DEF Up

LEMMA ReplayUp ==
    ASSUME Typed, Ends, NEW n1 \in Nat, NEW n2 \in Nat, NEW n3 \in Nat, NEW n4 \in Nat,
           Up(n1, n2, n3, n4), replay
    PROVE  Ends' /\ \E c \in Nat : Up(c, n2, n3, n4)'
<1> DEFINE x == worker.chunks[worker.replayed + 1]
           q == Append(object.in, x)
<1>1. /\ worker.phase = "replay" /\ UNCHANGED <<input, public, socket, faults>> /\ Live
      /\ QueueTypes /\ worker.replayed <= Len(worker.chunks) /\ n2 = Len(worker.chunks)
      /\ worker.up = "running" /\ worker.down = "running" /\ object.state # "none" /\ worker \in Worker
  BY TypedQueues DEF replay, Live, Typed, Ends, Up, Upload
<1>2. Len(worker.chunks) <= public.sent /\ \A i \in 1..Len(worker.chunks) : worker.chunks[i] = i
  BY DEF Up, Upload
<1>3. ~Broken => n1 = worker.replayed
  BY <1>1 DEF Up, Upload
<1>4. CASE worker.replayed = Len(worker.chunks)
  <2>1. /\ UNCHANGED <<link, object>> /\ worker'.phase = "piping" /\ worker'.chain = worker.chain
        /\ worker'.chunks = worker.chunks /\ worker'.closed = worker.closed
        /\ worker'.replayed = worker.replayed /\ worker'.up = worker.up /\ worker'.down = worker.down
    BY <1>4 DEF replay, Typed, Worker
  <2>2. Ends'
    BY <1>1, <2>1 DEF Ends, Live, Broken
  <2>3. Upload(n1, n2, n3, n4)'
    BY <1>1, <1>3, <1>4, <2>1 DEF Up, Upload, Live, Broken
  <2>4. UploadEnds(n1, n4)'
    BY <1>1, <2>1 DEF Up, UploadEnds, Live, Broken
  <2>5. QED BY <2>2, <2>3, <2>4 DEF Up
<1>5. CASE worker.replayed # Len(worker.chunks) /\ Broken
  <2>1. Closes(worker, "closed") /\ UNCHANGED object
    BY <1>5 DEF replay
  <2>2. object.state # "reading"
    BY <1>5 DEF Broken
  <2>3. QED BY <1>1, <1>2, <2>1, <2>2, ClosesUp
<1>6. CASE worker.replayed # Len(worker.chunks) /\ ~Broken
  <2>1. /\ UNCHANGED link /\ worker'.phase = worker.phase /\ worker'.chain = worker.chain
        /\ worker'.chunks = worker.chunks /\ worker'.closed = worker.closed
        /\ worker'.replayed = worker.replayed + 1 /\ worker'.up = worker.up /\ worker'.down = worker.down
        /\ object'.in = q /\ object'.state = object.state /\ object'.got = object.got
        /\ object'.up = object.up
    BY <1>6 DEF replay, Typed, Worker, ObjectTyped
  <2>2. n1 = worker.replayed /\ n1 + 1 \in Nat /\ n1 + 1 <= public.sent /\ x = n1 + 1
    <3>1. Len(worker.chunks) \in Nat /\ worker.replayed \in Nat /\ public.sent \in Nat
      BY <1>1 DEF QueueTypes, Items
    <3>2. n1 = worker.replayed /\ n1 + 1 \in 1..Len(worker.chunks)
      BY <1>1, <1>3, <1>6, <3>1
    <3>3. QED BY <1>2, <3>1, <3>2
  <2>3. x \in Item /\ x > 0 /\ x # Close
    BY <2>2 DEF Item, Close
  <2>4. Unended(object.in) /\ ~HasEnd(object.in)
    BY <1>1, KindsApart DEF Ends, QueueTypes
  <2>5. Unended(q) /\ NoClose(q) /\ ~HasEnd(q)
    BY <1>1, <2>3, <2>4, AppendParts, AppendItem, KindsApart DEF QueueTypes
  <2>6. Holds(q, Len(object.got), n1 + 1)
    <3>1. Len(object.got) \in Nat /\ Holds(object.in, Len(object.got), n1)
      BY <1>1 DEF QueueTypes, Items, Up, Upload
    <3>2. QED BY <1>1, <2>2, <2>4, <3>1, HoldsMore DEF QueueTypes
  <2>7. object.up # "ended"
    BY <1>1 DEF Ends
  <2> HIDE DEF x, q
  <2>8. Ends'
    BY <1>1, <1>6, <2>1, <2>5, <2>7 DEF Ends, Live, Broken
  <2>9. Upload(n1 + 1, n2, n3, n4)'
    BY <1>1, <1>6, <2>1, <2>2, <2>6 DEF Up, Upload, Live, Broken
  <2>10. UploadEnds(n1 + 1, n4)'
    BY <1>1, <2>1, <2>5, <2>7 DEF Up, UploadEnds, Live, Broken
  <2>11. QED BY <2>2, <2>8, <2>9, <2>10 DEF Up
<1>7. QED BY <1>4, <1>5, <1>6

LEMMA PipesUpUp ==
    ASSUME Typed, Ends, NEW n1 \in Nat, NEW n2 \in Nat, NEW n3 \in Nat, NEW n4 \in Nat,
           Up(n1, n2, n3, n4), pipesUp
    PROVE  Ends' /\ \E c, d \in Nat : Up(c, d, n3, n4)'
<1> DEFINE item == Head(worker.chain)
           r == Tail(worker.chain)
           q == Append(object.in, item)
<1>1. /\ worker.phase = "piping" /\ worker.up = "running" /\ QueueTypes /\ Live
      /\ UNCHANGED <<input, public, socket, link, faults>> /\ object.state # "none"
      /\ End \in Item /\ Close \in Item /\ End # Close
  BY TypedQueues DEF pipesUp, Item, End, Close, Live, Ends
<1>2. CASE Broken
  <2>1. /\ UNCHANGED object /\ worker'.phase = worker.phase /\ worker'.chain = worker.chain
        /\ worker'.chunks = worker.chunks /\ worker'.closed = worker.closed
        /\ worker'.replayed = worker.replayed /\ worker'.up = "failed" /\ worker'.down = worker.down
    BY <1>2 DEF pipesUp, Typed, Worker
  <2>2. Ends'
    BY <1>1, <1>2, <2>1 DEF Ends, Live, Broken
  <2>3. Upload(n1, n2, n3, n4)'
    BY <1>1, <1>2, <2>1 DEF Up, Upload, Live, Broken
  <2>4. UploadEnds(n1, n4)'
    BY <1>1, <1>2, <2>1 DEF Up, UploadEnds, Live, Broken
  <2>5. QED BY <2>2, <2>3, <2>4 DEF Up
<1>3. CASE ~Broken
  <2>1. worker.chain # <<>> /\ object.up # "ended"
    BY <1>1, <1>3 DEF pipesUp, Ends
  <2>2. /\ worker'.phase = worker.phase /\ worker'.chain = r
        /\ worker'.chunks = worker.chunks /\ worker'.closed = worker.closed
        /\ worker'.replayed = worker.replayed /\ worker'.down = worker.down
        /\ worker'.up = IF item = End THEN "done" ELSE "running"
        /\ object'.in = q /\ object'.state = object.state /\ object'.got = object.got
        /\ object'.up = object.up
    BY <1>1, <1>3 DEF pipesUp, Typed, Worker, ObjectTyped
  <2>3. /\ Unended(object.in) /\ ~HasEnd(object.in) /\ NoClose(worker.chain) /\ Len(object.got) \in Nat
        /\ object.in \in Items
    <3>1. Len(object.got) \in Nat
      BY <1>1 DEF QueueTypes, Items
    <3>2. Unended(object.in) /\ NoClose(worker.chain) /\ object.in \in Items
      BY <1>1 DEF Ends, QueueTypes
    <3>3. QED BY <3>1, <3>2, KindsApart
  <2>4. /\ item \in Item /\ r \in Items /\ item # Close /\ NoClose(r)
        /\ (Unended(worker.chain) => Unended(r) /\ item > 0)
    BY <1>1, <2>1, <2>3, TailItems, TailParts DEF QueueTypes
  <2>5. n1 = n2 /\ Holds(worker.chain, n2, n3) /\ Holds(object.in, Len(object.got), n1)
        /\ n3 <= n4 /\ n4 <= public.sent
    <3>1. Holds(link.up, n3, n4) /\ n4 <= public.sent
      BY DEF Up, Upload
    <3>2. n3 <= n4
      BY <3>1 DEF Holds
    <3>3. QED BY <1>1, <1>3, <3>1, <3>2 DEF Up, Upload
  <2>6. /\ item > 0 => item = n2 + 1 /\ n2 + 1 <= n3 /\ Holds(r, n2 + 1, n3)
        /\ item <= 0 => n2 = n3 /\ Holds(r, n3, n3)
        /\ item = End => OnlyClose(r)
    BY <1>1, <2>1, <2>5, HoldsTake DEF QueueTypes
  <2>7. CASE item # End
    <3>1. item > 0
      BY <2>4, <2>7 DEF Item, End, Close
    <3>2. Unended(q) /\ NoClose(q) /\ ~HasEnd(q)
      BY <1>1, <2>3, <2>4, <3>1, AppendParts, AppendItem, KindsApart
    <3>3. Holds(q, Len(object.got), n1 + 1) /\ n1 + 1 \in Nat /\ n1 + 1 <= public.sent
      BY <1>1, <2>3, <2>5, <2>6, <3>1, HoldsMore DEF QueueTypes
    <3> HIDE DEF item, r, q
    <3>4. Ends'
      BY <1>1, <1>3, <2>1, <2>2, <2>4, <2>7, <3>2 DEF Ends, Live, Broken
    <3>5. Upload(n1 + 1, n1 + 1, n3, n4)'
      BY <1>1, <1>3, <2>2, <2>5, <2>6, <3>1, <3>3 DEF Up, Upload, Live, Broken
    <3>6. UploadEnds(n1 + 1, n4)'
      BY <1>1, <2>1, <2>2, <2>7, <3>2 DEF Up, UploadEnds, Live, Broken
    <3>7. QED BY <3>3, <3>4, <3>5, <3>6 DEF Up
  <2>8. CASE item = End
    <3>1. ~(item > 0) /\ item <= 0
      BY <2>8 DEF End
    <3>2. n2 = n3 /\ Holds(r, n3, n3) /\ OnlyClose(r) /\ r = <<>>
      <4> HIDE DEF item, r
      <4>1. QED BY <2>4, <2>6, <2>8, <3>1, NothingLeft
    <3>3. worker.closed
      BY <1>1, <2>4, <3>1 DEF Ends
    <3>4. n3 = n4 /\ (socket.ended \/ socket.destroyed)
      <4>1. OnlyClose(link.up) /\ Holds(link.up, n3, n4)
        BY <1>1, <3>3 DEF Ends, Up, Upload
      <4>2. QED BY <1>1, <3>3, <4>1, HoldsNothing DEF QueueTypes, Ends
    <3>5. faults = 0 => public.ended /\ n1 = public.sent
      BY <1>1, <2>5, <3>2, <3>4 DEF Up, UploadEnds
    <3>6. NoClose(q) /\ Holds(q, Len(object.got), n1)
      BY <1>1, <2>3, <2>5, <2>8, AppendParts, HoldsMore, KindsApart
    <3> HIDE DEF item, r, q
    <3>7. Ends'
      BY <1>1, <1>3, <2>1, <2>2, <2>4, <2>8, <3>2, <3>3, <3>6 DEF Ends, Live, Broken
    <3>8. Upload(n1, n2, n3, n4)'
      BY <1>1, <1>3, <2>2, <2>5, <3>2, <3>6 DEF Up, Upload, Live, Broken
    <3>9. UploadEnds(n1, n4)'
      BY <1>1, <2>2, <3>5 DEF Up, UploadEnds, Live, Broken
    <3>10. QED BY <3>7, <3>8, <3>9 DEF Up
  <2>9. QED BY <2>7, <2>8
<1>4. QED BY <1>2, <1>3

LEMMA PipesDownUp ==
    ASSUME Typed, Ends, NEW n1 \in Nat, NEW n2 \in Nat, NEW n3 \in Nat, NEW n4 \in Nat,
           Up(n1, n2, n3, n4), pipesDown
    PROVE  Ends' /\ Up(n1, n2, n3, n4)'
<1>1. /\ UNCHANGED <<input, public, socket, faults>> /\ worker.phase = "piping"
      /\ worker'.phase = worker.phase /\ worker'.chain = worker.chain
      /\ worker'.chunks = worker.chunks /\ worker'.closed = worker.closed
      /\ worker'.replayed = worker.replayed /\ worker'.up = worker.up
      /\ object'.state = object.state /\ object'.in = object.in /\ object'.got = object.got
      /\ object'.up = object.up /\ link'.up = link.up /\ link'.state = link.state
  BY DEF pipesDown, SendsDown, Typed, Worker, ObjectTyped, Link
<1>2. link.state # "connecting"
  BY <1>1 DEF Ends
<1>3. Ends'
  BY <1>1, <1>2 DEF Ends, Live, Broken
<1>4. Upload(n1, n2, n3, n4)'
  BY <1>1 DEF Up, Upload, Live, Broken
<1>5. UploadEnds(n1, n4)'
  BY <1>1 DEF Up, UploadEnds, Live, Broken
<1>6. QED BY <1>3, <1>4, <1>5 DEF Up

LEMMA ConnectUp ==
    ASSUME Typed, Ends, NEW n1 \in Nat, NEW n2 \in Nat, NEW n3 \in Nat, NEW n4 \in Nat,
           Up(n1, n2, n3, n4), connect
    PROVE  Ends' /\ \E c \in Nat : Up(c, n2, n3, n4)'
<1> DEFINE x == Head(object.in)
           r == Tail(object.in)
           q == Append(object.got, x)
           read == ChunkRead
<1>1. /\ object.state = "reading" /\ object.in # <<>> /\ QueueTypes /\ ~Broken /\ object.up = "open"
      /\ UNCHANGED <<input, public, socket, link, worker, faults>>
  BY TypedQueues DEF connect, Broken, Ends
<1>2. /\ Len(object.got) \in Nat /\ Holds(object.in, Len(object.got), n1) /\ n1 <= public.sent
      /\ \A i \in 1..Len(object.got) : object.got[i] = i
  BY <1>1 DEF QueueTypes, Items, Up, Upload
<1>3. /\ x > 0 => x = Len(object.got) + 1 /\ Len(object.got) + 1 <= n1 /\ Holds(r, Len(object.got) + 1, n1)
      /\ r \in Items /\ x \in Item
      /\ (NoClose(object.in) => NoClose(r)) /\ (Unended(object.in) => Unended(r))
      /\ (HasEnd(r) => HasEnd(object.in))
  BY <1>1, <1>2, HoldsTake, TailItems, TailParts DEF QueueTypes
<1>4. Len(object.got) <= n1 /\ n1 \in Nat
  BY <1>2 DEF Holds
<1>5. x > 0 => /\ Len(q) = Len(object.got) + 1 /\ \A i \in 1..Len(q) : q[i] = i
  <2> HIDE DEF x
  <2>1. Len(q) = Len(object.got) + 1
    BY <1>1, <1>3, AppendItem DEF QueueTypes
  <2>2. QED BY <1>1, <1>2, <1>3, <2>1, NextNumber DEF QueueTypes
<1>6. ASSUME object'.state = "refused", object'.in = <<>>, object'.up = object.up,
             \/ object'.got = object.got
             \/ x > 0 /\ object'.got = q
      PROVE  Ends' /\ \E c \in Nat : Up(c, n2, n3, n4)'
  <2>1. Unended(<<>>) /\ NoClose(<<>>) /\ OnlyClose(<<>>) /\ ~HasEnd(<<>>)
    BY EmptyParts
  <2>2. Len(object'.got) \in Nat /\ Len(object'.got) <= public.sent
        /\ \A i \in 1..Len(object'.got) : object'.got[i] = i
    <3> HIDE DEF x, q
    <3>1. public.sent \in Nat
      BY <1>1 DEF QueueTypes
    <3>2. QED BY <1>2, <1>3, <1>4, <1>5, <1>6, <3>1
  <2>0. PICK k \in Nat : k = Len(object'.got)
    BY <2>2
  <2>3. Holds(<<>>, k, k)
    BY <2>0, EmptyParts
  <2> HIDE DEF x, q, r, read
  <2>4. Ends'
    <3>1. Broken'
      BY <1>6 DEF Broken
    <3>2. QED BY <1>1, <1>6, <2>1, <3>1 DEF Ends, Live
  <2>5. Upload(k, n2, n3, n4)'
    <3>1. Broken'
      BY <1>6 DEF Broken
    <3>2. QED BY <1>1, <1>6, <2>0, <2>2, <2>3, <3>1 DEF Up, Upload, Live
  <2>6. UploadEnds(k, n4)'
    <3>1. Broken'
      BY <1>6 DEF Broken
    <3>2. QED BY <1>1, <1>6, <2>1, <3>1 DEF Up, UploadEnds, Live
  <2>7. Up(k, n2, n3, n4)'
    BY <2>5, <2>6 DEF Up
  <2>8. QED BY <2>4, <2>7
<1>7. ASSUME x > 0, object'.state \in {"reading", "open"}, object'.in = r, object'.got = q,
             object'.up = object.up
      PROVE  Ends' /\ Up(n1, n2, n3, n4)'
  <2> HIDE DEF x, q, r, read
  <2>1. Ends'
    BY <1>1, <1>3, <1>7 DEF Ends, Live, Broken
  <2>2. Upload(n1, n2, n3, n4)'
    BY <1>1, <1>2, <1>3, <1>5, <1>7 DEF Up, Upload, Live, Broken
  <2>3. UploadEnds(n1, n4)'
    BY <1>1, <1>3, <1>7 DEF Up, UploadEnds, Live, Broken
  <2>4. QED BY <2>1, <2>2, <2>3 DEF Up
<1>8. /\ read.state = "reading" /\ read.in = r /\ read.got = q /\ read.up = object.up
      /\ \A route \in Attached :
            /\ Opened(route).state = "open" /\ Opened(route).in = r /\ Opened(route).got = q
            /\ Opened(route).up = object.up
      /\ Refused(read).state = "refused" /\ Refused(read).in = <<>> /\ Refused(read).got = q
      /\ Refused(read).up = object.up
      /\ Refused(object).state = "refused" /\ Refused(object).in = <<>>
      /\ Refused(object).got = object.got /\ Refused(object).up = object.up
  <2> HIDE DEF x, q, r
  <2>1. read.state = "reading" /\ read.in = r /\ read.got = q /\ read.up = object.up
        /\ read \in [state: {"reading"}, id: {object.id}, in: {r}, got: {q}, route: Nat,
                     up: {object.up}, sent: Nat, ended: BOOLEAN, out: Items]
    BY <1>1 DEF Typed, ObjectTyped, ChunkRead, x, q, r
  <2>2. QED BY <1>1, <2>1 DEF Typed, ObjectTyped, Refused, Opened
<1>9. \/ object' = Refused(object)
      \/ x > 0 /\ object' = read
      \/ x > 0 /\ \E route \in Attached : object' = Opened(route)
      \/ x > 0 /\ object' = Refused(read)
  <2>1. ~(x <= 0) => x > 0
    BY <1>3 DEF Item, Close
  <2>2. QED BY <2>1, ConnectCases
<1> HIDE DEF x, q, r, read
<1>10. QED BY <1>6, <1>7, <1>8, <1>9

LEMMA UploadUp ==
    ASSUME Typed, Ends, NEW n1 \in Nat, NEW n2 \in Nat, NEW n3 \in Nat, NEW n4 \in Nat,
           Up(n1, n2, n3, n4), upload
    PROVE  Ends' /\ Up(n1, n2, n3, n4)'
<1> DEFINE x == Head(object.in)
           r == Tail(object.in)
           q == Append(object.got, x)
<1>1. /\ object.state = "open" /\ object.in # <<>> /\ QueueTypes /\ ~Broken
      /\ UNCHANGED <<input, public, socket, link, worker, faults>>
  BY TypedQueues DEF upload, Broken
<1>2. /\ Len(object.got) \in Nat /\ Holds(object.in, Len(object.got), n1) /\ n1 <= public.sent
      /\ \A i \in 1..Len(object.got) : object.got[i] = i
  BY <1>1 DEF QueueTypes, Items, Up, Upload
<1>3. /\ x > 0 => x = Len(object.got) + 1 /\ Len(object.got) + 1 <= n1 /\ Holds(r, Len(object.got) + 1, n1)
      /\ x <= 0 => n1 = Len(object.got) /\ Holds(r, n1, n1)
      /\ x = End => OnlyClose(r)
      /\ x = Close => r = <<>>
  <2> DEFINE a == Len(object.got)
  <2>1. object.in \in Items /\ a \in Nat /\ Holds(object.in, a, n1)
    BY <1>1, <1>2 DEF QueueTypes
  <2> HIDE DEF a
  <2>2. /\ x > 0 => x = a + 1 /\ a + 1 <= n1 /\ Holds(r, a + 1, n1)
        /\ x <= 0 => n1 = a /\ Holds(r, n1, n1)
        /\ x = End => OnlyClose(r)
        /\ x = Close => r = <<>>
    BY <1>1, <2>1, HoldsTake
  <2>3. QED BY <2>2 DEF a
<1>4. /\ r \in Items /\ x \in Item
      /\ (NoClose(object.in) => NoClose(r) /\ x # Close) /\ (Unended(object.in) => Unended(r) /\ x > 0)
      /\ (HasEnd(r) => HasEnd(object.in)) /\ (x = End => HasEnd(object.in))
      /\ (OnlyClose(object.in) => x = Close)
  BY <1>1, TailItems, TailParts DEF QueueTypes
<1>5. /\ object'.state = "open" /\ object'.in = r
      /\ CASE x = End   -> object'.up = "ended" /\ object'.got = object.got
           [] x = Close -> object'.up \in {"closed", object.up} /\ object'.got = object.got
                           /\ (object'.up = "ended" => object.up = "ended")
           [] OTHER     -> object'.up = object.up /\ object'.got = q
  <2>1. CASE x = End
    BY <1>1, <2>1 DEF upload, Typed, ObjectTyped
  <2>2. CASE x = Close
    <3>1. x # End
      BY <2>2 DEF End, Close
    <3>2. object' = [object EXCEPT !.in = r, !.up = IF object.up = "open" THEN "closed" ELSE object.up]
      BY <1>1, <2>2, <3>1 DEF upload
    <3>3. /\ object'.state = "open" /\ object'.in = r /\ object'.got = object.got
          /\ object'.up = IF object.up = "open" THEN "closed" ELSE object.up
      BY <1>1, <3>2 DEF Typed, ObjectTyped
    <3> HIDE DEF x, r, q
    <3>4. QED BY <2>2, <3>1, <3>3
  <2>3. CASE x # End /\ x # Close
    BY <1>1, <2>3 DEF upload, Typed, ObjectTyped
  <2>4. QED BY <2>1, <2>2, <2>3
<1>6. x = End \/ x = Close \/ x > 0
  BY <1>4 DEF Item, End, Close
<1>7. x = End => x <= 0 /\ x # Close
  BY DEF End, Close
<1>8. x = Close => x <= 0 /\ x # End
  BY DEF End, Close
<1>9. x > 0 => x # End /\ x # Close
  BY DEF End, Close
<1>10. NoClose(<<>>) /\ Unended(<<>>) /\ OnlyClose(<<>>) /\ ~HasEnd(<<>>)
  BY EmptyParts
<1>11. x > 0 => /\ Len(q) = Len(object.got) + 1 /\ \A i \in 1..Len(q) : q[i] = i
  <2> HIDE DEF x
  <2>1. Len(q) = Len(object.got) + 1
    BY <1>1, <1>4, AppendItem DEF QueueTypes
  <2>2. QED BY <1>1, <1>2, <1>3, <2>1, NextNumber DEF QueueTypes
<1> HIDE DEF x, q, r
<1>12. Ends'
  <2>1. object.up = "ended" => x = Close
    BY <1>4 DEF Ends
  <2>2. object'.up = "ended" => OnlyClose(r) /\ (Live => worker.up = "done")
    BY <1>3, <1>4, <1>5, <1>6, <1>7, <1>8, <1>9, <1>10, <2>1 DEF Ends
  <2>3. QED BY <1>1, <1>4, <1>5, <2>2 DEF Ends, Live, Broken
<1>13. Upload(n1, n2, n3, n4)'
  <2>1. Holds(object.in, Len(object.got), n1)' /\ \A i \in 1..Len(object'.got) : object'.got[i] = i
    BY <1>2, <1>3, <1>5, <1>6, <1>7, <1>8, <1>9, <1>11
  <2>2. QED BY <1>1, <1>5, <2>1 DEF Up, Upload, Live, Broken
<1>14. UploadEnds(n1, n4)'
  <2>1. object'.up = "ended" => HasEnd(object.in) \/ object.up = "ended"
    BY <1>4, <1>5, <1>6, <1>7, <1>8, <1>9
  <2>2. QED BY <1>1, <1>4, <1>5, <2>1 DEF Up, UploadEnds, Live, Broken
<1>15. QED BY <1>12, <1>13, <1>14 DEF Up

LEMMA ObjectSendsUp ==
    ASSUME Typed, Ends, NEW n1 \in Nat, NEW n2 \in Nat, NEW n3 \in Nat, NEW n4 \in Nat,
           Up(n1, n2, n3, n4), replies \/ endsReplies
    PROVE  Ends' /\ Up(n1, n2, n3, n4)'
<1>1. /\ UNCHANGED <<input, public, socket, link, worker, faults>>
      /\ object'.state = object.state /\ object'.in = object.in /\ object'.got = object.got
      /\ object'.up = object.up
  BY DEF replies, endsReplies, Typed, ObjectTyped
<1>2. Ends'
  BY <1>1 DEF Ends, Live, Broken
<1>3. Up(n1, n2, n3, n4)'
  BY <1>1 DEF Up, Upload, UploadEnds, Live, Broken
<1>4. QED BY <1>2, <1>3

LEMMA ResetsUp ==
    ASSUME Typed, Ends, NEW n1 \in Nat, NEW n2 \in Nat, NEW n3 \in Nat, NEW n4 \in Nat,
           Up(n1, n2, n3, n4), resets
    PROVE  Ends' /\ \E c \in Nat : Up(c, n2, n3, n4)'
<1>1. /\ UNCHANGED <<input, public, socket, link, worker>> /\ faults' # 0 /\ object.state = "open"
      /\ object'.state = "reset" /\ object'.in = <<>> /\ object'.got = object.got
      /\ object'.up = object.up /\ QueueTypes
  BY TypedQueues DEF resets, Fault, Typed, ObjectTyped
<1>2. /\ Len(object.got) \in Nat /\ Holds(object.in, Len(object.got), n1) /\ n1 <= public.sent
  BY <1>1 DEF QueueTypes, Items, Up, Upload
<1>3. Len(object.got) <= n1
  BY <1>2 DEF Holds
<1>4. Len(object.got) <= public.sent
  BY <1>1, <1>2, <1>3 DEF QueueTypes
<1>5. /\ Unended(<<>>) /\ NoClose(<<>>) /\ OnlyClose(<<>>) /\ ~HasEnd(<<>>)
      /\ Holds(<<>>, Len(object.got), Len(object.got))
  BY <1>2, EmptyParts
<1>6. Broken'
  BY <1>1 DEF Broken
<1>7. Ends'
  BY <1>1, <1>5, <1>6 DEF Ends, Live
<1>8. Upload(Len(object.got), n2, n3, n4)'
  BY <1>1, <1>4, <1>5, <1>6 DEF Up, Upload, Live
<1>9. UploadEnds(Len(object.got), n4)'
  BY <1>1 DEF UploadEnds
<1>10. Up(Len(object.got), n2, n3, n4)'
  BY <1>8, <1>9 DEF Up
<1>11. QED BY <1>2, <1>7, <1>10

LEMMA AbortsUp ==
    ASSUME Typed, Ends, NEW n1 \in Nat, NEW n2 \in Nat, NEW n3 \in Nat, NEW n4 \in Nat,
           Up(n1, n2, n3, n4), aborts
    PROVE  Ends' /\ Up(n1, n2, n3, n4)'
<1> DEFINE p == [public EXCEPT !.saw = "gone"]
           q == Append(link.up, Close)
<1>1. ~socket.destroyed /\ UNCHANGED <<input, worker, object>> /\ QueueTypes /\ faults' # 0
      /\ Destroys(p, link) /\ link \in Link /\ Close \in Item
  BY TypedQueues DEF aborts, Fault, Typed, Item
<1>2. p \in Public /\ p.sent = public.sent /\ p.ended = public.ended
  BY DEF Typed, Public
<1>3. NoClose(link.up) /\ link.up \in Items /\ Holds(link.up, n3, n4) /\ n4 <= public.sent
  BY <1>1 DEF Ends, QueueTypes, Up, Upload
<1>4. Holds(q, n3, n4) /\ (OnlyClose(link.up) => OnlyClose(q))
  BY <1>1, <1>3, HoldsClose, AppendParts
<1> HIDE DEF p
<1>5. link'.up = IF link.state = "open" THEN q ELSE link.up
  BY <1>1, <1>2, DestroysFields
<1> HIDE DEF q
<1>6. /\ Holds(link.up, n3, n4)' /\ (Live /\ worker.closed => OnlyClose(link.up)')
      /\ worker.phase = "none" => link'.up = <<>>
  BY <1>3, <1>4, <1>5 DEF Ends
<1>7. QED BY <1>1, <1>2, <1>3, <1>6, DestroyedUp

LEMMA LosesUp ==
    ASSUME Typed, Ends, NEW n1 \in Nat, NEW n2 \in Nat, NEW n3 \in Nat, NEW n4 \in Nat,
           Up(n1, n2, n3, n4), loses
    PROVE  Ends' /\ \E c \in Nat : Up(n1, n2, n3, c)'
<1>1. /\ link.state \in {"connecting", "open"} /\ UNCHANGED <<input, worker, object>> /\ QueueTypes
      /\ faults' # 0 /\ public \in Public /\ Close \in Item
  BY TypedQueues DEF loses, Fault, Typed, Item
<1>2. PICK n \in 0..Len(link.up) :
         Destroys(public, [state |-> "closed", up |-> SubSeq(link.up, 1, n) \o
                               IF link.state = "connecting" THEN <<>> ELSE <<Close>>,
                           down |-> <<>>])
  BY DEF loses
<1>3. /\ NoClose(link.up) /\ link.up \in Items /\ Len(link.up) \in Nat
      /\ Holds(link.up, n3, n4) /\ n4 <= public.sent
  <2>1. link.up \in Items
    BY <1>1 DEF QueueTypes
  <2>2. Len(link.up) \in Nat
    BY <2>1 DEF Items
  <2>3. Holds(link.up, n3, n4) /\ n4 <= public.sent
    BY DEF Up, Upload
  <2>4. NoClose(link.up)
    BY <1>1 DEF Ends
  <2>5. QED BY <2>1, <2>2, <2>3, <2>4
<1> DEFINE s == SubSeq(link.up, 1, n)
           t == IF link.state = "connecting" THEN <<>> ELSE <<Close>>
           q == Append(s, Close)
           l == [state |-> "closed", up |-> s \o t, down |-> <<>>]
<1>4. s \in Items /\ NoClose(s)
  BY <1>3, HoldsPrefix
<1>5. PICK c \in Nat : c <= n4 /\ Holds(s, n3, c)
  BY <1>3, HoldsPrefix
<1>6. q \in Items /\ Holds(q, n3, c)
  <2> HIDE DEF s
  <2>1. QED BY <1>1, <1>4, <1>5, AppendItem, HoldsClose
<1>7. link.up = <<>> => s = <<>>
  <2>1. link.up = <<>> => n = 0
    OBVIOUS
  <2>2. QED BY <2>1
<1>8. s \o t = IF link.state = "connecting" THEN s ELSE q
  <2> HIDE DEF s
  <2>1. s \o <<>> = s /\ s \o <<Close>> = q
    BY <1>4 DEF Items, Close
  <2>2. QED BY <2>1
<1>9. OnlyClose(link.up) => OnlyClose(s) /\ OnlyClose(q)
  <2> HIDE DEF s
  <2>1. OnlyClose(link.up) => link.up = <<>>
    BY <1>3, NothingLeft
  <2>2. OnlyClose(<<>>)
    BY EmptyParts
  <2>3. OnlyClose(s) => OnlyClose(q)
    BY <1>1, <1>4, AppendParts
  <2>4. QED BY <1>7, <2>1, <2>2, <2>3
<1> HIDE DEF s, q, t
<1>10. l \in Link /\ l.state = "closed" /\ l.up = IF link.state = "connecting" THEN s ELSE q
  <2>1. s \o t \in Items
    BY <1>4, <1>6, <1>8
  <2>2. QED BY <1>8, <2>1, EmptyParts DEF Link
<1>11. Destroys(public, l)
  BY <1>2 DEF s, t
<1> HIDE DEF l
<1>12. link'.up = IF link.state = "connecting" THEN s ELSE q
  BY <1>1, <1>10, <1>11, DestroysFields
<1>13. Holds(link.up, n3, c)' /\ c <= public.sent
  <2>1. n4 \in Nat /\ public.sent \in Nat
    BY <1>1 DEF QueueTypes
  <2>2. c <= public.sent
    BY <1>3, <1>5, <2>1
  <2>3. QED BY <1>5, <1>6, <1>12, <2>2
<1>14. Live /\ worker.closed => OnlyClose(link.up)'
  BY <1>9, <1>12 DEF Ends
<1>15. worker.phase = "none" => link'.up = <<>>
  BY <1>1, <1>7, <1>12 DEF Ends
<1>16. QED BY <1>1, <1>10, <1>11, <1>13, <1>14, <1>15, DestroyedUp

\* The four numbers of Upload.
Uploads == \E n1, n2, n3, n4 \in Nat : Up(n1, n2, n3, n4)

LEMMA InitUp == Init => Ends /\ Uploads
<1> SUFFICES ASSUME Init
             PROVE  Ends /\ Uploads
  OBVIOUS
<1>1. /\ Unended(<<>>) /\ NoClose(<<>>) /\ OnlyClose(<<>>) /\ ~HasEnd(<<>>) /\ Holds(<<>>, 0, 0)
      /\ Len(<<>>) = 0
  BY EmptyParts
<1>2. Ends
  BY <1>1 DEF Init, Ends, Live, Broken
<1>3. Upload(0, 0, 0, 0)
  BY <1>1 DEF Init, Upload, Live, Broken
<1>4. UploadEnds(0, 0)
  BY <1>1 DEF Init, UploadEnds, Live, Broken
<1>5. QED BY <1>2, <1>3, <1>4 DEF Uploads, Up

LEMMA StutterUp ==
    ASSUME Ends, Uploads, UNCHANGED vars
    PROVE  Ends' /\ Uploads'
<1>1. UNCHANGED <<public, socket, link, worker, object, faults>>
  BY DEF vars
<1>2. Ends'
  BY <1>1 DEF Ends, Live, Broken
<1>3. PICK n1 \in Nat, n2 \in Nat, n3 \in Nat, n4 \in Nat : Up(n1, n2, n3, n4)
  BY DEF Uploads
<1>4. Up(n1, n2, n3, n4)'
  BY <1>1, <1>3 DEF Up, Upload, UploadEnds, Live, Broken
<1>5. QED BY <1>2, <1>4 DEF Uploads

LEMMA NextUp ==
    ASSUME Typed, Ends, Uploads, faults = 0 /\ Live => NoClose(link.down), Next
    PROVE  Ends' /\ Uploads'
<1>1. PICK n1 \in Nat, n2 \in Nat, n3 \in Nat, n4 \in Nat : Up(n1, n2, n3, n4)
  BY DEF Uploads
<1>2. CASE Client
  <2>1. Ends' /\ Up(n1, n2, n3, n4)'
    BY <1>1, <1>2, SendsUp, EndsSendingUp DEF Client
  <2>2. QED BY <2>1 DEF Uploads
<1>3. CASE RelaySteps
  <2>1. Ends' /\ \E c \in Nat : Up(n1, n2, n3, c)'
    <3>1. n4 + 1 \in Nat
      OBVIOUS
    <3>2. CASE opens BY <1>1, <3>2, OpensUp
    <3>3. CASE onData BY <1>1, <3>1, <3>3, OnDataUp
    <3>4. CASE onEnd BY <1>1, <3>4, OnEndUp
    <3>5. CASE onMessage BY <1>1, <3>5, OnMessageUp
    <3>6. CASE writes BY <1>1, <3>6, WritesUp
    <3>7. QED BY <1>3, <3>2, <3>3, <3>4, <3>5, <3>6 DEF RelaySteps
  <2>2. QED BY <2>1 DEF Uploads
<1>4. CASE WorkerSteps
  <2>1. Ends' /\ \E c1, c2, c3 \in Nat : Up(c1, c2, c3, n4)'
    <3>1. CASE received BY <1>1, <3>1, ReceivedUp
    <3>2. CASE readHello BY <1>1, <3>2, ReadHelloUp
    <3>3. CASE timesOut \/ closesBoth BY <1>1, <3>3, ClosingUp
    <3>4. CASE opened BY <1>1, <3>4, OpenedUp
    <3>5. CASE replay BY <1>1, <3>5, ReplayUp
    <3>6. CASE pipesUp BY <1>1, <3>6, PipesUpUp
    <3>7. CASE pipesDown BY <1>1, <3>7, PipesDownUp
    <3>8. QED BY <1>4, <3>1, <3>2, <3>3, <3>4, <3>5, <3>6, <3>7 DEF WorkerSteps
  <2>2. QED BY <2>1 DEF Uploads
<1>5. CASE ObjectSteps
  <2>1. Ends' /\ \E c \in Nat : Up(c, n2, n3, n4)'
    BY <1>1, <1>5, ConnectUp, UploadUp, ObjectSendsUp DEF ObjectSteps
  <2>2. QED BY <2>1 DEF Uploads
<1>6. CASE Faults
  <2>1. Ends' /\ \E c, d \in Nat : Up(c, n2, n3, d)'
    <3>1. CASE aborts BY <1>1, <3>1, AbortsUp
    <3>2. CASE loses BY <1>1, <3>2, LosesUp
    <3>3. CASE openFails BY <1>1, <3>3, ClosingUp
    <3>4. CASE resets BY <1>1, <3>4, ResetsUp
    <3>5. QED BY <1>6, <3>1, <3>2, <3>3, <3>4 DEF Faults
  <2>2. QED BY <2>1 DEF Uploads
<1>7. QED BY <1>2, <1>3, <1>4, <1>5, <1>6 DEF Next

-----------------------------------------------------------------------------
(* The way down. *)

Down(m0, m1, m2, m3) == Download(m0, m1, m2, m3) /\ DownloadEnds(m2)

\* What does not touch the way down.
LEMMA FrameDown ==
    ASSUME NEW m0 \in Nat, NEW m1 \in Nat, NEW m2 \in Nat, NEW m3 \in Nat, Down(m0, m1, m2, m3),
           Live' <=> Live, worker'.down = worker.down, faults' = faults, link'.down = link.down,
           socket'.out = socket.out, socket'.finished = socket.finished,
           socket'.destroyed = socket.destroyed,
           public'.got = public.got, public'.saw = public.saw, public'.ended = public.ended,
           public'.hasty = public.hasty,
           object'.state = object.state, object'.out = object.out, object'.sent = object.sent,
           object'.ended = object.ended
    PROVE  Down(m0, m1, m2, m3)'
<1>1. (Downloading' <=> Downloading) /\ (Going' <=> Going)
  BY DEF Downloading, Going, Broken
<1>2. Download(m0, m1, m2, m3)'
  BY <1>1 DEF Down, Download
<1>3. DownloadEnds(m2)'
  BY <1>1 DEF Down, DownloadEnds
<1>4. QED BY <1>2, <1>3 DEF Down

LEMMA DestroyedDown ==
    ASSUME Typed, NEW m0 \in Nat, NEW m1 \in Nat, NEW m2 \in Nat, NEW m3 \in Nat,
           Down(m0, m1, m2, m3), NEW p \in Public, NEW l \in Link, Destroys(p, l),
           NEW a \in Nat, NEW b \in Nat, Holds(l.down, a, b), b <= object.sent,
           p.got = public.got, p.ended = public.ended, p.hasty = public.hasty,
           UNCHANGED <<worker, object>>,
           faults' = 0 => /\ faults = 0 /\ (Live => NoClose(l.down))
                          /\ Going /\ ~public.hasty => object.ended /\ Len(public.got) = object.sent
    PROVE  \E m \in Nat : Down(m, a, b, m3)'
<1>1. /\ socket'.destroyed /\ socket'.out = <<>> /\ socket'.finished = socket.finished
      /\ public'.got = public.got /\ public'.ended = public.ended /\ public'.hasty = public.hasty
      /\ public'.saw # "open" /\ link'.down = l.down
  BY DestroysFields
<1>2. Len(public.got) \in Nat /\ NoClose(<<>>) /\ Unended(<<>>) /\ ~HasEnd(<<>>) /\ object.sent \in Nat
  BY TypedQueues, EmptyParts DEF QueueTypes, Items
<1>3. Len(public.got) <= object.sent
  <2>1. Holds(socket.out, Len(public.got), m0) /\ m0 <= object.sent
    BY DEF Down, Download
  <2>2. Len(public.got) <= m0
    BY <2>1 DEF Holds
  <2>3. QED BY <1>2, <2>1, <2>2
<1>4. Holds(<<>>, Len(public.got), Len(public.got))
  BY <1>2, EmptyParts
<1>5. (Live' <=> Live) /\ (Downloading' <=> Downloading) /\ (Going' <=> Going)
  BY DEF Live, Downloading, Going, Broken
<1>6. PICK m \in Nat : m = Len(public.got)
  BY <1>2
<1>7. Download(m, a, b, m3)'
  BY <1>1, <1>2, <1>3, <1>4, <1>5, <1>6 DEF Down, Download
<1>8. DownloadEnds(b)'
  BY <1>1, <1>5 DEF Down, DownloadEnds
<1>9. QED BY <1>7, <1>8 DEF Down

\* The worker closes the connection.
LEMMA ClosesDown ==
    ASSUME Typed, NEW m0 \in Nat, NEW m1 \in Nat, NEW m2 \in Nat, NEW m3 \in Nat,
           Down(m0, m1, m2, m3), NEW w \in Worker, NEW phase \in {"rejected", "closed"},
           Closes(w, phase), UNCHANGED <<public, socket>>, faults' = 0 => faults = 0,
           object'.state = object.state, object'.out = object.out, object'.sent = object.sent,
           object'.ended = object.ended,
           faults = 0 /\ Going' /\ ~public.hasty => Going /\ public.saw # "open"
    PROVE  Down(m0, m1, m2, m3)'
<1> DEFINE q == Append(link.down, Close)
<1>1. /\ ~Live' /\ \/ link'.down = link.down
                   \/ /\ link'.down = q
                      /\ link.down = <<>> \/ link.down[Len(link.down)] # Close
  BY ClosesFields
<1>2. link.down \in Items /\ Close \in Item /\ End # Close /\ Holds(link.down, m1, m2)
  BY TypedQueues DEF QueueTypes, Item, End, Close, Down, Download
<1>3. link'.down = q => Holds(q, m1, m2)
  <2>1. ASSUME link.down = <<>> \/ link.down[Len(link.down)] # Close
        PROVE  Holds(q, m1, m2)
    <3>1. NoClose(link.down)
      BY <1>2, <2>1, CloseIsLast
    <3>2. QED BY <1>2, <3>1, HoldsClose
  <2>2. q # link.down
    <3>1. Len(q) = Len(link.down) + 1 /\ Len(link.down) \in Nat
      BY <1>2, AppendItem DEF Items
    <3> HIDE DEF q
    <3>2. QED BY <3>1
  <2> HIDE DEF q
  <2>3. QED BY <1>1, <2>1, <2>2
<1>4. (OnlyClose(link.down) => OnlyClose(q)) /\ (HasEnd(q) => HasEnd(link.down))
  BY <1>2, AppendParts
<1> HIDE DEF q
<1>5. ~Downloading' /\ (Broken' <=> Broken)
  BY <1>1 DEF Downloading, Broken
<1>6. Download(m0, m1, m2, m3)'
  BY <1>1, <1>2, <1>3, <1>4, <1>5 DEF Down, Download
<1>7. Going' => Going
  BY <1>1, <1>5 DEF Going
<1>8. DownloadEnds(m2)'
  BY <1>1, <1>4, <1>5, <1>7 DEF Down, DownloadEnds
<1>9. QED BY <1>6, <1>8 DEF Down

LEMMA ClientDown ==
    ASSUME Typed, NEW m0 \in Nat, NEW m1 \in Nat, NEW m2 \in Nat, NEW m3 \in Nat,
           Down(m0, m1, m2, m3), Client
    PROVE  Down(m0, m1, m2, m3)'
<1>1. /\ UNCHANGED <<link, worker, object, faults>> /\ ~public.ended
      /\ socket'.out = socket.out /\ socket'.finished = socket.finished
      /\ socket'.destroyed = socket.destroyed
      /\ public'.got = public.got /\ public'.saw = public.saw
      /\ \/ public'.ended = public.ended /\ public'.hasty = public.hasty
         \/ public'.ended /\ (~public'.hasty => public.saw # "open")
  BY DEF Client, sends, endsSending, Typed, Public, Socket
<1>2. (Live' <=> Live) /\ (Downloading' <=> Downloading) /\ (Going' <=> Going)
  BY <1>1 DEF Live, Downloading, Going, Broken
<1>3. Download(m0, m1, m2, m3)'
  BY <1>1, <1>2 DEF Down, Download
<1>4. ~public.hasty
  BY <1>1 DEF Down, DownloadEnds
<1>5. DownloadEnds(m2)'
  BY <1>1, <1>2, <1>4 DEF Down, DownloadEnds
<1>6. QED BY <1>3, <1>5 DEF Down

LEMMA RelaySendsDown ==
    ASSUME Typed, Ends, NEW m0 \in Nat, NEW m1 \in Nat, NEW m2 \in Nat, NEW m3 \in Nat,
           Down(m0, m1, m2, m3), opens \/ onData \/ (onEnd /\ ~socket.finished)
    PROVE  Down(m0, m1, m2, m3)'
<1>1. /\ UNCHANGED <<public, object, faults>> /\ link'.down = link.down
      /\ worker'.down = worker.down
      /\ socket'.out = socket.out /\ socket'.finished = socket.finished
      /\ socket'.destroyed = socket.destroyed
  <2>1. CASE opens
    BY <2>1 DEF opens, Sent, Typed, Link, Socket, Worker
  <2>2. CASE onData
    BY <2>2 DEF onData, Sent, Typed, Link, Socket
  <2>3. CASE onEnd /\ ~socket.finished
    BY <2>3 DEF onEnd, Sent, Typed, Link, Socket
  <2>4. QED BY <2>1, <2>2, <2>3
<1>2. Live' <=> Live
  <2>1. CASE opens
    <3>1. link.state = "connecting" /\ worker'.phase = "hello"
      BY <2>1 DEF opens, Typed, Worker
    <3>2. QED BY <3>1 DEF Ends, Live
  <2>2. CASE UNCHANGED worker
    BY <2>2 DEF Live
  <2>3. QED BY <2>1, <2>2 DEF onData, onEnd
<1>3. QED BY <1>1, <1>2, FrameDown

\* What the client was sent once all of it has left the tunnel and the worker.
LEMMA AllSent ==
    ASSUME Typed, NEW m0 \in Nat, NEW m1 \in Nat, NEW m2 \in Nat, NEW m3 \in Nat,
           Down(m0, m1, m2, m3), faults = 0, Going, ~socket.destroyed,
           \/ socket.finished
           \/ socket.out # <<>> /\ ~(Head(socket.out) > 0)
    PROVE  object.ended /\ Len(public.got) = object.sent
<1>1. QueueTypes /\ Len(public.got) \in Nat
  BY TypedQueues DEF QueueTypes, Items
<1>2. Holds(socket.out, Len(public.got), m0) /\ Holds(link.down, m1, m2) /\ m0 = m1 /\ NoClose(socket.out)
      /\ (socket.finished => socket.out = <<>>)
  BY DEF Down, Download
<1>3. CASE socket.finished
  <2>1. Len(public.got) = m0
    BY <1>1, <1>2, <1>3, HoldsNothing DEF QueueTypes
  <2>2. OnlyClose(link.down) /\ object.ended /\ m2 = object.sent
    BY <1>3 DEF Down, Download, DownloadEnds
  <2>3. m1 = m2
    BY <1>1, <1>2, <2>2, HoldsNothing DEF QueueTypes
  <2>4. QED BY <1>2, <2>1, <2>2, <2>3
<1>4. CASE socket.out # <<>> /\ ~(Head(socket.out) > 0)
  <2>1. Head(socket.out) \in Item /\ Head(socket.out) # Close /\ (Unended(socket.out) => Head(socket.out) > 0)
    BY <1>1, <1>2, <1>4, TailItems, TailParts DEF QueueTypes
  <2>2. Head(socket.out) = End /\ Head(socket.out) <= 0
    BY <1>4, <2>1 DEF Item, End, Close
  <2>3. Len(public.got) = m0 /\ HasEnd(socket.out) /\ ~Unended(socket.out)
    BY <1>1, <1>2, <1>4, <2>1, <2>2, HoldsTake, TailParts DEF QueueTypes
  <2>4. OnlyClose(link.down) /\ object.ended /\ m2 = object.sent
    BY <2>3 DEF Down, Download, DownloadEnds
  <2>5. m1 = m2
    BY <1>1, <1>2, <2>4, HoldsNothing DEF QueueTypes
  <2>6. QED BY <1>2, <2>3, <2>4, <2>5
<1>5. QED BY <1>3, <1>4

LEMMA OnEndDown ==
    ASSUME Typed, Ends, NEW m0 \in Nat, NEW m1 \in Nat, NEW m2 \in Nat, NEW m3 \in Nat,
           Down(m0, m1, m2, m3), onEnd
    PROVE  \E m \in Nat : Down(m, m1, m2, m3)'
<1> DEFINE l == Sent(link, End)
<1>1. /\ UNCHANGED <<worker, object, faults>> /\ socket.in # <<>>
  BY DEF onEnd
<1>2. ~socket.destroyed
  BY <1>1 DEF Ends
<1>3. CASE socket.finished
  <2>1. Destroys(public, l) /\ public \in Public
    BY <1>3 DEF onEnd, Typed
  <2>2. l \in Link /\ l.down = link.down
    <3>1. End \in Item
      BY DEF Item, End
    <3>2. QED BY <3>1, SentType DEF Sent, Typed, Link
  <2>3. Holds(link.down, m1, m2) /\ m2 <= object.sent /\ (faults = 0 /\ Live => NoClose(link.down))
    BY DEF Down, Download, DownloadEnds
  <2>4. faults = 0 /\ Going => object.ended /\ Len(public.got) = object.sent
    BY <1>2, <1>3, AllSent
  <2> HIDE DEF l
  <2>5. QED BY <1>1, <2>1, <2>2, <2>3, <2>4, DestroyedDown
<1>4. CASE ~socket.finished
  BY <1>4, RelaySendsDown
<1>5. QED BY <1>3, <1>4

LEMMA OnMessageDown ==
    ASSUME Typed, Ends, NEW m0 \in Nat, NEW m1 \in Nat, NEW m2 \in Nat, NEW m3 \in Nat,
           Down(m0, m1, m2, m3), onMessage
    PROVE  \E a, b \in Nat : Down(a, b, m2, m3)'
<1> DEFINE x == Head(link.down)
           r == Tail(link.down)
           q == Append(socket.out, x)
           l == [link EXCEPT !.down = Tail(@), !.state = "closed"]
<1>1. link.down # <<>> /\ UNCHANGED <<input, worker, object, faults>> /\ QueueTypes /\ public \in Public
      /\ End # Close
  BY TypedQueues DEF onMessage, Typed, End, Close
<1>2. /\ Holds(link.down, m1, m2) /\ m2 <= object.sent /\ Holds(socket.out, Len(public.got), m0)
      /\ ~socket.destroyed => m0 = m1
      /\ Len(public.got) \in Nat
  BY <1>1 DEF Down, Download, QueueTypes, Items
<1>3. /\ x > 0 => x = m1 + 1 /\ m1 + 1 <= m2 /\ Holds(r, m1 + 1, m2)
      /\ x <= 0 => m1 = m2 /\ Holds(r, m2, m2) /\ x \in {End, Close}
      /\ x = End => OnlyClose(r)
      /\ x = Close => r = <<>>
  BY <1>1, <1>2, HoldsTake DEF QueueTypes
<1>4. /\ r \in Items /\ x \in Item /\ (NoClose(link.down) => NoClose(r) /\ x # Close)
      /\ (Unended(link.down) => Unended(r) /\ x > 0) /\ (OnlyClose(link.down) => x = Close)
      /\ (HasEnd(r) => HasEnd(link.down)) /\ (x = End => HasEnd(link.down))
  BY <1>1, TailItems, TailParts DEF QueueTypes
<1>5. CASE x = Close
  <2>1. Destroys(public, l)
    BY <1>1, <1>5 DEF onMessage
  <2>2. l \in Link /\ l.down = r
    BY <1>4 DEF Typed, Link
  <2>3. Holds(r, m2, m2) /\ x <= 0
    BY <1>3, <1>5 DEF Close
  <2>4. faults = 0 => ~Live
    BY <1>4, <1>5 DEF Down, DownloadEnds
  <2>5. faults = 0 /\ Going /\ ~public.hasty => object.ended /\ Len(public.got) = object.sent
    BY <2>4 DEF Down, DownloadEnds
  <2> HIDE DEF x, r, q, l
  <2>6. \E m \in Nat : Down(m, m2, m2, m3)'
    BY <1>1, <1>2, <2>1, <2>2, <2>3, <2>4, <2>5, DestroyedDown
  <2>7. QED BY <2>6
<1>6. CASE x # Close
  <2>1. /\ UNCHANGED public /\ link'.down = r
        /\ socket'.destroyed = socket.destroyed /\ socket'.finished = socket.finished
        /\ socket'.out = IF socket.destroyed THEN socket.out ELSE q
    BY <1>1, <1>6 DEF onMessage, Typed, Link, Socket
  <2>2. PICK m \in Nat : /\ m = IF x > 0 THEN m1 + 1 ELSE m1
                         /\ Holds(r, m, m2)
    <3>1. x > 0 \/ x <= 0
      BY <1>4 DEF Item, Close
    <3>2. m1 + 1 \in Nat /\ (x <= 0 => ~(x > 0))
      BY <1>4 DEF Item, Close
    <3> HIDE DEF x, r
    <3>3. QED BY <1>3, <3>1, <3>2
  <2>3. (Live' <=> Live) /\ (Downloading' <=> Downloading) /\ (Going' <=> Going)
    BY <1>1 DEF Live, Downloading, Going, Broken
  <2>4. CASE socket.destroyed
    <3> HIDE DEF x, r, q
    <3>1. Download(m0, m, m2, m3)'
      BY <1>1, <2>1, <2>2, <2>3, <2>4 DEF Down, Download
    <3>2. DownloadEnds(m2)'
      BY <1>1, <1>4, <2>1, <2>3, <2>4 DEF Down, DownloadEnds
    <3>3. QED BY <3>1, <3>2 DEF Down
  <2>5. CASE ~socket.destroyed
    <3>1. Unended(socket.out) /\ ~socket.finished
      BY <1>4, <1>6, <2>5 DEF Down, Download
    <3>2. x = End \/ x > 0
      BY <1>4, <1>6 DEF Item, End, Close
    <3>3. /\ NoClose(q) /\ Holds(q, Len(public.got), m) /\ (x > 0 => Unended(q))
          /\ (HasEnd(q) => x = End) /\ m <= m2
      <4>1. NoClose(socket.out) /\ ~HasEnd(socket.out)
        BY <1>1, <3>1, KindsApart DEF QueueTypes
      <4>2. NoClose(q) /\ (x > 0 => Unended(q)) /\ (HasEnd(q) => x = End)
        BY <1>1, <1>4, <1>6, <3>1, <4>1, AppendParts DEF QueueTypes
      <4>3. m0 = m1 /\ (x > 0 => x = m0 + 1)
        BY <1>2, <1>3, <2>5
      <4>4. Holds(q, Len(public.got), m)
        <5>1. Holds(Append(socket.out, m0 + 1), Len(public.got), m0 + 1)
              /\ Holds(Append(socket.out, End), Len(public.got), m0)
          BY <1>1, <1>2, <3>1, HoldsMore DEF QueueTypes
        <5>2. x = End => ~(x > 0)
          BY DEF End
        <5> HIDE DEF x
        <5>3. QED BY <2>2, <3>2, <4>3, <5>1, <5>2
      <4>5. m <= m2
        BY <2>2 DEF Holds
      <4>6. QED BY <4>2, <4>4, <4>5
    <3>4. object.sent \in Nat /\ m <= object.sent
      BY <1>1, <1>2, <3>3 DEF QueueTypes
    <3>5. x = End => OnlyClose(r) /\ ~Downloading
      <4>1. x = End => ~(x > 0)
        BY DEF End
      <4>2. QED BY <1>3, <1>4, <2>5, <4>1 DEF Down, Download
    <3>6. faults = 0 /\ Going /\ (HasEnd(r) \/ HasEnd(q)) => object.ended /\ m2 = object.sent
      BY <1>4, <2>5, <3>3 DEF Down, DownloadEnds
    <3> HIDE DEF x, r, q
    <3>7. Download(m, m, m2, m3)'
      <4>1. Downloading => Unended(r)
        BY <1>4, <2>5 DEF Down, Download
      <4>2. QED BY <1>1, <2>1, <2>2, <2>3, <2>5, <3>1, <3>2, <3>3, <3>4, <3>5, <4>1 DEF Down, Download
    <3>8. DownloadEnds(m2)'
      BY <1>1, <1>4, <2>1, <2>3, <2>5, <3>1, <3>6 DEF Down, DownloadEnds
    <3>9. QED BY <3>7, <3>8 DEF Down
  <2>6. QED BY <2>4, <2>5
<1>7. QED BY <1>5, <1>6

LEMMA WritesDown ==
    ASSUME Typed, Ends, NEW m0 \in Nat, NEW m1 \in Nat, NEW m2 \in Nat, NEW m3 \in Nat,
           Down(m0, m1, m2, m3), writes
    PROVE  \E m \in Nat : Down(m, m1, m2, m3)'
<1> DEFINE x == Head(socket.out)
           r == Tail(socket.out)
           q == Append(public.got, x)
           told == [public EXCEPT !.saw = "end"]
<1>1. socket.out # <<>> /\ UNCHANGED <<input, worker, object, faults>> /\ QueueTypes
      /\ public \in Public /\ link \in Link
  BY TypedQueues DEF writes, Typed
<1>2. ~socket.destroyed /\ ~socket.finished
  BY <1>1 DEF Ends, Down, Download
<1>3. /\ Holds(socket.out, Len(public.got), m0) /\ m0 <= object.sent /\ NoClose(socket.out)
      /\ Holds(link.down, m1, m2) /\ m2 <= object.sent
      /\ Len(public.got) \in Nat /\ \A i \in 1..Len(public.got) : public.got[i] = i
  <2>1. Len(public.got) \in Nat
    BY <1>1 DEF QueueTypes, Items
  <2>2. QED BY <2>1 DEF Down, Download
<1>4. /\ x > 0 => x = Len(public.got) + 1 /\ Len(public.got) + 1 <= m0 /\ Holds(r, Len(public.got) + 1, m0)
      /\ x <= 0 => Holds(r, m0, m0) /\ m0 = Len(public.got)
      /\ x = End => OnlyClose(r)
  BY <1>1, <1>3, HoldsTake DEF QueueTypes
<1>5. /\ r \in Items /\ x \in Item /\ x # Close /\ NoClose(r) /\ (Unended(socket.out) => Unended(r) /\ x > 0)
      /\ (HasEnd(r) => HasEnd(socket.out)) /\ (x = End => HasEnd(socket.out))
      /\ (x > 0 /\ Unended(r) => Unended(socket.out))
  BY <1>1, <1>3, TailItems, TailParts DEF QueueTypes
<1>6. (Live' <=> Live) /\ (Downloading' <=> Downloading) /\ (Going' <=> Going)
  BY <1>1 DEF Live, Downloading, Going, Broken
<1>7. CASE x > 0
  <2>1. /\ UNCHANGED link /\ public'.got = q /\ public'.saw = public.saw /\ public'.ended = public.ended
        /\ public'.hasty = public.hasty /\ socket'.out = r /\ socket'.finished = socket.finished
        /\ socket'.destroyed = socket.destroyed
    BY <1>7 DEF writes, Typed, Public, Socket
  <2>2. Len(q) = Len(public.got) + 1 /\ \A i \in 1..Len(q) : q[i] = i
    <3> HIDE DEF x
    <3>1. Len(q) = Len(public.got) + 1
      BY <1>1, <1>5, AppendItem DEF QueueTypes
    <3>2. QED BY <1>1, <1>3, <1>4, <1>7, <3>1, NextNumber DEF QueueTypes
  <2>3. Len(public.got) # object.sent
    BY <1>1, <1>3, <1>4, <1>7 DEF QueueTypes
  <2> HIDE DEF x, r, q
  <2>4. Download(m0, m1, m2, m3)'
    BY <1>1, <1>2, <1>3, <1>4, <1>5, <1>6, <1>7, <2>1, <2>2 DEF Down, Download
  <2>5. DownloadEnds(m2)'
    BY <1>1, <1>2, <1>5, <1>6, <2>1, <2>3 DEF Down, DownloadEnds
  <2>6. QED BY <2>4, <2>5 DEF Down
<1>8. CASE ~(x > 0)
  <2>1. x = End /\ x <= 0
    BY <1>5, <1>8 DEF Item, End, Close
  <2>2. r = <<>>
    BY <1>4, <1>5, <2>1, NothingLeft
  <2>3. faults = 0 /\ Going => object.ended /\ Len(public.got) = object.sent
    BY <1>1, <1>2, <1>8, AllSent
  <2>4. CASE socket.ended
    <3>1. Destroys(told, link) /\ told \in Public /\ told.got = public.got /\ told.ended = public.ended
          /\ told.hasty = public.hasty
      BY <1>8, <2>4 DEF writes, Typed, Public
    <3>2. faults = 0 /\ Live => NoClose(link.down)
      BY DEF Down, DownloadEnds
    <3> HIDE DEF told
    <3>3. QED BY <1>1, <1>3, <2>3, <3>1, <3>2, DestroyedDown
  <2>5. CASE ~socket.ended
    <3>1. /\ UNCHANGED link /\ public'.got = public.got /\ public'.saw = "end" /\ public'.ended = public.ended
          /\ public'.hasty = public.hasty /\ socket'.out = r /\ socket'.finished
          /\ socket'.destroyed = socket.destroyed
      BY <1>8, <2>5 DEF writes, Typed, Public, Socket
    <3>2. ~Unended(socket.out) /\ HasEnd(socket.out)
      BY <1>5, <1>8, <2>1
    <3>3. OnlyClose(link.down) /\ ~Downloading
      BY <1>2, <3>2 DEF Down, Download
    <3>4. ~HasEnd(<<>>)
      BY EmptyParts
    <3>5. Holds(r, Len(public.got), m0)
      BY <1>4, <2>1
    <3> HIDE DEF x, r
    <3>6. Download(m0, m1, m2, m3)'
      BY <1>1, <1>2, <1>3, <1>5, <1>6, <2>2, <3>1, <3>3, <3>5 DEF Down, Download
    <3>7. DownloadEnds(m2)'
      BY <1>1, <1>2, <1>6, <2>2, <2>3, <3>1, <3>2, <3>4 DEF Down, DownloadEnds
    <3>8. QED BY <3>6, <3>7 DEF Down
  <2>6. QED BY <2>4, <2>5
<1>9. QED BY <1>7, <1>8

\* The worker takes what the client sends.
LEMMA WorkerTakesDown ==
    ASSUME Typed, NEW m0 \in Nat, NEW m1 \in Nat, NEW m2 \in Nat, NEW m3 \in Nat,
           Down(m0, m1, m2, m3), received \/ pipesUp
    PROVE  Down(m0, m1, m2, m3)'
<1>1. /\ UNCHANGED <<input, public, socket, faults>> /\ link'.down = link.down
      /\ worker'.phase = worker.phase /\ worker'.down = worker.down
      /\ object'.state = object.state /\ object'.out = object.out /\ object'.sent = object.sent
      /\ object'.ended = object.ended
  <2>1. CASE received
    BY <2>1 DEF received, closeIncoming, Typed, Worker, Link
  <2>2. CASE pipesUp
    <3>1. worker'.phase = worker.phase /\ worker'.down = worker.down
      BY <2>2 DEF pipesUp, Typed, Worker
    <3>2. /\ object'.state = object.state /\ object'.out = object.out /\ object'.sent = object.sent
          /\ object'.ended = object.ended
      BY <2>2 DEF pipesUp, Typed, ObjectTyped
    <3>3. QED BY <2>2, <3>1, <3>2 DEF pipesUp
  <2>3. QED BY <2>1, <2>2
<1>2. Live' <=> Live
  BY <1>1 DEF Live
<1>3. QED BY <1>1, <1>2, FrameDown

\* A connection that no tunnel was opened for, or that the tunnel broke, is over.
LEMMA EarlyDown ==
    ASSUME Typed, Ends, NEW m0 \in Nat, NEW m1 \in Nat, NEW m2 \in Nat, NEW m3 \in Nat,
           Down(m0, m1, m2, m3), NEW w \in Worker, NEW phase \in {"rejected", "closed"},
           Closes(w, phase), UNCHANGED <<public, socket, object>>, faults' = 0 => faults = 0,
           worker.phase \in {"hello", "opening"} \/ Broken
    PROVE  Down(m0, m1, m2, m3)'
<1>1. ~Live'
  BY ClosesFields
<1>2. object.state = "none" \/ Broken
  BY DEF Ends
<1>3. ~Going'
  BY <1>1, <1>2 DEF Going, Broken
<1>4. QED BY <1>3, ClosesDown

LEMMA HelloDown ==
    ASSUME Typed, Ends, NEW m0 \in Nat, NEW m1 \in Nat, NEW m2 \in Nat, NEW m3 \in Nat,
           Down(m0, m1, m2, m3), readHello \/ timesOut \/ openFails
    PROVE  Down(m0, m1, m2, m3)'
<1>1. CASE timesOut \/ openFails
  <2>1. /\ Closes(worker, "closed") /\ UNCHANGED <<public, socket, object>> /\ (faults' = 0 => faults = 0)
        /\ worker.phase \in {"hello", "opening"} /\ worker \in Worker
    BY <1>1 DEF timesOut, openFails, Fault, Typed
  <2>2. QED BY <2>1, EarlyDown
<1>2. CASE readHello
  <2> DEFINE read == [worker EXCEPT !.chain = Tail(@), !.chunks = Append(@, Head(worker.chain))]
             id == tunnelIDFromHostname(Parsed[input][Size(Len(read.chunks))].serverName)
  <2>1. /\ worker.phase = "hello" /\ worker.chain # <<>> /\ UNCHANGED <<input, public, socket, faults>>
        /\ worker \in Worker
    BY <1>2 DEF readHello, Typed
  <2>2. read \in Worker /\ read.phase = "hello" /\ read.down = worker.down
    <3>1. worker.chain \in Items /\ worker.chunks \in Items
      BY TypedQueues DEF QueueTypes
    <3>2. Tail(worker.chain) \in Items /\ Append(worker.chunks, Head(worker.chain)) \in Items
      BY <2>1, <3>1, TailItems, AppendItem
    <3>3. QED BY <2>1, <3>2 DEF Worker
  <2>3. CASE Closes(worker, "closed") /\ UNCHANGED object
    BY <2>1, <2>3, EarlyDown
  <2>4. CASE Closes(read, "rejected") /\ UNCHANGED object
    <3> HIDE DEF read
    <3>1. QED BY <2>1, <2>2, <2>4, EarlyDown
  <2>5. CASE /\ worker' = read \/ worker' = [read EXCEPT !.phase = "opening"]
             /\ object' = object \/ object' = [object EXCEPT !.id = id]
             /\ UNCHANGED link
    <3>1. worker'.phase \in {"hello", "opening"} /\ worker'.down = worker.down
      <4> HIDE DEF read
      <4>1. QED BY <2>2, <2>5 DEF Worker
    <3>2. /\ object'.state = object.state /\ object'.out = object.out /\ object'.sent = object.sent
          /\ object'.ended = object.ended
      <4> HIDE DEF id
      <4>1. QED BY <2>5 DEF Typed, ObjectTyped
    <3>3. Live' <=> Live
      BY <2>1, <3>1 DEF Live
    <3>4. QED BY <2>1, <2>5, <3>1, <3>2, <3>3, FrameDown
  <2>6. QED BY <1>2, <2>3, <2>4, <2>5 DEF readHello
<1>3. QED BY <1>1, <1>2

LEMMA OpenedDown ==
    ASSUME Typed, Ends, NEW m0 \in Nat, NEW m1 \in Nat, NEW m2 \in Nat, NEW m3 \in Nat,
           Down(m0, m1, m2, m3), opened
    PROVE  Down(m0, m1, m2, m3)'
<1>1. /\ UNCHANGED <<public, socket, link, faults>> /\ worker.phase = "opening"
      /\ worker'.phase = "replay" /\ worker'.down = worker.down
      /\ object'.state = "reading" /\ object'.out = object.out /\ object'.sent = object.sent
      /\ object'.ended = object.ended
  BY DEF opened, Typed, ObjectTyped, Worker
<1>2. object.state = "none" /\ Live /\ Live'
  BY <1>1 DEF Ends, Live
<1>3. (Downloading' <=> Downloading) /\ Going
  BY <1>1, <1>2 DEF Downloading, Going, Broken
<1>4. Download(m0, m1, m2, m3)'
  BY <1>1, <1>2, <1>3 DEF Down, Download
<1>5. DownloadEnds(m2)'
  BY <1>1, <1>2, <1>3 DEF Down, DownloadEnds
<1>6. QED BY <1>4, <1>5 DEF Down

LEMMA ReplayDown ==
    ASSUME Typed, Ends, NEW m0 \in Nat, NEW m1 \in Nat, NEW m2 \in Nat, NEW m3 \in Nat,
           Down(m0, m1, m2, m3), replay
    PROVE  Down(m0, m1, m2, m3)'
<1>1. UNCHANGED <<input, public, socket, faults>> /\ worker.phase = "replay" /\ worker \in Worker
  BY DEF replay, Typed
<1>2. CASE Closes(worker, "closed") /\ UNCHANGED object /\ Broken
  BY <1>1, <1>2, EarlyDown
<1>3. CASE ~(Closes(worker, "closed") /\ UNCHANGED object /\ Broken)
  <2>1. /\ worker'.phase \in {"replay", "piping"} /\ worker'.down = worker.down /\ UNCHANGED link
        /\ object'.state = object.state /\ object'.out = object.out /\ object'.sent = object.sent
        /\ object'.ended = object.ended
    BY <1>1, <1>3 DEF replay, Typed, Worker, ObjectTyped
  <2>2. Live' <=> Live
    BY <1>1, <2>1 DEF Live
  <2>3. QED BY <1>1, <2>1, <2>2, FrameDown
<1>4. QED BY <1>2, <1>3

LEMMA PipesDownDown ==
    ASSUME Typed, Ends, NEW m0 \in Nat, NEW m1 \in Nat, NEW m2 \in Nat, NEW m3 \in Nat,
           Down(m0, m1, m2, m3), pipesDown
    PROVE  \E m \in Nat : Down(m0, m1, m, m3)'
<1> DEFINE x == Head(object.out)
           r == Tail(object.out)
           q == Append(link.down, x)
<1>1. /\ worker.phase = "piping" /\ worker.down = "running" /\ object.out # <<>> /\ QueueTypes
      /\ UNCHANGED <<input, public, socket, faults>> /\ Downloading /\ Live /\ End # Close
  BY TypedQueues DEF pipesDown, Downloading, Live, End, Close
<1>2. /\ worker'.phase = worker.phase /\ object'.state = object.state /\ object'.out = r
      /\ object'.sent = object.sent /\ object'.ended = object.ended
  BY DEF pipesDown, Typed, Worker, ObjectTyped
<1>3. Live' /\ (Going' <=> Going)
  BY <1>1, <1>2 DEF Live, Going, Broken
<1>4. /\ r \in Items /\ x \in Item /\ (NoClose(object.out) => NoClose(r) /\ x # Close)
      /\ (Unended(object.out) => Unended(r) /\ x > 0)
  BY <1>1, TailItems, TailParts DEF QueueTypes
<1>5. object.state \notin {"none", "reading"}
  BY <1>1 DEF Down, Download
<1>6. CASE socket.destroyed
  <2>1. link'.down = link.down
    BY <1>6 DEF pipesDown, SendsDown, Ends
  <2> HIDE DEF x, r, q
  <2>2. Download(m0, m1, m2, m3)'
    BY <1>1, <1>2, <1>4, <1>5, <1>6, <2>1 DEF Down, Download
  <2>3. DownloadEnds(m2)'
    BY <1>1, <1>2, <1>3, <1>4, <1>6, <2>1 DEF Down, DownloadEnds
  <2>4. QED BY <2>2, <2>3 DEF Down
<1>7. CASE ~socket.destroyed
  <2>1. Unended(link.down) /\ Unended(socket.out) /\ ~socket.finished
    BY <1>1, <1>7 DEF Down, Download
  <2>2. NoClose(link.down) /\ ~HasEnd(link.down) /\ ~HasEnd(socket.out)
    BY <1>1, <2>1, KindsApart DEF QueueTypes
  <2>3. link'.down = q
    <3>1. link.down = <<>> \/ link.down[Len(link.down)] # Close
      <4>1. Len(link.down) \in Nat /\ (Len(link.down) = 0 => link.down = <<>>)
        BY <1>1 DEF QueueTypes, Items
      <4>2. Len(link.down) # 0 => Len(link.down) \in 1..Len(link.down)
        BY <4>1
      <4>3. QED BY <2>2, <4>1, <4>2 DEF NoClose
    <3>2. link.state \notin {"closing", "closed"}
      BY <1>7 DEF Ends
    <3>3. QED BY <3>1, <3>2 DEF pipesDown, SendsDown, Typed, Link
  <2>4. worker'.down = CASE x = End -> "done" [] x = Close -> "failed" [] OTHER -> "running"
    <3>1. link.state \notin {"closing", "closed"}
      BY <1>7 DEF Ends
    <3>2. QED BY <1>1, <3>1 DEF pipesDown, Typed, Worker
  <2>5. Holds(object.out, m2, m3) /\ Holds(link.down, m1, m2) /\ m2 <= object.sent /\ m3 <= object.sent
    BY <1>1, <1>7 DEF Down, Download
  <2>6. /\ x > 0 => x = m2 + 1 /\ m2 + 1 <= m3 /\ Holds(r, m2 + 1, m3)
        /\ x <= 0 => m2 = m3
    BY <1>1, <2>5, HoldsTake DEF QueueTypes
  <2>7. /\ Holds(Append(link.down, m2 + 1), m1, m2 + 1)
        /\ Holds(Append(link.down, End), m1, m2) /\ Holds(Append(link.down, Close), m1, m2)
    BY <1>1, <2>1, <2>5, HoldsMore DEF QueueTypes
  <2>8. /\ (x > 0 => Unended(q)) /\ (x # Close => NoClose(q)) /\ (HasEnd(q) => x = End)
    BY <1>1, <1>4, <2>1, <2>2, AppendParts DEF QueueTypes
  <2>9. CASE x > 0
    <3>1. x # End /\ x # Close
      BY <2>9 DEF End, Close
    <3>2. m2 + 1 \in Nat /\ m2 + 1 <= object.sent /\ Holds(q, m1, m2 + 1)
      BY <1>1, <2>5, <2>6, <2>7, <2>9 DEF QueueTypes
    <3>3. Downloading'
      BY <1>3, <2>4, <3>1 DEF Downloading
    <3> HIDE DEF x, r, q
    <3>4. Download(m0, m1, m2 + 1, m3)'
      BY <1>1, <1>2, <1>4, <1>5, <1>7, <2>1, <2>3, <2>6, <2>8, <2>9, <3>2 DEF Down, Download
    <3>5. DownloadEnds(m2 + 1)'
      BY <1>1, <1>2, <1>3, <1>4, <2>1, <2>2, <2>3, <2>4, <2>8, <3>1 DEF Down, DownloadEnds
    <3>6. QED BY <3>2, <3>4, <3>5 DEF Down
  <2>10. CASE ~(x > 0)
    <3>1. x \in {End, Close} /\ m2 = m3
      <4>1. x \in {End, Close} /\ x <= 0
        BY <1>4, <2>10 DEF Item, End, Close
      <4>2. QED BY <2>6, <4>1
    <3>2. Holds(q, m1, m2)
      BY <2>7, <3>1
    <3>3. ~Downloading'
      BY <1>1, <2>4, <3>1 DEF Downloading
    <3>4. ~Unended(object.out)
      BY <1>4, <2>10
    <3>5. Going => object.ended /\ m2 = object.sent
      <4>1. Going => object.state = "open"
        BY <1>5 DEF Going, Broken, Typed, ObjectTyped
      <4>2. QED BY <3>1, <3>4, <4>1 DEF Down, Download
    <3>6. x = Close => faults # 0
      BY <1>4 DEF Down, DownloadEnds
    <3> HIDE DEF x, r, q
    <3>7. Download(m0, m1, m2, m3)'
      BY <1>1, <1>2, <1>4, <1>5, <1>7, <2>1, <2>3, <3>2, <3>3, <3>4 DEF Down, Download
    <3>8. DownloadEnds(m2)'
      BY <1>1, <1>2, <1>3, <1>4, <1>7, <2>1, <2>3, <2>4, <2>8, <3>1, <3>5, <3>6 DEF Down, DownloadEnds
    <3>9. QED BY <3>7, <3>8 DEF Down
  <2>11. QED BY <2>9, <2>10
<1>8. QED BY <1>6, <1>7

LEMMA ClosesBothDown ==
    ASSUME Typed, Ends, Uploads, NEW m0 \in Nat, NEW m1 \in Nat, NEW m2 \in Nat, NEW m3 \in Nat,
           Down(m0, m1, m2, m3), closesBoth
    PROVE  Down(m0, m1, m2, m3)'
<1>1. /\ worker.phase = "piping" /\ PipesOver /\ Closes(worker, "closed") /\ worker \in Worker
      /\ UNCHANGED <<input, public, socket, faults>> /\ Live
      /\ object'.state = object.state /\ object'.out = object.out /\ object'.sent = object.sent
      /\ object'.ended = object.ended
  BY DEF closesBoth, Typed, ObjectTyped, Live
<1>2. PICK n1 \in Nat, n2 \in Nat, n3 \in Nat, n4 \in Nat : Up(n1, n2, n3, n4)
  BY DEF Uploads
<1>3. Going' => ~Broken /\ Going
  BY <1>1 DEF Going, Broken
<1>4. faults = 0 /\ ~Broken /\ ~public.hasty => public.saw # "open"
  <2> SUFFICES ASSUME faults = 0, ~Broken, ~public.hasty
               PROVE  public.saw # "open"
    OBVIOUS
  <2>1. CASE worker.up = "done"
    <3>1. public.ended
      BY <1>1, <1>2, <2>1 DEF Up, UploadEnds
    <3>2. QED BY <3>1 DEF Down, DownloadEnds
  <2>2. CASE worker.up = "failed"
    BY <1>1, <2>2 DEF Ends
  <2>3. CASE worker.down = "failed"
    BY <1>1, <2>3 DEF Down, DownloadEnds
  <2>4. QED BY <1>1, <2>1, <2>2, <2>3 DEF PipesOver
<1>5. QED BY <1>1, <1>3, <1>4, ClosesDown

LEMMA ConnectDown ==
    ASSUME Typed, NEW m0 \in Nat, NEW m1 \in Nat, NEW m2 \in Nat, NEW m3 \in Nat,
           Down(m0, m1, m2, m3), connect
    PROVE  Down(m0, m1, m2, m3)'
<1> DEFINE read == ChunkRead
<1>1. /\ object.state = "reading" /\ UNCHANGED <<input, public, socket, link, worker, faults>>
      /\ \/ object' \in {read, Refused(read), Refused(object)}
         \/ \E route \in Attached : object' = Opened(route)
  <2>1. UNCHANGED <<input, public, socket, link, worker, faults>> /\ object.state = "reading"
    BY DEF connect
  <2>2. QED BY <2>1, ConnectCases
<1>2. object.out = <<>> /\ object.sent = 0 /\ ~object.ended /\ m3 = object.sent
  <2>1. object.out = <<>> /\ object.sent = 0 /\ ~object.ended /\ m3 <= object.sent
    BY <1>1 DEF Down, Download
  <2>2. QED BY <2>1
<1>3. /\ object'.sent = object.sent /\ object'.ended = object.ended
      /\ \/ object'.state \in {"reading", "open"} /\ object'.out = object.out
         \/ object'.state = "refused" /\ object'.out = <<End>>
  <2>1. /\ read.sent = object.sent /\ read.ended = object.ended /\ read.state = "reading"
        /\ read.out = object.out
        /\ read \in [state: {"reading"}, id: {object.id}, in: {Tail(object.in)},
                     got: {Append(object.got, Head(object.in))}, route: Nat,
                     up: {object.up}, sent: Nat, ended: BOOLEAN, out: Items]
    BY <1>1 DEF Typed, ObjectTyped, ChunkRead
  <2>2. ASSUME NEW route \in Attached
        PROVE  /\ Opened(route).sent = read.sent /\ Opened(route).ended = read.ended
               /\ Opened(route).state = "open" /\ Opened(route).out = read.out
    BY <2>1 DEF Opened
  <2>3. /\ Refused(read).sent = read.sent /\ Refused(read).ended = read.ended
        /\ Refused(read).state = "refused" /\ Refused(read).out = <<End>>
    BY <2>1 DEF Refused
  <2>4. /\ Refused(object).sent = object.sent /\ Refused(object).ended = object.ended
        /\ Refused(object).state = "refused" /\ Refused(object).out = <<End>>
    BY DEF Refused, Typed, ObjectTyped
  <2> HIDE DEF read
  <2>5. QED BY <1>1, <2>1, <2>2, <2>3, <2>4
<1>4. /\ Unended(<<>>) /\ NoClose(<<>>) /\ <<>> \in Items /\ End \in Item /\ End # Close
      /\ <<End>> = Append(<<>>, End)
  BY EmptyParts DEF Item, End, Close
<1>5. NoClose(<<End>>)
  BY <1>4, AppendParts
<1>6. Holds(<<>>, m2, m3) => Holds(<<End>>, m2, m3)
  BY <1>4, HoldsMore
<1> HIDE DEF read
<1>7. (Live' <=> Live) /\ (Downloading' <=> Downloading) /\ Going
      /\ (Going' <=> object'.state # "refused")
  BY <1>1, <1>3 DEF Live, Downloading, Going, Broken
<1>8. Download(m0, m1, m2, m3)'
  BY <1>1, <1>2, <1>3, <1>4, <1>6, <1>7 DEF Down, Download
<1>9. DownloadEnds(m2)'
  BY <1>1, <1>2, <1>3, <1>4, <1>5, <1>7 DEF Down, DownloadEnds
<1>10. QED BY <1>8, <1>9 DEF Down

LEMMA UploadDown ==
    ASSUME Typed, NEW m0 \in Nat, NEW m1 \in Nat, NEW m2 \in Nat, NEW m3 \in Nat,
           Down(m0, m1, m2, m3), upload
    PROVE  Down(m0, m1, m2, m3)'
<1>1. /\ UNCHANGED <<public, socket, link, worker, faults>>
      /\ object'.state = object.state /\ object'.out = object.out /\ object'.sent = object.sent
      /\ object'.ended = object.ended
  BY DEF upload, Typed, ObjectTyped
<1>2. Live' <=> Live
  BY <1>1 DEF Live
<1>3. QED BY <1>1, <1>2, FrameDown

LEMMA ObjectSendsDown ==
    ASSUME Typed, NEW m0 \in Nat, NEW m1 \in Nat, NEW m2 \in Nat, NEW m3 \in Nat,
           Down(m0, m1, m2, m3), replies \/ endsReplies
    PROVE  \E m \in Nat : Down(m0, m1, m2, m)'
<1> DEFINE q == Append(object.out, object.sent + 1)
           e == Append(object.out, End)
<1>1. /\ UNCHANGED <<input, public, socket, link, worker, faults>> /\ QueueTypes
      /\ object.state = "open" /\ ~object.ended /\ object'.state = object.state
      /\ \/ object'.sent = object.sent + 1 /\ object'.out = q /\ ~object'.ended
         \/ object'.sent = object.sent /\ object'.out = e /\ object'.ended
  BY TypedQueues DEF replies, endsReplies, Typed, ObjectTyped
<1>2. /\ Unended(object.out) /\ m3 = object.sent /\ m0 <= object.sent /\ m2 <= object.sent
      /\ object.sent \in Nat /\ object.out \in Items
      /\ (Downloading /\ ~socket.destroyed => Holds(object.out, m2, object.sent))
  BY <1>1 DEF Down, Download, QueueTypes
<1>3. /\ End \in Item /\ End # Close /\ object.sent + 1 \in Item /\ object.sent + 1 > 0
      /\ object.sent + 1 # Close /\ object.sent + 1 \in Nat
  BY <1>2 DEF Item, End, Close
<1>4. Unended(q) /\ NoClose(q) /\ NoClose(e)
  BY <1>2, <1>3, AppendParts, KindsApart
<1>5. Downloading /\ ~socket.destroyed => Holds(q, m2, object.sent + 1) /\ Holds(e, m2, object.sent)
  BY <1>2, HoldsMore
<1>6. (Live' <=> Live) /\ (Downloading' <=> Downloading) /\ (Going' <=> Going) /\ Going
  BY <1>1 DEF Live, Downloading, Going, Broken
<1> HIDE DEF q, e
<1>7. PICK m \in Nat : m = object'.sent
  BY <1>1, <1>2, <1>3
<1>8. Download(m0, m1, m2, m)'
  <2>1. m0 <= object'.sent /\ m2 <= object'.sent /\ m <= object'.sent
    BY <1>1, <1>2, <1>7
  <2>2. Downloading /\ ~socket.destroyed => Holds(object.out, m2, m)'
    BY <1>1, <1>5, <1>7
  <2>3. QED BY <1>1, <1>4, <1>6, <1>7, <2>1, <2>2 DEF Down, Download
<1>9. DownloadEnds(m2)'
  <2>1. ~(faults = 0 /\ ~public.hasty /\ public.saw # "open")
    BY <1>1, <1>6 DEF Down, DownloadEnds
  <2>2. ~(faults = 0 /\ ~socket.destroyed /\ (HasEnd(link.down) \/ HasEnd(socket.out) \/ socket.finished))
    BY <1>1, <1>6 DEF Down, DownloadEnds
  <2>3. faults' = 0 => NoClose(object'.out)
    BY <1>1, <1>4
  <2>4. QED BY <1>1, <1>6, <2>1, <2>2, <2>3 DEF Down, DownloadEnds
<1>10. QED BY <1>8, <1>9 DEF Down

LEMMA FaultsDown ==
    ASSUME Typed, Ends, NEW m0 \in Nat, NEW m1 \in Nat, NEW m2 \in Nat, NEW m3 \in Nat,
           Down(m0, m1, m2, m3), Faults
    PROVE  \E a, b, c, d \in Nat : Down(a, b, c, d)'
<1>1. CASE aborts
  <2> DEFINE p == [public EXCEPT !.saw = "gone"]
  <2>1. /\ UNCHANGED <<worker, object>> /\ faults' # 0 /\ Destroys(p, link) /\ link \in Link
    BY <1>1 DEF aborts, Fault, Typed
  <2>2. /\ p \in Public /\ p.got = public.got /\ p.ended = public.ended /\ p.hasty = public.hasty
    BY DEF Typed, Public
  <2>3. Holds(link.down, m1, m2) /\ m2 <= object.sent
    BY DEF Down, Download
  <2> HIDE DEF p
  <2>4. \E m \in Nat : Down(m, m1, m2, m3)'
    BY <2>1, <2>2, <2>3, DestroyedDown
  <2>5. QED BY <2>4
<1>2. CASE loses
  <2>1. UNCHANGED <<worker, object>> /\ faults' # 0 /\ public \in Public /\ QueueTypes /\ Close \in Item
    BY <1>2, TypedQueues DEF loses, Fault, Typed, Item
  <2>2. PICK n \in 0..Len(link.up) :
           Destroys(public, [state |-> "closed", up |-> SubSeq(link.up, 1, n) \o
                                 IF link.state = "connecting" THEN <<>> ELSE <<Close>>,
                             down |-> <<>>])
    BY <1>2 DEF loses
  <2> DEFINE t == IF link.state = "connecting" THEN <<>> ELSE <<Close>>
             l == [state |-> "closed", up |-> SubSeq(link.up, 1, n) \o t, down |-> <<>>]
  <2>3. l \in Link /\ l.down = <<>>
    <3>1. SubSeq(link.up, 1, n) \in Items
      BY <2>1, CutItems DEF QueueTypes
    <3>2. t \in Items
      <4>1. <<>> \in Items /\ Append(<<>>, Close) \in Items
        BY <2>1, EmptyParts, AppendItem
      <4>2. <<Close>> = Append(<<>>, Close)
        OBVIOUS
      <4>3. QED BY <4>1, <4>2
    <3>3. SubSeq(link.up, 1, n) \o t \in Items
      <4> HIDE DEF t
      <4>1. QED BY <3>1, <3>2 DEF Items
    <3>4. QED BY <3>3, EmptyParts DEF Link
  <2>4. Holds(<<>>, m2, m2) /\ m2 <= object.sent
    BY EmptyParts DEF Down, Download
  <2> HIDE DEF l
  <2>5. \E m \in Nat : Down(m, m2, m2, m3)'
    <3>1. Destroys(public, l)
      BY <2>2 DEF l
    <3>2. QED BY <2>1, <2>3, <2>4, <3>1, DestroyedDown
  <2>6. QED BY <2>5
<1>3. CASE openFails
  <2>1. Down(m0, m1, m2, m3)'
    BY <1>3, HelloDown
  <2>2. QED BY <2>1
<1>4. CASE resets
  <2>1. /\ UNCHANGED <<public, socket, link, worker>> /\ faults' # 0 /\ object.state = "open"
        /\ object'.state = "reset" /\ object'.out = <<Close>> /\ object'.sent = object.sent
        /\ object'.ended = object.ended
    BY <1>4 DEF resets, Fault, Typed, ObjectTyped
  <2>2. (Live' <=> Live) /\ (Downloading' <=> Downloading)
    BY <2>1 DEF Live, Downloading
  <2>3. Holds(<<Close>>, m2, m2)
    <3>1. Holds(Append(<<>>, Close), m2, m2)
      BY EmptyParts, HoldsMore
    <3>2. <<Close>> = Append(<<>>, Close)
      OBVIOUS
    <3>3. QED BY <3>1, <3>2
  <2>4. Download(m0, m1, m2, m2)'
    BY <2>1, <2>2, <2>3 DEF Down, Download
  <2>5. DownloadEnds(m2)'
    BY <2>1 DEF Down, DownloadEnds
  <2>6. QED BY <2>4, <2>5 DEF Down
<1>5. QED BY <1>1, <1>2, <1>3, <1>4 DEF Faults

\* The four numbers of Download.
Downloads == \E m0, m1, m2, m3 \in Nat : Down(m0, m1, m2, m3)

LEMMA InitDown == Init => Downloads
<1> SUFFICES ASSUME Init
             PROVE  Downloads
  OBVIOUS
<1>1. /\ Unended(<<>>) /\ NoClose(<<>>) /\ ~HasEnd(<<>>) /\ Holds(<<>>, 0, 0)
      /\ Len(<<>>) = 0
  BY EmptyParts
<1>2. Download(0, 0, 0, 0)
  BY <1>1 DEF Init, Download
<1>3. DownloadEnds(0)
  BY <1>1 DEF Init, DownloadEnds, Live
<1>4. QED BY <1>2, <1>3 DEF Downloads, Down

LEMMA NextDown ==
    ASSUME Typed, Ends, Uploads, Downloads, [Next]_vars
    PROVE  Downloads'
<1>1. PICK m0 \in Nat, m1 \in Nat, m2 \in Nat, m3 \in Nat : Down(m0, m1, m2, m3)
  BY DEF Downloads
<1>2. CASE Client
  <2>1. Down(m0, m1, m2, m3)'
    BY <1>1, <1>2, ClientDown
  <2>2. QED BY <2>1 DEF Downloads
<1>3. CASE RelaySteps
  <2>1. \E a, b \in Nat : Down(a, b, m2, m3)'
    <3>1. CASE opens \/ onData BY <1>1, <3>1, RelaySendsDown
    <3>2. CASE onEnd BY <1>1, <3>2, OnEndDown
    <3>3. CASE onMessage BY <1>1, <3>3, OnMessageDown
    <3>4. CASE writes BY <1>1, <3>4, WritesDown
    <3>5. QED BY <1>3, <3>1, <3>2, <3>3, <3>4 DEF RelaySteps
  <2>2. QED BY <2>1 DEF Downloads
<1>4. CASE WorkerSteps
  <2>1. \E m \in Nat : Down(m0, m1, m, m3)'
    <3>1. CASE received \/ pipesUp BY <1>1, <3>1, WorkerTakesDown
    <3>2. CASE readHello \/ timesOut BY <1>1, <3>2, HelloDown
    <3>3. CASE opened BY <1>1, <3>3, OpenedDown
    <3>4. CASE replay BY <1>1, <3>4, ReplayDown
    <3>5. CASE pipesDown BY <1>1, <3>5, PipesDownDown
    <3>6. CASE closesBoth BY <1>1, <3>6, ClosesBothDown
    <3>7. QED BY <1>4, <3>1, <3>2, <3>3, <3>4, <3>5, <3>6 DEF WorkerSteps
  <2>2. QED BY <2>1 DEF Downloads
<1>5. CASE ObjectSteps
  <2>1. \E m \in Nat : Down(m0, m1, m2, m)'
    BY <1>1, <1>5, ConnectDown, UploadDown, ObjectSendsDown DEF ObjectSteps
  <2>2. QED BY <2>1 DEF Downloads
<1>6. CASE Faults
  BY <1>1, <1>6, FaultsDown DEF Downloads
<1>7. CASE UNCHANGED vars
  <2>1. UNCHANGED <<public, socket, link, worker, object, faults>> /\ (Live' <=> Live)
    BY <1>7 DEF vars, Live
  <2>2. Down(m0, m1, m2, m3)'
    BY <1>1, <2>1, FrameDown
  <2>3. QED BY <2>2 DEF Downloads
<1>8. QED BY <1>2, <1>3, <1>4, <1>5, <1>6, <1>7 DEF Next

-----------------------------------------------------------------------------
(* Both directions as a whole. *)

Carried == Typed /\ Ends /\ Uploads /\ Downloads

LEMMA AlwaysCarried == Spec => []Carried
<1>1. Init => Carried
  BY InitTyped, InitUp, InitDown DEF Carried
<1>2. ASSUME Carried, [Next]_vars
      PROVE  Carried'
  <2>1. Typed /\ Ends /\ Uploads /\ Downloads
    BY <1>2 DEF Carried
  <2>2. faults = 0 /\ Live => NoClose(link.down)
    BY <2>1 DEF Downloads, Down, DownloadEnds
  <2>3. Typed'
    BY <1>2, <2>1, NextTyped
  <2>4. Ends' /\ Uploads'
    BY <1>2, <2>1, <2>2, NextUp, StutterUp
  <2>5. Downloads'
    BY <1>2, <2>1, NextDown
  <2>6. QED BY <2>3, <2>4, <2>5 DEF Carried
<1>3. QED BY <1>1, <1>2, PTL DEF Spec

LEMMA CarriedWhole == ASSUME Carried PROVE Whole
<1>1. Typed /\ QueueTypes
  BY TypedQueues DEF Carried
<1>2. PICK n1 \in Nat, n2 \in Nat, n3 \in Nat, n4 \in Nat : Up(n1, n2, n3, n4)
  BY DEF Carried, Uploads
<1>3. PICK m0 \in Nat, m1 \in Nat, m2 \in Nat, m3 \in Nat : Down(m0, m1, m2, m3)
  BY DEF Carried, Downloads
<1>4. /\ Len(object.got) \in Nat /\ Len(public.got) \in Nat /\ public.sent \in Nat
      /\ object.sent \in Nat
  BY <1>1 DEF QueueTypes, Items
<1>5. IsBeginning(object.got, public.sent)
  <2>1. Holds(object.in, Len(object.got), n1) /\ n1 <= public.sent
        /\ \A i \in 1..Len(object.got) : object.got[i] = i
    BY <1>2 DEF Up, Upload
  <2>2. Len(object.got) <= n1
    BY <2>1 DEF Holds
  <2>3. QED BY <1>4, <2>1, <2>2 DEF IsBeginning
<1>6. IsBeginning(public.got, object.sent)
  <2>1. Holds(socket.out, Len(public.got), m0) /\ m0 <= object.sent
        /\ \A i \in 1..Len(public.got) : public.got[i] = i
    BY <1>3 DEF Down, Download
  <2>2. Len(public.got) <= m0
    BY <2>1 DEF Holds
  <2>3. QED BY <1>4, <2>1, <2>2 DEF IsBeginning
<1>7. faults = 0 /\ object.up = "ended" => public.ended /\ Len(object.got) = public.sent
  <2> SUFFICES ASSUME faults = 0, object.up = "ended"
               PROVE  public.ended /\ Len(object.got) = public.sent
    OBVIOUS
  <2>1. OnlyClose(object.in) /\ public.ended /\ n1 = public.sent
    BY <1>2 DEF Carried, Ends, Up, UploadEnds
  <2>2. Holds(object.in, Len(object.got), n1)
    BY <1>2 DEF Up, Upload
  <2>3. QED BY <1>1, <1>4, <2>1, <2>2, HoldsNothing DEF QueueTypes
<1>8. faults = 0 /\ public.saw = "end" /\ object.state = "open" /\ ~public.hasty =>
         object.ended /\ Len(public.got) = object.sent
  BY <1>3 DEF Down, DownloadEnds, Going, Broken
<1>9. QED BY <1>5, <1>6, <1>7, <1>8 DEF Whole

(* Both directions carry what was sent, in order, and unless something failed an end comes *)
(* behind all of it (index.ts:82-97, 115-150, index.mjs:33-58).                            *)
THEOREM CarriesWhole == Spec => []Whole
  BY AlwaysCarried, CarriedWhole, PTL

-----------------------------------------------------------------------------
(* Routes. *)

Routed ==
    /\ object.id \in {None, input.id}
    /\ worker.phase = "none" => worker.chunks = <<>>
    /\ worker.phase = "hello" => \A n \in 1..Len(worker.chunks) : ~Stops(n)
    /\ worker.phase \in {"opening", "replay", "piping"} \/ object.state # "none" =>
          First(Len(worker.chunks)) /\ object.id = input.id /\ input.id # None
    /\ worker.phase = "rejected" => input.id = None
    /\ object.state = "reading" => \/ Len(object.got) < Len(worker.chunks)
                                   \/ object.in # <<>> /\ Head(object.in) > 0
    /\ object.state = "open" => object.route = input.route
    /\ object.state = "refused" => input.route \notin Attached \/ input \in Overlong

LEMMA InitRouted == Init => Routed
  BY DEF Init, Routed

\* Both read chunks that the client has sent.
LEMMA ReadBounds ==
    ASSUME Carried
    PROVE  /\ input \in Inputs /\ Len(worker.chunks) \in Nat /\ Len(object.got) \in Nat
           /\ Len(input.ends) \in Nat
           /\ Len(worker.chunks) <= Len(input.ends) /\ Len(object.got) <= Len(input.ends)
<1>1. Typed /\ QueueTypes
  BY TypedQueues DEF Carried
<1>2. /\ Len(worker.chunks) \in Nat /\ Len(object.got) \in Nat /\ public.sent \in Nat
      /\ public.sent <= Len(input.ends) /\ input \in Inputs
  <2>1. public.sent <= Len(input.ends) /\ input \in Inputs
    BY <1>1 DEF Typed
  <2>2. worker.chunks \in Items /\ object.got \in Items /\ public.sent \in Nat
    BY <1>1 DEF QueueTypes
  <2>3. Len(worker.chunks) \in Nat /\ Len(object.got) \in Nat
    BY <2>2 DEF Items
  <2>4. QED BY <2>1, <2>2, <2>3
<1>3. Len(input.ends) \in Nat
  BY <1>2, RelayAssumption
<1>4. Len(object.got) <= public.sent
  BY CarriedWhole DEF Whole, IsBeginning
<1>5. Len(worker.chunks) <= public.sent
  BY DEF Carried, Uploads, Up, Upload
<1>6. QED BY <1>2, <1>3, <1>4, <1>5

\* What changes neither the phase, the state, nor what was read.
LEMMA FrameRouted ==
    ASSUME Routed, UNCHANGED input, worker'.chunks = worker.chunks, object'.id = object.id,
           \/ worker'.phase = worker.phase
           \/ worker'.phase = "closed"
           \/ worker.phase = "replay" /\ worker'.phase = "piping",
           \/ /\ object'.state = object.state /\ object'.route = object.route
              /\ object'.got = object.got \/ object.state = "open"
              /\ object.state = "reading" /\ object.in # <<>> =>
                    object'.in # <<>> /\ Head(object'.in) = Head(object.in)
           \/ object.state = "open" /\ object'.state = "reset"
    PROVE  Routed'
  BY DEF Routed, Stops, First, ReadsOn, Size

LEMMA AppendHead ==
    ASSUME NEW q \in Items, NEW x \in Item, q # <<>>
    PROVE  Append(q, x) # <<>> /\ Head(Append(q, x)) = Head(q)
<1>1. Len(q) \in Nat \ {0} /\ Len(Append(q, x)) = Len(q) + 1 /\ Append(q, x)[1] = q[1]
      /\ Append(q, x) \in Items
  BY TailItems, AppendItem
<1>2. QED BY <1>1 DEF Items

LEMMA QuietRouted ==
    ASSUME Typed, Routed,
           \/ sends \/ endsSending \/ onData \/ onEnd \/ onMessage \/ writes \/ received \/ pipesUp
           \/ pipesDown \/ timesOut \/ openFails \/ closesBoth \/ replay \/ upload \/ replies
           \/ endsReplies \/ aborts \/ loses \/ resets \/ UNCHANGED vars
    PROVE  Routed'
<1>1. /\ UNCHANGED input
      /\ worker'.chunks = worker.chunks
      /\ \/ worker'.phase = worker.phase
         \/ worker'.phase = "closed"
         \/ worker.phase = "replay" /\ worker'.phase = "piping"
  <2>1. CASE UNCHANGED <<input, worker>>
    BY <2>1
  <2>2. CASE received \/ pipesUp \/ pipesDown
    BY <2>2 DEF received, closeIncoming, pipesUp, pipesDown, Typed, Worker
  <2>3. CASE UNCHANGED input /\ Closes(worker, "closed")
    <3>1. worker \in Worker
      BY DEF Typed
    <3>2. QED BY <2>3, <3>1, ClosesFields
  <2>4. CASE replay
    <3>1. CASE Closes(worker, "closed")
      BY <2>3, <2>4, <3>1 DEF replay
    <3>2. CASE ~Closes(worker, "closed")
      BY <2>4, <3>2 DEF replay, Typed, Worker
    <3>3. QED BY <3>1, <3>2
  <2>5. QED
    BY <2>1, <2>2, <2>3, <2>4
    DEF sends, endsSending, onData, onEnd, onMessage, writes, timesOut, openFails, closesBoth,
        upload, replies, endsReplies, aborts, loses, resets, vars
<1>2. /\ object'.id = object.id
      /\ \/ /\ object'.state = object.state /\ object'.route = object.route
            /\ object'.got = object.got \/ object.state = "open"
            /\ object.state = "reading" /\ object.in # <<>> =>
                  object'.in # <<>> /\ Head(object'.in) = Head(object.in)
         \/ object.state = "open" /\ object'.state = "reset"
  <2>1. CASE UNCHANGED object
    BY <2>1
  <2>2. CASE pipesUp \/ pipesDown \/ closesBoth \/ replay
    <3>1. /\ object'.id = object.id /\ object'.state = object.state /\ object'.route = object.route
          /\ object'.got = object.got
          /\ object'.in = object.in \/ \E x \in Item : object'.in = Append(object.in, x)
      <4>1. CASE pipesDown
        BY <4>1 DEF pipesDown, Typed, ObjectTyped
      <4>2. CASE closesBoth
        BY <4>2 DEF closesBoth, Item, Typed, ObjectTyped
      <4>3. CASE replay
        <5>1. CASE UNCHANGED object
          BY <5>1
        <5>2. CASE ~UNCHANGED object
          <6>1. /\ worker.replayed + 1 \in 1..Len(worker.chunks)
                /\ object' = [object EXCEPT !.in = Append(@, worker.chunks[worker.replayed + 1])]
            <7>1. /\ worker.replayed \in Nat /\ Len(worker.chunks) \in Nat
                  /\ worker.replayed <= Len(worker.chunks)
              BY TypedQueues DEF Typed, QueueTypes, Items
            <7>2. QED BY <4>3, <5>2, <7>1 DEF replay
          <6>2. worker.chunks[worker.replayed + 1] \in Item
            BY <6>1, TypedQueues DEF QueueTypes, Items, Item
          <6>3. QED BY <6>1, <6>2 DEF Typed, ObjectTyped
        <5>3. QED BY <5>1, <5>2
      <4>4. CASE pipesUp
        <5>1. UNCHANGED object \/ object' = [object EXCEPT !.in = Append(@, Head(worker.chain))]
          BY <4>4 DEF pipesUp
        <5>2. ~UNCHANGED object => Head(worker.chain) \in Item
          <6>1. ~UNCHANGED object => worker.chain # <<>> /\ worker.chain \in Items
            BY <4>4, TypedQueues DEF pipesUp, QueueTypes
          <6>2. QED BY <6>1, TailItems
        <5>3. QED BY <5>1, <5>2 DEF Typed, ObjectTyped
      <4>5. QED BY <2>2, <4>1, <4>2, <4>3, <4>4
    <3>2. object.in # <<>> => object'.in # <<>> /\ Head(object'.in) = Head(object.in)
      <4>1. object.in \in Items
        BY TypedQueues DEF QueueTypes
      <4>2. QED BY <3>1, <4>1, AppendHead
    <3>3. QED BY <3>1, <3>2
  <2>3. CASE upload
    BY <2>3 DEF upload, Typed, ObjectTyped
  <2>4. CASE replies \/ endsReplies \/ resets
    BY <2>4 DEF replies, endsReplies, resets, Typed, ObjectTyped
  <2>5. QED
    BY <2>1, <2>2, <2>3, <2>4
    DEF sends, endsSending, onData, onEnd, onMessage, writes, received, timesOut, openFails,
        aborts, loses, vars
<1>3. QED BY <1>1, <1>2, FrameRouted

LEMMA OpensRouted ==
    ASSUME Typed, Ends, Routed, opens \/ opened
    PROVE  Routed'
<1>1. CASE opens
  <2>1. /\ UNCHANGED <<input, object>> /\ worker'.phase = "hello" /\ worker'.chunks = worker.chunks
        /\ link.state = "connecting"
    BY <1>1 DEF opens, Typed, Worker
  <2>2. worker.phase = "none" /\ object.state = object'.state
    BY <2>1 DEF Ends
  <2>3. \A n \in 1..Len(<<>>) : FALSE
    BY EmptyParts
  <2>4. object.state # "reading"
    BY <2>2 DEF Ends, Routed
  <2>5. QED BY <2>1, <2>2, <2>3, <2>4 DEF Routed, Stops, First, ReadsOn, Size
<1>2. CASE opened
  <2>1. /\ UNCHANGED input /\ worker.phase = "opening" /\ worker'.phase = "replay"
        /\ worker'.chunks = worker.chunks /\ object'.state = "reading" /\ object'.id = object.id
        /\ object'.got = object.got
    BY <1>2 DEF opened, Typed, Worker, ObjectTyped
  <2>2. object.got = <<>> /\ Len(<<>>) = 0 /\ Len(worker.chunks) \in Nat
    BY <2>1, TypedQueues DEF Ends, QueueTypes, Items
  <2>3. Len(object'.got) < Len(worker'.chunks)
    BY <2>1, <2>2 DEF Routed, First
  <2>4. QED BY <2>1, <2>2, <2>3 DEF Routed, Stops, First, ReadsOn, Size
<1>3. QED BY <1>1, <1>2

LEMMA ReadHelloRouted ==
    ASSUME Recognized, Carried, Carried', Routed, readHello
    PROVE  Routed'
<1> DEFINE item == Head(worker.chain)
           q == Append(worker.chunks, item)
           n == Len(worker.chunks) + 1
           read == [worker EXCEPT !.chain = Tail(@), !.chunks = Append(@, item)]
           result == Parsed[input][Size(n)]
           id == tunnelIDFromHostname(result.serverName)
<1>1. /\ Typed /\ Ends /\ QueueTypes /\ worker.phase = "hello" /\ worker.chain # <<>>
      /\ UNCHANGED <<input, public, socket, faults>> /\ worker \in Worker
  BY TypedQueues DEF Carried, readHello, Typed
<1>2. /\ object.state = "none" /\ \A m \in 1..Len(worker.chunks) : ~Stops(m)
      /\ Len(worker.chunks) \in Nat /\ input \in Inputs /\ Len(input.ends) \in Nat
  BY <1>1, ReadBounds DEF Ends, Routed
<1>3. Len(q) = n /\ read \in Worker /\ read.chunks = q /\ read.phase = "hello"
  <2>1. item \in Item /\ Tail(worker.chain) \in Items
    BY <1>1, TailItems DEF QueueTypes
  <2> HIDE DEF item
  <2>2. Len(q) = n /\ q \in Items
    BY <1>1, <2>1, AppendItem DEF QueueTypes
  <2>3. QED BY <1>1, <2>1, <2>2 DEF Worker
<1>4. Stops(n) => First(n)
  BY <1>2 DEF First
<1>5. worker'.chunks = q => n \in 1..Len(input.ends)
  <2>1. input' = input /\ Len(worker'.chunks) <= Len(input'.ends)
    <3>1. (Carried => Len(worker.chunks) <= Len(input.ends))'
      BY ReadBounds, PTL
    <3>2. QED BY <1>1, <3>1
  <2> HIDE DEF q
  <2>2. QED BY <1>2, <1>3, <2>1
<1>6. ReadsOn(Size(Len(read.chunks))) <=> ~Stops(n)
  <2> HIDE DEF read, q
  <2>1. QED BY <1>3 DEF Stops
<1>7. \/ Closes(worker, "closed") /\ UNCHANGED object
      \/ ReadsOn(Size(Len(read.chunks))) /\ worker' = read /\ UNCHANGED <<link, object>>
      \/ /\ ~ReadsOn(Size(Len(read.chunks))) /\ result.status = "complete" /\ id # None
         /\ worker' = [read EXCEPT !.phase = "opening"] /\ object' = [object EXCEPT !.id = id]
      \/ /\ ~ReadsOn(Size(Len(read.chunks))) /\ ~(result.status = "complete" /\ id # None)
         /\ Closes(read, "rejected") /\ UNCHANGED object
  <2> DEFINE parsed == Parsed[input][Size(Len(read.chunks))]
             name == tunnelIDFromHostname(parsed.serverName)
  <2>1. \/ Closes(worker, "closed") /\ UNCHANGED object
        \/ CASE ReadsOn(Size(Len(read.chunks))) -> worker' = read /\ UNCHANGED <<link, object>>
             [] parsed.status = "complete" /\ name # None ->
                  /\ worker' = [read EXCEPT !.phase = "opening"]
                  /\ object' = [object EXCEPT !.id = name] /\ UNCHANGED link
             [] OTHER -> Closes(read, "rejected") /\ UNCHANGED object
    BY DEF readHello
  <2>2. parsed = result /\ name = id
    <3> HIDE DEF q, read
    <3>1. QED BY <1>3
  <2> DEFINE on == ReadsOn(Size(Len(read.chunks)))
             names == parsed.status = "complete" /\ name # None
  <2>3. \/ Closes(worker, "closed") /\ UNCHANGED object
        \/ on /\ worker' = read /\ UNCHANGED <<link, object>>
        \/ ~on /\ names /\ worker' = [read EXCEPT !.phase = "opening"] /\ object' = [object EXCEPT !.id = name]
        \/ ~on /\ ~names /\ Closes(read, "rejected") /\ UNCHANGED object
    <3>1. on => ~names
      <4>1. Incomplete.status # "complete"
        BY DEF Incomplete
      <4> HIDE DEF read, name
      <4>2. on => parsed = Incomplete
        BY DEF ReadsOn
      <4> HIDE DEF parsed
      <4>3. QED BY <4>1, <4>2
    <3>2. \/ Closes(worker, "closed") /\ UNCHANGED object
          \/ CASE on -> worker' = read /\ UNCHANGED <<link, object>>
               [] names -> /\ worker' = [read EXCEPT !.phase = "opening"]
                           /\ object' = [object EXCEPT !.id = name] /\ UNCHANGED link
               [] OTHER -> Closes(read, "rejected") /\ UNCHANGED object
      BY <2>1
    <3> HIDE DEF read, parsed, name, on, names
    <3>3. QED BY <3>1, <3>2
  <2> HIDE DEF parsed, name, read
  <2>4. QED BY <2>2, <2>3 DEF on, names
<1> HIDE DEF read, q, n, result, id
<1>8. CASE Closes(worker, "closed") /\ UNCHANGED object
  <2>1. worker'.phase = "closed" /\ worker'.chunks = worker.chunks
    BY <1>1, <1>8, ClosesFields
  <2>2. QED BY <1>1, <1>8, <2>1, FrameRouted
<1>9. CASE ReadsOn(Size(Len(read.chunks))) /\ worker' = read /\ UNCHANGED <<link, object>>
  <2>1. \A m \in 1..Len(q) : ~Stops(m)
    BY <1>2, <1>3, <1>6, <1>9 DEF n
  <2>2. QED BY <1>1, <1>2, <1>3, <1>9, <2>1 DEF Routed, Stops, First, ReadsOn, Size
<1>10. CASE /\ ~ReadsOn(Size(Len(read.chunks))) /\ result.status = "complete" /\ id # None
            /\ worker' = [read EXCEPT !.phase = "opening"] /\ object' = [object EXCEPT !.id = id]
  <2>1. worker'.phase = "opening" /\ worker'.chunks = q
    BY <1>3, <1>10 DEF Worker
  <2>2. object'.id = id /\ object'.state = "none"
    BY <1>1, <1>2, <1>10 DEF Typed, ObjectTyped
  <2>3. First(n) /\ input.id = id
    BY <1>2, <1>4, <1>5, <1>6, <1>10, <2>1 DEF Recognized, result, id
  <2>4. QED BY <1>1, <1>3, <1>10, <2>1, <2>2, <2>3 DEF Routed, Stops, First, ReadsOn, Size
<1>11. CASE /\ ~ReadsOn(Size(Len(read.chunks))) /\ ~(result.status = "complete" /\ id # None)
            /\ Closes(read, "rejected") /\ UNCHANGED object
  <2>1. worker'.phase = "rejected" /\ worker'.chunks = q
    BY <1>1, <1>3, <1>11, ClosesFields
  <2>2. input.id = None
    BY <1>2, <1>4, <1>5, <1>6, <1>11, <2>1 DEF Recognized, result, id
  <2>3. QED BY <1>1, <1>2, <1>11, <2>1, <2>2 DEF Routed
<1>12. QED BY <1>7, <1>8, <1>9, <1>10, <1>11

\* The chunks of an input end in order, within it.
LEMMA SizesGrow ==
    ASSUME input \in Inputs, NEW m \in Nat, NEW n \in Nat, m <= n, n <= Len(input.ends)
    PROVE  Size(m) \in 0..Len(input.bytes) /\ Size(n) \in 0..Len(input.bytes) /\ Size(m) <= Size(n)
<1>1. /\ input.bytes \in Seq(0..255) /\ input.ends \in Seq(0..Len(input.bytes))
      /\ \A k, l \in 1..Len(input.ends) : k <= l => input.ends[k] <= input.ends[l]
  BY RelayAssumption
<1>2. Len(input.bytes) \in Nat /\ \A k \in 1..Len(input.ends) : input.ends[k] \in 0..Len(input.bytes)
  BY <1>1
<1>3. QED BY <1>1, <1>2 DEF Size

\* Where the object decides, it has found what the worker has found, unless it was the limit
\* that stopped it.
LEMMA DecidesAlike ==
    ASSUME Recognized, input \in Inputs, NEW k \in Nat, First(k), k <= Len(input.ends),
           input.id # None, NEW b \in 0..Len(input.bytes), ~ReadsOn(b)
    PROVE  LET result == Parsed[input][b]
           IN  \/ result.status # "complete" /\ input \in Overlong
               \/ result.status = "complete" /\ input.route = routeOf(result.serverName, input.id)
<1> DEFINE K == Size(k)
           found == Parsed[input][K]
           result == Parsed[input][b]
           id == tunnelIDFromHostname(found.serverName)
<1>1. /\ k \in 1..Len(input.ends) /\ K \in 0..Len(input.bytes) /\ Len(input.bytes) \in Nat
      /\ HelloLimit \in Nat
  <2>1. k > 0 /\ input.ends \in Seq(0..Len(input.bytes)) /\ input.bytes \in Seq(0..255)
    BY RelayAssumption DEF First
  <2>2. QED BY <2>1, SizesGrow, RelayAssumption
<1>2. /\ found.status = "complete" /\ id # None /\ input.id = id
      /\ input.route = routeOf(found.serverName, id)
  <2>1. IF found.status = "complete" /\ id # None
        THEN input.id = id /\ input.route = routeOf(found.serverName, id) ELSE input.id = None
    BY <1>1 DEF Recognized
  <2> HIDE DEF found, id, K
  <2>2. QED BY <2>1
<1>3. Incomplete.status # "complete"
  BY DEF Incomplete
<1>4. found # Incomplete
  <2> HIDE DEF found
  <2>1. QED BY <1>2, <1>3
<1>5. DOMAIN Parsed[input] = 0..Len(input.bytes)
  BY DEF Parsed
<1>6. ASSUME NEW c \in 0..Len(input.bytes), NEW d \in 0..Len(input.bytes), c <= d,
             Parsed[input][c] # Incomplete
      PROVE  Parsed[input][d] = Parsed[input][c]
  <2>1. input \in Steady /\ c \in DOMAIN Parsed[input]
    BY <1>5, <1>6 DEF Recognized
  <2>2. d \in c..Len(input.bytes)
    BY <1>1, <1>6
  <2>3. QED BY <1>6, <2>1, <2>2 DEF Steady
<1>7. CASE result = Incomplete
  <2>1. b >= HelloLimit /\ HelloLimit \in 0..Len(input.bytes) /\ HelloLimit <= b
    BY <1>1, <1>7 DEF ReadsOn
  <2>2. Parsed[input][HelloLimit] = Incomplete
    BY <1>6, <1>7, <2>1
  <2>3. QED BY <1>1, <1>3, <1>7, <2>1, <2>2 DEF Overlong
<1>8. CASE result # Incomplete
  <2>1. result = found
    <3>1. b <= K \/ K <= b
      BY <1>1
    <3>2. QED BY <1>1, <1>4, <1>6, <1>8, <3>1
  <2> HIDE DEF found, result, id
  <2>2. QED BY <1>2, <2>1 DEF result
<1>9. QED BY <1>7, <1>8

\* The object does not see the end of its input before it has decided.
LEMMA NothingMissing ==
    ASSUME Carried, Routed, connect
    PROVE  Head(object.in) > 0
<1>1. /\ Typed /\ Ends /\ QueueTypes /\ object.state = "reading" /\ object.in # <<>> /\ ~Broken
  BY TypedQueues DEF Carried, connect, Broken
<1>2. PICK n1 \in Nat, n2 \in Nat, n3 \in Nat, n4 \in Nat : Up(n1, n2, n3, n4)
  BY DEF Carried, Uploads
<1>3. /\ Len(object.got) \in Nat /\ Len(worker.chunks) \in Nat /\ Len(object.in) \in Nat \ {0}
      /\ Head(object.in) = object.in[1]
  <2>1. object.got \in Items /\ worker.chunks \in Items /\ object.in \in Items
    BY <1>1 DEF QueueTypes
  <2>2. Len(object.got) \in Nat /\ Len(worker.chunks) \in Nat
    BY <2>1 DEF Items
  <2>3. Len(object.in) \in Nat \ {0} /\ Head(object.in) = object.in[1]
    BY <1>1, <2>1, TailItems
  <2>4. QED BY <2>2, <2>3
<1>4. Holds(object.in, Len(object.got), n1)
  BY <1>2 DEF Up, Upload
<1>5. CASE worker.phase = "replay"
  <2>1. Unended(object.in)
    BY <1>1, <1>5 DEF Ends, Live
  <2>2. QED BY <1>3, <2>1 DEF Unended
<1>6. CASE worker.phase # "replay" /\ Len(object.got) < Len(worker.chunks)
  <2>1. Len(worker.chunks) <= n1
    BY <1>1, <1>2, <1>6 DEF Up, Upload
  <2>2. object.in[1] = Len(object.got) + 1
    BY <1>3, <1>4, <1>6, <2>1 DEF Holds
  <2>3. QED BY <1>3, <2>2
<1>7. QED BY <1>1, <1>5, <1>6 DEF Routed

LEMMA ConnectRouted ==
    ASSUME Recognized, Carried, Carried', Routed, connect
    PROVE  Routed'
<1> DEFINE q == Append(object.got, Head(object.in))
           n == Len(object.got) + 1
           k == Len(worker.chunks)
<1>1. /\ Typed /\ Ends /\ QueueTypes /\ object.state = "reading" /\ object.in # <<>>
      /\ UNCHANGED <<input, public, socket, link, worker, faults>>
  BY TypedQueues DEF Carried, connect
<1>2. /\ Len(object.got) \in Nat /\ input \in Inputs /\ Len(input.ends) \in Nat
      /\ First(k) /\ object.id = input.id /\ input.id # None
      /\ k \in Nat /\ k <= Len(input.ends)
  BY <1>1, ReadBounds DEF Routed
<1>3. Len(q) = n /\ n \in Nat
  <2>1. Head(object.in) \in Item
    BY <1>1, TailItems DEF QueueTypes
  <2>2. QED BY <1>1, <1>2, <2>1, AppendItem DEF QueueTypes
<1>4. /\ ChunkRead.state = "reading" /\ ChunkRead.got = q /\ ChunkRead.id = object.id
      /\ ChunkRead.in = Tail(object.in)
      /\ ChunkRead \in [state: {"reading"}, id: {object.id}, in: {Tail(object.in)}, got: {q},
                         route: {object.route}, up: {object.up}, sent: Nat, ended: BOOLEAN, out: Items]
  BY <1>1 DEF Typed, ObjectTyped, ChunkRead
<1> HIDE DEF q
<1>5. /\ Refused(ChunkRead).state = "refused" /\ Refused(ChunkRead).id = object.id
      /\ Refused(ChunkRead).got = q
      /\ \A x \in Attached : /\ Opened(x).state = "open" /\ Opened(x).id = object.id
                             /\ Opened(x).got = q /\ Opened(x).route = x
  BY <1>4 DEF Refused, Opened
<1>6. worker'.phase = worker.phase /\ worker'.chunks = worker.chunks /\ input' = input
  BY <1>1
<1>7. object'.got = q => n <= Len(input.ends)
  <2>1. Len(object'.got) <= Len(input'.ends)
    <3>1. (Carried => Len(object.got) <= Len(input.ends))'
      BY ReadBounds, PTL
    <3>2. QED BY <3>1
  <2>2. QED BY <1>3, <1>6, <2>1
<1>8. /\ object' = ChunkRead \/ object'.state \in {"open", "refused"}
      /\ object'.id = object.id /\ object'.got = q
      /\ \/ object' = ChunkRead /\ ChunkRead.in # <<>> /\ Head(ChunkRead.in) > 0
         \/ object' = ChunkRead /\ ReadsOn(Size(n))
         \/ \E b \in Size(Len(object.got))..Size(n) :
               /\ ~ReadsOn(b)
               /\ LET result == Parsed[input][b]
                      route == routeOf(result.serverName, object.id)
                  IN  \/ /\ result.status = "complete" /\ route \in Attached
                         /\ object'.state = "open" /\ object'.route = route
                      \/ /\ ~(result.status = "complete" /\ route \in Attached)
                         /\ object'.state = "refused"
  <2> DEFINE complete(b) == Parsed[input][b].status = "complete"
             route(b) == routeOf(Parsed[input][b].serverName, object.id)
             decides(b) == object' = IF complete(b) /\ route(b) \in Attached
                                     THEN [ChunkRead EXCEPT !.state = "open", !.route = route(b)]
                                     ELSE Refused(ChunkRead)
  <2>1. ~(Head(object.in) <= 0)
    <3>1. Head(object.in) > 0 /\ Head(object.in) \in Item
      BY <1>1, NothingMissing, TailItems DEF QueueTypes
    <3>2. QED BY <3>1 DEF Item, Close
  <2>2. \/ ChunkRead.in # <<>> /\ Head(ChunkRead.in) > 0 /\ object' = ChunkRead
        \/ ReadsOn(Size(Len(ChunkRead.got))) /\ object' = ChunkRead
        \/ \E b \in Size(Len(object.got))..Size(Len(ChunkRead.got)) : ~ReadsOn(b) /\ decides(b)
    BY <2>1 DEF connect, ChunkRead
  <2>3. Len(ChunkRead.got) = n
    BY <1>3, <1>4
  <2>4. ASSUME NEW b \in Size(Len(object.got))..Size(n), ~ReadsOn(b), decides(b)
        PROVE  /\ object'.state \in {"open", "refused"} /\ object'.id = object.id /\ object'.got = q
               /\ \/ /\ complete(b) /\ route(b) \in Attached
                     /\ object'.state = "open" /\ object'.route = route(b)
                  \/ /\ ~(complete(b) /\ route(b) \in Attached)
                     /\ object'.state = "refused"
    <3>1. CASE complete(b) /\ route(b) \in Attached
      <4> HIDE DEF complete, route
      <4>1. object' = Opened(route(b))
        BY <2>4, <3>1 DEF Opened
      <4>2. QED BY <1>5, <3>1, <4>1
    <3>2. CASE ~(complete(b) /\ route(b) \in Attached)
      <4> HIDE DEF complete, route
      <4>1. object' = Refused(ChunkRead)
        BY <2>4, <3>2
      <4>2. QED BY <1>5, <3>2, <4>1
    <3>3. QED BY <3>1, <3>2
  <2> HIDE DEF n, decides
  <2>5. CASE object' = ChunkRead
    BY <1>4, <2>2, <2>3, <2>4, <2>5
  <2>6. CASE object' # ChunkRead
    BY <2>2, <2>3, <2>4, <2>6
  <2>7. QED BY <2>5, <2>6
<1>9. /\ n <= Len(input.ends) /\ Size(n) \in 0..Len(input.bytes)
      /\ Size(Len(object.got)) \in 0..Len(input.bytes) /\ Len(input.bytes) \in Nat
  <2>1. n <= Len(input.ends)
    BY <1>7, <1>8
  <2>2. input.bytes \in Seq(0..255)
    BY <1>2, RelayAssumption
  <2>3. QED BY <1>2, <1>3, <2>1, <2>2, SizesGrow
<1>10. CASE object' = ChunkRead /\ ChunkRead.in # <<>> /\ Head(ChunkRead.in) > 0
  BY <1>2, <1>4, <1>6, <1>8, <1>10 DEF Routed, Stops, First, ReadsOn, Size
<1>11. CASE object' = ChunkRead /\ ReadsOn(Size(n))
  <2>1. n < k
    <3> SUFFICES ASSUME k <= n
                 PROVE  FALSE
      BY <1>2, <1>3
    <3>1. /\ Size(k) \in 0..Len(input.bytes) /\ Size(k) <= Size(n)
      BY <1>2, <1>3, <1>9, SizesGrow
    <3>2. k \in 1..Len(input.ends) /\ ~ReadsOn(Size(k))
      BY <1>2, <1>9 DEF First, Stops
    <3>3. Parsed[input][Size(k)] # Incomplete
      <4>1. Parsed[input][Size(k)].status = "complete"
        BY <1>2, <3>2 DEF Recognized
      <4>2. Incomplete.status # "complete"
        BY DEF Incomplete
      <4>3. QED BY <4>1, <4>2
    <3>4. Size(n) \in Size(k)..Len(input.bytes) /\ Size(k) \in DOMAIN Parsed[input]
      BY <1>2, <1>9, <3>1 DEF Parsed
    <3>5. Parsed[input][Size(n)] = Parsed[input][Size(k)]
      BY <1>2, <3>3, <3>4 DEF Recognized, Steady
    <3>6. QED BY <1>11, <3>3, <3>5 DEF ReadsOn
  <2>2. QED BY <1>2, <1>3, <1>4, <1>6, <1>8, <1>11, <2>1 DEF Routed, Stops, First, ReadsOn, Size
<1>12. ASSUME NEW b \in Size(Len(object.got))..Size(n), ~ReadsOn(b),
              LET result == Parsed[input][b]
                  route == routeOf(result.serverName, object.id)
              IN  \/ /\ result.status = "complete" /\ route \in Attached
                     /\ object'.state = "open" /\ object'.route = route
                  \/ /\ ~(result.status = "complete" /\ route \in Attached)
                     /\ object'.state = "refused"
       PROVE  Routed'
  <2> DEFINE result == Parsed[input][b]
             route == routeOf(result.serverName, object.id)
  <2>1. b \in 0..Len(input.bytes)
    BY <1>9
  <2>2. \/ result.status # "complete" /\ input \in Overlong
        \/ result.status = "complete" /\ input.route = route
    BY <1>2, <1>12, <2>1, DecidesAlike
  <2>3. \/ result.status = "complete" /\ route \in Attached /\ object'.state = "open" /\ object'.route = route
        \/ ~(result.status = "complete" /\ route \in Attached) /\ object'.state = "refused"
    BY <1>12
  <2> HIDE DEF result, route
  <2>4. \/ object'.state = "open" /\ object'.route = input.route
        \/ object'.state = "refused" /\ (input.route \notin Attached \/ input \in Overlong)
    BY <2>2, <2>3
  <2>5. QED BY <1>2, <1>6, <1>8, <2>4 DEF Routed, Stops, First, ReadsOn, Size
<1>13. QED BY <1>8, <1>10, <1>11, <1>12

LEMMA NextRouted ==
    ASSUME Recognized, Carried, Carried', Routed, [Next]_vars
    PROVE  Routed'
<1>1. Typed /\ Ends
  BY DEF Carried
<1>2. CASE opens \/ opened
  BY <1>1, <1>2, OpensRouted
<1>3. CASE readHello
  BY <1>3, ReadHelloRouted
<1>4. CASE connect
  BY <1>4, ConnectRouted
<1>5. CASE ~(opens \/ opened \/ readHello \/ connect)
  BY <1>1, <1>5, QuietRouted DEF Next, Client, RelaySteps, WorkerSteps, ObjectSteps, Faults
<1>6. QED BY <1>2, <1>3, <1>4, <1>5

LEMMA AlwaysRouted == Spec /\ []Recognized => []Routed
<1>1. Init => Routed
  BY InitRouted
<1>2. Recognized /\ Carried /\ Carried' /\ Routed /\ [Next]_vars => Routed'
  BY NextRouted
<1>3. QED BY <1>1, <1>2, AlwaysCarried, PTL DEF Spec

(* Where the parser finds what the input names, and the same in every beginning that it      *)
(* decides on, the worker and the Durable Object, which read it independently and in other   *)
(* pieces, send the connection to that tunnel and that route; they turn away only what names *)
(* no tunnel, no route that is served, or reaches over the limit (index.ts:45-86,            *)
(* tunnel-object.ts:472-523).                                                                *)
THEOREM RoutedByName == Spec /\ []Recognized => []RoutesByName
<1>1. Routed => RoutesByName
  BY DEF Routed, RoutesByName
<1>2. QED BY <1>1, AlwaysRouted, PTL

\* A queue that holds chunks in order has nothing behind its end but the close.
LEMMA HoldsShape ==
    ASSUME NEW q \in Items, NEW a \in Nat, NEW b \in Nat, Holds(q, a, b)
    PROVE  \A i \in 1..Len(q) - 1 : q[i] > 0 \/ (q[i] = End /\ q[i + 1] = Close)
<1> SUFFICES ASSUME NEW i \in 1..Len(q) - 1
             PROVE  q[i] > 0 \/ (q[i] = End /\ q[i + 1] = Close)
  OBVIOUS
<1>1. Len(q) \in Nat /\ i \in 1..Len(q) /\ i < Len(q)
  BY DEF Items
<1>2. CASE i > b - a
  BY <1>1, <1>2 DEF Holds
<1>3. CASE i <= b - a
  <2>1. q[i] = a + i
    BY <1>3 DEF Holds
  <2>2. QED BY <2>1
<1>4. QED BY <1>2, <1>3

(* Where the parser finds what the input names, every variable keeps its type, and no queue *)
(* of the relay, the worker or the object holds anything behind its end but the close      *)
(* (index.mjs:33-58, index.ts:82-160).                                                      *)
THEOREM TypeCorrect == Spec /\ []Recognized => []TypeOK
<1>1. Carried /\ Routed => TypeOK
  <2> SUFFICES ASSUME Carried, Routed
               PROVE  TypeOK
    OBVIOUS
  <2>1. Typed /\ QueueTypes
    BY TypedQueues DEF Carried
  <2>2. object.id \in Nat
    <3>1. None \in Nat /\ input.id \in Nat
      BY <2>1, RelayAssumption DEF None, Typed
    <3>2. QED BY <3>1 DEF Routed
  <2>3. object \in Object
    BY <2>1, <2>2 DEF Typed, ObjectTyped, Object
  <2>4. PICK n1 \in Nat, n2 \in Nat, n3 \in Nat, n4 \in Nat : Up(n1, n2, n3, n4)
    BY DEF Carried, Uploads
  <2>5. PICK m0 \in Nat, m1 \in Nat, m2 \in Nat, m3 \in Nat : Down(m0, m1, m2, m3)
    BY DEF Carried, Downloads
  <2>6. /\ Len(object.got) \in Nat /\ Len(public.got) \in Nat
    BY <2>1 DEF QueueTypes, Items
  <2>7. /\ Holds(object.in, Len(object.got), n1) /\ Holds(link.up, n3, n4)
        /\ Holds(socket.out, Len(public.got), m0) /\ Holds(link.down, m1, m2)
    BY <2>4, <2>5 DEF Up, Upload, Down, Download
  <2>8. \A q \in {link.up, link.down, socket.out, object.in} :
           \A i \in 1..Len(q) - 1 : q[i] > 0 \/ (q[i] = End /\ q[i + 1] = Close)
    <3>1. /\ link.up \in Items /\ link.down \in Items /\ socket.out \in Items
          /\ object.in \in Items
      BY <2>1 DEF QueueTypes
    <3>2. \A q \in {link.up, link.down, socket.out, object.in} :
             q \in Items /\ \E a, b \in Nat : Holds(q, a, b)
      BY <2>6, <2>7, <3>1
    <3>3. QED BY <3>2, HoldsShape
  <2>9. QED BY <2>1, <2>3, <2>8 DEF Typed, TypeOK
<1>2. QED BY <1>1, AlwaysCarried, AlwaysRouted, PTL
=============================================================================
