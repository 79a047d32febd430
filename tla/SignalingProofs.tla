--------------------------- MODULE SignalingProofs ---------------------------
(***************************************************************************)
(* Proofs about Signaling: types, that it implements SignalChannel, and    *)
(* that descriptions are read back as they were given, for every set of    *)
(* messages, every text, every size of the buffers and every number of     *)
(* messages and pings.                                                     *)
(*                                                                         *)
(* The inductive invariant Inv says that the frames on the connection are  *)
(* numbered as the messages are (InOrder), that none of them belongs to a  *)
(* message that was processed, and, as long as the channel is intact, that *)
(* the next frame goes on where the client has come to.                    *)
(***************************************************************************)
EXTENDS Signaling, Integers, SequenceTheorems, FiniteSetTheorems, WellFoundedInduction, TLAPS

Data == {"text", "continue"}

\* The message and the inner of the frame that comes after f.
MsgAfter(f) == IF f.op \in Data /\ f.fin THEN f.msg + 1 ELSE f.msg

InnerAfter(f) == IF f.op \in Data THEN ~f.fin ELSE f.inner

\* A frame when n messages have been sent.
FrameOK(f, n) ==
  /\ f \in Frame
  /\ f.op \in Data => f.msg <= n
  /\ f.msg <= n + 1
  /\ f.op = "text" => ~f.inner
  /\ f.op = "continue" => f.inner

\* The frames of a connection on which n messages have been sent.
InOrder(w, n) ==
  /\ \A i \in 1..Len(w) : FrameOK(w[i], n)
  /\ \A i, j \in 1..Len(w) : i < j => MsgAfter(w[i]) <= w[j].msg
  /\ \A i \in 1..(Len(w) - 1) :
       /\ w[i + 1].msg = MsgAfter(w[i])
       /\ w[i + 1].inner <=> InnerAfter(w[i])
  /\ Len(w) > 0 => MsgAfter(w[Len(w)]) = n + 1 /\ ~InnerAfter(w[Len(w)])

\* The next frame goes on where the client has come to.
Synced ==
  intact =>
    /\ ~skewed
    /\ state = "connected" /\ wire = << >> => taken = Len(sent) /\ ~fragments.open
    /\ wire # << >> => wire[1].msg = taken + 1 /\ (fragments.open <=> wire[1].inner)
    /\ fragments.open => fragments.parts = {taken + 1}

\* A handle is only made for a connection on which nothing has happened yet.
Fresh ==
  /\ state \in {"connected", "disconnected", "error"} => outbox.op # "none"
  /\ state = "connecting" => outbox.op = "none"
  /\ outbox.op = "none" => sent = << >> /\ taken = 0 /\ fragments = NoFragments

Fragments(n) ==
  /\ fragments \in [open : BOOLEAN, parts : SUBSET (0..n), len : 0..MaxBuf]
  /\ ~fragments.open => fragments = NoFragments

Stream ==
  /\ wire \in Seq(Frame)
  /\ arrived \in 0..2 /\ arrived <= Unread
  /\ skewed \in BOOLEAN /\ (skewed => wire # << >>)
  /\ state # "connected" => wire = << >>
  /\ InOrder(wire, Len(sent))
  /\ \A i \in 1..Len(wire) : taken < wire[i].msg

Counted ==
  /\ pings \in 0..MaxPings /\ closed \in BOOLEAN /\ sends \in 0..MaxSends
  /\ sent \in Seq(Kind) /\ Len(sent) <= MaxMessages

Reporting ==
  /\ taken \in 0..Len(sent)
  /\ told \in [calls : Nat, msg : 0..Len(sent), event : Event]
  /\ intact \in BOOLEAN

Inv ==
  /\ state \in {"null", "connecting", "connected", "disconnected", "error"}
  /\ Stream
  /\ Fragments(Len(sent))
  /\ Counted
  /\ Reporting
  /\ Synced
  /\ Fresh

-----------------------------------------------------------------------------
\* Frames in order.

\* What is left of a connection when its first k frames have been read.
LEMMA ShiftInOrder ==
  ASSUME NEW n \in Nat, NEW w \in Seq(Frame), InOrder(w, n),
         NEW k \in 0..Len(w), NEW v \in Seq(Frame), Len(v) = Len(w) - k,
         \A i \in 1..Len(v) : v[i] = w[i + k]
  PROVE  InOrder(v, n)
<1>1. Len(w) \in Nat /\ Len(v) \in Nat /\ k \in Nat
  OBVIOUS
<1>2. \A i \in 1..Len(v) : i + k \in 1..Len(w) /\ v[i] = w[i + k]
  BY <1>1
<1>3. ASSUME NEW i \in 1..Len(v) PROVE FrameOK(v[i], n)
  BY <1>2 DEF InOrder
<1>4. ASSUME NEW i \in 1..Len(v), NEW j \in 1..Len(v), i < j
      PROVE  MsgAfter(v[i]) <= v[j].msg
  <2>1. i + k < j + k
    BY <1>1, <1>4
  <2> QED BY <1>2, <2>1 DEF InOrder
<1>5. ASSUME NEW i \in 1..(Len(v) - 1)
      PROVE  v[i + 1].msg = MsgAfter(v[i]) /\ (v[i + 1].inner <=> InnerAfter(v[i]))
  <2>1. /\ i \in 1..Len(v) /\ i + 1 \in 1..Len(v) /\ i + k \in 1..(Len(w) - 1)
        /\ (i + 1) + k = (i + k) + 1
    BY <1>1
  <2>2. v[i] = w[i + k] /\ v[i + 1] = w[(i + k) + 1]
    BY <1>2, <2>1
  <2> QED BY <2>1, <2>2 DEF InOrder
<1>6. ASSUME Len(v) > 0
      PROVE  MsgAfter(v[Len(v)]) = n + 1 /\ ~InnerAfter(v[Len(v)])
  <2>1. Len(v) \in 1..Len(v) /\ Len(v) + k = Len(w) /\ Len(w) > 0
    BY <1>1, <1>6
  <2>2. v[Len(v)] = w[Len(w)]
    BY <1>2, <2>1
  <2> QED BY <2>1, <2>2 DEF InOrder
<1> QED BY <1>3, <1>4, <1>5, <1>6 DEF InOrder

\* What MsgAfter says of a frame.
LEMMA FrameAfter ==
  ASSUME NEW n \in Nat, NEW f, FrameOK(f, n)
  PROVE  MsgAfter(f) \in Nat /\ f.msg <= MsgAfter(f) /\ MsgAfter(f) <= n + 1 /\ f.msg \in Nat
  BY DEF FrameOK, MsgAfter, Frame, Data

\* The frames of the next message, or of a control frame, at the end.
LEMMA ExtendInOrder ==
  ASSUME NEW n \in Nat, NEW m \in {n, n + 1}, NEW w \in Seq(Frame), InOrder(w, n),
         NEW v \in Seq(Frame), InOrder(v, m), Len(v) > 0, ~v[1].inner,
         \A i \in 1..Len(v) : v[i].msg = n + 1
  PROVE  /\ w \o v \in Seq(Frame)
         /\ InOrder(w \o v, m)
         /\ Len(w \o v) = Len(w) + Len(v)
         /\ \A i \in 1..Len(w) : (w \o v)[i] = w[i]
         /\ \A i \in 1..Len(v) : (w \o v)[Len(w) + i] = v[i]
<1> DEFINE u == w \o v
           a == Len(w)
           b == Len(v)
<1>1. /\ a \in Nat /\ b \in Nat /\ b > 0 /\ m \in Nat /\ n <= m
      /\ u \in Seq(Frame) /\ Len(u) = a + b
      /\ \A i \in 1..a : u[i] = w[i]
      /\ \A i \in 1..b : u[a + i] = v[i]
  OBVIOUS
<1>2. ASSUME NEW i \in 1..Len(u), i > a PROVE i - a \in 1..b /\ u[i] = v[i - a]
  <2>1. i - a \in 1..b /\ a + (i - a) = i
    BY <1>1, <1>2
  <2> QED BY <1>1, <2>1
<1> HIDE DEF u, a, b
<1>3. /\ \A i \in 1..a : FrameOK(w[i], n)
      /\ \A i, j \in 1..a : i < j => MsgAfter(w[i]) <= w[j].msg
      /\ \A i \in 1..(a - 1) : w[i + 1].msg = MsgAfter(w[i]) /\ (w[i + 1].inner <=> InnerAfter(w[i]))
      /\ a > 0 => MsgAfter(w[a]) = n + 1 /\ ~InnerAfter(w[a])
  BY DEF InOrder, a
<1>4. /\ \A i \in 1..b : FrameOK(v[i], m)
      /\ \A i, j \in 1..b : i < j => MsgAfter(v[i]) <= v[j].msg
      /\ \A i \in 1..(b - 1) : v[i + 1].msg = MsgAfter(v[i]) /\ (v[i + 1].inner <=> InnerAfter(v[i]))
      /\ MsgAfter(v[b]) = m + 1 /\ ~InnerAfter(v[b])
  BY <1>1 DEF InOrder, b
<1>5. /\ ~v[1].inner /\ \A i \in 1..b : v[i].msg = n + 1
  BY DEF b
<1>6. ASSUME NEW i \in 1..Len(u) PROVE FrameOK(u[i], m)
  <2>1. CASE i <= a
    <3>1. i \in 1..a /\ u[i] = w[i] /\ FrameOK(w[i], n)
      BY <1>1, <1>3, <2>1
    <3>2. w[i].msg \in Nat
      BY <3>1 DEF FrameOK, Frame
    <3>3. (w[i].msg <= n => w[i].msg <= m) /\ (w[i].msg <= n + 1 => w[i].msg <= m + 1)
      BY <1>1, <3>2
    <3>4. FrameOK(w[i], m)
      BY <3>1, <3>3 DEF FrameOK
    <3> QED BY <3>1, <3>4
  <2>2. CASE i > a
    BY <1>2, <1>4, <2>2
  <2> QED BY <1>1, <2>1, <2>2
<1>7. ASSUME NEW i \in 1..Len(u), NEW j \in 1..Len(u), i < j
      PROVE  MsgAfter(u[i]) <= u[j].msg
  <2>1. CASE j <= a
    <3>1. i \in 1..a /\ j \in 1..a /\ u[i] = w[i] /\ u[j] = w[j]
      BY <1>1, <1>7, <2>1
    <3> QED BY <1>3, <1>7, <3>1
  <2>2. CASE i <= a /\ j > a
    <3>1. i \in 1..a /\ u[i] = w[i] /\ FrameOK(w[i], n)
      BY <1>1, <1>3, <2>2
    <3>2. u[j].msg = n + 1
      BY <1>2, <1>5, <2>2
    <3> QED BY <3>1, <3>2, FrameAfter
  <2>3. CASE i > a
    <3>1. i - a \in 1..b /\ j - a \in 1..b /\ i - a < j - a /\ u[i] = v[i - a] /\ u[j] = v[j - a]
      BY <1>1, <1>2, <1>7, <2>3
    <3> QED BY <1>4, <3>1
  <2> QED BY <1>1, <2>1, <2>2, <2>3
<1>8. ASSUME NEW i \in 1..(Len(u) - 1)
      PROVE  u[i + 1].msg = MsgAfter(u[i]) /\ (u[i + 1].inner <=> InnerAfter(u[i]))
  <2>1. i \in 1..Len(u) /\ i + 1 \in 1..Len(u)
    BY <1>1
  <2>2. CASE i < a
    <3>1. i \in 1..(a - 1) /\ u[i] = w[i] /\ u[i + 1] = w[i + 1]
      BY <1>1, <2>2
    <3> QED BY <1>3, <3>1
  <2>3. CASE i = a
    <3>1. a > 0 /\ u[i] = w[a] /\ u[i + 1] = v[1] /\ 1 \in 1..b
      BY <1>1, <2>1, <2>3
    <3> QED BY <1>3, <1>5, <3>1
  <2>4. CASE i > a
    <3>1. i - a \in 1..(b - 1) /\ (i + 1) - a = (i - a) + 1 /\ i + 1 > a
      BY <1>1, <2>4
    <3>2. u[i] = v[i - a] /\ u[i + 1] = v[(i - a) + 1]
      BY <1>2, <2>1, <2>4, <3>1
    <3> QED BY <1>4, <3>1, <3>2
  <2> QED BY <1>1, <2>2, <2>3, <2>4
<1>9. MsgAfter(u[Len(u)]) = m + 1 /\ ~InnerAfter(u[Len(u)])
  <2>1. Len(u) \in 1..Len(u) /\ Len(u) > a /\ Len(u) - a = b
    BY <1>1
  <2>2. u[Len(u)] = v[b]
    BY <1>2, <2>1
  <2> QED BY <1>4, <2>2
<1>10. InOrder(u, m)
  BY <1>6, <1>7, <1>8, <1>9 DEF InOrder
<1> QED BY <1>1, <1>10 DEF u, a, b

\* A sequence with an element before and one behind it.
LEMMA Enclosed ==
  ASSUME NEW F, NEW a \in F, NEW b \in F, NEW k \in Nat, NEW mid \in [1..k -> F]
  PROVE  LET v == <<a>> \o mid \o <<b>>
         IN  /\ v \in Seq(F) /\ Len(v) = k + 2 /\ v[1] = a /\ v[k + 2] = b
             /\ \A i \in 2..(k + 1) : v[i] = mid[i - 1]
<1>1. mid \in Seq(F) /\ Len(mid) = k /\ <<a>> \in Seq(F) /\ <<b>> \in Seq(F)
      /\ Len(<<a>>) = 1 /\ Len(<<b>>) = 1
  OBVIOUS
<1> DEFINE u == <<a>> \o mid
<1>2. u \in Seq(F) /\ Len(u) = k + 1 /\ u[1] = a /\ \A i \in 2..(k + 1) : u[i] = mid[i - 1]
  BY <1>1
<1> HIDE DEF u
<1> DEFINE v == u \o <<b>>
<1>3. v \in Seq(F) /\ Len(v) = k + 2 /\ v[k + 2] = b /\ \A i \in 1..(k + 1) : v[i] = u[i]
  BY <1>1, <1>2
<1>4. v[1] = a /\ \A i \in 2..(k + 1) : v[i] = mid[i - 1]
  BY <1>2, <1>3
<1> QED BY <1>3, <1>4 DEF u, v

\* A message in its frames, after n others.
LEMMA FramingsInOrder ==
  ASSUME NEW n \in Nat, NEW len \in Nat \ {0}, NEW v \in Framings(n + 1, len)
  PROVE  /\ v \in Seq(Frame) /\ Len(v) > 0 /\ InOrder(v, n + 1) /\ ~v[1].inner
         /\ \A i \in 1..Len(v) : v[i].msg = n + 1
<1> DEFINE first  == [op |-> "text", fin |-> FALSE, msg |-> n + 1, len |-> len, inner |-> FALSE]
           ping   == [op |-> "ping", fin |-> TRUE, msg |-> n + 1, len |-> 1, inner |-> TRUE]
           only   == [first EXCEPT !.fin = TRUE]
           last   == [ping EXCEPT !.op = "continue"]
           middle == [last EXCEPT !.fin = FALSE]
<1>1. \/ v = <<only>>
      \/ \E k \in 0..MaxBetween : \E mid \in [1..k -> {ping, middle}] : v = <<first>> \o mid \o <<last>>
  <2> HIDE DEF only, first, ping, middle, last
  <2>1. Framings(n + 1, len) =
          {<<only>>} \cup {<<first>> \o mid \o <<last>> :
                             mid \in UNION {[1..k -> {ping, middle}] : k \in 0..MaxBetween}}
    BY DEF Framings, only, first, ping, middle, last
  <2> QED BY <2>1
<1>2. /\ \A f \in {only, first, ping, middle, last} : FrameOK(f, n + 1) /\ f.msg = n + 1 /\ f \in Frame
      /\ MsgAfter(only) = n + 2 /\ MsgAfter(last) = n + 2
      /\ \A f \in {first, ping, middle} : MsgAfter(f) = n + 1 /\ InnerAfter(f)
      /\ ~InnerAfter(only) /\ ~InnerAfter(last)
      /\ ~only.inner /\ ~first.inner /\ \A f \in {ping, middle, last} : f.inner
  <2>1. n + 1 \in Nat \ {0} /\ n + 1 <= n + 1 /\ n + 1 <= (n + 1) + 1 /\ (n + 1) + 1 = n + 2
    OBVIOUS
  <2>2. first \in Frame /\ first.op = "text" /\ ~first.fin /\ first.msg = n + 1 /\ ~first.inner
    BY <2>1 DEF Frame
  <2>3. ping \in Frame /\ ping.op = "ping" /\ ping.fin /\ ping.msg = n + 1 /\ ping.inner
    BY <2>1 DEF Frame
  <2> HIDE DEF first, ping
  <2>4. only \in Frame /\ only.op = "text" /\ only.fin /\ only.msg = n + 1 /\ ~only.inner
    BY <2>2 DEF Frame
  <2>5. last \in Frame /\ last.op = "continue" /\ last.fin /\ last.msg = n + 1 /\ last.inner
    BY <2>3 DEF Frame
  <2> HIDE DEF only, last
  <2>6. middle \in Frame /\ middle.op = "continue" /\ ~middle.fin /\ middle.msg = n + 1 /\ middle.inner
    BY <2>5 DEF Frame
  <2> HIDE DEF middle
  <2>7. \A f \in {only, first, ping, middle, last} : FrameOK(f, n + 1) /\ f.msg = n + 1 /\ f \in Frame
    BY <2>1, <2>2, <2>3, <2>4, <2>5, <2>6 DEF FrameOK, Data
  <2> QED BY <2>1, <2>2, <2>3, <2>4, <2>5, <2>6, <2>7 DEF MsgAfter, InnerAfter, Data
<1> HIDE DEF only, first, ping, middle, last
<1>3. CASE v = <<only>>
  BY <1>2, <1>3 DEF InOrder
<1>4. CASE \E k \in 0..MaxBetween : \E mid \in [1..k -> {ping, middle}] : v = <<first>> \o mid \o <<last>>
  <2>1. PICK k \in 0..MaxBetween : \E mid \in [1..k -> {ping, middle}] : v = <<first>> \o mid \o <<last>>
    BY <1>4
  <2>2. PICK mid \in [1..k -> {ping, middle}] : v = <<first>> \o mid \o <<last>>
    BY <2>1
  <2>3. k \in Nat /\ mid \in [1..k -> {first, ping, middle, last}]
    BY SignalingAssumption
  <2>4. /\ v \in Seq({first, ping, middle, last}) /\ Len(v) = k + 2 /\ v[1] = first /\ v[k + 2] = last
        /\ \A i \in 2..(k + 1) : v[i] \in {ping, middle}
    BY <2>2, <2>3, Enclosed
  <2>5. /\ \A i \in 1..(k + 2) : v[i] \in {first, ping, middle, last}
        /\ \A i \in 1..(k + 1) : v[i] \in {first, ping, middle}
        /\ \A i \in 2..(k + 2) : v[i] \in {ping, middle, last}
    BY <2>3, <2>4
  <2>6. v \in Seq(Frame) /\ \A i \in 1..(k + 2) : FrameOK(v[i], n + 1) /\ v[i].msg = n + 1
    BY <1>2, <2>4, <2>5
  <2>7. \A i \in 1..(k + 1) : MsgAfter(v[i]) = n + 1 /\ InnerAfter(v[i])
    BY <1>2, <2>5
  <2>8. \A i \in 1..(k + 1) : i + 1 \in 2..(k + 2) /\ v[i + 1].inner
    BY <1>2, <2>3, <2>5
  <2>9. MsgAfter(v[k + 2]) = n + 2 /\ ~InnerAfter(v[k + 2])
    BY <1>2, <2>4
  <2>10. InOrder(v, n + 1)
    <3>1. ASSUME NEW i \in 1..Len(v), NEW j \in 1..Len(v), i < j
          PROVE  MsgAfter(v[i]) <= v[j].msg
      <4>1. i \in 1..(k + 1) /\ j \in 1..(k + 2)
        BY <2>3, <2>4, <3>1
      <4> QED BY <2>6, <2>7, <4>1
    <3>2. ASSUME NEW i \in 1..(Len(v) - 1)
          PROVE  v[i + 1].msg = MsgAfter(v[i]) /\ (v[i + 1].inner <=> InnerAfter(v[i]))
      <4>1. i \in 1..(k + 1) /\ i + 1 \in 1..(k + 2)
        BY <2>3, <2>4
      <4> QED BY <2>6, <2>7, <2>8, <4>1
    <3>3. Len(v) = k + 2 /\ (n + 1) + 1 = n + 2
      BY <2>4
    <3> QED BY <2>6, <2>9, <3>1, <3>2, <3>3 DEF InOrder
  <2>11. ~v[1].inner /\ Len(v) > 0
    BY <1>2, <2>3, <2>4
  <2> QED BY <2>4, <2>6, <2>10, <2>11
<1> QED BY <1>1, <1>3, <1>4

\* Pings are counted.
LEMMA PingsCounted ==
  ASSUME NEW v \in Seq(Frame)
  PROVE  Pings(v) \in Nat
<1>1. IsFiniteSet(1..Len(v))
  BY FS_Interval
<1>2. {i \in DOMAIN v : v[i].op = "ping"} \subseteq 1..Len(v)
  OBVIOUS
<1>3. IsFiniteSet({i \in DOMAIN v : v[i].op = "ping"})
  BY <1>1, <1>2, FS_Subset
<1> QED BY <1>3, FS_CardinalityType DEF Pings

LEMMA ControlInOrder ==
  ASSUME Inv, NEW op \in {"ping", "close", "eof"}
  PROVE  /\ <<ControlFrame(op)>> \in Seq(Frame)
         /\ InOrder(<<ControlFrame(op)>>, Len(sent))
         /\ ~ControlFrame(op).inner /\ ControlFrame(op).msg = Len(sent) + 1
<1> DEFINE f == ControlFrame(op)
           n == Len(sent)
<1>1. n \in Nat
  BY DEF Inv, Counted
<1> HIDE DEF n
<1>2. /\ f \in Frame /\ f.msg = n + 1 /\ f.op = op /\ ~f.inner
  BY <1>1 DEF ControlFrame, Frame, n
<1> HIDE DEF f
<1>3. FrameOK(f, n) /\ MsgAfter(f) = n + 1 /\ ~InnerAfter(f)
  BY <1>1, <1>2 DEF FrameOK, MsgAfter, InnerAfter, Data
<1>4. <<f>> \in Seq(Frame) /\ InOrder(<<f>>, n)
  BY <1>1, <1>2, <1>3 DEF InOrder
<1> QED BY <1>2, <1>4 DEF f, n

-----------------------------------------------------------------------------
\* What actions do to the parts of Inv.

\* Frames are put on the connection.
LEMMA Sending ==
  ASSUME Inv, state = "connected", NEW v \in Seq(Frame), NEW m \in {Len(sent), Len(sent) + 1},
         InOrder(v, m), Len(v) > 0, ~v[1].inner, \A i \in 1..Len(v) : v[i].msg = Len(sent) + 1,
         wire' = wire \o v, Len(sent') = m,
         UNCHANGED <<state, arrived, skewed, fragments, outbox, sends, reports>>
  PROVE  Stream' /\ Fragments(Len(sent))' /\ Synced' /\ Fresh'
<1>1. /\ wire \in Seq(Frame) /\ InOrder(wire, Len(sent)) /\ Len(sent) \in Nat /\ Len(wire) \in Nat
      /\ taken \in 0..Len(sent)
  BY DEF Inv, Stream, Counted, Reporting
<1>2. /\ wire' \in Seq(Frame) /\ InOrder(wire', m) /\ Len(wire') = Len(wire) + Len(v)
      /\ \A i \in 1..Len(wire) : wire'[i] = wire[i]
      /\ \A i \in 1..Len(v) : wire'[Len(wire) + i] = v[i]
  BY <1>1, ExtendInOrder
<1>3. Len(v) \in Nat /\ m \in Nat /\ Len(sent) <= m
  BY <1>1
<1>4. UNCHANGED <<state, arrived, skewed, fragments, outbox, sends, taken, told, intact>>
  BY DEF reports
<1>5. Stream'
  <2>1. arrived' <= Unread'
    BY <1>1, <1>2, <1>3, <1>4 DEF Inv, Stream, Unread
  <2>2. \A i \in 1..Len(wire') : taken < wire'[i].msg
    <3>1. SUFFICES ASSUME NEW i \in 1..Len(wire') PROVE taken < wire'[i].msg
      OBVIOUS
    <3>2. CASE i <= Len(wire)
      BY <1>1, <1>2, <3>2 DEF Inv, Stream
    <3>3. CASE i > Len(wire)
      <4>1. i - Len(wire) \in 1..Len(v) /\ Len(wire) + (i - Len(wire)) = i
        BY <1>1, <1>2, <1>3, <3>3
      <4>2. wire'[i] = v[i - Len(wire)]
        BY <1>2, <4>1
      <4> QED BY <1>1, <4>1, <4>2
    <3> QED BY <1>1, <1>2, <1>3, <3>2, <3>3
  <2>3. wire' # << >>
    BY <1>1, <1>2, <1>3
  <2> QED BY <1>2, <1>4, <2>1, <2>2, <2>3 DEF Inv, Stream
<1>6. Fragments(Len(sent))'
  <2>1. SUBSET (0..Len(sent)) \subseteq SUBSET (0..m)
    BY <1>1, <1>3
  <2> QED BY <1>4, <2>1 DEF Inv, Fragments
<1>7. Synced'
  <2>1. SUFFICES ASSUME intact
                 PROVE  /\ ~skewed
                        /\ wire' # << >>
                        /\ wire'[1].msg = taken + 1 /\ (fragments.open <=> wire'[1].inner)
                        /\ fragments.open => fragments.parts = {taken + 1}
    BY <1>4 DEF Synced
  <2>2. Synced
    BY DEF Inv
  <2>3. CASE wire = << >>
    <3>1. wire'[1] = v[1] /\ wire' # << >> /\ v[1].msg = Len(sent) + 1
      BY <1>1, <1>2, <1>3, <2>3
    <3> QED BY <2>1, <2>2, <2>3, <3>1 DEF Synced
  <2>4. CASE wire # << >>
    <3>1. wire'[1] = wire[1] /\ wire' # << >>
      BY <1>1, <1>2, <1>3, <2>4
    <3> QED BY <2>1, <2>2, <2>4, <3>1 DEF Synced
  <2> QED BY <2>3, <2>4
<1>8. Fresh'
  BY <1>4 DEF Inv, Fresh
<1> QED BY <1>5, <1>6, <1>7, <1>8

\* A frame is read.
LEMMA ReadOne ==
  ASSUME Inv, state = "connected", ~skewed, wire # << >>, arrived >= 2, Read
  PROVE  /\ wire' \in Seq(Frame) /\ InOrder(wire', Len(sent))
         /\ arrived' \in 0..2 /\ arrived' <= Unread' /\ skewed' = FALSE
         /\ wire[1] = Head(wire) /\ FrameOK(wire[1], Len(sent)) /\ taken < wire[1].msg
         /\ \A i \in 1..Len(wire') : MsgAfter(wire[1]) <= wire'[i].msg
         /\ wire' = << >> => MsgAfter(wire[1]) = Len(sent) + 1 /\ ~InnerAfter(wire[1])
         /\ wire' # << >> => /\ wire'[1].msg = MsgAfter(wire[1])
                             /\ wire'[1].inner <=> InnerAfter(wire[1])
<1>1. /\ wire \in Seq(Frame) /\ InOrder(wire, Len(sent)) /\ Len(sent) \in Nat
      /\ Len(wire) \in Nat /\ Len(wire) > 0 /\ arrived \in 0..2 /\ arrived <= 2 * Len(wire)
      /\ 1 \in 1..Len(wire) /\ taken < wire[1].msg
  BY DEF Inv, Stream, Counted, Unread
<1>2. wire' = Tail(wire) /\ arrived' = arrived - 2 /\ skewed' = skewed
  BY DEF Read
<1>3. /\ wire' \in Seq(Frame) /\ Len(wire') = Len(wire) - 1
      /\ \A i \in 1..Len(wire') : wire'[i] = wire[i + 1]
      /\ Head(wire) = wire[1]
  BY <1>1, <1>2
<1>4. InOrder(wire', Len(sent))
  <2> DEFINE v == wire'
  <2>1. 1 \in 0..Len(wire) /\ v \in Seq(Frame) /\ Len(v) = Len(wire) - 1
        /\ \A i \in 1..Len(v) : v[i] = wire[i + 1]
    BY <1>1, <1>3
  <2> HIDE DEF v
  <2>2. InOrder(v, Len(sent))
    BY <1>1, <2>1, ShiftInOrder
  <2> QED BY <2>2 DEF v
<1>5. \A i \in 1..Len(wire') : MsgAfter(wire[1]) <= wire'[i].msg
  <2>1. SUFFICES ASSUME NEW i \in 1..Len(wire') PROVE MsgAfter(wire[1]) <= wire'[i].msg
    OBVIOUS
  <2>2. i + 1 \in 1..Len(wire) /\ 1 < i + 1 /\ wire'[i] = wire[i + 1]
    BY <1>1, <1>3
  <2> QED BY <1>1, <2>2 DEF InOrder
<1>6. ASSUME wire' = << >> PROVE MsgAfter(wire[1]) = Len(sent) + 1 /\ ~InnerAfter(wire[1])
  <2>1. Len(wire) = 1
    BY <1>1, <1>3, <1>6
  <2> QED BY <1>1, <2>1 DEF InOrder
<1>7. ASSUME wire' # << >>
      PROVE  wire'[1].msg = MsgAfter(wire[1]) /\ (wire'[1].inner <=> InnerAfter(wire[1]))
  <2>1. 1 \in 1..Len(wire') /\ 1 \in 1..(Len(wire) - 1)
    BY <1>1, <1>3, <1>7
  <2>2. wire'[1] = wire[1 + 1]
    BY <1>3, <2>1
  <2> QED BY <1>1, <2>1, <2>2 DEF InOrder
<1>8. arrived' \in 0..2 /\ arrived' <= Unread' /\ skewed' = FALSE
  BY <1>1, <1>2, <1>3 DEF Unread, Inv, Stream
<1>9. FrameOK(wire[1], Len(sent))
  BY <1>1 DEF InOrder
<1> QED BY <1>1, <1>3, <1>4, <1>5, <1>6, <1>7, <1>8, <1>9

\* The connection is not read any more.
LEMMA Leaving ==
  ASSUME Inv, NEW s \in {"null", "disconnected", "error"}, Left(s),
         fragments' \in {fragments, NoFragments},
         UNCHANGED <<sent, taken, intact>>
  PROVE  Stream' /\ Fragments(Len(sent))' /\ Synced'
<1>1. state' = s /\ wire' = << >> /\ arrived' = 0 /\ skewed' = FALSE
  BY DEF Left
<1>2. Stream'
  <2>1. Len(wire') = 0 /\ wire' \in Seq(Frame)
    BY <1>1
  <2>2. InOrder(wire, Len(sent))'
    BY <2>1 DEF InOrder
  <2>3. Unread' = 0
    BY <1>1, <2>1 DEF Unread
  <2>4. \A i \in 1..Len(wire') : (taken < wire[i].msg)'
    BY <2>1
  <2>5. arrived' \in 0..2 /\ arrived' <= Unread'
    BY <1>1, <2>3
  <2>6. skewed' \in BOOLEAN /\ ~skewed'
    BY <1>1
  <2> QED BY <1>1, <2>1, <2>2, <2>4, <2>5, <2>6 DEF Stream
<1>3. Fragments(Len(sent))'
  <2>1. NoFragments \in [open : BOOLEAN, parts : SUBSET (0..Len(sent)), len : 0..MaxBuf]
    BY SignalingAssumption DEF NoFragments
  <2> QED BY <2>1 DEF Inv, Fragments
<1>4. Synced'
  <2>1. SUFFICES ASSUME intact PROVE fragments'.open => fragments'.parts = {taken + 1}
    BY <1>1 DEF Synced
  <2> QED BY <2>1 DEF Inv, Synced, NoFragments
<1> QED BY <1>2, <1>3, <1>4

LEMMA ReportedEvents ==
  /\ \A kind \in Kind : Reported(kind) \subseteq Event
  /\ \A e \in Event : e \in [type : EventTypes, data : BOOLEAN]
<1>1. \A type \in {"offer", "answer", "candidate"} : Carrying(type) \subseteq Event
  <2>1. SUFFICES ASSUME NEW type \in {"offer", "answer", "candidate"}, NEW e \in Carrying(type)
                 PROVE  e \in Event
    OBVIOUS
  <2>2. PICK d \in BOOLEAN : e = [type |-> type, data |-> d]
    BY <2>1 DEF Carrying
  <2>3. e \in [type : EventTypes, data : BOOLEAN] /\ e.type = type
    BY <2>2 DEF EventTypes
  <2> QED BY <2>3 DEF Event
<1>2. \A type \in {"peer_join", "peer_leave", "candidate"} : [type |-> type, data |-> FALSE] \in Event
  BY DEF Event, EventTypes
<1>3. ASSUME NEW kind \in Kind PROVE Reported(kind) \subseteq Event
  BY <1>1, <1>2 DEF Reported, Kind
<1> QED BY <1>3 DEF Event

\* A message is processed.
LEMMA Processing ==
  ASSUME Inv, NEW m \in 1..Len(sent), taken < m, NEW whole, ProcessMessage(m, whole), sent' = sent
  PROVE  Reporting' /\ taken' \in {taken, m} /\ (intact' => intact /\ taken' = m)
<1>1. /\ Len(sent) \in Nat /\ sent[m] \in Kind /\ taken \in 0..Len(sent) /\ m \in 0..Len(sent)
      /\ told \in [calls : Nat, msg : 0..Len(sent), event : Event] /\ intact \in BOOLEAN
  BY DEF Inv, Counted, Reporting
<1>2. CASE intact' = FALSE /\ UNCHANGED <<taken, told>>
  BY <1>1, <1>2 DEF Reporting
<1>3. CASE taken' = m /\ UNCHANGED intact /\ (Told(m) \/ ToldGarbage)
  <2>1. told' \in [calls : Nat, msg : 0..Len(sent), event : Event]
    <3>1. CASE told' = told
      BY <1>1, <3>1
    <3>2. CASE \E e \in Reported(sent[m]) : told' = Called(m, e)
      BY <1>1, <3>2, ReportedEvents DEF Called
    <3>3. CASE told' = [told EXCEPT !.calls = @ + 1, !.msg = 0]
      <4>1. told.calls + 1 \in Nat /\ 0 \in 0..Len(sent)
        BY <1>1
      <4> QED BY <1>1, <3>3, <4>1
    <3> QED BY <1>3, <3>1, <3>2, <3>3 DEF Told, ToldGarbage
  <2> QED BY <1>1, <1>3, <2>1 DEF Reporting
<1> QED BY <1>2, <1>3 DEF ProcessMessage

\* A frame that ends a message is read, and the message is processed.
LEMMA Ending ==
  ASSUME Inv, state = "connected", ~skewed, wire # << >>, arrived >= 2, Read,
         wire[1].op \in Data, wire[1].fin, NEW whole, ProcessMessage(wire[1].msg, whole),
         Fragments(Len(sent))', intact => ~fragments'.open,
         UNCHANGED <<state, outbox, sends, server>>
  PROVE  Inv'
<1> DEFINE m == wire[1].msg
<1>1. /\ wire' \in Seq(Frame) /\ InOrder(wire', Len(sent))
      /\ arrived' \in 0..2 /\ arrived' <= Unread' /\ skewed' = FALSE
      /\ FrameOK(wire[1], Len(sent)) /\ taken < m
      /\ \A i \in 1..Len(wire') : MsgAfter(wire[1]) <= wire'[i].msg
      /\ wire' = << >> => MsgAfter(wire[1]) = Len(sent) + 1
      /\ wire' # << >> => /\ wire'[1].msg = MsgAfter(wire[1])
                          /\ wire'[1].inner <=> InnerAfter(wire[1])
  BY ReadOne
<1>2. UNCHANGED <<state, outbox, sends, pings, closed, sent>>
  BY DEF server
<1>3. Len(sent) \in Nat /\ taken \in 0..Len(sent)
  BY DEF Inv, Counted, Reporting
<1>4. m \in 1..Len(sent) /\ MsgAfter(wire[1]) = m + 1 /\ ~InnerAfter(wire[1])
  BY <1>1, <1>3 DEF FrameOK, Frame, MsgAfter, InnerAfter, Data
<1>5. Reporting' /\ taken' \in {taken, m} /\ (intact' => intact /\ taken' = m)
  BY <1>1, <1>2, <1>4, Processing
<1> HIDE DEF m
<1>6. Stream'
  <2>1. \A i \in 1..Len(wire') : taken' < wire'[i].msg
    <3>1. SUFFICES ASSUME NEW i \in 1..Len(wire') PROVE taken' < wire'[i].msg
      OBVIOUS
    <3>2. FrameOK(wire'[i], Len(sent))
      BY <1>1 DEF InOrder
    <3>3. wire'[i].msg \in Nat
      BY <3>2 DEF FrameOK, Frame
    <3> QED BY <1>1, <1>3, <1>4, <1>5, <3>3
  <2>2. wire' # << >> => state' = "connected"
    BY <1>2
  <2> QED BY <1>1, <1>2, <2>1, <2>2 DEF Stream
<1>8. Synced'
  <2>1. SUFFICES ASSUME intact'
                 PROVE  /\ ~fragments'.open
                        /\ wire' = << >> => taken' = Len(sent)
                        /\ wire' # << >> => wire'[1].msg = taken' + 1 /\ ~wire'[1].inner
    BY <1>1, <1>2 DEF Synced
  <2> QED BY <1>1, <1>3, <1>4, <1>5, <2>1
<1>9. Fresh'
  BY <1>2 DEF Inv, Fresh
<1> QED BY <1>2, <1>5, <1>6, <1>8, <1>9 DEF Inv, Counted

\* What a step leaves alone when it only sends a frame of the client.
LEMMA Answering ==
  ASSUME Inv, outbox'.op # "none", sends' \in 0..MaxSends,
         UNCHANGED <<state, stream, fragments, server, reports>>
  PROVE  state = "connected" => Inv'
<1>1. UNCHANGED <<state, wire, arrived, skewed, fragments, pings, closed, sent, taken, told, intact>>
  BY DEF stream, server, reports
<1>2. Unread' = Unread /\ InOrder(wire, Len(sent))' = InOrder(wire, Len(sent))
  BY <1>1 DEF Unread, InOrder
<1>3. Stream' /\ Fragments(Len(sent))' /\ Synced'
  BY <1>1, <1>2 DEF Inv, Stream, Fragments, Synced
<1>4. Counted' /\ Reporting'
  BY <1>1 DEF Inv, Counted, Reporting
<1>5. state = "connected" => Fresh'
  BY <1>1 DEF Fresh
<1> QED BY <1>1, <1>3, <1>4, <1>5 DEF Inv

LEMMA InitInv == Init => Inv
<1> SUFFICES ASSUME Init PROVE Inv
  OBVIOUS
<1>1. Len(sent) = 0 /\ Len(wire) = 0 /\ Unread = 0 /\ sent = << >> /\ wire = << >>
  BY DEF Init, Unread
<1>2. wire \in Seq(Frame) /\ sent \in Seq(Kind)
  BY <1>1
<1>3. Stream
  <2>1. InOrder(wire, Len(sent))
    BY <1>1 DEF InOrder
  <2>2. arrived \in 0..2 /\ arrived <= Unread
    BY <1>1 DEF Init
  <2>3. skewed \in BOOLEAN /\ ~skewed
    BY DEF Init
  <2>4. \A i \in 1..Len(wire) : taken < wire[i].msg
    BY <1>1
  <2> QED BY <1>1, <1>2, <2>1, <2>2, <2>3, <2>4 DEF Stream
<1>4. Fragments(Len(sent))
  BY SignalingAssumption DEF Init, Fragments, NoFragments
<1>5. Counted
  <2>1. pings \in 0..MaxPings /\ sends \in 0..MaxSends /\ Len(sent) <= MaxMessages
    BY <1>1, SignalingAssumption DEF Init
  <2>2. closed \in BOOLEAN
    BY DEF Init
  <2> QED BY <1>2, <2>1, <2>2 DEF Counted
<1>6. Reporting
  BY <1>1 DEF Init, Reporting, NotTold, Event, EventTypes
<1>7. Synced /\ Fresh
  BY <1>1 DEF Init, Synced, Fresh, Out, OutFrame, NoFragments
<1> QED BY <1>3, <1>4, <1>5, <1>6, <1>7 DEF Init, Inv

-----------------------------------------------------------------------------
\* Every step keeps Inv.

LEMMA ServerInv ==
  ASSUME Inv, ServerSends \/ ServerPings \/ ServerCloses
  PROVE  Inv'
<1>1. state = "connected" /\ Len(sent) \in Nat /\ pings \in Nat /\ MaxPings \in Nat
  BY SignalingAssumption DEF ServerSends, ServerPings, ServerCloses, CanServe, Inv, Counted
<1>2. CASE ServerSends
  <2>1. PICK kind \in Kinds, len \in Lens :
          \E frames \in Framings(Len(sent) + 1, len) :
            /\ pings + Pings(frames) <= MaxPings
            /\ wire' = wire \o frames
            /\ pings' = pings + Pings(frames)
            /\ sent' = Append(sent, kind)
    BY <1>2 DEF ServerSends
  <2>2. PICK v \in Framings(Len(sent) + 1, len) :
            /\ pings + Pings(v) <= MaxPings
            /\ wire' = wire \o v
            /\ pings' = pings + Pings(v)
            /\ sent' = Append(sent, kind)
    BY <2>1
  <2>3. len \in Nat \ {0}
    BY SignalingAssumption
  <2>4. /\ v \in Seq(Frame) /\ Len(v) > 0 /\ InOrder(v, Len(sent) + 1) /\ ~v[1].inner
        /\ \A i \in 1..Len(v) : v[i].msg = Len(sent) + 1
    BY <1>1, <2>3, FramingsInOrder
  <2>5. kind \in Kind /\ sent \in Seq(Kind)
    BY SignalingAssumption DEF Inv, Counted
  <2>6. sent' \in Seq(Kind) /\ Len(sent') = Len(sent) + 1 /\ Len(sent) < MaxMessages
    BY <1>2, <2>2, <2>5 DEF ServerSends
  <2>7. UNCHANGED <<state, arrived, skewed, fragments, outbox, sends, closed, reports>>
    BY <1>2 DEF ServerSends
  <2>8. Stream' /\ Fragments(Len(sent))' /\ Synced' /\ Fresh'
    BY <1>1, <2>2, <2>4, <2>6, <2>7, Sending
  <2>9. Counted'
    <3>1. pings' \in 0..MaxPings
      BY <1>1, <2>2, <2>4, PingsCounted
    <3>2. Len(sent') <= MaxMessages
      BY <1>1, <2>6, SignalingAssumption
    <3> QED BY <2>6, <2>7, <3>1, <3>2 DEF Inv, Counted
  <2>10. Reporting'
    <3>1. UNCHANGED <<taken, told, intact>>
      BY <2>7 DEF reports
    <3>2. 0..Len(sent) \subseteq 0..Len(sent')
      BY <1>1, <2>6
    <3>3. told \in [calls : Nat, msg : 0..Len(sent'), event : Event]
      BY <3>2 DEF Inv, Reporting
    <3> QED BY <3>1, <3>2, <3>3 DEF Inv, Reporting
  <2> QED BY <2>7, <2>8, <2>9, <2>10 DEF Inv
<1>3. CASE ServerPings \/ ServerCloses
  <2>1. PICK op \in {"ping", "close", "eof"} : wire' = Append(wire, ControlFrame(op))
    BY <1>3 DEF ServerPings, ServerCloses
  <2>2. /\ UNCHANGED <<state, arrived, skewed, fragments, outbox, sends, sent, reports>>
        /\ pings' \in 0..MaxPings /\ closed' \in BOOLEAN
    <3>1. UNCHANGED <<state, arrived, skewed, fragments, outbox, sends, sent, reports>>
      BY <1>3 DEF ServerPings, ServerCloses
    <3>2. pings' = pings \/ (pings < MaxPings /\ pings' = pings + 1)
      BY <1>3 DEF ServerPings, ServerCloses
    <3>3. pings' \in 0..MaxPings
      BY <1>1, <3>2 DEF Inv, Counted
    <3>4. closed' = closed \/ closed' = TRUE
      BY <1>3 DEF ServerPings, ServerCloses
    <3>5. closed' \in BOOLEAN
      BY <3>4 DEF Inv, Counted
    <3> QED BY <3>1, <3>3, <3>5
  <2> DEFINE v == <<ControlFrame(op)>>
  <2>3. /\ v \in Seq(Frame) /\ InOrder(v, Len(sent)) /\ Len(v) = 1
        /\ ~v[1].inner /\ v[1].msg = Len(sent) + 1
    BY ControlInOrder
  <2>4. wire' = wire \o v
    <3>1. wire \in Seq(Frame) /\ ControlFrame(op) \in Frame
      BY <2>3 DEF Inv, Stream
    <3> QED BY <2>1, <3>1
  <2> HIDE DEF v
  <2>5. Len(v) > 0 /\ (\A i \in 1..Len(v) : v[i].msg = Len(sent) + 1) /\ Len(sent') = Len(sent)
    BY <2>2, <2>3
  <2>6. Stream' /\ Fragments(Len(sent))' /\ Synced' /\ Fresh'
    BY <1>1, <2>2, <2>3, <2>4, <2>5, Sending
  <2>7. Counted' /\ Reporting'
    BY <2>2 DEF Inv, Counted, Reporting, reports
  <2> QED BY <2>2, <2>6, <2>7 DEF Inv
<1> QED BY <1>2, <1>3

\* What a step does when it leaves the connection, if Fresh is kept.
LEMMA LeavingInv ==
  ASSUME Inv, NEW s \in {"null", "disconnected", "error"}, Left(s),
         fragments' \in {fragments, NoFragments}, sends' \in 0..MaxSends,
         UNCHANGED <<server, reports>>,
         state # "connecting" /\ state # "null", outbox'.op # "none"
  PROVE  Inv'
<1>1. UNCHANGED <<pings, closed, sent, taken, told, intact>>
  BY DEF server, reports
<1>2. Stream' /\ Fragments(Len(sent))' /\ Synced'
  BY <1>1, Leaving
<1>3. Counted' /\ Reporting'
  BY <1>1 DEF Inv, Counted, Reporting
<1>4. state' = s
  BY DEF Left
<1>5. Fresh'
  BY <1>4 DEF Fresh
<1> QED BY <1>2, <1>3, <1>4, <1>5 DEF Inv

\* A handle is made, or not; some of the stream arrives.
LEMMA CreateInv ==
  ASSUME Inv, BeginCreate \/ FinishCreate \/ CreateFails \/ Arrive
  PROVE  Inv'
<1>1. UNCHANGED <<wire, skewed, fragments, sends, pings, closed, sent, taken, told, intact>>
  BY DEF BeginCreate, FinishCreate, CreateFails, Arrive, stream, server, reports
<1>2. /\ InOrder(wire, Len(sent))' = InOrder(wire, Len(sent))
      /\ Unread' = Unread
  BY <1>1 DEF InOrder, Unread
<1>3. /\ Fragments(Len(sent))' /\ Counted' /\ Reporting'
  BY <1>1 DEF Inv, Fragments, Counted, Reporting
<1>4. CASE Arrive
  <2>1. PICK n \in {1, 2} : arrived < n /\ n <= Unread /\ arrived' = n
    BY <1>4 DEF Arrive
  <2>2. state' = state /\ outbox' = outbox
    BY <1>4 DEF Arrive
  <2>3. arrived' \in 0..2 /\ arrived' <= Unread'
    BY <1>2, <2>1
  <2>4. Stream' /\ Synced' /\ Fresh'
    BY <1>1, <1>2, <2>2, <2>3 DEF Inv, Stream, Synced, Fresh
  <2> QED BY <1>3, <2>2, <2>4 DEF Inv
<1>5. CASE BeginCreate \/ FinishCreate \/ CreateFails
  <2>1. arrived' = arrived /\ state # "connected" /\ wire = << >>
    BY <1>5 DEF BeginCreate, FinishCreate, CreateFails, stream, Inv, Stream
  <2>2. Stream'
    BY <1>1, <1>2, <2>1 DEF Inv, Stream
  <2>3. CASE BeginCreate
    <3>1. state' = "connecting" /\ outbox' = outbox /\ outbox.op = "none"
      BY <2>3 DEF BeginCreate, Out, OutFrame
    <3> QED BY <1>1, <1>3, <2>1, <2>2, <3>1 DEF Inv, Synced, Fresh
  <2>4. CASE FinishCreate
    <3>1. state = "connecting" /\ state' = "connected" /\ outbox'.op = "text"
      BY <2>4 DEF FinishCreate, Out, OutFrame
    <3>2. sent = << >> /\ taken = 0 /\ fragments = NoFragments
      BY <3>1 DEF Inv, Fresh
    <3>3. Synced'
      BY <1>1, <2>1, <3>2 DEF Inv, Synced, NoFragments
    <3> QED BY <1>1, <1>3, <2>2, <3>1, <3>3 DEF Inv, Fresh
  <2>5. CASE CreateFails
    <3>1. state' = "null" /\ outbox' = outbox
      BY <2>5 DEF CreateFails
    <3> QED BY <1>1, <1>3, <2>1, <2>2, <3>1 DEF Inv, Synced, Fresh
  <2> QED BY <1>5, <2>3, <2>4, <2>5
<1> QED BY <1>4, <1>5

\* The application sends, disconnects or destroys the handle.
LEMMA ApplicationInv ==
  ASSUME Inv, Disconnect \/ Destroy \/ SendDescription \/ SendCandidate
  PROVE  Inv'
<1>1. MaxSends \in Nat /\ sends \in 0..MaxSends
  BY SignalingAssumption DEF Inv, Counted
<1>2. ASSUME NEW f, Sent(f), f.op = "text", state = "connected", sends < MaxSends, sends' = sends + 1,
             UNCHANGED <<fragments, server, reports>>
      PROVE  Inv'
  <2>1. sends' \in 0..MaxSends
    BY <1>1, <1>2
  <2>2. CASE outbox' = f /\ UNCHANGED <<state, stream>>
    BY <1>2, <2>1, <2>2, Answering
  <2>3. CASE Left("error") /\ outbox' = outbox
    <3>1. outbox.op # "none"
      BY <1>2 DEF Inv, Fresh
    <3> QED BY <1>2, <2>1, <2>3, <3>1, LeavingInv
  <2> QED BY <1>2, <2>2, <2>3 DEF Sent
<1>3. CASE Disconnect
  <2>1. /\ state \in {"connected", "error"} /\ Left("disconnected")
        /\ UNCHANGED <<fragments, outbox, sends, server, reports>>
    BY <1>3 DEF Disconnect
  <2>2. outbox'.op # "none"
    BY <2>1 DEF Inv, Fresh
  <2> QED BY <1>1, <2>1, <2>2, LeavingInv
<1>4. CASE Destroy
  <2>1. /\ state \in {"connected", "disconnected", "error"} /\ Left("null")
        /\ fragments' = NoFragments /\ UNCHANGED <<sends, server, reports>>
        /\ outbox' = IF state = "connected" THEN Out("close", "none") ELSE outbox
    BY <1>4 DEF Destroy
  <2>2. outbox'.op # "none"
    BY <2>1 DEF Inv, Fresh, Out, OutFrame
  <2> QED BY <1>1, <2>1, <2>2, LeavingInv
<1>5. CASE SendDescription
  <2>1. PICK text \in Texts : Sent(OutFrame("text", "description", text, Escape(text, EscapedSize)))
    BY <1>5 DEF SendDescription
  <2>2. OutFrame("text", "description", text, Escape(text, EscapedSize)).op = "text"
    BY DEF OutFrame
  <2> QED BY <1>2, <1>5, <2>1, <2>2 DEF SendDescription
<1>6. CASE SendCandidate
  <2>1. Out("text", "ice-candidate").op = "text"
    BY DEF Out, OutFrame
  <2> QED BY <1>2, <1>6, <2>1 DEF SendCandidate
<1> QED BY <1>3, <1>4, <1>5, <1>6

\* A frame is read that ends no message.
LEMMA ReadOnInv ==
  ASSUME Inv, state = "connected", ~skewed, wire # << >>, arrived >= 2, Read,
         MsgAfter(wire[1]) = wire[1].msg,
         Fragments(Len(sent))', outbox'.op # "none",
         intact => /\ fragments'.open <=> InnerAfter(wire[1])
                   /\ fragments'.open => fragments'.parts = {taken + 1},
         UNCHANGED <<state, sends, server, reports>>
  PROVE  Inv'
<1>1. /\ wire' \in Seq(Frame) /\ InOrder(wire', Len(sent))
      /\ arrived' \in 0..2 /\ arrived' <= Unread' /\ skewed' = FALSE
      /\ FrameOK(wire[1], Len(sent)) /\ taken < wire[1].msg
      /\ \A i \in 1..Len(wire') : MsgAfter(wire[1]) <= wire'[i].msg
      /\ wire' = << >> => MsgAfter(wire[1]) = Len(sent) + 1 /\ ~InnerAfter(wire[1])
      /\ wire' # << >> => /\ wire'[1].msg = MsgAfter(wire[1])
                          /\ wire'[1].inner <=> InnerAfter(wire[1])
  BY ReadOne
<1>2. UNCHANGED <<state, sends, pings, closed, sent, taken, told, intact>>
  BY DEF server, reports
<1>3. Len(sent) \in Nat /\ taken \in 0..Len(sent) /\ wire[1].msg \in Nat
  BY <1>1 DEF Inv, Counted, Reporting, FrameOK, Frame
<1>4. Stream'
  <2>1. \A i \in 1..Len(wire') : taken' < wire'[i].msg
    <3>1. SUFFICES ASSUME NEW i \in 1..Len(wire') PROVE taken' < wire'[i].msg
      OBVIOUS
    <3>2. FrameOK(wire'[i], Len(sent))
      BY <1>1 DEF InOrder
    <3>3. wire'[i].msg \in Nat
      BY <3>2 DEF FrameOK, Frame
    <3> QED BY <1>1, <1>2, <1>3, <3>3
  <2> QED BY <1>1, <1>2, <2>1 DEF Stream
<1>5. Counted' /\ Reporting' /\ Fresh'
  BY <1>2 DEF Inv, Counted, Reporting, Fresh
<1>6. Synced'
  <2>1. SUFFICES ASSUME intact
                 PROVE  /\ wire' = << >> => taken = Len(sent) /\ ~fragments'.open
                        /\ wire' # << >> => wire'[1].msg = taken + 1 /\ (fragments'.open <=> wire'[1].inner)
                        /\ fragments'.open => fragments'.parts = {taken + 1}
    BY <1>1, <1>2 DEF Synced
  <2>2. wire[1].msg = taken + 1
    BY <2>1 DEF Inv, Synced
  <2>3. wire' = << >> => taken = Len(sent)
    BY <1>1, <1>3, <2>2
  <2> QED BY <1>1, <2>1, <2>2, <2>3
<1> QED BY <1>2, <1>4, <1>5, <1>6 DEF Inv

LEMMA ReadMessageInv ==
  ASSUME Inv, ReadMessage
  PROVE  Inv'
<1>1. /\ state = "connected" /\ ~skewed /\ wire # << >> /\ arrived >= 2
      /\ Head(wire).op = "text" /\ Head(wire).fin /\ Read
      /\ ProcessMessage(Head(wire).msg, TRUE)
      /\ UNCHANGED <<state, fragments, outbox, sends, server>>
  BY DEF ReadMessage, Reading
<1>2. Head(wire) = wire[1] /\ FrameOK(wire[1], Len(sent)) /\ taken < wire[1].msg
  BY <1>1, ReadOne
<1>3. intact => ~fragments'.open
  BY <1>1, <1>2 DEF Inv, Synced, FrameOK
<1>4. Fragments(Len(sent))'
  BY <1>1 DEF Inv, Fragments, server
<1> QED BY <1>1, <1>2, <1>3, <1>4, Ending DEF Data

LEMMA ReadLastInv ==
  ASSUME Inv, ReadLast
  PROVE  Inv'
<1>1. /\ state = "connected" /\ ~skewed /\ wire # << >> /\ arrived >= 2
      /\ Head(wire).op = "continue" /\ Head(wire).fin /\ Read
      /\ ProcessMessage(Head(wire).msg, fragments.parts = {Head(wire).msg})
      /\ fragments' = NoFragments
      /\ UNCHANGED <<state, outbox, sends, server>>
  BY DEF ReadLast, Reading
<1>2. Head(wire) = wire[1]
  BY <1>1, ReadOne
<1>3. Fragments(Len(sent))' /\ ~fragments'.open
  BY <1>1, SignalingAssumption DEF NoFragments, Fragments
<1> DEFINE whole == fragments.parts = {Head(wire).msg}
<1>4. ProcessMessage(wire[1].msg, whole) /\ wire[1].op \in Data /\ wire[1].fin
  BY <1>1, <1>2 DEF Data
<1> HIDE DEF whole
<1> QED BY <1>1, <1>3, <1>4, Ending

\* A data frame is added to message_buf.
LEMMA ExtendedOK ==
  ASSUME Inv, FrameOK(wire[1], Len(sent)), wire[1].op \in Data, Fits(wire[1]),
         fragments' = Extended(wire[1]), UNCHANGED server
  PROVE  /\ Fragments(Len(sent))' /\ fragments'.open
         /\ fragments'.parts = fragments.parts \cup {wire[1].msg}
<1>1. /\ wire[1].msg \in 0..Len(sent) /\ wire[1].len \in Nat
      /\ fragments.len + wire[1].len <= MaxBuf /\ MaxBuf \in Nat
      /\ fragments.len \in 0..MaxBuf /\ fragments.parts \in SUBSET (0..Len(sent))
      /\ sent' = sent
  BY SignalingAssumption DEF FrameOK, Frame, Data, Inv, Counted, Fits, Fragments, server
<1>2. fragments' = [open |-> TRUE, parts |-> fragments.parts \cup {wire[1].msg},
                    len |-> fragments.len + wire[1].len]
  BY DEF Extended
<1>3. fragments.len + wire[1].len \in 0..MaxBuf
  BY <1>1
<1>4. fragments.parts \cup {wire[1].msg} \in SUBSET (0..Len(sent))
  BY <1>1
<1>5. fragments' \in [open : BOOLEAN, parts : SUBSET (0..Len(sent)), len : 0..MaxBuf] /\ fragments'.open
  BY <1>2, <1>3, <1>4
<1> QED BY <1>1, <1>2, <1>5 DEF Fragments

LEMMA ReadFirstInv ==
  ASSUME Inv, ReadFirst
  PROVE  Inv'
<1>1. /\ state = "connected" /\ ~skewed /\ wire # << >> /\ arrived >= 2
      /\ Head(wire).op = "text" /\ ~Head(wire).fin /\ Read
      /\ Fits(Head(wire)) /\ fragments' = Extended(Head(wire))
      /\ UNCHANGED <<state, outbox, sends, server, reports>>
  BY DEF ReadFirst, Reading
<1>2. Head(wire) = wire[1] /\ FrameOK(wire[1], Len(sent))
  BY <1>1, ReadOne
<1>3. /\ MsgAfter(wire[1]) = wire[1].msg /\ InnerAfter(wire[1]) /\ ~wire[1].inner
      /\ wire[1].op \in Data
  BY <1>1, <1>2 DEF MsgAfter, InnerAfter, FrameOK, Data
<1>4. Fragments(Len(sent))' /\ fragments'.open
      /\ fragments'.parts = fragments.parts \cup {wire[1].msg}
  BY <1>1, <1>2, <1>3, ExtendedOK
<1>5. ASSUME intact PROVE fragments'.parts = {taken + 1}
  <2>1. ~fragments.open /\ wire[1].msg = taken + 1
    BY <1>1, <1>3, <1>5 DEF Inv, Synced
  <2>2. fragments.parts = {}
    BY <2>1 DEF Inv, Fragments, NoFragments
  <2> QED BY <1>4, <2>1, <2>2
<1>6. outbox'.op # "none"
  BY <1>1 DEF Inv, Fresh
<1> QED BY <1>1, <1>3, <1>4, <1>5, <1>6, ReadOnInv

LEMMA ReadMiddleInv ==
  ASSUME Inv, ReadMiddle
  PROVE  Inv'
<1>1. /\ state = "connected" /\ ~skewed /\ wire # << >> /\ arrived >= 2
      /\ Head(wire).op = "continue" /\ ~Head(wire).fin /\ Read
      /\ fragments.open /\ Fits(Head(wire)) /\ fragments' = Extended(Head(wire))
      /\ UNCHANGED <<state, outbox, sends, server, reports>>
  BY DEF ReadMiddle, Reading
<1>2. Head(wire) = wire[1] /\ FrameOK(wire[1], Len(sent))
  BY <1>1, ReadOne
<1>3. MsgAfter(wire[1]) = wire[1].msg /\ InnerAfter(wire[1]) /\ wire[1].op \in Data
  BY <1>1, <1>2 DEF MsgAfter, InnerAfter, Data
<1>4. Fragments(Len(sent))' /\ fragments'.open
      /\ fragments'.parts = fragments.parts \cup {wire[1].msg}
  BY <1>1, <1>2, <1>3, ExtendedOK
<1>5. ASSUME intact PROVE fragments'.parts = {taken + 1}
  <2>1. fragments.parts = {taken + 1} /\ wire[1].msg = taken + 1
    BY <1>1, <1>5 DEF Inv, Synced
  <2> QED BY <1>4, <2>1
<1>6. outbox'.op # "none"
  BY <1>1 DEF Inv, Fresh
<1> QED BY <1>1, <1>3, <1>4, <1>5, <1>6, ReadOnInv

LEMMA ReadPingInv ==
  ASSUME Inv, ReadPing
  PROVE  Inv'
<1>1. /\ state = "connected" /\ ~skewed /\ wire # << >> /\ arrived >= 2
      /\ Head(wire).op = "ping"
      /\ UNCHANGED <<fragments, sends, server, reports>>
  BY DEF ReadPing, Reading
<1>2. outbox.op # "none" /\ sends' \in 0..MaxSends
  BY <1>1 DEF Inv, Fresh, Counted
<1>3. CASE Read /\ outbox' = Out("pong", "none") /\ UNCHANGED state
  <2>1. Head(wire) = wire[1]
    BY <1>1, <1>3, ReadOne
  <2>2. MsgAfter(wire[1]) = wire[1].msg /\ InnerAfter(wire[1]) = wire[1].inner
    BY <1>1, <2>1 DEF MsgAfter, InnerAfter, Data
  <2>3. Fragments(Len(sent))'
    BY <1>1 DEF Inv, Fragments, server
  <2>4. outbox'.op # "none"
    BY <1>3 DEF Out, OutFrame
  <2>5. intact => /\ fragments'.open <=> InnerAfter(wire[1])
                  /\ fragments'.open => fragments'.parts = {taken + 1}
    BY <1>1, <2>2 DEF Inv, Synced
  <2> QED BY <1>1, <1>3, <2>2, <2>3, <2>4, <2>5, ReadOnInv
<1>4. CASE Left("error") /\ UNCHANGED outbox
  BY <1>1, <1>2, <1>4, LeavingInv
<1> QED BY <1>3, <1>4 DEF ReadPing

LEMMA ReadFailsInv ==
  ASSUME Inv, ReadUnreadable \/ ReadSkewedFails \/ ReadError
  PROVE  Inv'
<1>1. /\ state = "connected" /\ Left("disconnected")
      /\ UNCHANGED <<fragments, outbox, sends, server, reports>>
  BY DEF ReadUnreadable, ReadSkewedFails, ReadError
<1>2. outbox'.op # "none" /\ sends' \in 0..MaxSends
  BY <1>1 DEF Inv, Fresh, Counted
<1> QED BY <1>1, <1>2, LeavingInv

LEMMA ReadPartInv ==
  ASSUME Inv, ReadPart
  PROVE  Inv'
<1>1. /\ state = "connected" /\ arrived = 1 /\ arrived' = 0 /\ ~skewed
      /\ skewed' = TRUE /\ intact' = FALSE
      /\ UNCHANGED <<state, wire, fragments, outbox, sends, pings, closed, sent, taken, told>>
  BY DEF ReadPart, server
<1>2. Len(wire) \in Nat /\ 1 <= 2 * Len(wire) /\ wire \in Seq(Frame)
  BY <1>1 DEF Inv, Stream, Unread
<1>3. wire # << >> /\ arrived' <= Unread' /\ arrived' \in 0..2
  BY <1>1, <1>2 DEF Unread
<1>4. InOrder(wire, Len(sent))' = InOrder(wire, Len(sent))
  BY <1>1 DEF InOrder
<1>5. skewed' \in BOOLEAN /\ intact' \in BOOLEAN /\ ~intact'
  BY <1>1
<1>6. Stream'
  BY <1>1, <1>3, <1>4, <1>5 DEF Inv, Stream
<1>7. Fragments(Len(sent))' /\ Counted' /\ Fresh'
  BY <1>1 DEF Inv, Fragments, Counted, Fresh
<1>8. Reporting' /\ Synced'
  BY <1>1, <1>5 DEF Inv, Reporting, Synced
<1> QED BY <1>1, <1>6, <1>7, <1>8 DEF Inv

\* Halves and the frames they belong to.
LEMMA Halves ==
  ASSUME NEW left \in Nat
  PROVE  /\ (left + 1) \div 2 \in Nat
         /\ left % 2 \in {0, 1}
         /\ 2 * ((left + 1) \div 2) = left + (left % 2)
  OBVIOUS

LEMMA ReadSkewedInv ==
  ASSUME Inv, ReadSkewed
  PROVE  Inv'
<1>1. /\ state = "connected" /\ skewed
      /\ UNCHANGED <<state, sends, pings, closed, sent, taken, intact>>
  BY DEF ReadSkewed, server
<1>2. PICK n \in 1..arrived : Skipped(n)
  BY DEF ReadSkewed
<1>3. /\ wire \in Seq(Frame) /\ Len(wire) \in Nat /\ Unread = 2 * Len(wire) - 1
      /\ arrived \in 0..2 /\ arrived <= Unread /\ InOrder(wire, Len(sent)) /\ Len(sent) \in Nat
      /\ \A i \in 1..Len(wire) : taken < wire[i].msg
  BY <1>1 DEF Inv, Stream, Unread, Counted
<1> DEFINE left == Unread - n
           kept == (left + 1) \div 2
           k    == Len(wire) - kept
<1>4. left \in Nat /\ n \in Nat /\ n <= arrived
  BY <1>3
<1>5. /\ wire' = SubSeq(wire, Len(wire) - kept + 1, Len(wire))
      /\ arrived' = arrived - n /\ skewed' = (left % 2 = 1)
  BY <1>2 DEF Skipped
<1>6. kept \in Nat /\ left % 2 \in {0, 1} /\ 2 * kept = left + (left % 2)
  BY <1>4, Halves
<1> HIDE DEF kept, left
<1>7. left + n = Unread
  BY <1>3, <1>4 DEF left
<1>8. kept <= Len(wire) /\ k \in 0..Len(wire)
  BY <1>2, <1>3, <1>4, <1>6, <1>7
<1> DEFINE v == wire'
<1>9. /\ v \in Seq(Frame) /\ Len(v) = Len(wire) - k /\ Len(v) = kept
      /\ \A i \in 1..Len(v) : i + k \in 1..Len(wire) /\ v[i] = wire[i + k]
  BY <1>3, <1>5, <1>6, <1>8
<1> HIDE DEF v, k
<1>10. InOrder(v, Len(sent))
  BY <1>3, <1>8, <1>9, ShiftInOrder
<1>11. \A i \in 1..Len(v) : taken < v[i].msg
  BY <1>3, <1>9
<1>12. skewed' \in BOOLEAN /\ (skewed' <=> left % 2 = 1)
  BY <1>5
<1>13. Unread' = left
  <2>1. Unread' = 2 * Len(wire') - (IF skewed' THEN 1 ELSE 0)
    BY DEF Unread
  <2>2. Len(wire') = kept
    BY <1>9 DEF v
  <2>3. CASE left % 2 = 1
    <3>1. Unread' = 2 * kept - 1
      BY <1>12, <2>1, <2>2, <2>3
    <3> QED BY <1>4, <1>6, <2>3, <3>1
  <2>4. CASE left % 2 # 1
    <3>1. Unread' = 2 * kept - 0
      BY <1>12, <2>1, <2>2, <2>4
    <3> QED BY <1>4, <1>6, <2>4, <3>1
  <2> QED BY <2>3, <2>4
<1>14. arrived' \in 0..2 /\ arrived' <= Unread'
  BY <1>3, <1>4, <1>5, <1>7, <1>13
<1>15. skewed' => v # << >>
  BY <1>4, <1>6, <1>9, <1>12
<1>16. Stream'
  BY <1>1, <1>9, <1>10, <1>11, <1>12, <1>14, <1>15 DEF Stream, v
<1>17. \/ ToldGarbage /\ UNCHANGED <<fragments, outbox>>
       \/ fragments.open /\ ToldGarbage /\ fragments' = NoFragments /\ UNCHANGED outbox
       \/ /\ \E len \in (fragments.len + 1)..MaxBuf :
              fragments' = [open |-> TRUE, parts |-> fragments.parts \cup {0}, len |-> len]
          /\ UNCHANGED <<outbox, told>>
       \/ outbox' = Out("pong", "none") /\ UNCHANGED <<fragments, told>>
  BY DEF ReadSkewed
<1>18. Reporting'
  <2>1. told' = told \/ told' = [told EXCEPT !.calls = @ + 1, !.msg = 0]
    BY <1>17 DEF ToldGarbage
  <2>2. told' \in [calls : Nat, msg : 0..Len(sent), event : Event]
    <3>1. told \in [calls : Nat, msg : 0..Len(sent), event : Event] /\ 0 \in 0..Len(sent)
      BY <1>3 DEF Inv, Reporting
    <3>2. CASE told' = [told EXCEPT !.calls = @ + 1, !.msg = 0]
      <4>1. told.calls + 1 \in Nat
        BY <3>1
      <4> QED BY <3>1, <3>2, <4>1
    <3> QED BY <2>1, <3>1, <3>2
  <2> QED BY <1>1, <2>2 DEF Inv, Reporting
<1>19. Fragments(Len(sent))'
  <2>1. CASE fragments' = fragments \/ fragments' = NoFragments
    <3>1. NoFragments \in [open : BOOLEAN, parts : SUBSET (0..Len(sent)), len : 0..MaxBuf]
      BY SignalingAssumption DEF NoFragments
    <3> QED BY <1>1, <2>1, <3>1 DEF Inv, Fragments
  <2>2. CASE \E len \in (fragments.len + 1)..MaxBuf :
               fragments' = [open |-> TRUE, parts |-> fragments.parts \cup {0}, len |-> len]
    <3>1. PICK len \in (fragments.len + 1)..MaxBuf :
            fragments' = [open |-> TRUE, parts |-> fragments.parts \cup {0}, len |-> len]
      BY <2>2
    <3>2. len \in 0..MaxBuf /\ fragments.parts \cup {0} \in SUBSET (0..Len(sent))
      BY <1>3, <3>1, SignalingAssumption DEF Inv, Fragments
    <3>3. fragments' \in [open : BOOLEAN, parts : SUBSET (0..Len(sent)), len : 0..MaxBuf] /\ fragments'.open
      BY <3>1, <3>2
    <3> QED BY <1>1, <3>3 DEF Fragments
  <2> QED BY <1>17, <2>1, <2>2
<1>20. Counted' /\ Synced'
  BY <1>1 DEF Inv, Counted, Synced
<1>21. Fresh'
  BY <1>1, <1>17 DEF Inv, Fresh, Out, OutFrame
<1> QED BY <1>1, <1>16, <1>18, <1>19, <1>20, <1>21 DEF Inv

LEMMA StutterInv ==
  ASSUME Inv, UNCHANGED vars
  PROVE  Inv'
<1>1. UNCHANGED <<state, wire, arrived, skewed, fragments, outbox, sends, pings, closed, sent, taken, told, intact>>
  BY DEF vars, stream, server, reports
<1> QED BY <1>1 DEF Inv, Stream, Unread, InOrder, Fragments, Counted, Reporting, Synced, Fresh

LEMMA NextInv == Inv /\ [Next]_vars => Inv'
<1> SUFFICES ASSUME Inv, [Next]_vars PROVE Inv'
  OBVIOUS
<1>1. CASE Process
  BY <1>1, ReadMessageInv, ReadFirstInv, ReadMiddleInv, ReadLastInv, ReadPingInv, ReadFailsInv,
     ReadPartInv, ReadSkewedInv DEF Process
<1>2. CASE Next /\ ~Process
  BY <1>2, ServerInv, CreateInv, ApplicationInv, ReadFailsInv DEF Next
<1> QED BY <1>1, <1>2, StutterInv

LEMMA Invariance == Spec => []Inv
<1> QED BY InitInv, NextInv, PTL DEF Spec

-----------------------------------------------------------------------------
\* The types of all variables; in particular what is put together of
\* fragments never outgrows message_buf, also after bytes from the middle of
\* a frame were taken for one (sig_read_ws_frame, signaling.c:716, :737).
THEOREM TypeCorrect == Spec => []TypeOK
<1>1. Inv => TypeOK
  BY DEF Inv, TypeOK, Stream, Fragments, Counted, Reporting
<1> QED BY Invariance, <1>1, PTL

LEMMA InitChannel == Init => Channel!Init
<1>1. NotTold.event \in Event /\ NotTold.calls = 0 /\ NotTold.msg = 0
  BY DEF NotTold, Event, EventTypes
<1> QED BY <1>1 DEF Init, Channel!Init

\* Processing a message is taking the next one while the channel is intact,
\* and taking some later one, or none, when it is not.
LEMMA ProcessingTakes ==
  ASSUME Inv, NEW m \in 1..Len(sent), taken < m, NEW whole, ProcessMessage(m, whole), sent' = sent,
         intact => m = taken + 1 /\ whole
  PROVE  Channel!Next
<1>1. Len(sent) \in Nat /\ taken \in 0..Len(sent) /\ intact \in BOOLEAN
  BY DEF Inv, Counted, Reporting
<1>2. Told(m) => Channel!Told(m)
  BY DEF Told, Channel!Told, Called, Channel!Called
<1>3. CASE intact' = FALSE /\ UNCHANGED <<taken, told>>
  <2>1. taken' \in taken..Len(sent) /\ told' = told /\ ~intact'
    BY <1>1, <1>3
  <2> QED BY <2>1 DEF Channel!Next, Channel!TakeDamaged
<1>4. CASE taken' = m /\ UNCHANGED intact /\ intact
  <2>1. Told(m) /\ m = taken + 1 /\ taken < Len(sent)
    BY <1>1, <1>4 DEF ProcessMessage
  <2> QED BY <1>2, <1>4, <2>1 DEF Channel!Next, Channel!Take
<1>5. CASE taken' = m /\ UNCHANGED intact /\ ~intact
  <2>1. Told(m) \/ ToldGarbage
    BY <1>5 DEF ProcessMessage
  <2>2. taken' \in taken..Len(sent) /\ taken' > taken /\ ~intact'
    BY <1>1, <1>5
  <2> QED BY <1>2, <1>5, <2>1, <2>2 DEF Channel!Next, Channel!TakeDamaged, ToldGarbage
<1> QED BY <1>3, <1>4, <1>5 DEF ProcessMessage

LEMMA NextChannel == Inv /\ [Next]_vars => [Channel!Next]_(Channel!chan)
<1> SUFFICES ASSUME Inv, [Next]_vars PROVE Channel!Next \/ UNCHANGED <<sent, taken, told, intact>>
  BY DEF Channel!chan
<1>1. CASE ServerSends
  <2>1. PICK kind \in Kinds : sent' = Append(sent, kind)
    BY <1>1 DEF ServerSends
  <2>2. kind \in Kind
    BY SignalingAssumption
  <2> QED BY <1>1, <2>1, <2>2 DEF ServerSends, reports, Channel!Next, Channel!Send
<1>2. CASE ReadMessage
  <2>1. /\ Head(wire).op = "text" /\ Head(wire).fin /\ ProcessMessage(Head(wire).msg, TRUE) /\ sent' = sent
        /\ Head(wire) = wire[1] /\ FrameOK(wire[1], Len(sent)) /\ taken < wire[1].msg /\ wire # << >>
    BY <1>2, ReadOne DEF ReadMessage, Reading, server
  <2>2. wire[1].msg \in 1..Len(sent) /\ (intact => wire[1].msg = taken + 1)
    BY <2>1 DEF FrameOK, Frame, Data, Inv, Synced, Counted
  <2> QED BY <2>1, <2>2, ProcessingTakes
<1>3. CASE ReadLast
  <2> DEFINE whole == fragments.parts = {Head(wire).msg}
  <2>1. /\ Head(wire).op = "continue" /\ Head(wire).fin /\ ProcessMessage(Head(wire).msg, whole) /\ sent' = sent
        /\ Head(wire) = wire[1] /\ FrameOK(wire[1], Len(sent)) /\ taken < wire[1].msg /\ wire # << >>
        /\ fragments.open
    BY <1>3, ReadOne DEF ReadLast, Reading, server
  <2>2. wire[1].msg \in 1..Len(sent) /\ (intact => wire[1].msg = taken + 1 /\ whole)
    BY <2>1 DEF FrameOK, Frame, Data, Inv, Synced, Counted
  <2> HIDE DEF whole
  <2> QED BY <2>1, <2>2, ProcessingTakes
<1>4. CASE ReadPart \/ ReadSkewed
  <2>1. taken' = taken /\ sent' = sent /\ ~intact' /\ (told' = told \/ ToldGarbage)
    BY <1>4 DEF ReadPart, ReadSkewed, server, Inv, Synced
  <2>2. taken' \in taken..Len(sent)
    BY <2>1 DEF Inv, Reporting, Counted
  <2> QED BY <2>1, <2>2 DEF Channel!Next, Channel!TakeDamaged, ToldGarbage
<1>5. CASE ServerPings \/ ServerCloses \/ Arrive \/ BeginCreate \/ FinishCreate \/ CreateFails
           \/ Disconnect \/ Destroy \/ SendDescription \/ SendCandidate
  BY <1>5 DEF ServerPings, ServerCloses, Arrive, BeginCreate, FinishCreate, CreateFails,
              Disconnect, Destroy, SendDescription, SendCandidate, server, reports
<1>6. CASE ReadFirst \/ ReadMiddle \/ ReadPing \/ ReadUnreadable \/ ReadSkewedFails \/ ReadError
  BY <1>6 DEF ReadFirst, ReadMiddle, ReadPing, ReadUnreadable, ReadSkewedFails, ReadError, server, reports
<1>7. CASE UNCHANGED vars
  BY <1>7 DEF vars, server, reports
<1> QED BY <1>1, <1>2, <1>3, <1>4, <1>5, <1>6, <1>7 DEF Next, Process

\* While nothing is misread or dropped, the callback is given every message
\* that is not silent, whole, once and in order, whatever frames it is split
\* into and whatever comes between them; afterwards those it is given still
\* come in order (sig_read_ws_frame, signaling.c:569-781,
\* sig_process_message, tinyrtc_signaling_process).
THEOREM ChannelImplemented == Spec => ImplementsChannel
<1> QED BY Invariance, InitChannel, NextChannel, PTL DEF Spec, ImplementsChannel, Channel!Spec

-----------------------------------------------------------------------------
(***************************************************************************)
(* Induction on numbers, as a property of sets of numbers, and what it     *)
(* gives for functions that are defined from one number to the next.       *)
(***************************************************************************)
LEMMA NatSetInduction ==
  ASSUME NEW T \in SUBSET Nat, 0 \in T, \A n \in T : n + 1 \in T
  PROVE  T = Nat
<1> SUFFICES ASSUME Nat \ T # {} PROVE FALSE
  OBVIOUS
<1> DEFINE R == {ss \in Nat \X Nat : ss[1] < ss[2]}
<1>0. PICK n \in Nat \ T : \A y \in Nat \ T : ~ (<<y, n>> \in R)
  <2>1. IsWellFoundedOn(R, Nat)
    BY NatLessThanWellFounded DEF OpToRel
  <2> HIDE DEF R
  <2> QED BY <2>1, WFMin
<1>1. \A y \in Nat : y < n => y \in T
  BY <1>0
<1>2. n - 1 \in Nat
  <2>1. n # 0
    OBVIOUS
  <2> QED BY <2>1
<1>3. n - 1 \in T
  BY <1>1, <1>2
<1>4. n = (n - 1) + 1
  OBVIOUS
<1> QED BY <1>3, <1>4

\* f is the iteration of F from x on.
Iterates(f, x, n, F) == f[1] = x /\ \A i \in 2..n : f[i] = F[i][f[i - 1]]

LEMMA IterationDefined ==
  ASSUME NEW S, NEW n \in Nat, 1 <= n, NEW x \in S, NEW F \in [2..n -> [S -> S]]
  PROVE  \E f \in [1..n -> S] : Iterates(f, x, n, F)
<1> DEFINE Good(k, f) == f[1] = x /\ \A i \in 2..(1 + k) : f[i] = F[i][f[i - 1]]
           T == {k \in Nat : 1 + k <= n => \E f \in [1..(1 + k) -> S] : Good(k, f)}
<1>1. 0 \in T
  <2> DEFINE f == [i \in 1..(1 + 0) |-> x]
  <2>1. f \in [1..(1 + 0) -> S] /\ Good(0, f)
    OBVIOUS
  <2> QED BY <2>1
<1>2. ASSUME NEW k \in T PROVE k + 1 \in T
  <2> SUFFICES ASSUME 1 + (k + 1) <= n
               PROVE  \E g \in [1..(1 + (k + 1)) -> S] : Good(k + 1, g)
    BY SMTT(20)
  <2>0. 1 + k <= n /\ k \in Nat
    OBVIOUS
  <2>1. PICK f \in [1..(1 + k) -> S] : Good(k, f)
    BY <2>0
  <2> DEFINE j == 1 + (k + 1)
             g == [i \in 1..j |-> IF i = j THEN F[i][f[i - 1]] ELSE f[i]]
  <2>2. F[j][f[j - 1]] \in S
    <3>1. j \in 2..n /\ j - 1 \in 1..(1 + k)
      BY <2>0
    <3>2. f[j - 1] \in S
      BY <2>1, <3>1
    <3> QED BY <3>1, <3>2
  <2>3. g \in [1..j -> S]
    <3>1. \A i \in 1..j : i # j => i \in 1..(1 + k)
      BY <2>0
    <3> QED BY <2>1, <2>2, <3>1
  <2>4. g[1] = x
    BY <2>0, <2>1
  <2>5. ASSUME NEW i \in 2..j PROVE g[i] = F[i][g[i - 1]]
    <3>1. i - 1 \in 1..(1 + k) /\ i - 1 \in 1..j /\ i \in 1..j /\ i - 1 # j
      BY <2>0
    <3>2. g[i - 1] = f[i - 1]
      BY <3>1
    <3>3. CASE i = j
      BY <3>1, <3>2, <3>3
    <3>4. CASE i # j
      <4>1. i \in 2..(1 + k)
        BY <2>0, <3>4
      <4>2. g[i] = f[i] /\ f[i] = F[i][f[i - 1]]
        BY <2>1, <3>1, <3>4, <4>1
      <4> QED BY <3>2, <4>2
    <3> QED BY <3>3, <3>4
  <2>6. Good(k + 1, g)
    BY <2>4, <2>5
  <2> QED BY <2>3, <2>6
<1> HIDE DEF T
<1>3. T = Nat
  <2>1. T \in SUBSET Nat
    BY DEF T
  <2> QED BY <1>1, <1>2, <2>1, NatSetInduction
<1>4. n - 1 \in T
  BY <1>3
<1>5. \E f \in [1..(1 + (n - 1)) -> S] : Good(n - 1, f)
  BY <1>4 DEF T
<1>6. 1 + (n - 1) = n
  OBVIOUS
<1> QED BY <1>5, <1>6 DEF Iterates

-----------------------------------------------------------------------------
(***************************************************************************)
(* JSON text.                                                              *)
(***************************************************************************)
\* The recursive functions of Escape and Unescape.
EscapeStep(s, c, size) == IF FitsEscaped(s, c, size) THEN s \o EscapeOf(c) ELSE s

EscapesTo(out, text, size) ==
  out = [i \in 0..Len(text) |->
           IF i = 0 THEN << >> ELSE EscapeStep(out[i - 1], text[i], size)]

PairAt(raw, i) ==
  raw[i] = "backslash" /\ i < Len(raw) /\ raw[i + 1] \in {"n", "quote", "backslash"}

Unescaped(c) == IF c = "n" THEN "newline" ELSE c

UnescapeStep(raw, i, one, two) ==
  IF i > Len(raw) THEN << >>
  ELSE IF PairAt(raw, i) THEN <<Unescaped(raw[i + 1])>> \o two
       ELSE <<raw[i]>> \o one

UnescapesTo(from, raw) ==
  from = [i \in 1..(Len(raw) + 2) |-> UnescapeStep(raw, i, from[i + 1], from[i + 2])]

\* Two characters for one.
IsEscape(e, c) ==
  /\ Len(e) = 2
  /\ e[1] = "backslash"
  /\ e[2] \in {"n", "quote", "backslash"}
  /\ Unescaped(e[2]) = c
  /\ c # "backslash" => e[2] # "backslash"

LEMMA IsEscapeType ==
  ASSUME NEW c, NEW d \in {"n", "quote", "backslash"}, Unescaped(d) = c,
         c # "backslash" => d # "backslash",
         NEW e, e = <<"backslash", d>>
  PROVE  e \in Seq(Char) /\ IsEscape(e, c)
<1>1. d \in Char /\ "backslash" \in Char
  BY DEF Char
<1>2. e \in Seq(Char) /\ Len(e) = 2 /\ e[1] = "backslash" /\ e[2] = d
  <2> DEFINE x == "backslash"
  <2>1. x \in Char /\ e = <<x, d>>
    BY <1>1
  <2> HIDE DEF x
  <2>2. e \in Seq(Char) /\ Len(e) = 2 /\ e[1] = x /\ e[2] = d
    BY <1>1, <2>1
  <2> QED BY <2>2 DEF x
<1> QED BY <1>2 DEF IsEscape

LEMMA EscapeOfType ==
  ASSUME NEW c \in Char
  PROVE  /\ EscapeOf(c) \in Seq(Char)
         /\ \/ c \in {"letter", "n"} /\ EscapeOf(c) = <<c>> /\ Len(EscapeOf(c)) = 1
            \/ IsEscape(EscapeOf(c), c)
<1> DEFINE e == EscapeOf(c)
<1>1. CASE c \in {"letter", "n"}
  <2>1. c # "quote" /\ c # "backslash" /\ c # "newline"
    BY <1>1
  <2>2. e = <<c>>
    BY <2>1, Zenon DEF EscapeOf
  <2> HIDE DEF e
  <2>3. e \in Seq(Char) /\ Len(e) = 1
    BY <2>2
  <2> QED BY <1>1, <2>2, <2>3 DEF e
<1>2. CASE c = "quote"
  <2>1. e = <<"backslash", "quote">>
    BY <1>2, Zenon DEF EscapeOf
  <2>2. Unescaped("quote") = c
    BY <1>2 DEF Unescaped
  <2> HIDE DEF e
  <2>3. e \in Seq(Char) /\ IsEscape(e, c)
    BY <2>1, <2>2, IsEscapeType
  <2> QED BY <2>3 DEF e
<1>3. CASE c = "backslash"
  <2>1. e = <<"backslash", "backslash">>
    BY <1>3, Zenon DEF EscapeOf
  <2>2. Unescaped("backslash") = c
    BY <1>3 DEF Unescaped
  <2> HIDE DEF e
  <2>3. e \in Seq(Char) /\ IsEscape(e, c)
    BY <1>3, <2>1, <2>2, IsEscapeType
  <2> QED BY <2>3 DEF e
<1>4. CASE c = "newline"
  <2>1. e = <<"backslash", "n">>
    BY <1>4, Zenon DEF EscapeOf
  <2>2. Unescaped("n") = c
    BY <1>4 DEF Unescaped
  <2> HIDE DEF e
  <2>3. e \in Seq(Char) /\ IsEscape(e, c)
    BY <2>1, <2>2, IsEscapeType
  <2> QED BY <2>3 DEF e
<1> QED BY <1>1, <1>2, <1>3, <1>4 DEF Char

LEMMA EscapeStepType ==
  ASSUME NEW s \in Seq(Char), NEW c \in Char, NEW size
  PROVE  EscapeStep(s, c, size) \in Seq(Char)
<1>1. EscapeOf(c) \in Seq(Char)
  BY EscapeOfType
<1>2. s \o EscapeOf(c) \in Seq(Char)
  BY <1>1, ConcatProperties
<1> QED BY <1>2 DEF EscapeStep

\* The loop of sig_json_escape.
LEMMA EscapeIs ==
  ASSUME NEW text \in Seq(Char), NEW size
  PROVE  \E out : EscapesTo(out, text, size) /\ Escape(text, size) = out[Len(text)]
<1> DEFINE n == Len(text)
           S == Seq(Char)
           step(k, s) == EscapeStep(s, text[k - 1], size)
           F == [k \in 2..(n + 1) |-> [s \in S |-> step(k, s)]]
<1>1. n \in Nat /\ \A i \in 1..n : text[i] \in Char
  OBVIOUS
<1> HIDE DEF n
<1>2. \A k \in 2..(n + 1), s \in S : step(k, s) \in S
  <2> SUFFICES ASSUME NEW k \in 2..(n + 1), NEW s \in S PROVE step(k, s) \in S
    OBVIOUS
  <2>1. k - 1 \in 1..n
    BY <1>1
  <2>2. text[k - 1] \in Char
    BY <1>1, <2>1
  <2> QED BY <2>2, EscapeStepType
<1>3. PICK f \in [1..(n + 1) -> S] : Iterates(f, << >>, n + 1, F)
  <2>1. << >> \in S
    OBVIOUS
  <2> HIDE DEF S, step
  <2>2. F \in [2..(n + 1) -> [S -> S]]
    BY <1>2
  <2> HIDE DEF F
  <2>3. n + 1 \in Nat /\ 1 <= n + 1
    BY <1>1
  <2> QED BY <2>1, <2>2, <2>3, IterationDefined
<1>4. f[1] = << >> /\ \A k \in 2..(n + 1) : f[k] = EscapeStep(f[k - 1], text[k - 1], size)
  <2>1. f[1] = << >> /\ \A k \in 2..(n + 1) : f[k] = F[k][f[k - 1]]
    BY <1>3 DEF Iterates
  <2>2. ASSUME NEW k \in 2..(n + 1) PROVE f[k] = EscapeStep(f[k - 1], text[k - 1], size)
    <3>1. k - 1 \in 1..(n + 1)
      BY <1>1
    <3>2. f[k - 1] \in S
      BY <1>3, <3>1
    <3>3. F[k][f[k - 1]] = step(k, f[k - 1])
      <4> HIDE DEF S, step
      <4> QED BY <3>2
    <3> QED BY <2>1, <3>3
  <2> QED BY <2>1, <2>2
<1> DEFINE g == [i \in 0..n |-> f[i + 1]]
           h == CHOOSE out : EscapesTo(out, text, size)
<1>5. EscapesTo(g, text, size)
  <2>1. ASSUME NEW i \in 0..n
        PROVE  g[i] = IF i = 0 THEN << >> ELSE EscapeStep(g[i - 1], text[i], size)
    <3>1. CASE i = 0
      BY <1>4, <3>1
    <3>2. CASE i # 0
      <4>1. i + 1 \in 2..(n + 1) /\ (i + 1) - 1 = i /\ i - 1 \in 0..n /\ (i - 1) + 1 = i
        BY <1>1, <3>2
      <4>2. f[i + 1] = EscapeStep(f[i], text[i], size)
        BY <1>4, <4>1
      <4>3. g[i] = f[i + 1] /\ g[i - 1] = f[i]
        BY <4>1
      <4> QED BY <3>2, <4>2, <4>3
    <3> QED BY <3>1, <3>2
  <2>2. g = [i \in 0..n |-> g[i]]
    OBVIOUS
  <2> HIDE DEF g
  <2>3. g = [i \in 0..n |-> IF i = 0 THEN << >> ELSE EscapeStep(g[i - 1], text[i], size)]
    BY <2>1, <2>2
  <2> QED BY <2>3 DEF EscapesTo, n
<1>6. EscapesTo(h, text, size)
  BY <1>5
<1>7. Escape(text, size) = h[n]
  BY DEF Escape, EscapesTo, EscapeStep, n
<1> QED BY <1>6, <1>7 DEF n

\* How far the first i characters reach when they are escaped.
Pairs(text, i) == {j \in 1..i : Len(EscapeOf(text[j])) = 2}

Reach(text, i) == i + Cardinality(Pairs(text, i))

LEMMA ReachStep ==
  ASSUME NEW text \in Seq(Char), NEW i \in 1..Len(text)
  PROVE  /\ Reach(text, 0) = 0
         /\ Reach(text, i) \in Nat /\ Reach(text, i - 1) \in Nat
         /\ Reach(text, i) = Reach(text, i - 1) + Len(EscapeOf(text[i]))
         /\ Reach(text, i) <= Reach(text, Len(text))
<1>1. i \in Nat /\ Len(text) \in Nat /\ text[i] \in Char /\ i - 1 \in Nat
  OBVIOUS
<1>2. \A k \in Nat : IsFiniteSet(Pairs(text, k)) /\ Cardinality(Pairs(text, k)) \in Nat
  <2> TAKE k \in Nat
  <2>1. IsFiniteSet(1..k)
    BY FS_Interval
  <2>2. Pairs(text, k) \in SUBSET (1..k)
    BY DEF Pairs
  <2>3. IsFiniteSet(Pairs(text, k))
    BY <2>1, <2>2, FS_Subset
  <2> QED BY <2>3, FS_CardinalityType
<1>3. Reach(text, 0) = 0
  <2>1. Pairs(text, 0) = {}
    BY DEF Pairs
  <2>2. Cardinality(Pairs(text, 0)) = 0
    BY <2>1, FS_EmptySet
  <2> QED BY <2>2 DEF Reach
<1>4. Reach(text, i) = Reach(text, i - 1) + Len(EscapeOf(text[i]))
  <2> DEFINE P == Pairs(text, i - 1)
  <2>1. i \notin P
    BY <1>1 DEF Pairs
  <2>2. CASE Len(EscapeOf(text[i])) = 2
    <3>1. Pairs(text, i) = P \cup {i}
      BY <1>1, <2>2 DEF Pairs
    <3> HIDE DEF P
    <3>2. Cardinality(P \cup {i}) = Cardinality(P) + 1
      <4>1. IsFiniteSet(P)
        BY <1>1, <1>2 DEF P
      <4> QED BY <2>1, <4>1, FS_AddElement
    <3>3. Cardinality(P) \in Nat
      BY <1>1, <1>2 DEF P
    <3> QED BY <1>1, <2>2, <3>1, <3>2, <3>3 DEF Reach, P
  <2>3. CASE Len(EscapeOf(text[i])) # 2
    <3>1. Len(EscapeOf(text[i])) = 1
      BY <1>1, <2>3, EscapeOfType DEF IsEscape
    <3>2. Pairs(text, i) = P
      BY <1>1, <2>3 DEF Pairs
    <3>3. Cardinality(P) \in Nat
      BY <1>1, <1>2
    <3> QED BY <1>1, <3>1, <3>2, <3>3 DEF Reach
  <2> QED BY <2>2, <2>3
<1>5. Reach(text, i) <= Reach(text, Len(text))
  <2>1. Pairs(text, i) \in SUBSET Pairs(text, Len(text))
    BY <1>1 DEF Pairs
  <2>2. Cardinality(Pairs(text, i)) <= Cardinality(Pairs(text, Len(text)))
    BY <1>1, <1>2, <2>1, FS_Subset
  <2>3. Cardinality(Pairs(text, i)) \in Nat /\ Cardinality(Pairs(text, Len(text))) \in Nat
    BY <1>1, <1>2
  <2> QED BY <1>1, <2>2, <2>3 DEF Reach
<1>6. Reach(text, i) \in Nat /\ Reach(text, i - 1) \in Nat
  <2>1. Cardinality(Pairs(text, i)) \in Nat /\ Cardinality(Pairs(text, i - 1)) \in Nat
    BY <1>1, <1>2
  <2> QED BY <1>1, <2>1 DEF Reach
<1> QED BY <1>3, <1>4, <1>5, <1>6

LEMMA ReachIs ==
  ASSUME NEW text \in Seq(Char)
  PROVE  Reach(text, Len(text)) = EscapedLength(text)
<1>1. Pairs(text, Len(text)) = {i \in DOMAIN text : Len(EscapeOf(text[i])) = 2}
  BY DEF Pairs
<1> QED BY <1>1 DEF Reach, EscapedLength

LEMMA ReachMonotone ==
  ASSUME NEW text \in Seq(Char), NEW k \in 0..Len(text), NEW i \in 0..k
  PROVE  Reach(text, i) \in Nat /\ Reach(text, k) \in Nat /\ Reach(text, i) <= Reach(text, k)
<1>1. k \in Nat /\ i \in Nat /\ i <= k
  BY LenProperties
<1>2. \A m \in Nat : IsFiniteSet(Pairs(text, m)) /\ Cardinality(Pairs(text, m)) \in Nat
  <2> TAKE m \in Nat
  <2>1. IsFiniteSet(1..m)
    BY FS_Interval
  <2>2. Pairs(text, m) \in SUBSET (1..m)
    BY DEF Pairs
  <2>3. IsFiniteSet(Pairs(text, m))
    BY <2>1, <2>2, FS_Subset
  <2> QED BY <2>3, FS_CardinalityType
<1>3. Pairs(text, i) \in SUBSET Pairs(text, k)
  BY <1>1 DEF Pairs
<1>4. Cardinality(Pairs(text, i)) <= Cardinality(Pairs(text, k))
  BY <1>1, <1>2, <1>3, FS_Subset
<1>5. Cardinality(Pairs(text, i)) \in Nat /\ Cardinality(Pairs(text, k)) \in Nat
  BY <1>1, <1>2
<1> QED BY <1>1, <1>4, <1>5 DEF Reach

\* What is sent fits the buffer with its terminating zero.
LEMMA EscapeFits ==
  ASSUME NEW text \in Seq(Char), NEW size \in Nat \ {0}
  PROVE  Escape(text, size) \in Seq(Char) /\ Len(Escape(text, size)) < size
<1>1. PICK out : EscapesTo(out, text, size) /\ Escape(text, size) = out[Len(text)]
  BY EscapeIs
<1> DEFINE n == Len(text)
           T == {k \in Nat : k <= n => out[k] \in Seq(Char) /\ Len(out[k]) < size}
<1>2. n \in Nat
  OBVIOUS
<1>3. 0 \in T
  <2>1. out[0] = << >>
    BY <1>1, <1>2 DEF EscapesTo
  <2>2. out[0] \in Seq(Char) /\ Len(out[0]) = 0
    <3> DEFINE s == out[0]
    <3>1. s = << >>
      BY <2>1
    <3> HIDE DEF s
    <3>2. s \in Seq(Char) /\ Len(s) = 0
      BY <3>1
    <3> QED BY <3>2 DEF s
  <2> HIDE DEF n
  <2> QED BY <2>2
<1>4. ASSUME NEW k \in T PROVE k + 1 \in T
  <2> SUFFICES ASSUME k + 1 <= n
               PROVE  out[k + 1] \in Seq(Char) /\ Len(out[k + 1]) < size
    OBVIOUS
  <2> DEFINE s == out[k]
             c == text[k + 1]
  <2>1. k + 1 \in 1..n /\ (k + 1) - 1 = k
    BY <1>2
  <2>2. s \in Seq(Char) /\ Len(s) < size /\ c \in Char
    BY <1>2, <2>1
  <2>3. out[k + 1] = EscapeStep(s, c, size)
    BY <1>1, <2>1 DEF EscapesTo
  <2> HIDE DEF s, c
  <2>4. EscapeOf(c) \in Seq(Char)
    BY <2>2, EscapeOfType
  <2>5. s \o EscapeOf(c) \in Seq(Char) /\ Len(s \o EscapeOf(c)) = Len(s) + Len(EscapeOf(c))
    BY <2>2, <2>4, ConcatProperties
  <2> QED BY <2>2, <2>3, <2>5 DEF EscapeStep, FitsEscaped
<1> HIDE DEF T
<1>5. T = Nat
  <2>1. T \in SUBSET Nat
    BY DEF T
  <2> QED BY <1>3, <1>4, <2>1, NatSetInduction
<1>6. n \in T
  BY <1>2, <1>5
<1> QED BY <1>1, <1>2, <1>6 DEF T

\* Where character j of the text is in what it is escaped to.
Span(s, text, j) ==
  \/ /\ Reach(text, j) = Reach(text, j - 1) + 1
     /\ text[j] \in {"letter", "n"}
     /\ s[Reach(text, j)] = text[j]
  \/ /\ Reach(text, j) = Reach(text, j - 1) + 2
     /\ s[Reach(text, j - 1) + 1] = "backslash"
     /\ s[Reach(text, j)] \in {"n", "quote", "backslash"}
     /\ Unescaped(s[Reach(text, j)]) = text[j]
     /\ text[j] # "backslash" => s[Reach(text, j)] # "backslash"

Spans(s, text, i) ==
  /\ s \in Seq(Char)
  /\ Len(s) = Reach(text, i)
  /\ \A j \in 1..i : Span(s, text, j)

LEMMA SpansStep ==
  ASSUME NEW text \in Seq(Char), NEW k \in Nat, k + 1 <= Len(text),
         NEW s, Spans(s, text, k)
  PROVE  Spans(s \o EscapeOf(text[k + 1]), text, k + 1)
<1> DEFINE n == Len(text)
           c == text[k + 1]
           e == EscapeOf(c)
           t == s \o e
<1>1. n \in Nat /\ k + 1 \in 1..n /\ (k + 1) - 1 = k /\ c \in Char
  OBVIOUS
<1>2. e \in Seq(Char) /\ (\/ c \in {"letter", "n"} /\ e = <<c>> /\ Len(e) = 1
                          \/ IsEscape(e, c))
  BY <1>1, EscapeOfType
<1>3. Reach(text, k + 1) = Reach(text, k) + Len(e) /\ Reach(text, k) \in Nat
  BY <1>1, ReachStep
<1>4. s \in Seq(Char) /\ Len(s) = Reach(text, k)
  BY DEF Spans
<1> HIDE DEF c, e
<1>5. /\ t \in Seq(Char) /\ Len(t) = Len(s) + Len(e)
      /\ \A i \in 1..Len(s) : t[i] = s[i]
      /\ \A i \in 1..Len(e) : t[Len(s) + i] = e[i]
  <2>2. Len(e) \in Nat /\ \A i \in 1..Len(s) : i <= Len(s) /\ i \in 1..(Len(s) + Len(e))
    BY <1>2, <1>4
  <2>3. t \in Seq(Char) /\ Len(t) = Len(s) + Len(e)
    BY <1>2, <1>4, ConcatProperties
  <2>4. \A i \in 1..(Len(s) + Len(e)) : t[i] = IF i <= Len(s) THEN s[i] ELSE e[i - Len(s)]
    BY <1>2, <1>4, ConcatProperties
  <2> HIDE DEF t
  <2>5. \A i \in 1..Len(s) : t[i] = s[i]
    BY <2>2, <2>4
  <2>6. ASSUME NEW i \in 1..Len(e) PROVE t[Len(s) + i] = e[i]
    <3> DEFINE m == Len(s) + i
    <3>1. m \in 1..(Len(s) + Len(e)) /\ ~(m <= Len(s)) /\ m - Len(s) = i
      BY <1>2, <1>4
    <3> HIDE DEF m
    <3>2. t[m] = e[i]
      BY <2>4, <3>1
    <3> QED BY <3>2 DEF m
  <2> QED BY <2>3, <2>5, <2>6
<1> HIDE DEF t
<1>6. ASSUME NEW j \in 1..k PROVE Span(t, text, j)
  <2>1. Reach(text, j) \in Nat /\ Reach(text, j) <= Reach(text, k)
    BY <1>1, ReachMonotone
  <2>2. Reach(text, j - 1) \in Nat
    BY <1>1, ReachStep
  <2>3. Span(s, text, j)
    BY DEF Spans
  <2>4. Reach(text, j) \in 1..Len(s) => t[Reach(text, j)] = s[Reach(text, j)]
    BY <1>5
  <2>5. Reach(text, j - 1) + 1 \in 1..Len(s) => t[Reach(text, j - 1) + 1] = s[Reach(text, j - 1) + 1]
    BY <1>5
  <2> QED BY <1>4, <2>1, <2>2, <2>3, <2>4, <2>5 DEF Span
<1>7. Span(t, text, k + 1)
  <2>1. CASE c \in {"letter", "n"} /\ e = <<c>> /\ Len(e) = 1
    <3>1. t[Reach(text, k) + 1] = e[1]
      BY <1>4, <1>5, <2>1
    <3>2. e[1] = c
      BY <2>1
    <3> QED BY <1>1, <1>3, <2>1, <3>1, <3>2 DEF Span, c
  <2>2. CASE IsEscape(e, c)
    <3>1. Len(e) = 2
      BY <2>2 DEF IsEscape
    <3>2. t[Reach(text, k) + 1] = e[1] /\ t[Reach(text, k) + 2] = e[2]
      BY <1>4, <1>5, <3>1
    <3> QED BY <1>1, <1>3, <2>2, <3>1, <3>2 DEF Span, IsEscape, c
  <2> QED BY <1>2, <2>1, <2>2
<1>8. \A j \in 1..(k + 1) : j \in 1..k \/ j = k + 1
  BY <1>1
<1> QED BY <1>3, <1>4, <1>5, <1>6, <1>7, <1>8 DEF Spans, t, e, c

\* A text that fits is sent whole.
LEMMA EscapeWhole ==
  ASSUME NEW text \in Seq(Char), NEW size \in Nat \ {0}, EscapedLength(text) < size
  PROVE  Spans(Escape(text, size), text, Len(text))
<1>1. PICK out : EscapesTo(out, text, size) /\ Escape(text, size) = out[Len(text)]
  BY EscapeIs
<1> DEFINE n == Len(text)
           T == {k \in Nat : k <= n => Spans(out[k], text, k)}
<1>2. n \in Nat
  OBVIOUS
<1>3. 0 \in T
  <2>1. out[0] = << >>
    BY <1>1, <1>2 DEF EscapesTo
  <2>2. Reach(text, 0) = 0
    <3>1. Pairs(text, 0) = {}
      BY DEF Pairs
    <3>2. Cardinality(Pairs(text, 0)) = 0
      BY <3>1, FS_EmptySet
    <3> QED BY <3>2 DEF Reach
  <2>3. out[0] \in Seq(Char) /\ Len(out[0]) = 0
    <3> DEFINE s == out[0]
    <3>1. s = << >>
      BY <2>1
    <3> HIDE DEF s
    <3>2. s \in Seq(Char) /\ Len(s) = 0
      BY <3>1
    <3> QED BY <3>2 DEF s
  <2>4. Spans(out[0], text, 0)
    BY <2>2, <2>3 DEF Spans
  <2> QED BY <2>4
<1>4. ASSUME NEW k \in T PROVE k + 1 \in T
  <2> SUFFICES ASSUME k + 1 <= n PROVE Spans(out[k + 1], text, k + 1)
    OBVIOUS
  <2> DEFINE s == out[k]
             c == text[k + 1]
  <2>1. k \in Nat /\ k + 1 \in 1..n /\ (k + 1) - 1 = k
    BY <1>2
  <2>2. Spans(s, text, k)
    BY <1>2, <2>1
  <2>3. out[k + 1] = EscapeStep(s, c, size)
    BY <1>1, <2>1 DEF EscapesTo
  <2>4. Reach(text, k + 1) = Reach(text, k) + Len(EscapeOf(c)) /\ Reach(text, k + 1) \in Nat
    BY <2>1, ReachStep
  <2>5. Reach(text, k + 1) <= EscapedLength(text) /\ EscapedLength(text) \in Nat
    BY <1>2, <2>1, ReachMonotone, ReachIs
  <2>6. FitsEscaped(s, c, size)
    BY <2>2, <2>4, <2>5 DEF Spans, FitsEscaped
  <2>7. out[k + 1] = s \o EscapeOf(c)
    BY <2>3, <2>6 DEF EscapeStep
  <2> QED BY <2>1, <2>2, <2>7, SpansStep
<1> HIDE DEF T
<1>5. T = Nat
  <2>1. T \in SUBSET Nat
    BY DEF T
  <2> QED BY <1>3, <1>4, <2>1, NatSetInduction
<1>6. n \in T
  BY <1>2, <1>5
<1> QED BY <1>1, <1>2, <1>6 DEF T

\* No quote of an escaped text ends the string, and neither does the quote
\* after it count as an escaped one, unless the text ends in a backslash.
LEMMA NoQuoteInside ==
  ASSUME NEW text \in Seq(Char), NEW s, Spans(s, text, Len(text))
  PROVE  /\ \A i \in 1..Len(s) : ~EndsString(s, i)
         /\ (text # << >> => text[Len(text)] # "backslash")
              => Len(s) = 0 \/ s[Len(s)] # "backslash"
<1> DEFINE n == Len(text)
           T == {k \in Nat : k <= n => \A i \in 1..Reach(text, k) : ~EndsString(s, i)}
<1>1. n \in Nat
  OBVIOUS
<1>2. Reach(text, 0) = 0
  <2>1. Pairs(text, 0) = {}
    BY DEF Pairs
  <2>2. Cardinality(Pairs(text, 0)) = 0
    BY <2>1, FS_EmptySet
  <2> QED BY <2>2 DEF Reach
<1>3. 0 \in T
  BY <1>2
<1>4. ASSUME NEW k \in T PROVE k + 1 \in T
  <2> SUFFICES ASSUME k + 1 <= n, NEW i \in 1..Reach(text, k + 1)
               PROVE  ~EndsString(s, i)
    OBVIOUS
  <2>1. k \in Nat /\ k + 1 \in 1..n /\ (k + 1) - 1 = k
    BY <1>1
  <2>2. Reach(text, k) \in Nat /\ Reach(text, k + 1) \in Nat
    BY <2>1, ReachStep
  <2>3. \A m \in 1..Reach(text, k) : ~EndsString(s, m)
    BY <2>1
  <2>4. Span(s, text, k + 1)
    BY <2>1 DEF Spans
  <2>5. CASE i \in 1..Reach(text, k)
    BY <2>3, <2>5
  <2>6. CASE i = Reach(text, k) + 1
    BY <2>1, <2>4, <2>6 DEF Span, EndsString
  <2>7. CASE i = Reach(text, k) + 2
    BY <2>1, <2>2, <2>4, <2>7 DEF Span, EndsString
  <2>8. i \in 1..Reach(text, k) \/ i = Reach(text, k) + 1 \/ i = Reach(text, k) + 2
    BY <2>1, <2>2, <2>4 DEF Span
  <2> QED BY <2>5, <2>6, <2>7, <2>8
<1> HIDE DEF T
<1>5. T = Nat
  <2>1. T \in SUBSET Nat
    BY DEF T
  <2> QED BY <1>3, <1>4, <2>1, NatSetInduction
<1>6. n \in T
  BY <1>1, <1>5
<1>7. Len(s) = Reach(text, n)
  BY DEF Spans
<1>8. ASSUME text # << >>, text[n] # "backslash" PROVE s[Len(s)] # "backslash"
  <2>1. n \in 1..n
    BY <1>1, <1>8, EmptySeq
  <2>2. Span(s, text, n)
    BY <2>1 DEF Spans
  <2> QED BY <1>7, <1>8, <2>2 DEF Span
<1>9. text = << >> => Len(s) = 0
  <2>1. text = << >> => n = 0
    OBVIOUS
  <2> QED BY <1>2, <1>7, <2>1
<1> QED BY <1>1, <1>6, <1>7, <1>8, <1>9 DEF T

\* sig_extract_json_string_field takes the whole escaped text.
LEMMA ExtractWhole ==
  ASSUME NEW s \in Seq(Char), \A i \in 1..Len(s) : ~EndsString(s, i),
         Len(s) = 0 \/ s[Len(s)] # "backslash"
  PROVE  Extract(Closed(s)) = {Unescape(s)}
<1> DEFINE N == Len(s)
           e == <<"quote", "letter", "letter">>
           c == s \o e
           ends == {i \in DOMAIN c : EndsString(c, i)}
           end == CHOOSE i \in ends : \A j \in ends : i <= j
<1>1. N \in Nat
  OBVIOUS
<1>2. e \in Seq(Char) /\ Len(e) = 3 /\ e[1] = "quote"
  <2>1. "quote" \in Char /\ "letter" \in Char
    BY DEF Char
  <2> DEFINE q == "quote"
             l == "letter"
  <2>2. q \in Char /\ l \in Char /\ e = <<q, l, l>>
    BY <2>1
  <2> HIDE DEF q, l
  <2>3. e \in Seq(Char) /\ Len(e) = 3 /\ e[1] = q
    BY <2>2
  <2> QED BY <2>3 DEF q
<1> HIDE DEF e
<1>3. /\ c \in Seq(Char) /\ Len(c) = N + 3
      /\ \A i \in 1..(N + 3) : c[i] = IF i <= N THEN s[i] ELSE e[i - N]
  <2>1. c \in Seq(Char) /\ Len(c) = Len(s) + Len(e)
    BY <1>2, ConcatProperties
  <2>2. \A i \in 1..(Len(s) + Len(e)) : c[i] = IF i <= Len(s) THEN s[i] ELSE e[i - Len(s)]
    BY <1>2, ConcatProperties
  <2> HIDE DEF c
  <2> QED BY <1>2, <2>1, <2>2
<1> HIDE DEF c
<1>4. DOMAIN c = 1..(N + 3)
  BY <1>3
<1>5. \A i \in 1..N : c[i] = s[i]
  <2>1. \A i \in 1..N : i <= N /\ i \in 1..(N + 3)
    BY <1>1
  <2> QED BY <1>3, <2>1
<1>6. c[N + 1] = "quote"
  <2>1. N + 1 \in 1..(N + 3) /\ ~(N + 1 <= N) /\ (N + 1) - N = 1
    BY <1>1
  <2> QED BY <1>2, <1>3, <2>1
<1> HIDE DEF N
<1>7. ASSUME NEW i \in ends PROVE i \in Nat /\ N + 1 <= i
  <2>1. i \in 1..(N + 3) /\ EndsString(c, i)
    BY <1>4
  <2>2. CASE i \in 1..N
    <3>1. c[i] = s[i] /\ (i # 1 => c[i - 1] = s[i - 1])
      BY <1>1, <1>5, <2>2
    <3>2. EndsString(s, i)
      BY <2>1, <3>1 DEF EndsString
    <3> QED BY <2>2, <3>2 DEF N
  <2> QED BY <1>1, <2>1, <2>2
<1>8. N + 1 \in ends
  <2>1. N = 0 \/ c[N] # "backslash"
    BY <1>1, <1>5 DEF N
  <2>2. EndsString(c, N + 1)
    BY <1>1, <1>6, <2>1 DEF EndsString
  <2> QED BY <1>1, <1>4, <2>2
<1>9. end = N + 1
  <2> HIDE DEF ends
  <2>1. end \in ends /\ \A j \in ends : end <= j
    BY <1>7, <1>8
  <2>2. end <= N + 1 /\ N + 1 <= end /\ end \in Nat
    BY <1>7, <1>8, <2>1
  <2> QED BY <1>1, <2>2
<1>10. SubSeq(c, 1, N) = s
  <2>1. SubSeq(c, 1, N) = [i \in 1..N |-> c[i]]
    BY <1>1, <1>3, SubSeqProperties
  <2>2. s = [i \in 1..N |-> s[i]]
    BY DEF N
  <2> QED BY <1>5, <2>1, <2>2
<1>11. Extract(c) = {Unescape(SubSeq(c, 1, end - 1))}
  <2>1. ends # {}
    BY <1>8
  <2> QED BY <2>1 DEF Extract
<1>12. end - 1 = N
  <2> HIDE DEF end
  <2> QED BY <1>1, <1>9
<1>13. Extract(c) = {Unescape(s)}
  <2> HIDE DEF end
  <2> QED BY <1>10, <1>11, <1>12
<1> QED BY <1>13 DEF Closed, c, e

LEMMA UnescapeStepType ==
  ASSUME NEW raw \in Seq(Char), NEW i \in Nat \ {0},
         NEW one \in Seq(Char), NEW two \in Seq(Char)
  PROVE  UnescapeStep(raw, i, one, two) \in Seq(Char)
<1>1. Len(raw) \in Nat
  OBVIOUS
<1>2. CASE i > Len(raw)
  <2>1. << >> \in Seq(Char)
    OBVIOUS
  <2> QED BY <1>2, <2>1, Zenon DEF UnescapeStep
<1>3. CASE ~(i > Len(raw)) /\ PairAt(raw, i)
  <2> DEFINE d == Unescaped(raw[i + 1])
  <2>1. d \in Char
    BY <1>3 DEF PairAt, Unescaped, Char
  <2>2. UnescapeStep(raw, i, one, two) = <<d>> \o two
    BY <1>3, Zenon DEF UnescapeStep
  <2> HIDE DEF d
  <2>3. <<d>> \in Seq(Char)
    BY <2>1
  <2>4. <<d>> \o two \in Seq(Char)
    BY <2>3, ConcatProperties
  <2> QED BY <2>2, <2>4
<1>4. CASE ~(i > Len(raw)) /\ ~PairAt(raw, i)
  <2> DEFINE d == raw[i]
  <2>1. d \in Char
    BY <1>1, <1>4
  <2>2. UnescapeStep(raw, i, one, two) = <<d>> \o one
    BY <1>4, Zenon DEF UnescapeStep
  <2> HIDE DEF d
  <2>3. <<d>> \in Seq(Char)
    BY <2>1
  <2>4. <<d>> \o one \in Seq(Char)
    BY <2>3, ConcatProperties
  <2> QED BY <2>2, <2>4
<1> QED BY <1>2, <1>3, <1>4

\* The loop of sig_extract_json_string_field.
LEMMA UnescapeIs ==
  ASSUME NEW raw \in Seq(Char)
  PROVE  \E from : UnescapesTo(from, raw) /\ Unescape(raw) = from[1]
<1> DEFINE N == Len(raw)
           S == Seq(Char) \X Seq(Char)
           x == << << >>, << >> >>
           at(m) == N + 3 - m
           step(m, p) == <<UnescapeStep(raw, at(m), p[1], p[2]), p[1]>>
           F == [m \in 2..(N + 2) |-> [p \in S |-> step(m, p)]]
<1>1. N \in Nat
  OBVIOUS
<1> HIDE DEF N
<1>2. \A m \in 2..(N + 2), p \in S : step(m, p) \in S
  <2> SUFFICES ASSUME NEW m \in 2..(N + 2), NEW p \in S PROVE step(m, p) \in S
    OBVIOUS
  <2>1. at(m) \in Nat \ {0}
    BY <1>1
  <2>2. p[1] \in Seq(Char) /\ p[2] \in Seq(Char)
    OBVIOUS
  <2>3. UnescapeStep(raw, at(m), p[1], p[2]) \in Seq(Char)
    BY <2>1, <2>2, UnescapeStepType
  <2> QED BY <2>2, <2>3
<1>3. PICK g \in [1..(N + 2) -> S] : Iterates(g, x, N + 2, F)
  <2>1. x \in S
    <3>1. << >> \in Seq(Char)
      OBVIOUS
    <3> QED BY <3>1
  <2> HIDE DEF S, step, x
  <2>2. F \in [2..(N + 2) -> [S -> S]]
    BY <1>2
  <2> HIDE DEF F
  <2>3. N + 2 \in Nat /\ 1 <= N + 2
    BY <1>1
  <2> QED BY <2>1, <2>2, <2>3, IterationDefined
<1>4. /\ g[1] = x
      /\ \A m \in 2..(N + 2) :
           /\ g[m][1] = UnescapeStep(raw, at(m), g[m - 1][1], g[m - 1][2])
           /\ g[m][2] = g[m - 1][1]
  <2>1. g[1] = x /\ \A m \in 2..(N + 2) : g[m] = F[m][g[m - 1]]
    BY <1>3 DEF Iterates
  <2>2. ASSUME NEW m \in 2..(N + 2) PROVE g[m] = step(m, g[m - 1])
    <3>1. m - 1 \in 1..(N + 2)
      BY <1>1
    <3>2. g[m - 1] \in S
      BY <1>3, <3>1
    <3>3. F[m][g[m - 1]] = step(m, g[m - 1])
      <4> HIDE DEF S, step
      <4> QED BY <3>2
    <3> QED BY <2>1, <3>3
  <2> QED BY <2>1, <2>2
<1> DEFINE h == [i \in 1..(N + 2) |-> g[at(i)][1]]
           c == CHOOSE from : UnescapesTo(from, raw)
<1>5. UnescapesTo(h, raw)
  <2>1. ASSUME NEW i \in 1..(N + 2)
        PROVE  h[i] = UnescapeStep(raw, i, h[i + 1], h[i + 2])
    <3> DEFINE m == at(i)
    <3>1. i \in Nat /\ m \in 1..(N + 2) /\ at(m) = i /\ h[i] = g[m][1]
      BY <1>1
    <3>2. CASE i > N
      <4>1. UnescapeStep(raw, i, h[i + 1], h[i + 2]) = << >>
        BY <3>2 DEF UnescapeStep, N
      <4>2. CASE m = 1
        BY <1>4, <3>1, <4>1, <4>2
      <4>3. CASE m # 1
        <5>1. m \in 2..(N + 2)
          BY <3>1, <4>3
        <5>2. g[m][1] = UnescapeStep(raw, i, g[m - 1][1], g[m - 1][2])
          BY <1>4, <3>1, <5>1
        <5>3. UnescapeStep(raw, i, g[m - 1][1], g[m - 1][2]) = << >>
          BY <3>2 DEF UnescapeStep, N
        <5> QED BY <3>1, <4>1, <5>2, <5>3
      <4> QED BY <4>2, <4>3
    <3>3. CASE ~(i > N)
      <4>1. /\ m \in 2..(N + 2) /\ m - 1 \in 2..(N + 2)
            /\ i + 1 \in 1..(N + 2) /\ i + 2 \in 1..(N + 2)
            /\ at(i + 1) = m - 1 /\ at(i + 2) = (m - 1) - 1
        BY <1>1, <3>1, <3>3
      <4>2. h[i + 1] = g[m - 1][1] /\ h[i + 2] = g[(m - 1) - 1][1]
        BY <4>1
      <4>3. g[m - 1][2] = g[(m - 1) - 1][1]
        BY <1>4, <4>1
      <4>4. g[m][1] = UnescapeStep(raw, i, g[m - 1][1], g[m - 1][2])
        BY <1>4, <3>1, <4>1
      <4> QED BY <3>1, <4>2, <4>3, <4>4
    <3> QED BY <3>2, <3>3
  <2>2. h = [i \in 1..(N + 2) |-> h[i]]
    OBVIOUS
  <2> HIDE DEF h
  <2>3. h = [i \in 1..(N + 2) |-> UnescapeStep(raw, i, h[i + 1], h[i + 2])]
    BY <2>1, <2>2
  <2> QED BY <2>3 DEF UnescapesTo, N
<1>6. UnescapesTo(c, raw)
  BY <1>5
<1>7. Unescape(raw) = c[1]
  BY DEF Unescape, UnescapesTo, UnescapeStep, PairAt, Unescaped
<1> QED BY <1>6, <1>7

\* What was escaped whole is unescaped to the text.
LEMMA UnescapeWhole ==
  ASSUME NEW text \in Seq(Char), NEW s, Spans(s, text, Len(text))
  PROVE  Unescape(s) = text
<1> DEFINE n == Len(text)
           N == Len(s)
           at(k) == Reach(text, n - k) + 1
<1>1. n \in Nat /\ N \in Nat /\ s \in Seq(Char) /\ N = Reach(text, n)
  BY DEF Spans
<1>2. PICK from : UnescapesTo(from, s) /\ Unescape(s) = from[1]
  BY <1>1, UnescapeIs
<1>3. \A i \in 1..(N + 2) : from[i] = UnescapeStep(s, i, from[i + 1], from[i + 2])
  BY <1>2 DEF UnescapesTo
<1> DEFINE T == {k \in Nat : k <= n => from[at(k)] = SubSeq(text, n - k + 1, n)}
<1>4. 0 \in T
  <2>1. at(0) = N + 1 /\ n - 0 + 1 = n + 1
    BY <1>1
  <2>2. N + 1 \in 1..(N + 2) /\ N + 1 > N
    BY <1>1
  <2>3. from[N + 1] = << >>
    BY <1>3, <2>2 DEF UnescapeStep
  <2>4. SubSeq(text, n + 1, n) = << >>
    <3>1. n \in Int /\ n + 1 \in Int /\ n < n + 1
      BY <1>1
    <3> QED BY <3>1, SubSeqEmpty
  <2> QED BY <2>1, <2>3, <2>4
<1>5. ASSUME NEW k \in T PROVE k + 1 \in T
  <2> SUFFICES ASSUME k + 1 <= n
               PROVE  from[at(k + 1)] = SubSeq(text, n - (k + 1) + 1, n)
    OBVIOUS
  <2> DEFINE j == n - k
             i == Reach(text, j - 1) + 1
             rest == SubSeq(text, j + 1, n)
  <2>1. k \in Nat /\ j \in 1..n /\ n - (k + 1) = j - 1 /\ (j - 1) + 1 = j
    BY <1>1
  <2>2. from[Reach(text, j) + 1] = rest
    BY <1>1, <2>1
  <2>3. SubSeq(text, j, n) = <<text[j]>> \o rest
    <3>1. n \in j..n
      BY <2>1
    <3> QED BY <2>1, <3>1, SubSeqRecursiveFirst
  <2>4. Reach(text, j) \in Nat /\ Reach(text, j - 1) \in Nat /\ Reach(text, j) <= N
    BY <1>1, <2>1, ReachStep
  <2>5. Span(s, text, j)
    BY <2>1 DEF Spans
  <2>6. i \in 1..(N + 2) /\ ~(i > N)
    BY <1>1, <2>4, <2>5 DEF Span
  <2>7. from[i] = UnescapeStep(s, i, from[i + 1], from[i + 2])
    BY <1>3, <2>6
  <2>8. from[i] = <<text[j]>> \o rest
    <3>1. CASE /\ Reach(text, j) = Reach(text, j - 1) + 1
               /\ text[j] \in {"letter", "n"}
               /\ s[Reach(text, j)] = text[j]
      <4>1. ~PairAt(s, i)
        BY <3>1 DEF PairAt
      <4>2. from[i] = <<s[i]>> \o from[i + 1]
        BY <2>6, <2>7, <4>1 DEF UnescapeStep
      <4>3. i = Reach(text, j)
        BY <3>1
      <4> HIDE DEF i, rest
      <4> QED BY <2>2, <3>1, <4>2, <4>3
    <3>2. CASE /\ Reach(text, j) = Reach(text, j - 1) + 2
               /\ s[Reach(text, j - 1) + 1] = "backslash"
               /\ s[Reach(text, j)] \in {"n", "quote", "backslash"}
               /\ Unescaped(s[Reach(text, j)]) = text[j]
      <4>1. i + 1 = Reach(text, j) /\ i + 2 = Reach(text, j) + 1 /\ i < N
        BY <1>1, <2>4, <3>2
      <4>2. PairAt(s, i)
        BY <3>2, <4>1 DEF PairAt
      <4>3. from[i] = <<Unescaped(s[i + 1])>> \o from[i + 2]
        BY <2>6, <2>7, <4>2 DEF UnescapeStep
      <4> HIDE DEF i, rest
      <4> QED BY <2>2, <3>2, <4>1, <4>3
    <3> QED BY <2>5, <3>1, <3>2 DEF Span
  <2>9. at(k + 1) = i
    BY <2>1
  <2>10. n - (k + 1) + 1 = j
    BY <2>1
  <2> HIDE DEF i, j, rest, at
  <2> QED BY <2>3, <2>8, <2>9, <2>10
<1> HIDE DEF T
<1>6. T = Nat
  <2>1. T \in SUBSET Nat
    BY DEF T
  <2> QED BY <1>4, <1>5, <2>1, NatSetInduction
<1>7. n \in T
  BY <1>1, <1>6
<1>8. Reach(text, 0) = 0
  <2>1. Pairs(text, 0) = {}
    BY DEF Pairs
  <2>2. Cardinality(Pairs(text, 0)) = 0
    BY <2>1, FS_EmptySet
  <2> QED BY <2>2 DEF Reach
<1>9. at(n) = 1 /\ n - n + 1 = 1
  <2>1. n - n = 0
    BY <1>1
  <2> QED BY <1>8, <2>1
<1>10. from[at(n)] = SubSeq(text, n - n + 1, n)
  BY <1>1, <1>7 DEF T
<1>11. SubSeq(text, 1, n) = text
  BY SubSeqFull
<1> HIDE DEF n, at
<1> QED BY <1>2, <1>9, <1>10, <1>11

-----------------------------------------------------------------------------
(***************************************************************************)
(* Descriptions.                                                           *)
(***************************************************************************)
LEMMA RoundTrip ==
  ASSUME NEW text \in Seq(Char), NEW size \in Nat \ {0}, EscapedLength(text) < size,
         text # << >> => text[Len(text)] # "backslash"
  PROVE  Extract(Closed(Escape(text, size))) = {text}
<1> DEFINE s == Escape(text, size)
<1>1. Spans(s, text, Len(text)) /\ s \in Seq(Char)
  BY EscapeWhole, EscapeFits
<1> HIDE DEF s
<1>2. (\A i \in 1..Len(s) : ~EndsString(s, i)) /\ (Len(s) = 0 \/ s[Len(s)] # "backslash")
  BY <1>1, NoQuoteInside
<1>3. Extract(Closed(s)) = {Unescape(s)}
  BY <1>1, <1>2, ExtractWhole
<1>4. Unescape(s) = text
  BY <1>1, UnescapeWhole
<1> QED BY <1>3, <1>4 DEF s

\* A description is sent as sig_json_escape makes it.
DescriptionEscaped(frame) ==
  frame.type = "description" =>
    frame.text \in Seq(Char) /\ frame.json = Escape(frame.text, EscapedSize)

LEMMA DescriptionsEscaped == Spec => []DescriptionEscaped(outbox)
<1>1. ASSUME NEW op, NEW type, type # "description" PROVE DescriptionEscaped(Out(op, type))
  BY <1>1 DEF DescriptionEscaped, Out, OutFrame
<1>2. Init => DescriptionEscaped(outbox)
  <2>1. DescriptionEscaped(Out("none", "none"))
    BY <1>1
  <2> QED BY <2>1 DEF Init
<1>3. DescriptionEscaped(outbox) /\ [Next]_vars => DescriptionEscaped(outbox)'
  <2> SUFFICES ASSUME DescriptionEscaped(outbox), [Next]_vars PROVE DescriptionEscaped(outbox')
    OBVIOUS
  <2>1. CASE outbox' = outbox
    BY <2>1
  <2>2. CASE \E op, type : outbox' = Out(op, type) /\ type # "description"
    BY <1>1, <2>2
  <2>3. CASE SendDescription /\ outbox' # outbox
    <3>1. PICK text \in Texts : outbox' = OutFrame("text", "description", text, Escape(text, EscapedSize))
      BY <2>3 DEF SendDescription, Sent
    <3>2. text \in Seq(Char)
      BY SignalingAssumption
    <3>3. outbox'.text = text /\ outbox'.json = Escape(text, EscapedSize)
      BY <3>1 DEF OutFrame
    <3> QED BY <3>2, <3>3 DEF DescriptionEscaped
  <2>4. CASE ServerSends \/ ServerPings \/ ServerCloses \/ Arrive \/ BeginCreate \/ CreateFails \/ Disconnect
    BY <2>1, <2>4 DEF ServerSends, ServerPings, ServerCloses, Arrive, BeginCreate, CreateFails, Disconnect
  <2>5. CASE FinishCreate \/ Destroy
    BY <2>1, <2>2, <2>5 DEF FinishCreate, Destroy
  <2>6. CASE SendCandidate
    BY <2>1, <2>2, <2>6 DEF SendCandidate, Sent
  <2>7. CASE ReadMessage \/ ReadFirst \/ ReadMiddle \/ ReadLast \/ ReadUnreadable \/ ReadPart \/ ReadSkewedFails \/ ReadError
    BY <2>1, <2>7 DEF ReadMessage, ReadFirst, ReadMiddle, ReadLast, ReadUnreadable, ReadPart, ReadSkewedFails, ReadError
  <2>8. CASE ReadPing \/ ReadSkewed
    <3>1. outbox' = outbox \/ outbox' = Out("pong", "none")
      BY <2>8 DEF ReadPing, ReadSkewed
    <3> QED BY <1>1, <2>1, <3>1
  <2>9. CASE UNCHANGED vars
    BY <2>1, <2>9 DEF vars
  <2> QED BY <2>1, <2>3, <2>4, <2>5, <2>6, <2>7, <2>8, <2>9 DEF Next, Process
<1> QED BY <1>2, <1>3, PTL DEF Spec

\* Every description that fits its buffer and does not end in a backslash is
\* read back exactly as it was given, whatever characters it has, and what is
\* sent of any description fits the buffer (sig_json_escape,
\* signaling.c:1323-1360, against
\* sig_extract_json_string_field, signaling.c:117-184).
THEOREM DescriptionsReadBack == Spec => []ReadBack
<1>1. ASSUME NEW text \in Seq(Char)
      PROVE  /\ Len(Escape(text, EscapedSize)) < EscapedSize
             /\ EscapedLength(text) < EscapedSize /\ (text # << >> => text[Len(text)] # "backslash")
                  => Extract(Closed(Escape(text, EscapedSize))) = {text}
  BY EscapeFits, RoundTrip, SignalingAssumption
<1>2. DescriptionEscaped(outbox) => ReadBack
  BY <1>1 DEF DescriptionEscaped, ReadBack
<1> QED BY DescriptionsEscaped, <1>2, PTL
=============================================================================
