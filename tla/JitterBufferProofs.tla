------------------------- MODULE JitterBufferProofs -------------------------
(***************************************************************************)
(* JitterBuffer implements PlayoutQueue, for every buffer size, every pair *)
(* of delays and every stream.  The inductive invariant says that the      *)
(* array is sorted by true position (which the code sees 16 bits of), that *)
(* entries can be told apart, and that the playout time keeps the pace.    *)
(***************************************************************************)
EXTENDS JitterBuffer, SequenceTheorems, WellFoundedInduction, TLAPS

\* The entries of s are in the order of the stream.
Sorted(s) == \A i, j \in DOMAIN s : i < j => s[i].index <= s[j].index

\* No two entries of s have the same id.
Distinct(s) == \A i, j \in DOMAIN s : s[i].id = s[j].id => i = j

\* Ids have been given, and an entry older than what was played says so.
Marked(s) == \A i \in DOMAIN s : s[i].id <= arrivals /\ (s[i].index < newest => s[i].late)

IInv ==
  /\ TypeOK
  /\ Sorted(packets)
  /\ Distinct(packets)
  /\ Marked(packets)
  /\ playedAt <= clock
  /\ nextPlayout >= playedAt + Delay

LEMMA DelayType == Delay \in Nat /\ Delay <= MinDelay
BY JitterAssumption DEF Delay

\* Taking the lowest 16 bits before a subtraction or after it is the same.
LEMMA LowBitsOfDifference ==
  ASSUME NEW n \in Int, NEW m \in Int
  PROVE  ((n % 65536) - (m % 65536) + 32768) % 65536 = (n - m + 32768) % 65536
OBVIOUS

\* A number of 16 bits is its own lowest 16 bits.
LEMMA LowBitsOfSmall ==
  ASSUME NEW d \in Int, 0 <= d, d < 65536
  PROVE  d % 65536 = d
OBVIOUS

\* Within half of the sequence space the 16-bit comparison is that of the
\* positions.
LEMMA BeforeIsLess ==
  ASSUME NEW n \in Nat, NEW m \in Nat, m - 32768 < n, n < m + 32768
  PROVE  Before(n, m) <=> n < m
<1> DEFINE d == n - m + 32768
<1>1. d \in Int /\ 0 <= d /\ d < 65536
  OBVIOUS
<1>2. d % 65536 = d
  <2> HIDE DEF d
  <2> QED
    BY <1>1, LowBitsOfSmall
<1>3. Int16(Sequence(n) - Sequence(m)) = n - m
  <2>1. n \in Int /\ m \in Int
    OBVIOUS
  <2>2. Int16(Sequence(n) - Sequence(m)) = (d % 65536) - 32768
    BY <2>1, LowBitsOfDifference DEF Int16, Sequence
  <2> QED
    BY <2>2, <1>2
<1> QED
  BY <1>3 DEF Before

\* A function on 1..n is a sequence of length n.
LEMMA FunctionIsSeq ==
  ASSUME NEW S, NEW n \in Nat, NEW f \in [1..n -> S]
  PROVE  f \in Seq(S) /\ Len(f) = n
<1>1. f \in Seq(S)
  OBVIOUS
<1>2. DOMAIN f = 1..Len(f) /\ Len(f) \in Nat
  BY <1>1, LenProperties
<1>3. DOMAIN f = 1..n
  OBVIOUS
<1> QED
  BY <1>1, <1>2, <1>3

\* The loop that looks for the place of a packet finds one.
LEMMA InsertPosFound ==
  ASSUME NEW s \in Seq(Entry), NEW n \in Nat
  PROVE  IsInsertPos(s, n, InsertPos(s, n))
<1> DEFINE stops == {i \in 1..(Len(s) + 1) : i <= Len(s) => Before(n, s[i].index)}
<1>0. Len(s) \in Nat
  OBVIOUS
<1>1. Len(s) + 1 \in stops /\ stops \subseteq Nat
  BY <1>0
<1>2. \E i \in stops : \A j \in stops : ~ (j < i)
  <2> HIDE DEF stops
  <2>1. PICK i \in stops : \A j \in stops : ~ (<<j, i>> \in OpToRel(<, Nat))
    BY <1>1, NatLessThanWellFounded, WFMin
  <2> QED
    BY <1>1, <2>1 DEF OpToRel
<1>3. PICK i \in stops : \A j \in stops : ~ (j < i)
  BY <1>2
<1>4. IsInsertPos(s, n, i)
  BY <1>0, <1>3 DEF IsInsertPos
<1> QED
  BY <1>3, <1>4 DEF InsertPos

\* Making room keeps a suffix.
LEMMA RoomMadeOK ==
  ASSUME NEW s \in Seq(Entry), Len(s) <= BufferSize
  PROVE  /\ RoomMade(s) \in Seq(Entry)
         /\ Len(RoomMade(s)) < BufferSize
         /\ Sorted(s) => Sorted(RoomMade(s))
         /\ Distinct(s) => Distinct(RoomMade(s))
         /\ \A i \in DOMAIN RoomMade(s) : \E j \in DOMAIN s : RoomMade(s)[i] = s[j]
<1>1. CASE Len(s) < BufferSize
  <2>1. RoomMade(s) = s
    BY <1>1, JitterAssumption DEF RoomMade
  <2> QED
    BY <1>1, <2>1
<1>2. CASE Len(s) = BufferSize
  <2>1. RoomMade(s) = Tail(s) /\ s # << >>
    BY <1>2, JitterAssumption DEF RoomMade
  <2>2. /\ Tail(s) \in Seq(Entry) /\ Len(Tail(s)) = Len(s) - 1
        /\ \A i \in 1..(Len(s) - 1) : Tail(s)[i] = s[i + 1] /\ i + 1 \in DOMAIN s
    BY <2>1
  <2> QED
    BY <1>2, <2>1, <2>2, JitterAssumption DEF Sorted, Distinct
<1> QED
  BY <1>1, <1>2, JitterAssumption

\* An insertion at i is a sequence of one more entry.
LEMMA InsertedOK ==
  ASSUME NEW s \in Seq(Entry), NEW e \in Entry, NEW i \in 1..(Len(s) + 1)
  PROVE  /\ Inserted(s, i, e) \in Seq(Entry)
         /\ Len(Inserted(s, i, e)) = Len(s) + 1
         /\ DOMAIN Inserted(s, i, e) = 1..(Len(s) + 1)
         /\ \A k \in 1..(Len(s) + 1) :
              /\ k < i => k \in 1..Len(s) /\ Inserted(s, i, e)[k] = s[k]
              /\ k = i => Inserted(s, i, e)[k] = e
              /\ k > i => k - 1 \in 1..Len(s) /\ Inserted(s, i, e)[k] = s[k - 1]
<1> DEFINE t == Inserted(s, i, e)
<1>1. Len(s) \in Nat /\ i \in Int
  OBVIOUS
<1>2. \A k \in 1..(Len(s) + 1) :
        /\ k < i => k \in 1..Len(s) /\ t[k] = s[k]
        /\ k = i => t[k] = e
        /\ k > i => k - 1 \in 1..Len(s) /\ t[k] = s[k - 1]
  BY <1>1 DEF Inserted
<1>3. t \in [1..(Len(s) + 1) -> Entry]
  <2>1. \A k \in 1..(Len(s) + 1) : t[k] \in Entry
    <3> HIDE DEF t
    <3> QED
      BY <1>1, <1>2
  <2>2. t = [k \in 1..(Len(s) + 1) |-> t[k]]
    BY DEF Inserted
  <2> HIDE DEF t
  <2> QED
    BY <2>1, <2>2
<1>4. t \in Seq(Entry) /\ Len(t) = Len(s) + 1 /\ DOMAIN t = 1..(Len(s) + 1)
  <2> HIDE DEF t
  <2>1. Len(s) + 1 \in Nat
    BY <1>1
  <2> QED
    BY <1>3, <2>1, FunctionIsSeq
<1> QED
  BY <1>2, <1>4

\* A packet goes to its place in the stream.
LEMMA InsertedSorted ==
  ASSUME NEW s \in Seq(Entry), Sorted(s), NEW e \in Entry,
         \A i \in DOMAIN s : s[i].index - 32768 < e.index /\ e.index < s[i].index + 32768
  PROVE  Sorted(Inserted(s, InsertPos(s, e.index), e))
<1> DEFINE n == e.index
           pos == InsertPos(s, n)
           t == Inserted(s, pos, e)
<1>1. /\ Len(s) \in Nat /\ DOMAIN s = 1..Len(s) /\ n \in Nat
      /\ \A i \in 1..Len(s) : s[i].index \in Nat
  <2>1. Len(s) \in Nat /\ DOMAIN s = 1..Len(s) /\ \A i \in 1..Len(s) : s[i] \in Entry
    OBVIOUS
  <2> QED
    BY <2>1 DEF Entry
<1>2. IsInsertPos(s, n, pos)
  BY <1>1, InsertPosFound
<1> HIDE DEF pos
<1>3. \A i \in 1..Len(s) : Before(n, s[i].index) <=> n < s[i].index
  <2> SUFFICES ASSUME NEW i \in 1..Len(s)
               PROVE  Before(n, s[i].index) <=> n < s[i].index
    OBVIOUS
  <2>1. s[i].index - 32768 < n /\ n < s[i].index + 32768
    BY <1>1
  <2> HIDE DEF n
  <2> QED
    BY <1>1, <2>1, BeforeIsLess
<1>b. e.index = n
  OBVIOUS
<1> SUFFICES Sorted(t)
  BY DEF pos
<1> HIDE DEF n
<1>4. /\ pos \in 1..(Len(s) + 1)
      /\ pos <= Len(s) => n < s[pos].index
      /\ \A j \in 1..Len(s) : j < pos => s[j].index <= n
  BY <1>1, <1>2, <1>3 DEF IsInsertPos
<1>5. \A j \in 1..Len(s) : j >= pos => n < s[j].index
  <2> SUFFICES ASSUME NEW j \in 1..Len(s), j >= pos
               PROVE  n < s[j].index
    OBVIOUS
  <2>1. pos \in 1..Len(s) /\ n < s[pos].index
    BY <1>1, <1>4
  <2>2. pos < j => s[pos].index <= s[j].index
    BY <1>1, <2>1 DEF Sorted
  <2>3. s[pos].index \in Nat /\ s[j].index \in Nat
    BY <1>1, <2>1
  <2>4. pos < j \/ pos = j
    BY <1>1, <2>1
  <2> QED
    BY <1>1, <2>1, <2>2, <2>3, <2>4
<1>6. /\ DOMAIN t = 1..(Len(s) + 1)
      /\ \A k \in 1..(Len(s) + 1) :
           /\ k < pos => k \in 1..Len(s) /\ t[k] = s[k]
           /\ k = pos => t[k] = e
           /\ k > pos => k - 1 \in 1..Len(s) /\ t[k] = s[k - 1]
  BY <1>4, InsertedOK
<1>a. \A i, j \in 1..Len(s) : i < j => s[i].index <= s[j].index
  <2> SUFFICES ASSUME NEW i \in 1..Len(s), NEW j \in 1..Len(s), i < j
               PROVE  s[i].index <= s[j].index
    OBVIOUS
  <2>1. i \in DOMAIN s /\ j \in DOMAIN s
    BY <1>1
  <2> QED
    BY <2>1 DEF Sorted
<1> HIDE DEF t
<1> SUFFICES ASSUME NEW i \in 1..(Len(s) + 1), NEW j \in 1..(Len(s) + 1), i < j
             PROVE  t[i].index <= t[j].index
  BY <1>6 DEF Sorted
<1>7. CASE j < pos
  BY <1>1, <1>4, <1>6, <1>7, <1>a
<1>8. CASE i < pos /\ j = pos
  BY <1>1, <1>4, <1>6, <1>8, <1>b
<1>9. CASE i < pos /\ j > pos
  BY <1>1, <1>4, <1>6, <1>9, <1>a
<1>10. CASE i = pos
  BY <1>1, <1>4, <1>5, <1>6, <1>10, <1>b
<1>11. CASE i > pos
  <2>1. /\ i - 1 \in 1..Len(s) /\ t[i] = s[i - 1]
        /\ j - 1 \in 1..Len(s) /\ t[j] = s[j - 1]
    BY <1>1, <1>4, <1>6, <1>11
  <2>2. i - 1 < j - 1
    BY <1>1
  <2> QED
    BY <1>a, <2>1, <2>2
<1>12. i \in Int /\ j \in Int /\ pos \in Int
  BY <1>1, <1>4
<1>13. j < pos \/ (i < pos /\ j = pos) \/ (i < pos /\ j > pos) \/ i = pos \/ i > pos
  BY <1>12
<1> QED
  BY <1>7, <1>8, <1>9, <1>10, <1>11, <1>13

\* An insertion of an entry with a new id keeps ids apart.
LEMMA InsertedDistinct ==
  ASSUME NEW s \in Seq(Entry), Distinct(s), NEW e \in Entry, NEW i \in 1..(Len(s) + 1),
         \A k \in DOMAIN s : s[k].id < e.id
  PROVE  Distinct(Inserted(s, i, e))
<1> DEFINE t == Inserted(s, i, e)
<1>1. /\ Len(s) \in Nat /\ DOMAIN s = 1..Len(s) /\ i \in Int
      /\ \A k \in 1..Len(s) : s[k].id < e.id /\ s[k].id # e.id
  <2>1. Len(s) \in Nat /\ DOMAIN s = 1..Len(s) /\ \A k \in 1..Len(s) : s[k] \in Entry
    OBVIOUS
  <2>2. e.id \in Nat /\ \A k \in 1..Len(s) : s[k].id \in Nat
    BY <2>1 DEF Entry
  <2> QED
    BY <2>1, <2>2
<1>2. /\ DOMAIN t = 1..(Len(s) + 1)
      /\ \A k \in 1..(Len(s) + 1) :
           /\ k < i => k \in 1..Len(s) /\ t[k] = s[k]
           /\ k = i => t[k] = e
           /\ k > i => k - 1 \in 1..Len(s) /\ t[k] = s[k - 1]
  BY InsertedOK
<1> SUFFICES Distinct(t)
  OBVIOUS
<1> HIDE DEF t
<1> SUFFICES ASSUME NEW j \in 1..(Len(s) + 1), NEW k \in 1..(Len(s) + 1),
                    t[j].id = t[k].id
             PROVE  j = k
  BY <1>2 DEF Distinct
<1>3. \A a, b \in 1..Len(s) : s[a].id = s[b].id => a = b
  <2> SUFFICES ASSUME NEW a \in 1..Len(s), NEW b \in 1..Len(s), s[a].id = s[b].id
               PROVE  a = b
    OBVIOUS
  <2>1. a \in DOMAIN s /\ b \in DOMAIN s
    BY <1>1
  <2> QED
    BY <2>1 DEF Distinct
<1>4. CASE j = i
  BY <1>1, <1>2, <1>4
<1>5. CASE k = i
  BY <1>1, <1>2, <1>5
<1>6. CASE j < i /\ k < i
  BY <1>2, <1>3, <1>6
<1>7. CASE j > i /\ k > i
  <2>1. /\ j - 1 \in 1..Len(s) /\ t[j] = s[j - 1]
        /\ k - 1 \in 1..Len(s) /\ t[k] = s[k - 1]
    BY <1>2, <1>7
  <2>2. j - 1 = k - 1
    BY <1>3, <2>1
  <2> QED
    BY <2>2
<1>8. CASE j < i /\ k > i
  <2>1. /\ j \in 1..Len(s) /\ t[j] = s[j]
        /\ k - 1 \in 1..Len(s) /\ t[k] = s[k - 1]
    BY <1>2, <1>8
  <2>2. j = k - 1
    BY <1>3, <2>1
  <2> QED
    BY <1>1, <1>8, <2>2
<1>9. CASE j > i /\ k < i
  <2>1. /\ k \in 1..Len(s) /\ t[k] = s[k]
        /\ j - 1 \in 1..Len(s) /\ t[j] = s[j - 1]
    BY <1>2, <1>9
  <2>2. k = j - 1
    BY <1>3, <2>1
  <2> QED
    BY <1>1, <1>9, <2>2
<1> QED
  BY <1>1, <1>4, <1>5, <1>6, <1>7, <1>8, <1>9

\* What is in an insertion: the entries there were, and the new one.
LEMMA InsertedContents ==
  ASSUME NEW s \in Seq(Entry), NEW e \in Entry, NEW i \in 1..(Len(s) + 1)
  PROVE  /\ \A k \in DOMAIN Inserted(s, i, e) :
              Inserted(s, i, e)[k] = e \/ \E j \in DOMAIN s : Inserted(s, i, e)[k] = s[j]
         /\ \E k \in DOMAIN Inserted(s, i, e) : Inserted(s, i, e)[k] = e
         /\ \A j \in DOMAIN s : \E k \in DOMAIN Inserted(s, i, e) : Inserted(s, i, e)[k] = s[j]
<1> DEFINE t == Inserted(s, i, e)
<1>1. Len(s) \in Nat /\ DOMAIN s = 1..Len(s) /\ i \in Int
  OBVIOUS
<1>2. /\ DOMAIN t = 1..(Len(s) + 1)
      /\ \A k \in 1..(Len(s) + 1) :
           /\ k < i => k \in 1..Len(s) /\ t[k] = s[k]
           /\ k = i => t[k] = e
           /\ k > i => k - 1 \in 1..Len(s) /\ t[k] = s[k - 1]
  BY InsertedOK
<1> HIDE DEF t
<1>3. ASSUME NEW k \in DOMAIN t
      PROVE  t[k] = e \/ \E j \in DOMAIN s : t[k] = s[j]
  <2>1. k \in 1..(Len(s) + 1) /\ (k < i \/ k = i \/ k > i)
    BY <1>1, <1>2, <1>3
  <2> QED
    BY <1>1, <1>2, <2>1
<1>4. i \in DOMAIN t /\ t[i] = e
  BY <1>2
<1>5. ASSUME NEW j \in DOMAIN s
      PROVE  \E k \in DOMAIN t : t[k] = s[j]
  <2>1. CASE j < i
    <3>1. j \in 1..(Len(s) + 1) /\ t[j] = s[j]
      BY <1>1, <1>2, <1>5, <2>1
    <3> QED
      BY <1>2, <3>1
  <2>2. CASE j >= i
    <3>1. j + 1 \in 1..(Len(s) + 1) /\ j + 1 > i /\ (j + 1) - 1 = j
      BY <1>1, <1>5, <2>2
    <3>2. t[j + 1] = s[j]
      BY <1>2, <3>1
    <3> QED
      BY <1>2, <3>1, <3>2
  <2> QED
    BY <1>1, <1>5, <2>1, <2>2
<1> QED
  BY <1>3, <1>4, <1>5 DEF t

-----------------------------------------------------------------------------
\* The tail of a sequence, entry by entry.
LEMMA TailOK ==
  ASSUME NEW s \in Seq(Entry), s # << >>
  PROVE  /\ Tail(s) \in Seq(Entry)
         /\ Len(s) \in Nat \ {0} /\ Len(Tail(s)) = Len(s) - 1
         /\ DOMAIN s = 1..Len(s) /\ DOMAIN Tail(s) = 1..(Len(s) - 1)
         /\ s[1] \in Entry
         /\ \A i \in 1..(Len(s) - 1) : Tail(s)[i] = s[i + 1] /\ i + 1 \in 1..Len(s)
OBVIOUS

\* The buffer starts empty.
LEMMA InitOK == Init => IInv
<1> SUFFICES ASSUME Init PROVE IInv
  OBVIOUS
<1>1. TypeOK
  BY DelayType, JitterAssumption DEF Init, TypeOK
<1>2. Sorted(packets) /\ Distinct(packets) /\ Marked(packets)
  BY DEF Init, Sorted, Distinct, Marked
<1>3. playedAt <= clock /\ nextPlayout >= playedAt + Delay
  BY DelayType DEF Init
<1> QED
  BY <1>1, <1>2, <1>3 DEF IInv

\* Making room does not touch what the entries that stay say.
LEMMA AddFailsOK ==
  ASSUME IInv, AddFails
  PROVE  IInv'
<1> DEFINE s == RoomMade(packets)
<1>1. /\ s \in Seq(Entry) /\ Len(s) < BufferSize
      /\ Sorted(s) /\ Distinct(s)
      /\ \A i \in DOMAIN s : \E j \in DOMAIN packets : s[i] = packets[j]
  BY RoomMadeOK DEF IInv, TypeOK
<1>2. /\ packets' = s /\ arrivals' = arrivals + 1
      /\ nextPlayout' = nextPlayout /\ clock' = clock
      /\ newest' = newest /\ playedAt' = playedAt
  BY DEF AddFails
<1> HIDE DEF s
<1>3. TypeOK'
  BY <1>1, <1>2, JitterAssumption DEF IInv, TypeOK
<1>4. Sorted(packets)' /\ Distinct(packets)'
  BY <1>1, <1>2 DEF Sorted, Distinct
<1>5. Marked(packets)'
  <2> SUFFICES ASSUME NEW i \in DOMAIN s
               PROVE  s[i].id <= arrivals + 1 /\ (s[i].index < newest => s[i].late)
    BY <1>2 DEF Marked
  <2>1. PICK j \in DOMAIN packets : s[i] = packets[j]
    BY <1>1
  <2>2. packets[j] \in Entry /\ arrivals \in Nat
    BY DEF IInv, TypeOK
  <2>3. packets[j].id <= arrivals /\ (packets[j].index < newest => packets[j].late)
    BY DEF IInv, Marked
  <2> QED
    BY <2>1, <2>2, <2>3 DEF Entry
<1>6. (playedAt <= clock /\ nextPlayout >= playedAt + Delay)'
  BY <1>2 DEF IInv, Delay
<1> QED
  BY <1>3, <1>4, <1>5, <1>6 DEF IInv

\* A packet that is added gets its place, an id of its own and its mark.
LEMMA AddPacketOK ==
  ASSUME IInv, AddPacket
  PROVE  IInv'
<1> DEFINE s == RoomMade(packets)
<1>1. /\ s \in Seq(Entry) /\ Len(s) < BufferSize /\ Len(s) \in Nat
      /\ Sorted(s) /\ Distinct(s)
      /\ \A i \in DOMAIN s : \E j \in DOMAIN packets : s[i] = packets[j]
  BY RoomMadeOK DEF IInv, TypeOK
<1> HIDE DEF s
<1>2. PICK n \in Indices :
        /\ InWindow(n)
        /\ packets' = Inserted(s, InsertPos(s, n), NewEntry(n))
        /\ nextPlayout' = IF s = << >> THEN clock + MinDelay ELSE nextPlayout
  BY DEF AddPacket, s
<1> DEFINE e == NewEntry(n)
           pos == InsertPos(s, n)
           t == Inserted(s, pos, e)
<1>3. /\ arrivals' = arrivals + 1
      /\ clock' = clock /\ newest' = newest /\ playedAt' = playedAt
  BY DEF AddPacket
<1>4. /\ arrivals \in Nat /\ clock \in Nat /\ nextPlayout \in Nat /\ playedAt \in Int
      /\ newest \in Nat \cup {-1}
  BY DEF IInv, TypeOK
<1>5. /\ n \in Nat /\ e \in Entry
      /\ e.index = n /\ e.id = arrivals + 1 /\ (n < newest => e.late)
  <2>1. n \in Nat /\ e \in Entry /\ e.index = n /\ e.id = arrivals + 1
    BY <1>4, JitterAssumption DEF NewEntry, Entry
  <2>2. e.late = (n < newest)
    BY DEF NewEntry
  <2>3. n < newest => e.late
    BY <2>2, Zenon
  <2> QED
    BY <2>1, <2>3
<1> HIDE DEF e
<1>6. pos \in 1..(Len(s) + 1)
  <2>1. IsInsertPos(s, n, pos)
    BY <1>1, <1>5, InsertPosFound
  <2> QED
    BY <2>1 DEF IsInsertPos
<1> HIDE DEF pos
<1>7. ASSUME NEW i \in DOMAIN s
      PROVE  /\ s[i].id <= arrivals /\ s[i].id < e.id
             /\ s[i].index < newest => s[i].late
             /\ s[i].index - 32768 < e.index /\ e.index < s[i].index + 32768
  <2>1. PICK j \in DOMAIN packets : s[i] = packets[j]
    BY <1>1, <1>7
  <2>2. packets[j] \in Entry
    BY DEF IInv, TypeOK
  <2>3. packets[j].id <= arrivals /\ (packets[j].index < newest => packets[j].late)
    BY DEF IInv, Marked
  <2>4. packets[j].index - 32768 < n /\ n < packets[j].index + 32768
    BY <1>2 DEF InWindow
  <2>5. packets[j].id \in Nat
    BY <2>2 DEF Entry
  <2> QED
    BY <1>4, <1>5, <2>1, <2>3, <2>4, <2>5
<1>8. t \in Seq(Entry) /\ Len(t) = Len(s) + 1
  BY <1>1, <1>5, <1>6, InsertedOK
<1>9. Sorted(t)
  <2>1. Sorted(Inserted(s, InsertPos(s, e.index), e))
    BY <1>1, <1>5, <1>7, InsertedSorted
  <2> QED
    BY <1>5, <2>1 DEF pos
<1>10. Distinct(t)
  BY <1>1, <1>5, <1>6, <1>7, InsertedDistinct
<1>11. \A k \in DOMAIN t : t[k] = e \/ \E j \in DOMAIN s : t[k] = s[j]
  BY <1>1, <1>5, <1>6, InsertedContents
<1>12. packets' = t
  BY <1>2 DEF e, pos
<1> HIDE DEF t
<1>13. nextPlayout' \in Nat
  BY <1>2, <1>4, JitterAssumption
<1>14. (playedAt <= clock /\ nextPlayout >= playedAt + Delay)'
  <2>1. playedAt <= clock /\ nextPlayout >= playedAt + Delay
    BY DEF IInv
  <2>2. Delay' = Delay
    BY DEF Delay
  <2> QED
    BY <1>2, <1>3, <1>4, <2>1, <2>2, DelayType, JitterAssumption
<1>15. TypeOK'
  BY <1>1, <1>3, <1>4, <1>8, <1>12, <1>13, JitterAssumption DEF TypeOK
<1>16. Marked(packets)'
  <2> SUFFICES ASSUME NEW k \in DOMAIN t
               PROVE  t[k].id <= arrivals + 1 /\ (t[k].index < newest => t[k].late)
    BY <1>3, <1>12 DEF Marked
  <2>1. CASE t[k] = e
    <3>1. t[k].id <= arrivals + 1
      BY <1>4, <1>5, <2>1
    <3>2. ASSUME t[k].index < newest PROVE t[k].late
      <4>1. n < newest
        BY <1>5, <2>1, <3>2
      <4> QED
        BY <1>5, <2>1, <4>1
    <3> QED
      BY <3>1, <3>2
  <2>2. ASSUME NEW j \in DOMAIN s, t[k] = s[j]
        PROVE  t[k].id <= arrivals + 1 /\ (t[k].index < newest => t[k].late)
    <3>1. s[j] \in Entry
      BY <1>1
    <3>2. s[j].id \in Nat
      BY <3>1 DEF Entry
    <3>3. s[j].id <= arrivals /\ (s[j].index < newest => s[j].late)
      BY <1>7
    <3>4. s[j].id <= arrivals + 1
      BY <1>4, <3>2, <3>3
    <3> QED
      BY <2>2, <3>3, <3>4
  <2> QED
    BY <1>11, <2>1, <2>2
<1> QED
  BY <1>9, <1>10, <1>12, <1>14, <1>15, <1>16 DEF IInv

\* The head leaves; what stays is no older than it.
LEMMA GetPacketOK ==
  ASSUME IInv, GetPacket
  PROVE  IInv'
<1> DEFINE s == Tail(packets)
           n == packets[1].index
<1>1. /\ packets \in Seq(Entry) /\ packets # << >> /\ Len(packets) <= BufferSize
      /\ Sorted(packets) /\ Distinct(packets)
      /\ arrivals \in Nat /\ clock \in Nat /\ nextPlayout \in Nat /\ playedAt \in Int
      /\ newest \in Nat \cup {-1}
  BY DEF IInv, TypeOK, GetPacket
<1>2. /\ s \in Seq(Entry) /\ Len(packets) \in Nat \ {0} /\ Len(s) = Len(packets) - 1
      /\ DOMAIN packets = 1..Len(packets) /\ DOMAIN s = 1..(Len(packets) - 1)
      /\ packets[1] \in Entry
      /\ \A i \in 1..(Len(packets) - 1) : s[i] = packets[i + 1] /\ i + 1 \in 1..Len(packets)
  BY <1>1, TailOK
<1>3. n \in Nat
  BY <1>2 DEF Entry
<1>4. /\ packets' = s /\ nextPlayout' = clock + Delay
      /\ newest' = (IF n > newest THEN n ELSE newest)
      /\ playedAt' = clock /\ clock' = clock /\ arrivals' = arrivals
  BY DEF GetPacket, NextDue
<1>5. ASSUME NEW i \in DOMAIN s
      PROVE  /\ i + 1 \in DOMAIN packets /\ s[i] = packets[i + 1]
             /\ s[i].id <= arrivals
             /\ s[i].index \in Nat /\ n <= s[i].index
             /\ s[i].index < newest => s[i].late
  <2>1. i + 1 \in DOMAIN packets /\ s[i] = packets[i + 1] /\ 1 \in DOMAIN packets /\ 1 < i + 1
    BY <1>2, <1>5
  <2>2. s[i] \in Entry
    BY <1>2
  <2>3. s[i].index \in Nat
    BY <2>2 DEF Entry
  <2>4. packets[1].index <= packets[i + 1].index
    BY <1>1, <2>1 DEF Sorted
  <2>5. packets[i + 1].id <= arrivals /\ (packets[i + 1].index < newest => packets[i + 1].late)
    BY <2>1 DEF IInv, Marked
  <2> QED
    BY <2>1, <2>3, <2>4, <2>5
<1> HIDE DEF s, n
<1>6. TypeOK'
  BY <1>1, <1>2, <1>3, <1>4, DelayType, JitterAssumption DEF TypeOK
<1>7. Sorted(s)
  <2> SUFFICES ASSUME NEW i \in DOMAIN s, NEW j \in DOMAIN s, i < j
               PROVE  s[i].index <= s[j].index
    BY DEF Sorted
  <2>1. i + 1 < j + 1
    BY <1>2
  <2>2. packets[i + 1].index <= packets[j + 1].index
    BY <1>1, <1>5, <2>1 DEF Sorted
  <2> QED
    BY <1>5, <2>2
<1>8. Distinct(s)
  <2> SUFFICES ASSUME NEW i \in DOMAIN s, NEW j \in DOMAIN s, s[i].id = s[j].id
               PROVE  i = j
    BY DEF Distinct
  <2>1. i + 1 = j + 1
    BY <1>1, <1>5 DEF Distinct
  <2> QED
    BY <1>2, <2>1
<1>9. Marked(packets)'
  <2> SUFFICES ASSUME NEW i \in DOMAIN s
               PROVE  s[i].id <= arrivals /\ (s[i].index < newest' => s[i].late)
    BY <1>4 DEF Marked
  <2>1. ASSUME s[i].index < newest' PROVE s[i].late
    <3>1. s[i].index < newest
      BY <1>1, <1>3, <1>4, <1>5, <2>1
    <3> QED
      BY <1>5, <3>1
  <2> QED
    BY <1>5, <2>1
<1>10. (playedAt <= clock /\ nextPlayout >= playedAt + Delay)'
  <2>1. Delay' = Delay
    BY DEF Delay
  <2> QED
    BY <1>1, <1>4, <2>1, DelayType
<1> QED
  BY <1>4, <1>6, <1>7, <1>8, <1>9, <1>10 DEF IInv

\* Time changes nothing in the buffer.
LEMMA TickOK ==
  ASSUME IInv, Tick
  PROVE  IInv'
<1>1. /\ packets' = packets /\ nextPlayout' = nextPlayout /\ clock' = clock + 1
      /\ arrivals' = arrivals /\ newest' = newest /\ playedAt' = playedAt
  BY DEF Tick
<1>2. TypeOK'
  BY <1>1 DEF IInv, TypeOK
<1>3. Marked(packets)'
  BY <1>1 DEF IInv, Marked
<1>4. (playedAt <= clock /\ nextPlayout >= playedAt + Delay)'
  BY <1>1 DEF IInv, TypeOK, Delay
<1> QED
  BY <1>1, <1>2, <1>3, <1>4 DEF IInv

\* What is constant in a stuttering step.
LEMMA StutterOK ==
  ASSUME IInv, UNCHANGED vars
  PROVE  IInv'
<1>1. TypeOK'
  BY DEF IInv, TypeOK, vars
<1>2. Marked(packets)'
  BY DEF IInv, Marked, vars
<1> QED
  BY <1>1, <1>2 DEF IInv, vars, Delay

\* The invariant is inductive: what the code does in add_packet and in
\* get_packet keeps the array sorted and the pace kept.
THEOREM Invariance == Spec => []IInv
<1>1. IInv /\ [Next]_vars => IInv'
  BY AddFailsOK, AddPacketOK, GetPacketOK, TickOK, StutterOK DEF Next
<1> QED
  BY InitOK, <1>1, PTL DEF Spec

\* Types, and the bound of the arrays that tinyrtc_jitter_buffer_add_packet
\* writes to, whatever their size.
THEOREM TypeCorrect == Spec => []TypeOK
<1>1. IInv => TypeOK
  BY DEF IInv
<1> QED
  BY Invariance, <1>1, PTL

\* A packet is played after a newer one only if it arrived too late, for
\* every stream that is reordered by less than half the sequence space.
THEOREM OrderKept == Spec => OnlyLateOutOfOrder
<1>1. ASSUME IInv, GetPacket
      PROVE  packets[1].late \/ packets[1].index >= newest
  <2>1. packets \in Seq(Entry) /\ packets # << >> /\ newest \in Nat \cup {-1}
    BY <1>1 DEF IInv, TypeOK, GetPacket
  <2>2. 1 \in DOMAIN packets /\ packets[1] \in Entry
    BY <2>1, TailOK
  <2>3. packets[1].index \in Nat
    BY <2>2 DEF Entry
  <2>4. packets[1].index < newest => packets[1].late
    BY <1>1, <2>2 DEF IInv, Marked
  <2> QED
    BY <2>1, <2>3, <2>4
<1>2. IInv /\ [Next]_vars => [GetPacket => packets[1].late \/ packets[1].index >= newest]_vars
  BY <1>1
<1> QED
  BY Invariance, <1>2, PTL DEF Spec, OnlyLateOutOfOrder

-----------------------------------------------------------------------------
\* What the refinement shows of an entry and of a sequence of them.
Shown(x) == [index |-> x.index, id |-> x.id]

HeldOf(s) == {Shown(s[i]) : i \in DOMAIN s}

LEMMA HeldIsHeldOf == HeldPackets = HeldOf(packets)
BY DEF HeldPackets, HeldOf, Shown

\* The head of a sorted sequence is an oldest packet, and the tail holds all
\* but it.
LEMMA TailHeld ==
  ASSUME NEW s \in Seq(Entry), s # << >>, Sorted(s), Distinct(s)
  PROVE  /\ Shown(s[1]) \in HeldOf(s)
         /\ \A q \in HeldOf(s) : Shown(s[1]).index <= q.index
         /\ HeldOf(Tail(s)) = HeldOf(s) \ {Shown(s[1])}
<1>1. /\ Len(s) \in Nat \ {0}
      /\ DOMAIN s = 1..Len(s) /\ DOMAIN Tail(s) = 1..(Len(s) - 1)
      /\ \A i \in 1..(Len(s) - 1) : Tail(s)[i] = s[i + 1] /\ i + 1 \in 1..Len(s)
      /\ 1 \in DOMAIN s
  BY TailOK
<1>2. \A i \in DOMAIN s : s[i].index \in Nat /\ s[i].id \in Nat
  <2> SUFFICES ASSUME NEW i \in DOMAIN s PROVE s[i].index \in Nat /\ s[i].id \in Nat
    OBVIOUS
  <2>1. s[i] \in Entry
    OBVIOUS
  <2> QED
    BY <2>1 DEF Entry
<1>3. \A i \in DOMAIN s : s[1].index <= s[i].index
  <2> SUFFICES ASSUME NEW i \in DOMAIN s PROVE s[1].index <= s[i].index
    OBVIOUS
  <2>1. i = 1 \/ 1 < i
    BY <1>1
  <2> QED
    BY <1>1, <1>2, <2>1 DEF Sorted
<1>4. ASSUME NEW q \in HeldOf(s) PROVE Shown(s[1]).index <= q.index
  BY <1>3, <1>4 DEF HeldOf, Shown
<1>5. ASSUME NEW q \in HeldOf(Tail(s)) PROVE q \in HeldOf(s) \ {Shown(s[1])}
  <2>1. PICK i \in DOMAIN Tail(s) : q = Shown(Tail(s)[i])
    BY <1>5 DEF HeldOf
  <2>2. i + 1 \in DOMAIN s /\ i + 1 # 1 /\ q = Shown(s[i + 1])
    BY <1>1, <2>1
  <2>3. s[i + 1].id # s[1].id
    BY <1>1, <2>2 DEF Distinct
  <2>4. Shown(s[i + 1]).id # Shown(s[1]).id
    BY <2>3 DEF Shown
  <2> QED
    BY <2>2, <2>4 DEF HeldOf
<1>6. ASSUME NEW q \in HeldOf(s) \ {Shown(s[1])} PROVE q \in HeldOf(Tail(s))
  <2>1. PICK i \in DOMAIN s : q = Shown(s[i])
    BY <1>6 DEF HeldOf
  <2>2. i # 1
    BY <1>6, <2>1
  <2>3. i - 1 \in DOMAIN Tail(s) /\ (i - 1) + 1 = i
    BY <1>1, <2>2
  <2>4. Tail(s)[i - 1] = s[i]
    BY <1>1, <2>3
  <2> QED
    BY <2>1, <2>3, <2>4 DEF HeldOf
<1>7. Shown(s[1]) \in HeldOf(s)
  BY <1>1 DEF HeldOf
<1> QED
  BY <1>4, <1>5, <1>6, <1>7

\* What making room gives up: nothing, or an oldest packet.
Lost == {{}} \cup {{p} : p \in {q \in HeldPackets : Queue!Oldest(q)}}

LEMMA RoomHeld ==
  ASSUME IInv
  PROVE  \E lost \in Lost : HeldOf(RoomMade(packets)) = HeldPackets \ lost
<1>1. /\ packets \in Seq(Entry) /\ Sorted(packets) /\ Distinct(packets)
      /\ Len(packets) <= BufferSize
  BY DEF IInv, TypeOK
<1>2. CASE RoomMade(packets) = packets
  <2>1. HeldOf(RoomMade(packets)) = HeldPackets \ {}
    BY <1>2, HeldIsHeldOf
  <2>2. {} \in Lost
    BY DEF Lost
  <2> QED
    BY <2>1, <2>2
<1>3. CASE RoomMade(packets) # packets
  <2>1. RoomMade(packets) = Tail(packets) /\ packets # << >>
    BY <1>1, <1>3, JitterAssumption DEF RoomMade
  <2> DEFINE p == Shown(packets[1])
  <2>2. /\ p \in HeldPackets /\ \A q \in HeldPackets : p.index <= q.index
        /\ HeldOf(Tail(packets)) = HeldPackets \ {p}
    BY <1>1, <2>1, TailHeld, HeldIsHeldOf
  <2> HIDE DEF p
  <2>3. {p} \in Lost
    BY <2>2 DEF Lost, Queue!Oldest
  <2> QED
    BY <2>1, <2>2, <2>3
<1> QED
  BY <1>2, <1>3

\* A packet for which there is no memory may cost the oldest one.
LEMMA AddFailsArrives ==
  ASSUME IInv, AddFails
  PROVE  Queue!Arrive
<1>1. HeldPackets' = HeldOf(RoomMade(packets))
  BY DEF AddFails, HeldPackets, HeldOf, Shown
<1>2. UNCHANGED <<clock, playedAt>>
  BY DEF AddFails
<1>3. PICK lost \in Lost : HeldPackets' = HeldPackets \ lost
  BY <1>1, RoomHeld
<1> QED
  BY <1>2, <1>3 DEF Queue!Arrive, Lost

\* A packet that is kept may cost the oldest one.
LEMMA AddPacketArrives ==
  ASSUME IInv, AddPacket
  PROVE  Queue!Arrive
<1> DEFINE s == RoomMade(packets)
<1>1. s \in Seq(Entry)
  BY RoomMadeOK DEF IInv, TypeOK
<1>2. PICK n \in Indices : packets' = Inserted(s, InsertPos(s, n), NewEntry(n))
  BY DEF AddPacket
<1>3. UNCHANGED <<clock, playedAt>>
  BY DEF AddPacket
<1> DEFINE e == NewEntry(n)
           i == InsertPos(s, n)
           p == Shown(e)
<1>4. e \in Entry /\ n \in Nat
  BY JitterAssumption DEF IInv, TypeOK, NewEntry, Entry
<1>5. i \in 1..(Len(s) + 1)
  <2>1. IsInsertPos(s, n, i)
    BY <1>1, <1>4, InsertPosFound
  <2> QED
    BY <2>1 DEF IsInsertPos
<1>6. HeldPackets' = {Shown(packets'[k]) : k \in DOMAIN packets'}
  BY DEF HeldPackets, Shown
<1> HIDE DEF s, e, i
<1>7. /\ \A k \in DOMAIN packets' : packets'[k] = e \/ \E j \in DOMAIN s : packets'[k] = s[j]
      /\ \E k \in DOMAIN packets' : packets'[k] = e
      /\ \A j \in DOMAIN s : \E k \in DOMAIN packets' : packets'[k] = s[j]
  <2>1. packets' = Inserted(s, i, e)
    BY <1>2 DEF i, e
  <2> QED
    BY <1>1, <1>4, <1>5, <2>1, InsertedContents
<1>8. p \in HeldPackets'
  BY <1>6, <1>7
<1>9. \A q \in HeldPackets' : q = p \/ q \in HeldOf(s)
  BY <1>6, <1>7 DEF HeldOf
<1>10. \A q \in HeldOf(s) : q \in HeldPackets'
  BY <1>6, <1>7 DEF HeldOf
<1>11. HeldPackets' = HeldOf(s) \cup {p}
  BY <1>8, <1>9, <1>10
<1>12. p \in Queue!Held
  BY <1>4 DEF Entry, Shown, Queue!Held
<1>13. PICK lost \in Lost : HeldOf(s) = HeldPackets \ lost
  BY RoomHeld DEF s
<1> HIDE DEF p
<1> QED
  BY <1>3, <1>8, <1>11, <1>12, <1>13 DEF Queue!Arrive, Lost

\* The packet that get_packet takes is an oldest one, and it is time for it.
LEMMA GetPacketPlays ==
  ASSUME IInv, GetPacket
  PROVE  Queue!Play
<1> DEFINE p == Shown(packets[1])
<1>1. /\ packets \in Seq(Entry) /\ packets # << >>
      /\ Sorted(packets) /\ Distinct(packets)
      /\ clock \in Nat /\ nextPlayout \in Nat /\ playedAt \in Int
      /\ clock >= nextPlayout /\ nextPlayout >= playedAt + Delay
      /\ playedAt' = clock /\ clock' = clock
  BY DEF IInv, TypeOK, GetPacket
<1>2. HeldPackets' = HeldOf(Tail(packets))
  BY DEF GetPacket, HeldPackets, HeldOf, Shown
<1>3. /\ p \in HeldPackets /\ \A q \in HeldPackets : p.index <= q.index
      /\ HeldPackets' = HeldPackets \ {p}
  BY <1>1, <1>2, TailHeld, HeldIsHeldOf
<1>4. clock >= playedAt + Delay
  BY <1>1, DelayType
<1> HIDE DEF p
<1> QED
  BY <1>1, <1>3, <1>4 DEF Queue!Play, Queue!Oldest

\* The buffer is a playout queue: oldest first and never faster than the pace,
\* however the stream was reordered and whatever overflowed.
THEOREM Implements == Spec => ImplementsQueue
<1>1. Init => Queue!QueueInit
  BY DEF Init, HeldPackets, Queue!QueueInit
<1>2. IInv /\ [Next]_vars => [Queue!QueueNext]_(Queue!queueVars)
  <2> SUFFICES ASSUME IInv, [Next]_vars
               PROVE  [Queue!QueueNext]_(Queue!queueVars)
    OBVIOUS
  <2>1. CASE AddFails
    BY <2>1, AddFailsArrives DEF Queue!QueueNext
  <2>2. CASE AddPacket
    BY <2>2, AddPacketArrives DEF Queue!QueueNext
  <2>3. CASE GetPacket
    BY <2>3, GetPacketPlays DEF Queue!QueueNext
  <2>4. CASE Tick
    <3>1. clock' > clock
      BY <2>4 DEF Tick, IInv, TypeOK
    <3>2. UNCHANGED <<HeldPackets, playedAt>>
      BY <2>4 DEF Tick, HeldPackets
    <3> QED
      BY <3>1, <3>2 DEF Queue!Pass, Queue!QueueNext
  <2>5. CASE UNCHANGED vars
    BY <2>5 DEF vars, HeldPackets, Queue!queueVars
  <2> QED
    BY <2>1, <2>2, <2>3, <2>4, <2>5 DEF Next
<1> QED
  BY Invariance, <1>1, <1>2, PTL DEF Spec, ImplementsQueue, Queue!QueueSpec
=============================================================================
