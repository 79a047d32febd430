--------------------------- MODULE RtpMediaProofs ---------------------------
(***************************************************************************)
(* What RtpMedia promises, for all codecs, shapes of frames, sizes of the  *)
(* space of sequence numbers and any number of packets, whatever the       *)
(* network does with them.                                                 *)
(*                                                                         *)
(* Two recursive functions, FlattenSeq's and PacketsUpTo, have to be       *)
(* defined everywhere before anything can be said of them.  This takes     *)
(* induction, which is had from the minimum that every set of numbers has. *)
(*                                                                         *)
(*   TypeInv     TypeOK, and what the packetiser and the network may hold: *)
(*               pieces of the frames given to the packetiser              *)
(*   WireInv     behind the numbers, which wrap, are positions that do not *)
(*   RecoverInv  the parts that have arrived in turn are in the buffer     *)
(*   Inv         all the buffer holds is of one frame                      *)
(***************************************************************************)
EXTENDS RtpMedia, SequenceTheorems, WellFoundedInduction, TLAPS

(***************************************************************************)
(* Induction and division.                                                 *)
(***************************************************************************)
\* A set of numbers that has 0, and the next of each of its numbers, has all.
LEMMA NatSetInduction ==
  ASSUME NEW T \in SUBSET Nat, 0 \in T, \A n \in T : n + 1 \in T
  PROVE  T = Nat
<1> SUFFICES ASSUME Nat \ T # {} PROVE FALSE
  OBVIOUS
<1> DEFINE R == {ss \in Nat \X Nat : ss[1] < ss[2]}
<1>0. PICK n \in Nat \ T : \A y \in Nat \ T : ~ (<<y, n>> \in R)
  <2>1. IsWellFoundedOn(R, Nat)
    BY NatLessThanWellFounded DEF OpToRel
  <2> HIDE DEF R
  <2> QED BY <2>1, WFMin
<1>1. \A y \in Nat : y < n => y \in T
  BY <1>0
<1>2. n - 1 \in Nat
  <2>1. n # 0
    OBVIOUS
  <2> QED BY <2>1
<1>3. n - 1 \in T
  BY <1>1, <1>2
<1>4. n = (n - 1) + 1
  OBVIOUS
<1> QED BY <1>3, <1>4

\* f is the iteration of F from x on.
Iterates(f, x, n, F) == f[1] = x /\ \A i \in 2..n : f[i] = F[i][f[i - 1]]

\* A function is defined by its first value and by what gives the next one.
LEMMA IterationDefined ==
  ASSUME NEW S, NEW n \in Nat, 1 <= n, NEW x \in S, NEW F \in [2..n -> [S -> S]]
  PROVE  \E f \in [1..n -> S] : Iterates(f, x, n, F)
<1> DEFINE Good(k, f) == f[1] = x /\ \A i \in 2..(1 + k) : f[i] = F[i][f[i - 1]]
           T == {k \in Nat : 1 + k <= n => \E f \in [1..(1 + k) -> S] : Good(k, f)}
<1>1. 0 \in T
  <2> DEFINE f == [i \in 1..(1 + 0) |-> x]
  <2>1. f \in [1..(1 + 0) -> S] /\ Good(0, f)
    OBVIOUS
  <2> QED BY <2>1
<1>2. ASSUME NEW k \in T PROVE k + 1 \in T
  <2> SUFFICES ASSUME 1 + (k + 1) <= n
               PROVE  \E g \in [1..(1 + (k + 1)) -> S] : Good(k + 1, g)
    BY SMTT(20)
  <2>0. 1 + k <= n /\ k \in Nat
    OBVIOUS
  <2>1. PICK f \in [1..(1 + k) -> S] : Good(k, f)
    BY <2>0
  <2> DEFINE j == 1 + (k + 1)
             g == [i \in 1..j |-> IF i = j THEN F[i][f[i - 1]] ELSE f[i]]
  <2>2. F[j][f[j - 1]] \in S
    <3>1. j \in 2..n /\ j - 1 \in 1..(1 + k)
      BY <2>0
    <3>2. f[j - 1] \in S
      BY <2>1, <3>1
    <3> QED BY <3>1, <3>2
  <2>3. g \in [1..j -> S]
    <3>1. \A i \in 1..j : i # j => i \in 1..(1 + k)
      BY <2>0
    <3> QED BY <2>1, <2>2, <3>1
  <2>4. g[1] = x
    BY <2>0, <2>1
  <2>5. ASSUME NEW i \in 2..j PROVE g[i] = F[i][g[i - 1]]
    <3>1. i - 1 \in 1..(1 + k) /\ i - 1 \in 1..j /\ i \in 1..j /\ i - 1 # j
      BY <2>0
    <3>2. g[i - 1] = f[i - 1]
      BY <3>1
    <3>3. CASE i = j
      BY <3>1, <3>2, <3>3
    <3>4. CASE i # j
      <4>1. i \in 2..(1 + k)
        BY <2>0, <3>4
      <4>2. g[i] = f[i] /\ f[i] = F[i][f[i - 1]]
        BY <2>1, <3>1, <3>4, <4>1
      <4> QED BY <3>2, <4>2
    <3> QED BY <3>3, <3>4
  <2>6. Good(k + 1, g)
    BY <2>4, <2>5
  <2> QED BY <2>3, <2>6
<1> HIDE DEF T
<1>3. T = Nat
  <2>1. T \in SUBSET Nat
    BY DEF T
  <2> QED BY <1>1, <1>2, <2>1, NatSetInduction
<1>4. n - 1 \in T
  BY <1>3
<1>5. \E f \in [1..(1 + (n - 1)) -> S] : Good(n - 1, f)
  BY <1>4 DEF T
<1>6. 1 + (n - 1) = n
  OBVIOUS
<1> QED BY <1>5, <1>6 DEF Iterates

\* Quotient and remainder.
LEMMA Division ==
  ASSUME NEW x \in Int, NEW S \in Nat \ {0}
  PROVE  x \div S \in Int /\ x % S \in 0..(S - 1) /\ x = (x \div S) * S + (x % S)
OBVIOUS

\* There is one remainder.
LEMMA Remainder ==
  ASSUME NEW S \in Nat \ {0}, NEW q \in Int, NEW r \in 0..(S-1), NEW x \in Int, x = q * S + r
  PROVE  x % S = r
OBVIOUS

\* The next number.
LEMMA NextNumber ==
  ASSUME NEW x \in Nat, NEW S \in Nat \ {0}
  PROVE  (x + 1) % S = ((x % S) + 1) % S
<1> DEFINE q == x \div S
           r == x % S
<1>1. x = q * S + r /\ q \in Int
  BY Division
<1>2. r \in 0..(S - 1)
  BY Division
<1> HIDE DEF q, r
<1>3. CASE r + 1 < S
  <2>1. (r + 1) % S = r + 1
    BY <1>2, <1>3
  <2>2. x + 1 = q * S + (r + 1)
    BY <1>1, <1>2 DEF r
  <2>3. (x + 1) % S = r + 1
    BY <2>2, <1>1, <1>2, <1>3, Remainder
  <2> QED BY <2>1, <2>3 DEF r
<1>4. CASE r + 1 = S
  <2>1. (r + 1) % S = 0
    BY <1>4
  <2>2. x + 1 = (q + 1) * S + 0
    <3>1. x + 1 = q * S + S
      BY <1>1, <1>2, <1>4 DEF r
    <3>2. (q + 1) * S = q * S + S
      BY <1>1
    <3> QED BY <3>1, <3>2
  <2>3. q + 1 \in Int /\ 0 \in 0..(S - 1)
    BY <1>1
  <2>4. (x + 1) % S = 0
    BY <1>1, <2>2, <2>3, Remainder
  <2> QED BY <2>1, <2>4 DEF r
<1> QED BY <1>2, <1>3, <1>4

\* Less than half of the space apart, the order of two numbers can be told.
LEMMA EarlierNumber ==
  ASSUME NEW S \in Nat \ {0}, S % 2 = 0, NEW x \in Nat, NEW y \in Nat,
         x < y, y - x < S \div 2
  PROVE  (((x % S) - (y % S) + S \div 2) % S) - S \div 2 < 0
<1> DEFINE H == S \div 2
           a == x % S
           b == y % S
<1>1. H \in Nat /\ H + H = S
  OBVIOUS
<1>2. a \in 0..(S - 1) /\ b \in 0..(S - 1)
  OBVIOUS
<1> DEFINE q == x \div S
           r == y \div S
<1>3. x = q * S + a /\ q \in Int
  BY Division
<1>4. y = r * S + b /\ r \in Int
  BY Division
<1>5. 0 < y - x /\ y - x < H
  OBVIOUS
<1> HIDE DEF H, a, b, q, r
<1> DEFINE k == r - q
<1>6. k \in Int
  BY <1>3, <1>4
<1>7. y - x = k * S + (b - a)
  BY <1>2, <1>3, <1>4
<1> HIDE DEF k
<1>8. k < 2
  <2>1. k >= 2 => k * S >= 2 * S
    BY <1>6
  <2> QED BY <1>1, <1>2, <1>5, <1>6, <1>7, <2>1
<1>9. k > -1
  <2>1. k <= -1 => k * S <= -S
    BY <1>6
  <2> QED BY <1>1, <1>2, <1>5, <1>6, <1>7, <2>1
<1>10. k = 0 \/ k = 1
  BY <1>6, <1>8, <1>9
<1> DEFINE c == a - b + H
<1>11. c % S < H
  <2>1. CASE k = 0
    <3>1. 0 <= c /\ c < H
      BY <1>1, <1>2, <1>5, <1>7, <2>1
    <3>2. c % S = c
      BY <3>1, <1>1, <1>2
    <3> QED BY <3>1, <3>2
  <2>2. CASE k = 1
    <3>1. S <= c /\ c < S + H
      BY <1>1, <1>2, <1>5, <1>7, <2>2
    <3>2. c % S = c - S
      BY <3>1, <1>1, <1>2
    <3> QED BY <3>1, <3>2, <1>1, <1>2
  <2> QED BY <1>10, <2>1, <2>2
<1>12. c % S \in Int
  BY <1>1, <1>2
<1>13. (c % S) - H < 0
  BY <1>1, <1>11, <1>12
<1> QED BY <1>13 DEF H, a, b

-----------------------------------------------------------------------------
(***************************************************************************)
(* FlattenSeq.                                                             *)
(***************************************************************************)
\* FlattenSeq joins the sequences one after the other.
Joining(ss, g) ==
  /\ g[1] = ss[1]
  /\ \A i \in 2..Len(ss) : g[i] = g[i - 1] \o ss[i]

LEMMA Flattened ==
  ASSUME NEW S, NEW ss \in Seq(Seq(S)), ss # << >>
  PROVE  \E g \in [1..Len(ss) -> Seq(S)] : Joining(ss, g) /\ FlattenSeq(ss) = g[Len(ss)]
<1> DEFINE n == Len(ss)
           F == [i \in 2..n |-> [s \in Seq(S) |-> s \o ss[i]]]
           Solves(g) == g = [i \in 1..n |-> IF i = 1 THEN ss[i] ELSE g[i - 1] \o ss[i]]
           h == CHOOSE g : Solves(g)
<1>1. n \in Nat /\ 1 <= n /\ \A i \in 1..n : ss[i] \in Seq(S)
  BY EmptySeq
<1> HIDE DEF n
<1>2. \E f \in [1..n -> Seq(S)] : f[1] = ss[1] /\ \A i \in 2..n : f[i] = f[i - 1] \o ss[i]
  <2>1. F \in [2..n -> [Seq(S) -> Seq(S)]]
    <3>1. ASSUME NEW i \in 2..n, NEW s \in Seq(S) PROVE s \o ss[i] \in Seq(S)
      <4>1. ss[i] \in Seq(S)
        BY <1>1
      <4> QED BY <4>1, ConcatProperties
    <3> QED BY <3>1
  <2>2. \A i \in 2..n, s \in Seq(S) : F[i][s] = s \o ss[i]
    OBVIOUS
  <2> HIDE DEF F
  <2>3. ss[1] \in Seq(S) /\ n \in Nat /\ 1 <= n /\ F \in [2..n -> [Seq(S) -> Seq(S)]]
    BY <1>1, <2>1
  <2>4. PICK f \in [1..n -> Seq(S)] : f[1] = ss[1] /\ \A i \in 2..n : f[i] = F[i][f[i - 1]]
    <3> DEFINE Q == Seq(S)
    <3>1. ss[1] \in Q /\ n \in Nat /\ 1 <= n /\ F \in [2..n -> [Q -> Q]]
      BY <2>3
    <3> HIDE DEF Q
    <3>2. \E f \in [1..n -> Q] : Iterates(f, ss[1], n, F)
      BY ONLY <3>1, IterationDefined
    <3> QED BY <3>2 DEF Q, Iterates
  <2>5. ASSUME NEW i \in 2..n PROVE f[i] = f[i - 1] \o ss[i]
    <3>1. i - 1 \in 1..n /\ i \in 2..n
      BY <1>1
    <3>2. f[i - 1] \in Seq(S)
      BY <2>4, <3>1
    <3> QED BY <2>2, <2>4, <3>1, <3>2
  <2> QED BY <2>4, <2>5
<1>3. PICK f \in [1..n -> Seq(S)] : f[1] = ss[1] /\ \A i \in 2..n : f[i] = f[i - 1] \o ss[i]
  BY <1>2
<1>4. Solves(f)
  <2>1. ASSUME NEW i \in 1..n
        PROVE  f[i] = IF i = 1 THEN ss[i] ELSE f[i - 1] \o ss[i]
    <3>1. i = 1 \/ i \in 2..n
      BY <1>1
    <3>2. CASE i = 1
      BY <1>3, <3>2
    <3>3. CASE i # 1
      <4>1. f[i] = f[i - 1] \o ss[i]
        BY <1>3, <3>1, <3>3
      <4> QED BY <3>3, <4>1
    <3> QED BY <3>2, <3>3
  <2> QED BY <1>3, <2>1
<1>5. Solves(h)
  BY <1>4
<1> HIDE DEF h
<1>6. \A i \in 1..n : h[i] = IF i = 1 THEN ss[i] ELSE h[i - 1] \o ss[i]
  BY <1>5
<1>7. \A i \in 1..n : h[i] = f[i]
  <2> DEFINE T == {k \in Nat : k + 1 \in 1..n => h[k + 1] = f[k + 1]}
  <2>1. 0 \in T
    BY <1>1, <1>3, <1>6
  <2>2. ASSUME NEW k \in T PROVE k + 1 \in T
    <3> SUFFICES ASSUME (k + 1) + 1 \in 1..n PROVE h[(k + 1) + 1] = f[(k + 1) + 1]
      OBVIOUS
    <3>1. k \in Nat /\ k + 1 \in 1..n /\ (k + 1) + 1 \in 2..n /\ ((k + 1) + 1) - 1 = k + 1 /\ (k + 1) + 1 # 1
      BY <1>1
    <3>2. h[k + 1] = f[k + 1]
      BY <3>1
    <3> QED BY <1>3, <1>6, <3>1, <3>2
  <2> HIDE DEF T
  <2>3. T = Nat
    <3>1. T \in SUBSET Nat
      BY DEF T
    <3> QED BY <2>1, <2>2, <3>1, NatSetInduction
  <2>4. ASSUME NEW i \in 1..n PROVE h[i] = f[i]
    <3>1. i - 1 \in T /\ (i - 1) + 1 = i
      BY <1>1, <2>3
    <3> QED BY <3>1 DEF T
  <2> QED BY <2>4
<1>8. FlattenSeq(ss) = h[n]
  <2>1. n # 0
    BY <1>1
  <2> QED BY <2>1 DEF FlattenSeq, h, n
<1>9. FlattenSeq(ss) = f[n] /\ Joining(ss, f)
  <2>1. n \in 1..n
    BY <1>1
  <2>2. FlattenSeq(ss) = f[n]
    BY <1>7, <1>8, <2>1
  <2>3. Joining(ss, f)
    BY <1>3 DEF Joining, n
  <2> QED BY <2>2, <2>3
<1> QED BY <1>3, <1>9 DEF n

\* What FlattenSeq gives is made of the same elements.
LEMMA FlattenType ==
  ASSUME NEW S, NEW ss \in Seq(Seq(S))
  PROVE  FlattenSeq(ss) \in Seq(S)
<1>1. CASE ss = << >>
  <2>1. FlattenSeq(ss) = << >>
    BY <1>1 DEF FlattenSeq
  <2> QED BY <2>1
<1>2. CASE ss # << >>
  <2>1. PICK g \in [1..Len(ss) -> Seq(S)] : FlattenSeq(ss) = g[Len(ss)]
    BY <1>2, Flattened
  <2>2. Len(ss) \in 1..Len(ss)
    BY <1>2, EmptySeq
  <2> QED BY <2>1, <2>2
<1> QED BY <1>1, <1>2

\* One-element sequences, and then a longer one: what is joined.
FlattenedSingles(ss) ==
  [i \in 1..(Len(ss) - 1 + Len(ss[Len(ss)])) |->
     IF i < Len(ss) THEN ss[i][1] ELSE ss[Len(ss)][i - Len(ss) + 1]]

LEMMA FlattenSingles ==
  ASSUME NEW S, NEW ss \in Seq(Seq(S)), ss # << >>,
         \A i \in 1..(Len(ss) - 1) : Len(ss[i]) = 1
  PROVE  FlattenSeq(ss) = FlattenedSingles(ss)
<1> DEFINE n == Len(ss)
<1>1. n \in Nat /\ 1 <= n /\ \A i \in 1..n : ss[i] \in Seq(S)
  BY EmptySeq
<1>2. PICK g \in [1..n -> Seq(S)] : Joining(ss, g) /\ FlattenSeq(ss) = g[n]
  BY Flattened
<1>3. \A i \in 1..(n - 1) : Len(ss[i]) = 1
  OBVIOUS
<1>4. g[1] = ss[1] /\ \A i \in 2..n : g[i] = g[i - 1] \o ss[i]
  BY <1>2 DEF Joining
<1> HIDE DEF n
<1> DEFINE Firsts(i) == Len(g[i]) = i /\ \A k \in 1..i : g[i][k] = ss[k][1]
<1>5. \A i \in 1..(n - 1) : Firsts(i)
  <2> DEFINE T == {j \in Nat : j + 1 \in 1..(n - 1) => Firsts(j + 1)}
  <2>1. 0 \in T
    BY <1>1, <1>3, <1>4
  <2>2. ASSUME NEW j \in T PROVE j + 1 \in T
    <3> SUFFICES ASSUME (j + 1) + 1 \in 1..(n - 1) PROVE Firsts((j + 1) + 1)
      OBVIOUS
    <3> DEFINE i == j + 1
    <3>1. j \in Nat /\ i \in 1..(n - 1) /\ Firsts(i)
      BY <1>1
    <3>2. /\ i + 1 \in 2..n /\ (i + 1) - 1 = i /\ i \in 1..n /\ i + 1 \in 1..n /\ i + 1 \in 1..(n - 1)
      BY <1>1, <3>1
    <3> HIDE DEF i
    <3>3. g[i + 1] = g[i] \o ss[i + 1]
      BY <1>4, <3>2
    <3>4. g[i] \in Seq(S) /\ ss[i + 1] \in Seq(S) /\ Len(g[i]) = i /\ Len(ss[i + 1]) = 1
      BY <1>1, <1>2, <1>3, <3>1, <3>2
    <3>5. Len(g[i + 1]) = i + 1
      <4>1. Len(g[i] \o ss[i + 1]) = Len(g[i]) + Len(ss[i + 1])
        BY ONLY <3>4, ConcatProperties
      <4> QED BY <3>3, <3>4, <4>1
    <3>6. ASSUME NEW k \in 1..(i + 1) PROVE g[i + 1][k] = ss[k][1]
      <4>1. CASE k <= i
        <5>1. g[i + 1][k] = g[i][k]
          BY <3>2, <3>3, <3>4, <4>1, ConcatProperties
        <5> QED BY <3>1, <4>1, <5>1
      <4>2. CASE k = i + 1
        <5>1. g[i + 1][k] = ss[i + 1][k - i]
          BY <3>2, <3>3, <3>4, <4>2, ConcatProperties
        <5> QED BY <3>1, <4>2, <5>1
      <4> QED BY <3>1, <4>1, <4>2
    <3>7. Firsts(i + 1)
      BY <3>5, <3>6
    <3> QED BY <3>7 DEF i
  <2> HIDE DEF T
  <2>3. T = Nat
    <3>1. T \in SUBSET Nat
      BY DEF T
    <3> QED BY <2>1, <2>2, <3>1, NatSetInduction
  <2>4. ASSUME NEW i \in 1..(n - 1) PROVE Firsts(i)
    <3>1. i - 1 \in T /\ (i - 1) + 1 = i
      BY <1>1, <2>3
    <3> QED BY <3>1 DEF T
  <2> QED BY <2>4
<1> DEFINE l == ss[n]
           m == n - 1 + Len(l)
<1>6. l \in Seq(S) /\ Len(l) \in Nat /\ m \in Nat
  BY <1>1
<1>7. CASE n = 1
  <2>1. g[n] = l
    BY <1>4, <1>7
  <2>2. l = [i \in 1..Len(l) |-> IF i < 1 THEN ss[i][1] ELSE l[i - 1 + 1]]
    <3> HIDE DEF l
    <3>1. l = [i \in 1..Len(l) |-> l[i]]
      BY <1>6
    <3>2. \A i \in 1..Len(l) : l[i] = IF i < 1 THEN ss[i][1] ELSE l[i - 1 + 1]
      BY <1>6
    <3> QED BY <3>1, <3>2
  <2>3. n - 1 + Len(l) = Len(l)
    BY <1>6, <1>7
  <2> QED BY <1>2, <1>7, <2>1, <2>2, <2>3 DEF FlattenedSingles, n
<1>8. CASE n > 1
  <2>1. n - 1 \in 1..(n - 1) /\ n - 1 \in 1..n /\ n \in 2..n
    BY <1>1, <1>8
  <2>2. g[n] = g[n - 1] \o l /\ g[n - 1] \in Seq(S) /\ Firsts(n - 1)
    BY <1>2, <1>4, <1>5, <2>1
  <2> DEFINE a == g[n - 1]
  <2>a. /\ a \in Seq(S) /\ l \in Seq(S) /\ Len(a) = n - 1 /\ g[n] = a \o l
        /\ \A i \in 1..(n - 1) : a[i] = ss[i][1]
    BY <1>6, <2>2
  <2> HIDE DEF a, l
  <2>b. /\ a \o l \in Seq(S)
        /\ Len(a \o l) = Len(a) + Len(l)
        /\ \A i \in 1..(Len(a) + Len(l)) : (a \o l)[i] = IF i <= Len(a) THEN a[i] ELSE l[i - Len(a)]
    BY ONLY <2>a, ConcatProperties
  <2>3. g[n] \in Seq(S) /\ Len(g[n]) = m
    BY <2>a, <2>b
  <2>4. ASSUME NEW i \in 1..m
        PROVE  g[n][i] = IF i < n THEN ss[i][1] ELSE l[i - n + 1]
    <3>1. g[n][i] = IF i <= n - 1 THEN a[i] ELSE l[i - (n - 1)]
      BY <2>a, <2>b
    <3>2. CASE i < n
      <4>1. i \in 1..(n - 1) /\ i <= n - 1
        BY <1>1, <3>2
      <4> QED BY <2>a, <3>1, <3>2, <4>1
    <3>3. CASE ~(i < n)
      <4>1. ~(i <= n - 1) /\ i - (n - 1) = i - n + 1
        BY <1>1, <1>6, <3>3
      <4> QED BY <3>1, <3>3, <4>1
    <3> QED BY <3>2, <3>3
  <2>5. g[n] = [i \in 1..m |-> g[n][i]]
    <3> DEFINE t == g[n]
    <3>1. t \in Seq(S) /\ Len(t) = m
      BY <2>3
    <3> HIDE DEF t, m
    <3>2. t = [i \in 1..Len(t) |-> t[i]]
      BY <3>1
    <3> QED BY <3>1, <3>2 DEF t
  <2>6. g[n] = [i \in 1..m |-> IF i < n THEN ss[i][1] ELSE l[i - n + 1]]
    BY <2>4, <2>5
  <2> QED BY <1>2, <2>6 DEF FlattenedSingles, n, l
<1> QED BY <1>1, <1>7, <1>8

-----------------------------------------------------------------------------
(***************************************************************************)
(* The packets of a frame.                                                 *)
(***************************************************************************)
Shape == Seq(Nat)

\* A packet before it has its number.
Piece ==
  [frame : Nat, unit : Nat, part : Nat,
   kind : {"single", "start", "middle", "end", "chunk"}, marker : BOOLEAN]

\* What a packet of frame f says of itself.
OfFrame(p, c, f, shape) ==
  /\ p.frame = f
  /\ p.unit \in 1..Len(shape)
  /\ p.part \in 1..shape[p.unit]
  /\ p.kind = IF c = "h264" THEN FragmentKind(p.part, shape[p.unit]) ELSE "chunk"
  /\ c = "h264" => p.marker = (p.unit = Len(shape) /\ p.part = shape[p.unit])
  /\ c # "h264" /\ shape = << 1 >> => p.marker

Pieces(c, f, shape) == {p \in Piece : OfFrame(p, c, f, shape)}

LEMMA KindIsFragmentKind ==
  ASSUME NEW n \in Nat \ {0}, NEW k \in 1..n
  PROVE  /\ FragmentKind(k, n) \in {"single", "start", "middle", "end"}
         /\ k < n => FragmentKind(k, n) # "end"
<1>1. CASE n = 1
  BY <1>1 DEF FragmentKind
<1>2. CASE n > 1 /\ k = 1
  <2>1. FragmentKind(k, n) = "start"
    BY <1>2 DEF FragmentKind
  <2> QED BY <2>1
<1>3. CASE n > 1 /\ k = n
  <2>1. FragmentKind(k, n) = "end"
    BY <1>3 DEF FragmentKind
  <2> QED BY <2>1, <1>3
<1>4. CASE n > 1 /\ 1 < k /\ k < n
  <2>1. FragmentKind(k, n) = "middle"
    BY <1>4 DEF FragmentKind
  <2> QED BY <2>1
<1> QED BY <1>1, <1>2, <1>3, <1>4

LEMMA UnitsType ==
  ASSUME NEW f \in Nat, NEW shape \in Shape
  PROVE  [u \in DOMAIN shape |-> UnitPackets(f, shape, u)]
           \in Seq(Seq(Pieces("h264", f, shape)))
<1> DEFINE P == Pieces("h264", f, shape)
<1>1. Len(shape) \in Nat /\ DOMAIN shape = 1..Len(shape) /\ \A u \in 1..Len(shape) : shape[u] \in Nat
  BY DEF Shape
<1>2. ASSUME NEW u \in 1..Len(shape)
      PROVE  UnitPackets(f, shape, u) \in Seq(P)
  <2>1. ASSUME NEW k \in 1..shape[u]
        PROVE  [frame |-> f, unit |-> u, part |-> k,
                kind |-> FragmentKind(k, shape[u]),
                marker |-> u = Len(shape) /\ k = shape[u]] \in P
    <3> DEFINE m == (u = Len(shape) /\ k = shape[u])
               kd == FragmentKind(k, shape[u])
               p == [frame |-> f, unit |-> u, part |-> k, kind |-> kd, marker |-> m]
    <3>1. kd \in {"single", "start", "middle", "end"}
      <4>1. shape[u] \in Nat \ {0}
        BY <1>1
      <4> QED BY <4>1, KindIsFragmentKind
    <3>2. m \in BOOLEAN /\ k \in Nat /\ u \in Nat
      BY <1>1
    <3>3. p \in Piece
      <4> HIDE DEF m, kd
      <4> QED BY <1>1, <3>1, <3>2 DEF Piece
    <3>4. OfFrame(p, "h264", f, shape)
      BY DEF OfFrame
    <3> QED BY <3>3, <3>4 DEF Pieces
  <2>2. shape[u] \in Nat
    BY <1>1
  <2> HIDE DEF P
  <2> QED BY <2>1, <2>2 DEF UnitPackets
<1> HIDE DEF P
<1> DEFINE Q == Seq(P)
           g(u) == UnitPackets(f, shape, u)
<1>3. \A u \in 1..Len(shape) : g(u) \in Q
  BY <1>2
<1> HIDE DEF Q, g
<1>4. [u \in DOMAIN shape |-> g(u)] \in Seq(Q)
  BY <1>1, <1>3
<1> QED BY <1>4 DEF g, P, Q

\* A frame of one packet is cut into one.
LEMMA OnePacket ==
  ASSUME NEW f \in Nat
  PROVE  Len(FlattenSeq([u \in DOMAIN << 1 >> |-> UnitPackets(f, << 1 >>, u)])) = 1
<1> DEFINE shape == << 1 >>
           ss == [u \in DOMAIN shape |-> UnitPackets(f, shape, u)]
           P == Pieces("h264", f, shape)
<1>1. shape \in Shape /\ Len(shape) = 1 /\ DOMAIN shape = 1..1 /\ shape[1] = 1
  BY DEF Shape
<1>2. ss \in Seq(Seq(P))
  BY <1>1, UnitsType
<1>3. Len(ss) = 1 /\ ss[1] = UnitPackets(f, shape, 1)
  BY <1>1
<1>4. Len(ss[1]) = 1
  <2>1. DOMAIN ss[1] = 1..1
    BY <1>1, <1>3 DEF UnitPackets
  <2>2. ss[1] \in Seq(P)
    BY <1>2, <1>3
  <2> DEFINE x == ss[1]
  <2>3. DOMAIN x = 1..1
    BY <2>1
  <2>4. x \in Seq(P)
    BY <2>2
  <2> HIDE DEF shape, ss, P, x
  <2>5. Len(x) \in Nat /\ DOMAIN x = 1..Len(x)
    BY <2>4, LenProperties
  <2>6. 1 \in DOMAIN x
    BY <2>3
  <2>7. Len(x) \in DOMAIN x
    BY <2>5, <2>6
  <2> QED BY <2>3, <2>5, <2>6, <2>7 DEF x
<1> HIDE DEF shape, ss, P
<1>5. ss # << >> /\ \A i \in 1..(Len(ss) - 1) : Len(ss[i]) = 1
  <2>1. Len(ss) = 1
    BY <1>3
  <2>2. ss # << >>
    <3>1. Len(<< >>) # 1
      OBVIOUS
    <3> QED BY <2>1, <3>1
  <2>3. 1..(Len(ss) - 1) = {}
    BY ONLY <2>1
  <2> QED BY <2>2, <2>3
<1>6. FlattenSeq(ss) = FlattenedSingles(ss)
  BY <1>2, <1>5, FlattenSingles
<1>7. Len(FlattenedSingles(ss)) = 1
  BY <1>2, <1>3, <1>4 DEF FlattenedSingles
<1> QED BY <1>6, <1>7 DEF ss, shape

\* The packetiser makes packets of the frame it was given.
LEMMA FramePacketsType ==
  ASSUME NEW f \in Nat, NEW shape \in Shape
  PROVE  FramePackets(f, shape) \in Seq(Pieces(codec, f, shape))
<1> DEFINE packets == FlattenSeq([u \in DOMAIN shape |-> UnitPackets(f, shape, u)])
           P == Pieces("h264", f, shape)
<1>1. packets \in Seq(P)
  <2> DEFINE ss == [u \in DOMAIN shape |-> UnitPackets(f, shape, u)]
  <2>1. ss \in Seq(Seq(P))
    BY UnitsType
  <2> HIDE DEF ss, P
  <2>2. FlattenSeq(ss) \in Seq(P)
    BY <2>1, FlattenType
  <2> QED BY <2>2 DEF ss
<1>2. FramePackets(f, shape) =
        IF codec = "h264" THEN packets
        ELSE [i \in DOMAIN packets |-> Chunk(packets[i], i = Len(packets))]
  BY DEF FramePackets
<1>3. shape = << 1 >> => Len(packets) = 1
  BY OnePacket
<1> HIDE DEF packets
<1>4. CASE codec = "h264"
  BY <1>1, <1>2, <1>4
<1>5. CASE codec # "h264"
  <2>1. ASSUME NEW p \in P, NEW last \in BOOLEAN, shape = << 1 >> => last
        PROVE  Chunk(p, last) \in Pieces(codec, f, shape)
    <3>1. p \in Piece /\ OfFrame(p, "h264", f, shape)
      BY DEF Pieces
    <3> DEFINE q == Chunk(p, last)
    <3>2. /\ q \in Piece /\ q.kind = "chunk"
          /\ q.frame = p.frame /\ q.unit = p.unit /\ q.part = p.part /\ q.marker = last
      BY <3>1 DEF Chunk, Piece
    <3> HIDE DEF q
    <3>3. OfFrame(q, codec, f, shape)
      BY <1>5, <2>1, <3>1, <3>2 DEF OfFrame
    <3> QED BY <3>2, <3>3 DEF Pieces, q
  <2> HIDE DEF P
  <2>2. packets \in Seq(P) /\ Len(packets) \in Nat /\ DOMAIN packets = 1..Len(packets)
    BY <1>1
  <2>3. ASSUME NEW i \in 1..Len(packets)
        PROVE  Chunk(packets[i], i = Len(packets)) \in Pieces(codec, f, shape)
    <3> DEFINE last == (i = Len(packets))
    <3>1. packets[i] \in P /\ last \in BOOLEAN
      BY <2>2
    <3>2. shape = << 1 >> => last
      BY <1>3, <2>2
    <3> HIDE DEF last
    <3>3. Chunk(packets[i], last) \in Pieces(codec, f, shape)
      BY <2>1, <3>1, <3>2
    <3> QED BY <3>3 DEF last
  <2> DEFINE R == Pieces(codec, f, shape)
             d(i) == Chunk(packets[i], i = Len(packets))
  <2>4. \A i \in 1..Len(packets) : d(i) \in R
    BY <2>3
  <2> HIDE DEF R, d
  <2>5. [i \in DOMAIN packets |-> d(i)] \in Seq(R)
    BY <2>2, <2>4
  <2> QED BY <1>2, <1>5, <2>5 DEF R, d
<1> QED BY <1>4, <1>5

\* The parts of a frame of which only the last unit may have more than one.
SimpleShape(shape) ==
  \A u \in DOMAIN shape : IF u < Len(shape) THEN shape[u] = 1 ELSE shape[u] > 0

PartCount(shape) == Len(shape) - 1 + shape[Len(shape)]

PartAt(f, shape, i) ==
  IF i < Len(shape)
  THEN [frame |-> f, unit |-> i, part |-> 1]
  ELSE [frame |-> f, unit |-> Len(shape), part |-> i - Len(shape) + 1]

LEMMA WholeFrameIs ==
  ASSUME NEW f \in DOMAIN frames, f \in Nat, frames[f] \in Shape, SimpleShape(frames[f])
  PROVE  /\ frames[f] = << >> => WholeFrame(f).data = << >>
         /\ frames[f] # << >> =>
              WholeFrame(f).data = [i \in 1..PartCount(frames[f]) |-> PartAt(f, frames[f], i)]
<1> DEFINE shape == frames[f]
           unit(u) == [k \in 1..shape[u] |-> [frame |-> f, unit |-> u, part |-> k]]
           ss == [u \in DOMAIN shape |-> unit(u)]
<1>1. WholeFrame(f).data = FlattenSeq(ss)
  BY DEF WholeFrame
<1>2. shape \in Shape /\ SimpleShape(shape)
  OBVIOUS
<1> HIDE DEF shape
<1>3. Len(shape) \in Nat /\ DOMAIN shape = 1..Len(shape) /\ \A u \in 1..Len(shape) : shape[u] \in Nat \ {0}
  BY <1>2 DEF Shape, SimpleShape
<1>4. \A u \in 1..Len(shape) : unit(u) \in Seq(Part) /\ Len(unit(u)) = shape[u]
  <2> TAKE u \in 1..Len(shape)
  <2>1. shape[u] \in Nat
    BY <1>3
  <2>2. \A k \in 1..shape[u] : [frame |-> f, unit |-> u, part |-> k] \in Part
    BY <1>3, <2>1 DEF Part
  <2> QED BY <2>1, <2>2
<1> HIDE DEF unit
<1>5. ss \in Seq(Seq(Part)) /\ Len(ss) = Len(shape) /\ \A u \in 1..Len(shape) : ss[u] = unit(u)
  BY <1>3, <1>4
<1>6. CASE shape = << >>
  <2>1. ss = << >>
    BY <1>3, <1>5, <1>6
  <2>2. FlattenSeq(ss) = << >>
    BY <2>1 DEF FlattenSeq
  <2> QED BY <1>1, <1>6, <2>2 DEF shape
<1>7. CASE shape # << >>
  <2>1. 1 <= Len(shape) /\ Len(shape) \in 1..Len(shape)
    BY <1>3, <1>7, <1>2 DEF Shape
  <2>2. ss # << >> /\ \A i \in 1..(Len(ss) - 1) : Len(ss[i]) = 1
    <3>1. ss # << >>
      BY <1>5, <2>1
    <3>2. ASSUME NEW i \in 1..(Len(ss) - 1) PROVE Len(ss[i]) = 1
      <4>1. i \in 1..Len(shape) /\ i < Len(shape)
        BY <1>3, <1>5
      <4> QED BY <1>2, <1>3, <1>4, <1>5, <4>1 DEF SimpleShape
    <3> QED BY <3>1, <3>2
  <2> HIDE DEF ss
  <2>3. FlattenSeq(ss) = FlattenedSingles(ss)
    BY <1>5, <2>2, FlattenSingles
  <2>4. FlattenedSingles(ss) =
          [i \in 1..PartCount(shape) |->
             IF i < Len(shape) THEN unit(i)[1] ELSE unit(Len(shape))[i - Len(shape) + 1]]
    <3>1. Len(ss[Len(ss)]) = shape[Len(shape)] /\ ss[Len(ss)] = unit(Len(shape))
      BY <1>4, <1>5, <2>1
    <3>2. Len(ss) - 1 + Len(ss[Len(ss)]) = PartCount(shape)
      BY <1>5, <3>1 DEF PartCount
    <3>3. \A i \in 1..PartCount(shape) : i < Len(shape) => ss[i] = unit(i)
      BY <1>3, <1>5, <2>1 DEF PartCount
    <3> QED BY <1>5, <3>1, <3>2, <3>3 DEF FlattenedSingles
  <2>5. ASSUME NEW i \in 1..PartCount(shape)
        PROVE  (IF i < Len(shape) THEN unit(i)[1] ELSE unit(Len(shape))[i - Len(shape) + 1])
                 = PartAt(f, shape, i)
    <3>1. PartCount(shape) \in Nat
      BY <1>3, <2>1 DEF PartCount
    <3>2. CASE i < Len(shape)
      <4>1. 1 \in 1..shape[i]
        BY <1>3, <3>1, <3>2
      <4>2. unit(i)[1] = [frame |-> f, unit |-> i, part |-> 1]
        BY <4>1 DEF unit
      <4> QED BY <3>2, <4>2 DEF PartAt
    <3>3. CASE ~(i < Len(shape))
      <4>1. i - Len(shape) + 1 \in 1..shape[Len(shape)]
        BY <1>3, <2>1, <3>1, <3>3 DEF PartCount
      <4>2. unit(Len(shape))[i - Len(shape) + 1]
              = [frame |-> f, unit |-> Len(shape), part |-> i - Len(shape) + 1]
        BY <4>1 DEF unit
      <4> QED BY <3>3, <4>2 DEF PartAt
    <3> QED BY <3>2, <3>3
  <2>6. FlattenSeq(ss) = [i \in 1..PartCount(shape) |-> PartAt(f, shape, i)]
    BY <2>3, <2>4, <2>5
  <2> QED BY <1>1, <1>7, <2>6 DEF shape, ss, unit
<1> QED BY <1>6, <1>7 DEF shape

-----------------------------------------------------------------------------
\* The packet is one of a frame that has been given to the packetiser.
OfKnownFrame(p, c, fs) ==
  p.frame \in DOMAIN fs /\ OfFrame(p, c, p.frame, fs[p.frame])

SenderTyped ==
  /\ codec \in Codecs
  /\ frames \in Seq(Shapes)
  /\ sequence \in 0..(SeqSpace - 1)
  /\ nextSequence \in 0..(SeqSpace - 1)
  /\ IF frames = << >>
     THEN unsent = << >>
     ELSE unsent \in Seq(Pieces(codec, Len(frames), frames[Len(frames)]))
  /\ sent \in Seq(Packet)
  /\ \A i \in DOMAIN sent : OfKnownFrame(sent[i], codec, frames)

Reassembly == [active : BOOLEAN, timestamp : Nat, data : Seq(Part)]

Frame == [timestamp : Nat, data : Seq(Part)]

\* An inactive buffer is empty; what is in an active one has arrived.
ReceiverTyped ==
  /\ arrived \in Seq(Packet)
  /\ \A i \in DOMAIN arrived :
       arrived[i].frame # 0 => OfKnownFrame(arrived[i], codec, frames)
  /\ reassembly \in Reassembly
  /\ reassembly.active <=> reassembly.data # << >>
  /\ reassembly.active => \E i \in DOMAIN arrived : arrived[i].frame = reassembly.timestamp
  /\ codec # "h264" => reassembly = Idle
  /\ delivered \in Seq(Frame)

TypeInv == SenderTyped /\ ReceiverTyped

LEMMA KnownFrameStays ==
  ASSUME NEW fs \in Seq(Shapes), NEW shape \in Shapes, NEW c, NEW p, OfKnownFrame(p, c, fs)
  PROVE  OfKnownFrame(p, c, Append(fs, shape))
<1> DEFINE gs == Append(fs, shape)
<1>1. DOMAIN fs \subseteq DOMAIN gs /\ \A i \in DOMAIN fs : gs[i] = fs[i]
  BY AppendProperties
<1> HIDE DEF gs
<1> QED BY <1>1 DEF OfKnownFrame, gs

LEMMA ShapesTyped == Shapes \subseteq Shape
BY MediaAssumption DEF Shape

LEMMA IdleTyped == Idle \in Reassembly /\ ~Idle.active /\ Idle.data = << >> /\ Idle.timestamp = 0
<1>1. << >> \in Seq(Part)
  OBVIOUS
<1> QED BY <1>1 DEF Idle, Reassembly

LEMMA InitTyped == Init => TypeInv
<1> SUFFICES ASSUME Init PROVE TypeInv
  OBVIOUS
<1> USE DEF Init
<1>1. 0 \in 0..(SeqSpace - 1)
  BY MediaAssumption
<1>2. SenderTyped
  BY <1>1 DEF SenderTyped
<1>3. ReceiverTyped
  <2>1. arrived = << >> /\ delivered = << >> /\ reassembly = Idle
    OBVIOUS
  <2>2. /\ arrived \in Seq(Packet) /\ delivered \in Seq(Frame)
        /\ \A i \in DOMAIN arrived : arrived[i].frame # 0 => OfKnownFrame(arrived[i], codec, frames)
    BY <2>1
  <2> QED BY <2>1, <2>2, IdleTyped DEF ReceiverTyped
<1> QED BY <1>2, <1>3 DEF TypeInv

LEMMA SendFrameTyped ==
  ASSUME TypeInv, SendFrame
  PROVE  TypeInv'
<1>1. PICK shape \in Shapes :
        /\ frames' = Append(frames, shape)
        /\ unsent' = FramePackets(Len(frames) + 1, shape)
  BY DEF SendFrame
<1>2. /\ sequence' = nextSequence /\ nextSequence' = nextSequence /\ codec' = codec
      /\ sent' = sent /\ arrived' = arrived /\ reassembly' = reassembly /\ delivered' = delivered
  BY DEF SendFrame, receiver
<1>3. frames \in Seq(Shapes) /\ shape \in Shape
  BY ShapesTyped DEF TypeInv, SenderTyped
<1>4. /\ frames' \in Seq(Shapes) /\ Len(frames') = Len(frames) + 1 /\ Len(frames) \in Nat
      /\ frames'[Len(frames')] = shape /\ frames' # << >>
  <2>1. Append(frames, shape) \in Seq(Shapes) /\ Len(Append(frames, shape)) = Len(frames) + 1
    BY <1>3
  <2>2. Append(frames, shape)[Len(frames) + 1] = shape /\ Len(frames) \in Nat
    BY <1>3
  <2>3. Append(frames, shape) # << >>
    BY <2>1, <2>2
  <2> QED BY <1>1, <2>1, <2>2, <2>3
<1>5. unsent' \in Seq(Pieces(codec, Len(frames) + 1, shape))
  BY <1>1, <1>3, <1>4, FramePacketsType
<1>6. \A p : OfKnownFrame(p, codec, frames) => OfKnownFrame(p, codec', frames')
  BY <1>1, <1>2, <1>3, KnownFrameStays
<1>7. SenderTyped'
  BY <1>2, <1>4, <1>5, <1>6 DEF TypeInv, SenderTyped
<1>8. ReceiverTyped'
  BY <1>2, <1>6 DEF TypeInv, ReceiverTyped
<1> QED BY <1>7, <1>8 DEF TypeInv

\* What is left of the frame after its next packet.
LEMMA UnsentTail ==
  ASSUME TypeInv, unsent # << >>
  PROVE  /\ frames # << >>
         /\ Head(unsent) \in Pieces(codec, Len(frames), frames[Len(frames)])
         /\ Tail(unsent) \in Seq(Pieces(codec, Len(frames), frames[Len(frames)]))
         /\ Len(Tail(unsent)) = Len(unsent) - 1 /\ Len(unsent) \in Nat \ {0}
<1> DEFINE P == Pieces(codec, Len(frames), frames[Len(frames)])
<1>1. frames # << >> /\ unsent \in Seq(P)
  BY DEF TypeInv, SenderTyped
<1> HIDE DEF P
<1>2. /\ Head(unsent) \in P /\ Tail(unsent) \in Seq(P) /\ Len(Tail(unsent)) = Len(unsent) - 1
      /\ Len(unsent) \in Nat \ {0}
  BY <1>1, EmptySeq, HeadTailProperties
<1> QED BY <1>1, <1>2 DEF P

LEMMA ReceiverStays ==
  ASSUME ReceiverTyped, codec' = codec, frames' = frames, UNCHANGED receiver
  PROVE  ReceiverTyped'
BY DEF ReceiverTyped, receiver

LEMMA NextInSpace ==
  ASSUME TypeInv
  PROVE  (sequence + 1) % SeqSpace \in 0..(SeqSpace - 1)
BY MediaAssumption, Division DEF TypeInv, SenderTyped

\* The packet on the wire is the piece, with a number.
LEMMA NumberedTyped ==
  ASSUME TypeInv, NEW f, NEW shape, NEW p \in Pieces(codec, f, shape)
  PROVE  /\ Numbered(p) \in Packet
         /\ OfFrame(Numbered(p), codec, f, shape)
         /\ Numbered(p).frame = f /\ Numbered(p).sequence = sequence
<1>1. p \in Piece /\ OfFrame(p, codec, f, shape)
  BY DEF Pieces
<1>2. sequence \in 0..(SeqSpace - 1)
  BY DEF TypeInv, SenderTyped
<1>3. Numbered(p) \in Packet
  BY <1>1, <1>2 DEF Numbered, Piece, Packet
<1> DEFINE q == Numbered(p)
<1>4. /\ q.frame = p.frame /\ q.unit = p.unit /\ q.part = p.part
      /\ q.kind = p.kind /\ q.marker = p.marker /\ q.sequence = sequence
  BY DEF Numbered
<1> HIDE DEF q
<1>5. OfFrame(q, codec, f, shape) /\ q.frame = f
  BY <1>1, <1>4 DEF OfFrame
<1> QED BY <1>3, <1>4, <1>5 DEF q

LEMMA SendPacketTyped ==
  ASSUME TypeInv, SendPacket
  PROVE  TypeInv'
<1> DEFINE L == Len(frames)
           P == Pieces(codec, L, frames[L])
           q == Numbered(Head(unsent))
<1>1. /\ unsent # << >> /\ sent' = Append(sent, q) /\ unsent' = Tail(unsent)
      /\ sequence' = (sequence + 1) % SeqSpace /\ nextSequence' = (sequence + 1) % SeqSpace
      /\ codec' = codec /\ frames' = frames /\ UNCHANGED receiver
  BY DEF SendPacket
<1>2. frames # << >> /\ unsent' \in Seq(P)
  BY <1>1, UnsentTail
<1>3. q \in Packet /\ OfFrame(q, codec, L, frames[L]) /\ q.frame = L
  BY <1>1, UnsentTail, NumberedTyped
<1>4. L \in DOMAIN frames
  BY <1>2, EmptySeq DEF TypeInv, SenderTyped
<1>5. OfKnownFrame(q, codec, frames)
  BY <1>3, <1>4 DEF OfKnownFrame
<1> HIDE DEF q, P, L
<1>6. sent \in Seq(Packet) /\ \A i \in DOMAIN sent : OfKnownFrame(sent[i], codec, frames)
  BY DEF TypeInv, SenderTyped
<1>7. sent' \in Seq(Packet)
  BY <1>1, <1>3, <1>6
<1>8. \A i \in DOMAIN sent' : OfKnownFrame(sent'[i], codec, frames)
  <2>1. \A i \in DOMAIN Append(sent, q) :
          Append(sent, q)[i] = q \/ (i \in DOMAIN sent /\ Append(sent, q)[i] = sent[i])
    BY <1>3, <1>6, AppendProperties
  <2> QED BY <1>1, <1>5, <1>6, <2>1
<1>9. SenderTyped'
  BY <1>1, <1>2, <1>7, <1>8, NextInSpace DEF TypeInv, SenderTyped, P, L
<1>10. ReceiverTyped'
  BY <1>1, ReceiverStays DEF TypeInv
<1> QED BY <1>9, <1>10 DEF TypeInv

LEMMA SendFailsTyped ==
  ASSUME TypeInv, SendFails
  PROVE  TypeInv'
<1>1. /\ unsent # << >> /\ unsent' = Tail(unsent)
      /\ sequence' = (sequence + 1) % SeqSpace
      /\ codec' = codec /\ frames' = frames /\ nextSequence' = nextSequence /\ sent' = sent
      /\ UNCHANGED receiver
  BY DEF SendFails
<1>2. SenderTyped'
  BY <1>1, UnsentTail, NextInSpace DEF TypeInv, SenderTyped
<1>3. ReceiverTyped'
  BY <1>1, ReceiverStays DEF TypeInv
<1> QED BY <1>2, <1>3 DEF TypeInv

\* What is left of the frame without the unit there was no memory for.
LEMMA UnitLeft ==
  ASSUME TypeInv, UnitFails
  PROVE  /\ frames # << >>
         /\ unsent' \in Seq(Pieces(codec, Len(frames), frames[Len(frames)]))
         /\ Len(unsent') <= Len(unsent) /\ Len(unsent') \in Nat /\ Len(unsent) \in Nat
<1> DEFINE L == Len(frames)
           P == Pieces(codec, L, frames[L])
           n == Last(frames)[Head(unsent).unit]
<1>1. unsent' = SubSeq(unsent, n + 1, Len(unsent)) /\ unsent # << >>
  BY DEF UnitFails, Behind
<1>2. frames # << >> /\ Head(unsent) \in P /\ unsent \in Seq(P)
  BY <1>1, UnsentTail DEF TypeInv, SenderTyped
<1>3. n \in Nat
  <2>1. L \in Nat \ {0} /\ frames[L] \in Shapes /\ Last(frames) = frames[L]
    BY <1>2, EmptySeq DEF TypeInv, SenderTyped, Last
  <2>2. frames[L] \in Shape
    BY <2>1, ShapesTyped
  <2>3. Head(unsent).unit \in 1..Len(frames[L])
    BY <1>2 DEF Pieces, OfFrame
  <2> QED BY <2>1, <2>2, <2>3 DEF Shape
<1> HIDE DEF P, n, L
<1>4. /\ SubSeq(unsent, n + 1, Len(unsent)) \in Seq(P)
      /\ Len(SubSeq(unsent, n + 1, Len(unsent))) <= Len(unsent)
      /\ Len(unsent) \in Nat
  BY <1>2, <1>3
<1> QED BY <1>1, <1>2, <1>4 DEF P, L

LEMMA UnitFailsTyped ==
  ASSUME TypeInv, UnitFails
  PROVE  TypeInv'
<1>1. /\ sequence' = sequence /\ codec' = codec /\ frames' = frames
      /\ nextSequence' = nextSequence /\ sent' = sent
      /\ UNCHANGED receiver
  BY DEF UnitFails
<1>2. SenderTyped'
  BY <1>1, UnitLeft DEF TypeInv, SenderTyped
<1>3. ReceiverTyped'
  BY <1>1, ReceiverStays DEF TypeInv
<1> QED BY <1>2, <1>3 DEF TypeInv

\* The reassembly buffer with one more part.
LEMMA JoinedTyped ==
  ASSUME TypeInv, NEW p \in Packet
  PROVE  /\ Joined(reassembly, p) \in Reassembly
         /\ Joined(reassembly, p).active /\ Joined(reassembly, p).data # << >>
         /\ Joined(reassembly, p).timestamp \in {p.frame, reassembly.timestamp}
         /\ Joined(reassembly, p).timestamp # p.frame => reassembly.active
         /\ PartOf(p) \in Part /\ Joined(reassembly, p).data \in Seq(Part)
<1> DEFINE r == reassembly
           s == IF r.active /\ r.timestamp # p.frame /\ r.data # << >> THEN Idle ELSE r
           e == PartOf(p)
           j == Joined(r, p)
<1>1. e \in Part /\ p.frame \in Nat
  BY DEF PartOf, Packet, Part
<1>2. /\ s \in Reassembly /\ r \in Reassembly
      /\ s.active => s.timestamp = r.timestamp /\ r.active
  BY IdleTyped DEF TypeInv, ReceiverTyped
<1>3. j = [active |-> TRUE, timestamp |-> IF s.active THEN s.timestamp ELSE p.frame, data |-> Append(s.data, e)]
  BY DEF Joined
<1> HIDE DEF r, s, e, j
<1>4. s.data \in Seq(Part) /\ s.timestamp \in Nat /\ s.active \in BOOLEAN
  BY <1>2 DEF Reassembly
<1>5. Append(s.data, e) \in Seq(Part) /\ Append(s.data, e) # << >>
  BY <1>1, <1>4
<1> DEFINE d == Append(s.data, e)
           t == IF s.active THEN s.timestamp ELSE p.frame
<1>6. d \in Seq(Part) /\ d # << >> /\ t \in Nat /\ t \in {p.frame, r.timestamp} /\ (t # p.frame => r.active)
  BY <1>1, <1>2, <1>4, <1>5
<1>7. j = [active |-> TRUE, timestamp |-> t, data |-> d]
  BY <1>3
<1> HIDE DEF d, t
<1>8. j \in Reassembly /\ j.active /\ j.data = d /\ j.timestamp = t
  BY <1>6, <1>7 DEF Reassembly
<1> QED BY <1>1, <1>6, <1>8 DEF r, e, j

LEMMA ReceiveTyped ==
  ASSUME TypeInv, Receive
  PROVE  TypeInv'
<1>1. PICK i \in DOMAIN sent :
        /\ arrived' = Append(arrived, sent[i])
        /\ reassembly' = Reassembled(sent[i])
        /\ delivered' =
             IF Completes(sent[i])
             THEN Append(delivered, [timestamp |-> sent[i].frame, data |-> DeliveredData(sent[i])])
             ELSE delivered
  BY DEF Receive
<1>2. /\ codec' = codec /\ frames' = frames /\ unsent' = unsent /\ sequence' = sequence
      /\ nextSequence' = nextSequence /\ sent' = sent
  BY DEF Receive, sender
<1> DEFINE p == sent[i]
<1>3. p \in Packet /\ OfKnownFrame(p, codec, frames)
  BY DEF TypeInv, SenderTyped
<1>4. /\ arrived' = Append(arrived, p) /\ reassembly' = Reassembled(p)
      /\ delivered' = IF Completes(p)
                      THEN Append(delivered, [timestamp |-> p.frame, data |-> DeliveredData(p)])
                      ELSE delivered
  BY <1>1
<1> HIDE DEF p
<1>5. SenderTyped'
  BY <1>2 DEF TypeInv, SenderTyped
<1>6. /\ arrived \in Seq(Packet) /\ arrived' \in Seq(Packet)
      /\ \A k \in DOMAIN arrived : k \in DOMAIN arrived' /\ arrived'[k] = arrived[k]
      /\ \A k \in DOMAIN arrived' : arrived'[k] = p \/ (k \in DOMAIN arrived /\ arrived'[k] = arrived[k])
      /\ \E k \in DOMAIN arrived' : arrived'[k] = p
  <2>1. arrived \in Seq(Packet)
    BY DEF TypeInv, ReceiverTyped
  <2> DEFINE a == Append(arrived, p)
  <2>2. /\ a \in Seq(Packet) /\ Len(a) = Len(arrived) + 1 /\ Len(arrived) \in Nat
        /\ a[Len(arrived) + 1] = p /\ \A k \in 1..Len(arrived) : a[k] = arrived[k]
    BY <1>3, <2>1, AppendProperties
  <2>3. DOMAIN a = 1..Len(a) /\ DOMAIN arrived = 1..Len(arrived)
    BY <2>1, <2>2
  <2> HIDE DEF a
  <2>4. Len(arrived) + 1 \in DOMAIN a
    BY <2>2, <2>3
  <2> QED BY <1>4, <2>1, <2>2, <2>3, <2>4 DEF a
<1>7. \A k \in DOMAIN arrived' : arrived'[k].frame # 0 => OfKnownFrame(arrived'[k], codec', frames')
  BY <1>2, <1>3, <1>6 DEF TypeInv, ReceiverTyped
<1> DEFINE J == Joined(reassembly, p)
<1>8. /\ J \in Reassembly /\ J.active /\ J.data # << >>
      /\ J.timestamp \in {p.frame, reassembly.timestamp}
      /\ J.timestamp # p.frame => reassembly.active
      /\ PartOf(p) \in Part /\ J.data \in Seq(Part)
  BY <1>3, JoinedTyped
<1>9. reassembly' = IF codec # "h264" THEN reassembly ELSE IF Completes(p) THEN Idle ELSE J
  BY <1>4 DEF Reassembled
<1>10. DeliveredData(p) = IF codec = "h264" THEN J.data ELSE <<PartOf(p)>>
  BY DEF DeliveredData
<1> HIDE DEF J
<1>11. /\ reassembly' \in Reassembly
       /\ reassembly'.active <=> reassembly'.data # << >>
       /\ codec # "h264" => reassembly' = Idle
  BY <1>8, <1>9, IdleTyped DEF TypeInv, ReceiverTyped
<1>12. reassembly'.active => \E k \in DOMAIN arrived' : arrived'[k].frame = reassembly'.timestamp
  <2>1. CASE reassembly' = J
    <3>1. CASE J.timestamp = p.frame
      BY <1>6, <2>1, <3>1
    <3>2. CASE J.timestamp # p.frame
      <4>1. reassembly.active /\ J.timestamp = reassembly.timestamp
        BY <1>8, <3>2
      <4>2. PICK k \in DOMAIN arrived : arrived[k].frame = reassembly.timestamp
        BY <4>1 DEF TypeInv, ReceiverTyped
      <4>3. k \in DOMAIN arrived' /\ arrived'[k].frame = reassembly'.timestamp
        BY <1>6, <2>1, <4>1, <4>2
      <4> QED BY <4>3
    <3> QED BY <3>1, <3>2
  <2>2. CASE reassembly' # J
    <3>1. reassembly' = Idle
      BY <1>9, <2>2 DEF TypeInv, ReceiverTyped
    <3> QED BY <3>1, IdleTyped
  <2> QED BY <2>1, <2>2
<1>13. delivered' \in Seq(Frame)
  <2>1. delivered \in Seq(Frame)
    BY DEF TypeInv, ReceiverTyped
  <2>2. DeliveredData(p) \in Seq(Part)
    BY <1>8, <1>10
  <2>3. [timestamp |-> p.frame, data |-> DeliveredData(p)] \in Frame
    BY <1>3, <2>2 DEF Frame, Packet
  <2> QED BY <1>4, <2>1, <2>3
<1>14. ReceiverTyped'
  BY <1>2, <1>6, <1>7, <1>11, <1>12, <1>13 DEF ReceiverTyped
<1> QED BY <1>5, <1>14 DEF TypeInv

LEMMA ReceiveFailsTyped ==
  ASSUME TypeInv, ReceiveFails
  PROVE  TypeInv'
<1>1. /\ arrived' = Append(arrived, Unusable) /\ reassembly' = Idle /\ delivered' = delivered
      /\ codec' = codec /\ frames' = frames /\ unsent' = unsent /\ sequence' = sequence
      /\ nextSequence' = nextSequence /\ sent' = sent
  BY DEF ReceiveFails, sender
<1>2. Unusable \in Packet /\ Unusable.frame = 0
  BY MediaAssumption DEF Unusable, Packet
<1>3. /\ arrived' \in Seq(Packet)
      /\ \A i \in DOMAIN arrived' :
           arrived'[i] = Unusable \/ (i \in DOMAIN arrived /\ arrived'[i] = arrived[i])
  <2>1. arrived \in Seq(Packet)
    BY DEF TypeInv, ReceiverTyped
  <2> QED BY <1>1, <1>2, <2>1, AppendProperties
<1>4. SenderTyped'
  BY <1>1 DEF TypeInv, SenderTyped
<1>5. ReceiverTyped'
  BY <1>1, <1>2, <1>3, IdleTyped DEF TypeInv, ReceiverTyped
<1> QED BY <1>4, <1>5 DEF TypeInv

LEMMA NextTyped == TypeInv /\ [Next]_vars => TypeInv'
<1> SUFFICES ASSUME TypeInv, [Next]_vars PROVE TypeInv'
  OBVIOUS
<1>1. CASE SendFrame
  BY <1>1, SendFrameTyped
<1>2. CASE SendPacket
  BY <1>2, SendPacketTyped
<1>3. CASE SendFails
  BY <1>3, SendFailsTyped
<1>4. CASE Receive
  BY <1>4, ReceiveTyped
<1>5. CASE ReceiveFails
  BY <1>5, ReceiveFailsTyped
<1>6. CASE UnitFails
  BY <1>6, UnitFailsTyped
<1>7. CASE UNCHANGED vars
  BY <1>7 DEF vars, sender, receiver, TypeInv, SenderTyped, ReceiverTyped
<1> QED BY <1>1, <1>2, <1>3, <1>4, <1>5, <1>6, <1>7 DEF Next

\* Every variable has its type, whatever the network does; every number is
\* one of the numbers there are (peer_connection.c:769-846, :890-930,
\* :996-1050).
THEOREM TypeCorrect == Spec => []TypeOK
<1>1. TypeInv => TypeOK
  BY DEF TypeInv, SenderTyped, ReceiverTyped, TypeOK, Reassembly, Frame
<1> QED BY InitTyped, NextTyped, <1>1, PTL DEF Spec

-----------------------------------------------------------------------------
(***************************************************************************)
(* The order of the packets.  Behind the numbers, which wrap, there are    *)
(* positions that only grow: U gives those of the packets sent, su the     *)
(* packetiser's and nu the track's.  No two packets are further apart than *)
(* what the frames from the one to the other have been cut into.           *)
(***************************************************************************)
Cut(c, f, shape) ==
  LET packets == FlattenSeq([k \in DOMAIN shape |-> UnitPackets(f, shape, k)])
  IN  Len(IF c = "h264" THEN packets
          ELSE [i \in DOMAIN packets |-> Chunk(packets[i], i = Len(packets))])

CutInto(u) ==
  /\ u \in [0..Len(frames) -> Nat]
  /\ u[0] = 0
  /\ \A f \in 1..Len(frames) : u[f] = u[f - 1] + Cut(codec, f, frames[f])

Positions(u, U, su, nu) ==
  /\ U \in [1..Len(sent) -> Nat] /\ su \in Nat /\ nu \in Nat /\ nu <= su
  /\ sequence = su % SeqSpace /\ nextSequence = nu % SeqSpace
  /\ frames # << >> => Len(unsent) <= u[Len(frames)] - u[Len(frames) - 1]
  /\ \A i \in 1..Len(sent) :
       /\ sent[i].sequence = U[i] % SeqSpace
       /\ U[i] < nu
       /\ su - U[i] + Len(unsent) <= u[Len(frames)] - u[sent[i].frame - 1]
  /\ \A i, j \in 1..Len(sent) :
       i < j => U[i] < U[j] /\ U[j] - U[i] < u[sent[j].frame] - u[sent[i].frame - 1]

WireInv == \E u, U, su, nu : CutInto(u) /\ Positions(u, U, su, nu)

LEMMA CutIs ==
  ASSUME NEW f, NEW shape
  PROVE  Len(FramePackets(f, shape)) = Cut(codec, f, shape)
BY DEF FramePackets, Cut

LEMMA InitWire == Init => WireInv
<1> SUFFICES ASSUME Init PROVE WireInv
  OBVIOUS
<1> DEFINE u == [f \in 0..0 |-> 0]
           U == [i \in {} |-> 0]
<1>1. frames = << >> /\ sent = << >> /\ sequence = 0 /\ nextSequence = 0
  BY DEF Init
<1>2. CutInto(u)
  BY <1>1 DEF CutInto
<1>3. 0 % SeqSpace = 0
  BY MediaAssumption
<1>4. Positions(u, U, 0, 0)
  BY <1>1, <1>3 DEF Positions
<1> QED BY <1>2, <1>4 DEF WireInv

\* What the next frame is cut into does not change what is known of the others.
LEMMA SendFrameWire ==
  ASSUME TypeInv, WireInv, SendFrame
  PROVE  WireInv'
<1>1. PICK u, U, su, nu : CutInto(u) /\ Positions(u, U, su, nu)
  BY DEF WireInv
<1>2. PICK shape \in Shapes :
        /\ frames' = Append(frames, shape)
        /\ unsent' = FramePackets(Len(frames) + 1, shape)
  BY DEF SendFrame
<1>3. /\ sequence' = nextSequence /\ nextSequence' = nextSequence /\ codec' = codec /\ sent' = sent
      /\ unsent = << >>
  BY DEF SendFrame
<1> DEFINE L == Len(frames)
           cut == Len(unsent')
<1>4. /\ L \in Nat /\ frames \in Seq(Shapes) /\ Len(frames') = L + 1
      /\ \A f \in 1..L : frames'[f] = frames[f]
      /\ frames'[L + 1] = shape
  BY <1>2 DEF TypeInv, SenderTyped
<1>5. cut \in Nat
  <2>1. shape \in Shape
    BY ShapesTyped
  <2>2. unsent' \in Seq(Pieces(codec, L + 1, shape))
    BY <1>2, <1>4, <2>1, FramePacketsType
  <2> QED BY <2>2
<1>6. u \in [0..L -> Nat] /\ u[0] = 0 /\ \A f \in 1..L : u[f] = u[f - 1] + Cut(codec, f, frames[f])
  BY <1>1 DEF CutInto
<1>7. Cut(codec, L + 1, shape) = cut
  BY <1>2, CutIs
<1>8. \A i \in 1..Len(sent) : sent[i].frame \in 1..L
  <2>1. DOMAIN sent = 1..Len(sent) /\ DOMAIN frames = 1..L
    BY <1>4 DEF TypeInv, SenderTyped
  <2> QED BY <2>1 DEF TypeInv, SenderTyped, OfKnownFrame
<1> HIDE DEF L, cut
<1>9. PICK v \in [0..(L + 1) -> Nat] : v[L + 1] = u[L] + cut /\ \A f \in 0..L : v[f] = u[f]
  <2> DEFINE w == [f \in 0..(L + 1) |-> IF f = L + 1 THEN u[L] + cut ELSE u[f]]
  <2>1. w \in [0..(L + 1) -> Nat] /\ w[L + 1] = u[L] + cut /\ \A f \in 0..L : w[f] = u[f]
    BY <1>4, <1>5, <1>6
  <2> QED BY <2>1
<1>10. CutInto(v)'
  <2>1. ASSUME NEW f \in 1..(L + 1)
        PROVE  v[f] = v[f - 1] + Cut(codec', f, frames'[f])
    <3>2. CASE f = L + 1
      <4>1. v[f - 1] = u[L]
        BY <1>4, <1>9, <3>2
      <4> QED BY <1>3, <1>4, <1>7, <1>9, <3>2, <4>1
    <3>3. CASE f # L + 1
      <4>1. f \in 1..L /\ f \in 0..L /\ f - 1 \in 0..L
        BY <1>4, <3>3
      <4> QED BY <1>3, <1>4, <1>6, <1>9, <4>1
    <3> QED BY <3>2, <3>3
  <2>2. v[0] = 0
    BY <1>4, <1>6, <1>9
  <2> QED BY <1>4, <1>9, <2>1, <2>2 DEF CutInto
<1>11. Positions(v, U, nu, nu)'
  <2>0. /\ U \in [1..Len(sent) -> Nat] /\ su \in Nat /\ nu \in Nat /\ nu <= su
        /\ nextSequence = nu % SeqSpace
        /\ \A i \in 1..Len(sent) :
             /\ sent[i].sequence = U[i] % SeqSpace
             /\ U[i] < nu
             /\ su - U[i] <= u[L] - u[sent[i].frame - 1]
        /\ \A i, j \in 1..Len(sent) :
             i < j => U[i] < U[j] /\ U[j] - U[i] < u[sent[j].frame] - u[sent[i].frame - 1]
    <3>1. ASSUME NEW i \in 1..Len(sent) PROVE su - U[i] <= u[L] - u[sent[i].frame - 1]
      <4>1. su - U[i] + 0 <= u[L] - u[sent[i].frame - 1]
        BY <1>1, <1>3 DEF Positions, L
      <4>2. su \in Nat /\ U[i] \in Nat
        BY <1>1 DEF Positions
      <4> QED BY <4>1, <4>2
    <3> QED BY <1>1, <3>1 DEF Positions
  <2>1. Len(unsent') <= v[Len(frames')] - v[Len(frames') - 1]
    <3>1. v[Len(frames')] = u[L] + cut /\ v[Len(frames') - 1] = u[L] /\ u[L] \in Nat
      BY <1>4, <1>6, <1>9
    <3> QED BY <1>5, <3>1 DEF cut
  <2>2. ASSUME NEW i \in 1..Len(sent)
        PROVE  nu - U[i] + Len(unsent') <= v[Len(frames')] - v[sent[i].frame - 1]
    <3>1. sent[i].frame - 1 \in 0..L
      BY <1>4, <1>8
    <3>2. v[Len(frames')] = u[L] + cut /\ v[sent[i].frame - 1] = u[sent[i].frame - 1]
      BY <1>4, <1>9, <3>1
    <3>a. L \in 0..L
      BY <1>4
    <3>3. u[L] \in Nat /\ u[sent[i].frame - 1] \in Nat /\ U[i] \in Nat
      BY <1>6, <2>0, <3>1, <3>a
    <3>4. nu - U[i] <= u[L] - u[sent[i].frame - 1]
      <4>1. nu <= su /\ nu \in Nat /\ su \in Nat /\ su - U[i] <= u[L] - u[sent[i].frame - 1]
        BY <2>0
      <4> QED BY ONLY <3>3, <4>1
    <3>5. cut \in Nat /\ Len(unsent') = cut /\ nu \in Nat
      BY <1>5, <2>0 DEF cut
    <3>6. nu - U[i] + cut <= (u[L] + cut) - u[sent[i].frame - 1]
      BY ONLY <3>3, <3>4, <3>5
    <3> QED BY <3>2, <3>5, <3>6
  <2>3. ASSUME NEW i \in 1..Len(sent), NEW j \in 1..Len(sent), i < j
        PROVE  U[i] < U[j] /\ U[j] - U[i] < v[sent[j].frame] - v[sent[i].frame - 1]
    <3>1. sent[i].frame \in 1..L /\ sent[j].frame \in 1..L
      BY <1>8
    <3>2. sent[i].frame - 1 \in 0..L /\ sent[j].frame \in 0..L
      <4>1. L \in Nat
        BY <1>4
      <4> QED BY ONLY <3>1, <4>1, SMTT(20)
    <3>3. v[sent[i].frame - 1] = u[sent[i].frame - 1] /\ v[sent[j].frame] = u[sent[j].frame]
      BY <1>9, <3>2
    <3>4. U[i] < U[j] /\ U[j] - U[i] < u[sent[j].frame] - u[sent[i].frame - 1]
      BY <2>0, <2>3
    <3> QED BY <3>3, <3>4
  <2> QED BY <1>3, <2>0, <2>1, <2>2, <2>3 DEF Positions
<1> QED BY <1>10, <1>11 DEF WireInv

LEMMA CutIntoStays ==
  ASSUME codec' = codec, frames' = frames, NEW u, CutInto(u)
  PROVE  CutInto(u)'
BY DEF CutInto

LEMMA SendPacketWire ==
  ASSUME TypeInv, WireInv, SendPacket
  PROVE  WireInv'
<1>1. PICK u, U, su, nu : CutInto(u) /\ Positions(u, U, su, nu)
  BY DEF WireInv
<1> DEFINE L == Len(frames)
           n == Len(unsent)
           m == Len(sent)
           q == Numbered(Head(unsent))
<1>2. /\ unsent # << >> /\ sent' = Append(sent, q) /\ unsent' = Tail(unsent)
      /\ sequence' = (sequence + 1) % SeqSpace /\ nextSequence' = (sequence + 1) % SeqSpace
      /\ codec' = codec /\ frames' = frames
  BY DEF SendPacket
<1>3. /\ frames # << >> /\ Len(unsent') = n - 1 /\ n \in Nat \ {0}
      /\ q \in Packet /\ q.frame = L /\ q.sequence = sequence
  BY <1>2, UnsentTail, NumberedTyped
<1>4. L \in Nat /\ 1 <= L
  BY <1>3, EmptySeq DEF TypeInv, SenderTyped
<1>5. sent \in Seq(Packet) /\ \A i \in 1..Len(sent) : sent[i].frame \in 1..L
  BY DEF TypeInv, SenderTyped, OfKnownFrame
<1>6. CutInto(u)'
  BY <1>1, <1>2, CutIntoStays
<1>7. u \in [0..L -> Nat]
  BY <1>1 DEF CutInto
<1>8. /\ U \in [1..m -> Nat] /\ su \in Nat /\ nu \in Nat /\ nu <= su
      /\ sequence = su % SeqSpace
      /\ n <= u[L] - u[L - 1]
      /\ \A i \in 1..m :
           /\ sent[i].sequence = U[i] % SeqSpace
           /\ U[i] < nu
           /\ su - U[i] + n <= u[L] - u[sent[i].frame - 1]
      /\ \A i, j \in 1..m :
           i < j => U[i] < U[j] /\ U[j] - U[i] < u[sent[j].frame] - u[sent[i].frame - 1]
  BY <1>1, <1>3, <1>5 DEF Positions
<1>9. /\ m \in Nat /\ Len(sent') = m + 1 /\ DOMAIN sent' = 1..(m + 1)
      /\ sent'[m + 1] = q /\ \A i \in 1..m : sent'[i] = sent[i] /\ sent[i].frame \in 1..L
  <2>1. Append(sent, q) \in Seq(Packet)
    BY <1>3, <1>5
  <2>2. /\ Len(sent) \in Nat /\ Len(Append(sent, q)) = Len(sent) + 1
        /\ Append(sent, q)[Len(sent) + 1] = q /\ \A i \in 1..Len(sent) : Append(sent, q)[i] = sent[i]
    BY <1>3, <1>5, AppendProperties
  <2> QED BY <1>2, <1>5, <2>1, <2>2
<1> HIDE DEF L, n, m, q
<1>10. PICK V \in [1..(m + 1) -> Nat] : V[m + 1] = su /\ \A i \in 1..m : V[i] = U[i]
  <2> DEFINE W == [i \in 1..(m + 1) |-> IF i = m + 1 THEN su ELSE U[i]]
  <2>1. W \in [1..(m + 1) -> Nat] /\ W[m + 1] = su /\ \A i \in 1..m : W[i] = U[i]
    BY <1>8, <1>9
  <2> QED BY <2>1
<1>11. (su + 1) % SeqSpace = (sequence + 1) % SeqSpace
  BY <1>8, MediaAssumption, NextNumber
<1>12. ASSUME NEW i \in 1..m
       PROVE  /\ U[i] \in Nat /\ U[i] < su
              /\ u[L] \in Nat /\ u[sent[i].frame - 1] \in Nat
              /\ su - U[i] + n <= u[L] - u[sent[i].frame - 1]
  <2>1. sent[i].frame - 1 \in 0..L /\ L \in 0..L
    BY <1>4, <1>9
  <2>2. U[i] \in Nat /\ U[i] < nu
    BY <1>8
  <2> QED BY <1>7, <1>8, <2>1, <2>2
<1>13. u[L] \in Nat /\ u[L - 1] \in Nat
  BY <1>4, <1>7
<1>14. ASSUME NEW i \in 1..(m + 1)
       PROVE  /\ sent'[i].sequence = V[i] % SeqSpace
              /\ V[i] < su + 1
              /\ (su + 1) - V[i] + (n - 1) <= u[L] - u[sent'[i].frame - 1]
  <2>1. CASE i = m + 1
    <3>1. sent'[i] = q /\ V[i] = su
      BY <1>9, <1>10, <2>1
    <3>2. (su + 1) - su + (n - 1) <= u[L] - u[L - 1]
      BY <1>3, <1>8, <1>13
    <3> QED BY <1>3, <1>8, <3>1, <3>2
  <2>2. CASE i # m + 1
    <3>1. i \in 1..m
      BY <1>9, <2>2
    <3>2. sent'[i] = sent[i] /\ V[i] = U[i]
      BY <1>9, <1>10, <3>1
    <3>3. V[i] < su + 1 /\ (su + 1) - V[i] + (n - 1) <= u[L] - u[sent[i].frame - 1]
      BY <1>3, <1>8, <1>12, <3>1, <3>2
    <3> QED BY <1>8, <3>1, <3>2, <3>3
  <2> QED BY <2>1, <2>2
<1>15. ASSUME NEW i \in 1..(m + 1), NEW j \in 1..(m + 1), i < j
       PROVE  V[i] < V[j] /\ V[j] - V[i] < u[sent'[j].frame] - u[sent'[i].frame - 1]
  <2>1. i \in 1..m /\ sent'[i] = sent[i] /\ V[i] = U[i]
    <3>1. i \in 1..m
      BY <1>9, <1>15
    <3> QED BY <1>9, <1>10, <3>1
  <2>2. CASE j = m + 1
    <3>1. sent'[j].frame = L /\ V[j] = su
      BY <1>3, <1>9, <1>10, <2>2
    <3> QED BY <1>3, <1>8, <1>12, <2>1, <3>1
  <2>3. CASE j # m + 1
    <3>1. j \in 1..m
      BY <1>9, <2>3
    <3>2. sent'[j] = sent[j] /\ V[j] = U[j]
      BY <1>9, <1>10, <3>1
    <3> QED BY <1>8, <1>15, <2>1, <3>1, <3>2
  <2> QED BY <2>2, <2>3
<1>16. n - 1 <= u[L] - u[L - 1]
  BY <1>3, <1>8, <1>13
<1>17. Positions(u, V, su + 1, su + 1)'
  <2>1. su + 1 \in Nat /\ su + 1 <= su + 1
    BY <1>8
  <2> QED BY <1>2, <1>3, <1>9, <1>10, <1>11, <1>14, <1>15, <1>16, <2>1 DEF Positions, L
<1> QED BY <1>6, <1>17 DEF WireInv

LEMMA SendFailsWire ==
  ASSUME TypeInv, WireInv, SendFails
  PROVE  WireInv'
<1>1. PICK u, U, su, nu : CutInto(u) /\ Positions(u, U, su, nu)
  BY DEF WireInv
<1> DEFINE L == Len(frames)
           n == Len(unsent)
<1>2. /\ unsent # << >> /\ unsent' = Tail(unsent) /\ sequence' = (sequence + 1) % SeqSpace
      /\ codec' = codec /\ frames' = frames /\ nextSequence' = nextSequence /\ sent' = sent
  BY DEF SendFails
<1>3. frames # << >> /\ Len(unsent') = n - 1 /\ n \in Nat \ {0}
  BY <1>2, UnsentTail
<1>4. L \in Nat /\ 1 <= L
  BY <1>3, EmptySeq DEF TypeInv, SenderTyped
<1>5. CutInto(u)'
  BY <1>1, <1>2, CutIntoStays
<1>6. u \in [0..L -> Nat] /\ \A i \in 1..Len(sent) : sent[i].frame - 1 \in 0..L
  <2>1. u \in [0..L -> Nat]
    BY <1>1 DEF CutInto
  <2>2. \A i \in 1..Len(sent) : sent[i].frame \in 1..L
    BY DEF TypeInv, SenderTyped, OfKnownFrame
  <2> QED BY <1>4, <2>1, <2>2
<1>7. /\ U \in [1..Len(sent) -> Nat] /\ su \in Nat /\ nu \in Nat /\ nu <= su
      /\ sequence = su % SeqSpace /\ nextSequence = nu % SeqSpace
      /\ n <= u[L] - u[L - 1]
      /\ \A i \in 1..Len(sent) :
           /\ sent[i].sequence = U[i] % SeqSpace
           /\ U[i] < nu
           /\ su - U[i] + n <= u[L] - u[sent[i].frame - 1]
      /\ \A i, j \in 1..Len(sent) :
           i < j => U[i] < U[j] /\ U[j] - U[i] < u[sent[j].frame] - u[sent[i].frame - 1]
  BY <1>1, <1>3 DEF Positions
<1>8. (su + 1) % SeqSpace = (sequence + 1) % SeqSpace
  BY <1>7, MediaAssumption, NextNumber
<1> HIDE DEF L, n
<1>9. ASSUME NEW i \in 1..Len(sent)
      PROVE  (su + 1) - U[i] + (n - 1) <= u[L] - u[sent[i].frame - 1]
  <2>1. U[i] \in Nat
    BY <1>7
  <2> QED BY <1>3, <1>7, <2>1
<1>10. n - 1 <= u[L] - u[L - 1]
  <2>1. u[L] \in Nat /\ u[L - 1] \in Nat
    BY <1>4, <1>6
  <2> QED BY <1>3, <1>7, <2>1
<1>11. Positions(u, U, su + 1, nu)'
  <2>1. su + 1 \in Nat /\ nu <= su + 1
    BY <1>7
  <2> QED BY <1>2, <1>3, <1>7, <1>8, <1>9, <1>10, <2>1 DEF Positions, L
<1> QED BY <1>5, <1>11 DEF WireInv

\* A unit that is never cut into packets uses up no numbers.
LEMMA UnitFailsWire ==
  ASSUME TypeInv, WireInv, UnitFails
  PROVE  WireInv'
<1>1. PICK u, U, su, nu : CutInto(u) /\ Positions(u, U, su, nu)
  BY DEF WireInv
<1> DEFINE L == Len(frames)
           n == Len(unsent)
           k == Len(unsent')
<1>2. /\ sequence' = sequence /\ codec' = codec /\ frames' = frames
      /\ nextSequence' = nextSequence /\ sent' = sent
  BY DEF UnitFails
<1>3. frames # << >> /\ k <= n /\ k \in Nat /\ n \in Nat
  BY UnitLeft
<1>4. L \in Nat /\ 1 <= L
  BY <1>3, EmptySeq DEF TypeInv, SenderTyped
<1>5. CutInto(u)'
  BY <1>1, <1>2, CutIntoStays
<1>6. u \in [0..L -> Nat] /\ \A i \in 1..Len(sent) : sent[i].frame - 1 \in 0..L
  <2>1. u \in [0..L -> Nat]
    BY <1>1 DEF CutInto
  <2>2. \A i \in 1..Len(sent) : sent[i].frame \in 1..L
    BY DEF TypeInv, SenderTyped, OfKnownFrame
  <2> QED BY <1>4, <2>1, <2>2
<1>7. /\ U \in [1..Len(sent) -> Nat] /\ su \in Nat /\ nu \in Nat /\ nu <= su
      /\ sequence = su % SeqSpace /\ nextSequence = nu % SeqSpace
      /\ n <= u[L] - u[L - 1]
      /\ \A i \in 1..Len(sent) :
           /\ sent[i].sequence = U[i] % SeqSpace
           /\ U[i] < nu
           /\ su - U[i] + n <= u[L] - u[sent[i].frame - 1]
      /\ \A i, j \in 1..Len(sent) :
           i < j => U[i] < U[j] /\ U[j] - U[i] < u[sent[j].frame] - u[sent[i].frame - 1]
  BY <1>1, <1>3 DEF Positions
<1> HIDE DEF L, n, k
<1>8. ASSUME NEW i \in 1..Len(sent)
      PROVE  su - U[i] + k <= u[L] - u[sent[i].frame - 1]
  <2>1. U[i] \in Nat /\ L \in 0..L /\ sent[i].frame - 1 \in 0..L
    BY <1>4, <1>6, <1>7
  <2>2. u[L] \in Nat /\ u[sent[i].frame - 1] \in Nat
    BY <1>6, <2>1
  <2>3. su \in Nat /\ su - U[i] + n <= u[L] - u[sent[i].frame - 1]
    BY <1>7
  <2>4. k \in Nat /\ n \in Nat /\ k <= n /\ U[i] \in Nat
    BY <1>3, <2>1
  <2> QED BY ONLY <2>2, <2>3, <2>4
<1>9. k <= u[L] - u[L - 1]
  <2>1. u[L] \in Nat /\ u[L - 1] \in Nat
    BY <1>4, <1>6
  <2> QED BY <1>3, <1>7, <2>1
<1>10. Positions(u, U, su, nu)'
  BY <1>2, <1>3, <1>7, <1>8, <1>9 DEF Positions, L, k
<1> QED BY <1>5, <1>10 DEF WireInv

LEMMA NextWire == TypeInv /\ WireInv /\ [Next]_vars => WireInv'
<1> SUFFICES ASSUME TypeInv, WireInv, [Next]_vars PROVE WireInv'
  OBVIOUS
<1>1. CASE SendFrame
  BY <1>1, SendFrameWire
<1>2. CASE SendPacket
  BY <1>2, SendPacketWire
<1>3. CASE SendFails
  BY <1>3, SendFailsWire
<1>4. ASSUME UNCHANGED <<codec, sender>> PROVE WireInv'
  <2>1. /\ codec' = codec /\ frames' = frames /\ unsent' = unsent /\ sequence' = sequence
        /\ nextSequence' = nextSequence /\ sent' = sent
    BY <1>4 DEF sender
  <2>2. PICK u, U, su, nu : CutInto(u) /\ Positions(u, U, su, nu)
    BY DEF WireInv
  <2>3. CutInto(u)'
    BY <2>1, <2>2, CutIntoStays
  <2>4. Positions(u, U, su, nu)'
    BY <2>1, <2>2 DEF Positions
  <2> QED BY <2>3, <2>4 DEF WireInv
<1>5. CASE Receive
  BY <1>4, <1>5 DEF Receive
<1>6. CASE ReceiveFails
  BY <1>4, <1>6 DEF ReceiveFails
<1>7. CASE UnitFails
  BY <1>7, UnitFailsWire
<1>8. CASE UNCHANGED vars
  BY <1>4, <1>8 DEF vars
<1> QED BY <1>1, <1>2, <1>3, <1>5, <1>6, <1>7, <1>8 DEF Next

\* The function counts what the frames have been cut into.
LEMMA PacketsUpToIs ==
  ASSUME NEW u, CutInto(u), Len(frames) \in Nat
  PROVE  \A f \in 0..Len(frames) : PacketsUpTo[f] = u[f]
<1> DEFINE L == Len(frames)
           cut(f) == Cut(codec, f, frames[f])
           Solves(g) == g = [f \in 0..L |-> IF f = 0 THEN 0 ELSE g[f - 1] + cut(f)]
           h == CHOOSE g : Solves(g)
<1>1. u \in [0..L -> Nat] /\ u[0] = 0 /\ \A f \in 1..L : u[f] = u[f - 1] + cut(f)
  BY DEF CutInto
<1>2. PacketsUpTo = h
  <2>1. \A f : Len(FramePackets(f, frames[f])) = cut(f)
    BY CutIs
  <2> QED BY <2>1 DEF PacketsUpTo
<1>3. L \in Nat
  OBVIOUS
<1> HIDE DEF L, cut
<1>4. Solves(u)
  <2>1. ASSUME NEW f \in 0..L PROVE u[f] = IF f = 0 THEN 0 ELSE u[f - 1] + cut(f)
    <3>1. f = 0 \/ f \in 1..L
      BY <1>3
    <3> QED BY <1>1, <1>3, <3>1
  <2> QED BY <1>1, <2>1
<1>5. Solves(h)
  BY <1>4
<1> HIDE DEF h
<1>6. \A f \in 0..L : h[f] = IF f = 0 THEN 0 ELSE h[f - 1] + cut(f)
  BY <1>5
<1> DEFINE T == {f \in Nat : f \in 0..L => h[f] = u[f]}
<1>7. 0 \in T
  BY <1>1, <1>3, <1>6
<1>8. ASSUME NEW f \in T PROVE f + 1 \in T
  <2> SUFFICES ASSUME f + 1 \in 0..L PROVE h[f + 1] = u[f + 1]
    OBVIOUS
  <2>1. f \in Nat /\ f \in 0..L /\ (f + 1) - 1 = f /\ f + 1 # 0 /\ f + 1 \in 1..L
    BY <1>3
  <2>2. h[f] = u[f]
    BY <2>1
  <2> QED BY <1>1, <1>6, <2>1, <2>2
<1> HIDE DEF T
<1>9. T = Nat
  <2>1. T \in SUBSET Nat
    BY DEF T
  <2> QED BY <1>7, <1>8, <2>1, NatSetInduction
<1>10. \A f \in 0..L : h[f] = u[f]
  BY <1>3, <1>9 DEF T
<1> QED BY <1>2, <1>10 DEF L

\* However many packets could not be sent, and wherever the numbers wrap, a
\* receiver can tell the order of two packets from their numbers
\* (peer_connection.c:769-846, :874, :916, rtp.c:590-595).
THEOREM NumbersKeepOrder == Spec => []WireSequence
<1>1. TypeInv /\ WireInv => WireSequence
  <2> SUFFICES ASSUME TypeInv, WireInv,
                      NEW i \in DOMAIN sent, NEW j \in DOMAIN sent, i < j,
                      PacketsUpTo[sent[j].frame] - PacketsUpTo[sent[i].frame - 1] <= SeqSpace \div 2
               PROVE  Earlier(sent[i].sequence, sent[j].sequence)
    BY DEF WireSequence
  <2>1. PICK u, U, su, nu : CutInto(u) /\ Positions(u, U, su, nu)
    BY DEF WireInv
  <2>2. /\ Len(frames) \in Nat
        /\ sent[i].frame \in 1..Len(frames) /\ sent[j].frame \in 1..Len(frames)
    BY DEF TypeInv, SenderTyped, OfKnownFrame
  <2>3. sent[j].frame \in 0..Len(frames) /\ sent[i].frame - 1 \in 0..Len(frames)
    BY <2>2
  <2>4. u[sent[j].frame] - u[sent[i].frame - 1] <= SeqSpace \div 2
    BY <2>1, <2>2, <2>3, PacketsUpToIs
  <2>5. u[sent[j].frame] \in Nat /\ u[sent[i].frame - 1] \in Nat
    BY <2>1, <2>3 DEF CutInto
  <2>6. /\ U[i] \in Nat /\ U[j] \in Nat /\ U[i] < U[j]
        /\ U[j] - U[i] < u[sent[j].frame] - u[sent[i].frame - 1]
        /\ sent[i].sequence = U[i] % SeqSpace /\ sent[j].sequence = U[j] % SeqSpace
    <3>1. i \in 1..Len(sent) /\ j \in 1..Len(sent)
      BY DEF TypeInv, SenderTyped
    <3>2. U[i] \in Nat /\ U[j] \in Nat
      BY <2>1, <3>1 DEF Positions
    <3>3. sent[i].sequence = U[i] % SeqSpace /\ sent[j].sequence = U[j] % SeqSpace
      BY <2>1, <3>1 DEF Positions
    <3>4. U[i] < U[j] /\ U[j] - U[i] < u[sent[j].frame] - u[sent[i].frame - 1]
      BY <2>1, <3>1 DEF Positions
    <3> QED BY <3>2, <3>3, <3>4
  <2>7. SeqSpace \in Nat \ {0} /\ SeqSpace % 2 = 0 /\ SeqSpace \div 2 \in Nat
    BY MediaAssumption
  <2>8. U[j] - U[i] < SeqSpace \div 2
    BY <2>4, <2>5, <2>6, <2>7
  <2> QED BY <2>6, <2>7, <2>8, EarlierNumber DEF Earlier
<1>2. Init => TypeInv /\ WireInv
  BY InitTyped, InitWire
<1>3. TypeInv /\ WireInv /\ [Next]_vars => (TypeInv /\ WireInv)'
  BY NextTyped, NextWire
<1> QED BY <1>1, <1>2, <1>3, PTL DEF Spec

-----------------------------------------------------------------------------
(***************************************************************************)
(* Recovery.  When the last packets that arrived are the first k parts of  *)
(* a frame, they are what is in the buffer, or, with the last part, what   *)
(* has just been delivered.                                                *)
(***************************************************************************)
FirstParts(f, shape, k) == [i \in 1..k |-> PartAt(f, shape, i)]

\* The frames that FrameRecovered is about, and which have packets.
Recoverable(f) ==
  /\ SimpleShape(frames[f]) /\ frames[f] # << >>
  /\ codec # "h264" => frames[f] = << 1 >>

Started(f, k) ==
  /\ k <= Len(arrived)
  /\ \A j \in 1..k : PartOf(arrived[Len(arrived) - k + j]) = PartAt(f, frames[f], j)
  /\ \A i \in 1..(Len(arrived) - k) : arrived[i].frame # f

Buffered(f, k) ==
  reassembly = [active |-> TRUE, timestamp |-> f, data |-> FirstParts(f, frames[f], k)]

HandedOver(f, k) ==
  /\ delivered # << >>
  /\ Last(delivered) = [timestamp |-> f, data |-> FirstParts(f, frames[f], k)]
  /\ reassembly = Idle

RecoverInv ==
  \A f \in DOMAIN frames : Recoverable(f) =>
    \A k \in 1..PartCount(frames[f]) : Started(f, k) =>
      IF k < PartCount(frames[f]) THEN Buffered(f, k) ELSE HandedOver(f, k)

LEMMA PartCountType ==
  ASSUME NEW shape \in Shape, shape # << >>, SimpleShape(shape)
  PROVE  /\ Len(shape) \in Nat \ {0} /\ Len(shape) \in DOMAIN shape
         /\ \A u \in DOMAIN shape : shape[u] \in Nat \ {0}
         /\ PartCount(shape) \in Nat \ {0} /\ Len(shape) <= PartCount(shape)
<1>1. /\ Len(shape) \in Nat \ {0} /\ DOMAIN shape = 1..Len(shape)
      /\ \A u \in 1..Len(shape) : shape[u] \in Nat \ {0}
  BY EmptySeq DEF Shape, SimpleShape
<1>2. Len(shape) \in 1..Len(shape)
  BY <1>1
<1>3. shape[Len(shape)] \in Nat \ {0}
  BY <1>1, <1>2
<1> QED BY <1>1, <1>2, <1>3 DEF PartCount

\* Of the packets of such a frame, only the last one ends it.
LEMMA OnlyLastCompletes ==
  ASSUME NEW shape \in Shape, shape # << >>, SimpleShape(shape),
         NEW c, c # "h264" => shape = << 1 >>,
         NEW f, NEW p, OfFrame(p, c, f, shape),
         NEW k \in 1..PartCount(shape), PartOf(p) = PartAt(f, shape, k)
  PROVE  Completes(p) <=> k = PartCount(shape)
<1>1. /\ Len(shape) \in Nat \ {0} /\ Len(shape) \in DOMAIN shape
      /\ DOMAIN shape = 1..Len(shape)
      /\ \A u \in DOMAIN shape : shape[u] \in Nat \ {0}
      /\ PartCount(shape) \in Nat \ {0} /\ PartCount(shape) = Len(shape) - 1 + shape[Len(shape)]
  BY PartCountType DEF PartCount, Shape
<1>2. PartOf(p) = [frame |-> p.frame, unit |-> p.unit, part |-> p.part]
  BY DEF PartOf
<1>3. CASE c = "h264" /\ k < Len(shape)
  <2>1. p.unit = k /\ p.part = 1
    BY <1>2, <1>3 DEF PartAt
  <2>2. shape[k] = 1 /\ k # PartCount(shape)
    BY <1>1, <1>3 DEF SimpleShape
  <2>3. FragmentKind(1, 1) = "single"
    BY DEF FragmentKind
  <2>4. k # Len(shape)
    <3>1. Len(shape) \in Int
      BY <1>1
    <3> QED BY <1>3, <3>1
  <2>5. p.kind \in {"single", "chunk"}
    BY <2>1, <2>2, <2>3 DEF OfFrame
  <2>6. p.kind # "end"
    BY <2>5
  <2>7. p.marker = FALSE
    BY <1>3, <2>1, <2>4 DEF OfFrame
  <2> QED BY <2>2, <2>6, <2>7 DEF Completes
<1>4. CASE c = "h264" /\ ~(k < Len(shape))
  <2>1. p.unit = Len(shape) /\ p.part = k - Len(shape) + 1
    BY <1>2, <1>4 DEF PartAt
  <2>2. p.part = shape[Len(shape)] <=> k = PartCount(shape)
    BY <1>1, <2>1
  <2>3. p.marker = (p.part = shape[Len(shape)])
    BY <1>4, <2>1 DEF OfFrame
  <2>4. CASE k = PartCount(shape)
    BY <2>2, <2>3, <2>4 DEF Completes
  <2>5. CASE k # PartCount(shape)
    <3>1. p.part \in 1..shape[Len(shape)] /\ p.part < shape[Len(shape)] /\ shape[Len(shape)] \in Nat \ {0}
      BY <1>1, <1>4, <2>1, <2>5
    <3>2. FragmentKind(p.part, shape[Len(shape)]) # "end"
      BY <3>1, KindIsFragmentKind
    <3>3. p.kind # "end"
      BY <2>1, <3>2 DEF OfFrame
    <3> QED BY <2>2, <2>3, <2>5, <3>3 DEF Completes
  <2> QED BY <2>4, <2>5
<1>5. CASE c # "h264"
  <2>1. shape = << 1 >>
    BY <1>5
  <2>2. p.marker
    BY <1>5, <2>1 DEF OfFrame
  <2>3. Len(shape) = 1 /\ shape[1] = 1
    BY ONLY <2>1
  <2>4. k = PartCount(shape)
    <3>1. PartCount(shape) = 1
      BY ONLY <2>3 DEF PartCount
    <3> QED BY <3>1
  <2> QED BY <2>2, <2>4 DEF Completes
<1> QED BY <1>3, <1>4, <1>5

LEMMA PartAtTyped ==
  ASSUME NEW shape \in Shape, shape # << >>, SimpleShape(shape),
         NEW f \in Nat, NEW k \in 1..PartCount(shape)
  PROVE  PartAt(f, shape, k) \in Part /\ PartAt(f, shape, k).frame = f
<1>1. Len(shape) \in Nat \ {0} /\ PartCount(shape) \in Nat
  BY PartCountType
<1> QED BY <1>1 DEF PartAt, Part

LEMMA FirstPartsGrow ==
  ASSUME NEW shape \in Shape, shape # << >>, SimpleShape(shape), NEW f \in Nat,
         NEW k \in Nat, k + 1 \in 1..PartCount(shape)
  PROVE  FirstParts(f, shape, k + 1) = Append(FirstParts(f, shape, k), PartAt(f, shape, k + 1))
<1> DEFINE e(i) == PartAt(f, shape, i)
           s == [i \in 1..k |-> e(i)]
<1>1. PartCount(shape) \in Nat
  BY PartCountType
<1>2. \A i \in 1..(k + 1) : e(i) \in Part
  BY <1>1, PartAtTyped
<1> HIDE DEF e
<1>3. s \in Seq(Part) /\ Len(s) = k /\ e(k + 1) \in Part
  BY <1>2
<1>4. Append(s, e(k + 1)) = [i \in 1..(k + 1) |-> IF i = k + 1 THEN e(k + 1) ELSE s[i]]
  BY <1>3
<1>5. \A i \in 1..(k + 1) : (IF i = k + 1 THEN e(k + 1) ELSE s[i]) = e(i)
  OBVIOUS
<1>6. Append(s, e(k + 1)) = [i \in 1..(k + 1) |-> e(i)]
  BY <1>4, <1>5
<1> QED BY <1>6 DEF FirstParts, e

LEMMA InitRecover == Init => RecoverInv
<1>1. Init => frames = << >> /\ DOMAIN << >> = {}
  BY DEF Init
<1> QED BY <1>1 DEF RecoverInv

\* Nothing that has arrived is of the new frame.
LEMMA SendFrameRecover ==
  ASSUME TypeInv, RecoverInv, SendFrame
  PROVE  RecoverInv'
<1>1. PICK shape \in Shapes : frames' = Append(frames, shape)
  BY DEF SendFrame
<1>2. /\ codec' = codec /\ arrived' = arrived /\ reassembly' = reassembly /\ delivered' = delivered
  BY DEF SendFrame, receiver
<1> DEFINE L == Len(frames)
<1>3. /\ L \in Nat /\ DOMAIN frames = 1..L /\ DOMAIN frames' = 1..(L + 1)
      /\ \A f \in 1..L : frames'[f] = frames[f]
      /\ frames'[L + 1] = shape
  BY <1>1 DEF TypeInv, SenderTyped
<1>4. arrived \in Seq(Packet) /\ Len(arrived) \in Nat /\ DOMAIN arrived = 1..Len(arrived)
  BY DEF TypeInv, ReceiverTyped
<1>5. \A i \in DOMAIN arrived : arrived[i].frame # L + 1
  <2> TAKE i \in DOMAIN arrived
  <2>1. arrived[i].frame = 0 \/ arrived[i].frame \in 1..L
    BY <1>3 DEF TypeInv, ReceiverTyped, OfKnownFrame
  <2> QED BY <1>3, <2>1
<1> HIDE DEF L
<1> SUFFICES ASSUME NEW f \in 1..(L + 1), Recoverable(f)',
                    NEW k \in 1..PartCount(frames'[f]), Started(f, k)'
             PROVE  IF k < PartCount(frames'[f]) THEN Buffered(f, k)' ELSE HandedOver(f, k)'
  BY <1>3 DEF RecoverInv
<1>6. CASE f = L + 1
  <2>1. /\ k <= Len(arrived)
        /\ \A j \in 1..k : PartOf(arrived[Len(arrived) - k + j]) = PartAt(f, frames'[f], j)
    BY <1>2 DEF Started
  <2>2. shape \in Shape /\ shape # << >> /\ SimpleShape(shape) /\ frames'[f] = shape /\ f \in Nat
    BY <1>3, <1>6, ShapesTyped DEF Recoverable
  <2>3. PartCount(shape) \in Nat
    BY <2>2, PartCountType
  <2>4. k \in 1..k /\ Len(arrived) - k + k = Len(arrived) /\ Len(arrived) \in DOMAIN arrived
    BY <1>4, <2>1, <2>2, <2>3
  <2>5. PartOf(arrived[Len(arrived)]) = PartAt(f, shape, k)
    BY <2>1, <2>2, <2>4
  <2>6. PartAt(f, shape, k).frame = f
    BY <2>2, PartAtTyped
  <2>7. arrived[Len(arrived)].frame = f
    BY <2>5, <2>6 DEF PartOf
  <2> QED BY <1>5, <1>6, <2>4, <2>7
<1>7. CASE f # L + 1
  <2>1. f \in DOMAIN frames /\ frames'[f] = frames[f]
    BY <1>3, <1>7
  <2>2. Recoverable(f) /\ Started(f, k)
    BY <1>2, <2>1 DEF Recoverable, Started
  <2>3. IF k < PartCount(frames[f]) THEN Buffered(f, k) ELSE HandedOver(f, k)
    BY <2>1, <2>2 DEF RecoverInv
  <2> QED BY <1>2, <2>1, <2>3 DEF Buffered, HandedOver
<1> QED BY <1>6, <1>7

LEMMA ReceiverRecover ==
  ASSUME RecoverInv, codec' = codec, frames' = frames, UNCHANGED receiver
  PROVE  RecoverInv'
<1>1. arrived' = arrived /\ reassembly' = reassembly /\ delivered' = delivered
  BY DEF receiver
<1> SUFFICES ASSUME NEW f \in DOMAIN frames, Recoverable(f)',
                    NEW k \in 1..PartCount(frames[f]), Started(f, k)'
             PROVE  IF k < PartCount(frames[f]) THEN Buffered(f, k)' ELSE HandedOver(f, k)'
  BY DEF RecoverInv
<1>2. Recoverable(f) /\ Started(f, k)
  BY <1>1 DEF Recoverable, Started
<1>3. IF k < PartCount(frames[f]) THEN Buffered(f, k) ELSE HandedOver(f, k)
  BY <1>2 DEF RecoverInv
<1> QED BY <1>1, <1>3 DEF Buffered, HandedOver

\* A part that arrives in turn is put behind those before it.
LEMMA JoinedInTurn ==
  ASSUME TypeInv, RecoverInv,
         NEW f \in DOMAIN frames, Recoverable(f), codec = "h264",
         NEW k \in 1..PartCount(frames[f]), NEW p,
         PartOf(p) = PartAt(f, frames[f], k),
         k = 1 => \A i \in DOMAIN arrived : arrived[i].frame # f,
         k > 1 => Started(f, k - 1)
  PROVE  Joined(reassembly, p)
           = [active |-> TRUE, timestamp |-> f, data |-> FirstParts(f, frames[f], k)]
<1> DEFINE shape == frames[f]
           e == PartAt(f, shape, k)
           r == reassembly
           s == IF r.active /\ r.timestamp # p.frame /\ r.data # << >> THEN Idle ELSE r
<1>1. shape \in Shape /\ shape # << >> /\ SimpleShape(shape) /\ f \in Nat
  BY ShapesTyped DEF TypeInv, SenderTyped, Recoverable
<1>2. PartCount(shape) \in Nat \ {0}
  BY <1>1, PartCountType
<1>3. e \in Part /\ e.frame = f
  BY <1>1, PartAtTyped
<1>4. p.frame = f
  BY <1>3 DEF PartOf
<1>5. Joined(r, p) = [active |-> TRUE, timestamp |-> IF s.active THEN s.timestamp ELSE f, data |-> Append(s.data, e)]
  BY <1>4 DEF Joined
<1>6. CASE k = 1
  <2>1. ~(r.active /\ r.timestamp = f)
    BY <1>6 DEF TypeInv, ReceiverTyped
  <2>2. s.data = << >> /\ ~s.active
    BY <1>4, <2>1, IdleTyped DEF TypeInv, ReceiverTyped
  <2>3. Append(<< >>, e) = FirstParts(f, shape, 1)
    <3>1. FirstParts(f, shape, 0) = << >>
      BY DEF FirstParts
    <3> DEFINE z == 0
    <3>2. z \in Nat /\ z + 1 \in 1..PartCount(shape) /\ z + 1 = 1
      BY <1>2
    <3> HIDE DEF z
    <3>3. FirstParts(f, shape, z + 1) = Append(FirstParts(f, shape, z), PartAt(f, shape, z + 1))
      BY <1>1, <3>2, FirstPartsGrow
    <3>4. FirstParts(f, shape, z) = << >>
      BY <3>1 DEF z
    <3> QED BY <1>6, <3>2, <3>3, <3>4
  <2> QED BY <1>5, <1>6, <2>2, <2>3
<1>7. CASE k > 1
  <2>1. k - 1 \in 1..PartCount(shape) /\ k - 1 < PartCount(shape) /\ k - 1 \in Nat /\ (k - 1) + 1 = k
    BY <1>2, <1>7
  <2>2. Buffered(f, k - 1)
    BY <1>7, <2>1 DEF RecoverInv
  <2>3. r.active /\ r.timestamp = f /\ r.data = FirstParts(f, shape, k - 1)
    BY <2>2 DEF Buffered
  <2>4. s = r
    BY <1>4, <2>3
  <2>5. Append(FirstParts(f, shape, k - 1), e) = FirstParts(f, shape, k)
    BY <1>1, <2>1, FirstPartsGrow
  <2> QED BY <1>5, <2>3, <2>4, <2>5
<1> QED BY <1>2, <1>6, <1>7

LEMMA ReceiveRecover ==
  ASSUME TypeInv, RecoverInv, Receive
  PROVE  RecoverInv'
<1>1. PICK i \in DOMAIN sent :
        /\ arrived' = Append(arrived, sent[i])
        /\ reassembly' = Reassembled(sent[i])
        /\ delivered' =
             IF Completes(sent[i])
             THEN Append(delivered, [timestamp |-> sent[i].frame, data |-> DeliveredData(sent[i])])
             ELSE delivered
  BY DEF Receive
<1>2. codec' = codec /\ frames' = frames
  BY DEF Receive, sender
<1> DEFINE p == sent[i]
           m == Len(arrived)
<1>3. p \in Packet /\ OfKnownFrame(p, codec, frames)
  BY DEF TypeInv, SenderTyped
<1>4. /\ arrived' = Append(arrived, p) /\ reassembly' = Reassembled(p)
      /\ delivered' = IF Completes(p)
                      THEN Append(delivered, [timestamp |-> p.frame, data |-> DeliveredData(p)])
                      ELSE delivered
  BY <1>1
<1> HIDE DEF p
<1>5. /\ m \in Nat /\ DOMAIN arrived = 1..m /\ Len(arrived') = m + 1 /\ arrived'[m + 1] = p
      /\ \A j \in 1..m : arrived'[j] = arrived[j]
  <2>1. arrived \in Seq(Packet)
    BY DEF TypeInv, ReceiverTyped
  <2>2. /\ Len(Append(arrived, p)) = Len(arrived) + 1 /\ Len(arrived) \in Nat
        /\ Append(arrived, p)[Len(arrived) + 1] = p
        /\ \A j \in 1..Len(arrived) : Append(arrived, p)[j] = arrived[j]
    BY <1>3, <2>1, AppendProperties
  <2> QED BY <1>4, <2>1, <2>2
<1> HIDE DEF m
<1> SUFFICES ASSUME NEW f \in DOMAIN frames, Recoverable(f)',
                    NEW k \in 1..PartCount(frames[f]), Started(f, k)'
             PROVE  IF k < PartCount(frames[f]) THEN Buffered(f, k)' ELSE HandedOver(f, k)'
  BY <1>2 DEF RecoverInv
<1> DEFINE shape == frames[f]
           n == PartCount(shape)
           d == [timestamp |-> p.frame, data |-> DeliveredData(p)]
<1>6. Recoverable(f)
  BY <1>2 DEF Recoverable
<1>7. shape \in Shape /\ shape # << >> /\ SimpleShape(shape) /\ f \in Nat
  BY <1>6, ShapesTyped DEF TypeInv, SenderTyped, Recoverable
<1>8. n \in Nat \ {0}
  BY <1>7, PartCountType
<1>9. /\ k <= m + 1
      /\ \A j \in 1..k : PartOf(arrived'[m + 1 - k + j]) = PartAt(f, shape, j)
      /\ \A j \in 1..(m + 1 - k) : arrived'[j].frame # f
  BY <1>2, <1>5 DEF Started
<1> HIDE DEF n
<1>10. PartOf(p) = PartAt(f, shape, k)
  <2>1. k \in 1..k /\ m + 1 - k + k = m + 1
    BY <1>5, <1>8
  <2> QED BY <1>5, <1>9, <2>1
<1>11. p.frame = f
  BY <1>7, <1>10, PartAtTyped DEF PartOf
<1>12. Completes(p) <=> k = n
  <2>1. OfFrame(p, codec, f, shape)
    BY <1>3, <1>11 DEF OfKnownFrame
  <2>2. codec # "h264" => shape = << 1 >>
    BY <1>6 DEF Recoverable
  <2> QED BY <1>7, <1>10, <2>1, <2>2, OnlyLastCompletes DEF n
<1>13. k = 1 => \A j \in DOMAIN arrived : arrived[j].frame # f
  <2> SUFFICES ASSUME k = 1, NEW j \in 1..m PROVE arrived[j].frame # f
    BY <1>5
  <2>1. j \in 1..(m + 1 - k)
    BY <1>5
  <2> QED BY <1>5, <1>9, <2>1
<1>14. k > 1 => Started(f, k - 1)
  <2> SUFFICES ASSUME k > 1 PROVE Started(f, k - 1)
    OBVIOUS
  <2>1. k - 1 <= m /\ m - (k - 1) = m + 1 - k
    BY <1>5, <1>8, <1>9
  <2>2. ASSUME NEW j \in 1..(k - 1)
        PROVE  PartOf(arrived[m - (k - 1) + j]) = PartAt(f, shape, j)
    <3>1. j \in 1..k /\ m + 1 - k + j \in 1..m
      BY <1>5, <1>8, <2>1
    <3> QED BY <1>5, <1>9, <2>1, <3>1
  <2>3. ASSUME NEW j \in 1..(m - (k - 1)) PROVE arrived[j].frame # f
    <3>1. j \in 1..(m + 1 - k) /\ j \in 1..m
      BY <1>5, <1>8, <2>1
    <3> QED BY <1>5, <1>9, <3>1
  <2> QED BY <2>1, <2>2, <2>3 DEF Started, m
<1> DEFINE J == [active |-> TRUE, timestamp |-> f, data |-> FirstParts(f, shape, k)]
<1>15. codec = "h264" => Joined(reassembly, p) = J
  BY <1>6, <1>10, <1>13, <1>14, JoinedInTurn
<1>16. CASE k < n
  <2>1. n # 1
    BY <1>8, <1>16
  <2>2. codec = "h264"
    <3>1. shape = << 1 >> => n = 1
      BY DEF n, PartCount
    <3> QED BY <1>6, <2>1, <3>1 DEF Recoverable
  <2>3. ~Completes(p)
    BY <1>8, <1>12, <1>16
  <2>4. reassembly' = J
    BY <1>4, <1>15, <2>2, <2>3 DEF Reassembled
  <2>5. Buffered(f, k)'
    BY <1>2, <2>4 DEF Buffered
  <2> QED BY <1>16, <2>5 DEF n
<1>17. CASE ~(k < n)
  <2>1. k = n /\ Completes(p)
    BY <1>8, <1>12, <1>17 DEF n
  <2>2. DeliveredData(p) = FirstParts(f, shape, k)
    <3>1. CASE codec = "h264"
      BY <1>15, <3>1 DEF DeliveredData
    <3>2. CASE codec # "h264"
      <4>1. shape = << 1 >>
        BY <1>6, <3>2 DEF Recoverable
      <4>2. k = 1
        BY <2>1, <4>1 DEF n, PartCount
      <4>3. DeliveredData(p) = <<PartAt(f, shape, 1)>>
        BY <1>10, <3>2, <4>2 DEF DeliveredData
      <4> DEFINE e(j) == PartAt(f, shape, j)
      <4>4. <<e(1)>> = [j \in 1..1 |-> e(j)]
        <5> HIDE DEF e
        <5> QED OBVIOUS
      <4> QED BY <4>2, <4>3, <4>4 DEF FirstParts
    <3> QED BY <3>1, <3>2
  <2>3. delivered' = Append(delivered, d) /\ d = [timestamp |-> f, data |-> FirstParts(f, shape, k)]
    BY <1>4, <1>11, <2>1, <2>2
  <2> HIDE DEF d
  <2>4. delivered \in Seq(Frame)
    BY DEF TypeInv, ReceiverTyped
  <2>5. delivered' # << >> /\ Last(delivered') = d
    <3>1. delivered \in Seq(Frame \cup {d}) /\ d \in Frame \cup {d}
      BY <2>4
    <3>2. /\ Len(Append(delivered, d)) = Len(delivered) + 1 /\ Len(delivered) \in Nat
          /\ Append(delivered, d)[Len(delivered) + 1] = d
      BY <3>1, AppendProperties
    <3> QED BY <2>3, <3>2 DEF Last
  <2>6. reassembly' = Idle
    BY <1>4, <2>1 DEF Reassembled, TypeInv, ReceiverTyped
  <2>7. HandedOver(f, k)'
    BY <1>2, <2>3, <2>5, <2>6 DEF HandedOver
  <2> QED BY <1>17, <2>7 DEF n
<1> QED BY <1>16, <1>17

\* What could not be kept is part of no frame.
LEMMA ReceiveFailsRecover ==
  ASSUME TypeInv, RecoverInv, ReceiveFails
  PROVE  RecoverInv'
<1>1. arrived' = Append(arrived, Unusable) /\ codec' = codec /\ frames' = frames
  BY DEF ReceiveFails, sender
<1>2. /\ Len(arrived') = Len(arrived) + 1 /\ Len(arrived) \in Nat
      /\ arrived'[Len(arrived) + 1].frame = 0
  <2>1. arrived \in Seq(Packet) /\ Unusable \in Packet /\ Unusable.frame = 0
    BY MediaAssumption DEF TypeInv, ReceiverTyped, Unusable, Packet
  <2> QED BY <1>1, <2>1, AppendProperties
<1> SUFFICES ASSUME NEW f \in DOMAIN frames, Recoverable(f)',
                    NEW k \in 1..PartCount(frames[f]), Started(f, k)'
             PROVE  FALSE
  BY <1>1 DEF RecoverInv
<1>3. frames[f] \in Shape /\ frames[f] # << >> /\ SimpleShape(frames[f]) /\ f \in Nat /\ f # 0
  BY <1>1, ShapesTyped DEF TypeInv, SenderTyped, Recoverable
<1>4. PartCount(frames[f]) \in Nat
  BY <1>3, PartCountType
<1>5. k \in 1..k /\ Len(arrived') - k + k = Len(arrived) + 1
  BY <1>2, <1>4
<1>6. PartOf(arrived'[Len(arrived) + 1]) = PartAt(f, frames[f], k)
  BY <1>1, <1>5 DEF Started
<1>7. arrived'[Len(arrived) + 1].frame = f
  BY <1>3, <1>6, PartAtTyped DEF PartOf
<1> QED BY <1>2, <1>3, <1>7

LEMMA NextRecover == TypeInv /\ RecoverInv /\ [Next]_vars => RecoverInv'
<1> SUFFICES ASSUME TypeInv, RecoverInv, [Next]_vars PROVE RecoverInv'
  OBVIOUS
<1>1. CASE SendFrame
  BY <1>1, SendFrameRecover
<1>2. CASE SendPacket
  BY <1>2, ReceiverRecover DEF SendPacket
<1>3. CASE SendFails
  BY <1>3, ReceiverRecover DEF SendFails
<1>4. CASE Receive
  BY <1>4, ReceiveRecover
<1>5. CASE ReceiveFails
  BY <1>5, ReceiveFailsRecover
<1>6. CASE UnitFails
  BY <1>6, ReceiverRecover DEF UnitFails
<1>7. CASE UNCHANGED vars
  BY <1>7, ReceiverRecover DEF vars, sender
<1> QED BY <1>1, <1>2, <1>3, <1>4, <1>5, <1>6, <1>7 DEF Next

LEMMA InvRecovers == TypeInv /\ RecoverInv => FrameRecovered
<1> SUFFICES ASSUME TypeInv, RecoverInv,
                    NEW f \in DOMAIN frames, Simple(f), ArrivedInOrder(f)
             PROVE  delivered # << >> /\ Last(delivered) = WholeFrame(f) /\ reassembly = Idle
  BY DEF FrameRecovered
<1> DEFINE shape == frames[f]
           n == PartCount(shape)
           parts == WholeFrame(f).data
<1>1. shape \in Shape /\ f \in Nat /\ DOMAIN shape = 1..Len(shape)
  BY ShapesTyped DEF TypeInv, SenderTyped, Shape
<1>2. SimpleShape(shape) /\ (codec # "h264" => shape = << 1 >>)
  <2>1. CASE codec = "h264"
    BY <2>1 DEF Simple, SimpleShape
  <2>2. CASE codec # "h264"
    <3>1. shape = << 1 >>
      BY <2>2 DEF Simple
    <3> QED BY <2>2, <3>1 DEF SimpleShape
  <2> QED BY <2>1, <2>2
<1>3. /\ 0 < Len(parts) /\ Len(parts) <= Len(arrived)
      /\ \A k \in 1..Len(parts) : PartOf(arrived[Len(arrived) - Len(parts) + k]) = parts[k]
      /\ \A i \in 1..(Len(arrived) - Len(parts)) : arrived[i].frame # f
  BY DEF ArrivedInOrder
<1>4. shape # << >>
  <2>1. shape = << >> => parts = << >>
    BY <1>1, <1>2, WholeFrameIs
  <2> QED BY <1>3, <2>1
<1>5. parts = FirstParts(f, shape, n)
  BY <1>1, <1>2, <1>4, WholeFrameIs DEF FirstParts
<1>6. n \in Nat \ {0}
  BY <1>1, <1>2, <1>4, PartCountType
<1>7. Len(parts) = n /\ \A k \in 1..n : parts[k] = PartAt(f, shape, k)
  <2>1. \A k \in 1..n : PartAt(f, shape, k) \in Part
    BY <1>1, <1>2, <1>4, PartAtTyped
  <2> DEFINE e(i) == PartAt(f, shape, i)
  <2> HIDE DEF n, parts, e
  <2>2. parts = [i \in 1..n |-> e(i)]
    BY <1>5 DEF FirstParts, e
  <2>3. Len(parts) = n /\ \A k \in 1..n : parts[k] = e(k)
    BY <1>6, <2>2
  <2> QED BY <2>3 DEF e
<1> HIDE DEF n, parts
<1>8. Recoverable(f)
  BY <1>2, <1>4 DEF Recoverable
<1>9. Started(f, n)
  BY <1>3, <1>7 DEF Started
<1>10. n \in 1..n /\ ~(n < n)
  BY <1>6
<1>11. HandedOver(f, n)
  BY <1>8, <1>9, <1>10 DEF RecoverInv, n
<1>12. Last(delivered) = [timestamp |-> f, data |-> parts]
  BY <1>5, <1>11 DEF HandedOver
<1>13. WholeFrame(f) = [timestamp |-> f, data |-> parts]
  BY DEF WholeFrame, parts
<1> QED BY <1>11, <1>12, <1>13 DEF HandedOver

\* The receiver always recovers: whatever was lost, repeated or reordered
\* before, a frame whose packets then arrive in order is delivered whole
\* (peer_connection.c:996-1050).
THEOREM RecoversAlways == Spec => []FrameRecovered
<1>1. Init => TypeInv /\ RecoverInv
  BY InitTyped, InitRecover
<1>2. TypeInv /\ RecoverInv /\ [Next]_vars => (TypeInv /\ RecoverInv)'
  BY NextTyped, NextRecover
<1> QED BY <1>1, <1>2, InvRecovers, PTL DEF Spec

-----------------------------------------------------------------------------
(***************************************************************************)
(* Frames are never mixed.  What a packet holds does not matter beyond the *)
(* frame it belongs to, so nothing is needed of the packetiser, and lists  *)
(* are only known to be sequences of something.                            *)
(***************************************************************************)
IsSequence(s) == \E S : s \in Seq(S)

OfOneFrame(data, timestamp) ==
  /\ IsSequence(data)
  /\ \A i \in DOMAIN data : data[i].frame = timestamp

BufferOK(r) ==
  /\ r.active \in BOOLEAN
  /\ OfOneFrame(r.data, r.timestamp)
  /\ r.active <=> r.data # << >>

DeliveredOK ==
  /\ IsSequence(delivered)
  /\ \A k \in DOMAIN delivered : OfOneFrame(delivered[k].data, delivered[k].timestamp)

Inv == BufferOK(reassembly) /\ DeliveredOK

\* Appending to a list of anything.
LEMMA Appended ==
  ASSUME NEW s, IsSequence(s), NEW e
  PROVE  LET t == Append(s, e)
         IN  /\ IsSequence(t)
             /\ t # << >>
             /\ \A i \in DOMAIN t : t[i] = e \/ (i \in DOMAIN s /\ t[i] = s[i])
<1>1. PICK S : s \in Seq(S)
  BY DEF IsSequence
<1> DEFINE T == S \cup {e}
           t == Append(s, e)
<1>2. s \in Seq(T) /\ e \in T
  BY <1>1
<1> HIDE DEF T
<1>3. /\ t \in Seq(T) /\ Len(t) = Len(s) + 1 /\ t[Len(s) + 1] = e
      /\ \A i \in 1..Len(s) : t[i] = s[i]
  BY <1>2, AppendProperties
<1>4. DOMAIN s = 1..Len(s) /\ Len(s) \in Nat
  BY <1>2, LenProperties
<1> HIDE DEF t
<1>5. DOMAIN t = 1..Len(t)
  BY <1>3, LenProperties
<1>6. t # << >>
  BY <1>3, <1>4
<1>7. \A i \in DOMAIN t : t[i] = e \/ (i \in DOMAIN s /\ t[i] = s[i])
  BY <1>3, <1>4, <1>5
<1>8. IsSequence(t)
  BY <1>3 DEF IsSequence
<1> QED BY <1>6, <1>7, <1>8 DEF t

LEMMA EmptyOK ==
  ASSUME NEW timestamp
  PROVE  OfOneFrame(<< >>, timestamp)
<1>1. << >> \in Seq({}) /\ DOMAIN << >> = {}
  OBVIOUS
<1> QED BY <1>1 DEF OfOneFrame, IsSequence

LEMMA IdleOK == BufferOK(Idle)
BY EmptyOK DEF BufferOK, Idle

\* track_append_reassembly, after the reset for a packet of another frame.
LEMMA JoinedOK ==
  ASSUME NEW r, BufferOK(r), NEW p
  PROVE  /\ BufferOK(Joined(r, p))
         /\ OfOneFrame(Joined(r, p).data, p.frame)
<1> DEFINE s == IF r.active /\ r.timestamp # p.frame /\ r.data # << >> THEN Idle ELSE r
           j == Joined(r, p)
           e == PartOf(p)
<1>1. e.frame = p.frame
  BY DEF PartOf
<1>2. BufferOK(s) /\ (s.active => s.timestamp = p.frame)
  BY IdleOK DEF BufferOK, Idle
<1>3. /\ j.active = TRUE
      /\ j.timestamp = IF s.active THEN s.timestamp ELSE p.frame
      /\ j.data = Append(s.data, e)
  BY DEF Joined
<1> HIDE DEF s, j, e
<1>4. j.timestamp = p.frame
  BY <1>2, <1>3 DEF BufferOK
<1>5. /\ IsSequence(j.data) /\ j.data # << >>
      /\ \A i \in DOMAIN j.data : j.data[i] = e \/ (i \in DOMAIN s.data /\ j.data[i] = s.data[i])
  BY <1>2, <1>3, Appended DEF BufferOK, OfOneFrame
<1>6. \A i \in DOMAIN s.data : s.data[i].frame = p.frame
  <2>1. CASE s.active
    BY <1>2, <2>1 DEF BufferOK, OfOneFrame
  <2>2. CASE ~s.active
    BY <1>2, <2>2 DEF BufferOK
  <2> QED BY <2>1, <2>2
<1>7. OfOneFrame(j.data, p.frame)
  BY <1>1, <1>5, <1>6 DEF OfOneFrame
<1>8. BufferOK(j)
  BY <1>3, <1>4, <1>5, <1>7 DEF BufferOK
<1> QED BY <1>7, <1>8 DEF j

-----------------------------------------------------------------------------
LEMMA InitInv == Init => Inv
<1>1. IsSequence(<< >>) /\ DOMAIN << >> = {}
  BY EmptyOK DEF OfOneFrame
<1> QED BY <1>1, IdleOK DEF Init, Inv, DeliveredOK

LEMMA ReceiveInv ==
  ASSUME Inv, Receive
  PROVE  Inv'
<1>1. PICK i \in DOMAIN sent :
        /\ reassembly' = Reassembled(sent[i])
        /\ delivered' =
             IF Completes(sent[i])
             THEN Append(delivered, [timestamp |-> sent[i].frame, data |-> DeliveredData(sent[i])])
             ELSE delivered
  BY DEF Receive
<1> DEFINE p == sent[i]
           d == [timestamp |-> p.frame, data |-> DeliveredData(p)]
<1>2. /\ reassembly' = Reassembled(p)
      /\ delivered' = IF Completes(p) THEN Append(delivered, d) ELSE delivered
  BY <1>1
<1>3. d.timestamp = p.frame /\ d.data = DeliveredData(p)
  OBVIOUS
<1> HIDE DEF p, d
<1>4. BufferOK(Joined(reassembly, p)) /\ OfOneFrame(Joined(reassembly, p).data, p.frame)
  BY JoinedOK DEF Inv
<1>5. BufferOK(reassembly')
  BY <1>2, <1>4, IdleOK DEF Reassembled, Inv
<1>6. OfOneFrame(DeliveredData(p), p.frame)
  <2>1. CASE codec = "h264"
    BY <1>4, <2>1 DEF DeliveredData
  <2>2. CASE codec # "h264"
    <3>1. DeliveredData(p) = <<PartOf(p)>> /\ PartOf(p).frame = p.frame
      BY <2>2 DEF DeliveredData, PartOf
    <3> DEFINE e == PartOf(p)
    <3>2. e.frame = p.frame /\ DeliveredData(p) = <<e>>
      BY <3>1
    <3> HIDE DEF e
    <3>3. <<e>> \in Seq({e}) /\ DOMAIN <<e>> = {1} /\ <<e>>[1] = e
      OBVIOUS
    <3> QED BY <3>2, <3>3 DEF OfOneFrame, IsSequence
  <2> QED BY <2>1, <2>2
<1>7. DeliveredOK'
  <2>1. CASE Completes(p)
    <3>1. delivered' = Append(delivered, d)
      BY <1>2, <2>1
    <3>2. /\ IsSequence(delivered')
          /\ \A k \in DOMAIN delivered' :
               delivered'[k] = d \/ (k \in DOMAIN delivered /\ delivered'[k] = delivered[k])
      BY <3>1, Appended DEF Inv, DeliveredOK
    <3>3. OfOneFrame(d.data, d.timestamp)
      BY <1>3, <1>6
    <3>4. ASSUME NEW k \in DOMAIN delivered'
          PROVE  OfOneFrame(delivered'[k].data, delivered'[k].timestamp)
      BY <3>2, <3>3 DEF Inv, DeliveredOK
    <3> QED BY <3>2, <3>4 DEF DeliveredOK
  <2>2. CASE ~Completes(p)
    BY <1>2, <2>2 DEF Inv, DeliveredOK
  <2> QED BY <2>1, <2>2
<1> QED BY <1>5, <1>7 DEF Inv

\* Sending does not touch the receiver.
LEMMA ReceiverUnchanged ==
  ASSUME Inv, UNCHANGED receiver
  PROVE  Inv'
BY DEF Inv, receiver, DeliveredOK

LEMMA NextInv == Inv /\ [Next]_vars => Inv'
<1> SUFFICES ASSUME Inv, [Next]_vars PROVE Inv'
  OBVIOUS
<1>1. CASE SendFrame
  BY <1>1, ReceiverUnchanged DEF SendFrame
<1>2. CASE SendPacket
  BY <1>2, ReceiverUnchanged DEF SendPacket
<1>3. CASE SendFails
  BY <1>3, ReceiverUnchanged DEF SendFails
<1>4. CASE Receive
  BY <1>4, ReceiveInv
<1>5. CASE ReceiveFails
  BY <1>5, IdleOK DEF ReceiveFails, Inv, DeliveredOK
<1>6. CASE UnitFails
  BY <1>6, ReceiverUnchanged DEF UnitFails
<1>7. CASE UNCHANGED vars
  BY <1>7, ReceiverUnchanged DEF vars
<1> QED BY <1>1, <1>2, <1>3, <1>4, <1>5, <1>6, <1>7 DEF Next

\* Whatever is lost, repeated or reordered, pc_process_incoming_rtp gives
\* on_video_frame nothing that is put together from two frames
\* (peer_connection.c:996-1050).
THEOREM FramesNeverMixed == Spec => []OneTimestamp
<1>1. Inv => OneTimestamp
  BY DEF Inv, DeliveredOK, OfOneFrame, OneTimestamp
<1> QED BY InitInv, NextInv, <1>1, PTL DEF Spec
=============================================================================
