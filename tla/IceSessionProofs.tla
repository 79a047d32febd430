-------------------------- MODULE IceSessionProofs --------------------------
(***************************************************************************)
(* Every operation of IceSession preserves SessionInv, for every bound on  *)
(* the candidates and whatever the addresses.  One lemma per operation:    *)
(* a specification whose steps apply these operations to a session gets    *)
(* the invariant by citing them.                                           *)
(***************************************************************************)
EXTENDS IceSession, SequenceTheorems, WellFoundedInduction, TLAPS

\* The product of two numbers up to the bound is within check_pairs[].
LEMMA ProductBound ==
  ASSUME NEW M \in Nat, NEW a \in Nat, NEW b \in Nat, a <= M, b <= M
  PROVE  a * b <= M * M
<1>1. a * b <= M * b
  OBVIOUS
<1>2. M * b <= M * M
  OBVIOUS
<1> QED
  BY <1>1, <1>2

\* One more factor.
LEMMA ProductStep ==
  ASSUME NEW a \in Nat, NEW b \in Nat
  PROVE  /\ a * b \in Nat
         /\ a * b = b * a
         /\ a * (b + 1) = a * b + a
         /\ (b + 1) * a = b * a + a
OBVIOUS

\* A nonempty set of naturals has a first element.
LEMMA FirstExists ==
  ASSUME NEW S, S \subseteq Nat, S # {}
  PROVE  IsFirst(First(S), S)
<1>1. \E i \in S : \A j \in S : ~ (j < i)
  <2>1. PICK i \in S : \A j \in S : ~ (<<j, i>> \in OpToRel(<, Nat))
    BY NatLessThanWellFounded, WFMin
  <2> QED
    BY <2>1 DEF OpToRel
<1>2. \E i : i \in S /\ IsFirst(i, S)
  BY <1>1 DEF IsFirst
<1> QED
  BY <1>2 DEF First

\* A function on 1..n is a sequence of length n.
LEMMA FunctionIsSeq ==
  ASSUME NEW S, NEW n \in Nat, NEW f \in [1..n -> S]
  PROVE  f \in Seq(S) /\ Len(f) = n
<1>1. f \in Seq(S)
  OBVIOUS
<1>2. DOMAIN f = 1..Len(f) /\ Len(f) \in Nat
  BY <1>1, LenProperties
<1>3. DOMAIN f = 1..n
  OBVIOUS
<1> QED
  BY <1>1, <1>2, <1>3, SMT

\* The fields of a typed session, with the arithmetic facts about its lists.
LEMMA SessionFields ==
  ASSUME NEW s, SessionTyped(s)
  PROVE  /\ s.state \in {"new", "gathering", "gathered", "checking", "done"}
         /\ s.socket \in BOOLEAN
         /\ s.local \in Seq(LocalCandidate)
         /\ s.remote \in Seq(RemoteAddr)
         /\ s.pairs \in Seq(CheckPair)
         /\ s.selected \in Nat
         /\ s.serverTxid \in Nat
         /\ Len(s.local) \in Nat /\ Len(s.remote) \in Nat /\ Len(s.pairs) \in Nat
         /\ DOMAIN s.local = 1..Len(s.local)
         /\ DOMAIN s.remote = 1..Len(s.remote)
         /\ DOMAIN s.pairs = 1..Len(s.pairs)
BY LenProperties DEF SessionTyped, Session

\* A new session satisfies the invariant.
LEMMA NewSessionOK == SessionInv(NewSession)
BY IceAssumption
   DEF SessionInv, SessionTyped, Session, NewSession, PairsInRange, PairCount,
       PairsDistinct, SelectedPairOK, HostsFirst

\* Changing pairs in place, without moving them or taking a success back.
LEMMA PairsUpdated ==
  ASSUME NEW s, SessionInv(s),
         NEW ps \in Seq(CheckPair),
         Len(ps) = Len(s.pairs),
         \A i \in 1..Len(ps) : /\ ps[i].local = s.pairs[i].local
                               /\ ps[i].remote = s.pairs[i].remote
                               /\ s.pairs[i].succeeded => ps[i].succeeded
  PROVE  SessionInv([s EXCEPT !.pairs = ps])
<1> DEFINE t == [s EXCEPT !.pairs = ps]
<1>1. SessionTyped(s) /\ s \in Session
  BY DEF SessionInv, SessionTyped
<1>2. /\ t \in Session
      /\ t.pairs = ps
      /\ t.local = s.local /\ t.remote = s.remote /\ t.state = s.state
      /\ t.selected = s.selected
  BY <1>1 DEF Session
<1>3. DOMAIN ps = 1..Len(ps) /\ DOMAIN s.pairs = 1..Len(ps)
  BY <1>1, SessionFields, LenProperties
<1> HIDE DEF t
<1>4. SessionTyped(t)
  BY <1>1, <1>2 DEF SessionTyped
<1>5. PairsInRange(t)
  BY <1>2, <1>3 DEF SessionInv, PairsInRange
<1>6. PairCount(t)
  BY <1>2 DEF SessionInv, PairCount
<1>7. PairsDistinct(t)
  BY <1>2, <1>3 DEF SessionInv, PairsDistinct
<1>8. SelectedPairOK(t) /\ HostsFirst(t)
  BY <1>2, <1>3 DEF SessionInv, SelectedPairOK, HostsFirst
<1> QED
  BY <1>4, <1>5, <1>6, <1>7, <1>8 DEF SessionInv, t

-----------------------------------------------------------------------------
(***************************************************************************)
(* Packets that change pairs in place, and the checks.                     *)
(***************************************************************************)

\* A binding request marks pairs as succeeded and nothing else.
LEMMA OnRequestOK ==
  ASSUME NEW s, SessionInv(s), NEW src
  PROVE  SessionInv(OnRequest(s, src))
<1> DEFINE ps == [i \in DOMAIN s.pairs |->
                   IF s.remote[s.pairs[i].remote] = src
                   THEN [s.pairs[i] EXCEPT !.succeeded = TRUE]
                   ELSE s.pairs[i]]
<1>1. SessionTyped(s)
  BY DEF SessionInv
<1>2. \A i \in 1..Len(s.pairs) : s.pairs[i] \in CheckPair
  BY <1>1, SessionFields, ElementOfSeq
<1>3. \A i \in 1..Len(s.pairs) :
        /\ ps[i] \in CheckPair
        /\ ps[i].local = s.pairs[i].local
        /\ ps[i].remote = s.pairs[i].remote
        /\ s.pairs[i].succeeded => ps[i].succeeded
  BY <1>1, <1>2, SessionFields DEF CheckPair
<1>4. ps \in Seq(CheckPair) /\ Len(ps) = Len(s.pairs)
  <2>1. ps \in [1..Len(s.pairs) -> CheckPair]
    BY <1>1, <1>3, SessionFields
  <2> HIDE DEF ps
  <2> QED
    BY <1>1, <2>1, SessionFields, FunctionIsSeq
<1> HIDE DEF ps
<1>5. SessionInv([s EXCEPT !.pairs = ps])
  BY <1>3, <1>4, PairsUpdated
<1> QED
  BY <1>5 DEF OnRequest, ps

\* So does the part of a binding response that is about a pair.
LEMMA CreditOK ==
  ASSUME NEW s, SessionInv(s), NEW txid
  PROVE  SessionInv(Credit(s, txid))
<1> DEFINE ps == [i \in DOMAIN s.pairs |->
                   IF IsFirst(i, Matches(s, txid))
                   THEN [s.pairs[i] EXCEPT !.succeeded = TRUE]
                   ELSE s.pairs[i]]
<1>1. SessionTyped(s)
  BY DEF SessionInv
<1>2. \A i \in 1..Len(s.pairs) : s.pairs[i] \in CheckPair
  BY <1>1, SessionFields, ElementOfSeq
<1>3. \A i \in 1..Len(s.pairs) :
        /\ ps[i] \in CheckPair
        /\ ps[i].local = s.pairs[i].local
        /\ ps[i].remote = s.pairs[i].remote
        /\ s.pairs[i].succeeded => ps[i].succeeded
  BY <1>1, <1>2, SessionFields DEF CheckPair
<1>4. ps \in Seq(CheckPair) /\ Len(ps) = Len(s.pairs)
  <2>1. ps \in [1..Len(s.pairs) -> CheckPair]
    BY <1>1, <1>3, SessionFields
  <2> HIDE DEF ps
  <2> QED
    BY <1>1, <2>1, SessionFields, FunctionIsSeq
<1> HIDE DEF ps
<1>5. SessionInv([s EXCEPT !.pairs = ps])
  BY <1>3, <1>4, PairsUpdated
<1> QED
  BY <1>5 DEF Credit, ps

\* Pinging the pairs that are due keeps the invariant, whenever the
\* requests are built.
LEMMA PingedOK ==
  ASSUME NEW s, SessionInv(s), CanCheck(s),
         NEW now \in Nat, NEW at, \A i \in Due(s, now) : at[i] \in Nat
  PROVE  SessionInv(Pinged(s, now, at))
<1> DEFINE ps == [i \in DOMAIN s.pairs |->
                   IF i \in Due(s, now)
                   THEN [s.pairs[i] EXCEPT !.ping = now, !.txid = at[i]]
                   ELSE s.pairs[i]]
           u == [s EXCEPT !.pairs = ps]
           v == [u EXCEPT !.state = IF s.state = "gathered" THEN "checking" ELSE s.state]
<1>1. SessionTyped(s)
  BY DEF SessionInv
<1>2. \A i \in 1..Len(s.pairs) : s.pairs[i] \in CheckPair
  BY <1>1, SessionFields, ElementOfSeq
<1>3. \A i \in 1..Len(s.pairs) :
        /\ ps[i] \in CheckPair
        /\ ps[i].local = s.pairs[i].local
        /\ ps[i].remote = s.pairs[i].remote
        /\ s.pairs[i].succeeded => ps[i].succeeded
  BY <1>1, <1>2, SessionFields DEF CheckPair
<1>4. ps \in Seq(CheckPair) /\ Len(ps) = Len(s.pairs)
  <2>1. ps \in [1..Len(s.pairs) -> CheckPair]
    BY <1>1, <1>3, SessionFields
  <2> HIDE DEF ps
  <2> QED
    BY <1>1, <2>1, SessionFields, FunctionIsSeq
<1>5. v = Pinged(s, now, at)
  BY <1>1 DEF Pinged, SessionTyped, Session
<1> HIDE DEF ps
<1>6. SessionInv(u)
  BY <1>3, <1>4, PairsUpdated
<1>7. /\ u.state = s.state
      /\ u \in Session
  BY <1>1, <1>4 DEF SessionTyped, Session
<1> HIDE DEF u
<1>8. /\ v \in Session
      /\ v.pairs = u.pairs /\ v.local = u.local /\ v.remote = u.remote
      /\ v.selected = u.selected
      /\ v.state = IF u.state = "gathered" THEN "checking" ELSE u.state
  BY <1>7 DEF Session
<1> HIDE DEF v
<1>9. SessionTyped(v) /\ PairsInRange(v) /\ PairCount(v) /\ PairsDistinct(v)
  BY <1>6, <1>8 DEF SessionInv, SessionTyped, PairsInRange, PairCount, PairsDistinct
<1>10. SelectedPairOK(v) /\ HostsFirst(v)
  BY <1>6, <1>8 DEF SessionInv, SelectedPairOK, HostsFirst
<1> QED
  BY <1>5, <1>9, <1>10 DEF SessionInv

\* Selecting the first succeeded pair.
LEMMA SelectedOK ==
  ASSUME NEW s, SessionInv(s), CanCheck(s)
  PROVE  SessionInv(Selected(s))
<1>1. CASE s.selected # 0 \/ Succeeded(s) = {}
  BY <1>1 DEF Selected
<1>2. CASE s.selected = 0 /\ Succeeded(s) # {}
  <2> DEFINE p == First(Succeeded(s))
             l == s.pairs[p].local
             t == [s EXCEPT !.selected = p, !.state = "done", !.local[l].selected = TRUE]
  <2>1. SessionTyped(s)
    BY DEF SessionInv
  <2>2. Succeeded(s) \subseteq 1..Len(s.pairs)
    BY <2>1, SessionFields DEF Succeeded
  <2>3. p \in Succeeded(s)
    <3>1. Succeeded(s) \subseteq Nat /\ Succeeded(s) # {}
      BY <1>2, <2>1, <2>2, SessionFields
    <3> QED
      BY <3>1, FirstExists DEF IsFirst
  <2>4. p \in DOMAIN s.pairs /\ s.pairs[p].succeeded /\ p \in 1..Len(s.pairs)
    BY <2>1, <2>3, SessionFields DEF Succeeded
  <2>5. l \in 1..Len(s.local)
    BY <2>1, <2>4, SessionFields DEF SessionInv, PairsInRange
  <2>6. t = Selected(s)
    BY <1>2 DEF Selected
  <2> HIDE DEF p
  <2>7. s.local[l] \in LocalCandidate
    BY <2>1, <2>5, SessionFields, ElementOfSeq
  <2> DEFINE ls == [s.local EXCEPT ![l] = [s.local[l] EXCEPT !.selected = TRUE]]
  <2>8. /\ ls \in Seq(LocalCandidate) /\ Len(ls) = Len(s.local)
        /\ ls[l].selected
        /\ DOMAIN ls = DOMAIN s.local
    <3>1. [s.local[l] EXCEPT !.selected = TRUE] \in LocalCandidate
      BY <2>7 DEF LocalCandidate
    <3>2. DOMAIN s.local = 1..Len(s.local) /\ s.local \in Seq(LocalCandidate)
      BY <2>1, SessionFields
    <3>3. ls[l] = [s.local[l] EXCEPT !.selected = TRUE]
      BY <2>5, <3>2
    <3> QED
      BY <2>5, <2>7, <3>1, <3>2, <3>3, ExceptSeq DEF LocalCandidate
  <2>9. /\ t \in Session
        /\ t.local = ls
        /\ t.remote = s.remote /\ t.pairs = s.pairs
        /\ t.selected = p /\ t.state = "done"
    <3>1. s \in Session /\ p \in Nat
      BY <2>1, <2>4, SessionFields DEF SessionTyped
    <3> QED
      BY <2>8, <3>1 DEF Session
  <2>10. p # 0
    BY <2>1, <2>4, SessionFields
  <2> HIDE DEF t
  <2>11. SessionTyped(t)
    BY <2>1, <2>8, <2>9 DEF SessionTyped
  <2>12. PairsInRange(t)
    BY <2>8, <2>9 DEF SessionInv, PairsInRange
  <2>13. PairCount(t)
    BY <2>8, <2>9 DEF SessionInv, PairCount
  <2>14. PairsDistinct(t)
    BY <2>9 DEF SessionInv, PairsDistinct
  <2>15. SelectedPairOK(t)
    BY <2>4, <2>8, <2>9, <2>10 DEF SelectedPairOK
  <2>16. HostsFirst(t)
    BY <2>9 DEF HostsFirst
  <2> QED
    BY <2>6, <2>11, <2>12, <2>13, <2>14, <2>15, <2>16 DEF SessionInv
<1> QED
  BY <1>1, <1>2

\* A pass of checks.
LEMMA CheckConnectivityOK ==
  ASSUME NEW s, SessionInv(s),
         NEW now \in Nat, NEW at, CanCheck(s) => \A i \in Due(s, now) : at[i] \in Nat
  PROVE  SessionInv(CheckConnectivity(s, now, at))
<1>1. CASE ~CanCheck(s)
  BY <1>1 DEF CheckConnectivity
<1>2. CASE CanCheck(s)
  <2>1. SessionInv(Pinged(s, now, at))
    BY <1>2, PingedOK
  <2>2. CanCheck(Pinged(s, now, at))
    <3>1. s \in Session
      BY DEF SessionInv, SessionTyped
    <3>2. Pinged(s, now, at).state = IF s.state = "gathered" THEN "checking" ELSE s.state
      BY <3>1 DEF Pinged, Session
    <3> QED
      BY <1>2, <3>2 DEF CanCheck
  <2> QED
    BY <1>2, <2>1, <2>2, SelectedOK DEF CheckConnectivity
<1> QED
  BY <1>1, <1>2

-----------------------------------------------------------------------------
(***************************************************************************)
(* Operations that add candidates and pairs.  The bound on check_pairs[]   *)
(* never cuts the loops short: that is what PairCount is for.              *)
(***************************************************************************)

\* c consists of the P elements of old followed by the n elements of new.
Joined(c, old, new, P, n) ==
  /\ Len(c) = P + n
  /\ DOMAIN c = 1..(P + n)
  /\ \A i \in 1..P : c[i] = old[i]
  /\ \A i \in (P + 1)..(P + n) : c[i] = new[i - P]
  /\ \A i \in 1..(P + n) :
       i \in 1..P \/ (i \in (P + 1)..(P + n) /\ i - P \in 1..n)

\* Concatenation joins.
LEMMA BlockAppended ==
  ASSUME NEW S, NEW old \in Seq(S), NEW new \in Seq(S),
         NEW P \in Nat, NEW n \in Nat, Len(old) = P, Len(new) = n
  PROVE  /\ old \o new \in Seq(S)
         /\ Joined(old \o new, old, new, P, n)
<1> DEFINE c == old \o new
<1>1. /\ c \in Seq(S) /\ Len(c) = P + n
      /\ \A i \in 1..(P + n) : c[i] = IF i <= P THEN old[i] ELSE new[i - P]
  BY ConcatProperties
<1>2. DOMAIN c = 1..(P + n)
  BY <1>1, LenProperties
<1> HIDE DEF c
<1>3. /\ \A i \in 1..P : c[i] = old[i]
      /\ \A i \in (P + 1)..(P + n) : c[i] = new[i - P]
  BY <1>1
<1>4. \A i \in 1..(P + n) : i \in 1..P \/ (i \in (P + 1)..(P + n) /\ i - P \in 1..n)
  OBVIOUS
<1> QED
  BY <1>1, <1>2, <1>3, <1>4 DEF c, Joined

\* The pairs in new are of candidates of t, at least one of them not in s.
FreshPairs(new, s, t) ==
  \A i \in 1..Len(new) :
    /\ new[i].local \in 1..Len(t.local)
    /\ new[i].remote \in 1..Len(t.remote)
    /\ new[i].local > Len(s.local) \/ new[i].remote > Len(s.remote)

NoPairTwice(new) ==
  \A i, j \in 1..Len(new) :
    new[i].local = new[j].local /\ new[i].remote = new[j].remote => i = j

LocalKept(s, t) == \A l \in 1..Len(s.local) : t.local[l] = s.local[l]

\* Adding a block of pairs, each with a candidate that was not there before.
LEMMA PairsExtended ==
  ASSUME NEW s, SessionInv(s), NEW t, SessionTyped(t), NEW new \in Seq(CheckPair),
         t.pairs = s.pairs \o new,
         t.state = s.state, t.selected = s.selected,
         Len(s.local) <= Len(t.local), Len(s.remote) <= Len(t.remote),
         LocalKept(s, t), PairCount(t), FreshPairs(new, s, t), NoPairTwice(new),
         HostsFirst(t)
  PROVE  SessionInv(t)
<1> DEFINE P == Len(s.pairs)
           n == Len(new)
           ps == s.pairs \o new
<1>0. Len(s.pairs) = P /\ Len(new) = n
  OBVIOUS
<1> HIDE DEF P, n
<1>1. /\ SessionTyped(s)
      /\ s.pairs \in Seq(CheckPair) /\ P \in Nat /\ n \in Nat
      /\ Len(s.local) \in Nat /\ Len(s.remote) \in Nat
      /\ DOMAIN s.pairs = 1..P
      /\ DOMAIN s.local = 1..Len(s.local) /\ DOMAIN s.remote = 1..Len(s.remote)
  BY <1>0, SessionFields, LenProperties DEF SessionInv
<1>2. /\ Len(t.local) \in Nat /\ Len(t.remote) \in Nat
      /\ DOMAIN t.local = 1..Len(t.local) /\ DOMAIN t.remote = 1..Len(t.remote)
  BY SessionFields
<1>3. /\ Len(ps) = P + n
      /\ DOMAIN ps = 1..(P + n)
      /\ \A i \in 1..P : ps[i] = s.pairs[i]
      /\ \A i \in (P + 1)..(P + n) : ps[i] = new[i - P]
      /\ \A i \in 1..(P + n) :
           i \in 1..P \/ (i \in (P + 1)..(P + n) /\ i - P \in 1..n)
  <2>1. Joined(ps, s.pairs, new, P, n)
    BY <1>0, <1>1, BlockAppended
  <2> QED
    BY <2>1 DEF Joined
<1> HIDE DEF ps
<1>4. \A i \in 1..P : /\ s.pairs[i].local \in 1..Len(s.local)
                      /\ s.pairs[i].remote \in 1..Len(s.remote)
                      /\ s.pairs[i].local \in Int /\ s.pairs[i].remote \in Int
  <2>1. PairsInRange(s)
    BY DEF SessionInv
  <2> SUFFICES ASSUME NEW i \in 1..P
               PROVE  /\ s.pairs[i].local \in 1..Len(s.local)
                      /\ s.pairs[i].remote \in 1..Len(s.remote)
    BY <1>1
  <2>2. i \in DOMAIN s.pairs
    BY <1>1
  <2>3. s.pairs[i].local \in DOMAIN s.local /\ s.pairs[i].remote \in DOMAIN s.remote
    BY <2>1, <2>2 DEF PairsInRange
  <2> QED
    BY <1>1, <2>3
<1>5. t.pairs = ps
  BY DEF ps
<1>6. /\ \A i \in 1..n : /\ new[i].local \in 1..Len(t.local)
                         /\ new[i].remote \in 1..Len(t.remote)
                         /\ new[i].local > Len(s.local) \/ new[i].remote > Len(s.remote)
      /\ \A i, j \in 1..n :
           new[i].local = new[j].local /\ new[i].remote = new[j].remote => i = j
  BY <1>0 DEF FreshPairs, NoPairTwice
<1>7. PairsInRange(t)
  <2> SUFFICES ASSUME NEW i \in 1..(P + n)
               PROVE  ps[i].local \in 1..Len(t.local) /\ ps[i].remote \in 1..Len(t.remote)
    BY <1>2, <1>3, <1>5 DEF PairsInRange
  <2>1. CASE i \in 1..P
    <3>1. ps[i].local \in 1..Len(s.local) /\ ps[i].remote \in 1..Len(s.remote)
      BY <2>1, <1>3, <1>4
    <3>2. /\ Len(s.local) \in Nat /\ Len(t.local) \in Nat /\ Len(s.local) <= Len(t.local)
          /\ Len(s.remote) \in Nat /\ Len(t.remote) \in Nat /\ Len(s.remote) <= Len(t.remote)
      BY <1>1, <1>2
    <3> QED
      BY ONLY <3>1, <3>2
  <2>2. CASE i \in (P + 1)..(P + n) /\ i - P \in 1..n
    <3>1. ps[i] = new[i - P]
      BY <2>2, <1>3
    <3>2. /\ new[i - P].local \in 1..Len(t.local)
          /\ new[i - P].remote \in 1..Len(t.remote)
      BY <2>2, <1>6
    <3> QED
      BY <3>1, <3>2
  <2> QED
    BY <1>3, <2>1, <2>2
<1>8. PairsDistinct(t)
  <2> SUFFICES ASSUME NEW i \in 1..(P + n), NEW j \in 1..(P + n),
                      ps[i].local = ps[j].local, ps[i].remote = ps[j].remote
               PROVE  i = j
    BY <1>3, <1>5 DEF PairsDistinct
  <2>1. CASE i \in 1..P /\ j \in 1..P
    <3>1. PairsDistinct(s)
      BY DEF SessionInv
    <3>2. ps[i] = s.pairs[i] /\ ps[j] = s.pairs[j]
      BY <2>1, <1>3
    <3> QED
      BY <2>1, <3>1, <3>2, <1>1 DEF PairsDistinct
  <2>2. CASE i \in 1..P /\ j \in (P + 1)..(P + n) /\ j - P \in 1..n
    <3>0. ps[i] = s.pairs[i]
      BY <2>2, <1>3
    <3>1. ps[i].local \in 1..Len(s.local) /\ ps[i].remote \in 1..Len(s.remote)
      BY <2>2, <3>0, <1>4
    <3>2. ps[j].local > Len(s.local) \/ ps[j].remote > Len(s.remote)
      BY <2>2, <1>3, <1>6
    <3>3. ps[i].local \in Int /\ ps[i].remote \in Int
      BY <2>2, <1>3, <1>4
    <3>4. ps[i].local = ps[j].local /\ ps[i].remote = ps[j].remote
      OBVIOUS
    <3>5. Len(s.local) \in Nat /\ Len(s.remote) \in Nat
      BY <1>1
    <3> QED
      BY ONLY <3>1, <3>2, <3>3, <3>4, <3>5
  <2>3. CASE j \in 1..P /\ i \in (P + 1)..(P + n) /\ i - P \in 1..n
    <3>0. ps[j] = s.pairs[j]
      BY <2>3, <1>3
    <3>1. ps[j].local \in 1..Len(s.local) /\ ps[j].remote \in 1..Len(s.remote)
      BY <2>3, <3>0, <1>4
    <3>2. ps[i].local > Len(s.local) \/ ps[i].remote > Len(s.remote)
      BY <2>3, <1>3, <1>6
    <3>3. ps[j].local \in Int /\ ps[j].remote \in Int
      BY <2>3, <1>3, <1>4
    <3>4. ps[i].local = ps[j].local /\ ps[i].remote = ps[j].remote
      OBVIOUS
    <3>5. Len(s.local) \in Nat /\ Len(s.remote) \in Nat
      BY <1>1
    <3> QED
      BY ONLY <3>1, <3>2, <3>3, <3>4, <3>5
  <2>4. CASE /\ i \in (P + 1)..(P + n) /\ i - P \in 1..n
             /\ j \in (P + 1)..(P + n) /\ j - P \in 1..n
    <3>1. ps[i] = new[i - P] /\ ps[j] = new[j - P]
      BY <2>4, <1>3
    <3>2. i - P = j - P
      BY <2>4, <3>1, <1>6
    <3>3. i \in Int /\ j \in Int /\ P \in Int
      BY <1>1
    <3> QED
      BY ONLY <3>2, <3>3
  <2> QED
    BY <1>3, <2>1, <2>2, <2>3, <2>4
<1>9. SelectedPairOK(t)
  <2>1. SelectedPairOK(s)
    BY DEF SessionInv
  <2>2. CASE s.selected = 0
    BY <2>1, <2>2 DEF SelectedPairOK
  <2>3. CASE s.selected # 0
    <3>1. s.selected \in 1..P /\ s.pairs[s.selected].succeeded
      BY <2>1, <2>3, <1>1 DEF SelectedPairOK
    <3>2. s.local[s.pairs[s.selected].local].selected
      BY <2>1, <2>3 DEF SelectedPairOK
    <3>3. ps[s.selected] = s.pairs[s.selected] /\ s.selected \in DOMAIN ps
      BY <3>1, <1>1, <1>3
    <3>4. t.local[s.pairs[s.selected].local].selected
      BY <3>1, <3>2, <1>4 DEF LocalKept
    <3> QED
      BY <2>1, <2>3, <3>1, <3>3, <3>4, <1>5 DEF SelectedPairOK
  <2> QED
    BY <2>2, <2>3
<1> QED
  BY <1>7, <1>8, <1>9 DEF SessionInv

\* Both loops have room for all the pairs they want to add.
LEMMA RoomForPairs ==
  ASSUME NEW s, SessionInv(s), NEW L \in Nat, NEW R \in Nat,
         Len(s.pairs) = L * R, L <= MaxCandidates, R + 1 <= MaxCandidates
  PROVE  PairsAdded(s, L) = L
<1>1. L * (R + 1) <= MaxCandidates * MaxCandidates
  BY ProductBound, IceAssumption
<1>2. L * R \in Nat /\ L * (R + 1) = L * R + L
  BY ProductStep
<1> DEFINE P == L * R
           Q == MaxCandidates * MaxCandidates
<1>3. P \in Nat /\ P + L <= Q /\ Len(s.pairs) = P
  BY <1>1, <1>2
<1>4. MaxPairs = Q /\ Q \in Int
  BY IceAssumption DEF MaxPairs
<1> HIDE DEF P, Q
<1> QED
  BY <1>3, <1>4 DEF PairsAdded, Room

\* A remote candidate is added after gathering.
LEMMA AddRemoteOK ==
  ASSUME NEW s, SessionInv(s), s.state \notin {"new", "gathering"},
         NEW a \in RemoteAddr, NEW udp \in BOOLEAN
  PROVE  SessionInv(AddRemote(s, a, udp))
<1>1. CASE AddRemoteFails(s) \/ ~udp
  BY <1>1 DEF AddRemote
<1>2. CASE ~AddRemoteFails(s) /\ udp
  <2> DEFINE L == Len(s.local)
             R == Len(s.remote)
             new == [l \in 1..L |-> NewPair(l, R + 1)]
             ps == s.pairs \o new
             rs == Append(s.remote, a)
             t == [s EXCEPT !.remote = rs, !.pairs = ps]
  <2>1. /\ s \in Session
        /\ s.remote \in Seq(RemoteAddr) /\ s.pairs \in Seq(CheckPair)
        /\ L \in Nat /\ R \in Nat /\ L <= MaxCandidates
    BY SessionFields DEF SessionInv, SessionTyped
  <2>2. R + 1 <= MaxCandidates /\ R < R + 1
    BY <1>2, <2>1, IceAssumption DEF AddRemoteFails
  <2>3. Len(s.pairs) = L * R
    BY DEF SessionInv, PairCount
  <2>4. PairsAdded(s, L) = L
    BY <2>1, <2>2, <2>3, RoomForPairs
  <2>5. AddRemote(s, a, udp) = t
    BY <1>2, <2>4 DEF AddRemote, RemotePairs
  <2>6. new \in Seq(CheckPair) /\ Len(new) = L
    <3>1. new \in [1..L -> CheckPair]
      BY <2>1 DEF NewPair, CheckPair
    <3> HIDE DEF new
    <3> QED
      BY <2>1, <3>1, FunctionIsSeq
  <2>7. \A i \in 1..L : new[i].local = i /\ new[i].remote = R + 1
    BY <2>1 DEF NewPair
  <2> HIDE DEF new
  <2>8. ps \in Seq(CheckPair) /\ Len(ps) = L * R + L
    <3>1. ps \in Seq(CheckPair) /\ Len(ps) = Len(s.pairs) + Len(new)
      BY <2>1, <2>6, ConcatProperties
    <3> HIDE DEF ps
    <3> QED
      BY <2>3, <2>6, <3>1
  <2>9. rs \in Seq(RemoteAddr) /\ Len(rs) = R + 1
    BY <2>1, AppendProperties
  <2> HIDE DEF ps, rs
  <2>10. /\ t \in Session
         /\ t.pairs = ps /\ t.remote = rs /\ t.local = s.local
         /\ t.state = s.state /\ t.selected = s.selected
    BY <2>1, <2>8, <2>9 DEF Session
  <2> HIDE DEF t
  <2>11. SessionTyped(t)
    BY <2>1, <2>2, <2>9, <2>10 DEF SessionTyped
  <2>12. PairCount(t)
    <3>1. L * (R + 1) = L * R + L
      BY <2>1, ProductStep
    <3> QED
      BY <3>1, <2>8, <2>9, <2>10 DEF PairCount
  <2>13. FreshPairs(new, s, t)
    BY <2>1, <2>2, <2>6, <2>7, <2>9, <2>10 DEF FreshPairs
  <2>14. NoPairTwice(new)
    BY <2>6, <2>7 DEF NoPairTwice
  <2>15. LocalKept(s, t) /\ HostsFirst(t)
    BY <2>10 DEF LocalKept, HostsFirst
  <2>16. Len(s.local) <= Len(t.local) /\ Len(s.remote) <= Len(t.remote)
    BY <2>1, <2>2, <2>9, <2>10
  <2>17. t.pairs = s.pairs \o new
    BY <2>10 DEF ps
  <2> HIDE DEF L, R
  <2> QED
    BY <2>5, <2>6, <2>10, <2>11, <2>12, <2>13, <2>14, <2>15, <2>16, <2>17, PairsExtended
<1> QED
  BY <1>1, <1>2

\* A mapped address adds a local candidate at any time.
LEMMA AddServerReflexiveOK ==
  ASSUME NEW s, SessionInv(s), NEW m \in LocalAddr
  PROVE  SessionInv(AddServerReflexive(s, m))
<1>1. CASE Len(s.local) >= MaxCandidates
  BY <1>1 DEF AddServerReflexive
<1>2. CASE ~(Len(s.local) >= MaxCandidates)
  <2> DEFINE L == Len(s.local)
             R == Len(s.remote)
             c == [type |-> "srflx", addr |-> m, selected |-> FALSE]
             new == [r \in 1..R |-> NewPair(L + 1, r)]
             ps == s.pairs \o new
             ls == Append(s.local, c)
             t == [s EXCEPT !.local = ls, !.pairs = ps]
  <2>1. /\ s \in Session
        /\ s.local \in Seq(LocalCandidate) /\ s.pairs \in Seq(CheckPair)
        /\ L \in Nat /\ R \in Nat /\ R <= MaxCandidates
    BY SessionFields DEF SessionInv, SessionTyped
  <2>2. L + 1 <= MaxCandidates /\ L < L + 1
    BY <1>2, <2>1, IceAssumption
  <2>3. Len(s.pairs) = R * L /\ Len(s.pairs) = L * R
    <3>1. Len(s.pairs) = L * R
      BY DEF SessionInv, PairCount
    <3>2. R * L = L * R
      BY <2>1, ProductStep
    <3> QED
      BY <3>1, <3>2
  <2>4. PairsAdded(s, R) = R
    BY <2>1, <2>2, <2>3, RoomForPairs
  <2>5. AddServerReflexive(s, m) = t
    BY <1>2, <2>4 DEF AddServerReflexive, LocalPairs
  <2>6. new \in Seq(CheckPair) /\ Len(new) = R
    <3>1. new \in [1..R -> CheckPair]
      BY <2>1 DEF NewPair, CheckPair
    <3> HIDE DEF new
    <3> QED
      BY <2>1, <3>1, FunctionIsSeq
  <2>7. \A i \in 1..R : new[i].remote = i /\ new[i].local = L + 1
    BY <2>1 DEF NewPair
  <2> HIDE DEF new
  <2>8. ps \in Seq(CheckPair) /\ Len(ps) = L * R + R
    <3>1. ps \in Seq(CheckPair) /\ Len(ps) = Len(s.pairs) + Len(new)
      BY <2>1, <2>6, ConcatProperties
    <3> HIDE DEF ps
    <3> QED
      BY <2>3, <2>6, <3>1
  <2>9. /\ ls \in Seq(LocalCandidate) /\ Len(ls) = L + 1
        /\ \A l \in 1..L : ls[l] = s.local[l]
    <3>1. c \in LocalCandidate
      BY DEF LocalCandidate
    <3> HIDE DEF c
    <3> QED
      BY <2>1, <3>1, AppendProperties
  <2> HIDE DEF ps, ls
  <2>10. /\ t \in Session
         /\ t.pairs = ps /\ t.local = ls /\ t.remote = s.remote
         /\ t.state = s.state /\ t.selected = s.selected
    BY <2>1, <2>8, <2>9 DEF Session
  <2> HIDE DEF t
  <2>11. SessionTyped(t)
    <3>1. SessionTyped(s)
      BY DEF SessionInv
    <3> QED
      BY <3>1, <2>1, <2>2, <2>9, <2>10 DEF SessionTyped
  <2>12. PairCount(t)
    <3>1. (L + 1) * R = L * R + R
      BY <2>1, ProductStep
    <3> QED
      BY <3>1, <2>8, <2>9, <2>10 DEF PairCount
  <2>13. FreshPairs(new, s, t)
    BY <2>1, <2>2, <2>6, <2>7, <2>9, <2>10 DEF FreshPairs
  <2>14. NoPairTwice(new)
    BY <2>6, <2>7 DEF NoPairTwice
  <2>15. LocalKept(s, t) /\ HostsFirst(t)
    BY <2>9, <2>10 DEF LocalKept, HostsFirst, SessionInv
  <2>16. Len(s.local) <= Len(t.local) /\ Len(s.remote) <= Len(t.remote)
    BY <2>1, <2>2, <2>9, <2>10
  <2>17. t.pairs = s.pairs \o new
    BY <2>10 DEF ps
  <2> HIDE DEF L, R
  <2> QED
    BY <2>5, <2>6, <2>10, <2>11, <2>12, <2>13, <2>14, <2>15, <2>16, <2>17, PairsExtended
<1> QED
  BY <1>1, <1>2

\* A binding response, with or without a mapped address.
LEMMA OnResponseOK ==
  ASSUME NEW s, SessionInv(s), NEW txid, NEW mapped \in SUBSET LocalAddr
  PROVE  SessionInv(OnResponse(s, txid, mapped))
<1> DEFINE credited == IF IsServerResponse(s, txid) THEN s ELSE Credit(s, txid)
<1>1. SessionInv(credited)
  BY CreditOK
<1> HIDE DEF credited
<1>2. CASE mapped = {}
  BY <1>1, <1>2 DEF OnResponse, credited
<1>3. CASE mapped # {}
  <2>1. (CHOOSE m \in mapped : TRUE) \in LocalAddr
    BY <1>3
  <2> QED
    BY <1>1, <1>3, <2>1, AddServerReflexiveOK DEF OnResponse, credited
<1> QED
  BY <1>2, <1>3

-----------------------------------------------------------------------------
(***************************************************************************)
(* Gathering.                                                              *)
(***************************************************************************)

\* Before the first remote candidate a host candidate needs no pairs.
LEMMA AddHostOK ==
  ASSUME NEW s, SessionInv(s), s.state \in {"new", "gathering"}, NEW a \in LocalAddr
  PROVE  SessionInv(AddHost(s, a)) /\ AddHost(s, a).state = s.state
<1> DEFINE c == [type |-> "host", addr |-> a, selected |-> FALSE]
           ls == Append(s.local, c)
           t == [s EXCEPT !.local = ls]
<1>1. CASE AddHost(s, a) = s
  BY <1>1
<1>2. CASE AddHost(s, a) = t /\ Len(s.local) < MaxCandidates
  <2>1. /\ s \in Session /\ SessionTyped(s)
        /\ s.local \in Seq(LocalCandidate) /\ Len(s.local) \in Nat
        /\ s.remote = << >>
        /\ s.pairs \in Seq(CheckPair) /\ DOMAIN s.pairs = 1..Len(s.pairs)
    BY SessionFields DEF SessionInv, SessionTyped, HostsFirst
  <2>2. Len(s.remote) = 0
    BY <2>1
  <2>3. Len(s.pairs) = 0
    BY <2>1, <2>2 DEF SessionInv, PairCount
  <2>4. ls \in Seq(LocalCandidate) /\ Len(ls) = Len(s.local) + 1
    <3>1. c \in LocalCandidate
      BY DEF LocalCandidate
    <3> HIDE DEF c
    <3> QED
      BY <2>1, <3>1, AppendProperties
  <2> HIDE DEF ls
  <2>5. /\ t \in Session
        /\ t.local = ls /\ t.remote = s.remote /\ t.pairs = s.pairs
        /\ t.state = s.state /\ t.selected = s.selected
    BY <2>1, <2>4 DEF Session
  <2> HIDE DEF t
  <2>6. SessionTyped(t)
    BY <1>2, <2>1, <2>4, <2>5, IceAssumption DEF SessionTyped
  <2>7. PairsInRange(t) /\ PairsDistinct(t)
    BY <2>1, <2>3, <2>5 DEF PairsInRange, PairsDistinct
  <2>8. PairCount(t)
    BY <2>1, <2>2, <2>3, <2>4, <2>5 DEF PairCount
  <2>9. SelectedPairOK(t) /\ HostsFirst(t)
    BY <2>1, <2>3, <2>5 DEF SessionInv, SelectedPairOK, HostsFirst
  <2> QED
    BY <1>2, <2>5, <2>6, <2>7, <2>8, <2>9 DEF SessionInv
<1>3. Len(s.local) \in Nat
  BY SessionFields DEF SessionInv
<1> QED
  BY <1>1, <1>2, <1>3, IceAssumption DEF AddHost

\* Steps that change the state, the socket and the server's id only.
LEMMA GatherStepOK ==
  ASSUME NEW s, SessionInv(s), s.state \in {"new", "gathering"},
         NEW t, t \in Session,
         t.local = s.local, t.remote = s.remote, t.pairs = s.pairs,
         t.selected = s.selected,
         t.state \in {"new", "gathering", "gathered"}
  PROVE  SessionInv(t)
<1>1. SessionTyped(t)
  BY DEF SessionInv, SessionTyped
<1>2. PairsInRange(t)
  BY DEF SessionInv, PairsInRange
<1>3. PairCount(t)
  BY DEF SessionInv, PairCount
<1>4. PairsDistinct(t)
  BY DEF SessionInv, PairsDistinct
<1>5. SelectedPairOK(t) /\ HostsFirst(t)
  BY DEF SessionInv, SelectedPairOK, HostsFirst
<1> QED
  BY <1>1, <1>2, <1>3, <1>4, <1>5 DEF SessionInv

\* Opening the socket, failing to, and the end of gathering.
LEMMA GatherOK ==
  ASSUME NEW s, SessionInv(s), s.state \in {"new", "gathering"}, NEW txid \in Nat
  PROVE  /\ SessionInv(GatherSocket(GatherStart(s)))
         /\ SessionInv(GatherFailed(GatherStart(s)))
         /\ SessionInv(GatherEnd(s, txid))
<1> s \in Session
  BY DEF SessionInv, SessionTyped
<1>1. SessionInv(GatherSocket(GatherStart(s)))
  BY GatherStepOK DEF GatherSocket, GatherStart, Session
<1>2. SessionInv(GatherFailed(GatherStart(s)))
  BY GatherStepOK DEF GatherFailed, GatherStart, Session
<1>3. SessionInv(GatherEnd(s, txid))
  BY GatherStepOK DEF GatherEnd, Session
<1> QED
  BY <1>1, <1>2, <1>3
=============================================================================
