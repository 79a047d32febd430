------------------------------ MODULE IceProofs ------------------------------
(***************************************************************************)
(* The safety of Ice for every bound and every set of addresses.  The      *)
(* inductive invariant adds to the three properties that host candidates   *)
(* are all there before the first remote candidate: without it a scan of   *)
(* the interfaces would leave combinations that are never checked.         *)
(***************************************************************************)
EXTENDS Ice, IceSessionProofs

IInv ==
  /\ SessionInv(ice)
  /\ clock \in Nat \ {0}
  /\ asked \subseteq Requests
  /\ heard \subseteq RemoteAddr

\* A new session, a clock that runs, nothing sent.
LEMMA InitOK == Init => IInv
BY NewSessionOK DEF Init, IInv

\* The invariant says what the properties of Ice say.
LEMMA IInvImplies == IInv => TypeOK /\ PairsComplete /\ SelectionSound
BY DEF IInv, SessionInv, TypeOK, PairsComplete, SelectionSound

\* Falling back to the loopback address.
LEMMA WithFallbackOK ==
  ASSUME NEW s, SessionInv(s), s.state = "gathering"
  PROVE  SessionInv(WithFallback(s)) /\ WithFallback(s).state = "gathering"
BY AddHostOK, EnvAssumption DEF WithFallback

\* The thread that creates the offer or the answer.
LEMMA ApiStepOK ==
  ASSUME IInv, ApiNext
  PROVE  IInv'
<1>1. /\ SessionInv(ice) /\ clock \in Nat \ {0}
      /\ asked \subseteq Requests /\ heard \subseteq RemoteAddr
  BY DEF IInv
<1>2. CASE OpenSocket \/ SocketFails
  <2>1. SessionInv(ice')
    BY <1>1, <1>2, GatherOK, 0 \in Nat DEF OpenSocket, SocketFails
  <2> QED
    BY <1>1, <1>2, <2>1 DEF OpenSocket, SocketFails, IInv
<1>3. CASE ScanInterface
  <2>1. SessionInv(ice')
    BY <1>1, <1>3, AddHostOK DEF ScanInterface
  <2> QED
    BY <1>1, <1>3, <2>1 DEF ScanInterface, IInv
<1>4. CASE FinishGathering
  <2>1. SessionInv(ice')
    BY <1>1, <1>4, WithFallbackOK, GatherOK, 0 \in Nat DEF FinishGathering
  <2> QED
    BY <1>1, <1>4, <2>1 DEF FinishGathering, IInv
<1>5. CASE FinishGatheringWithStun
  <2>1. SessionInv(ice')
    BY <1>1, <1>5, WithFallbackOK, GatherOK DEF FinishGatheringWithStun
  <2>2. asked' \subseteq Requests
    BY <1>1, <1>5 DEF FinishGatheringWithStun, Requests
  <2>3. clock' \in Nat \ {0}
    BY <1>1, <1>5 DEF FinishGatheringWithStun
  <2> QED
    BY <1>1, <1>5, <2>1, <2>2, <2>3 DEF FinishGatheringWithStun, IInv
<1>6. CASE AddRemoteCandidate
  <2>1. SessionInv(ice')
    BY <1>1, <1>6, AddRemoteOK DEF AddRemoteCandidate
  <2> QED
    BY <1>1, <1>6, <2>1 DEF AddRemoteCandidate, IInv
<1> QED
  BY <1>2, <1>3, <1>4, <1>5, <1>6 DEF ApiNext

\* A pass of checks: the requests it sends are well-formed, too.
LEMMA CheckOK ==
  ASSUME IInv, Check
  PROVE  IInv'
<1>1. /\ SessionInv(ice) /\ clock \in Nat \ {0}
      /\ asked \subseteq Requests /\ heard \subseteq RemoteAddr
  BY DEF IInv
<1> DEFINE due == IF CanCheck(ice) THEN Due(ice, clock) ELSE {}
           sent(at) == {[to |-> ice.remote[ice.pairs[i].remote], txid |-> at[i]] :
                          i \in due}
<1>2. PICK last \in clock..(clock + MaxSpan) : \E at \in PingTimes(due, last) :
        /\ ice' = CheckConnectivity(ice, clock, at)
        /\ asked' = asked \cup sent(at)
        /\ clock' = last
  BY DEF Check
<1>3. PICK at \in PingTimes(due, last) :
        /\ ice' = CheckConnectivity(ice, clock, at)
        /\ asked' = asked \cup sent(at)
        /\ clock' = last
  BY <1>2
<1>4. last \in Nat \ {0}
  BY <1>1, <1>2, EnvAssumption
<1>5. \A i \in due : at[i] \in Nat
  BY <1>1, <1>3, <1>4 DEF PingTimes
<1>6. SessionInv(ice')
  BY <1>1, <1>3, <1>5, CheckConnectivityOK
<1>7. sent(at) \subseteq Requests
  <2>1. ASSUME NEW i \in due
        PROVE  ice.remote[ice.pairs[i].remote] \in RemoteAddr
    <3>1. ice.pairs[i].remote \in DOMAIN ice.remote /\ ice.remote \in Seq(RemoteAddr)
      BY <1>1, <2>1, SessionFields DEF Due, SessionInv, PairsInRange
    <3> QED
      BY <3>1
  <2> QED
    BY <1>5, <2>1 DEF Requests
<1>8. heard' = heard
  BY DEF Check
<1> QED
  BY <1>1, <1>3, <1>4, <1>6, <1>7, <1>8 DEF IInv

\* The thread in tinyrtc_process_events.
LEMMA LoopStepOK ==
  ASSUME IInv, LoopNext
  PROVE  IInv'
<1>1. /\ SessionInv(ice) /\ clock \in Nat \ {0}
      /\ asked \subseteq Requests /\ heard \subseteq RemoteAddr
  BY DEF IInv
<1>2. CASE ReceiveRequest
  <2>1. SessionInv(ice')
    BY <1>1, <1>2, OnRequestOK DEF ReceiveRequest
  <2>2. heard' \subseteq RemoteAddr
    BY <1>1, <1>2, EnvAssumption DEF ReceiveRequest
  <2> QED
    BY <1>1, <1>2, <2>1, <2>2 DEF ReceiveRequest, IInv
<1>3. MappedSet \subseteq SUBSET LocalAddr
  BY DEF MappedSet
<1>4. ASSUME NEW q \in asked, ReceivePeerResponse(q)
      PROVE  IInv'
  <2>1. SessionInv(ice')
    BY <1>1, <1>3, <1>4, OnResponseOK DEF ReceivePeerResponse
  <2>2. heard' \subseteq RemoteAddr
    BY <1>1, <1>4, EnvAssumption DEF ReceivePeerResponse, Requests
  <2> QED
    BY <1>1, <1>4, <2>1, <2>2 DEF ReceivePeerResponse, IInv
<1>5. ASSUME NEW q \in asked, ReceiveServerResponse(q)
      PROVE  IInv'
  <2>1. SessionInv(ice')
    BY <1>1, <1>3, <1>5, OnResponseOK DEF ReceiveServerResponse
  <2> QED
    BY <1>1, <1>5, <2>1 DEF ReceiveServerResponse, IInv
<1> QED
  BY <1>2, <1>4, <1>5, CheckOK DEF LoopNext

\* Every step keeps the invariant.
LEMMA StepOK == IInv /\ [Next]_vars => IInv'
<1> SUFFICES ASSUME IInv, [Next]_vars
             PROVE  IInv'
  OBVIOUS
<1>1. CASE Tick
  BY <1>1 DEF Tick, IInv
<1>2. CASE UNCHANGED vars
  BY <1>2 DEF vars, IInv
<1> QED
  BY <1>1, <1>2, ApiStepOK, LoopStepOK DEF Next

\* The inductive invariant holds in every reachable state.
THEOREM Invariance == Spec => []IInv
BY InitOK, StepOK, PTL DEF Spec

\* Type correctness: no list outgrows its array in ice_session_t.
THEOREM TypeCorrect == Spec => []TypeOK
BY Invariance, IInvImplies, PTL

\* Every local candidate is checked against every remote one, exactly once.
THEOREM PairsAreComplete == Spec => []PairsComplete
BY Invariance, IInvImplies, PTL

\* The session is done exactly when a pair whose check succeeded is selected.
THEOREM SelectionIsSound == Spec => []SelectionSound
BY Invariance, IInvImplies, PTL

-----------------------------------------------------------------------------
(***************************************************************************)
(* What a step may not do: Kept(ice, ice').  One lemma per operation.      *)
(***************************************************************************)

\* Keeping is transitive: an operation may be a composition.
LEMMA KeptTwice ==
  ASSUME NEW s, NEW t, NEW u, Kept(s, t), Kept(t, u)
  PROVE  Kept(s, u)
BY DEF Kept

\* The lists as functions on their indices.
LEMMA Domains ==
  ASSUME NEW s, SessionInv(s)
  PROVE  /\ s \in Session
         /\ s.local \in Seq(LocalCandidate) /\ DOMAIN s.local = 1..Len(s.local)
         /\ s.remote \in Seq(RemoteAddr) /\ DOMAIN s.remote = 1..Len(s.remote)
         /\ s.pairs \in Seq(CheckPair) /\ DOMAIN s.pairs = 1..Len(s.pairs)
         /\ \A i \in DOMAIN s.pairs : s.pairs[i] \in CheckPair
         /\ \A i \in DOMAIN s.local : s.local[i] \in LocalCandidate
<1>1. SessionTyped(s) /\ s \in Session
  BY DEF SessionInv, SessionTyped
<1> QED
  BY <1>1, SessionFields, ElementOfSeq

\* Packets and pings change pairs in place.
LEMMA InPlaceKept ==
  ASSUME NEW s, SessionInv(s), NEW src, NEW txid, NEW now, NEW at
  PROVE  /\ Kept(s, OnRequest(s, src))
         /\ Kept(s, Credit(s, txid))
         /\ Kept(s, Pinged(s, now, at))
<1>1. s \in Session /\ \A i \in DOMAIN s.pairs : s.pairs[i] \in CheckPair
  BY Domains
<1>2. Kept(s, OnRequest(s, src))
  BY <1>1 DEF Kept, OnRequest, Session, CheckPair
<1>3. Kept(s, Credit(s, txid))
  BY <1>1 DEF Kept, Credit, Session, CheckPair
<1>4. Kept(s, Pinged(s, now, at))
  BY <1>1 DEF Kept, Pinged, Session, CheckPair
<1> QED
  BY <1>2, <1>3, <1>4

\* A selection is made once, and marks a candidate without changing it.
LEMMA SelectedKept ==
  ASSUME NEW s, SessionInv(s)
  PROVE  Kept(s, Selected(s))
<1>1. s \in Session /\ \A i \in DOMAIN s.local : s.local[i] \in LocalCandidate
  BY Domains
<1> QED
  BY <1>1 DEF Kept, Selected, Session, LocalCandidate

\* What was in a sequence stays where it is when others follow.
LEMMA PrefixKept ==
  ASSUME NEW S, NEW old \in Seq(S)
  PROVE  /\ \A x \in S : \A i \in DOMAIN old :
              i \in DOMAIN Append(old, x) /\ Append(old, x)[i] = old[i]
         /\ \A new \in Seq(S) : \A i \in DOMAIN old :
              i \in DOMAIN (old \o new) /\ (old \o new)[i] = old[i]
<1>1. DOMAIN old = 1..Len(old) /\ Len(old) \in Nat
  BY LenProperties
<1>2. ASSUME NEW x \in S, NEW i \in DOMAIN old
      PROVE  i \in DOMAIN Append(old, x) /\ Append(old, x)[i] = old[i]
  <2>1. /\ Append(old, x) \in Seq(S) /\ Len(Append(old, x)) = Len(old) + 1
        /\ Append(old, x)[i] = old[i]
    BY <1>1, <1>2, AppendProperties
  <2>2. DOMAIN Append(old, x) = 1..(Len(old) + 1)
    BY <2>1, LenProperties
  <2> QED
    BY <1>1, <2>1, <2>2
<1>3. ASSUME NEW new \in Seq(S), NEW i \in DOMAIN old
      PROVE  i \in DOMAIN (old \o new) /\ (old \o new)[i] = old[i]
  <2> DEFINE n == Len(new)
  <2>1. n \in Nat
    BY LenProperties
  <2>2. Joined(old \o new, old, new, Len(old), n)
    BY <1>1, <2>1, BlockAppended
  <2> HIDE DEF n
  <2> QED
    BY <1>1, <2>1, <2>2 DEF Joined
<1> QED
  BY <1>2, <1>3

\* New pairs are pairs.
LEMMA NewPairsTyped ==
  ASSUME NEW s, SessionInv(s), NEW k \in Nat
  PROVE  RemotePairs(s, k) \in Seq(CheckPair) /\ LocalPairs(s, k) \in Seq(CheckPair)
<1> DEFINE L == Len(s.local)
           R == Len(s.remote)
           Q == MaxCandidates * MaxCandidates
<1>1. L \in Nat /\ R \in Nat /\ L <= MaxCandidates /\ R <= MaxCandidates
  BY SessionFields DEF SessionInv, SessionTyped
<1>2. Len(s.pairs) = L * R
  BY DEF SessionInv, PairCount
<1>3. L * R \in Nat /\ L * R <= Q /\ Q \in Nat /\ MaxPairs = Q
  <2>1. MaxCandidates \in Nat
    BY IceAssumption
  <2>2. L * R <= Q
    BY <1>1, <2>1, ProductBound
  <2>3. L * R \in Nat /\ Q \in Nat
    BY <1>1, <2>1, ProductStep
  <2> QED
    BY <2>2, <2>3 DEF MaxPairs
<1> HIDE DEF L, R, Q
<1>4. PairsAdded(s, L) \in Nat /\ PairsAdded(s, R) \in Nat
  <2>1. Len(s.pairs) \in Nat /\ Len(s.pairs) <= Q
    BY <1>2, <1>3
  <2> QED
    BY <1>1, <1>3, <2>1 DEF PairsAdded, Room
<1>5. RemotePairs(s, k) \in [1..PairsAdded(s, L) -> CheckPair]
  BY DEF RemotePairs, NewPair, CheckPair, L
<1>6. LocalPairs(s, k) \in [1..PairsAdded(s, R) -> CheckPair]
  BY DEF LocalPairs, NewPair, CheckPair, R
<1> QED
  BY <1>4, <1>5, <1>6, FunctionIsSeq

\* A remote candidate and its pairs are appended.
LEMMA AddRemoteKept ==
  ASSUME NEW s, SessionInv(s), NEW a \in RemoteAddr, NEW udp \in BOOLEAN
  PROVE  Kept(s, AddRemote(s, a, udp))
<1> DEFINE new == RemotePairs(s, Len(s.remote) + 1)
           rs == Append(s.remote, a)
           ps == s.pairs \o new
<1>1. s \in Session /\ s.remote \in Seq(RemoteAddr) /\ s.pairs \in Seq(CheckPair)
  BY Domains
<1>2. new \in Seq(CheckPair)
  BY NewPairsTyped, SessionFields DEF SessionInv
<1>3. AddRemote(s, a, udp) \in {s, [s EXCEPT !.remote = rs, !.pairs = ps]}
  BY DEF AddRemote
<1> HIDE DEF new
<1>4. \A i \in DOMAIN s.remote : i \in DOMAIN rs /\ rs[i] = s.remote[i]
  BY <1>1, PrefixKept
<1>5. \A i \in DOMAIN s.pairs : i \in DOMAIN ps /\ ps[i] = s.pairs[i]
  BY <1>1, <1>2, PrefixKept
<1> HIDE DEF rs, ps
<1> QED
  BY <1>1, <1>3, <1>4, <1>5 DEF Kept, Session

\* So is a local one; a host candidate has no pairs.
LEMMA AddLocalKept ==
  ASSUME NEW s, SessionInv(s), NEW m \in LocalAddr
  PROVE  Kept(s, AddServerReflexive(s, m)) /\ Kept(s, AddHost(s, m))
<1> DEFINE host == [type |-> "host", addr |-> m, selected |-> FALSE]
           srflx == [type |-> "srflx", addr |-> m, selected |-> FALSE]
           new == LocalPairs(s, Len(s.local) + 1)
           hs == Append(s.local, host)
           ls == Append(s.local, srflx)
           ps == s.pairs \o new
<1>1. s \in Session /\ s.local \in Seq(LocalCandidate) /\ s.pairs \in Seq(CheckPair)
  BY Domains
<1>2. new \in Seq(CheckPair)
  BY NewPairsTyped, SessionFields DEF SessionInv
<1>3. host \in LocalCandidate /\ srflx \in LocalCandidate
  BY DEF LocalCandidate
<1>4. /\ AddServerReflexive(s, m) \in {s, [s EXCEPT !.local = ls, !.pairs = ps]}
      /\ AddHost(s, m) \in {s, [s EXCEPT !.local = hs]}
  BY DEF AddServerReflexive, AddHost
<1> HIDE DEF new, host, srflx
<1>5. \A i \in DOMAIN s.local : /\ i \in DOMAIN ls /\ ls[i] = s.local[i]
                               /\ i \in DOMAIN hs /\ hs[i] = s.local[i]
  BY <1>1, <1>3, PrefixKept
<1>6. \A i \in DOMAIN s.pairs : i \in DOMAIN ps /\ ps[i] = s.pairs[i]
  BY <1>1, <1>2, PrefixKept
<1> HIDE DEF hs, ls, ps
<1>7. Kept(s, AddServerReflexive(s, m))
  BY <1>1, <1>4, <1>5, <1>6 DEF Kept, Session
<1>8. Kept(s, AddHost(s, m))
  BY <1>1, <1>4, <1>5 DEF Kept, Session
<1> QED
  BY <1>7, <1>8

\* Steps of gathering change the state, the socket and the server's id.
LEMMA GatherKept ==
  ASSUME NEW s, s \in Session, NEW txid
  PROVE  /\ Kept(s, GatherSocket(GatherStart(s)))
         /\ Kept(s, GatherFailed(GatherStart(s)))
         /\ Kept(s, GatherEnd(s, txid))
BY DEF Kept, Session, GatherSocket, GatherStart, GatherFailed, GatherEnd

\* A response credits a pair and may add a candidate.
LEMMA OnResponseKept ==
  ASSUME NEW s, SessionInv(s), NEW txid, NEW mapped \in SUBSET LocalAddr
  PROVE  Kept(s, OnResponse(s, txid, mapped))
<1> DEFINE credited == IF IsServerResponse(s, txid) THEN s ELSE Credit(s, txid)
<1>1. SessionInv(credited) /\ Kept(s, credited)
  BY CreditOK, InPlaceKept DEF Kept
<1> HIDE DEF credited
<1>2. CASE mapped = {}
  BY <1>1, <1>2 DEF OnResponse, credited
<1>3. CASE mapped # {}
  <2>1. PICK m \in LocalAddr : m = CHOOSE x \in mapped : TRUE
    BY <1>3
  <2>2. Kept(credited, AddServerReflexive(credited, m))
    BY <1>1, AddLocalKept
  <2> QED
    BY <1>1, <1>3, <2>1, <2>2, KeptTwice DEF OnResponse, credited
<1> QED
  BY <1>2, <1>3

\* A pass of checks pings, then may select.
LEMMA CheckConnectivityKept ==
  ASSUME NEW s, SessionInv(s),
         NEW now \in Nat, NEW at, CanCheck(s) => \A i \in Due(s, now) : at[i] \in Nat
  PROVE  Kept(s, CheckConnectivity(s, now, at))
<1>1. CASE ~CanCheck(s)
  BY <1>1 DEF CheckConnectivity, Kept
<1>2. CASE CanCheck(s)
  <2>1. SessionInv(Pinged(s, now, at)) /\ Kept(s, Pinged(s, now, at))
    BY <1>2, PingedOK, InPlaceKept
  <2> QED
    BY <1>2, <2>1, SelectedKept, KeptTwice DEF CheckConnectivity
<1> QED
  BY <1>1, <1>2

\* A step of the specification keeps what the session had.
LEMMA StepKept == IInv /\ [Next]_vars => Kept(ice, ice')
<1> SUFFICES ASSUME IInv, [Next]_vars
             PROVE  Kept(ice, ice')
  OBVIOUS
<1>1. /\ SessionInv(ice) /\ ice \in Session /\ clock \in Nat \ {0}
      /\ asked \subseteq Requests
  BY DEF IInv, SessionInv, SessionTyped
<1>2. CASE ice' = ice
  BY <1>2 DEF Kept
<1>3. CASE OpenSocket \/ SocketFails
  BY <1>1, <1>3, GatherKept DEF OpenSocket, SocketFails
<1>4. CASE ScanInterface
  BY <1>1, <1>4, AddLocalKept DEF ScanInterface
<1>5. CASE FinishGathering \/ FinishGatheringWithStun
  <2>1. ice.state = "gathering"
    BY <1>5 DEF FinishGathering, FinishGatheringWithStun
  <2>2. Kept(ice, WithFallback(ice)) /\ WithFallback(ice) \in Session
    <3>1. SessionInv(WithFallback(ice))
      BY <1>1, <2>1, WithFallbackOK
    <3>2. Kept(ice, ice)
      BY DEF Kept
    <3> QED
      BY <1>1, <3>1, <3>2, AddLocalKept, EnvAssumption DEF WithFallback, SessionInv, SessionTyped
  <2>3. \E n : ice' = GatherEnd(WithFallback(ice), n)
    BY <1>5 DEF FinishGathering, FinishGatheringWithStun
  <2> QED
    BY <2>2, <2>3, GatherKept, KeptTwice
<1>6. CASE AddRemoteCandidate
  BY <1>1, <1>6, AddRemoteKept DEF AddRemoteCandidate
<1>7. CASE ReceiveRequest
  BY <1>1, <1>7, InPlaceKept DEF ReceiveRequest
<1>8. ASSUME NEW q \in asked, ReceivePeerResponse(q) \/ ReceiveServerResponse(q)
      PROVE  Kept(ice, ice')
  <2>1. MappedSet \subseteq SUBSET LocalAddr
    BY DEF MappedSet
  <2>2. \E mapped \in MappedSet : ice' = OnResponse(ice, q.txid, mapped)
    BY <1>8 DEF ReceivePeerResponse, ReceiveServerResponse
  <2> QED
    BY <1>1, <2>1, <2>2, OnResponseKept
<1>9. CASE Check
  <2> DEFINE due == IF CanCheck(ice) THEN Due(ice, clock) ELSE {}
  <2>1. PICK last \in clock..(clock + MaxSpan) : \E at \in PingTimes(due, last) :
          ice' = CheckConnectivity(ice, clock, at)
    BY <1>9 DEF Check
  <2>2. PICK at \in PingTimes(due, last) : ice' = CheckConnectivity(ice, clock, at)
    BY <2>1
  <2>3. \A i \in due : at[i] \in Nat
    BY <1>1, <2>1, <2>2, EnvAssumption DEF PingTimes
  <2> QED
    BY <1>1, <2>2, <2>3, CheckConnectivityKept
<1>10. CASE Tick
  BY <1>2, <1>10 DEF Tick
<1> QED
  BY <1>2, <1>3, <1>4, <1>5, <1>6, <1>7, <1>8, <1>9, <1>10
     DEF Next, ApiNext, LoopNext, vars

\* Candidates, successes and the selection are never taken back.
THEOREM NothingIsForgotten == Spec => NothingForgotten
<1>1. IInv /\ [Next]_vars => [Kept(ice, ice')]_vars
  BY StepKept
<1> QED
  BY <1>1, Invariance, PTL DEF Spec, NothingForgotten

-----------------------------------------------------------------------------
(***************************************************************************)
(* Where a success comes from.  CreditSoundIfDistinct says nothing of the  *)
(* ids the pairs hold; the inductive form adds that each of them is the id *)
(* of a request that was sent to the pair's own remote address.            *)
(***************************************************************************)
Who(s, i) == s.remote[s.pairs[i].remote]

\* The id of a pair belongs to a request to its remote address.
Awaited(s, requests) ==
  \A i \in DOMAIN s.pairs :
    s.pairs[i].txid # 0 => [to |-> Who(s, i), txid |-> s.pairs[i].txid] \in requests

\* A pair that succeeded has a remote address from which something was heard.
Vouched(s, sources) ==
  \A i \in DOMAIN s.pairs : s.pairs[i].succeeded => Who(s, i) \in sources

Distinct == \A p, q \in asked : p.txid = q.txid => p.to = q.to

CreditInv ==
  /\ IInv
  /\ Awaited(ice, asked)
  /\ Distinct => Vouched(ice, heard)

\* The pairs of t are those of s, and untried ones.
Carried(s, t) ==
  \A i \in DOMAIN t.pairs :
    \/ t.pairs[i].txid = 0 /\ t.pairs[i].succeeded = FALSE
    \/ /\ i \in DOMAIN s.pairs
       /\ Who(t, i) = Who(s, i)
       /\ t.pairs[i].txid = s.pairs[i].txid
       /\ t.pairs[i].succeeded => s.pairs[i].succeeded

LEMMA CarriedOver ==
  ASSUME NEW s, NEW t, Carried(s, t), NEW A, NEW B, A \subseteq B
  PROVE  /\ Awaited(s, A) => Awaited(t, B)
         /\ Vouched(s, A) => Vouched(t, B)
BY DEF Carried, Awaited, Vouched

\* A remote candidate is appended, with pairs that are untried.
LEMMA AddRemoteCarried ==
  ASSUME NEW s, SessionInv(s), NEW a \in RemoteAddr, NEW udp \in BOOLEAN
  PROVE  Carried(s, AddRemote(s, a, udp))
<1> DEFINE new == RemotePairs(s, Len(s.remote) + 1)
           rs == Append(s.remote, a)
           ps == s.pairs \o new
           P == Len(s.pairs)
           n == Len(new)
<1>1. s \in Session /\ s.remote \in Seq(RemoteAddr) /\ s.pairs \in Seq(CheckPair)
      /\ DOMAIN s.pairs = 1..P
  BY Domains
<1>2. new \in Seq(CheckPair) /\ n \in Nat /\ P \in Nat /\ DOMAIN new = 1..n
  <2>1. new \in Seq(CheckPair)
    BY NewPairsTyped, SessionFields DEF SessionInv
  <2> HIDE DEF new
  <2> QED BY <1>1, <2>1, LenProperties
<1>3. \A i \in 1..n : new[i].txid = 0 /\ new[i].succeeded = FALSE
  BY <1>2 DEF RemotePairs, NewPair
<1>4. AddRemote(s, a, udp) \in {s, [s EXCEPT !.remote = rs, !.pairs = ps]}
  BY DEF AddRemote
<1>5. Len(new) = n /\ Len(s.pairs) = P
  OBVIOUS
<1> HIDE DEF new, n, P
<1>6. Joined(ps, s.pairs, new, P, n)
  BY <1>1, <1>2, <1>5, BlockAppended
<1>7. \A i \in DOMAIN s.remote : rs[i] = s.remote[i]
  BY <1>1, PrefixKept
<1>8. \A i \in DOMAIN s.pairs : s.pairs[i].remote \in DOMAIN s.remote
  BY DEF SessionInv, PairsInRange
<1> HIDE DEF rs, ps
<1> DEFINE t == [s EXCEPT !.remote = rs, !.pairs = ps]
<1>9. t.remote = rs /\ t.pairs = ps
  BY <1>1 DEF Session
<1> HIDE DEF t
<1>10. Carried(s, t)
  <2> SUFFICES ASSUME NEW i \in 1..(P + n)
               PROVE  \/ ps[i].txid = 0 /\ ps[i].succeeded = FALSE
                      \/ /\ i \in DOMAIN s.pairs
                         /\ rs[ps[i].remote] = s.remote[s.pairs[i].remote]
                         /\ ps[i].txid = s.pairs[i].txid
                         /\ ps[i].succeeded => s.pairs[i].succeeded
    BY <1>6, <1>9 DEF Carried, Who, Joined
  <2>1. CASE i \in 1..P
    BY <1>1, <1>6, <1>7, <1>8, <2>1 DEF Joined
  <2>2. CASE i \in (P + 1)..(P + n) /\ i - P \in 1..n
    BY <1>3, <1>6, <2>2 DEF Joined
  <2> QED BY <1>6, <2>1, <2>2 DEF Joined
<1>11. Carried(s, s)
  BY DEF Carried
<1> QED BY <1>4, <1>10, <1>11 DEF t

\* So is a local one.
LEMMA AddLocalCarried ==
  ASSUME NEW s, SessionInv(s), NEW m \in LocalAddr
  PROVE  Carried(s, AddServerReflexive(s, m)) /\ Carried(s, AddHost(s, m))
<1> DEFINE new == LocalPairs(s, Len(s.local) + 1)
           ls == Append(s.local, [type |-> "srflx", addr |-> m, selected |-> FALSE])
           ps == s.pairs \o new
           P == Len(s.pairs)
           n == Len(new)
<1>1. s \in Session /\ s.pairs \in Seq(CheckPair) /\ DOMAIN s.pairs = 1..P
  BY Domains
<1>2. new \in Seq(CheckPair) /\ n \in Nat /\ P \in Nat /\ DOMAIN new = 1..n
  <2>1. new \in Seq(CheckPair)
    BY NewPairsTyped, SessionFields DEF SessionInv
  <2> HIDE DEF new
  <2> QED BY <1>1, <2>1, LenProperties
<1>3. \A i \in 1..n : new[i].txid = 0 /\ new[i].succeeded = FALSE
  BY <1>2 DEF LocalPairs, NewPair
<1>4. AddServerReflexive(s, m) \in {s, [s EXCEPT !.local = ls, !.pairs = ps]}
  BY DEF AddServerReflexive
<1>5. Len(new) = n /\ Len(s.pairs) = P
  OBVIOUS
<1> HIDE DEF new, n, P
<1>6. Joined(ps, s.pairs, new, P, n)
  BY <1>1, <1>2, <1>5, BlockAppended
<1> HIDE DEF ls, ps
<1> DEFINE t == [s EXCEPT !.local = ls, !.pairs = ps]
<1>7. t.remote = s.remote /\ t.pairs = ps
  BY <1>1 DEF Session
<1> HIDE DEF t
<1>8. Carried(s, t)
  BY <1>1, <1>3, <1>6, <1>7 DEF Carried, Who, Joined
<1>9. Carried(s, s)
  BY DEF Carried
<1>10. Carried(s, AddHost(s, m))
  BY <1>1 DEF AddHost, Carried, Who, Session
<1> QED BY <1>4, <1>8, <1>9, <1>10 DEF t

LEMMA GatherCarried ==
  ASSUME NEW s, s \in Session, NEW txid
  PROVE  /\ Carried(s, GatherSocket(GatherStart(s)))
         /\ Carried(s, GatherFailed(GatherStart(s)))
         /\ Carried(s, GatherEnd(s, txid))
BY DEF Carried, Who, Session, GatherSocket, GatherStart, GatherFailed, GatherEnd

\* A request vouches for the pairs with its source.
LEMMA OnRequestVouched ==
  ASSUME NEW s, SessionInv(s), NEW src, NEW A, NEW H
  PROVE  /\ Awaited(s, A) => Awaited(OnRequest(s, src), A)
         /\ Vouched(s, H) => Vouched(OnRequest(s, src), H \cup {src})
<1>1. s \in Session /\ \A i \in DOMAIN s.pairs : s.pairs[i] \in CheckPair
  BY Domains
<1> DEFINE t == OnRequest(s, src)
<1>2. /\ t.remote = s.remote /\ DOMAIN t.pairs = DOMAIN s.pairs
      /\ \A i \in DOMAIN s.pairs :
           /\ t.pairs[i].remote = s.pairs[i].remote /\ t.pairs[i].txid = s.pairs[i].txid
           /\ s.remote[s.pairs[i].remote] # src => t.pairs[i].succeeded = s.pairs[i].succeeded
  BY <1>1 DEF OnRequest, Session, CheckPair
<1> HIDE DEF t
<1> QED BY <1>2 DEF Awaited, Vouched, Who, t

\* A response vouches for the pair that holds its id.
LEMMA CreditVouched ==
  ASSUME NEW s, SessionInv(s), NEW txid, NEW A, NEW H
  PROVE  /\ Awaited(s, A) => Awaited(Credit(s, txid), A)
         /\ Vouched(s, H) /\ (\A i \in Matches(s, txid) : Who(s, i) \in H)
              => Vouched(Credit(s, txid), H)
<1>1. s \in Session /\ \A i \in DOMAIN s.pairs : s.pairs[i] \in CheckPair
  BY Domains
<1> DEFINE t == Credit(s, txid)
<1>2. /\ t.remote = s.remote /\ DOMAIN t.pairs = DOMAIN s.pairs
      /\ \A i \in DOMAIN s.pairs :
           /\ t.pairs[i].remote = s.pairs[i].remote /\ t.pairs[i].txid = s.pairs[i].txid
           /\ i \notin Matches(s, txid) => t.pairs[i].succeeded = s.pairs[i].succeeded
  BY <1>1 DEF Credit, Session, CheckPair, IsFirst
<1> HIDE DEF t
<1> QED BY <1>2 DEF Awaited, Vouched, Who, t

LEMMA OnResponseVouched ==
  ASSUME NEW s, SessionInv(s), NEW txid, NEW mapped \in SUBSET LocalAddr, NEW A, NEW H
  PROVE  /\ Awaited(s, A) => Awaited(OnResponse(s, txid, mapped), A)
         /\ Vouched(s, H) /\ (\A i \in Matches(s, txid) : Who(s, i) \in H)
              => Vouched(OnResponse(s, txid, mapped), H)
<1> DEFINE credited == IF IsServerResponse(s, txid) THEN s ELSE Credit(s, txid)
<1>1. /\ SessionInv(credited)
      /\ Awaited(s, A) => Awaited(credited, A)
      /\ Vouched(s, H) /\ (\A i \in Matches(s, txid) : Who(s, i) \in H) => Vouched(credited, H)
  BY CreditOK, CreditVouched
<1> HIDE DEF credited
<1>2. CASE mapped = {}
  BY <1>1, <1>2 DEF OnResponse, credited
<1>3. CASE mapped # {}
  <2>1. PICK m \in LocalAddr : m = CHOOSE x \in mapped : TRUE
    BY <1>3
  <2>2. Carried(credited, AddServerReflexive(credited, m))
    BY <1>1, AddLocalCarried
  <2> DEFINE t == AddServerReflexive(credited, m)
  <2>3. (Awaited(credited, A) => Awaited(t, A)) /\ (Vouched(credited, H) => Vouched(t, H))
    BY <2>2, CarriedOver
  <2>4. OnResponse(s, txid, mapped) = t
    BY <1>3, <2>1 DEF OnResponse, credited
  <2> QED BY <1>1, <2>3, <2>4
<1> QED BY <1>2, <1>3

\* A pass of checks sends the requests whose ids it records.
LEMMA CheckConnectivityVouched ==
  ASSUME NEW s, SessionInv(s), NEW now \in Nat, NEW at, NEW A, NEW H,
         NEW due, due = (IF CanCheck(s) THEN Due(s, now) ELSE {}),
         \A i \in due : at[i] \in Nat,
         \A i \in due : [to |-> Who(s, i), txid |-> at[i]] \in A
  PROVE  LET t == CheckConnectivity(s, now, at)
         IN  /\ Awaited(s, A) => Awaited(t, A)
             /\ Vouched(s, H) => Vouched(t, H)
<1>1. CASE ~CanCheck(s)
  BY <1>1 DEF CheckConnectivity
<1>2. CASE CanCheck(s)
  <2> DEFINE p == Pinged(s, now, at)
             t == Selected(p)
  <2>1. s \in Session /\ \A i \in DOMAIN s.pairs : s.pairs[i] \in CheckPair
    BY Domains
  <2>2. /\ p.remote = s.remote /\ DOMAIN p.pairs = DOMAIN s.pairs
        /\ \A i \in DOMAIN s.pairs :
             /\ p.pairs[i].remote = s.pairs[i].remote
             /\ p.pairs[i].succeeded = s.pairs[i].succeeded
             /\ p.pairs[i].txid = IF i \in Due(s, now) THEN at[i] ELSE s.pairs[i].txid
    BY <2>1 DEF Pinged, Session, CheckPair
  <2>3. SessionInv(p) /\ p \in Session
    BY <1>2, PingedOK DEF SessionInv, SessionTyped
  <2> HIDE DEF p
  <2>4. t.remote = p.remote /\ t.pairs = p.pairs
    BY <2>3 DEF Selected, Session
  <2>5. CheckConnectivity(s, now, at) = t
    BY <1>2 DEF CheckConnectivity, p
  <2> HIDE DEF t
  <2>6. Awaited(s, A) => Awaited(t, A)
    BY <1>2, <2>2, <2>4 DEF Awaited, Who
  <2>7. Vouched(s, H) => Vouched(t, H)
    BY <2>2, <2>4 DEF Vouched, Who
  <2> QED BY <2>5, <2>6, <2>7
<1> QED BY <1>1, <1>2

\* What the ids say of a response to request q.
LEMMA MatchesAsked ==
  ASSUME CreditInv, NEW q \in asked, Distinct, NEW i \in Matches(ice, q.txid)
  PROVE  Who(ice, i) = q.to
<1> DEFINE r == [to |-> Who(ice, i), txid |-> ice.pairs[i].txid]
<1>1. i \in DOMAIN ice.pairs /\ ice.pairs[i].txid # 0 /\ ice.pairs[i].txid = q.txid
  BY DEF Matches
<1>2. r \in asked
  BY <1>1 DEF CreditInv, Awaited
<1>3. r.to = Who(ice, i) /\ r.txid = q.txid
  BY <1>1
<1> HIDE DEF r
<1> QED BY <1>2, <1>3 DEF Distinct

\* A step that carries the pairs over and forgets no request.
LEMMA CarriedInv ==
  ASSUME CreditInv, IInv', Carried(ice, ice'), asked \subseteq asked', heard' = heard
  PROVE  CreditInv'
<1>1. Awaited(ice, asked) /\ (Distinct => Vouched(ice, heard))
  BY DEF CreditInv
<1>2. Awaited(ice', asked')
  BY <1>1, CarriedOver
<1>3. Distinct' => Distinct
  BY DEF Distinct
<1>4. Vouched(ice, heard) => Vouched(ice', heard')
  BY CarriedOver
<1> QED BY <1>1, <1>2, <1>3, <1>4 DEF CreditInv

LEMMA CheckCredit ==
  ASSUME CreditInv, Check, IInv'
  PROVE  CreditInv'
<1> DEFINE due == IF CanCheck(ice) THEN Due(ice, clock) ELSE {}
<1>1. PICK last \in clock..(clock + MaxSpan) : \E at \in PingTimes(due, last) :
        /\ ice' = CheckConnectivity(ice, clock, at)
        /\ asked' = asked \cup
             {[to |-> ice.remote[ice.pairs[i].remote], txid |-> at[i]] : i \in due}
  BY DEF Check
<1>2. PICK at \in PingTimes(due, last) :
        /\ ice' = CheckConnectivity(ice, clock, at)
        /\ asked' = asked \cup
             {[to |-> ice.remote[ice.pairs[i].remote], txid |-> at[i]] : i \in due}
  BY <1>1
<1>3. SessionInv(ice) /\ clock \in Nat
  BY DEF CreditInv, IInv
<1>4. \A i \in due : at[i] \in Nat
  BY <1>1, <1>2, <1>3, EnvAssumption DEF PingTimes
<1>5. \A i \in due : [to |-> Who(ice, i), txid |-> at[i]] \in asked'
  BY <1>2 DEF Who
<1>6. due = IF CanCheck(ice) THEN Due(ice, clock) ELSE {}
  OBVIOUS
<1> HIDE DEF due
<1>7. /\ Awaited(ice, asked') => Awaited(ice', asked')
      /\ Vouched(ice, heard) => Vouched(ice', heard)
  BY <1>2, <1>3, <1>4, <1>5, <1>6, CheckConnectivityVouched
<1>8. asked \subseteq asked' /\ heard' = heard
  BY <1>2 DEF Check
<1>9. Awaited(ice, asked')
  BY <1>8 DEF CreditInv, Awaited
<1>10. Distinct' => Distinct
  BY <1>8 DEF Distinct
<1> QED BY <1>7, <1>8, <1>9, <1>10 DEF CreditInv

LEMMA ResponseCredit ==
  ASSUME CreditInv, IInv', NEW q \in asked, ReceivePeerResponse(q) \/ ReceiveServerResponse(q)
  PROVE  CreditInv'
<1>1. PICK mapped \in MappedSet : ice' = OnResponse(ice, q.txid, mapped)
  BY DEF ReceivePeerResponse, ReceiveServerResponse
<1>2. mapped \in SUBSET LocalAddr /\ SessionInv(ice)
  BY DEF MappedSet, CreditInv, IInv
<1>3. asked' = asked /\ heard \subseteq heard'
  BY DEF ReceivePeerResponse, ReceiveServerResponse
<1>4. Awaited(ice', asked)
  BY <1>1, <1>2, OnResponseVouched DEF CreditInv
<1>5. ASSUME Distinct
      PROVE  Vouched(ice', heard')
  <2>1. Vouched(ice, heard')
    BY <1>3, <1>5 DEF CreditInv, Vouched
  <2>2. \A i \in Matches(ice, q.txid) : Who(ice, i) \in heard'
    <3> SUFFICES ASSUME NEW i \in Matches(ice, q.txid)
                 PROVE  Who(ice, i) \in heard'
      OBVIOUS
    <3>1. Who(ice, i) = q.to
      BY <1>5, MatchesAsked
    <3>2. CASE ReceivePeerResponse(q)
      BY <3>1, <3>2 DEF ReceivePeerResponse
    <3>3. CASE ReceiveServerResponse(q)
      <4>1. i \in DOMAIN ice.pairs /\ q.to = Server
        BY <3>3 DEF Matches, ReceiveServerResponse
      <4>2. ice.pairs[i].remote \in DOMAIN ice.remote /\ ice.remote \in Seq(RemoteAddr)
        BY <1>2, <4>1, Domains DEF SessionInv, PairsInRange
      <4>3. Who(ice, i) \in RemoteAddr
        BY <4>2 DEF Who
      <4> QED BY <3>1, <4>1, <4>3, EnvAssumption
    <3> QED BY <3>2, <3>3
  <2> QED BY <1>1, <1>2, <2>1, <2>2, OnResponseVouched
<1>6. Distinct' <=> Distinct
  BY <1>3 DEF Distinct
<1> QED BY <1>3, <1>4, <1>5, <1>6 DEF CreditInv

LEMMA CreditStep == CreditInv /\ [Next]_vars => CreditInv'
<1> SUFFICES ASSUME CreditInv, [Next]_vars
             PROVE  CreditInv'
  OBVIOUS
<1>1. IInv' /\ SessionInv(ice) /\ ice \in Session
  BY StepOK DEF CreditInv, IInv, SessionInv, SessionTyped
<1>2. Carried(ice, ice)
  BY DEF Carried
<1>3. CASE UNCHANGED vars \/ Tick
  BY <1>1, <1>2, <1>3, CarriedInv DEF vars, Tick
<1>4. CASE OpenSocket \/ SocketFails
  BY <1>1, <1>4, GatherCarried, CarriedInv DEF OpenSocket, SocketFails
<1>5. CASE ScanInterface
  BY <1>1, <1>5, AddLocalCarried, CarriedInv DEF ScanInterface
<1>6. CASE FinishGathering \/ FinishGatheringWithStun
  <2>1. ice.state = "gathering" /\ asked \subseteq asked' /\ heard' = heard
    BY <1>6 DEF FinishGathering, FinishGatheringWithStun
  <2>2. Carried(ice, WithFallback(ice)) /\ WithFallback(ice) \in Session
    <3>1. SessionInv(WithFallback(ice))
      BY <1>1, <2>1, WithFallbackOK
    <3> QED
      BY <1>1, <1>2, <3>1, AddLocalCarried, EnvAssumption DEF WithFallback, SessionInv, SessionTyped
  <2>3. PICK n : ice' = GatherEnd(WithFallback(ice), n)
    BY <1>6 DEF FinishGathering, FinishGatheringWithStun
  <2>4. Carried(WithFallback(ice), ice')
    BY <2>2, <2>3, GatherCarried
  <2>5. Carried(ice, ice')
    BY <2>2, <2>4 DEF Carried
  <2> QED BY <1>1, <2>1, <2>5, CarriedInv
<1>7. CASE AddRemoteCandidate
  BY <1>1, <1>7, AddRemoteCarried, CarriedInv DEF AddRemoteCandidate
<1>8. CASE ReceiveRequest
  <2>1. PICK src \in Senders : ice' = OnRequest(ice, src) /\ heard' = heard \cup {src}
    BY <1>8 DEF ReceiveRequest
  <2>2. asked' = asked
    BY <1>8 DEF ReceiveRequest
  <2>3. Distinct' <=> Distinct
    BY <2>2 DEF Distinct
  <2>4. Awaited(ice', asked)
    BY <1>1, <2>1, OnRequestVouched DEF CreditInv
  <2>5. Distinct => Vouched(ice', heard')
    BY <1>1, <2>1, OnRequestVouched DEF CreditInv
  <2> QED BY <1>1, <2>2, <2>3, <2>4, <2>5 DEF CreditInv
<1>9. ASSUME NEW q \in asked, ReceivePeerResponse(q) \/ ReceiveServerResponse(q)
      PROVE  CreditInv'
  BY <1>1, <1>9, ResponseCredit
<1>10. CASE Check
  BY <1>1, <1>10, CheckCredit
<1> QED
  BY <1>3, <1>4, <1>5, <1>6, <1>7, <1>8, <1>9, <1>10 DEF Next, ApiNext, LoopNext

\* If no two addresses were asked under the same id, every pair that succeeded
\* has been heard from, however late or often the answers come (ice.c:406-427).
THEOREM CreditIsSound == Spec => []CreditSoundIfDistinct
<1>1. Init => CreditInv
  BY InitOK DEF Init, CreditInv, Awaited, Vouched, NewSession
<1>2. CreditInv => CreditSoundIfDistinct
  BY DEF CreditInv, CreditSoundIfDistinct, CreditSound, Distinct, Vouched, Who
<1> QED
  BY <1>1, CreditStep, <1>2, PTL DEF Spec
=============================================================================
