------------------------------ MODULE CallProofs ------------------------------
(***************************************************************************)
(* Proofs about Call: types, and that no candidate gets lost between the   *)
(* caller and the callee.                                                  *)
(*                                                                         *)
(* The invariant CInv has a part that always holds (Sides: each connection *)
(* and each queue by itself) and one that holds as long as neither         *)
(* connection to the server fails and the callee is not restarted (Here).  *)
(* Here says how far the two have come (Progress) and, for every candidate *)
(* of either side, where the other has it or will have it from (Safe).     *)
(* Nearly all of it is stated about one side's connection and queue, as    *)
(* operators without variables, and put together at the end.               *)
(***************************************************************************)
EXTENDS Call, IceSessionProofs

(***************************************************************************)
(* Induction on numbers, as a property of sets of numbers, and what it     *)
(* gives for functions that are defined from one number to the next.       *)
(***************************************************************************)
LEMMA NatSetInduction ==
  ASSUME NEW T \in SUBSET Nat, 0 \in T, \A n \in T : n + 1 \in T
  PROVE  T = Nat
<1> SUFFICES ASSUME Nat \ T # {} PROVE FALSE
  OBVIOUS
<1> DEFINE R == {ss \in Nat \X Nat : ss[1] < ss[2]}
<1>0. PICK n \in Nat \ T : \A y \in Nat \ T : ~ (<<y, n>> \in R)
  <2>1. IsWellFoundedOn(R, Nat)
    BY NatLessThanWellFounded DEF OpToRel
  <2> HIDE DEF R
  <2> QED BY <2>1, WFMin
<1>1. \A y \in Nat : y < n => y \in T
  BY <1>0
<1>2. n - 1 \in Nat
  <2>1. n # 0
    OBVIOUS
  <2> QED BY <2>1
<1>3. n - 1 \in T
  BY <1>1, <1>2
<1>4. n = (n - 1) + 1
  OBVIOUS
<1> QED BY <1>3, <1>4

\* f is the iteration of F from x on.
Iterates(f, x, n, F) == f[0] = x /\ \A i \in 1..n : f[i] = F[i][f[i - 1]]

LEMMA IterationDefined ==
  ASSUME NEW S, NEW n \in Nat, NEW x \in S, NEW F \in [1..n -> [S -> S]]
  PROVE  \E f \in [0..n -> S] : Iterates(f, x, n, F)
<1> DEFINE Good(k, f) == f[0] = x /\ \A i \in 1..k : f[i] = F[i][f[i - 1]]
           T == {k \in Nat : k <= n => \E f \in [0..k -> S] : Good(k, f)}
<1>1. 0 \in T
  <2> DEFINE f == [i \in 0..0 |-> x]
  <2>1. f \in [0..0 -> S] /\ Good(0, f)
    OBVIOUS
  <2> QED BY <2>1
<1>2. ASSUME NEW k \in T PROVE k + 1 \in T
  <2> SUFFICES ASSUME k + 1 <= n PROVE \E g \in [0..(k + 1) -> S] : Good(k + 1, g)
    OBVIOUS
  <2>0. k <= n /\ k \in Nat
    OBVIOUS
  <2>1. PICK f \in [0..k -> S] : Good(k, f)
    BY <2>0
  <2> DEFINE j == k + 1
             g == [i \in 0..j |-> IF i = j THEN F[i][f[i - 1]] ELSE f[i]]
  <2>2. F[j][f[j - 1]] \in S
    <3>1. j \in 1..n /\ j - 1 \in 0..k
      BY <2>0
    <3>2. f[j - 1] \in S
      BY <2>1, <3>1
    <3> QED BY <3>1, <3>2
  <2>3. g \in [0..j -> S]
    <3>1. \A i \in 0..j : i # j => i \in 0..k
      BY <2>0
    <3> QED BY <2>1, <2>2, <3>1
  <2>4. g[0] = x
    BY <2>0, <2>1
  <2>5. ASSUME NEW i \in 1..j PROVE g[i] = F[i][g[i - 1]]
    <3>1. i - 1 \in 0..k /\ i - 1 \in 0..j /\ i \in 0..j /\ i - 1 # j
      BY <2>0
    <3>2. g[i - 1] = f[i - 1]
      BY <3>1
    <3>3. CASE i = j
      BY <3>1, <3>2, <3>3
    <3>4. CASE i # j
      <4>1. i \in 1..k
        BY <2>0, <3>4
      <4>2. g[i] = f[i] /\ f[i] = F[i][f[i - 1]]
        BY <2>1, <3>1, <3>4, <4>1
      <4> QED BY <3>2, <4>2
    <3> QED BY <3>3, <3>4
  <2>6. Good(k + 1, g)
    BY <2>4, <2>5
  <2> QED BY <2>3, <2>6
<1> HIDE DEF T
<1>3. T = Nat
  <2>1. T \in SUBSET Nat
    BY DEF T
  <2> QED BY <1>1, <1>2, <2>1, NatSetInduction
<1>4. \E f \in [0..n -> S] : Good(n, f)
  BY <1>3 DEF T
<1> QED BY <1>4 DEF Iterates

-----------------------------------------------------------------------------
(***************************************************************************)
(* The sessions of a call.                                                 *)
(***************************************************************************)
\* The loops that fill a session with candidates.
HostsAdded(w, s, hosts) ==
  w = [i \in 0..Len(hosts) |-> IF i = 0 THEN s ELSE AddHost(w[i - 1], hosts[i])]

RemotesAdded(w, s, candidates) ==
  w = [i \in 0..Len(candidates) |-> IF i = 0 THEN s ELSE AddRemote(w[i - 1], candidates[i], TRUE)]

LEMMA HostsAddedExist ==
  ASSUME NEW s, SessionInv(s), s.state = "gathering", NEW hosts \in Seq(LocalAddr)
  PROVE  \E w : HostsAdded(w, s, hosts)
<1> DEFINE n == Len(hosts)
           S == {t \in Session : SessionInv(t) /\ t.state = "gathering"}
           F == [i \in 1..n |-> [t \in S |-> AddHost(t, hosts[i])]]
<1>1. n \in Nat /\ \A i \in 1..n : hosts[i] \in LocalAddr
  OBVIOUS
<1>2. s \in S
  BY DEF SessionInv, SessionTyped
<1>3. \A i \in 1..n, t \in S : AddHost(t, hosts[i]) \in S
  <2> SUFFICES ASSUME NEW i \in 1..n, NEW t \in S PROVE AddHost(t, hosts[i]) \in S
    OBVIOUS
  <2>1. SessionInv(AddHost(t, hosts[i])) /\ AddHost(t, hosts[i]).state = "gathering"
    BY <1>1, AddHostOK
  <2> QED BY <2>1 DEF SessionInv, SessionTyped
<1> HIDE DEF n, S
<1>4. PICK w \in [0..n -> S] : Iterates(w, s, n, F)
  <2>1. F \in [1..n -> [S -> S]]
    BY <1>3
  <2> HIDE DEF F
  <2> QED BY <1>1, <1>2, <2>1, IterationDefined
<1>5. ASSUME NEW i \in 0..n
      PROVE  w[i] = IF i = 0 THEN s ELSE AddHost(w[i - 1], hosts[i])
  <2>1. CASE i = 0
    BY <1>4, <2>1 DEF Iterates
  <2>2. CASE i # 0
    <3>1. i \in 1..n /\ i - 1 \in 0..n
      BY <1>1, <2>2
    <3>2. w[i] = F[i][w[i - 1]] /\ w[i - 1] \in S
      BY <1>4, <3>1 DEF Iterates
    <3>3. F[i][w[i - 1]] = AddHost(w[i - 1], hosts[i])
      BY <3>1, <3>2
    <3> QED BY <2>2, <3>2, <3>3
  <2> QED BY <2>1, <2>2
<1>6. w = [i \in 0..n |-> IF i = 0 THEN s ELSE AddHost(w[i - 1], hosts[i])]
  <2>1. w = [i \in 0..n |-> w[i]]
    BY <1>4
  <2> QED BY <1>5, <2>1
<1> QED BY <1>6 DEF HostsAdded, n

\* A session as ice_start_gathering leaves it.
LEMMA GatheredOK ==
  ASSUME NEW p \in Peers
  PROVE  /\ SessionInv(Gathered(p))
         /\ Gathered(p).state = "gathered"
<1> DEFINE hosts == Hosts[p]
           n == Len(hosts)
           s == GatherSocket(GatherStart(NewSession))
           w == CHOOSE x : HostsAdded(x, s, hosts)
<1>1. hosts \in Seq(LocalAddr) /\ n \in Nat /\ \A i \in 1..n : hosts[i] \in LocalAddr
  BY CallAssumption
<1>2. SessionInv(s) /\ s.state = "gathering"
  <2>1. SessionInv(NewSession) /\ NewSession.state = "new"
    BY NewSessionOK DEF NewSession
  <2>2. SessionInv(s)
    BY <2>1, GatherOK
  <2>3. s.state = "gathering"
    BY DEF GatherSocket, GatherStart, NewSession
  <2> QED BY <2>2, <2>3
<1>3. Gathered(p) = GatherEnd(w[n], 0)
  BY DEF Gathered, HostsAdded
<1> HIDE DEF s
<1>4. HostsAdded(w, s, hosts)
  BY <1>1, <1>2, HostsAddedExist
<1> HIDE DEF w, hosts
<1> DEFINE T == {k \in Nat : k <= n => SessionInv(w[k]) /\ w[k].state = "gathering"}
<1>5. 0 \in T
  BY <1>1, <1>2, <1>4 DEF HostsAdded
<1>6. ASSUME NEW k \in T PROVE k + 1 \in T
  <2> SUFFICES ASSUME k + 1 <= n PROVE SessionInv(w[k + 1]) /\ w[k + 1].state = "gathering"
    OBVIOUS
  <2>1. k \in Nat /\ k + 1 \in 1..n /\ k + 1 \in 0..n /\ k + 1 # 0 /\ (k + 1) - 1 = k
    BY <1>1
  <2>2. w[k + 1] = AddHost(w[k], hosts[k + 1])
    BY <1>4, <2>1 DEF HostsAdded
  <2>3. SessionInv(w[k]) /\ w[k].state = "gathering"
    BY <1>1, <2>1
  <2> QED BY <1>1, <2>1, <2>2, <2>3, AddHostOK
<1> HIDE DEF T
<1>7. T = Nat
  <2>1. T \in SUBSET Nat
    BY DEF T
  <2> QED BY <1>5, <1>6, <2>1, NatSetInduction
<1>8. SessionInv(w[n]) /\ w[n].state = "gathering"
  BY <1>1, <1>7 DEF T
<1>9. SessionInv(GatherEnd(w[n], 0))
  BY <1>8, GatherOK
<1>10. GatherEnd(w[n], 0).state = "gathered"
  BY <1>8 DEF GatherEnd, SessionInv, SessionTyped, Session
<1> QED BY <1>3, <1>9, <1>10

\* One remote candidate more: it is in the session then, or the session is full.
Added(s, t, a) ==
  /\ SessionInv(t) /\ t.state = s.state /\ t.local = s.local
  /\ Len(s.remote) <= Len(t.remote)
  /\ \A b : Holds(s.remote, b) => Holds(t.remote, b)
  /\ Holds(t.remote, a) \/ Len(t.remote) >= MaxCandidates

LEMMA AddRemoteKeeps ==
  ASSUME NEW s, SessionInv(s), s.state \notin {"new", "gathering"}, NEW a \in RemoteAddr
  PROVE  Added(s, AddRemote(s, a, TRUE), a)
<1> DEFINE t == AddRemote(s, a, TRUE)
           r == s.remote
<1>1. SessionInv(t)
  BY AddRemoteOK
<1>2. s \in Session /\ r \in Seq(RemoteAddr) /\ Len(r) \in Nat
  BY DEF SessionInv, SessionTyped, Session
<1>3. CASE AddRemoteFails(s)
  <2>1. t = s
    BY <1>3 DEF AddRemote
  <2> HIDE DEF t
  <2>2. Added(s, t, a)
    BY <1>1, <1>2, <1>3, <2>1 DEF AddRemoteFails, Added
  <2> QED BY <2>2 DEF t
<1>4. CASE ~AddRemoteFails(s)
  <2>1. t.state = s.state /\ t.local = s.local /\ t.remote = Append(r, a)
    BY <1>2, <1>4 DEF AddRemote, Session
  <2>2. /\ Len(Append(r, a)) = Len(r) + 1 /\ Append(r, a) \in Seq(RemoteAddr)
        /\ Append(r, a)[Len(r) + 1] = a /\ \A i \in 1..Len(r) : Append(r, a)[i] = r[i]
    BY <1>2, AppendProperties
  <2> HIDE DEF t
  <2>3. DOMAIN t.remote = 1..(Len(r) + 1) /\ DOMAIN r = 1..Len(r)
    BY <1>2, <2>1, <2>2
  <2>4. Holds(t.remote, a) /\ \A b : Holds(r, b) => Holds(t.remote, b)
    BY <1>2, <2>1, <2>2, <2>3 DEF Holds
  <2>5. Added(s, t, a)
    BY <1>1, <1>2, <2>1, <2>2, <2>4 DEF Added
  <2> QED BY <2>5 DEF t
<1> QED BY <1>3, <1>4

LEMMA RemotesAddedExist ==
  ASSUME NEW s, SessionInv(s), s.state = "gathered", NEW cands \in Seq(RemoteAddr)
  PROVE  \E w : RemotesAdded(w, s, cands)
<1> DEFINE n == Len(cands)
           S == {t \in Session : SessionInv(t) /\ t.state = "gathered"}
           F == [i \in 1..n |-> [t \in S |-> AddRemote(t, cands[i], TRUE)]]
<1>1. n \in Nat /\ \A i \in 1..n : cands[i] \in RemoteAddr
  OBVIOUS
<1>2. s \in S
  BY DEF SessionInv, SessionTyped
<1>3. \A i \in 1..n, t \in S : AddRemote(t, cands[i], TRUE) \in S
  <2> SUFFICES ASSUME NEW i \in 1..n, NEW t \in S PROVE AddRemote(t, cands[i], TRUE) \in S
    OBVIOUS
  <2>1. SessionInv(AddRemote(t, cands[i], TRUE)) /\ AddRemote(t, cands[i], TRUE).state = "gathered"
    BY <1>1, AddRemoteKeeps DEF Added
  <2> QED BY <2>1 DEF SessionInv, SessionTyped
<1> HIDE DEF n, S
<1>4. PICK w \in [0..n -> S] : Iterates(w, s, n, F)
  <2>1. F \in [1..n -> [S -> S]]
    BY <1>3
  <2> HIDE DEF F
  <2> QED BY <1>1, <1>2, <2>1, IterationDefined
<1>5. ASSUME NEW i \in 0..n
      PROVE  w[i] = IF i = 0 THEN s ELSE AddRemote(w[i - 1], cands[i], TRUE)
  <2>1. CASE i = 0
    BY <1>4, <2>1 DEF Iterates
  <2>2. CASE i # 0
    <3>1. i \in 1..n /\ i - 1 \in 0..n
      BY <1>1, <2>2
    <3>2. w[i] = F[i][w[i - 1]] /\ w[i - 1] \in S
      BY <1>4, <3>1 DEF Iterates
    <3>3. F[i][w[i - 1]] = AddRemote(w[i - 1], cands[i], TRUE)
      BY <3>1, <3>2
    <3> QED BY <2>2, <3>2, <3>3
  <2> QED BY <2>1, <2>2
<1>6. w = [i \in 0..n |-> IF i = 0 THEN s ELSE AddRemote(w[i - 1], cands[i], TRUE)]
  <2>1. w = [i \in 0..n |-> w[i]]
    BY <1>4
  <2> QED BY <1>5, <2>1
<1> QED BY <1>6 DEF RemotesAdded, n

\* What adding candidates to session s makes of it.
Replayed(s, t, cands, k) ==
  /\ SessionInv(t) /\ t.state = s.state /\ t.local = s.local
  /\ Len(s.remote) <= Len(t.remote)
  /\ \A b : Holds(s.remote, b) => Holds(t.remote, b)
  /\ \A i \in 1..k : Holds(t.remote, cands[i]) \/ Len(t.remote) >= MaxCandidates

LEMMA WithRemoteOK ==
  ASSUME NEW s, SessionInv(s), s.state = "gathered", NEW cands \in Seq(RemoteAddr)
  PROVE  Replayed(s, WithRemote(s, cands), cands, Len(cands))
<1> DEFINE n == Len(cands)
           w == CHOOSE x : RemotesAdded(x, s, cands)
<1>1. n \in Nat /\ \A i \in 1..n : cands[i] \in RemoteAddr
  OBVIOUS
<1>2. WithRemote(s, cands) = w[n]
  BY DEF WithRemote, RemotesAdded
<1>3. RemotesAdded(w, s, cands)
  BY <1>1, RemotesAddedExist
<1> HIDE DEF w
<1> DEFINE T == {k \in Nat : k <= n => Replayed(s, w[k], cands, k)}
<1>4. 0 \in T
  <2>1. w[0] = s
    BY <1>1, <1>3 DEF RemotesAdded
  <2>2. Len(s.remote) \in Nat
    BY DEF SessionInv, SessionTyped, Session
  <2> QED BY <2>1, <2>2 DEF Replayed
<1>5. ASSUME NEW k \in T PROVE k + 1 \in T
  <2> SUFFICES ASSUME k + 1 <= n PROVE Replayed(s, w[k + 1], cands, k + 1)
    OBVIOUS
  <2> DEFINE u == w[k]
             a == cands[k + 1]
             t == AddRemote(u, a, TRUE)
  <2>1. k \in Nat /\ k + 1 \in 1..n /\ k + 1 \in 0..n /\ k + 1 # 0 /\ (k + 1) - 1 = k
    BY <1>1
  <2>2. w[k + 1] = t
    BY <1>3, <2>1 DEF RemotesAdded
  <2>3. Replayed(s, u, cands, k)
    BY <1>1, <2>1
  <2>4. a \in RemoteAddr
    BY <1>1, <2>1
  <2> HIDE DEF a, u
  <2>5. SessionInv(u) /\ u.state \notin {"new", "gathering"}
    BY <2>3 DEF Replayed
  <2>6. /\ SessionInv(t) /\ t.state = u.state /\ t.local = u.local
        /\ Len(u.remote) <= Len(t.remote)
        /\ \A b : Holds(u.remote, b) => Holds(t.remote, b)
        /\ Holds(t.remote, a) \/ Len(t.remote) >= MaxCandidates
    BY <2>4, <2>5, AddRemoteKeeps DEF Added
  <2> HIDE DEF t
  <2>7. Len(s.remote) \in Nat /\ Len(u.remote) \in Nat /\ Len(t.remote) \in Nat /\ MaxCandidates \in Nat
    <3>1. SessionTyped(s) /\ SessionTyped(u) /\ SessionTyped(t)
      BY <2>5, <2>6 DEF SessionInv
    <3> QED BY <3>1, SessionFields, IceAssumption
  <2>8. \A i \in 1..(k + 1) : Holds(t.remote, cands[i]) \/ Len(t.remote) >= MaxCandidates
    <3>1. \A i \in 1..(k + 1) : i \in 1..k \/ i = k + 1
      BY <2>1
    <3>2. \A i \in 1..k : Holds(t.remote, cands[i]) \/ Len(t.remote) >= MaxCandidates
      BY <2>3, <2>6, <2>7 DEF Replayed
    <3> QED BY <2>6, <3>1, <3>2 DEF a
  <2>9. Replayed(s, t, cands, k + 1)
    BY <2>3, <2>6, <2>7, <2>8 DEF Replayed
  <2> QED BY <2>2, <2>9
<1> HIDE DEF T
<1>6. T = Nat
  <2>1. T \in SUBSET Nat
    BY DEF T
  <2> QED BY <1>4, <1>5, <2>1, NatSetInduction
<1>7. n \in T
  BY <1>1, <1>6
<1> QED BY <1>1, <1>2, <1>7 DEF T

-----------------------------------------------------------------------------
(***************************************************************************)
(* The peer connections of a call.                                         *)
(***************************************************************************)
ConnectionOK(c) ==
  /\ c \in PeerConnections
  /\ SessionInv(c.ice)
  /\ Len(c.sdp) <= MaxCandidates
  /\ c.has => c.ice.state = "gathered"
  /\ ~c.has => c.ice = NewSession

NoRoomLeft(c) == Len(c.ice.remote) >= MaxCandidates \/ Len(c.sdp) >= MaxCandidates

\* Connection c of p with a new session.
WithSession(c, p) == [c EXCEPT !.has = TRUE, !.ice = WithRemote(Gathered(p), c.sdp)]

\* Connection c with a server reflexive candidate.
WithReflexive(c, m) == [c EXCEPT !.ice = AddServerReflexive(c.ice, m)]

LEMMA ConnectionFields ==
  ASSUME NEW c, ConnectionOK(c)
  PROVE  /\ c.has \in BOOLEAN /\ c.described \in BOOLEAN
         /\ c.sdp \in Seq(RemoteAddr) /\ Len(c.sdp) \in Nat
         /\ SessionTyped(c.ice) /\ c.ice \in Session
         /\ Len(c.ice.local) \in Nat /\ Len(c.ice.remote) \in Nat
         /\ MaxCandidates \in Nat \ {0}
<1>1. SessionTyped(c.ice) /\ c.sdp \in Seq(RemoteAddr) /\ c.has \in BOOLEAN /\ c.described \in BOOLEAN
  BY DEF ConnectionOK, SessionInv, PeerConnections
<1>2. Len(c.ice.local) \in Nat /\ Len(c.ice.remote) \in Nat
  BY <1>1, SessionFields
<1>3. Len(c.sdp) \in Nat
  BY <1>1
<1> QED BY <1>1, <1>2, <1>3, IceAssumption DEF SessionTyped

LEMMA NewConnectionOK ==
  ConnectionOK(NewPeerConnection) /\ ~NewPeerConnection.has /\ ~NewPeerConnection.described
<1>1. NewSession \in Session
  BY NewSessionOK DEF SessionInv, SessionTyped
<1>2. NewPeerConnection.sdp = << >> /\ Len(NewPeerConnection.sdp) = 0 /\ << >> \in Seq(RemoteAddr)
  BY DEF NewPeerConnection
<1>3. NewPeerConnection \in PeerConnections
  BY <1>1, <1>2 DEF NewPeerConnection, PeerConnections
<1> QED BY <1>2, <1>3, NewSessionOK, IceAssumption DEF ConnectionOK, NewPeerConnection

LEMMA WithSessionOK ==
  ASSUME NEW c, ConnectionOK(c), NEW p \in Peers
  PROVE  LET d == WithSession(c, p)
         IN  /\ ConnectionOK(d) /\ d.has /\ d.sdp = c.sdp /\ d.described = c.described
             /\ \A b : Holds(c.sdp, b) => Holds(d.ice.remote, b) \/ NoRoomLeft(d)
<1> DEFINE g == Gathered(p)
           s == WithRemote(g, c.sdp)
           d == WithSession(c, p)
<1>1. SessionInv(g) /\ g.state = "gathered" /\ c.sdp \in Seq(RemoteAddr)
  BY GatheredOK, ConnectionFields
<1> HIDE DEF g
<1>2. Replayed(g, s, c.sdp, Len(c.sdp))
  BY <1>1, WithRemoteOK
<1> HIDE DEF s
<1>3. SessionInv(s) /\ s.state = "gathered" /\ s \in Session
  BY <1>1, <1>2 DEF Replayed, SessionInv, SessionTyped
<1>4. c \in PeerConnections
  BY DEF ConnectionOK
<1>5. d = [c EXCEPT !.has = TRUE, !.ice = s]
  BY DEF WithSession, s, g
<1> HIDE DEF d
<1>6. /\ d \in PeerConnections /\ d.has /\ d.ice = s
      /\ d.sdp = c.sdp /\ d.described = c.described
  BY <1>3, <1>4, <1>5 DEF PeerConnections
<1>7. ConnectionOK(d)
  BY <1>3, <1>6 DEF ConnectionOK
<1>8. ASSUME NEW b, Holds(c.sdp, b) PROVE Holds(d.ice.remote, b) \/ NoRoomLeft(d)
  <2>1. PICK i \in DOMAIN c.sdp : c.sdp[i] = b
    BY <1>8 DEF Holds
  <2>2. i \in 1..Len(c.sdp)
    BY <1>1, <2>1
  <2>3. Holds(s.remote, b) \/ Len(s.remote) >= MaxCandidates
    BY <1>2, <2>1, <2>2 DEF Replayed
  <2> QED BY <1>6, <2>3 DEF NoRoomLeft
<1> QED BY <1>6, <1>7, <1>8 DEF d

LEMMA WithCandidateOK ==
  ASSUME NEW c, ConnectionOK(c), NEW a \in RemoteAddr
  PROVE  LET d == WithCandidate(c, a)
         IN  /\ ConnectionOK(d) /\ d.has = c.has /\ d.described = c.described
             /\ d.ice.local = c.ice.local
             /\ NoRoomLeft(c) => NoRoomLeft(d)
             /\ \A b : Holds(c.ice.remote, b) => Holds(d.ice.remote, b)
             /\ c.has => Holds(d.ice.remote, a) \/ NoRoomLeft(d)
<1> DEFINE d == WithCandidate(c, a)
           sdp == Append(c.sdp, a)
           s == IF c.has THEN AddRemote(c.ice, a, TRUE) ELSE c.ice
<1>1. /\ c \in PeerConnections /\ c.sdp \in Seq(RemoteAddr) /\ Len(c.sdp) \in Nat
      /\ MaxCandidates \in Nat /\ Len(c.ice.remote) \in Nat /\ SessionInv(c.ice)
      /\ c.has \in BOOLEAN
  BY ConnectionFields DEF ConnectionOK
<1>2. CASE NoRoom(c)
  <2>1. d = c
    BY <1>2 DEF WithCandidate
  <2>2. NoRoomLeft(c)
    BY <1>2 DEF NoRoom, NoRoomLeft
  <2> QED BY <2>1, <2>2
<1>3. CASE ~NoRoom(c)
  <2>1. sdp \in Seq(RemoteAddr) /\ Len(sdp) = Len(c.sdp) + 1
    BY <1>1, AppendProperties
  <2>2. /\ SessionInv(s) /\ s.state = c.ice.state /\ s.local = c.ice.local
        /\ Len(c.ice.remote) <= Len(s.remote) /\ Len(s.remote) \in Nat
        /\ \A b : Holds(c.ice.remote, b) => Holds(s.remote, b)
        /\ c.has => Holds(s.remote, a) \/ Len(s.remote) >= MaxCandidates
    <3>1. CASE c.has
      <4>1. c.ice.state \notin {"new", "gathering"}
        BY <3>1 DEF ConnectionOK
      <4>2. Added(c.ice, s, a)
        BY <1>1, <3>1, <4>1, AddRemoteKeeps
      <4> HIDE DEF s
      <4>3. Len(s.remote) \in Nat
        BY <4>2, SessionFields DEF Added, SessionInv
      <4> QED BY <4>2, <4>3 DEF Added
    <3>2. CASE ~c.has
      BY <1>1, <3>2
    <3> QED BY <1>1, <3>1, <3>2
  <2>3. d = [c EXCEPT !.sdp = sdp, !.ice = s]
    BY <1>3 DEF WithCandidate
  <2>4. ~c.has => s = c.ice
    OBVIOUS
  <2> HIDE DEF d, sdp, s
  <2>5. s \in Session
    BY <2>2 DEF SessionInv, SessionTyped
  <2>6. /\ d \in PeerConnections /\ d.has = c.has /\ d.described = c.described
        /\ d.ice = s /\ d.sdp = sdp
    BY <1>1, <2>1, <2>3, <2>5 DEF PeerConnections
  <2>7. Len(c.sdp) < MaxCandidates
    BY <1>1, <1>3 DEF NoRoom
  <2>8. ConnectionOK(d)
    BY <1>1, <2>1, <2>2, <2>4, <2>6, <2>7 DEF ConnectionOK
  <2>9. NoRoomLeft(c) => NoRoomLeft(d)
    BY <1>1, <2>2, <2>6, <2>7 DEF NoRoomLeft
  <2>10. c.has => Holds(d.ice.remote, a) \/ NoRoomLeft(d)
    BY <2>2, <2>6 DEF NoRoomLeft
  <2> QED BY <2>2, <2>6, <2>8, <2>9, <2>10 DEF d
<1> QED BY <1>2, <1>3

LEMMA WithRemoteDescriptionOK ==
  ASSUME NEW c, ConnectionOK(c), NEW cands \in Seq(RemoteAddr), Len(cands) <= MaxCandidates
  PROVE  LET d == WithRemoteDescription(c, cands)
         IN  /\ ConnectionOK(d) /\ d.has = c.has /\ d.described
             /\ d.ice.local = c.ice.local
             /\ \A b : Holds(cands, b) =>
                  IF c.has THEN Holds(d.ice.remote, b) \/ NoRoomLeft(d) ELSE Holds(d.sdp, b)
<1> DEFINE d == WithRemoteDescription(c, cands)
           s == IF c.has THEN WithRemote(c.ice, cands) ELSE c.ice
<1>1. /\ c \in PeerConnections /\ Len(cands) \in Nat
      /\ MaxCandidates \in Nat /\ SessionInv(c.ice) /\ c.has \in BOOLEAN
  BY ConnectionFields DEF ConnectionOK
<1>2. Parsed(cands) = cands
  BY SubSeqFull DEF Parsed
<1>3. /\ SessionInv(s) /\ s.state = c.ice.state /\ s.local = c.ice.local
      /\ c.has => \A i \in 1..Len(cands) : Holds(s.remote, cands[i]) \/ Len(s.remote) >= MaxCandidates
  <2>1. CASE c.has
    <3>1. Replayed(c.ice, s, cands, Len(cands))
      BY <1>1, <2>1, WithRemoteOK DEF ConnectionOK
    <3> HIDE DEF s
    <3> QED BY <3>1 DEF Replayed
  <2>2. CASE ~c.has
    BY <1>1, <2>2
  <2> QED BY <1>1, <2>1, <2>2
<1>4. d = [c EXCEPT !.sdp = cands, !.described = TRUE, !.ice = s]
  BY <1>2 DEF WithRemoteDescription
<1>5. ~c.has => s = c.ice
  OBVIOUS
<1> HIDE DEF d, s
<1>6. s \in Session
  BY <1>3 DEF SessionInv, SessionTyped
<1>7. d \in PeerConnections /\ d.has = c.has /\ d.described /\ d.ice = s /\ d.sdp = cands
  BY <1>1, <1>4, <1>6 DEF PeerConnections
<1>8. ConnectionOK(d)
  BY <1>3, <1>5, <1>7 DEF ConnectionOK
<1>9. ASSUME NEW b, Holds(cands, b), c.has PROVE Holds(d.ice.remote, b) \/ NoRoomLeft(d)
  <2>1. PICK i \in 1..Len(cands) : cands[i] = b
    BY <1>9 DEF Holds
  <2> QED BY <1>3, <1>7, <1>9, <2>1 DEF NoRoomLeft
<1> QED BY <1>3, <1>7, <1>8, <1>9 DEF d

LEMMA WithReflexiveOK ==
  ASSUME NEW c, ConnectionOK(c), NEW m \in LocalAddr, c.has, Len(c.ice.local) < MaxCandidates
  PROVE  LET d == WithReflexive(c, m)
         IN  /\ ConnectionOK(d) /\ d.has = c.has /\ d.described = c.described
             /\ d.sdp = c.sdp /\ d.ice.remote = c.ice.remote
             /\ \A i \in DOMAIN d.ice.local :
                  (i \in DOMAIN c.ice.local /\ d.ice.local[i] = c.ice.local[i]) \/ d.ice.local[i].addr = m
<1> DEFINE s == c.ice
           e == [type |-> "srflx", addr |-> m, selected |-> FALSE]
           local == Append(s.local, e)
           t == AddServerReflexive(s, m)
           d == WithReflexive(c, m)
<1>1. /\ c \in PeerConnections /\ SessionInv(s) /\ s \in Session /\ SessionTyped(s)
      /\ MaxCandidates \in Nat /\ Len(s.local) \in Nat /\ s.state = "gathered"
  BY ConnectionFields DEF ConnectionOK
<1>2. SessionInv(t)
  BY <1>1, AddServerReflexiveOK
<1>3. t = [s EXCEPT !.local = local, !.pairs = s.pairs \o LocalPairs(s, Len(s.local) + 1)]
  BY <1>1 DEF AddServerReflexive
<1>4. t.local = local /\ t.remote = s.remote /\ t.state = s.state
  <2> HIDE DEF local, t
  <2> QED BY <1>1, <1>3 DEF Session
<1>5. s.local \in Seq(LocalCandidate) /\ DOMAIN s.local = 1..Len(s.local)
  BY <1>1, SessionFields
<1>6. e \in LocalCandidate
  BY DEF LocalCandidate
<1>7. e.addr = m
  OBVIOUS
<1> HIDE DEF e
<1>8. /\ Len(local) = Len(s.local) + 1 /\ local \in Seq(LocalCandidate)
      /\ local[Len(s.local) + 1] = e /\ \A i \in 1..Len(s.local) : local[i] = s.local[i]
  BY <1>5, <1>6, AppendProperties
<1> HIDE DEF local, t
<1>9. \A i \in DOMAIN local : (i \in DOMAIN s.local /\ local[i] = s.local[i]) \/ local[i].addr = m
  BY <1>1, <1>5, <1>7, <1>8
<1>10. d = [c EXCEPT !.ice = t]
  BY DEF WithReflexive, t
<1> HIDE DEF d
<1>11. t \in Session
  BY <1>2 DEF SessionInv, SessionTyped
<1>12. d \in PeerConnections /\ d.has = c.has /\ d.described = c.described /\ d.sdp = c.sdp /\ d.ice = t
  BY <1>1, <1>10, <1>11 DEF PeerConnections
<1>13. ConnectionOK(d)
  BY <1>1, <1>2, <1>4, <1>12 DEF ConnectionOK
<1> QED BY <1>4, <1>9, <1>12, <1>13 DEF d

-----------------------------------------------------------------------------
(***************************************************************************)
(* The queues of the server.                                               *)
(***************************************************************************)
\* The description one side waits for.
Expected(p) == IF p = "caller" THEN "answer" ELSE "offer"

MessageOK(m, p) ==
  /\ m \in Message
  /\ Len(m.candidates) <= MaxCandidates
  /\ m.type = "candidate" => Len(m.candidates) = 1
  /\ m.type = "peer-joined" => m.candidates = << >>
  /\ m.type \in {"peer-joined", "candidate", Expected(p)}

QueueOK(q, p) ==
  /\ q \in Seq(Message)
  /\ \A k \in 1..Len(q) : MessageOK(q[k], p)

\* Message k of q has that type.
ComesAt(q, type, k) == k \in 1..Len(q) /\ q[k].type = type

\* Candidate a is in q, or in it from message k on.
Carries(q, a) == \E k \in 1..Len(q) : Holds(q[k].candidates, a)

CarriesFrom(q, k, a) == \E j \in 1..Len(q) : k <= j /\ Holds(q[j].candidates, a)

LEMMA QueueExtended ==
  ASSUME NEW q \in Seq(Message), NEW ms \in Seq(Message)
  PROVE  /\ q \o ms \in Seq(Message)
         /\ \A p : QueueOK(q, p) /\ QueueOK(ms, p) => QueueOK(q \o ms, p)
         /\ \A type, k : ComesAt(q \o ms, type, k) =>
              ComesAt(q, type, k) \/ (k > Len(q) /\ ComesAt(ms, type, k - Len(q)))
         /\ \A k : k \in 1..Len(q \o ms) /\ k - Len(q) = Len(ms) /\ Len(ms) > 0 =>
              (q \o ms)[k] = ms[Len(ms)]
         /\ \A a : Carries(q, a) \/ Carries(ms, a) => Carries(q \o ms, a)
         /\ \A a : \A k \in 1..Len(q) :
              CarriesFrom(q, k, a) \/ Carries(ms, a) => CarriesFrom(q \o ms, k, a)
<1> DEFINE n == Len(q)
           m == Len(ms)
           t == q \o ms
<1>1. n \in Nat /\ m \in Nat
  OBVIOUS
<1>2. t \in Seq(Message) /\ Len(t) = n + m
  BY ConcatProperties
<1>3. \A i \in 1..(n + m) : t[i] = IF i <= n THEN q[i] ELSE ms[i - n]
  BY ConcatProperties
<1> HIDE DEF t, n, m
<1>4. \A i \in 1..n : i \in 1..(n + m) /\ t[i] = q[i]
  BY <1>1, <1>3
<1>5. ASSUME NEW j \in 1..m PROVE n + j \in 1..(n + m) /\ t[n + j] = ms[j]
  <2> DEFINE i == n + j
  <2>1. i \in 1..(n + m) /\ ~(i <= n) /\ i - n = j
    BY <1>1
  <2> HIDE DEF i
  <2>2. t[i] = ms[j]
    BY <1>3, <2>1
  <2> QED BY <2>1, <2>2 DEF i
<1>6. \A i \in 1..(n + m) : i \in 1..n \/ (i > n /\ i - n \in 1..m /\ n + (i - n) = i)
  BY <1>1
<1>7. \A i \in 1..(n + m) :
        (i \in 1..n /\ t[i] = q[i]) \/ (i > n /\ i - n \in 1..m /\ t[i] = ms[i - n])
  BY <1>4, <1>5, <1>6
<1>8. \A p : QueueOK(q, p) /\ QueueOK(ms, p) => QueueOK(t, p)
  BY <1>2, <1>7 DEF QueueOK, n, m
<1>9. \A type, k : ComesAt(t, type, k) => ComesAt(q, type, k) \/ (k > n /\ ComesAt(ms, type, k - n))
  BY <1>2, <1>7 DEF ComesAt, n, m
<1>10. \A k : k \in 1..Len(t) /\ k - n = m /\ m > 0 => t[k] = ms[m]
  <2> SUFFICES ASSUME NEW k \in 1..Len(t), k - n = m, m > 0 PROVE t[k] = ms[m]
    OBVIOUS
  <2>1. k \in 1..(n + m) /\ k \notin 1..n
    BY <1>1, <1>2
  <2> QED BY <1>7, <2>1
<1>11. ASSUME NEW a, Carries(q, a) \/ Carries(ms, a) PROVE Carries(t, a)
  <2>1. CASE Carries(q, a)
    BY <1>2, <1>4, <2>1 DEF Carries, n
  <2>2. CASE Carries(ms, a)
    BY <1>2, <1>5, <2>2 DEF Carries, m
  <2> QED BY <1>11, <2>1, <2>2
<1>12. ASSUME NEW a, NEW k \in 1..n, CarriesFrom(q, k, a) \/ Carries(ms, a)
       PROVE  CarriesFrom(t, k, a)
  <2>1. CASE CarriesFrom(q, k, a)
    BY <1>2, <1>4, <2>1 DEF CarriesFrom, n
  <2>2. CASE Carries(ms, a)
    <3>1. PICK j \in 1..m : Holds(ms[j].candidates, a)
      BY <2>2 DEF Carries, m
    <3>2. k <= n + j
      BY <1>1
    <3> QED BY <1>2, <1>5, <3>1, <3>2 DEF CarriesFrom
  <2> QED BY <1>12, <2>1, <2>2
<1> QED BY <1>2, <1>8, <1>9, <1>10, <1>11, <1>12 DEF t, n, m

LEMMA QueueRead ==
  ASSUME NEW p, NEW q, QueueOK(q, p), q # << >>
  PROVE  /\ QueueOK(Tail(q), p) /\ MessageOK(Head(q), p)
         /\ ComesAt(q, Head(q).type, 1)
         /\ \A type, k : ComesAt(Tail(q), type, k) => ComesAt(q, type, k + 1)
         /\ \A a : Carries(q, a) => Holds(Head(q).candidates, a) \/ Carries(Tail(q), a)
         /\ \A a : \A k \in 1..Len(Tail(q)) : CarriesFrom(q, k + 1, a) => CarriesFrom(Tail(q), k, a)
<1> DEFINE n == Len(q)
           t == Tail(q)
<1>1. q \in Seq(Message) /\ n \in Nat /\ n # 0
  BY EmptySeq DEF QueueOK
<1>2. Head(q) = q[1]
  BY <1>1
<1>3. t \in Seq(Message) /\ Len(t) = n - 1 /\ \A i \in 1..Len(t) : t[i] = q[i + 1]
  BY <1>1, HeadTailProperties
<1> HIDE DEF t
<1>4. \A i \in 1..Len(t) : i + 1 \in 1..n
  BY <1>1, <1>3
<1>5. \A j \in 1..n : j = 1 \/ (j - 1 \in 1..Len(t) /\ (j - 1) + 1 = j)
  BY <1>1, <1>3
<1>6. 1 \in 1..n
  BY <1>1
<1> HIDE DEF n
<1>7. QueueOK(t, p) /\ MessageOK(Head(q), p)
  BY <1>2, <1>3, <1>4, <1>6 DEF QueueOK, n
<1>8. ComesAt(q, Head(q).type, 1)
  BY <1>2, <1>6 DEF ComesAt, n
<1>9. \A type, k : ComesAt(t, type, k) => ComesAt(q, type, k + 1)
  BY <1>3, <1>4 DEF ComesAt, n
<1>10. \A j \in 1..n : j = 1 \/ (j - 1 \in 1..Len(t) /\ t[j - 1] = q[j])
  BY <1>3, <1>5
<1>11. \A a : Carries(q, a) => Holds(Head(q).candidates, a) \/ Carries(t, a)
  BY <1>2, <1>10 DEF Carries, n
<1>12. ASSUME NEW a, NEW k \in 1..Len(t), CarriesFrom(q, k + 1, a)
       PROVE  CarriesFrom(t, k, a)
  <2>1. PICK j \in 1..n : k + 1 <= j /\ Holds(q[j].candidates, a)
    BY <1>12 DEF CarriesFrom, n
  <2>2. j # 1 /\ k <= j - 1
    BY <2>1
  <2> QED BY <1>10, <2>1, <2>2 DEF CarriesFrom
<1> QED BY <1>7, <1>8, <1>9, <1>11, <1>12 DEF t

-----------------------------------------------------------------------------
(***************************************************************************)
(* Where a side has or will have a candidate of its peer from.             *)
(***************************************************************************)
\* The description that p waits for does not come after the candidate.
Behind(q, p, a) == \A k : ComesAt(q, Expected(p), k) => CarriesFrom(q, k, a)

\* The offer that the callee has taken and not set has it, or it comes.
InHand(offer, q, a) == offer # << >> => Holds(offer[1], a) \/ Carries(q, a)

\* Once there is a description it is in the session, or in what will be
\* replayed into one, or it comes.
KnownTo(c, q, a) ==
  c.described =>
    \/ Carries(q, a)
    \/ IF c.has THEN Holds(c.ice.remote, a) \/ NoRoomLeft(c) ELSE Holds(c.sdp, a)

Reaches(p, c, q, offer, a) ==
  /\ Behind(q, p, a)
  /\ p = "callee" => InHand(offer, q, a)
  /\ KnownTo(c, q, a)

\* So it is with all candidates of the peer, whose connection is d.
Safe(p, c, d, q, offer) ==
  d.has => \A i \in DOMAIN d.ice.local : Reaches(p, c, q, offer, d.ice.local[i].addr)

\* More is sent, and no description.
LEMMA ReachesExtended ==
  ASSUME NEW p, NEW c, NEW offer, NEW a, NEW q \in Seq(Message), NEW ms \in Seq(Message),
         \A k : ~ComesAt(ms, Expected(p), k), Reaches(p, c, q, offer, a) \/ Carries(ms, a)
  PROVE  Reaches(p, c, q \o ms, offer, a)
<1> DEFINE t == q \o ms
<1>1. \A k : ComesAt(t, Expected(p), k) => ComesAt(q, Expected(p), k)
  BY QueueExtended
<1>2. Carries(q, a) \/ Carries(ms, a) => Carries(t, a)
  BY QueueExtended
<1>3. \A k \in 1..Len(q) : CarriesFrom(q, k, a) \/ Carries(ms, a) => CarriesFrom(t, k, a)
  BY QueueExtended
<1> HIDE DEF t
<1>4. Behind(t, p, a)
  BY <1>1, <1>3 DEF Behind, Reaches, ComesAt
<1>5. p = "callee" => InHand(offer, t, a)
  BY <1>2 DEF Reaches, InHand
<1>6. KnownTo(c, t, a)
  BY <1>2 DEF Reaches, KnownTo
<1> QED BY <1>4, <1>5, <1>6 DEF Reaches, t

\* The first description is sent, with all candidates there are.
LEMMA ReachesDescribed ==
  ASSUME NEW p, NEW c, NEW a, NEW q \in Seq(Message), NEW ms \in Seq(Message),
         ~c.described, \A k : ~ComesAt(q, Expected(p), k),
         Len(ms) > 0, \A k : ComesAt(ms, Expected(p), k) => k = Len(ms),
         Holds(ms[Len(ms)].candidates, a)
  PROVE  Reaches(p, c, q \o ms, << >>, a)
<1> DEFINE t == q \o ms
<1>1. \A k : ComesAt(t, Expected(p), k) => k > Len(q) /\ k - Len(q) = Len(ms)
  BY QueueExtended
<1>2. \A k : k \in 1..Len(t) /\ k - Len(q) = Len(ms) => t[k] = ms[Len(ms)]
  BY QueueExtended
<1>3. t \in Seq(Message)
  BY QueueExtended
<1> HIDE DEF t
<1>4. ASSUME NEW k, ComesAt(t, Expected(p), k) PROVE CarriesFrom(t, k, a)
  <2>1. k \in 1..Len(t) /\ k <= k
    BY <1>3, <1>4 DEF ComesAt
  <2>2. t[k] = ms[Len(ms)]
    BY <1>1, <1>2, <1>4, <2>1
  <2> QED BY <2>1, <2>2 DEF CarriesFrom
<1> QED BY <1>4 DEF Reaches, Behind, InHand, KnownTo, t

\* The messages with which a description is sent.
DescriptionMessages(s, type) == Append(Announced(s), Msg(type, Addresses(s)))

LEMMA SingleMessage ==
  ASSUME NEW m \in Message
  PROVE  LET ms == <<m>>
         IN  /\ ms \in Seq(Message) /\ Len(ms) = 1
             /\ \A type, k : ComesAt(ms, type, k) => k = 1 /\ type = m.type
             /\ \A p : MessageOK(m, p) => QueueOK(ms, p)
             /\ \A a : Holds(m.candidates, a) => Carries(ms, a)
<1> DEFINE ms == <<m>>
<1>1. ms \in Seq(Message) /\ Len(ms) = 1 /\ ms[1] = m
  OBVIOUS
<1> HIDE DEF ms
<1>2. \A k \in 1..Len(ms) : k = 1
  BY <1>1
<1>3. 1 \in 1..Len(ms)
  BY <1>1
<1>4. \A type, k : ComesAt(ms, type, k) => k = 1 /\ type = m.type
  BY <1>1, <1>2 DEF ComesAt
<1>5. \A p : MessageOK(m, p) => QueueOK(ms, p)
  BY <1>1, <1>2 DEF QueueOK
<1>6. \A a : Holds(m.candidates, a) => Carries(ms, a)
  BY <1>1, <1>3 DEF Carries
<1> QED BY <1>1, <1>4, <1>5, <1>6 DEF ms

LEMMA CandidateMessage ==
  ASSUME NEW m \in LocalAddr
  PROVE  LET c == Msg("candidate", <<m>>)
         IN  /\ c \in Message /\ c.type = "candidate" /\ Holds(c.candidates, m)
             /\ \A p : MessageOK(c, p)
<1> DEFINE c == Msg("candidate", <<m>>)
<1>1. c.type = "candidate" /\ c.candidates = <<m>> /\ c \in Message
  BY DEF Msg, Message
<1>2. c.candidates[1] = m /\ Len(c.candidates) = 1 /\ 1 \in DOMAIN c.candidates
  BY <1>1
<1> HIDE DEF c
<1>3. \A p : MessageOK(c, p)
  BY <1>1, <1>2, IceAssumption DEF MessageOK
<1>4. Holds(c.candidates, m)
  BY <1>2 DEF Holds
<1> QED BY <1>1, <1>3, <1>4 DEF c

LEMMA DescriptionMessagesOK ==
  ASSUME NEW s, SessionTyped(s), NEW p \in Peers
  PROVE  LET ms == DescriptionMessages(s, Expected(p))
         IN  /\ ms \in Seq(Message) /\ Len(ms) > 0 /\ QueueOK(ms, p)
             /\ \A k : ComesAt(ms, Expected(p), k) => k = Len(ms)
             /\ \A k : ~ComesAt(ms, "peer-joined", k)
             /\ \A i \in DOMAIN s.local : Holds(ms[Len(ms)].candidates, s.local[i].addr)
<1> DEFINE as == Announced(s)
           d == Msg(Expected(p), Addresses(s))
           n == Len(s.local)
           ms == DescriptionMessages(s, Expected(p))
<1>1. s.local \in Seq(LocalCandidate) /\ DOMAIN s.local = 1..n /\ n \in Nat /\ n <= MaxCandidates
  BY SessionFields DEF SessionTyped
<1>2. \A i \in 1..n : s.local[i].addr \in LocalAddr
  <2>1. \A i \in 1..n : s.local[i] \in LocalCandidate
    BY <1>1, ElementOfSeq
  <2> QED BY <2>1 DEF LocalCandidate
<1>3. Addresses(s) \in Seq(LocalAddr) /\ Len(Addresses(s)) = n
  <2>1. Addresses(s) \in [1..n -> LocalAddr]
    BY <1>1, <1>2 DEF Addresses
  <2> QED BY <1>1, <2>1, FunctionIsSeq
<1>4. \A i \in 1..n : as[i] = Msg("candidate", <<s.local[i].addr>>)
  BY <1>1 DEF Announced
<1>5. \A i \in 1..n : as[i] \in Message /\ as[i].type = "candidate" /\ MessageOK(as[i], p)
  BY <1>2, <1>4, CandidateMessage
<1>6. as \in Seq(Message) /\ Len(as) = n
  <2>1. as \in [1..n -> Message]
    BY <1>1, <1>5 DEF Announced
  <2> QED BY <1>1, <2>1, FunctionIsSeq
<1>7. d.type = Expected(p) /\ d.candidates = Addresses(s) /\ d \in Message
  BY <1>3 DEF d, Msg, Message, Expected
<1>8. MessageOK(d, p) /\ d.type \notin {"candidate", "peer-joined"}
  BY <1>1, <1>3, <1>7 DEF MessageOK, Expected
<1>9. ms = Append(as, d)
  BY DEF DescriptionMessages
<1> HIDE DEF as, d, n, ms
<1>10. /\ ms \in Seq(Message) /\ Len(ms) = n + 1 /\ ms[n + 1] = d
       /\ \A i \in 1..n : ms[i] = as[i]
  <2>1. as \in Seq(Message) /\ d \in Message
    BY <1>6, <1>7
  <2>2. Append(as, d) \in Seq(Message)
    BY <2>1, AppendProperties
  <2>3. Len(Append(as, d)) = Len(as) + 1
    BY <2>1
  <2>4. Append(as, d)[Len(as) + 1] = d
    BY <2>1, AppendProperties
  <2>5. \A i \in 1..Len(as) : Append(as, d)[i] = as[i]
    BY <2>1
  <2> QED BY <1>6, <1>9, <2>2, <2>3, <2>4, <2>5
<1>11. \A k \in 1..Len(ms) : k \in 1..n \/ k = n + 1
  BY <1>1, <1>10
<1>12. QueueOK(ms, p)
  BY <1>5, <1>8, <1>10, <1>11 DEF QueueOK
<1>13. \A k : ComesAt(ms, Expected(p), k) => k = Len(ms)
  <2>1. Expected(p) # "candidate"
    BY DEF Expected
  <2> QED BY <1>5, <1>10, <1>11, <2>1 DEF ComesAt
<1>14. \A k : ~ComesAt(ms, "peer-joined", k)
  BY <1>5, <1>8, <1>10, <1>11 DEF ComesAt
<1>15. ms[Len(ms)] = d /\ Len(ms) > 0
  BY <1>1, <1>10
<1>16. \A i \in DOMAIN s.local : Holds(d.candidates, s.local[i].addr)
  BY <1>7 DEF Holds, Addresses
<1> QED BY <1>10, <1>12, <1>13, <1>14, <1>15, <1>16 DEF ms

-----------------------------------------------------------------------------
(***************************************************************************)
(* What either side does keeps Safe.                                       *)
(***************************************************************************)
LEMMA SafeExtended ==
  ASSUME NEW p, NEW c, NEW d, NEW offer, NEW q \in Seq(Message), NEW ms \in Seq(Message),
         \A k : ~ComesAt(ms, Expected(p), k), Safe(p, c, d, q, offer)
  PROVE  Safe(p, c, d, q \o ms, offer)
<1> SUFFICES ASSUME d.has, NEW i \in DOMAIN d.ice.local
             PROVE  Reaches(p, c, q \o ms, offer, d.ice.local[i].addr)
  BY DEF Safe
<1>1. Reaches(p, c, q, offer, d.ice.local[i].addr)
  BY DEF Safe
<1> QED BY <1>1, ReachesExtended

\* The peer has a new candidate and announces it.
LEMMA SafeAnnounced ==
  ASSUME NEW p, NEW c, NEW d, NEW e, NEW m, NEW offer, NEW q \in Seq(Message), NEW ms \in Seq(Message),
         \A k : ~ComesAt(ms, Expected(p), k), Safe(p, c, d, q, offer),
         d.has, Carries(ms, m),
         \A i \in DOMAIN e.ice.local :
           (i \in DOMAIN d.ice.local /\ e.ice.local[i] = d.ice.local[i]) \/ e.ice.local[i].addr = m
  PROVE  Safe(p, c, e, q \o ms, offer)
<1> SUFFICES ASSUME NEW i \in DOMAIN e.ice.local
             PROVE  Reaches(p, c, q \o ms, offer, e.ice.local[i].addr)
  BY DEF Safe
<1>1. Reaches(p, c, q, offer, e.ice.local[i].addr) \/ Carries(ms, e.ice.local[i].addr)
  BY DEF Safe
<1> QED BY <1>1, ReachesExtended

\* The peer describes itself for the first time.
LEMMA SafeDescribed ==
  ASSUME NEW p, NEW c, NEW d, NEW q \in Seq(Message), NEW ms \in Seq(Message),
         ~c.described, \A k : ~ComesAt(q, Expected(p), k),
         Len(ms) > 0, \A k : ComesAt(ms, Expected(p), k) => k = Len(ms),
         \A i \in DOMAIN d.ice.local : Holds(ms[Len(ms)].candidates, d.ice.local[i].addr)
  PROVE  Safe(p, c, d, q \o ms, << >>)
<1> SUFFICES ASSUME NEW i \in DOMAIN d.ice.local
             PROVE  Reaches(p, c, q \o ms, << >>, d.ice.local[i].addr)
  BY DEF Safe
<1> QED BY ReachesDescribed

\* Nothing changes for p.
LEMMA SafeSame ==
  ASSUME NEW p, NEW c, NEW d, NEW q, NEW offer, Safe(p, c, d, q, offer), NEW e, NEW f,
         e.described = c.described, e.has = c.has, e.sdp = c.sdp, e.ice.remote = c.ice.remote,
         f.has = d.has, f.ice.local = d.ice.local
  PROVE  Safe(p, e, f, q, offer)
BY DEF Safe, Reaches, KnownTo, NoRoomLeft

\* p reads a candidate.
LEMMA SafeCandidate ==
  ASSUME NEW p, NEW c, NEW d, NEW q, NEW offer, ConnectionOK(c), QueueOK(q, p), q # << >>,
         Head(q).type = "candidate", c.described => c.has, p = "callee" => offer = << >>,
         Safe(p, c, d, q, offer)
  PROVE  Safe(p, WithCandidate(c, Head(q).candidates[1]), d, Tail(q), offer)
<1> DEFINE h == Head(q)
           b == h.candidates[1]
           e == WithCandidate(c, b)
<1> SUFFICES ASSUME d.has, NEW i \in DOMAIN d.ice.local
             PROVE  Reaches(p, e, Tail(q), offer, d.ice.local[i].addr)
  BY DEF Safe
<1> DEFINE a == d.ice.local[i].addr
           t == Tail(q)
<1>1. Reaches(p, c, q, offer, a)
  BY DEF Safe
<1> HIDE DEF a
<1>2. /\ QueueOK(t, p) /\ MessageOK(h, p) /\ ComesAt(q, h.type, 1)
      /\ \A type, k : ComesAt(t, type, k) => ComesAt(q, type, k + 1)
      /\ Carries(q, a) => Holds(h.candidates, a) \/ Carries(t, a)
      /\ \A k \in 1..Len(t) : CarriesFrom(q, k + 1, a) => CarriesFrom(t, k, a)
  BY QueueRead
<1>3. h.candidates \in Seq(RemoteAddr) /\ Len(h.candidates) = 1
  BY <1>2, CallAssumption DEF MessageOK, Message
<1>4. b \in RemoteAddr
  BY <1>3
<1>5. Holds(h.candidates, a) => a = b
  BY <1>3 DEF Holds
<1> HIDE DEF b, h, t
<1>6. /\ ConnectionOK(e) /\ e.has = c.has /\ e.described = c.described
      /\ NoRoomLeft(c) => NoRoomLeft(e)
      /\ Holds(c.ice.remote, a) => Holds(e.ice.remote, a)
      /\ c.has => Holds(e.ice.remote, b) \/ NoRoomLeft(e)
  BY <1>4, WithCandidateOK
<1> HIDE DEF e
<1>7. Behind(t, p, a)
  BY <1>1, <1>2 DEF Reaches, Behind, ComesAt
<1>8. p = "callee" => InHand(offer, t, a)
  BY DEF InHand
<1>9. KnownTo(e, t, a)
  BY <1>1, <1>2, <1>5, <1>6 DEF Reaches, KnownTo
<1> QED BY <1>7, <1>8, <1>9 DEF Reaches, a, e, b, h, t

\* p reads a message without candidates.
LEMMA SafeIgnored ==
  ASSUME NEW p, NEW c, NEW d, NEW q, NEW offer, QueueOK(q, p), q # << >>,
         Head(q).type = "peer-joined", Safe(p, c, d, q, offer)
  PROVE  Safe(p, c, d, Tail(q), offer)
<1> SUFFICES ASSUME d.has, NEW i \in DOMAIN d.ice.local
             PROVE  Reaches(p, c, Tail(q), offer, d.ice.local[i].addr)
  BY DEF Safe
<1> DEFINE h == Head(q)
           a == d.ice.local[i].addr
           t == Tail(q)
<1>1. Reaches(p, c, q, offer, a)
  BY DEF Safe
<1> HIDE DEF a
<1>2. /\ MessageOK(h, p)
      /\ \A type, k : ComesAt(t, type, k) => ComesAt(q, type, k + 1)
      /\ Carries(q, a) => Holds(h.candidates, a) \/ Carries(t, a)
      /\ \A k \in 1..Len(t) : CarriesFrom(q, k + 1, a) => CarriesFrom(t, k, a)
  BY QueueRead
<1>3. h.candidates = << >>
  BY <1>2 DEF MessageOK
<1>4. ~Holds(h.candidates, a)
  BY <1>3 DEF Holds
<1> HIDE DEF h, t
<1>5. Behind(t, p, a)
  BY <1>1, <1>2 DEF Reaches, Behind, ComesAt
<1>6. (p = "callee" => InHand(offer, t, a)) /\ KnownTo(c, t, a)
  BY <1>1, <1>2, <1>4 DEF Reaches, InHand, KnownTo
<1> QED BY <1>5, <1>6 DEF Reaches, a, t

\* p reads the description it waits for, of which there is one.
LEMMA DescriptionRead ==
  ASSUME NEW p, NEW c, NEW q, NEW offer, NEW a, QueueOK(q, p), q # << >>,
         Head(q).type = Expected(p),
         \A j, k : ComesAt(q, Expected(p), j) /\ ComesAt(q, Expected(p), k) => j = k,
         Reaches(p, c, q, offer, a)
  PROVE  /\ \A k : ~ComesAt(Tail(q), Expected(p), k)
         /\ Holds(Head(q).candidates, a) \/ Carries(Tail(q), a)
<1> DEFINE h == Head(q)
           t == Tail(q)
<1>1. /\ ComesAt(q, h.type, 1)
      /\ \A type, k : ComesAt(t, type, k) => ComesAt(q, type, k + 1)
      /\ Carries(q, a) => Holds(h.candidates, a) \/ Carries(t, a)
  BY QueueRead
<1>2. CarriesFrom(q, 1, a)
  BY <1>1 DEF Reaches, Behind
<1>3. Carries(q, a)
  BY <1>2 DEF Carries, CarriesFrom
<1> HIDE DEF h, t
<1>4. ASSUME NEW k, ComesAt(t, Expected(p), k) PROVE FALSE
  <2>1. ComesAt(q, Expected(p), k + 1) /\ ComesAt(q, Expected(p), 1)
    BY <1>1, <1>4 DEF h
  <2>2. k \in 1..Len(t)
    BY <1>4 DEF ComesAt
  <2>3. k + 1 # 1
    BY <2>2
  <2> QED BY <2>1, <2>3
<1> QED BY <1>1, <1>3, <1>4 DEF h, t

\* The caller reads the answer.
LEMMA SafeAnswer ==
  ASSUME NEW c, NEW d, NEW q, NEW offer, ConnectionOK(c), c.has, QueueOK(q, "caller"), q # << >>,
         Head(q).type = "answer",
         \A j, k : ComesAt(q, "answer", j) /\ ComesAt(q, "answer", k) => j = k,
         Safe("caller", c, d, q, offer)
  PROVE  Safe("caller", WithRemoteDescription(c, Head(q).candidates), d, Tail(q), offer)
<1> DEFINE h == Head(q)
           e == WithRemoteDescription(c, h.candidates)
           t == Tail(q)
<1> SUFFICES ASSUME d.has, NEW i \in DOMAIN d.ice.local
             PROVE  Reaches("caller", e, t, offer, d.ice.local[i].addr)
  BY DEF Safe
<1> DEFINE a == d.ice.local[i].addr
<1>1. Reaches("caller", c, q, offer, a)
  BY DEF Safe
<1> HIDE DEF a
<1>2. Expected("caller") = "answer"
  BY DEF Expected
<1>3. (\A k : ~ComesAt(t, Expected("caller"), k)) /\ (Holds(h.candidates, a) \/ Carries(t, a))
  BY <1>1, <1>2, DescriptionRead
<1>4. MessageOK(h, "caller")
  BY QueueRead
<1>5. h.candidates \in Seq(RemoteAddr) /\ Len(h.candidates) <= MaxCandidates
  BY <1>4, CallAssumption DEF MessageOK, Message
<1> HIDE DEF h, t
<1>6. e.has /\ (Holds(h.candidates, a) => Holds(e.ice.remote, a) \/ NoRoomLeft(e))
  BY <1>5, WithRemoteDescriptionOK
<1> HIDE DEF e
<1> QED BY <1>3, <1>6 DEF Reaches, Behind, KnownTo, a, e, h, t

\* The callee takes the offer.
LEMMA SafeOffer ==
  ASSUME NEW c, NEW d, NEW q, NEW offer, ~c.described, QueueOK(q, "callee"), q # << >>,
         Head(q).type = "offer",
         \A j, k : ComesAt(q, "offer", j) /\ ComesAt(q, "offer", k) => j = k,
         Safe("callee", c, d, q, offer)
  PROVE  Safe("callee", c, d, Tail(q), <<Head(q).candidates>>)
<1> DEFINE h == Head(q)
           t == Tail(q)
           o == <<h.candidates>>
<1> SUFFICES ASSUME d.has, NEW i \in DOMAIN d.ice.local
             PROVE  Reaches("callee", c, t, o, d.ice.local[i].addr)
  BY DEF Safe
<1> DEFINE a == d.ice.local[i].addr
<1>1. Reaches("callee", c, q, offer, a)
  BY DEF Safe
<1> HIDE DEF a
<1>2. Expected("callee") = "offer"
  BY DEF Expected
<1>3. (\A k : ~ComesAt(t, Expected("callee"), k)) /\ (Holds(h.candidates, a) \/ Carries(t, a))
  BY <1>1, <1>2, DescriptionRead
<1>4. o[1] = h.candidates
  OBVIOUS
<1> HIDE DEF o, h, t
<1> QED BY <1>3, <1>4 DEF Reaches, Behind, InHand, KnownTo, a, h, t, o

\* The callee sets the offer; it has no session yet.
LEMMA SafeSet ==
  ASSUME NEW c, NEW d, NEW q, NEW offer, ConnectionOK(c), ~c.has, offer # << >>,
         offer[1] \in Seq(RemoteAddr), Len(offer[1]) <= MaxCandidates,
         Safe("callee", c, d, q, offer)
  PROVE  Safe("callee", WithRemoteDescription(c, offer[1]), d, q, << >>)
<1> DEFINE e == WithRemoteDescription(c, offer[1])
<1> SUFFICES ASSUME d.has, NEW i \in DOMAIN d.ice.local
             PROVE  Reaches("callee", e, q, << >>, d.ice.local[i].addr)
  BY DEF Safe
<1> DEFINE a == d.ice.local[i].addr
<1>1. Reaches("callee", c, q, offer, a)
  BY DEF Safe
<1>2. e.has = c.has /\ (Holds(offer[1], a) => Holds(e.sdp, a))
  BY WithRemoteDescriptionOK
<1> HIDE DEF a, e
<1> QED BY <1>1, <1>2 DEF Reaches, InHand, KnownTo, a, e

\* p makes its session, into which what it knows is replayed.
LEMMA SafeReplayed ==
  ASSUME NEW p \in Peers, NEW c, NEW d, NEW q, NEW offer, ConnectionOK(c), ~c.has,
         Safe(p, c, d, q, offer)
  PROVE  Safe(p, WithSession(c, p), d, q, offer)
<1> DEFINE e == WithSession(c, p)
<1> SUFFICES ASSUME d.has, NEW i \in DOMAIN d.ice.local
             PROVE  Reaches(p, e, q, offer, d.ice.local[i].addr)
  BY DEF Safe
<1> DEFINE a == d.ice.local[i].addr
<1>1. Reaches(p, c, q, offer, a)
  BY DEF Safe
<1>2. e.has /\ e.described = c.described /\ (Holds(c.sdp, a) => Holds(e.ice.remote, a) \/ NoRoomLeft(e))
  BY WithSessionOK
<1> HIDE DEF a, e
<1> QED BY <1>1, <1>2 DEF Reaches, KnownTo, a, e

-----------------------------------------------------------------------------
(***************************************************************************)
(* How far the two have come.                                              *)
(***************************************************************************)
\* A message of that type is in q, or there is no more than one.
Comes(q, type) == \E k : ComesAt(q, type, k)

Once(q, type) == \A j, k : ComesAt(q, type, j) /\ ComesAt(q, type, k) => j = k

LEMMA KindsRead ==
  ASSUME NEW p, NEW q, QueueOK(q, p), q # << >>
  PROVE  /\ Comes(q, Head(q).type)
         /\ \A type : Comes(Tail(q), type) => Comes(q, type)
         /\ \A type : Once(q, type) => Once(Tail(q), type)
         /\ Once(q, Head(q).type) => ~Comes(Tail(q), Head(q).type)
<1>1. /\ ComesAt(q, Head(q).type, 1)
      /\ \A type, k : ComesAt(Tail(q), type, k) => ComesAt(q, type, k + 1)
  BY QueueRead
<1>2. \A type, k : ComesAt(Tail(q), type, k) => k \in Nat /\ k > 0
  <2>1. Len(Tail(q)) \in Nat
    BY QueueRead DEF QueueOK
  <2> QED BY <2>1 DEF ComesAt
<1>3. Comes(q, Head(q).type) /\ \A type : Comes(Tail(q), type) => Comes(q, type)
  BY <1>1 DEF Comes
<1>4. ASSUME NEW type, Once(q, type) PROVE Once(Tail(q), type)
  <2> SUFFICES ASSUME NEW j, NEW k, ComesAt(Tail(q), type, j), ComesAt(Tail(q), type, k)
               PROVE  j = k
    BY DEF Once
  <2>1. j + 1 = k + 1
    BY <1>1, <1>4 DEF Once
  <2> QED BY <1>2, <2>1
<1>5. ASSUME Once(q, Head(q).type), NEW k, ComesAt(Tail(q), Head(q).type, k) PROVE FALSE
  <2>1. k + 1 = 1
    BY <1>1, <1>5 DEF Once
  <2> QED BY <1>2, <1>5, <2>1
<1> QED BY <1>3, <1>4, <1>5 DEF Comes

LEMMA KindsSent ==
  ASSUME NEW q \in Seq(Message), NEW ms \in Seq(Message), NEW type
  PROVE  /\ Comes(q \o ms, type) => Comes(q, type) \/ Comes(ms, type)
         /\ Once(q, type) /\ Once(ms, type) /\ ~(Comes(q, type) /\ Comes(ms, type)) => Once(q \o ms, type)
<1>1. \A k : ComesAt(q \o ms, type, k) =>
        ComesAt(q, type, k) \/ (k > Len(q) /\ ComesAt(ms, type, k - Len(q)))
  BY QueueExtended
<1>2. Len(q) \in Nat /\ Len(q \o ms) \in Nat
  BY ConcatProperties
<1>3. \A k : ComesAt(q \o ms, type, k) => k \in Nat
  BY <1>2 DEF ComesAt
<1>4. ASSUME Once(q, type), Once(ms, type), ~(Comes(q, type) /\ Comes(ms, type)),
             NEW j, NEW k, ComesAt(q \o ms, type, j), ComesAt(q \o ms, type, k)
      PROVE  j = k
  <2>1. CASE ComesAt(q, type, j) /\ ComesAt(q, type, k)
    BY <1>4, <2>1 DEF Once
  <2>2. CASE ~ComesAt(q, type, j) /\ ~ComesAt(q, type, k)
    <3>1. ComesAt(ms, type, j - Len(q)) /\ ComesAt(ms, type, k - Len(q))
      BY <1>1, <1>4, <2>2
    <3>2. j - Len(q) = k - Len(q)
      BY <1>4, <3>1 DEF Once
    <3> QED BY <1>2, <1>3, <1>4, <3>2
  <2>3. CASE ComesAt(q, type, j) /\ ~ComesAt(q, type, k)
    BY <1>1, <1>4, <2>3 DEF Comes
  <2>4. CASE ~ComesAt(q, type, j) /\ ComesAt(q, type, k)
    BY <1>1, <1>4, <2>4 DEF Comes
  <2> QED BY <2>1, <2>2, <2>3, <2>4
<1>5. Comes(q \o ms, type) => Comes(q, type) \/ Comes(ms, type)
  BY <1>1 DEF Comes
<1> QED BY <1>4, <1>5 DEF Once

\* The caller is at sr and the callee at se, with their connections cr and ce
\* and their queues qr and qe.
Progress(sr, se, j, o, cr, ce, qr, qe, offer) ==
  /\ sr \in {"out", "main"} /\ se \in {"out", "waiting", "offered", "main"}
  /\ j \/ Comes(qr, "peer-joined") => sr # "out" /\ se # "out"
  /\ o => j
  /\ se \in {"offered", "main"} => o
  /\ cr.has <=> o
  /\ ce.has <=> (se = "main")
  /\ offer # << >> => se = "offered" /\ ~ce.described
  /\ ce.described => se \in {"offered", "main"}
  /\ cr.described => ce.has
  /\ Comes(qe, "offer") => o /\ se = "waiting"
  /\ Comes(qr, "answer") => ce.has /\ ~cr.described
  /\ Once(qe, "offer") /\ Once(qr, "answer")

OfferOK(offer) ==
  offer = << >> \/ \E list \in Seq(LocalAddr) : offer = <<list>> /\ Len(list) <= MaxCandidates

SidesOK(cr, ce, qr, qe, offer) ==
  /\ ConnectionOK(cr) /\ ConnectionOK(ce)
  /\ QueueOK(qr, "caller") /\ QueueOK(qe, "callee")
  /\ OfferOK(offer)

\* The inductive invariant of a call that nothing disturbs.
Reached(sr, se, j, o, cr, ce, qr, qe, offer) ==
  /\ Progress(sr, se, j, o, cr, ce, qr, qe, offer)
  /\ Safe("caller", cr, ce, qr, offer)
  /\ Safe("callee", ce, cr, qe, offer)

-----------------------------------------------------------------------------
(***************************************************************************)
(* Every step keeps it.                                                    *)
(***************************************************************************)
\* The head of q is taken as a description or a candidate.
LEMMA HeadOK ==
  ASSUME NEW p \in Peers, NEW q, QueueOK(q, p), q # << >>
  PROVE  LET list == Head(q).candidates
         IN  /\ list \in Seq(LocalAddr) /\ list \in Seq(RemoteAddr) /\ Len(list) <= MaxCandidates
             /\ Head(q).type = "candidate" => list[1] \in RemoteAddr
<1>1. MessageOK(Head(q), p)
  BY QueueRead
<1>2. Head(q).candidates \in Seq(LocalAddr) /\ LocalAddr = RemoteAddr
  BY <1>1, CallAssumption DEF MessageOK, Message
<1>3. ASSUME Head(q).type = "candidate" PROVE Head(q).candidates[1] \in RemoteAddr
  <2>1. Len(Head(q).candidates) = 1
    BY <1>1, <1>3 DEF MessageOK
  <2> QED BY <1>2, <2>1
<1> QED BY <1>1, <1>2, <1>3 DEF MessageOK

LEMMA CallerReadsCandidate ==
  ASSUME NEW sr, NEW se, NEW j, NEW o, NEW cr, NEW ce, NEW qr, NEW qe, NEW offer,
         SidesOK(cr, ce, qr, qe, offer), qr # << >>, Head(qr).type = "candidate"
  PROVE  LET d == WithCandidate(cr, Head(qr).candidates[1])
         IN  /\ SidesOK(d, ce, Tail(qr), qe, offer)
             /\ Reached(sr, se, j, o, cr, ce, qr, qe, offer)
                  => Reached(sr, se, j, o, d, ce, Tail(qr), qe, offer)
<1> DEFINE a == Head(qr).candidates[1]
           d == WithCandidate(cr, a)
           t == Tail(qr)
<1>1. /\ ConnectionOK(cr) /\ ConnectionOK(ce)
      /\ QueueOK(qr, "caller") /\ QueueOK(qe, "callee") /\ OfferOK(offer)
  BY DEF SidesOK
<1>2. a \in RemoteAddr
  BY <1>1, HeadOK DEF Peers
<1>3. QueueOK(t, "caller")
  BY <1>1, QueueRead
<1> HIDE DEF a
<1>4. ConnectionOK(d) /\ d.has = cr.has /\ d.described = cr.described /\ d.ice.local = cr.ice.local
  BY <1>1, <1>2, WithCandidateOK
<1>5. \A type : (Comes(t, type) => Comes(qr, type)) /\ (Once(qr, type) => Once(t, type))
  BY <1>1, KindsRead
<1>6. ASSUME Reached(sr, se, j, o, cr, ce, qr, qe, offer)
      PROVE  Reached(sr, se, j, o, d, ce, t, qe, offer)
  <2>1. /\ Progress(sr, se, j, o, cr, ce, qr, qe, offer)
        /\ Safe("caller", cr, ce, qr, offer) /\ Safe("callee", ce, cr, qe, offer)
    BY <1>6 DEF Reached
  <2>2. cr.described => cr.has
    BY <2>1 DEF Progress
  <2>3. Safe("caller", d, ce, t, offer)
    <3>1. Safe("caller", WithCandidate(cr, Head(qr).candidates[1]), ce, Tail(qr), offer)
      BY <1>1, <2>1, <2>2, SafeCandidate
    <3> QED BY <3>1 DEF a
  <2> HIDE DEF d, t
  <2>4. Safe("callee", ce, d, qe, offer)
    BY <1>4, <2>1, SafeSame
  <2>5. Progress(sr, se, j, o, d, ce, t, qe, offer)
    BY <1>4, <1>5, <2>1 DEF Progress
  <2> QED BY <2>3, <2>4, <2>5 DEF Reached
<1> HIDE DEF d, t
<1>7. SidesOK(d, ce, t, qe, offer)
  BY <1>1, <1>3, <1>4 DEF SidesOK
<1> QED BY <1>6, <1>7 DEF d, t, a

LEMMA CallerReadsPeer ==
  ASSUME NEW sr, NEW se, NEW j, NEW o, NEW cr, NEW ce, NEW qr, NEW qe, NEW offer,
         SidesOK(cr, ce, qr, qe, offer), qr # << >>, Head(qr).type = "peer-joined"
  PROVE  /\ SidesOK(cr, ce, Tail(qr), qe, offer)
         /\ Reached(sr, se, j, o, cr, ce, qr, qe, offer)
              => Reached(sr, se, TRUE, o, cr, ce, Tail(qr), qe, offer)
<1> DEFINE t == Tail(qr)
<1>1. /\ ConnectionOK(cr) /\ ConnectionOK(ce)
      /\ QueueOK(qr, "caller") /\ QueueOK(qe, "callee") /\ OfferOK(offer)
  BY DEF SidesOK
<1>2. QueueOK(t, "caller")
  BY <1>1, QueueRead
<1>3. /\ \A type : (Comes(t, type) => Comes(qr, type)) /\ (Once(qr, type) => Once(t, type))
      /\ Comes(qr, "peer-joined")
  BY <1>1, KindsRead
<1>4. ASSUME Reached(sr, se, j, o, cr, ce, qr, qe, offer)
      PROVE  Reached(sr, se, TRUE, o, cr, ce, t, qe, offer)
  <2>1. /\ Progress(sr, se, j, o, cr, ce, qr, qe, offer)
        /\ Safe("caller", cr, ce, qr, offer) /\ Safe("callee", ce, cr, qe, offer)
    BY <1>4 DEF Reached
  <2>2. Safe("caller", cr, ce, t, offer)
    BY <1>1, <2>1, SafeIgnored
  <2> HIDE DEF t
  <2>3. Progress(sr, se, TRUE, o, cr, ce, t, qe, offer)
    BY <1>3, <2>1 DEF Progress
  <2> QED BY <2>1, <2>2, <2>3 DEF Reached
<1> HIDE DEF t
<1>5. SidesOK(cr, ce, t, qe, offer)
  BY <1>1, <1>2 DEF SidesOK
<1> QED BY <1>4, <1>5 DEF t

LEMMA CallerReadsAnswer ==
  ASSUME NEW sr, NEW se, NEW j, NEW o, NEW cr, NEW ce, NEW qr, NEW qe, NEW offer,
         SidesOK(cr, ce, qr, qe, offer), qr # << >>, Head(qr).type = "answer"
  PROVE  LET d == WithRemoteDescription(cr, Head(qr).candidates)
         IN  /\ SidesOK(d, ce, Tail(qr), qe, offer)
             /\ Reached(sr, se, j, o, cr, ce, qr, qe, offer)
                  => Reached(sr, se, j, o, d, ce, Tail(qr), qe, offer)
<1> DEFINE list == Head(qr).candidates
           d == WithRemoteDescription(cr, list)
           t == Tail(qr)
<1>1. /\ ConnectionOK(cr) /\ ConnectionOK(ce)
      /\ QueueOK(qr, "caller") /\ QueueOK(qe, "callee") /\ OfferOK(offer)
  BY DEF SidesOK
<1>2. list \in Seq(RemoteAddr) /\ Len(list) <= MaxCandidates
  BY <1>1, HeadOK DEF Peers
<1>3. QueueOK(t, "caller")
  BY <1>1, QueueRead
<1> HIDE DEF list
<1>4. ConnectionOK(d) /\ d.has = cr.has /\ d.described /\ d.ice.local = cr.ice.local
  BY <1>1, <1>2, WithRemoteDescriptionOK
<1>5. /\ \A type : (Comes(t, type) => Comes(qr, type)) /\ (Once(qr, type) => Once(t, type))
      /\ Comes(qr, "answer") /\ (Once(qr, "answer") => ~Comes(t, "answer"))
  BY <1>1, KindsRead
<1>6. ASSUME Reached(sr, se, j, o, cr, ce, qr, qe, offer)
      PROVE  Reached(sr, se, j, o, d, ce, t, qe, offer)
  <2>1. /\ Progress(sr, se, j, o, cr, ce, qr, qe, offer)
        /\ Safe("caller", cr, ce, qr, offer) /\ Safe("callee", ce, cr, qe, offer)
    BY <1>6 DEF Reached
  <2>2. cr.has /\ ~cr.described /\ ce.has /\ Once(qr, "answer")
    BY <1>5, <2>1 DEF Progress
  <2>3. Safe("caller", d, ce, t, offer)
    <3>1. \A i, k : ComesAt(qr, "answer", i) /\ ComesAt(qr, "answer", k) => i = k
      BY <2>2 DEF Once
    <3>2. Safe("caller", WithRemoteDescription(cr, Head(qr).candidates), ce, Tail(qr), offer)
      BY <1>1, <2>1, <2>2, <3>1, SafeAnswer
    <3> QED BY <3>2 DEF list
  <2> HIDE DEF d, t
  <2>4. Safe("callee", ce, d, qe, offer)
    BY <1>4, <2>1, SafeSame
  <2>5. Progress(sr, se, j, o, d, ce, t, qe, offer)
    BY <1>4, <1>5, <2>1, <2>2 DEF Progress
  <2> QED BY <2>3, <2>4, <2>5 DEF Reached
<1> HIDE DEF d, t
<1>7. SidesOK(d, ce, t, qe, offer)
  BY <1>1, <1>3, <1>4 DEF SidesOK
<1> QED BY <1>6, <1>7 DEF d, t, list

LEMMA CallerDescribes ==
  ASSUME NEW sr, NEW se, NEW j, NEW cr, NEW ce, NEW qr, NEW qe, NEW offer,
         SidesOK(cr, ce, qr, qe, offer)
  PROVE  LET d == WithSession(cr, "caller")
             ms == DescriptionMessages(d.ice, "offer")
         IN  /\ SidesOK(d, ce, qr, qe, offer) /\ SidesOK(d, ce, qr, qe \o ms, offer)
             /\ j /\ Reached(sr, se, j, FALSE, cr, ce, qr, qe, offer) =>
                  se \notin {"out", "exited"} /\ Reached(sr, se, j, TRUE, d, ce, qr, qe \o ms, offer)
<1> DEFINE d == WithSession(cr, "caller")
           ms == DescriptionMessages(d.ice, "offer")
<1>1. /\ ConnectionOK(cr) /\ ConnectionOK(ce)
      /\ QueueOK(qr, "caller") /\ QueueOK(qe, "callee") /\ OfferOK(offer)
  BY DEF SidesOK
<1>2. "caller" \in Peers /\ "callee" \in Peers /\ Expected("callee") = "offer"
  BY DEF Peers, Expected
<1>3. ConnectionOK(d) /\ d.has /\ d.described = cr.described
  BY <1>1, <1>2, WithSessionOK
<1> HIDE DEF d
<1>4. /\ ms \in Seq(Message) /\ Len(ms) > 0 /\ QueueOK(ms, "callee")
      /\ \A k : ComesAt(ms, "offer", k) => k = Len(ms)
      /\ \A i \in DOMAIN d.ice.local : Holds(ms[Len(ms)].candidates, d.ice.local[i].addr)
  BY <1>2, <1>3, ConnectionFields, DescriptionMessagesOK
<1> HIDE DEF ms
<1>5. qe \in Seq(Message) /\ QueueOK(qe \o ms, "callee")
  BY <1>1, <1>4, QueueExtended DEF QueueOK
<1>6. ASSUME j, Reached(sr, se, j, FALSE, cr, ce, qr, qe, offer)
      PROVE  /\ se \notin {"out", "exited"}
             /\ Reached(sr, se, j, TRUE, d, ce, qr, qe \o ms, offer)
  <2>1. Progress(sr, se, j, FALSE, cr, ce, qr, qe, offer)
    BY <1>6 DEF Reached
  <2>2. /\ se = "waiting" /\ ~ce.described /\ ~ce.has /\ offer = << >> /\ ~Comes(qe, "offer")
        /\ ~cr.described
    BY <1>6, <2>1 DEF Progress
  <2>3. Safe("caller", d, ce, qr, offer)
    BY <2>2 DEF Safe
  <2>4. Safe("callee", ce, d, qe \o ms, offer)
    <3>1. \A k : ~ComesAt(qe, "offer", k)
      BY <2>2 DEF Comes
    <3>2. Safe("callee", ce, d, qe \o ms, << >>)
      BY <1>2, <1>4, <1>5, <2>2, <3>1, SafeDescribed
    <3> QED BY <2>2, <3>2
  <2>5. Once(qe \o ms, "offer")
    <3>1. Once(ms, "offer")
      BY <1>4 DEF Once
    <3> QED BY <1>4, <1>5, <2>1, <2>2, <3>1, KindsSent DEF Progress
  <2>6. Progress(sr, se, j, TRUE, d, ce, qr, qe \o ms, offer)
    BY <1>3, <1>6, <2>1, <2>2, <2>5 DEF Progress
  <2> QED BY <2>2, <2>3, <2>4, <2>6 DEF Reached
<1>7. SidesOK(d, ce, qr, qe, offer) /\ SidesOK(d, ce, qr, qe \o ms, offer)
  BY <1>1, <1>3, <1>5 DEF SidesOK
<1> QED BY <1>6, <1>7 DEF d, ms

LEMMA CalleeReadsCandidate ==
  ASSUME NEW sr, NEW se, NEW j, NEW o, NEW cr, NEW ce, NEW qr, NEW qe, NEW offer,
         SidesOK(cr, ce, qr, qe, offer), se # "offered", qe # << >>, Head(qe).type = "candidate"
  PROVE  LET d == WithCandidate(ce, Head(qe).candidates[1])
         IN  /\ SidesOK(cr, d, qr, Tail(qe), offer)
             /\ Reached(sr, se, j, o, cr, ce, qr, qe, offer)
                  => Reached(sr, se, j, o, cr, d, qr, Tail(qe), offer)
<1> DEFINE a == Head(qe).candidates[1]
           d == WithCandidate(ce, a)
           t == Tail(qe)
<1>1. /\ ConnectionOK(cr) /\ ConnectionOK(ce)
      /\ QueueOK(qr, "caller") /\ QueueOK(qe, "callee") /\ OfferOK(offer)
  BY DEF SidesOK
<1>2. a \in RemoteAddr
  BY <1>1, HeadOK DEF Peers
<1>3. QueueOK(t, "callee")
  BY <1>1, QueueRead
<1> HIDE DEF a
<1>4. ConnectionOK(d) /\ d.has = ce.has /\ d.described = ce.described /\ d.ice.local = ce.ice.local
  BY <1>1, <1>2, WithCandidateOK
<1>5. \A type : (Comes(t, type) => Comes(qe, type)) /\ (Once(qe, type) => Once(t, type))
  BY <1>1, KindsRead
<1>6. ASSUME Reached(sr, se, j, o, cr, ce, qr, qe, offer)
      PROVE  Reached(sr, se, j, o, cr, d, qr, t, offer)
  <2>1. /\ Progress(sr, se, j, o, cr, ce, qr, qe, offer)
        /\ Safe("caller", cr, ce, qr, offer) /\ Safe("callee", ce, cr, qe, offer)
    BY <1>6 DEF Reached
  <2>2. (ce.described => ce.has) /\ offer = << >>
    BY <2>1 DEF Progress
  <2>3. Safe("callee", d, cr, t, offer)
    <3>1. Safe("callee", WithCandidate(ce, Head(qe).candidates[1]), cr, Tail(qe), offer)
      BY <1>1, <2>1, <2>2, SafeCandidate
    <3> QED BY <3>1 DEF a
  <2> HIDE DEF d, t
  <2>4. Safe("caller", cr, d, qr, offer)
    BY <1>4, <2>1, SafeSame
  <2>5. Progress(sr, se, j, o, cr, d, qr, t, offer)
    BY <1>4, <1>5, <2>1 DEF Progress
  <2> QED BY <2>3, <2>4, <2>5 DEF Reached
<1> HIDE DEF d, t
<1>7. SidesOK(cr, d, qr, t, offer)
  BY <1>1, <1>3, <1>4 DEF SidesOK
<1> QED BY <1>6, <1>7 DEF d, t, a

LEMMA CalleeReadsPeer ==
  ASSUME NEW sr, NEW se, NEW j, NEW o, NEW cr, NEW ce, NEW qr, NEW qe, NEW offer,
         SidesOK(cr, ce, qr, qe, offer), qe # << >>, Head(qe).type = "peer-joined"
  PROVE  /\ SidesOK(cr, ce, qr, Tail(qe), offer)
         /\ Reached(sr, se, j, o, cr, ce, qr, qe, offer)
              => Reached(sr, se, j, o, cr, ce, qr, Tail(qe), offer)
<1> DEFINE t == Tail(qe)
<1>1. /\ ConnectionOK(cr) /\ ConnectionOK(ce)
      /\ QueueOK(qr, "caller") /\ QueueOK(qe, "callee") /\ OfferOK(offer)
  BY DEF SidesOK
<1>2. QueueOK(t, "callee")
  BY <1>1, QueueRead
<1>3. \A type : (Comes(t, type) => Comes(qe, type)) /\ (Once(qe, type) => Once(t, type))
  BY <1>1, KindsRead
<1>4. ASSUME Reached(sr, se, j, o, cr, ce, qr, qe, offer)
      PROVE  Reached(sr, se, j, o, cr, ce, qr, t, offer)
  <2>1. /\ Progress(sr, se, j, o, cr, ce, qr, qe, offer)
        /\ Safe("caller", cr, ce, qr, offer) /\ Safe("callee", ce, cr, qe, offer)
    BY <1>4 DEF Reached
  <2>2. Safe("callee", ce, cr, t, offer)
    BY <1>1, <2>1, SafeIgnored
  <2> HIDE DEF t
  <2>3. Progress(sr, se, j, o, cr, ce, qr, t, offer)
    BY <1>3, <2>1 DEF Progress
  <2> QED BY <2>1, <2>2, <2>3 DEF Reached
<1> HIDE DEF t
<1>5. SidesOK(cr, ce, qr, t, offer)
  BY <1>1, <1>2 DEF SidesOK
<1> QED BY <1>4, <1>5 DEF t

LEMMA CalleeReadsOffer ==
  ASSUME NEW sr, NEW se, NEW j, NEW o, NEW cr, NEW ce, NEW qr, NEW qe, NEW offer,
         SidesOK(cr, ce, qr, qe, offer), qe # << >>, Head(qe).type = "offer"
  PROVE  LET taken == <<Head(qe).candidates>>
         IN  /\ SidesOK(cr, ce, qr, Tail(qe), taken)
             /\ Reached(sr, se, j, o, cr, ce, qr, qe, offer) =>
                  se = "waiting" /\ Reached(sr, "offered", j, o, cr, ce, qr, Tail(qe), taken)
<1> DEFINE t == Tail(qe)
           taken == <<Head(qe).candidates>>
<1>1. /\ ConnectionOK(cr) /\ ConnectionOK(ce)
      /\ QueueOK(qr, "caller") /\ QueueOK(qe, "callee") /\ OfferOK(offer)
  BY DEF SidesOK
<1>2. QueueOK(t, "callee")
  BY <1>1, QueueRead
<1>3. Head(qe).candidates \in Seq(LocalAddr) /\ Len(Head(qe).candidates) <= MaxCandidates
  BY <1>1, HeadOK DEF Peers
<1>4. OfferOK(taken)
  BY <1>3 DEF OfferOK
<1>5. /\ \A type : (Comes(t, type) => Comes(qe, type)) /\ (Once(qe, type) => Once(t, type))
      /\ Comes(qe, "offer") /\ (Once(qe, "offer") => ~Comes(t, "offer"))
  BY <1>1, KindsRead
<1>6. ASSUME Reached(sr, se, j, o, cr, ce, qr, qe, offer)
      PROVE  se = "waiting" /\ Reached(sr, "offered", j, o, cr, ce, qr, t, taken)
  <2>1. /\ Progress(sr, se, j, o, cr, ce, qr, qe, offer)
        /\ Safe("caller", cr, ce, qr, offer) /\ Safe("callee", ce, cr, qe, offer)
    BY <1>6 DEF Reached
  <2>2. o /\ se = "waiting" /\ Once(qe, "offer") /\ ~ce.described /\ ~ce.has
    BY <1>5, <2>1 DEF Progress
  <2>3. Safe("callee", ce, cr, t, taken)
    <3>1. \A i, k : ComesAt(qe, "offer", i) /\ ComesAt(qe, "offer", k) => i = k
      BY <2>2 DEF Once
    <3> QED BY <1>1, <2>1, <2>2, <3>1, SafeOffer
  <2>4. Safe("caller", cr, ce, qr, taken)
    BY <2>2 DEF Safe
  <2> HIDE DEF t, taken
  <2>5. Progress(sr, "offered", j, o, cr, ce, qr, t, taken)
    BY <1>5, <2>1, <2>2 DEF Progress
  <2> QED BY <2>2, <2>3, <2>4, <2>5 DEF Reached
<1> HIDE DEF t, taken
<1>7. SidesOK(cr, ce, qr, t, taken)
  BY <1>1, <1>2, <1>4 DEF SidesOK
<1> QED BY <1>6, <1>7 DEF t, taken

LEMMA CalleeSets ==
  ASSUME NEW sr, NEW j, NEW o, NEW cr, NEW ce, NEW qr, NEW qe, NEW offer,
         SidesOK(cr, ce, qr, qe, offer), offer # << >>
  PROVE  LET d == WithRemoteDescription(ce, offer[1])
         IN  /\ SidesOK(cr, d, qr, qe, << >>)
             /\ Reached(sr, "offered", j, o, cr, ce, qr, qe, offer)
                  => Reached(sr, "offered", j, o, cr, d, qr, qe, << >>)
<1> DEFINE d == WithRemoteDescription(ce, offer[1])
<1>1. /\ ConnectionOK(cr) /\ ConnectionOK(ce)
      /\ QueueOK(qr, "caller") /\ QueueOK(qe, "callee") /\ OfferOK(offer)
  BY DEF SidesOK
<1>2. offer[1] \in Seq(RemoteAddr) /\ Len(offer[1]) <= MaxCandidates
  <2>1. PICK list \in Seq(LocalAddr) : offer = <<list>> /\ Len(list) <= MaxCandidates
    BY <1>1 DEF OfferOK
  <2>2. offer[1] = list
    BY <2>1
  <2> QED BY <2>1, <2>2, CallAssumption
<1>3. ConnectionOK(d) /\ d.has = ce.has /\ d.described /\ d.ice.local = ce.ice.local
  BY <1>1, <1>2, WithRemoteDescriptionOK
<1>4. ASSUME Reached(sr, "offered", j, o, cr, ce, qr, qe, offer)
      PROVE  Reached(sr, "offered", j, o, cr, d, qr, qe, << >>)
  <2>1. /\ Progress(sr, "offered", j, o, cr, ce, qr, qe, offer)
        /\ Safe("caller", cr, ce, qr, offer) /\ Safe("callee", ce, cr, qe, offer)
    BY <1>4 DEF Reached
  <2>2. ~ce.has
    BY <2>1 DEF Progress
  <2>3. Safe("callee", d, cr, qe, << >>)
    BY <1>1, <1>2, <2>1, <2>2, SafeSet
  <2> HIDE DEF d
  <2>4. Safe("caller", cr, d, qr, << >>)
    BY <1>3, <2>2 DEF Safe
  <2>5. Progress(sr, "offered", j, o, cr, d, qr, qe, << >>)
    BY <1>3, <2>1 DEF Progress
  <2> QED BY <2>3, <2>4, <2>5 DEF Reached
<1> HIDE DEF d
<1>5. SidesOK(cr, d, qr, qe, << >>)
  BY <1>1, <1>3 DEF SidesOK, OfferOK
<1> QED BY <1>4, <1>5 DEF d

LEMMA CalleeDescribes ==
  ASSUME NEW sr, NEW j, NEW o, NEW cr, NEW ce, NEW qr, NEW qe, NEW offer,
         SidesOK(cr, ce, qr, qe, offer), offer = << >>
  PROVE  LET d == WithSession(ce, "callee")
             ms == DescriptionMessages(d.ice, "answer")
         IN  /\ SidesOK(cr, d, qr, qe, offer) /\ SidesOK(cr, d, qr \o ms, qe, offer)
             /\ Reached(sr, "offered", j, o, cr, ce, qr, qe, offer) =>
                  sr \notin {"out", "exited"} /\ Reached(sr, "main", j, o, cr, d, qr \o ms, qe, offer)
<1> DEFINE d == WithSession(ce, "callee")
           ms == DescriptionMessages(d.ice, "answer")
<1>1. /\ ConnectionOK(cr) /\ ConnectionOK(ce)
      /\ QueueOK(qr, "caller") /\ QueueOK(qe, "callee") /\ OfferOK(offer)
  BY DEF SidesOK
<1>2. "caller" \in Peers /\ "callee" \in Peers /\ Expected("caller") = "answer"
  BY DEF Peers, Expected
<1>3. ConnectionOK(d) /\ d.has /\ d.described = ce.described
  BY <1>1, <1>2, WithSessionOK
<1>4. ASSUME Safe("callee", ce, cr, qe, offer), ~ce.has PROVE Safe("callee", d, cr, qe, offer)
  BY <1>1, <1>2, <1>4, SafeReplayed
<1> HIDE DEF d
<1>5. /\ ms \in Seq(Message) /\ Len(ms) > 0 /\ QueueOK(ms, "caller")
      /\ \A k : ComesAt(ms, "answer", k) => k = Len(ms)
      /\ \A k : ~ComesAt(ms, "peer-joined", k)
      /\ \A i \in DOMAIN d.ice.local : Holds(ms[Len(ms)].candidates, d.ice.local[i].addr)
  BY <1>2, <1>3, ConnectionFields, DescriptionMessagesOK
<1> HIDE DEF ms
<1>6. qr \in Seq(Message) /\ QueueOK(qr \o ms, "caller")
  BY <1>1, <1>5, QueueExtended DEF QueueOK
<1>7. ASSUME Reached(sr, "offered", j, o, cr, ce, qr, qe, offer)
      PROVE  sr \notin {"out", "exited"} /\ Reached(sr, "main", j, o, cr, d, qr \o ms, qe, offer)
  <2>1. /\ Progress(sr, "offered", j, o, cr, ce, qr, qe, offer)
        /\ Safe("callee", ce, cr, qe, offer)
    BY <1>7 DEF Reached
  <2>2. /\ ~ce.has /\ ~cr.described /\ ~Comes(qe, "offer") /\ ~Comes(qr, "answer")
        /\ sr = "main" /\ o /\ Once(qr, "answer")
    BY <2>1 DEF Progress
  <2>3. Safe("callee", d, cr, qe, offer)
    BY <1>4, <2>1, <2>2
  <2>4. Safe("caller", cr, d, qr \o ms, offer)
    <3>1. \A k : ~ComesAt(qr, "answer", k)
      BY <2>2 DEF Comes
    <3>2. Safe("caller", cr, d, qr \o ms, << >>)
      BY <1>2, <1>5, <1>6, <2>2, <3>1, SafeDescribed
    <3> QED BY <3>2
  <2>5. Once(qr \o ms, "answer")
    <3>1. Once(ms, "answer")
      BY <1>5 DEF Once
    <3> QED BY <1>5, <1>6, <2>2, <3>1, KindsSent
  <2>6. Progress(sr, "main", j, o, cr, d, qr \o ms, qe, offer)
    BY <1>3, <2>1, <2>2, <2>5 DEF Progress
  <2> QED BY <2>2, <2>3, <2>4, <2>6 DEF Reached
<1>8. SidesOK(cr, d, qr, qe, offer) /\ SidesOK(cr, d, qr \o ms, qe, offer)
  BY <1>1, <1>3, <1>6 DEF SidesOK
<1> QED BY <1>7, <1>8 DEF d, ms

LEMMA CallerFindsAddress ==
  ASSUME NEW sr, NEW se, NEW j, NEW o, NEW cr, NEW ce, NEW qr, NEW qe, NEW offer, NEW m \in LocalAddr,
         SidesOK(cr, ce, qr, qe, offer), cr.has, Len(cr.ice.local) < MaxCandidates
  PROVE  LET d == WithReflexive(cr, m)
             ms == <<Msg("candidate", <<m>>)>>
         IN  /\ SidesOK(d, ce, qr, qe, offer) /\ SidesOK(d, ce, qr, qe \o ms, offer)
             /\ Reached(sr, se, j, o, cr, ce, qr, qe, offer) =>
                  se \notin {"out", "exited"} /\ Reached(sr, se, j, o, d, ce, qr, qe \o ms, offer)
<1> DEFINE d == WithReflexive(cr, m)
           msg == Msg("candidate", <<m>>)
           ms == <<msg>>
<1>1. /\ ConnectionOK(cr) /\ ConnectionOK(ce)
      /\ QueueOK(qr, "caller") /\ QueueOK(qe, "callee") /\ OfferOK(offer)
  BY DEF SidesOK
<1>2. /\ ConnectionOK(d) /\ d.has = cr.has /\ d.described = cr.described
      /\ d.sdp = cr.sdp /\ d.ice.remote = cr.ice.remote
      /\ \A i \in DOMAIN d.ice.local :
           (i \in DOMAIN cr.ice.local /\ d.ice.local[i] = cr.ice.local[i]) \/ d.ice.local[i].addr = m
  BY <1>1, WithReflexiveOK
<1>3. msg \in Message /\ msg.type = "candidate" /\ Holds(msg.candidates, m) /\ MessageOK(msg, "callee")
  BY CandidateMessage
<1> HIDE DEF msg, d
<1>4. /\ ms \in Seq(Message) /\ QueueOK(ms, "callee") /\ Carries(ms, m)
      /\ \A type, k : ComesAt(ms, type, k) => type = "candidate"
  BY <1>3, SingleMessage
<1> HIDE DEF ms
<1>5. qe \in Seq(Message) /\ QueueOK(qe \o ms, "callee")
  BY <1>1, <1>4, QueueExtended DEF QueueOK
<1>6. ASSUME Reached(sr, se, j, o, cr, ce, qr, qe, offer)
      PROVE  /\ se \notin {"out", "exited"}
             /\ Reached(sr, se, j, o, d, ce, qr, qe \o ms, offer)
  <2>1. /\ Progress(sr, se, j, o, cr, ce, qr, qe, offer)
        /\ Safe("caller", cr, ce, qr, offer) /\ Safe("callee", ce, cr, qe, offer)
    BY <1>6 DEF Reached
  <2>2. o /\ j /\ se \notin {"out", "exited"}
    BY <2>1 DEF Progress
  <2>3. Safe("caller", d, ce, qr, offer)
    BY <1>2, <2>1, SafeSame
  <2>4. Safe("callee", ce, d, qe \o ms, offer)
    <3>1. \A k : ~ComesAt(ms, Expected("callee"), k)
      BY <1>4 DEF Expected
    <3> QED BY <1>2, <1>4, <1>5, <2>1, <3>1, SafeAnnounced
  <2>5. Once(qe \o ms, "offer") /\ (Comes(qe \o ms, "offer") => Comes(qe, "offer"))
    <3>1. Once(ms, "offer") /\ ~Comes(ms, "offer")
      BY <1>4 DEF Once, Comes
    <3>2. Once(qe, "offer")
      BY <2>1 DEF Progress
    <3> QED BY <1>4, <1>5, <3>1, <3>2, KindsSent
  <2>6. Progress(sr, se, j, o, d, ce, qr, qe \o ms, offer)
    BY <1>2, <2>1, <2>5 DEF Progress
  <2> QED BY <2>2, <2>3, <2>4, <2>6 DEF Reached
<1>7. SidesOK(d, ce, qr, qe, offer) /\ SidesOK(d, ce, qr, qe \o ms, offer)
  BY <1>1, <1>2, <1>5 DEF SidesOK
<1> QED BY <1>6, <1>7 DEF d, ms, msg

LEMMA CalleeFindsAddress ==
  ASSUME NEW sr, NEW se, NEW j, NEW o, NEW cr, NEW ce, NEW qr, NEW qe, NEW offer, NEW m \in LocalAddr,
         SidesOK(cr, ce, qr, qe, offer), ce.has, Len(ce.ice.local) < MaxCandidates
  PROVE  LET d == WithReflexive(ce, m)
             ms == <<Msg("candidate", <<m>>)>>
         IN  /\ SidesOK(cr, d, qr, qe, offer) /\ SidesOK(cr, d, qr \o ms, qe, offer)
             /\ Reached(sr, se, j, o, cr, ce, qr, qe, offer) =>
                  sr \notin {"out", "exited"} /\ Reached(sr, se, j, o, cr, d, qr \o ms, qe, offer)
<1> DEFINE d == WithReflexive(ce, m)
           msg == Msg("candidate", <<m>>)
           ms == <<msg>>
<1>1. /\ ConnectionOK(cr) /\ ConnectionOK(ce)
      /\ QueueOK(qr, "caller") /\ QueueOK(qe, "callee") /\ OfferOK(offer)
  BY DEF SidesOK
<1>2. /\ ConnectionOK(d) /\ d.has = ce.has /\ d.described = ce.described
      /\ d.sdp = ce.sdp /\ d.ice.remote = ce.ice.remote
      /\ \A i \in DOMAIN d.ice.local :
           (i \in DOMAIN ce.ice.local /\ d.ice.local[i] = ce.ice.local[i]) \/ d.ice.local[i].addr = m
  BY <1>1, WithReflexiveOK
<1>3. msg \in Message /\ msg.type = "candidate" /\ Holds(msg.candidates, m) /\ MessageOK(msg, "caller")
  BY CandidateMessage
<1> HIDE DEF msg, d
<1>4. /\ ms \in Seq(Message) /\ QueueOK(ms, "caller") /\ Carries(ms, m)
      /\ \A type, k : ComesAt(ms, type, k) => type = "candidate"
  BY <1>3, SingleMessage
<1> HIDE DEF ms
<1>5. qr \in Seq(Message) /\ QueueOK(qr \o ms, "caller")
  BY <1>1, <1>4, QueueExtended DEF QueueOK
<1>6. ASSUME Reached(sr, se, j, o, cr, ce, qr, qe, offer)
      PROVE  /\ sr \notin {"out", "exited"}
             /\ Reached(sr, se, j, o, cr, d, qr \o ms, qe, offer)
  <2>1. /\ Progress(sr, se, j, o, cr, ce, qr, qe, offer)
        /\ Safe("caller", cr, ce, qr, offer) /\ Safe("callee", ce, cr, qe, offer)
    BY <1>6 DEF Reached
  <2>2. o /\ j /\ sr \notin {"out", "exited"} /\ se # "out"
    BY <2>1 DEF Progress
  <2>3. Safe("callee", d, cr, qe, offer)
    BY <1>2, <2>1, SafeSame
  <2>4. Safe("caller", cr, d, qr \o ms, offer)
    <3>1. \A k : ~ComesAt(ms, Expected("caller"), k)
      BY <1>4 DEF Expected
    <3> QED BY <1>2, <1>4, <1>5, <2>1, <3>1, SafeAnnounced
  <2>5. Once(qr \o ms, "answer") /\ (Comes(qr \o ms, "answer") => Comes(qr, "answer"))
    <3>1. Once(ms, "answer") /\ ~Comes(ms, "answer")
      BY <1>4 DEF Once, Comes
    <3>2. Once(qr, "answer")
      BY <2>1 DEF Progress
    <3> QED BY <1>4, <1>5, <3>1, <3>2, KindsSent
  <2>6. Progress(sr, se, j, o, cr, d, qr \o ms, qe, offer)
    BY <1>2, <2>1, <2>2, <2>5 DEF Progress
  <2> QED BY <2>2, <2>3, <2>4, <2>6 DEF Reached
<1>7. SidesOK(cr, d, qr, qe, offer) /\ SidesOK(cr, d, qr \o ms, qe, offer)
  BY <1>1, <1>2, <1>5 DEF SidesOK
<1> QED BY <1>6, <1>7 DEF d, ms, msg

\* A queue after somebody has joined.
Told(q, r) == r = q \/ r = Append(q, Msg("peer-joined", << >>))

LEMMA ToldOK ==
  ASSUME NEW p, NEW q, QueueOK(q, p), NEW r, Told(q, r), NEW c, NEW d, NEW offer
  PROVE  /\ QueueOK(r, p)
         /\ \A type : type # "peer-joined" =>
              (Comes(r, type) => Comes(q, type)) /\ (Once(q, type) => Once(r, type))
         /\ p \in Peers /\ Safe(p, c, d, q, offer) => Safe(p, c, d, r, offer)
<1> SUFFICES ASSUME r # q
             PROVE  /\ QueueOK(r, p)
                    /\ \A type : type # "peer-joined" =>
                         (Comes(r, type) => Comes(q, type)) /\ (Once(q, type) => Once(r, type))
                    /\ p \in Peers /\ Safe(p, c, d, q, offer) => Safe(p, c, d, r, offer)
  OBVIOUS
<1> DEFINE m == Msg("peer-joined", << >>)
           ms == <<m>>
<1>1. m \in Message /\ m.type = "peer-joined" /\ MessageOK(m, p)
  <2>1. m \in Message /\ m.type = "peer-joined" /\ m.candidates = << >> /\ Len(<< >>) = 0
    BY DEF Msg, Message
  <2> QED BY <2>1, IceAssumption DEF MessageOK
<1>2. q \in Seq(Message)
  BY DEF QueueOK
<1>3. r = Append(q, m)
  BY DEF Told
<1> HIDE DEF m
<1>4. /\ ms \in Seq(Message) /\ QueueOK(ms, p)
      /\ \A type, k : ComesAt(ms, type, k) => type = "peer-joined"
  BY <1>1, SingleMessage
<1>5. r = q \o ms
  BY <1>1, <1>2, <1>3, AppendIsConcat
<1> HIDE DEF ms
<1>6. QueueOK(r, p)
  BY <1>2, <1>4, <1>5, QueueExtended
<1>7. ASSUME NEW type, type # "peer-joined"
      PROVE  (Comes(r, type) => Comes(q, type)) /\ (Once(q, type) => Once(r, type))
  <2>1. ~Comes(ms, type) /\ Once(ms, type)
    BY <1>4, <1>7 DEF Comes, Once
  <2> QED BY <1>2, <1>4, <1>5, <2>1, KindsSent
<1>8. ASSUME p \in Peers, Safe(p, c, d, q, offer) PROVE Safe(p, c, d, r, offer)
  <2>1. \A k : ~ComesAt(ms, Expected(p), k)
    BY <1>4 DEF Expected
  <2> QED BY <1>2, <1>4, <1>5, <1>8, <2>1, SafeExtended
<1> QED BY <1>6, <1>7, <1>8

LEMMA SomebodyJoins ==
  ASSUME NEW sr, NEW se, NEW tr, NEW te, NEW j, NEW o, NEW cr, NEW ce, NEW qr, NEW qe, NEW offer,
         SidesOK(cr, ce, qr, qe, offer), NEW ar, NEW ae, Told(qr, ar), Told(qe, ae),
         \/ sr = "out" /\ tr = "main" /\ te = se
         \/ se = "out" /\ te = "waiting" /\ tr = sr,
         (ar # qr) \/ (ae # qe) => tr # "out" /\ te # "out"
  PROVE  /\ SidesOK(cr, ce, ar, ae, offer)
         /\ Reached(sr, se, j, o, cr, ce, qr, qe, offer) => Reached(tr, te, j, o, cr, ce, ar, ae, offer)
<1>1. /\ ConnectionOK(cr) /\ ConnectionOK(ce)
      /\ QueueOK(qr, "caller") /\ QueueOK(qe, "callee") /\ OfferOK(offer)
  BY DEF SidesOK
<1>2. "caller" \in Peers /\ "callee" \in Peers
  BY DEF Peers
<1>3. QueueOK(ar, "caller") /\ QueueOK(ae, "callee")
  BY <1>1, ToldOK
<1>4. ASSUME Reached(sr, se, j, o, cr, ce, qr, qe, offer)
      PROVE  Reached(tr, te, j, o, cr, ce, ar, ae, offer)
  <2>1. /\ Progress(sr, se, j, o, cr, ce, qr, qe, offer)
        /\ Safe("caller", cr, ce, qr, offer) /\ Safe("callee", ce, cr, qe, offer)
    BY <1>4 DEF Reached
  <2>2. Safe("caller", cr, ce, ar, offer) /\ Safe("callee", ce, cr, ae, offer)
    BY <1>1, <1>2, <2>1, ToldOK
  <2>3. /\ Comes(ar, "answer") => Comes(qr, "answer")
        /\ Once(qr, "answer") => Once(ar, "answer")
        /\ Comes(ae, "offer") => Comes(qe, "offer")
        /\ Once(qe, "offer") => Once(ae, "offer")
    BY <1>1, ToldOK
  <2>4. Progress(tr, te, j, o, cr, ce, ar, ae, offer)
    BY <2>1, <2>3 DEF Progress
  <2> QED BY <2>2, <2>4 DEF Reached
<1> QED BY <1>1, <1>3, <1>4 DEF SidesOK

-----------------------------------------------------------------------------
(***************************************************************************)
(* The inductive invariant: what always holds, and what holds as long as   *)
(* nothing disturbs the call.                                              *)
(***************************************************************************)
IsPair(f) == f = [p \in Peers |-> f[p]]

Staged ==
  /\ stage \in [Peers -> {"out", "waiting", "offered", "main", "exited"}]
  /\ link \in [Peers -> BOOLEAN]
  /\ joined \in BOOLEAN /\ offered \in BOOLEAN /\ told \in BOOLEAN
  /\ restarts \in 0..MaxRestarts

Sides == SidesOK(pc["caller"], pc["callee"], queue["caller"], queue["callee"], pending)

Here ==
  Reached(stage["caller"], stage["callee"], joined, offered,
          pc["caller"], pc["callee"], queue["caller"], queue["callee"], pending)

CInv ==
  /\ Staged
  /\ IsPair(pc) /\ IsPair(queue)
  /\ Sides
  /\ Undisturbed => Here

LEMMA CallerUpdated ==
  ASSUME NEW f, IsPair(f), NEW v
  PROVE  LET g == [f EXCEPT !["caller"] = v]
         IN  IsPair(g) /\ g["caller"] = v /\ g["callee"] = f["callee"]
BY DEF IsPair, Peers

LEMMA CalleeUpdated ==
  ASSUME NEW f, IsPair(f), NEW v
  PROVE  LET g == [f EXCEPT !["callee"] = v]
         IN  IsPair(g) /\ g["callee"] = v /\ g["caller"] = f["caller"]
BY DEF IsPair, Peers

LEMMA CInitOK == Init => CInv
<1> SUFFICES ASSUME Init PROVE CInv
  OBVIOUS
<1>1. /\ IsPair(pc) /\ IsPair(queue)
      /\ pc["caller"] = NewPeerConnection /\ pc["callee"] = NewPeerConnection
      /\ queue["caller"] = << >> /\ queue["callee"] = << >> /\ pending = << >>
      /\ stage["caller"] = "out" /\ stage["callee"] = "out" /\ ~joined /\ ~offered
  BY DEF Init, IsPair, Peers
<1>2. Staged
  <2>1. stage \in [Peers -> {"out", "waiting", "offered", "main", "exited"}]
    BY DEF Init
  <2>2. link \in [Peers -> BOOLEAN]
    BY DEF Init
  <2>3. joined \in BOOLEAN /\ offered \in BOOLEAN /\ told \in BOOLEAN
    BY DEF Init
  <2>4. restarts \in 0..MaxRestarts
    BY CallAssumption DEF Init
  <2> QED BY <2>1, <2>2, <2>3, <2>4 DEF Staged
<1>3. QueueOK(<< >>, "caller") /\ QueueOK(<< >>, "callee")
  BY DEF QueueOK
<1>4. Sides
  BY <1>1, <1>3, NewConnectionOK DEF Sides, SidesOK, OfferOK
<1>5. \A type : ~Comes(<< >>, type) /\ Once(<< >>, type)
  BY DEF Comes, Once, ComesAt
<1>6. Here
  BY <1>1, <1>5, NewConnectionOK DEF Here, Reached, Progress, Safe
<1> QED BY <1>1, <1>2, <1>4, <1>6 DEF CInv

LEMMA CallerAddsCandidateOK ==
  ASSUME CInv, CallerAddsCandidate PROVE CInv'
<1> DEFINE d == WithCandidate(pc["caller"], Head(queue["caller"]).candidates[1])
           t == Tail(queue["caller"])
<1>1. /\ queue["caller"] # << >> /\ Head(queue["caller"]).type = "candidate"
      /\ pc' = [pc EXCEPT !["caller"] = d] /\ queue' = [queue EXCEPT !["caller"] = t]
      /\ UNCHANGED <<stage, link, joined, offered, pending, told, restarts>>
  BY DEF CInv, IsPair, Peers, CallerAddsCandidate, AddTrickled, Next1
<1>2. Staged /\ IsPair(pc) /\ IsPair(queue) /\ Sides /\ (Undisturbed => Here)
  BY DEF CInv
<1>3. /\ SidesOK(d, pc["callee"], t, queue["callee"], pending)
      /\ Here => Reached(stage["caller"], stage["callee"], joined, offered,
                         d, pc["callee"], t, queue["callee"], pending)
  BY <1>1, <1>2, CallerReadsCandidate DEF Sides, Here
<1> HIDE DEF d, t
<1>4. /\ IsPair(pc') /\ pc'["caller"] = d /\ pc'["callee"] = pc["callee"]
      /\ IsPair(queue') /\ queue'["caller"] = t /\ queue'["callee"] = queue["callee"]
  <2>1. IsPair(pc') /\ pc'["caller"] = d /\ pc'["callee"] = pc["callee"]
    BY <1>1, <1>2, CallerUpdated
  <2>2. IsPair(queue') /\ queue'["caller"] = t /\ queue'["callee"] = queue["callee"]
    BY <1>1, <1>2, CallerUpdated
  <2> QED BY <2>1, <2>2
<1>5. Staged' /\ (Undisturbed' => Undisturbed)
  BY <1>1, <1>2 DEF Staged, Undisturbed
<1> QED BY <1>1, <1>2, <1>3, <1>4, <1>5 DEF CInv, Sides, Here

LEMMA CallerSeesPeerOK ==
  ASSUME CInv, CallerSeesPeer PROVE CInv'
<1> DEFINE t == Tail(queue["caller"])
<1>1. /\ queue["caller"] # << >> /\ Head(queue["caller"]).type = "peer-joined"
      /\ queue' = [queue EXCEPT !["caller"] = t] /\ joined' = TRUE
      /\ UNCHANGED <<pc, stage, link, offered, pending, told, restarts>>
  BY DEF CInv, IsPair, Peers, CallerSeesPeer, Next1
<1>2. Staged /\ IsPair(pc) /\ IsPair(queue) /\ Sides /\ (Undisturbed => Here)
  BY DEF CInv
<1>3. /\ SidesOK(pc["caller"], pc["callee"], t, queue["callee"], pending)
      /\ Here => Reached(stage["caller"], stage["callee"], TRUE, offered,
                         pc["caller"], pc["callee"], t, queue["callee"], pending)
  BY <1>1, <1>2, CallerReadsPeer DEF Sides, Here
<1> HIDE DEF t
<1>4. IsPair(queue') /\ queue'["caller"] = t /\ queue'["callee"] = queue["callee"]
  BY <1>1, <1>2, CallerUpdated
<1>5. Staged' /\ (Undisturbed' => Undisturbed)
  BY <1>1, <1>2 DEF Staged, Undisturbed
<1> QED BY <1>1, <1>2, <1>3, <1>4, <1>5 DEF CInv, Sides, Here

LEMMA CallerTakesAnswerOK ==
  ASSUME CInv, CallerTakesAnswer PROVE CInv'
<1> DEFINE d == WithRemoteDescription(pc["caller"], Head(queue["caller"]).candidates)
           t == Tail(queue["caller"])
<1>1. /\ queue["caller"] # << >> /\ Head(queue["caller"]).type = "answer"
      /\ pc' = [pc EXCEPT !["caller"] = d] /\ queue' = [queue EXCEPT !["caller"] = t]
      /\ UNCHANGED <<stage, link, joined, offered, pending, told, restarts>>
  BY DEF CInv, IsPair, Peers, CallerTakesAnswer, Next1
<1>2. Staged /\ IsPair(pc) /\ IsPair(queue) /\ Sides /\ (Undisturbed => Here)
  BY DEF CInv
<1>3. /\ SidesOK(d, pc["callee"], t, queue["callee"], pending)
      /\ Here => Reached(stage["caller"], stage["callee"], joined, offered,
                         d, pc["callee"], t, queue["callee"], pending)
  BY <1>1, <1>2, CallerReadsAnswer DEF Sides, Here
<1> HIDE DEF d, t
<1>4. /\ IsPair(pc') /\ pc'["caller"] = d /\ pc'["callee"] = pc["callee"]
      /\ IsPair(queue') /\ queue'["caller"] = t /\ queue'["callee"] = queue["callee"]
  <2>1. IsPair(pc') /\ pc'["caller"] = d /\ pc'["callee"] = pc["callee"]
    BY <1>1, <1>2, CallerUpdated
  <2>2. IsPair(queue') /\ queue'["caller"] = t /\ queue'["callee"] = queue["callee"]
    BY <1>1, <1>2, CallerUpdated
  <2> QED BY <2>1, <2>2
<1>5. Staged' /\ (Undisturbed' => Undisturbed)
  BY <1>1, <1>2 DEF Staged, Undisturbed
<1> QED BY <1>1, <1>2, <1>3, <1>4, <1>5 DEF CInv, Sides, Here

\* What a side describes itself with.
LEMMA DescribesIs ==
  ASSUME NEW p \in Peers, NEW type, NEW next, Describes(p, type, next)
  PROVE  LET d == WithSession(pc[p], p)
             ms == DescriptionMessages(d.ice, type)
         IN  /\ pc' = [pc EXCEPT ![p] = d]
             /\ link[p] => queue' = Forwarded(p, ms) /\ stage' = [stage EXCEPT ![p] = next]
             /\ ~link[p] => queue' = queue /\ stage' = [stage EXCEPT ![p] = "exited"]
<1>1. Described(p) = WithSession(pc[p], p)
  BY DEF Described, WithSession
<1> QED BY <1>1 DEF Describes, DescriptionMessages

\* Where the messages of a side go.
LEMMA ForwardedIs ==
  ASSUME NEW ms
  PROVE  /\ Forwarded("caller", ms) = [queue EXCEPT !["callee"] =
                IF stage["callee"] \notin {"out", "exited"} THEN queue["callee"] \o ms ELSE queue["callee"]]
         /\ Forwarded("callee", ms) = [queue EXCEPT !["caller"] =
                IF stage["caller"] \notin {"out", "exited"} THEN queue["caller"] \o ms ELSE queue["caller"]]
BY DEF Forwarded, Received, Other, InRoom

LEMMA CallerOffersOK ==
  ASSUME CInv, CallerOffers PROVE CInv'
<1> DEFINE d == WithSession(pc["caller"], "caller")
           ms == DescriptionMessages(d.ice, "offer")
<1>0. "caller" \in Peers
  BY DEF Peers
<1>1. /\ stage["caller"] = "main" /\ joined /\ ~offered /\ offered' = TRUE
      /\ pc' = [pc EXCEPT !["caller"] = d]
      /\ link["caller"] =>
           queue' = Forwarded("caller", ms) /\ stage' = [stage EXCEPT !["caller"] = "main"]
      /\ ~link["caller"] => queue' = queue /\ stage' = [stage EXCEPT !["caller"] = "exited"]
      /\ UNCHANGED <<link, joined, pending, told, restarts>>
  BY <1>0, DescribesIs DEF CallerOffers
<1>2. Staged /\ IsPair(pc) /\ IsPair(queue) /\ Sides /\ (Undisturbed => Here)
  BY DEF CInv
<1>3. /\ SidesOK(d, pc["callee"], queue["caller"], queue["callee"], pending)
      /\ SidesOK(d, pc["callee"], queue["caller"], queue["callee"] \o ms, pending)
      /\ Reached(stage["caller"], stage["callee"], joined, FALSE, pc["caller"], pc["callee"],
                 queue["caller"], queue["callee"], pending) =>
           /\ stage["callee"] \notin {"out", "exited"}
           /\ Reached(stage["caller"], stage["callee"], joined, TRUE, d, pc["callee"],
                      queue["caller"], queue["callee"] \o ms, pending)
  BY <1>1, <1>2, CallerDescribes DEF Sides
<1> HIDE DEF d, ms
<1>4. IsPair(pc') /\ pc'["caller"] = d /\ pc'["callee"] = pc["callee"]
  BY <1>1, <1>2, CallerUpdated
<1>5. /\ IsPair(queue') /\ queue'["caller"] = queue["caller"]
      /\ queue'["callee"] \in {queue["callee"], queue["callee"] \o ms}
      /\ link["caller"] /\ stage["callee"] \notin {"out", "exited"} =>
           queue'["callee"] = queue["callee"] \o ms
  <2>1. CASE link["caller"]
    <3> DEFINE q == IF stage["callee"] \notin {"out", "exited"}
                    THEN queue["callee"] \o ms ELSE queue["callee"]
    <3>1. q \in {queue["callee"], queue["callee"] \o ms}
      OBVIOUS
    <3>2. stage["callee"] \notin {"out", "exited"} => q = queue["callee"] \o ms
      OBVIOUS
    <3>3. queue' = [queue EXCEPT !["callee"] = q]
      BY <1>1, <2>1, ForwardedIs
    <3> HIDE DEF q
    <3>4. IsPair(queue') /\ queue'["caller"] = queue["caller"] /\ queue'["callee"] = q
      BY <1>2, <3>3, CalleeUpdated
    <3> QED BY <3>1, <3>2, <3>4
  <2>2. CASE ~link["caller"]
    BY <1>1, <1>2, <2>2
  <2> QED BY <2>1, <2>2
<1>6. /\ Staged' /\ (Undisturbed' => Undisturbed) /\ stage'["callee"] = stage["callee"]
      /\ link["caller"] => stage'["caller"] = stage["caller"]
  BY <1>1, <1>2 DEF Staged, Undisturbed, Peers
<1>7. Sides'
  BY <1>1, <1>3, <1>4, <1>5 DEF Sides
<1>8. ASSUME Undisturbed' PROVE Here'
  <2>1. Here /\ link["caller"] /\ offered = FALSE
    BY <1>1, <1>2, <1>6, <1>8 DEF Undisturbed, Staged
  <2>2. /\ stage["callee"] \notin {"out", "exited"}
        /\ Reached(stage["caller"], stage["callee"], joined, TRUE, d, pc["callee"],
                   queue["caller"], queue["callee"] \o ms, pending)
    BY <1>3, <2>1 DEF Here
  <2> QED BY <1>1, <1>4, <1>5, <1>6, <2>1, <2>2 DEF Here
<1> QED BY <1>4, <1>5, <1>6, <1>7, <1>8 DEF CInv

LEMMA CalleeAddsCandidateOK ==
  ASSUME CInv, CalleeAddsCandidate PROVE CInv'
<1> DEFINE d == WithCandidate(pc["callee"], Head(queue["callee"]).candidates[1])
           t == Tail(queue["callee"])
<1>1. /\ queue["callee"] # << >> /\ Head(queue["callee"]).type = "candidate"
      /\ stage["callee"] # "offered"
      /\ pc' = [pc EXCEPT !["callee"] = d] /\ queue' = [queue EXCEPT !["callee"] = t]
      /\ UNCHANGED <<stage, link, joined, offered, pending, told, restarts>>
  BY DEF CInv, IsPair, Peers, CalleeAddsCandidate, CalleeReads, AddTrickled, Next1
<1>2. Staged /\ IsPair(pc) /\ IsPair(queue) /\ Sides /\ (Undisturbed => Here)
  BY DEF CInv
<1>3. /\ SidesOK(pc["caller"], d, queue["caller"], t, pending)
      /\ Here => Reached(stage["caller"], stage["callee"], joined, offered,
                         pc["caller"], d, queue["caller"], t, pending)
  BY <1>1, <1>2, CalleeReadsCandidate DEF Sides, Here
<1> HIDE DEF d, t
<1>4. /\ IsPair(pc') /\ pc'["callee"] = d /\ pc'["caller"] = pc["caller"]
      /\ IsPair(queue') /\ queue'["callee"] = t /\ queue'["caller"] = queue["caller"]
  <2>1. IsPair(pc') /\ pc'["callee"] = d /\ pc'["caller"] = pc["caller"]
    BY <1>1, <1>2, CalleeUpdated
  <2>2. IsPair(queue') /\ queue'["callee"] = t /\ queue'["caller"] = queue["caller"]
    BY <1>1, <1>2, CalleeUpdated
  <2> QED BY <2>1, <2>2
<1>5. Staged' /\ (Undisturbed' => Undisturbed)
  BY <1>1, <1>2 DEF Staged, Undisturbed
<1> QED BY <1>1, <1>2, <1>3, <1>4, <1>5 DEF CInv, Sides, Here

LEMMA CalleeIgnoresOK ==
  ASSUME CInv, CalleeIgnores PROVE CInv'
<1> DEFINE t == Tail(queue["callee"])
<1>1. /\ queue["callee"] # << >> /\ Head(queue["callee"]).type = "peer-joined"
      /\ queue' = [queue EXCEPT !["callee"] = t]
      /\ UNCHANGED <<pc, stage, link, joined, offered, pending, told, restarts>>
  BY DEF CInv, IsPair, Peers, CalleeIgnores, Next1
<1>2. Staged /\ IsPair(pc) /\ IsPair(queue) /\ Sides /\ (Undisturbed => Here)
  BY DEF CInv
<1>3. /\ SidesOK(pc["caller"], pc["callee"], queue["caller"], t, pending)
      /\ Here => Reached(stage["caller"], stage["callee"], joined, offered,
                         pc["caller"], pc["callee"], queue["caller"], t, pending)
  BY <1>1, <1>2, CalleeReadsPeer DEF Sides, Here
<1> HIDE DEF t
<1>4. IsPair(queue') /\ queue'["callee"] = t /\ queue'["caller"] = queue["caller"]
  BY <1>1, <1>2, CalleeUpdated
<1>5. Staged' /\ (Undisturbed' => Undisturbed)
  BY <1>1, <1>2 DEF Staged, Undisturbed
<1> QED BY <1>1, <1>2, <1>3, <1>4, <1>5 DEF CInv, Sides, Here

LEMMA CalleeTakesOfferOK ==
  ASSUME CInv, CalleeTakesOffer PROVE CInv'
<1> DEFINE taken == <<Head(queue["callee"]).candidates>>
           t == Tail(queue["callee"])
<1>1. /\ queue["callee"] # << >> /\ Head(queue["callee"]).type = "offer"
      /\ pending' = taken /\ queue' = [queue EXCEPT !["callee"] = t]
      /\ stage' = [stage EXCEPT !["callee"] =
                     IF stage["callee"] = "waiting" THEN "offered" ELSE stage["callee"]]
      /\ UNCHANGED <<pc, link, joined, offered, told, restarts>>
  BY DEF CInv, IsPair, Peers, CalleeTakesOffer, Next1
<1>2. Staged /\ IsPair(pc) /\ IsPair(queue) /\ Sides /\ (Undisturbed => Here)
  BY DEF CInv
<1>3. /\ SidesOK(pc["caller"], pc["callee"], queue["caller"], t, taken)
      /\ Here =>
           /\ stage["callee"] = "waiting"
           /\ Reached(stage["caller"], "offered", joined, offered,
                      pc["caller"], pc["callee"], queue["caller"], t, taken)
  BY <1>1, <1>2, CalleeReadsOffer DEF Sides, Here
<1> HIDE DEF taken, t
<1>4. IsPair(queue') /\ queue'["callee"] = t /\ queue'["caller"] = queue["caller"]
  BY <1>1, <1>2, CalleeUpdated
<1>5. /\ Staged' /\ (Undisturbed' => Undisturbed) /\ stage'["caller"] = stage["caller"]
      /\ stage["callee"] = "waiting" => stage'["callee"] = "offered"
  BY <1>1, <1>2 DEF Staged, Undisturbed, Peers
<1>6. Sides'
  BY <1>1, <1>3, <1>4 DEF Sides
<1>7. Here => Here'
  BY <1>1, <1>3, <1>4, <1>5 DEF Here
<1> QED BY <1>1, <1>2, <1>4, <1>5, <1>6, <1>7 DEF CInv

LEMMA CalleeSetsOfferOK ==
  ASSUME CInv, CalleeSetsOffer PROVE CInv'
<1> DEFINE d == WithRemoteDescription(pc["callee"], pending[1])
<1>1. /\ stage["callee"] = "offered" /\ pending # << >> /\ pending' = << >>
      /\ pc' = [pc EXCEPT !["callee"] = d]
      /\ UNCHANGED <<stage, link, queue, joined, offered, told, restarts>>
  BY DEF CInv, IsPair, Peers, CalleeSetsOffer
<1>2. Staged /\ IsPair(pc) /\ IsPair(queue) /\ Sides /\ (Undisturbed => Here)
  BY DEF CInv
<1>3. /\ SidesOK(pc["caller"], d, queue["caller"], queue["callee"], << >>)
      /\ Reached(stage["caller"], "offered", joined, offered,
                 pc["caller"], pc["callee"], queue["caller"], queue["callee"], pending) =>
           Reached(stage["caller"], "offered", joined, offered,
                   pc["caller"], d, queue["caller"], queue["callee"], << >>)
  BY <1>1, <1>2, CalleeSets DEF Sides
<1> HIDE DEF d
<1>4. IsPair(pc') /\ pc'["callee"] = d /\ pc'["caller"] = pc["caller"]
  BY <1>1, <1>2, CalleeUpdated
<1>5. Staged' /\ (Undisturbed' => Undisturbed)
  BY <1>1, <1>2 DEF Staged, Undisturbed
<1>6. Sides'
  BY <1>1, <1>3, <1>4 DEF Sides
<1>7. Here => Here'
  BY <1>1, <1>3, <1>4 DEF Here
<1> QED BY <1>1, <1>2, <1>4, <1>5, <1>6, <1>7 DEF CInv

LEMMA CalleeAnswersOK ==
  ASSUME CInv, CalleeAnswers PROVE CInv'
<1> DEFINE d == WithSession(pc["callee"], "callee")
           ms == DescriptionMessages(d.ice, "answer")
<1>0. "callee" \in Peers
  BY DEF Peers
<1>1. /\ stage["callee"] = "offered" /\ pending = << >>
      /\ pc' = [pc EXCEPT !["callee"] = d]
      /\ link["callee"] =>
           queue' = Forwarded("callee", ms) /\ stage' = [stage EXCEPT !["callee"] = "main"]
      /\ ~link["callee"] => queue' = queue /\ stage' = [stage EXCEPT !["callee"] = "exited"]
      /\ UNCHANGED <<link, joined, offered, pending, told, restarts>>
  BY <1>0, DescribesIs DEF CalleeAnswers
<1>2. Staged /\ IsPair(pc) /\ IsPair(queue) /\ Sides /\ (Undisturbed => Here)
  BY DEF CInv
<1>3. /\ SidesOK(pc["caller"], d, queue["caller"], queue["callee"], pending)
      /\ SidesOK(pc["caller"], d, queue["caller"] \o ms, queue["callee"], pending)
      /\ Reached(stage["caller"], "offered", joined, offered, pc["caller"], pc["callee"],
                 queue["caller"], queue["callee"], pending) =>
           /\ stage["caller"] \notin {"out", "exited"}
           /\ Reached(stage["caller"], "main", joined, offered, pc["caller"], d,
                      queue["caller"] \o ms, queue["callee"], pending)
  BY <1>1, <1>2, CalleeDescribes DEF Sides
<1> HIDE DEF d, ms
<1>4. IsPair(pc') /\ pc'["callee"] = d /\ pc'["caller"] = pc["caller"]
  BY <1>1, <1>2, CalleeUpdated
<1>5. /\ IsPair(queue') /\ queue'["callee"] = queue["callee"]
      /\ queue'["caller"] \in {queue["caller"], queue["caller"] \o ms}
      /\ link["callee"] /\ stage["caller"] \notin {"out", "exited"} =>
           queue'["caller"] = queue["caller"] \o ms
  <2>1. CASE link["callee"]
    <3> DEFINE q == IF stage["caller"] \notin {"out", "exited"}
                    THEN queue["caller"] \o ms ELSE queue["caller"]
    <3>1. q \in {queue["caller"], queue["caller"] \o ms}
      OBVIOUS
    <3>2. stage["caller"] \notin {"out", "exited"} => q = queue["caller"] \o ms
      OBVIOUS
    <3>3. queue' = [queue EXCEPT !["caller"] = q]
      BY <1>1, <2>1, ForwardedIs
    <3> HIDE DEF q
    <3>4. IsPair(queue') /\ queue'["callee"] = queue["callee"] /\ queue'["caller"] = q
      BY <1>2, <3>3, CallerUpdated
    <3> QED BY <3>1, <3>2, <3>4
  <2>2. CASE ~link["callee"]
    BY <1>1, <1>2, <2>2
  <2> QED BY <2>1, <2>2
<1>6. /\ Staged' /\ (Undisturbed' => Undisturbed) /\ stage'["caller"] = stage["caller"]
      /\ link["callee"] => stage'["callee"] = "main"
  BY <1>1, <1>2 DEF Staged, Undisturbed, Peers
<1>7. Sides'
  BY <1>1, <1>3, <1>4, <1>5 DEF Sides
<1>8. ASSUME Undisturbed' PROVE Here'
  <2>1. Here /\ link["callee"]
    BY <1>1, <1>2, <1>6, <1>8 DEF Undisturbed
  <2>2. /\ stage["caller"] \notin {"out", "exited"}
        /\ Reached(stage["caller"], "main", joined, offered, pc["caller"], d,
                   queue["caller"] \o ms, queue["callee"], pending)
    BY <1>1, <1>3, <2>1 DEF Here
  <2> QED BY <1>1, <1>4, <1>5, <1>6, <2>1, <2>2 DEF Here
<1> QED BY <1>4, <1>5, <1>6, <1>7, <1>8 DEF CInv

LEMMA ReflexiveOK ==
  ASSUME CInv, NEW p \in Peers, Reflexive(p) PROVE CInv'
<1> DEFINE d == WithReflexive(pc[p], Mapped[p])
           ms == <<Msg("candidate", <<Mapped[p]>>)>>
           q == Other(p)
           after == IF stage[q] \notin {"out", "exited"} THEN queue[q] \o ms ELSE queue[q]
<1>1. /\ pc[p].has /\ Len(pc[p].ice.local) < MaxCandidates
      /\ pc' = [pc EXCEPT ![p] = d]
      /\ queue' = IF link[p] THEN [queue EXCEPT ![q] = after] ELSE queue
      /\ UNCHANGED <<stage, link, joined, offered, pending, told, restarts>>
  BY DEF CInv, IsPair, Reflexive, WithReflexive, Forwarded, Received, InRoom
<1>2. Staged /\ IsPair(pc) /\ IsPair(queue) /\ Sides /\ (Undisturbed => Here)
  BY DEF CInv
<1>3. Mapped[p] \in LocalAddr
  BY CallAssumption
<1>4. Staged' /\ (Undisturbed' => Undisturbed) /\ (Undisturbed => link["caller"] /\ link["callee"])
  BY <1>1, <1>2 DEF Staged, Undisturbed
<1>5. CASE p = "caller"
  <2>1. q = "callee"
    BY <1>5 DEF Other
  <2>2. /\ SidesOK(d, pc["callee"], queue["caller"], queue["callee"], pending)
        /\ SidesOK(d, pc["callee"], queue["caller"], queue["callee"] \o ms, pending)
        /\ Here =>
             /\ stage["callee"] \notin {"out", "exited"}
             /\ Reached(stage["caller"], stage["callee"], joined, offered, d, pc["callee"],
                        queue["caller"], queue["callee"] \o ms, pending)
    BY <1>1, <1>2, <1>3, <1>5, CallerFindsAddress DEF Sides, Here
  <2>3. /\ after \in {queue["callee"], queue["callee"] \o ms}
        /\ stage["callee"] \notin {"out", "exited"} => after = queue["callee"] \o ms
    BY <2>1
  <2> HIDE DEF d, ms, q, after
  <2>4. IsPair(pc') /\ pc'["caller"] = d /\ pc'["callee"] = pc["callee"]
    <3>1. pc' = [pc EXCEPT !["caller"] = d]
      BY <1>1, <1>5
    <3> QED BY <1>2, <3>1, CallerUpdated
  <2>5. /\ IsPair(queue') /\ queue'["caller"] = queue["caller"]
        /\ queue'["callee"] \in {queue["callee"], after}
        /\ link["caller"] => queue'["callee"] = after
    <3>1. CASE link["caller"]
      <4>1. queue' = [queue EXCEPT !["callee"] = after]
        BY <1>1, <1>5, <2>1, <3>1
      <4> QED BY <1>2, <4>1, CalleeUpdated
    <3>2. CASE ~link["caller"]
      BY <1>1, <1>2, <1>5, <3>2
    <3> QED BY <3>1, <3>2
  <2>6. Sides'
    BY <1>1, <2>2, <2>3, <2>4, <2>5 DEF Sides
  <2>7. Undisturbed' => Here'
    BY <1>1, <1>2, <1>4, <2>2, <2>3, <2>4, <2>5 DEF Here
  <2> QED BY <1>4, <2>4, <2>5, <2>6, <2>7 DEF CInv
<1>6. CASE p = "callee"
  <2>1. q = "caller"
    BY <1>6 DEF Other
  <2>2. /\ SidesOK(pc["caller"], d, queue["caller"], queue["callee"], pending)
        /\ SidesOK(pc["caller"], d, queue["caller"] \o ms, queue["callee"], pending)
        /\ Here =>
             /\ stage["caller"] \notin {"out", "exited"}
             /\ Reached(stage["caller"], stage["callee"], joined, offered, pc["caller"], d,
                        queue["caller"] \o ms, queue["callee"], pending)
    BY <1>1, <1>2, <1>3, <1>6, CalleeFindsAddress DEF Sides, Here
  <2>3. /\ after \in {queue["caller"], queue["caller"] \o ms}
        /\ stage["caller"] \notin {"out", "exited"} => after = queue["caller"] \o ms
    BY <2>1
  <2> HIDE DEF d, ms, q, after
  <2>4. IsPair(pc') /\ pc'["callee"] = d /\ pc'["caller"] = pc["caller"]
    <3>1. pc' = [pc EXCEPT !["callee"] = d]
      BY <1>1, <1>6
    <3> QED BY <1>2, <3>1, CalleeUpdated
  <2>5. /\ IsPair(queue') /\ queue'["callee"] = queue["callee"]
        /\ queue'["caller"] \in {queue["caller"], after}
        /\ link["callee"] => queue'["caller"] = after
    <3>1. CASE link["callee"]
      <4>1. queue' = [queue EXCEPT !["caller"] = after]
        BY <1>1, <1>6, <2>1, <3>1
      <4> QED BY <1>2, <4>1, CallerUpdated
    <3>2. CASE ~link["callee"]
      BY <1>1, <1>2, <1>6, <3>2
    <3> QED BY <3>1, <3>2
  <2>6. Sides'
    BY <1>1, <2>2, <2>3, <2>4, <2>5 DEF Sides
  <2>7. Undisturbed' => Here'
    BY <1>1, <1>2, <1>4, <2>2, <2>3, <2>4, <2>5 DEF Here
  <2> QED BY <1>4, <2>4, <2>5, <2>6, <2>7 DEF CInv
<1> QED BY <1>5, <1>6 DEF Peers

LEMMA JoinOK ==
  ASSUME CInv, NEW p \in Peers, Join(p) PROVE CInv'
<1> DEFINE pj == Msg("peer-joined", << >>)
<1>1. PICK tellsNew \in BOOLEAN :
        LET toldNow == {q \in Peers : InRoom(Other(p)) /\ (q = Other(p) \/ tellsNew)}
        IN  /\ queue' = [q \in Peers |-> IF q \in toldNow THEN Append(queue[q], pj) ELSE queue[q]]
            /\ told' = (told \/ "caller" \in toldNow)
  BY DEF Join
<1>2. /\ stage[p] = "out"
      /\ stage' = [stage EXCEPT ![p] = IF p = "caller" THEN "main" ELSE "waiting"]
      /\ UNCHANGED <<pc, link, joined, offered, pending, restarts>>
  BY DEF Join
<1>3. Staged /\ IsPair(pc) /\ IsPair(queue) /\ Sides /\ (Undisturbed => Here)
  BY DEF CInv
<1>4. /\ IsPair(queue')
      /\ Told(queue["caller"], queue'["caller"]) /\ Told(queue["callee"], queue'["callee"])
      /\ queue'["caller"] # queue["caller"] \/ queue'["callee"] # queue["callee"] => InRoom(Other(p))
  BY <1>1 DEF IsPair, Told, Peers
<1>5. /\ stage'[p] # "out" /\ (InRoom(Other(p)) => stage'[Other(p)] # "out")
      /\ \/ stage["caller"] = "out" /\ stage'["caller"] = "main" /\ stage'["callee"] = stage["callee"]
         \/ stage["callee"] = "out" /\ stage'["callee"] = "waiting" /\ stage'["caller"] = stage["caller"]
  BY <1>2, <1>3 DEF Staged, InRoom, Other, Peers
<1>6. InRoom(Other(p)) => stage'["caller"] # "out" /\ stage'["callee"] # "out"
  BY <1>5 DEF Other, Peers
<1>7. Staged' /\ (Undisturbed' => Undisturbed)
  <2>1. told' \in BOOLEAN
    BY <1>1, <1>3 DEF Staged
  <2>2. stage' \in [Peers -> {"out", "waiting", "offered", "main", "exited"}]
    BY <1>2, <1>3 DEF Staged
  <2> QED BY <1>2, <1>3, <2>1, <2>2 DEF Staged, Undisturbed
<1>8. /\ SidesOK(pc["caller"], pc["callee"], queue'["caller"], queue'["callee"], pending)
      /\ Here => Reached(stage'["caller"], stage'["callee"], joined, offered, pc["caller"], pc["callee"],
                         queue'["caller"], queue'["callee"], pending)
  BY <1>3, <1>4, <1>5, <1>6, SomebodyJoins DEF Sides, Here
<1> QED BY <1>2, <1>3, <1>4, <1>7, <1>8 DEF CInv, Sides, Here

LEMMA BreakOK ==
  ASSUME CInv, NEW p \in Peers, Break(p) PROVE CInv'
<1>1. /\ link' = [link EXCEPT ![p] = FALSE]
      /\ UNCHANGED <<pc, stage, queue, joined, offered, pending, told, restarts>>
  BY DEF Break
<1>2. Staged /\ IsPair(pc) /\ IsPair(queue) /\ Sides
  BY DEF CInv
<1>3. Staged' /\ ~link'[p]
  BY <1>1, <1>2 DEF Staged
<1>4. ~Undisturbed'
  BY <1>3 DEF Undisturbed, Peers
<1> QED BY <1>1, <1>2, <1>3, <1>4 DEF CInv, Sides

LEMMA RestartOK ==
  ASSUME CInv, Restart PROVE CInv'
<1>1. /\ restarts < MaxRestarts /\ restarts' = restarts + 1
      /\ stage' = [stage EXCEPT !["callee"] = "out"]
      /\ pc' = [pc EXCEPT !["callee"] = NewPeerConnection]
      /\ link' = [link EXCEPT !["callee"] = TRUE]
      /\ queue' = [queue EXCEPT !["callee"] = << >>]
      /\ pending' = << >>
      /\ UNCHANGED <<joined, offered, told>>
  BY DEF Restart
<1>2. Staged /\ IsPair(pc) /\ IsPair(queue) /\ Sides
  BY DEF CInv
<1>3. restarts' \in 0..MaxRestarts /\ restarts' # 0
  BY <1>1, <1>2, CallAssumption DEF Staged
<1>4. Staged' /\ ~Undisturbed'
  BY <1>1, <1>2, <1>3 DEF Staged, Undisturbed
<1>5. /\ IsPair(pc') /\ pc'["callee"] = NewPeerConnection /\ pc'["caller"] = pc["caller"]
      /\ IsPair(queue') /\ queue'["callee"] = << >> /\ queue'["caller"] = queue["caller"]
  <2>1. IsPair(pc') /\ pc'["callee"] = NewPeerConnection /\ pc'["caller"] = pc["caller"]
    BY <1>1, <1>2, CalleeUpdated
  <2>2. IsPair(queue') /\ queue'["callee"] = << >> /\ queue'["caller"] = queue["caller"]
    BY <1>1, <1>2, CalleeUpdated
  <2> QED BY <2>1, <2>2
<1>6. QueueOK(<< >>, "callee")
  BY DEF QueueOK
<1>7. Sides'
  BY <1>1, <1>2, <1>5, <1>6, NewConnectionOK DEF Sides, SidesOK, OfferOK
<1> QED BY <1>4, <1>5, <1>7 DEF CInv

LEMMA CallStutterOK ==
  ASSUME CInv, UNCHANGED vars PROVE CInv'
BY DEF CInv, vars, Staged, Sides, Here, Undisturbed

LEMMA CallStepOK ==
  ASSUME CInv, [Next]_vars PROVE CInv'
<1>1. ASSUME NEW p \in Peers, Join(p) \/ Break(p) \/ Reflexive(p) PROVE CInv'
  BY <1>1, JoinOK, BreakOK, ReflexiveOK
<1>2. ASSUME Restart PROVE CInv'
  BY <1>2, RestartOK
<1>3. ASSUME CallerTurn PROVE CInv'
  BY <1>3, CallerAddsCandidateOK, CallerSeesPeerOK, CallerTakesAnswerOK, CallerOffersOK DEF CallerTurn
<1>4. ASSUME CalleeTurn PROVE CInv'
  BY <1>4, CalleeAddsCandidateOK, CalleeIgnoresOK, CalleeTakesOfferOK, CalleeSetsOfferOK,
     CalleeAnswersOK DEF CalleeTurn
<1> QED BY <1>1, <1>2, <1>3, <1>4, CallStutterOK DEF Next

LEMMA CallInvariant == Spec => []CInv
<1>1. CInv /\ [Next]_vars => CInv'
  BY CallStepOK
<1> QED BY <1>1, CInitOK, PTL DEF Spec

-----------------------------------------------------------------------------
(***************************************************************************)
(* The theorems.                                                           *)
(***************************************************************************)
LEMMA CInvTypeOK == CInv => TypeOK
<1> SUFFICES ASSUME CInv PROVE TypeOK
  OBVIOUS
<1>1. Staged /\ IsPair(pc) /\ IsPair(queue) /\ Sides
  BY DEF CInv
<1>2. /\ ConnectionOK(pc["caller"]) /\ ConnectionOK(pc["callee"])
      /\ QueueOK(queue["caller"], "caller") /\ QueueOK(queue["callee"], "callee")
      /\ OfferOK(pending)
  BY <1>1 DEF Sides, SidesOK
<1>3. \A p \in Peers : ConnectionOK(pc[p]) /\ QueueOK(queue[p], p)
  BY <1>2 DEF Peers
<1>4. pc \in [Peers -> PeerConnections]
  BY <1>1, <1>3 DEF IsPair, ConnectionOK
<1>5. queue \in [Peers -> Seq(Message)]
  BY <1>1, <1>3 DEF IsPair, QueueOK
<1>6. \A p \in Peers : SessionTyped(pc[p].ice) /\ Len(pc[p].sdp) <= MaxCandidates
  BY <1>3 DEF ConnectionOK, SessionInv
<1>7. pending \in Seq(Seq(LocalAddr))
  <2>1. CASE pending = << >>
    BY <2>1
  <2>2. CASE pending # << >>
    <3>1. PICK list \in Seq(LocalAddr) : pending = <<list>>
      BY <1>2, <2>2 DEF OfferOK
    <3> QED BY <3>1
  <2> QED BY <2>1, <2>2
<1> QED BY <1>1, <1>4, <1>5, <1>6, <1>7 DEF TypeOK, Staged

\* Every variable of a call has its type, and neither the candidates of a
\* session nor those of remote_sdp outgrow their arrays, however the two
\* sides, the server and the network take turns (peer_connection.c:561-569,
\* sdp_parser.c:286-289).
THEOREM CallTyped == Spec => []TypeOK
<1>1. CInv => TypeOK
  BY CInvTypeOK
<1> QED BY <1>1, CallInvariant, PTL

LEMMA CInvCandidatesKept == CInv => CandidatesKept
<1> SUFFICES ASSUME CInv, NEW p \in Peers,
                    pc[p].described, pc[p].has, pc[Other(p)].has,
                    link["caller"], link["callee"], restarts = 0,
                    NEW i \in DOMAIN pc[Other(p)].ice.local
             PROVE  LET a == pc[Other(p)].ice.local[i].addr
                    IN  \/ Holds(pc[p].ice.remote, a)
                        \/ \E k \in DOMAIN queue[p] : Holds(queue[p][k].candidates, a)
                        \/ Full(p)
  BY DEF CandidatesKept
<1> DEFINE a == pc[Other(p)].ice.local[i].addr
<1>1. Here /\ Sides
  BY DEF CInv, Undisturbed
<1>2. Safe(p, pc[p], pc[Other(p)], queue[p], pending)
  BY <1>1 DEF Here, Reached, Other, Peers
<1>3. KnownTo(pc[p], queue[p], a)
  BY <1>2 DEF Safe, Reaches
<1> HIDE DEF a
<1>4. Carries(queue[p], a) \/ Holds(pc[p].ice.remote, a) \/ NoRoomLeft(pc[p])
  BY <1>3 DEF KnownTo
<1>5. DOMAIN queue[p] = 1..Len(queue[p])
  <2>1. queue[p] \in Seq(Message)
    BY <1>1 DEF Sides, SidesOK, QueueOK, Peers
  <2> QED BY <2>1
<1>6. \/ Holds(pc[p].ice.remote, a)
      \/ \E k \in DOMAIN queue[p] : Holds(queue[p][k].candidates, a)
      \/ Full(p)
  BY <1>4, <1>5 DEF Carries, NoRoomLeft, Full
<1> QED BY <1>6 DEF a

\* No candidate gets lost between the two sides, whether it is announced
\* while a description is made or later, before its description arrives or
\* after it: it is in the session of the peer, or on its way there, or there
\* is no room for it (demo_receiver.c:148-179, :313-360,
\* peer_connection.c:438-447, :561-569).
THEOREM NoCandidateLost == Spec => []CandidatesKept
<1>1. CInv => CandidatesKept
  BY CInvCandidatesKept
<1> QED BY <1>1, CallInvariant, PTL
=============================================================================
