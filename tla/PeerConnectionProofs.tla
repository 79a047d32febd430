------------------------ MODULE PeerConnectionProofs ------------------------
(***************************************************************************)
(* The safety of PeerConnection for every number of sessions, every bound  *)
(* on the candidates and whatever addresses.  What the session itself      *)
(* promises comes from IceSessionProofs.  The inductive invariant adds     *)
(* where a description is on its way through a call (what has been         *)
(* replayed and announced when), and that DTLS sends through the present   *)
(* session as soon as that has a selected pair, except between dtls_init   *)
(* and the new session of a description.                                   *)
(***************************************************************************)
EXTENDS PeerConnection, IceSessionProofs

Describing == {"described", "created", "replaying", "announcing"}

\* The udp candidates from m + 1 to n of remoteSdp are in the session, unless
\* that is full.
Synced(m, n) ==
  Len(ice.remote) < MaxCandidates =>
    \A i \in 1..n :
      i > m /\ remoteSdp[i].udp => \E j \in 1..Len(ice.remote) : ice.remote[j] = remoteSdp[i].addr

\* The first n local candidates have been announced.
Announced(n) == announced = [i \in 1..n |-> i]

\* Where a public function is.
Calls ==
  /\ handle # "live" => created = 0 /\ state = "new" /\ ~srtp
  /\ loop = "received" => api = "idle" /\ handle = "live" /\ HasIce /\ ice.socket
  /\ api \in Describing => state = "connecting"
  /\ api = "described" => created < MaxSessions
  /\ api \in (Describing \ {"described"}) \cup {"adding"} => HasIce

\* What is in the session at each point of a call.
Sessions ==
  /\ ~HasIce \/ api = "created" => ice = NewSession
  /\ HasIce /\ api # "created" => ice.state \notin {"new", "gathering"}
  /\ api \in {"replaying", "adding"} => next \in 1..(Len(remoteSdp) + 1) /\ Synced(0, next - 1)
  /\ api = "announcing" => Synced(0, Len(remoteSdp))
  /\ api = "idle" /\ HasIce => Synced(unused, Len(remoteSdp))

Announcing ==
  /\ api \in {"created", "replaying"} => Announced(0)
  /\ api = "announcing" => next \in 1..(Len(ice.local) + 1) /\ Announced(next - 1)
  /\ api \in {"idle", "adding"} /\ HasIce => Announced(Len(ice.local))

\* What DTLS sends through.
Transport ==
  /\ state = "connected" => ice.selected # 0
  /\ dtls.phase \in {"off", "init"} => dtls.ice = "none"
  /\ dtls.phase \notin {"off", "init"} => dtls.ice # "none"
  /\ dtls.ice = "current" => ice.socket /\ ice.selected # 0
  /\ api # "described" /\ ice.selected # 0 /\ dtls.phase # "off" => dtls.ice = "current"

Inv ==
  /\ TypeOK
  /\ SessionInv(ice)
  /\ Calls
  /\ Sessions
  /\ Announcing
  /\ Transport

-----------------------------------------------------------------------------
\* What operations on a session leave alone.

SameButPairs(s, t) ==
  /\ t.state = s.state /\ t.socket = s.socket /\ t.selected = s.selected
  /\ t.local = s.local /\ t.remote = s.remote

LEMMA OnRequestKeeps ==
  ASSUME NEW s \in Session, NEW src
  PROVE  SameButPairs(s, OnRequest(s, src))
BY DEF OnRequest, Session, SameButPairs

LEMMA CreditKeeps ==
  ASSUME NEW s \in Session, NEW txid
  PROVE  SameButPairs(s, Credit(s, txid))
BY DEF Credit, Session, SameButPairs

LEMMA OnResponseKeeps ==
  ASSUME NEW s, SessionInv(s), NEW txid, NEW mapped \in SUBSET LocalAddr
  PROVE  LET t == OnResponse(s, txid, mapped)
         IN  /\ t.state = s.state /\ t.socket = s.socket /\ t.selected = s.selected
             /\ t.remote = s.remote
             /\ Len(t.local) \in {Len(s.local), Len(s.local) + 1}
<1> DEFINE credited == IF IsServerResponse(s, txid) THEN s ELSE Credit(s, txid)
           m == CHOOSE m \in mapped : TRUE
<1>1. SessionInv(credited) /\ SameButPairs(s, credited)
  BY CreditOK, CreditKeeps DEF SessionInv, SessionTyped, SameButPairs
<1>2. credited \in Session /\ credited.local \in Seq(LocalCandidate)
  BY <1>1, SessionFields DEF SessionInv, SessionTyped
<1> HIDE DEF credited
<1>3. CASE mapped = {}
  <2>1. OnResponse(s, txid, mapped) = credited
    BY <1>3 DEF OnResponse, credited
  <2> QED BY <1>1, <2>1 DEF SameButPairs
<1>4. CASE mapped # {}
  <2>1. OnResponse(s, txid, mapped) = AddServerReflexive(credited, m)
    BY <1>4 DEF OnResponse, credited
  <2> HIDE DEF m
  <2> DEFINE t == AddServerReflexive(credited, m)
             c == [type |-> "srflx", addr |-> m, selected |-> FALSE]
  <2>2. t.local = credited.local \/ t.local = Append(credited.local, c)
    BY <1>2 DEF AddServerReflexive, Session
  <2>3. /\ t.state = credited.state /\ t.socket = credited.socket
        /\ t.selected = credited.selected /\ t.remote = credited.remote
    BY <1>2 DEF AddServerReflexive, Session
  <2> HIDE DEF t, c
  <2>4. Len(t.local) \in {Len(credited.local), Len(credited.local) + 1}
    <3>1. CASE t.local = credited.local
      BY <3>1
    <3>2. CASE t.local = Append(credited.local, c)
      <4>1. Len(Append(credited.local, c)) = Len(credited.local) + 1
        BY <1>2, AppendProperties
      <4> QED BY <3>2, <4>1
    <3> QED BY <2>2, <3>1, <3>2
  <2>5. OnResponse(s, txid, mapped) = t
    BY <2>1 DEF t
  <2> QED BY <1>1, <2>3, <2>4, <2>5 DEF SameButPairs
<1> QED BY <1>3, <1>4

LEMMA AddRemoteKeeps ==
  ASSUME NEW s \in Session, NEW a, NEW udp \in BOOLEAN
  PROVE  LET t == AddRemote(s, a, udp)
         IN  /\ t.state = s.state /\ t.socket = s.socket /\ t.selected = s.selected
             /\ t.local = s.local
             /\ t.remote = IF AddRemoteFails(s) \/ ~udp THEN s.remote ELSE Append(s.remote, a)
BY DEF AddRemote, Session

LEMMA CheckConnectivityKeeps ==
  ASSUME NEW s, SessionInv(s), NEW at, \A i \in DOMAIN s.pairs : at[i] \in Nat
  PROVE  LET t == CheckConnectivity(s, 1, at)
         IN  /\ t.socket = s.socket /\ t.remote = s.remote /\ Len(t.local) = Len(s.local)
             /\ s.selected # 0 => t.selected = s.selected
             /\ s.state \notin {"new", "gathering"} => t.state \notin {"new", "gathering"}
             /\ SessionInv(t)
<1> DEFINE p == Pinged(s, 1, at)
           t == CheckConnectivity(s, 1, at)
<1>1. SessionInv(t)
  BY CheckConnectivityOK DEF Due
<1>2. s \in Session
  BY DEF SessionInv, SessionTyped
<1>3. CASE ~CanCheck(s)
  <2>1. t = s
    BY <1>3 DEF CheckConnectivity
  <2> QED BY <1>1, <2>1
<1>4. CASE CanCheck(s)
  <2>1. /\ p.socket = s.socket /\ p.remote = s.remote /\ p.local = s.local /\ p.selected = s.selected
        /\ s.state \notin {"new", "gathering"} => p.state \notin {"new", "gathering"}
    BY <1>2 DEF Pinged, Session
  <2>2. SessionInv(p)
    BY <1>4, PingedOK DEF Due
  <2>3. p \in Session
    BY <2>2 DEF SessionInv, SessionTyped
  <2>4. t = Selected(p)
    BY <1>4 DEF CheckConnectivity
  <2> HIDE DEF p
  <2>5. CASE p.selected # 0 \/ Succeeded(p) = {}
    <3>1. t = p
      BY <2>4, <2>5 DEF Selected
    <3> QED BY <1>1, <2>1, <3>1
  <2>6. CASE ~(p.selected # 0 \/ Succeeded(p) = {})
    <3> DEFINE f == First(Succeeded(p))
               k == p.pairs[f].local
               u == [p EXCEPT !.selected = f, !.state = "done", !.local[k].selected = TRUE]
    <3>1. t = u
      BY <2>4, <2>6 DEF Selected
    <3>2. /\ u.socket = p.socket /\ u.remote = p.remote /\ u.state = "done"
          /\ DOMAIN u.local = DOMAIN p.local
      BY <2>3 DEF Session
    <3> HIDE DEF u
    <3>3. Len(u.local) = Len(p.local)
      <4>1. /\ DOMAIN u.local = 1..Len(u.local) /\ DOMAIN p.local = 1..Len(p.local)
            /\ Len(u.local) \in Nat /\ Len(p.local) \in Nat
        BY <1>1, <2>2, <3>1, SessionFields DEF SessionInv
      <4>2. 1..Len(u.local) = 1..Len(p.local)
        BY <3>2, <4>1
      <4> QED BY <4>1, <4>2
    <3> QED BY <1>1, <2>1, <2>6, <3>1, <3>2, <3>3
  <2> QED BY <2>5, <2>6
<1> QED BY <1>3, <1>4

LEMMA GatheredOK ==
  ASSUME NEW txid \in Nat
  PROVE  LET t == Gathered(NewSession, txid)
         IN  SessionInv(t) /\ t.state = "gathered" /\ t.selected = 0 /\ t.remote = << >>
<1> DEFINE a == GatherSocket(GatherStart(NewSession))
           b == AddHost(a, HostAddr)
<1>1. SessionInv(a) /\ a.state = "gathering" /\ a.selected = 0 /\ a.remote = << >>
  BY NewSessionOK, GatherOK DEF GatherSocket, GatherStart, NewSession
<1> HIDE DEF a
<1>2. SessionInv(b) /\ b.state = "gathering"
  BY <1>1, AddHostOK, PeerAssumption
<1>3. a \in Session
  BY <1>1 DEF SessionInv, SessionTyped
<1>4. b.selected = 0 /\ b.remote = << >>
  BY <1>1, <1>3 DEF AddHost, Session
<1> HIDE DEF b
<1>5. SessionInv(GatherEnd(b, txid))
  BY <1>2, GatherOK
<1>6. b \in Session
  BY <1>2 DEF SessionInv, SessionTyped
<1>7. /\ GatherEnd(b, txid).state = "gathered" /\ GatherEnd(b, txid).selected = b.selected
      /\ GatherEnd(b, txid).remote = b.remote
  BY <1>6 DEF GatherEnd, Session
<1>8. Gathered(NewSession, txid) = GatherEnd(b, txid)
  BY DEF Gathered, a, b
<1> QED BY <1>4, <1>5, <1>7, <1>8

LEMMA GatherFailedOK ==
  LET t == GatherFailed(GatherStart(NewSession))
  IN  SessionInv(t) /\ t.state = "gathered" /\ t.selected = 0 /\ t.remote = << >>
<1>1. NewSession.state \in {"new", "gathering"} /\ 0 \in Nat
  BY DEF NewSession
<1>2. SessionInv(GatherFailed(GatherStart(NewSession)))
  BY <1>1, NewSessionOK, GatherOK
<1> QED BY <1>2 DEF GatherFailed, GatherStart, NewSession

\* A session is connected when a pair is selected.
LEMMA ConnectedIsSelected ==
  ASSUME NEW s, SessionInv(s)
  PROVE  IceIsConnected(s) <=> s.selected # 0
BY DEF IceIsConnected, SessionInv, SelectedPairOK

-----------------------------------------------------------------------------
\* What is announced and what is known.

LEMMA NumbersAppended ==
  ASSUME NEW n \in Nat
  PROVE  /\ [i \in 1..n |-> i] \in Seq(Nat)
         /\ Append([i \in 1..n |-> i], n + 1) = [i \in 1..(n + 1) |-> i]
<1> DEFINE f == [i \in 1..n |-> i]
           g == [i \in 1..(n + 1) |-> i]
<1>1. f \in [1..n -> Nat] /\ g \in [1..(n + 1) -> Nat]
  OBVIOUS
<1>2. f \in Seq(Nat) /\ Len(f) = n /\ g \in Seq(Nat) /\ Len(g) = n + 1
  BY <1>1, FunctionIsSeq
<1>3. \A i \in 1..n : f[i] = i
  OBVIOUS
<1>4. \A i \in 1..(n + 1) : g[i] = i
  OBVIOUS
<1> HIDE DEF f, g
<1>5. Append(f, n + 1) \in Seq(Nat) /\ Len(Append(f, n + 1)) = n + 1
  BY <1>2, AppendProperties
<1>6. \A i \in 1..(n + 1) : Append(f, n + 1)[i] = i
  BY <1>2, <1>3, AppendProperties
<1>7. Append(f, n + 1) = g
  BY <1>2, <1>4, <1>5, <1>6, SeqEqual
<1> QED BY <1>2, <1>7 DEF f, g

\* Sessions and descriptions in terms of their fields.
LEMMA InvFields ==
  ASSUME Inv
  PROVE  /\ SessionInv(ice) /\ ice \in Session
         /\ ice.remote \in Seq(RemoteAddr) /\ Len(ice.remote) \in Nat
         /\ DOMAIN ice.remote = 1..Len(ice.remote)
         /\ Len(ice.local) \in Nat /\ DOMAIN ice.local = 1..Len(ice.local)
         /\ DOMAIN ice.pairs = 1..Len(ice.pairs) /\ Len(ice.pairs) \in Nat
         /\ remoteSdp \in Seq(SdpCandidate) /\ Len(remoteSdp) \in Nat
         /\ DOMAIN remoteSdp = 1..Len(remoteSdp)
         /\ \A i \in 1..Len(remoteSdp) : remoteSdp[i].addr \in RemoteAddr /\ remoteSdp[i].udp \in BOOLEAN
         /\ created \in Nat /\ next \in Nat
<1>1. SessionInv(ice) /\ SessionTyped(ice) /\ ice \in Session
  BY DEF Inv, SessionInv, SessionTyped
<1>2. remoteSdp \in Seq(SdpCandidate) /\ Len(remoteSdp) \in Nat /\ created \in Nat /\ next \in Nat
      /\ DOMAIN remoteSdp = 1..Len(remoteSdp)
  BY PeerAssumption DEF Inv, TypeOK
<1>3. \A i \in 1..Len(remoteSdp) : remoteSdp[i].addr \in RemoteAddr /\ remoteSdp[i].udp \in BOOLEAN
  <2>1. SUFFICES ASSUME NEW i \in 1..Len(remoteSdp)
                 PROVE  remoteSdp[i].addr \in RemoteAddr /\ remoteSdp[i].udp \in BOOLEAN
    OBVIOUS
  <2>2. remoteSdp[i] \in SdpCandidate
    BY <1>2
  <2> QED BY <2>2 DEF SdpCandidate
<1> QED BY <1>1, <1>2, <1>3, SessionFields

\* A candidate of the description is added to the session: what was known
\* stays known, and it is known as well.
LEMMA SyncedStep ==
  ASSUME Inv, NEW m \in Nat, NEW n \in 0..Len(remoteSdp), Synced(m, n),
         NEW a \in RemoteAddr, NEW udp \in BOOLEAN, ice' = AddRemote(ice, a, udp),
         Len(ice'.remote) < MaxCandidates, NEW i \in 1..n, i > m, remoteSdp[i].udp
  PROVE  \E j \in 1..Len(ice'.remote) : ice'.remote[j] = remoteSdp[i].addr
<1>1. ice'.remote = IF AddRemoteFails(ice) \/ ~udp THEN ice.remote ELSE Append(ice.remote, a)
  BY InvFields, AddRemoteKeeps
<1>2. MaxCandidates \in Nat /\ ice.remote \in Seq(RemoteAddr) /\ Len(ice.remote) \in Nat
  BY InvFields, IceAssumption
<1>3. CASE AddRemoteFails(ice) \/ ~udp
  BY <1>1, <1>3 DEF Synced
<1>4. CASE ~(AddRemoteFails(ice) \/ ~udp)
  <2>1. /\ ice'.remote = Append(ice.remote, a) /\ Len(ice'.remote) = Len(ice.remote) + 1
        /\ \A j \in 1..Len(ice.remote) : ice'.remote[j] = ice.remote[j]
    BY <1>1, <1>2, <1>4, AppendProperties
  <2>2. Len(ice.remote) < MaxCandidates
    BY <1>2, <2>1
  <2>3. PICK j \in 1..Len(ice.remote) : ice.remote[j] = remoteSdp[i].addr
    BY <2>2 DEF Synced
  <2> QED BY <1>2, <2>1, <2>3
<1> QED BY <1>3, <1>4

LEMMA AddedIsKnown ==
  ASSUME NEW q \in Seq(RemoteAddr), NEW a \in RemoteAddr, NEW t,
         t = IF Len(q) >= MaxCandidates THEN q ELSE Append(q, a), Len(t) < MaxCandidates
  PROVE  \E j \in 1..Len(t) : t[j] = a
<1>1. Len(q) \in Nat /\ MaxCandidates \in Nat
  BY IceAssumption
<1>2. ~(Len(q) >= MaxCandidates)
  BY <1>1
<1>3. Len(t) = Len(q) + 1 /\ t[Len(q) + 1] = a
  BY <1>2, AppendProperties
<1> QED BY <1>1, <1>3

LEMMA InitInv == Init => Inv
<1> SUFFICES ASSUME Init PROVE Inv
  OBVIOUS
<1>1. SessionInv(ice) /\ SessionTyped(ice) /\ ice = NewSession
  BY NewSessionOK DEF Init, SessionInv
<1>2. remoteSdp = << >> /\ remoteSdp \in Seq(SdpCandidate) /\ Len(remoteSdp) = 0
      /\ announced \in Seq(Nat) /\ created = 0 /\ created \in 0..MaxSessions
  BY PeerAssumption DEF Init
<1>3. unused = 0 /\ unused \in 0..MaxCandidates
  <2>1. unused = 0
    BY DEF Init
  <2> QED BY <2>1, IceAssumption
<1>4. srtp \in BOOLEAN /\ ~srtp
  BY DEF Init
<1>5. TypeOK
  BY <1>1, <1>2, <1>3, <1>4, IceAssumption DEF Init, TypeOK, Dtls
<1>6. Calls /\ Sessions /\ Announcing
  BY <1>1, <1>2, <1>3, <1>4 DEF Init, Calls, Sessions, Announcing, HasIce, Describing
<1>7. Transport
  BY DEF Init, Transport
<1> QED BY <1>1, <1>5, <1>6, <1>7 DEF Inv

-----------------------------------------------------------------------------
\* Every step keeps Inv: the public functions.

\* A step that leaves the session and the description alone.
LEMMA BeginDescriptionInv ==
  ASSUME Inv, BeginDescription
  PROVE  Inv'
<1>1. /\ handle = "live" /\ api = "idle" /\ loop = "idle" /\ created < MaxSessions
      /\ state' = "connecting" /\ api' = "described"
      /\ UNCHANGED <<handle, ice, created, announced, remoteSdp, unused, srtp, next, loop>>
  BY DEF BeginDescription, ApiCall
<1>2. dtls' = dtls \/ (dtls.phase = "off" /\ dtls' = [dtls EXCEPT !.phase = "init"])
  BY DEF BeginDescription
<1>3. /\ dtls' \in Dtls /\ dtls'.ice = dtls.ice
      /\ dtls'.phase = dtls.phase \/ (dtls.phase = "off" /\ dtls'.phase = "init")
  BY <1>2 DEF Inv, TypeOK, Dtls
<1>4. TypeOK' /\ SessionInv(ice)'
  BY <1>1, <1>3 DEF Inv, TypeOK
<1>5. Calls' /\ Sessions' /\ Announcing'
  BY <1>1 DEF Inv, Calls, Sessions, Announcing, HasIce, Describing
<1>6. Transport'
  BY <1>1, <1>3 DEF Inv, Transport
<1> QED BY <1>4, <1>5, <1>6 DEF Inv

LEMMA CreateSessionInv ==
  ASSUME Inv, CreateSession
  PROVE  Inv'
<1>1. /\ api = "described" /\ ice' = NewSession /\ created' = created + 1
      /\ dtls' = IF dtls.ice = "current" THEN [dtls EXCEPT !.ice = "leaked"] ELSE dtls
      /\ announced' = << >> /\ api' = "created"
      /\ UNCHANGED <<handle, state, remoteSdp, unused, srtp, next, loop>>
  BY DEF CreateSession
<1>2. created < MaxSessions /\ created \in Nat /\ MaxSessions \in Nat
  BY <1>1, PeerAssumption, InvFields DEF Inv, Calls
<1>3. /\ dtls' \in Dtls /\ dtls'.phase = dtls.phase /\ dtls'.ice # "current"
      /\ dtls.ice = "none" <=> dtls'.ice = "none"
  BY <1>1 DEF Inv, TypeOK, Dtls
<1>4. SessionInv(NewSession) /\ SessionTyped(NewSession)
  BY NewSessionOK DEF SessionInv
<1>5. announced' \in Seq(Nat) /\ created' \in 0..MaxSessions /\ created' > 0
  BY <1>1, <1>2
<1>6. TypeOK' /\ SessionInv(ice)'
  BY <1>1, <1>3, <1>4, <1>5 DEF Inv, TypeOK
<1>7. Calls'
  BY <1>1, <1>5 DEF Inv, Calls, HasIce, Describing
<1>8. Sessions' /\ Announcing'
  BY <1>1, <1>5 DEF Sessions, Announcing, Announced, HasIce
<1>9. Transport'
  BY <1>1, <1>3 DEF Inv, Calls, Transport, NewSession, Describing
<1> QED BY <1>6, <1>7, <1>8, <1>9 DEF Inv

LEMMA GatherInv ==
  ASSUME Inv, Gather
  PROVE  Inv'
<1>1. /\ api = "created" /\ api' = "replaying" /\ next' = 1
      /\ UNCHANGED <<handle, state, created, announced, remoteSdp, unused, dtls, srtp, loop>>
  BY DEF Gather
<1>2. ice = NewSession /\ HasIce /\ ice.selected = 0
  BY <1>1 DEF Inv, Sessions, Calls, Describing, NewSession
<1>3. SessionInv(ice') /\ ice'.state = "gathered" /\ ice'.selected = 0 /\ ice'.remote = << >>
  <2>1. CASE ice' = GatherFailed(GatherStart(ice))
    BY <1>2, <2>1, GatherFailedOK
  <2>2. CASE \E txid \in {0, MaxPairs + 1} : ice' = Gathered(ice, txid)
    <3>1. PICK txid \in {0, MaxPairs + 1} : ice' = Gathered(ice, txid)
      BY <2>2
    <3>2. txid \in Nat
      BY IceAssumption DEF MaxPairs
    <3> QED BY <1>2, <3>1, <3>2, GatheredOK
  <2> QED BY <2>1, <2>2 DEF Gather
<1>4. TypeOK'
  BY <1>1, <1>3 DEF Inv, TypeOK, SessionInv
<1>5. Calls'
  BY <1>1, <1>2 DEF Inv, Calls, HasIce, Describing
<1>6. Sessions'
  <2>1. 1 \in 1..(Len(remoteSdp) + 1)
    BY InvFields
  <2>2. Synced(0, 0)'
    BY DEF Synced
  <2>3. next' - 1 = 0
    BY <1>1
  <2> QED BY <1>1, <1>2, <1>3, <2>1, <2>2, <2>3 DEF Sessions, HasIce
<1>7. Announcing'
  BY <1>1 DEF Inv, Announcing, Announced
<1>8. Transport'
  BY <1>1, <1>2, <1>3 DEF Inv, Transport
<1> QED BY <1>3, <1>4, <1>5, <1>6, <1>7, <1>8 DEF Inv

\* A candidate is added to the session in a call.
LEMMA AddingTransport ==
  ASSUME Inv, ice'.selected = ice.selected, ice'.socket = ice.socket,
         UNCHANGED <<state, dtls, api>>
  PROVE  Transport'
BY DEF Inv, Transport

LEMMA AddFromSdpInv ==
  ASSUME Inv, AddFromSdp
  PROVE  Inv'
<1>1. /\ api \in {"replaying", "adding"} /\ next <= Len(remoteSdp)
      /\ ice' = AddRemote(ice, remoteSdp[next].addr, remoteSdp[next].udp)
      /\ next' = next + 1
      /\ UNCHANGED <<handle, state, created, announced, remoteSdp, unused, dtls, srtp, api, loop>>
  BY DEF AddFromSdp
<1>2. HasIce /\ ice.state \notin {"new", "gathering"} /\ next \in 1..Len(remoteSdp) /\ Synced(0, next - 1)
      /\ next - 1 \in 0..Len(remoteSdp)
  BY <1>1, InvFields DEF Inv, Calls, Sessions, Describing
<1> DEFINE a == remoteSdp[next].addr
           udp == remoteSdp[next].udp
<1>3. a \in RemoteAddr /\ udp \in BOOLEAN
  BY <1>2, InvFields
<1>4. ice' = AddRemote(ice, a, udp)
  BY <1>1, <1>3
<1>5. a = remoteSdp[next].addr /\ (udp <=> remoteSdp[next].udp)
  OBVIOUS
<1> HIDE DEF a, udp
<1>6. SessionInv(ice')
  BY <1>2, <1>3, <1>4, InvFields, AddRemoteOK
<1>7. /\ ice'.state = ice.state /\ ice'.socket = ice.socket /\ ice'.selected = ice.selected
      /\ ice'.local = ice.local
  BY <1>3, <1>4, InvFields, AddRemoteKeeps
<1>8. TypeOK'
  BY <1>1, <1>6, InvFields DEF Inv, TypeOK, SessionInv
<1>9. Calls'
  BY <1>1, <1>7 DEF Inv, Calls, HasIce
<1>10. Synced(0, next - 1)'
  <2>0. next' - 1 = next
    BY <1>1, <1>2
  <2>1. SUFFICES ASSUME Len(ice'.remote) < MaxCandidates, NEW i \in 1..next, remoteSdp[i].udp
                 PROVE  \E j \in 1..Len(ice'.remote) : ice'.remote[j] = remoteSdp[i].addr
    BY <1>1, <2>0 DEF Synced
  <2>2. CASE i = next
    <3>1. ice'.remote = IF AddRemoteFails(ice) \/ ~udp THEN ice.remote ELSE Append(ice.remote, a)
      BY <1>3, <1>4, InvFields, AddRemoteKeeps
    <3>2. udp
      BY <1>5, <2>1, <2>2
    <3>3. ice'.remote = IF Len(ice.remote) >= MaxCandidates THEN ice.remote ELSE Append(ice.remote, a)
      BY <3>1, <3>2 DEF AddRemoteFails
    <3> DEFINE t == ice'.remote
               q == ice.remote
    <3>4. /\ t = IF Len(q) >= MaxCandidates THEN q ELSE Append(q, a)
          /\ Len(t) < MaxCandidates
      BY <2>1, <3>3
    <3>5. q \in Seq(RemoteAddr) /\ a \in RemoteAddr
      BY <1>3, InvFields
    <3> HIDE DEF t, q
    <3>6. \E j \in 1..Len(t) : t[j] = a
      BY ONLY <3>4, <3>5, AddedIsKnown
    <3> QED BY <1>5, <2>2, <3>6 DEF t
  <2>3. CASE i # next
    <3>1. i \in 1..(next - 1) /\ i > 0 /\ 0 \in Nat
      BY <1>2, <2>3
    <3> QED BY <1>2, <1>3, <1>4, <2>1, <3>1, SyncedStep
  <2> QED BY <2>2, <2>3
<1>11. Sessions'
  <2>1. next' \in 1..(Len(remoteSdp) + 1)
    BY <1>1, <1>2, InvFields
  <2> QED BY <1>1, <1>2, <1>7, <1>10, <2>1 DEF Sessions, HasIce
<1>12. Announcing'
  BY <1>1, <1>7 DEF Inv, Announcing, Announced, HasIce
<1>13. Transport'
  BY <1>1, <1>7, AddingTransport
<1> QED BY <1>6, <1>8, <1>9, <1>11, <1>12, <1>13 DEF Inv

LEMMA AddedFromSdpInv ==
  ASSUME Inv, AddedFromSdp
  PROVE  Inv'
<1>1. /\ api \in {"replaying", "adding"} /\ next > Len(remoteSdp) /\ next' = 1 /\ unused' = 0
      /\ api' = IF api = "adding" THEN "idle" ELSE "announcing"
      /\ UNCHANGED <<handle, state, ice, created, announced, remoteSdp, dtls, srtp, loop>>
  BY DEF AddedFromSdp
<1>2. HasIce /\ ice.state \notin {"new", "gathering"} /\ Synced(0, Len(remoteSdp))
  <2>1. next - 1 = Len(remoteSdp)
    BY <1>1, InvFields DEF Inv, Sessions
  <2> QED BY <1>1, <2>1 DEF Inv, Calls, Sessions, Describing
<1>3. TypeOK' /\ SessionInv(ice)'
  BY <1>1, IceAssumption DEF Inv, TypeOK
<1>4. Calls'
  BY <1>1, <1>2 DEF Inv, Calls, HasIce, Describing
<1>5. Synced(0, Len(remoteSdp))' = Synced(0, Len(remoteSdp))
  BY <1>1 DEF Synced
<1>6. Sessions'
  BY <1>1, <1>2, <1>5 DEF Sessions, HasIce
<1>7. Announcing'
  <2>1. api = "replaying" => api' = "announcing" /\ Announced(0) /\ next' \in 1..(Len(ice.local) + 1)
    BY <1>1, InvFields DEF Inv, Announcing
  <2>2. next' - 1 = 0
    BY <1>1
  <2>3. api = "adding" => api' = "idle" /\ Announced(Len(ice.local))
    BY <1>1, <1>2 DEF Inv, Announcing
  <2>4. Announced(0)' = Announced(0) /\ Announced(Len(ice.local))' = Announced(Len(ice.local))
    BY <1>1 DEF Announced
  <2> QED BY <1>1, <2>1, <2>2, <2>3, <2>4 DEF Announcing
<1>8. Transport'
  BY <1>1 DEF Inv, Transport
<1> QED BY <1>3, <1>4, <1>6, <1>7, <1>8 DEF Inv

LEMMA AnnounceLocalInv ==
  ASSUME Inv, AnnounceLocal
  PROVE  Inv'
<1>1. /\ api = "announcing" /\ next <= Len(ice.local)
      /\ announced' = Append(announced, next) /\ next' = next + 1
      /\ UNCHANGED <<handle, state, ice, created, remoteSdp, unused, dtls, srtp, api, loop>>
  BY DEF AnnounceLocal
<1>2. next \in 1..Len(ice.local) /\ Announced(next - 1) /\ next - 1 \in Nat /\ next \in Nat
  BY <1>1, InvFields DEF Inv, Announcing
<1>3. announced' = [i \in 1..next |-> i] /\ announced' \in Seq(Nat)
  <2>1. (next - 1) + 1 = next
    BY <1>2
  <2> QED BY <1>1, <1>2, <2>1, NumbersAppended DEF Announced
<1>4. TypeOK' /\ SessionInv(ice)'
  BY <1>1, <1>2, <1>3 DEF Inv, TypeOK
<1>5. Calls'
  BY <1>1 DEF Inv, Calls, HasIce, Describing
<1>6. Synced(0, Len(remoteSdp))' = Synced(0, Len(remoteSdp))
  BY <1>1 DEF Synced
<1>7. Sessions'
  BY <1>1, <1>6 DEF Inv, Sessions, HasIce
<1>8. Announcing'
  <2>1. next' - 1 = next /\ next' \in 1..(Len(ice.local) + 1)
    BY <1>1, <1>2, InvFields
  <2> QED BY <1>1, <1>3, <2>1 DEF Announcing, Announced
<1>9. Transport'
  BY <1>1 DEF Inv, Transport
<1> QED BY <1>4, <1>5, <1>7, <1>8, <1>9 DEF Inv

LEMMA FinishDescriptionInv ==
  ASSUME Inv, FinishDescription
  PROVE  Inv'
<1>1. /\ api = "announcing" /\ next > Len(ice.local) /\ next' = 1 /\ api' = "idle"
      /\ UNCHANGED <<handle, state, ice, created, announced, remoteSdp, unused, dtls, srtp, loop>>
  BY DEF FinishDescription
<1>2. TypeOK' /\ SessionInv(ice)'
  BY <1>1 DEF Inv, TypeOK
<1>3. Calls'
  BY <1>1 DEF Inv, Calls, HasIce, Describing
<1>4. Synced(0, Len(remoteSdp)) => Synced(unused, Len(remoteSdp))'
  <2>1. unused \in Nat /\ Len(remoteSdp) \in Nat
    BY InvFields, IceAssumption DEF Inv, TypeOK
  <2> QED BY <1>1, <2>1 DEF Synced
<1>5. Sessions'
  BY <1>1, <1>4 DEF Inv, Sessions, HasIce
<1>6. Announcing'
  <2>1. next - 1 = Len(ice.local) /\ Announced(next - 1)
    BY <1>1, InvFields DEF Inv, Announcing
  <2> QED BY <1>1, <2>1 DEF Announcing, Announced
<1>7. Transport'
  BY <1>1 DEF Inv, Transport
<1> QED BY <1>2, <1>3, <1>5, <1>6, <1>7 DEF Inv

LEMMA SetRemoteDescriptionInv ==
  ASSUME Inv, SetRemoteDescription
  PROVE  Inv'
<1>1. /\ handle = "live" /\ api = "idle" /\ loop = "idle" /\ next' = 1 /\ remoteSdp' \in SdpLists
      /\ UNCHANGED <<handle, state, ice, created, announced, dtls, srtp, loop>>
  BY DEF SetRemoteDescription, ApiCall
<1>2. PICK parsed \in BOOLEAN :
        /\ unused' = IF parsed THEN 0 ELSE Len(remoteSdp')
        /\ api' = IF parsed /\ HasIce THEN "adding" ELSE "idle"
  BY DEF SetRemoteDescription
<1>3. remoteSdp' \in Seq(SdpCandidate) /\ Len(remoteSdp') \in Nat /\ Len(remoteSdp') <= MaxCandidates
  <2>1. CASE remoteSdp' = << >>
    BY <2>1, IceAssumption
  <2>2. CASE remoteSdp' \in {<<c>> : c \in SdpCandidate}
    <3>1. PICK c \in SdpCandidate : remoteSdp' = <<c>>
      BY <2>2
    <3>2. <<c>> \in Seq(SdpCandidate) /\ Len(<<c>>) = 1
      OBVIOUS
    <3> QED BY <3>1, <3>2, IceAssumption
  <2> QED BY <1>1, <2>1, <2>2 DEF SdpLists
<1>4. api' \in {"idle", "adding"} /\ (HasIce' <=> HasIce)
      /\ (api' = "adding" => HasIce) /\ (api' = "idle" /\ HasIce => unused' = Len(remoteSdp'))
      /\ unused' \in 0..MaxCandidates
  BY <1>1, <1>2, <1>3, IceAssumption DEF HasIce
<1>5. TypeOK' /\ SessionInv(ice)'
  BY <1>1, <1>3, <1>4, InvFields DEF Inv, TypeOK
<1>6. Calls'
  BY <1>1, <1>4 DEF Inv, Calls, Describing
<1>7. Sessions'
  <2>1. next' \in 1..(Len(remoteSdp') + 1) /\ next' - 1 = 0
    BY <1>1, <1>3
  <2>2. Synced(0, 0)'
    BY DEF Synced
  <2>3. Synced(0, next - 1)'
    BY <2>1, <2>2
  <2>4. api' = "idle" /\ HasIce => Synced(unused, Len(remoteSdp))'
    BY <1>3, <1>4 DEF Synced
  <2> QED BY <1>1, <1>4, <2>1, <2>3, <2>4 DEF Inv, Sessions
<1>8. Announcing'
  BY <1>1, <1>4 DEF Inv, Announcing, Announced
<1>9. Transport'
  BY <1>1, <1>4 DEF Inv, Transport
<1> QED BY <1>5, <1>6, <1>7, <1>8, <1>9 DEF Inv

\* The trickled candidate is in the session, if there is one.
LEMMA AddIceCandidateSynced ==
  ASSUME Inv, HasIce, api = "idle", unused' = unused, NEW c \in SdpCandidate,
         NEW a \in RemoteAddr, NEW udp \in BOOLEAN, c.addr = a, udp,
         remoteSdp' = Append(remoteSdp, c), ice' = AddRemote(ice, a, udp)
  PROVE  Synced(unused, Len(remoteSdp))'
<1>1. Synced(unused, Len(remoteSdp)) /\ unused \in Nat /\ Len(remoteSdp) \in 0..Len(remoteSdp)
  BY InvFields, IceAssumption DEF Inv, Sessions, TypeOK
<1>2. ice'.remote = IF AddRemoteFails(ice) \/ ~udp THEN ice.remote ELSE Append(ice.remote, a)
  BY InvFields, AddRemoteKeeps
<1>3. ice'.remote = IF Len(ice.remote) >= MaxCandidates THEN ice.remote ELSE Append(ice.remote, a)
  BY <1>2 DEF AddRemoteFails
<1> DEFINE n == Len(remoteSdp)
<1>4. /\ n \in Nat /\ Len(remoteSdp') = n + 1 /\ remoteSdp'[n + 1] = c
      /\ \A i \in 1..n : remoteSdp'[i] = remoteSdp[i]
  BY InvFields, AppendProperties
<1> SUFFICES ASSUME Len(ice'.remote) < MaxCandidates, NEW i \in 1..Len(remoteSdp'), i > unused,
                    remoteSdp'[i].udp
             PROVE  \E j \in 1..Len(ice'.remote) : ice'.remote[j] = remoteSdp'[i].addr
  BY DEF Synced
<1>5. CASE i = n + 1
  <2> DEFINE t == ice'.remote
             q == ice.remote
  <2>1. /\ t = IF Len(q) >= MaxCandidates THEN q ELSE Append(q, a)
        /\ Len(t) < MaxCandidates
    BY <1>3
  <2>2. q \in Seq(RemoteAddr) /\ a \in RemoteAddr
    BY InvFields
  <2> HIDE DEF t, q
  <2>3. \E j \in 1..Len(t) : t[j] = a
    BY ONLY <2>1, <2>2, AddedIsKnown
  <2> QED BY <1>4, <1>5, <2>3 DEF t
<1>6. CASE i # n + 1
  <2>1. i \in 1..n /\ remoteSdp'[i] = remoteSdp[i] /\ n \in 0..n
    BY <1>4, <1>6
  <2>2. remoteSdp[i].udp /\ i \in 1..Len(remoteSdp)
    BY <2>1
  <2>3. \E j \in 1..Len(ice'.remote) : ice'.remote[j] = remoteSdp[i].addr
    BY <1>1, <2>2, SyncedStep
  <2> QED BY <2>1, <2>3
<1> QED BY <1>5, <1>6

LEMMA AddIceCandidateInv ==
  ASSUME Inv, AddIceCandidate
  PROVE  Inv'
<1>1. /\ handle = "live" /\ api = "idle" /\ loop = "idle" /\ Len(remoteSdp) < MaxCandidates
      /\ UNCHANGED <<handle, state, created, announced, unused, dtls, srtp, api, next, loop>>
  BY DEF AddIceCandidate, ApiCall, Accepts
<1>2. PICK a \in RemoteAddr :
        /\ remoteSdp' = Append(remoteSdp, [addr |-> a, udp |-> TRUE])
        /\ ice' = IF HasIce THEN AddRemote(ice, a, TRUE) ELSE ice
  BY DEF AddIceCandidate
<1> DEFINE c == [addr |-> a, udp |-> TRUE]
<1>3. remoteSdp' \in Seq(SdpCandidate) /\ Len(remoteSdp') <= MaxCandidates
  <2>1. c \in SdpCandidate /\ remoteSdp' = Append(remoteSdp, c)
    BY <1>2 DEF SdpCandidate
  <2> HIDE DEF c
  <2>2. remoteSdp' \in Seq(SdpCandidate) /\ Len(remoteSdp') = Len(remoteSdp) + 1
    BY <2>1, InvFields, AppendProperties
  <2> QED BY <1>1, <2>2, InvFields, IceAssumption
<1>4. HasIce => ice.state \notin {"new", "gathering"}
  BY <1>1 DEF Inv, Sessions
<1>5. /\ SessionInv(ice') /\ ice'.state = ice.state /\ ice'.socket = ice.socket
      /\ ice'.selected = ice.selected /\ ice'.local = ice.local
      /\ ~HasIce => ice' = ice
  <2>1. CASE HasIce
    <3>1. PICK udp \in BOOLEAN : ice' = AddRemote(ice, a, udp)
      BY <1>2, <2>1
    <3> QED BY <1>4, <2>1, <3>1, InvFields, AddRemoteOK, AddRemoteKeeps
  <2>2. CASE ~HasIce
    BY <1>2, <2>2, InvFields
  <2> QED BY <2>1, <2>2
<1>6. TypeOK'
  BY <1>1, <1>3, <1>5, InvFields DEF Inv, TypeOK, SessionInv
<1>7. Calls'
  BY <1>1, <1>5 DEF Inv, Calls, HasIce
<1>8. HasIce => Synced(unused, Len(remoteSdp))'
  <2> SUFFICES ASSUME HasIce
               PROVE  Synced(unused, Len(remoteSdp))'
    OBVIOUS
  <2>1. PICK udp \in BOOLEAN : udp /\ ice' = AddRemote(ice, a, udp)
    BY <1>2
  <2>2. c \in SdpCandidate /\ c.addr = a /\ remoteSdp' = Append(remoteSdp, c)
    BY <1>2 DEF SdpCandidate
  <2> HIDE DEF c
  <2> QED BY <1>1, <2>1, <2>2, AddIceCandidateSynced
<1>9. Sessions'
  BY <1>1, <1>5, <1>8 DEF Inv, Sessions, HasIce
<1>10. Announcing'
  BY <1>1, <1>5 DEF Inv, Announcing, Announced, HasIce
<1>11. Transport'
  BY <1>1, <1>5, AddingTransport
<1> QED BY <1>5, <1>6, <1>7, <1>9, <1>10, <1>11 DEF Inv

LEMMA CloseInv ==
  ASSUME Inv, Close
  PROVE  Inv'
<1>1. /\ handle = "live" /\ api = "idle" /\ state' = "closed"
      /\ UNCHANGED <<handle, ice, created, announced, remoteSdp, unused, dtls, srtp, api, next, loop>>
  BY DEF Close, ApiCall
<1>2. TypeOK' /\ SessionInv(ice)'
  BY <1>1 DEF Inv, TypeOK
<1>3. Calls'
  BY <1>1 DEF Inv, Calls, HasIce, Describing
<1>4. Sessions' /\ Announcing'
  BY <1>1 DEF Inv, Sessions, Announcing, Announced, Synced, HasIce
<1>5. Transport'
  BY <1>1 DEF Inv, Transport
<1> QED BY <1>2, <1>3, <1>4, <1>5 DEF Inv

\* What is blank is sound, wherever the connection is in its life.
LEMMA BlankInv ==
  ASSUME Inv, Blank, loop = "idle", api = "idle", handle' \in {"gone", "live"}
  PROVE  Inv'
<1>1. /\ state' = "new" /\ ice' = NewSession /\ created' = 0 /\ announced' = << >>
      /\ remoteSdp' = << >> /\ dtls' = [phase |-> "off", ice |-> "none"] /\ next' = 1
      /\ loop' = "idle" /\ api' = "idle"
  BY DEF Blank
<1>2. unused' \in 0..MaxCandidates
  <2>1. unused' = 0
    BY DEF Blank
  <2> QED BY <2>1, IceAssumption
<1>3. srtp' = FALSE /\ srtp' \in BOOLEAN
  BY DEF Blank
<1>4. SessionInv(ice') /\ SessionTyped(ice')
  BY <1>1, NewSessionOK DEF SessionInv
<1>5. /\ remoteSdp' \in Seq(SdpCandidate) /\ Len(remoteSdp') <= MaxCandidates
      /\ announced' \in Seq(Nat) /\ created' \in 0..MaxSessions
  BY <1>1, IceAssumption, PeerAssumption
<1>6. TypeOK'
  BY <1>1, <1>2, <1>3, <1>4, <1>5 DEF TypeOK, Dtls
<1>7. Calls'
  BY <1>1, <1>3 DEF Calls, Describing
<1>8. Sessions' /\ Announcing' /\ Transport'
  BY <1>1 DEF Sessions, Announcing, Transport, HasIce, NewSession
<1> QED BY <1>4, <1>6, <1>7, <1>8 DEF Inv

LEMMA DestroyInv ==
  ASSUME Inv, Destroy
  PROVE  Inv'
BY BlankInv DEF Destroy, ApiCall

LEMMA CreateInv ==
  ASSUME Inv, Create
  PROVE  Inv'
<1>1. loop = "idle" /\ handle = "gone" /\ ~HasIce
  BY DEF Create, Inv, Calls, TypeOK, HasIce
<1>2. api = "idle"
  BY <1>1 DEF Inv, Calls, TypeOK, Describing
<1> QED BY <1>1, <1>2, BlankInv DEF Create

-----------------------------------------------------------------------------
\* Every step keeps Inv: the loop.

\* A turn of the loop meets a live connection between two calls.
LEMMA TurnIsLive ==
  ASSUME Inv, LoopTurn
  PROVE  /\ handle = "live" /\ HasIce /\ ice.socket /\ api = "idle" /\ loop = "idle"
         /\ ice.state \notin {"new", "gathering"} /\ Announced(Len(ice.local))
BY DEF Inv, Calls, Sessions, Announcing, LoopTurn

\* What a received packet may change: pairs, and a local candidate with its
\* announcement.
LEMMA ReceivedInv ==
  ASSUME Inv, LoopTurn, loop' = "received",
         SessionInv(ice'), ice'.state = ice.state, ice'.socket = ice.socket,
         ice'.selected = ice.selected, ice'.remote = ice.remote,
         announced' \in Seq(Nat), Announced(Len(ice.local))',
         dtls' \in Dtls, dtls'.ice = dtls.ice,
         dtls'.phase \in {"off", "init"} <=> dtls.phase \in {"off", "init"},
         dtls'.phase = "off" <=> dtls.phase = "off",
         UNCHANGED <<handle, state, created, remoteSdp, unused, srtp, api, next>>
  PROVE  Inv'
<1>1. /\ handle = "live" /\ HasIce /\ ice.socket /\ api = "idle"
      /\ ice.state \notin {"new", "gathering"}
  BY TurnIsLive
<1>2. TypeOK'
  BY <1>1 DEF Inv, TypeOK, SessionInv
<1>3. Calls'
  BY <1>1 DEF Inv, Calls, HasIce, Describing
<1>4. Sessions'
  BY <1>1 DEF Inv, Sessions, Synced, HasIce
<1>5. Announcing'
  BY <1>1 DEF Announcing
<1>6. Transport'
  BY DEF Inv, Transport
<1> QED BY <1>2, <1>3, <1>4, <1>5, <1>6 DEF Inv

LEMMA NoPacketInv ==
  ASSUME Inv, NoPacket
  PROVE  Inv'
<1>1. /\ LoopTurn /\ loop' = "received"
      /\ UNCHANGED <<handle, state, ice, created, announced, remoteSdp, unused, dtls, srtp, api, next>>
  BY DEF NoPacket
<1>2. SessionInv(ice) /\ announced \in Seq(Nat) /\ dtls \in Dtls
  BY DEF Inv, TypeOK
<1>3. Announced(Len(ice.local))'
  BY <1>1, TurnIsLive DEF Announced
<1> QED BY <1>1, <1>2, <1>3, ReceivedInv

LEMMA ReceiveRequestInv ==
  ASSUME Inv, ReceiveRequest
  PROVE  Inv'
<1>1. PICK src \in Senders : ice' = OnRequest(ice, src)
  BY DEF ReceiveRequest
<1>2. /\ LoopTurn /\ loop' = "received"
      /\ UNCHANGED <<handle, state, created, announced, remoteSdp, unused, dtls, srtp, api, next>>
  BY DEF ReceiveRequest
<1>3. /\ SessionInv(ice') /\ ice'.state = ice.state /\ ice'.socket = ice.socket
      /\ ice'.selected = ice.selected /\ ice'.remote = ice.remote /\ ice'.local = ice.local
  BY <1>1, InvFields, OnRequestOK, OnRequestKeeps DEF SameButPairs
<1>4. announced \in Seq(Nat) /\ dtls \in Dtls
  BY DEF Inv, TypeOK
<1>5. Announced(Len(ice.local))'
  BY <1>2, <1>3, TurnIsLive DEF Announced
<1> QED BY <1>2, <1>3, <1>4, <1>5, ReceivedInv

LEMMA ReceiveResponseInv ==
  ASSUME Inv, ReceiveResponse
  PROVE  Inv'
<1>1. PICK txid \in Outstanding(ice), mapped \in {{m} : m \in LocalAddr} \cup {{}} :
        /\ ice' = OnResponse(ice, txid, mapped)
        /\ announced' = AnnouncedWith(OnResponse(ice, txid, mapped))
  BY DEF ReceiveResponse
<1>2. /\ LoopTurn /\ loop' = "received"
      /\ UNCHANGED <<handle, state, created, remoteSdp, unused, dtls, srtp, api, next>>
  BY DEF ReceiveResponse
<1>3. mapped \in SUBSET LocalAddr
  OBVIOUS
<1>4. /\ SessionInv(ice') /\ ice'.state = ice.state /\ ice'.socket = ice.socket
      /\ ice'.selected = ice.selected /\ ice'.remote = ice.remote
      /\ Len(ice'.local) \in {Len(ice.local), Len(ice.local) + 1}
  BY <1>1, <1>3, InvFields, OnResponseOK, OnResponseKeeps
<1>5. announced' = IF Len(ice'.local) > Len(ice.local) THEN Append(announced, Len(ice'.local))
                   ELSE announced
  BY <1>1 DEF AnnouncedWith
<1> DEFINE n == Len(ice.local)
           m == Len(ice'.local)
<1>6. n \in Nat /\ announced = [i \in 1..n |-> i]
  BY <1>2, InvFields, TurnIsLive DEF Announced
<1>7. /\ m \in {n, n + 1}
      /\ announced' = IF m > n THEN Append(announced, m) ELSE announced
  BY <1>4, <1>5
<1>8. Announced(Len(ice.local))' <=> announced' = [i \in 1..m |-> i]
  BY DEF Announced
<1> HIDE DEF n, m
<1>9. announced' = [i \in 1..m |-> i] /\ announced' \in Seq(Nat)
  <2>1. CASE m = n
    <3>1. announced' = announced
      BY <1>6, <1>7, <2>1
    <3> QED BY <1>6, <2>1, <3>1, NumbersAppended
  <2>2. CASE m = n + 1
    <3>1. announced' = Append(announced, n + 1) /\ n + 1 \in Nat
      BY <1>6, <1>7, <2>2
    <3> QED BY <1>6, <2>2, <3>1, NumbersAppended
  <2> QED BY <1>7, <2>1, <2>2
<1>10. dtls \in Dtls
  BY DEF Inv, TypeOK
<1> QED BY <1>2, <1>4, <1>8, <1>9, <1>10, ReceivedInv

LEMMA ReceiveDatagramInv ==
  ASSUME Inv, ReceiveDatagram
  PROVE  Inv'
<1>1. /\ LoopTurn /\ loop' = "received" /\ dtls.phase # "off" /\ IceIsConnected(ice)
      /\ UNCHANGED <<handle, state, ice, created, announced, remoteSdp, unused, srtp, api, next>>
  BY DEF ReceiveDatagram, GoesToDtls
<1>2. dtls \in Dtls /\ announced \in Seq(Nat)
  BY DEF Inv, TypeOK
<1>3. dtls.ice = "current" /\ dtls.phase \notin {"off", "init"}
  BY <1>1, InvFields, ConnectedIsSelected, TurnIsLive DEF Inv, Transport
<1>4. \E p \in {"fed", "done"} : dtls' = [dtls EXCEPT !.phase = p]
  BY <1>3 DEF ReceiveDatagram
<1>5. dtls' \in Dtls /\ dtls'.ice = dtls.ice /\ dtls'.phase \in {"fed", "done"}
  BY <1>2, <1>4 DEF Dtls
<1>6. SessionInv(ice) /\ Announced(Len(ice.local))'
  BY <1>1, InvFields, TurnIsLive DEF Announced
<1> QED BY <1>1, <1>2, <1>3, <1>5, <1>6, ReceivedInv

\* The outcomes of dtls_start.
LEMMA DtlsStartedOK ==
  ASSUME dtls \in Dtls, dtls.phase = "off" => dtls.ice = "none", NEW d \in DtlsStarted
  PROVE  /\ d \in Dtls
         /\ d.ice = "current" => d.phase \notin {"off", "init"}
         /\ d.phase # "off" => d.ice = "current"
         /\ d = dtls \/ d.ice = "current"
BY DEF DtlsStarted, Dtls

LEMMA AdvanceInv ==
  ASSUME Inv, Advance
  PROVE  Inv'
<1> DEFINE connected == IceIsConnected(Checked)
           starts == connected /\ state # "connected"
<1>1. /\ loop = "received" /\ ice' = Checked /\ loop' = "idle"
      /\ state' = IF starts THEN "connected" ELSE state
      /\ UNCHANGED <<handle, created, announced, remoteSdp, unused, api, next>>
  BY DEF Advance
<1>2. PICK d \in IF starts THEN DtlsStarted ELSE {dtls} :
        dtls' \in {d} \cup (IF connected /\ ~srtp /\ d.phase = "fed"
                             THEN {[d EXCEPT !.phase = "done"]} ELSE {})
  BY DEF Advance
<1>3. srtp' \in BOOLEAN
  BY DEF Advance, Inv, TypeOK
<1>4. /\ api = "idle" /\ handle = "live" /\ HasIce /\ ice.socket
      /\ ice.state \notin {"new", "gathering"}
  BY <1>1 DEF Inv, Calls, Sessions
<1>5. /\ SessionInv(ice') /\ ice'.socket = ice.socket /\ ice'.remote = ice.remote
      /\ Len(ice'.local) = Len(ice.local)
      /\ ice.selected # 0 => ice'.selected = ice.selected
      /\ ice'.state \notin {"new", "gathering"}
  <2> DEFINE at == [i \in DOMAIN ice.pairs |-> i]
  <2>1. \A i \in DOMAIN ice.pairs : at[i] \in Nat
    BY InvFields
  <2>2. ice' = CheckConnectivity(ice, 1, at)
    BY <1>1 DEF Checked
  <2> HIDE DEF at
  <2> QED BY <1>4, <2>1, <2>2, InvFields, CheckConnectivityKeeps
<1>6. connected <=> ice'.selected # 0
  BY <1>1, <1>5, ConnectedIsSelected
<1>7. dtls \in Dtls
  BY DEF Inv, TypeOK
<1>8. /\ d \in Dtls
      /\ d.phase \in {"off", "init"} => d.ice = "none"
      /\ d.phase \notin {"off", "init"} => d.ice # "none"
      /\ d.ice = "current" => ice'.socket /\ ice'.selected # 0
      /\ ice'.selected # 0 /\ d.phase # "off" => d.ice = "current"
  <2>1. CASE starts
    <3>1. d \in DtlsStarted
      BY <1>2, <2>1
    <3>2. /\ d \in Dtls
          /\ d.ice = "current" => d.phase \notin {"off", "init"}
          /\ d.phase # "off" => d.ice = "current"
          /\ d = dtls \/ d.ice = "current"
      BY <1>7, <3>1, DtlsStartedOK DEF Inv, Transport
    <3> QED BY <1>4, <1>5, <1>6, <2>1, <3>2 DEF Inv, Transport
  <2>2. CASE ~starts
    <3>1. d = dtls
      BY <1>2, <2>2
    <3>2. ice'.selected # 0 => ice.selected # 0
      BY <1>5, <1>6, <2>2 DEF Inv, Transport
    <3> QED BY <1>4, <1>5, <1>7, <3>1, <3>2 DEF Inv, Transport
  <2> QED BY <2>1, <2>2
<1>9. /\ dtls' \in Dtls /\ dtls'.ice = d.ice
      /\ dtls'.phase = d.phase \/ (d.phase = "fed" /\ dtls'.phase = "done")
  BY <1>2, <1>8 DEF Dtls
<1>10. state' \in {state, "connected"} /\ (state' = "connected" => ice'.selected # 0)
  BY <1>1, <1>5, <1>6 DEF Inv, Transport
<1> HIDE DEF connected, starts
<1>11. TypeOK'
  BY <1>1, <1>3, <1>5, <1>9, <1>10 DEF Inv, TypeOK, SessionInv
<1>12. Calls'
  BY <1>1, <1>4, <1>5, <1>10 DEF Inv, Calls, HasIce, Describing
<1>13. Sessions'
  BY <1>1, <1>4, <1>5 DEF Inv, Sessions, Synced, HasIce
<1>14. Announcing'
  BY <1>1, <1>4, <1>5 DEF Inv, Announcing, Announced
<1>15. Transport'
  <2>1. state' = "connected" => ice'.selected # 0
    BY <1>10
  <2>2. /\ dtls'.phase \in {"off", "init"} => dtls'.ice = "none"
        /\ dtls'.phase \notin {"off", "init"} => dtls'.ice # "none"
        /\ dtls'.ice = "current" => ice'.socket /\ ice'.selected # 0
        /\ ice'.selected # 0 /\ dtls'.phase # "off" => dtls'.ice = "current"
    BY <1>8, <1>9
  <2> QED BY <2>1, <2>2 DEF Transport
<1> QED BY <1>5, <1>11, <1>12, <1>13, <1>14, <1>15 DEF Inv

LEMMA StutterInv ==
  ASSUME Inv, UNCHANGED vars
  PROVE  Inv'
<1>1. UNCHANGED <<handle, state, ice, created, announced, remoteSdp, unused, dtls, srtp, api, next, loop>>
  BY DEF vars
<1>2. TypeOK' /\ SessionInv(ice)'
  BY <1>1 DEF Inv, TypeOK
<1>3. Calls' /\ Transport'
  BY <1>1 DEF Inv, Calls, Transport, HasIce
<1>4. Sessions' /\ Announcing'
  BY <1>1 DEF Inv, Sessions, Announcing, Synced, Announced, HasIce
<1> QED BY <1>2, <1>3, <1>4 DEF Inv

LEMMA NextInv == Inv /\ [Next]_vars => Inv'
<1> SUFFICES ASSUME Inv, [Next]_vars PROVE Inv'
  OBVIOUS
<1>1. CASE ApiNext
  BY <1>1, BeginDescriptionInv, CreateSessionInv, GatherInv, AddFromSdpInv, AddedFromSdpInv,
     AnnounceLocalInv, FinishDescriptionInv, SetRemoteDescriptionInv, AddIceCandidateInv,
     CloseInv, DestroyInv, CreateInv DEF ApiNext
<1>2. CASE LoopNext
  BY <1>2, NoPacketInv, ReceiveRequestInv, ReceiveResponseInv, ReceiveDatagramInv, AdvanceInv
     DEF LoopNext
<1>3. CASE UNCHANGED vars
  BY <1>3, StutterInv
<1> QED BY <1>1, <1>2, <1>3 DEF Next

LEMMA Invariance == Spec => []Inv
BY InitInv, NextInv, PTL DEF Spec

-----------------------------------------------------------------------------
\* Whatever the calls and the packets, every variable keeps its type: no list
\* of candidates outgrows its array (ice.c:121, 321, 442, sdp_parser.c:282, 518).
THEOREM TypeCorrect == Spec => []TypeOK
<1>1. Inv => TypeOK
  BY DEF Inv
<1> QED BY Invariance, <1>1, PTL

\* The session of the latest description has complete pairs and a selection
\* that succeeded, however the calls and the packets are ordered
\* (peer_connection.c:375-751, tinyrtc.c:219-306).
THEOREM SessionIsSound == Spec => []SessionSound
<1>1. Inv => SessionSound
  BY DEF Inv, SessionSound
<1> QED BY Invariance, <1>1, PTL

\* TINYRTC_PC_STATE_CONNECTED (tinyrtc.c:272) is about the present session,
\* and the handshake goes through it.
THEOREM ConnectedIsCurrent == Spec => []ConnectedMeansIce
<1>1. Inv => ConnectedMeansIce
  <2> SUFFICES ASSUME Inv, state = "connected"
               PROVE  HasIce /\ IceIsConnected(ice) /\ (dtls.phase # "off" => dtls.ice = "current")
    BY DEF ConnectedMeansIce
  <2>1. ice.selected # 0 /\ api # "described"
    BY DEF Inv, Transport, Calls, Describing
  <2>2. IceIsConnected(ice)
    BY <2>1, InvFields, ConnectedIsSelected
  <2>3. HasIce
    BY <2>1 DEF Inv, Sessions, NewSession
  <2>4. dtls.phase # "off" => dtls.ice = "current"
    BY <2>1 DEF Inv, Transport
  <2> QED BY <2>2, <2>3, <2>4
<1> QED BY Invariance, <1>1, PTL

\* The handshake that is given a datagram (tinyrtc.c:250) has the socket and
\* the remote address of the present session to answer with (dtls.c:78).
THEOREM HandshakeCanAnswer == Spec => []HandshakeHasTransport
<1>1. Inv => HandshakeHasTransport
  <2> SUFFICES ASSUME Inv PROVE HandshakeHasTransport
    OBVIOUS
  <2>1. dtls.phase \in {"started", "fed", "done"} =>
          dtls.ice # "none" /\ (dtls.ice = "current" => ice.socket /\ ice.selected # 0)
    BY DEF Inv, Transport
  <2>2. LoopTurn /\ GoesToDtls => dtls.ice = "current"
    BY InvFields, ConnectedIsSelected, TurnIsLive DEF Inv, Transport, GoesToDtls
  <2> QED BY <2>1, <2>2 DEF HandshakeHasTransport
<1> QED BY Invariance, <1>1, PTL

\* Trickled before or after the description, one that parsed or not, the
\* candidates of the peer are in the session (peer_connection.c:442, 566, 661,
\* 733).
THEOREM SessionKnowsRemote == Spec => []RemoteSynced
<1>1. Inv => RemoteSynced
  BY InvFields DEF Inv, Sessions, Synced, RemoteSynced
<1> QED BY Invariance, <1>1, PTL

\* on_ice_candidate has had every local candidate once and in order
\* (peer_connection.c:453, 672, ice.c:458).
THEOREM EachAnnouncedOnce == Spec => []AnnouncedOnce
<1>1. Inv => AnnouncedOnce
  BY InvFields DEF Inv, Announcing, Announced, AnnouncedOnce
<1> QED BY Invariance, <1>1, PTL
=============================================================================
