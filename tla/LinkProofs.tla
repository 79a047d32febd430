------------------------------ MODULE LinkProofs ------------------------------
(***************************************************************************)
(* Proofs about the two components between the media and the socket.       *)
(*                                                                         *)
(* DtlsLink: types, the order of the two handshakes and that media is only *)
(* decrypted with the keys it was encrypted with, whatever the network     *)
(* does and whatever fails.  The inductive invariant Inv says where either *)
(* side is in the handshake, and what a datagram on its way tells of the   *)
(* side that sent it.  A pass of the event loop has four parts (a          *)
(* datagram, ICE connecting, the timer, the keys): each keeps Good, what a *)
(* pass has come to so far.                                                *)
(*                                                                         *)
(* CongestionControl: the bounds of the rates and of the pacing, for every *)
(* configuration, every word size, every round trip time and every size of *)
(* packet.  Its inductive invariant is CcInv.                              *)
(***************************************************************************)
EXTENDS DtlsLink, CongestionControl, TLAPS

\* Where a side can be between two passes.
Phases(e) ==
  IF Role(e) = "client" THEN {"none", "idle", "hello", "cookie", "finished", "over"}
                        ELSE {"none", "idle", "waiting", "server", "over"}

\* A connection by itself: its type, and keys only after the handshake.
Sound(e, p) ==
  /\ p \in Peer
  /\ (p.send = "none") = (p.recv = "none")
  /\ p.dtls \in Phases(e)
  /\ ~p.connected => p.dtls \in {"none", "idle"}
  /\ p.connected => p.dtls # "idle"
  /\ Keyed(p) => p.dtls = "over" /\ p.send = SrtpKeys(e).send /\ p.recv = SrtpKeys(e).recv

FarEnough(role) == IF role = "server" THEN {"over"} ELSE {"finished", "over"}

\* A side that is through has a peer that is far enough.
Ordered(e, phase) ==
  phase = "over" => \A o \in Endpoint \ {e} : peer[o].dtls \in FarEnough(Role(o))

\* The last flights of either side and media tell how far it is.
Telling(d) ==
  /\ d.what \in {"finished", "last"} =>
       \A o \in Endpoint \ {d.to} :
         /\ d.what = "finished" => Role(o) = "client" /\ peer[o].dtls \in {"finished", "over"}
         /\ d.what = "last" => Role(o) = "server" /\ peer[o].dtls = "over"
  /\ d.what = "media" => d.key = SrtpKeys(d.to).recv

Inv ==
  /\ \A e \in Endpoint : Sound(e, peer[e]) /\ Ordered(e, peer[e].dtls)
  /\ DOMAIN peer = Endpoint /\ peer = [e \in Endpoint |-> peer[e]]
  /\ net \subseteq Datagram
  /\ \A d \in net : Telling(d)
  /\ lastLost \in BOOLEAN
  /\ played \subseteq [recv : Keys, sent : Keys]
  /\ KeysMatch

\* What a pass over e has come to: the connection, and the flights sent.
Good(e, p, out) ==
  /\ Sound(e, p)
  /\ Ordered(e, p.dtls)
  /\ out \subseteq Flights \ {"media"}
  /\ "finished" \in out => Role(e) = "client" /\ p.dtls \in {"finished", "over"}
  /\ "last" \in out => Role(e) = "server" /\ p.dtls = "over"
  /\ peer[e].dtls \in {"finished", "over"} => p.dtls \in {peer[e].dtls, "over"}

LEMMA Roles ==
  /\ \A e \in Endpoint : Role(e) \in {"client", "server"}
  /\ \A e, o \in Endpoint : e # o => Role(e) # Role(o) /\ SrtpKeys(e).send = SrtpKeys(o).recv
  /\ \A e \in Endpoint : SrtpKeys(e).send \in {"client", "server"} /\ SrtpKeys(e).recv \in {"client", "server"}
  BY LinkAssumption DEF Role, SrtpKeys

LEMMA GoodAtFirst ==
  ASSUME Inv, NEW e \in Endpoint
  PROVE  Good(e, peer[e], {})
  BY DEF Inv, Good

\* A flight takes either side one step further in its handshake.
LEMMA Advances ==
  ASSUME NEW e \in Endpoint, NEW phase \in Phases(e), NEW flight \in Flights,
         phase \notin {"none", "idle"}
  PROVE  LET r == ProcessData(Role(e), phase, flight)
         IN  /\ r.phase \in Phases(e) \ {"none", "idle"}
             /\ r.out \subseteq Flights \ {"media"}
             /\ "finished" \in r.out => Role(e) = "client" /\ r.phase \in {"finished", "over"}
             /\ "last" \in r.out => Role(e) = "server" /\ r.phase = "over"
             /\ phase \in {"finished", "over"} => r.phase \in {phase, "over"}
             /\ r.phase = "over" /\ phase # "over" =>
                  flight = (IF Role(e) = "client" THEN "last" ELSE "finished")
<1>1. CASE Role(e) = "client"
  <2>1. phase \in {"hello", "cookie", "finished", "over"}
    BY <1>1 DEF Phases
  <2>2. DEFINE r == ClientHandshake(phase, flight)
  <2>3. /\ r.phase \in {"hello", "cookie", "finished", "over"}
        /\ r.out \subseteq {"cookie", "finished"}
        /\ "finished" \in r.out => r.phase = "finished"
        /\ phase \in {"finished", "over"} => r.phase \in {phase, "over"}
        /\ r.phase = "over" /\ phase # "over" => flight = "last"
    BY <2>1 DEF ClientHandshake, Waits
  <2>4. ProcessData(Role(e), phase, flight) = r
    BY <1>1, <2>3 DEF ProcessData, Handshake, Recovered
  <2> QED BY <1>1, <2>3, <2>4 DEF Phases, Flights
<1>2. CASE Role(e) = "server"
  <2>1. phase \in {"waiting", "server", "over"}
    BY <1>2 DEF Phases
  <2>2. DEFINE Answer(p) == ServerHandshake(p, flight)
  <2>3. \A p \in {"waiting", "server", "over"} :
          /\ Answer(p).phase \in {"waiting", "verify", "server", "over"}
          /\ Answer(p).out \subseteq {"verify", "server", "last"}
          /\ "last" \in Answer(p).out => Answer(p).phase = "over"
          /\ p = "over" => Answer(p) = [phase |-> "over", out |-> {}]
          /\ Answer(p).phase = "over" /\ p # "over" => p = "server" /\ flight = "finished"
          /\ Answer(p).phase = "verify" => p = "waiting" /\ flight = "hello" /\ Answer(p).out = {"verify"}
          /\ DOMAIN Answer(p) = {"phase", "out"}
          /\ Answer(p) = [phase |-> Answer(p).phase, out |-> Answer(p).out]
    BY DEF ServerHandshake, Waits
  <2>4. CASE Answer(phase).phase = "verify"
    <3>1. phase = "waiting" /\ Answer("waiting") = [phase |-> "verify", out |-> {"verify"}]
      BY <2>1, <2>3, <2>4
    <3>2. Handshake(Role(e), "waiting", flight) = [phase |-> "verify", out |-> {"verify"}]
      BY <1>2, <3>1 DEF Handshake
    <3>3. Recovered([phase |-> "verify", out |-> {"verify"}]) = [phase |-> "waiting", out |-> {"verify"}]
      BY DEF Recovered
    <3>4. ProcessData(Role(e), phase, flight) =
            Recovered([[phase |-> "verify", out |-> {"verify"}] EXCEPT !.out = @ \cup {"verify"}])
      BY <3>1, <3>2, <3>3 DEF ProcessData
    <3>5. [[phase |-> "verify", out |-> {"verify"}] EXCEPT !.out = @ \cup {"verify"}]
            = [phase |-> "verify", out |-> {"verify"}]
      OBVIOUS
    <3>6. ProcessData(Role(e), phase, flight) = [phase |-> "waiting", out |-> {"verify"}]
      BY <3>3, <3>4, <3>5
    <3> QED BY <1>2, <3>1, <3>6 DEF Phases, Flights
  <2>5. CASE Answer(phase).phase # "verify"
    <3>1. ProcessData(Role(e), phase, flight) = Answer(phase)
      BY <1>2, <2>5 DEF ProcessData, Handshake, Recovered
    <3> QED BY <1>2, <2>1, <2>3, <2>5, <3>1 DEF Phases, Flights
  <2> QED BY <2>4, <2>5
<1> QED BY <1>1, <1>2, Roles

-----------------------------------------------------------------------------
\* The four parts of a pass.

LEMMA GoodReceived ==
  ASSUME Inv, NEW e \in Endpoint, NEW d \in net, d.to = e
  PROVE  Good(e, Received(e, d).p, Received(e, d).out)
<1>1. CASE ~ToDtls(peer[e])
  BY <1>1, GoodAtFirst DEF Received
<1>2. CASE ToDtls(peer[e])
  <2> DEFINE p == peer[e]
             r == ProcessData(Role(e), p.dtls, d.what)
             q == [p EXCEPT !.dtls = r.phase]
  <2>1. /\ Sound(e, p) /\ Ordered(e, p.dtls)
        /\ p.dtls \in Phases(e) /\ p.dtls \notin {"none", "idle"}
        /\ ~Keyed(p) /\ p.connected
    BY <1>2 DEF Inv, Sound, ToDtls
  <2>2. d.what \in Flights /\ Telling(d)
    BY DEF Inv, Datagram
  <2>3. /\ r.phase \in Phases(e) \ {"none", "idle"}
        /\ r.out \subseteq Flights \ {"media"}
        /\ "finished" \in r.out => Role(e) = "client" /\ r.phase \in {"finished", "over"}
        /\ "last" \in r.out => Role(e) = "server" /\ r.phase = "over"
        /\ p.dtls \in {"finished", "over"} => r.phase \in {p.dtls, "over"}
        /\ r.phase = "over" /\ p.dtls # "over" =>
             d.what = (IF Role(e) = "client" THEN "last" ELSE "finished")
    BY <2>1, <2>2, Advances
  <2>4. Ordered(e, r.phase)
    <3>1. SUFFICES ASSUME r.phase = "over", p.dtls # "over", NEW o \in Endpoint \ {e}
                   PROVE  peer[o].dtls \in FarEnough(Role(o))
      BY <2>1 DEF Ordered
    <3>2. CASE Role(e) = "client"
      <4>1. d.what = "last"
        BY <2>3, <3>1, <3>2
      <4> QED BY <2>2, <4>1 DEF Telling, FarEnough
    <3>3. CASE Role(e) # "client"
      <4>1. d.what = "finished"
        BY <2>3, <3>1, <3>3
      <4> QED BY <2>2, <4>1 DEF Telling, FarEnough
    <3> QED BY <3>2, <3>3
  <2>5. /\ q \in Peer /\ q.dtls = r.phase /\ q.connected
        /\ q.send = p.send /\ q.recv = p.recv
    BY <2>1, <2>3 DEF Sound, Peer, Phase, Phases
  <2>6. Sound(e, q)
    BY <2>1, <2>3, <2>5 DEF Sound, Keyed
  <2>7. Received(e, d) = [p |-> q, out |-> r.out]
    BY <1>2 DEF Received
  <2> HIDE DEF r, q
  <2>8. Good(e, q, r.out)
    <3>1. peer[e].dtls \in {"finished", "over"} => q.dtls \in {peer[e].dtls, "over"}
      BY <2>3, <2>5
    <3> QED BY <2>3, <2>4, <2>5, <2>6, <3>1 DEF Good
  <2> QED BY <2>7, <2>8
<1> QED BY <1>1, <1>2

LEMMA GoodConnected ==
  ASSUME NEW e \in Endpoint, NEW p, NEW out, Good(e, p, out), ~p.connected, NEW inits \in BOOLEAN
  PROVE  Good(e, Connected(e, p, inits).p, out \cup Connected(e, p, inits).out)
<1>1. /\ Sound(e, p) /\ p.dtls \in {"none", "idle"} /\ p \in Peer /\ ~Keyed(p)
      /\ out \subseteq Flights \ {"media"} /\ "finished" \notin out /\ "last" \notin out
      /\ peer[e].dtls \notin {"finished", "over"}
  BY DEF Good, Sound
<1> DEFINE r == IF p.dtls = "none" /\ ~inits THEN Waits("none") ELSE Started(Role(e))
           q == [p EXCEPT !.connected = TRUE, !.dtls = r.phase]
<1>2. /\ r.phase \in Phases(e) /\ r.phase \in {"none", "hello", "waiting"}
      /\ r.out \subseteq {"hello"}
  BY Roles DEF Waits, Started, Phases
<1>3. Connected(e, p, inits) = [p |-> q, out |-> r.out]
  BY DEF Connected
<1> HIDE DEF r
<1>4. /\ q \in Peer /\ q.dtls = r.phase /\ q.connected
      /\ q.send = p.send /\ q.recv = p.recv
  BY <1>1, <1>2 DEF Peer, Phase
<1> HIDE DEF q
<1>5. Sound(e, q)
  BY <1>1, <1>2, <1>4 DEF Sound, Keyed
<1>6. Ordered(e, q.dtls)
  BY <1>2, <1>4 DEF Ordered
<1>7. out \cup r.out \subseteq Flights \ {"media"} /\ "finished" \notin out \cup r.out
      /\ "last" \notin out \cup r.out
  BY <1>1, <1>2 DEF Flights
<1>8. Good(e, q, out \cup r.out)
  BY <1>1, <1>5, <1>6, <1>7 DEF Good
<1> QED BY <1>3, <1>8

LEMMA GoodPolled ==
  ASSUME NEW e \in Endpoint, NEW p, NEW out, Good(e, p, out)
  PROVE  Good(e, p, out \cup Resent(p.dtls))
<1>1. Resent(p.dtls) \subseteq Flights \ {"media"} /\ "last" \notin Resent(p.dtls)
  BY DEF Resent, Flights
<1>2. "finished" \in Resent(p.dtls) => p.dtls = "finished" /\ Role(e) = "client"
  BY DEF Resent, Good, Sound, Phases
<1> QED BY <1>1, <1>2 DEF Good

LEMMA GoodKeyed ==
  ASSUME NEW e \in Endpoint, NEW p, NEW out, Good(e, p, out), ToDtls(p), Complete(p.dtls)
  PROVE  Good(e, [p EXCEPT !.send = SrtpKeys(e).send, !.recv = SrtpKeys(e).recv], out)
<1> DEFINE q == [p EXCEPT !.send = SrtpKeys(e).send, !.recv = SrtpKeys(e).recv]
<1>1. p \in Peer /\ p.dtls = "over" /\ p.connected /\ Sound(e, p)
  BY DEF Good, Sound, ToDtls, Complete
<1>2. SrtpKeys(e).send \in {"client", "server"} /\ SrtpKeys(e).recv \in {"client", "server"}
  BY Roles
<1>3. /\ q \in Peer /\ q.dtls = p.dtls /\ q.connected = p.connected
      /\ q.send = SrtpKeys(e).send /\ q.recv = SrtpKeys(e).recv
  BY <1>1, <1>2 DEF Peer, Keys
<1> HIDE DEF q
<1>4. Sound(e, q)
  BY <1>1, <1>2, <1>3 DEF Sound
<1>5. Good(e, q, out)
  BY <1>3, <1>4 DEF Good
<1> QED BY <1>5 DEF q

\* A handshake that fails leaves both sides where they are.
LEMMA GoodFailed ==
  ASSUME Inv, NEW e \in Endpoint, HandshakeFails(e)
  PROVE  LET q == [peer[e] EXCEPT !.failed = TRUE]
         IN  Good(e, q, {}) /\ peer' = [peer EXCEPT ![e] = q]
<1> DEFINE p == peer[e]
           q == [p EXCEPT !.failed = TRUE]
<1>1. Sound(e, p) /\ Ordered(e, p.dtls) /\ p \in Peer
  BY DEF Inv, Sound
<1>2. peer' = [peer EXCEPT ![e] = q]
  BY DEF HandshakeFails
<1>3. /\ q \in Peer /\ q.connected = p.connected /\ q.dtls = p.dtls
      /\ q.send = p.send /\ q.recv = p.recv
  BY <1>1 DEF Peer
<1> HIDE DEF q
<1>4. Sound(e, q)
  BY <1>1, <1>3 DEF Sound, Keyed
<1>5. Good(e, q, {})
  BY <1>1, <1>3, <1>4 DEF Good
<1> QED BY <1>2, <1>5 DEF q

\* All of them: what a pass has come to at its end.
Outcome(e, dropped) ==
  \E p, out : /\ Good(e, p, out)
              /\ peer' = [peer EXCEPT ![e] = p]
              /\ net' = (net \ dropped) \cup Sent(e, out)

LEMMA GoodAtLast ==
  ASSUME NEW e \in Endpoint, NEW after, NEW dropped,
         NEW connects \in BOOLEAN, NEW inits \in BOOLEAN, NEW expired \in BOOLEAN, NEW keyed \in BOOLEAN,
         Good(e, after.p, after.out),
         Finish(e, after, dropped, connects, inits, expired, keyed)
  PROVE  Outcome(e, dropped)
<1> DEFINE start  == IF connects THEN Connected(e, after.p, inits) ELSE [p |-> after.p, out |-> {}]
           polled == IF expired /\ ToDtls(start.p) THEN Resent(start.p.dtls) ELSE {}
           out    == after.out \cup start.out \cup polled
           p      == IF keyed /\ ToDtls(start.p) /\ Complete(start.p.dtls)
                     THEN [start.p EXCEPT !.send = SrtpKeys(e).send, !.recv = SrtpKeys(e).recv]
                     ELSE start.p
<1>1. /\ connects => ~after.p.connected
      /\ peer' = [peer EXCEPT ![e] = p]
      /\ net' = (net \ dropped) \cup Sent(e, out)
  BY DEF Finish
<1>2. Good(e, start.p, after.out \cup start.out)
  <2>1. CASE connects
    BY <1>1, <2>1, GoodConnected
  <2>2. CASE ~connects
    <3>1. start.p = after.p /\ after.out \cup start.out = after.out
      BY <2>2
    <3> QED BY <3>1
  <2> QED BY <2>1, <2>2
<1> HIDE DEF start
<1>3. Good(e, start.p, out)
  <2>1. CASE expired /\ ToDtls(start.p)
    BY <1>2, <2>1, GoodPolled
  <2>2. CASE ~(expired /\ ToDtls(start.p))
    <3>1. out = after.out \cup start.out
      BY <2>2
    <3> QED BY <1>2, <3>1
  <2> QED BY <2>1, <2>2
<1> HIDE DEF out
<1>4. Good(e, p, out)
  BY <1>3, GoodKeyed
<1> QED BY <1>1, <1>4 DEF Outcome

-----------------------------------------------------------------------------
\* A pass keeps the order of the handshakes and what datagrams tell.
LEMMA GoodKept ==
  ASSUME Inv, NEW e \in Endpoint, NEW p, NEW out, Good(e, p, out),
         peer' = [peer EXCEPT ![e] = p],
         net' \subseteq net \cup Sent(e, out)
  PROVE  /\ \A f \in Endpoint : Sound(f, peer'[f]) /\ Ordered(f, peer[f].dtls)'
         /\ (DOMAIN peer = Endpoint /\ peer = [f \in Endpoint |-> peer[f]])'
         /\ net' \subseteq Datagram
         /\ \A d \in net' : Telling(d)'
<1>1. /\ DOMAIN peer = Endpoint
      /\ \A f \in Endpoint : Sound(f, peer[f]) /\ Ordered(f, peer[f].dtls)
  BY DEF Inv
<1>2. /\ Sound(e, p) /\ Ordered(e, p.dtls)
      /\ peer[e].dtls \in {"finished", "over"} => p.dtls \in {peer[e].dtls, "over"}
  BY DEF Good
<1>3. peer'[e] = p /\ \A f \in Endpoint \ {e} : peer'[f] = peer[f]
  BY <1>1
<1>4. ASSUME NEW f \in Endpoint
      PROVE  Sound(f, peer'[f]) /\ Ordered(f, peer[f].dtls)'
  <2>1. Sound(f, peer'[f])
    BY <1>1, <1>2, <1>3
  <2>2. SUFFICES ASSUME peer'[f].dtls = "over", NEW o \in Endpoint \ {f}
                 PROVE  peer'[o].dtls \in FarEnough(Role(o))
    BY <2>1 DEF Ordered
  <2>3. CASE f = e
    BY <1>2, <1>3, <2>2, <2>3 DEF Ordered
  <2>4. CASE f # e
    <3>1. peer[o].dtls \in FarEnough(Role(o))
      BY <1>1, <1>3, <2>2, <2>4 DEF Ordered
    <3> QED BY <1>2, <1>3, <3>1 DEF FarEnough
  <2> QED BY <2>3, <2>4
<1>5. (DOMAIN peer = Endpoint /\ peer = [f \in Endpoint |-> peer[f]])'
  BY <1>1
<1>6. Sent(e, out) \subseteq Datagram
  BY DEF Sent, Datagram, Good, Keys
<1>7. ASSUME NEW d \in net PROVE Telling(d)'
  <2>1. Telling(d) /\ d.to \in Endpoint
    BY DEF Inv, Datagram
  <2>2. ASSUME NEW o \in Endpoint \ {d.to}, d.what = "finished"
        PROVE  Role(o) = "client" /\ peer'[o].dtls \in {"finished", "over"}
    BY <1>2, <1>3, <2>1, <2>2 DEF Telling
  <2>3. ASSUME NEW o \in Endpoint \ {d.to}, d.what = "last"
        PROVE  Role(o) = "server" /\ peer'[o].dtls = "over"
    BY <1>2, <1>3, <2>1, <2>3 DEF Telling
  <2> QED BY <2>1, <2>2, <2>3 DEF Telling
<1>8. ASSUME NEW d \in Sent(e, out) PROVE Telling(d)'
  <2>1. d.to \in Endpoint \ {e} /\ d.what \in out
    BY DEF Sent
  <2>2. \A o \in Endpoint \ {d.to} : o = e
    BY <2>1, LinkAssumption
  <2>3. d.what # "media"
    BY <2>1 DEF Good
  <2>4. /\ d.what = "finished" => Role(e) = "client" /\ peer'[e].dtls \in {"finished", "over"}
        /\ d.what = "last" => Role(e) = "server" /\ peer'[e].dtls = "over"
    BY <1>3, <2>1 DEF Good
  <2> QED BY <2>2, <2>3, <2>4 DEF Telling
<1>9. net \subseteq Datagram
  BY DEF Inv
<1> QED BY <1>4, <1>5, <1>6, <1>7, <1>8, <1>9

\* What is played was encrypted by the peer.
LEMMA PlayedKept ==
  ASSUME Inv, NEW e \in Endpoint, NEW d \in net, d.to = e
  PROVE  /\ Played(e, d) \subseteq [recv : Keys, sent : Keys]
         /\ \A m \in Played(e, d) : m.recv = m.sent
<1>1. /\ played \subseteq [recv : Keys, sent : Keys]
      /\ \A m \in played : m.recv = m.sent
  BY DEF Inv, KeysMatch
<1>2. CASE Keyed(peer[e]) /\ d.what = "media"
  <2>1. d.key = peer[e].recv /\ d.key \in Keys
    BY <1>2 DEF Inv, Sound, Telling, Datagram
  <2>2. Played(e, d) = played \cup {[recv |-> peer[e].recv, sent |-> d.key]}
    BY <1>2 DEF Played
  <2> QED BY <1>1, <2>1, <2>2
<1>3. CASE ~(Keyed(peer[e]) /\ d.what = "media")
  BY <1>1, <1>3 DEF Played
<1> QED BY <1>2, <1>3

LEMMA InitInv == Init => Inv
<1> SUFFICES ASSUME Init PROVE Inv
  OBVIOUS
<1>1. DOMAIN peer = Endpoint /\ peer = [e \in Endpoint |-> peer[e]]
  BY DEF Init
<1>2. ASSUME NEW e \in Endpoint PROVE Sound(e, peer[e]) /\ Ordered(e, peer[e].dtls)
  <2>1. peer[e] \in [connected : {FALSE}, dtls : {"none", "idle"}, failed : {FALSE},
                       send : {"none"}, recv : {"none"}]
    BY DEF Init
  <2>2. /\ peer[e] \in Peer /\ ~peer[e].connected /\ peer[e].dtls \in {"none", "idle"}
        /\ peer[e].send = "none" /\ peer[e].recv = "none"
    BY <2>1 DEF Peer, Phase, Keys
  <2> QED BY <2>2 DEF Sound, Ordered, Phases, Keyed
<1> QED BY <1>1, <1>2 DEF Init, Inv, KeysMatch

LEMMA NextInv == Inv /\ [Next]_vars => Inv'
<1> SUFFICES ASSUME Inv, [Next]_vars PROVE Inv'
  OBVIOUS
<1> USE DEF KeysMatch
<1>1. ASSUME NEW e \in Endpoint, NEW connects \in BOOLEAN, NEW inits \in BOOLEAN,
             NEW expired \in BOOLEAN, NEW keyed \in BOOLEAN,
             Pass(e, connects, inits, expired, keyed)
      PROVE  Inv'
  <2> DEFINE after == [p |-> peer[e], out |-> {}]
  <2>1. Finish(e, after, {}, connects, inits, expired, keyed) /\ UNCHANGED <<lastLost, played>>
    BY <1>1 DEF Pass
  <2>2. Good(e, after.p, after.out)
    BY GoodAtFirst
  <2> HIDE DEF after
  <2>3. Outcome(e, {})
    BY <2>1, <2>2, GoodAtLast
  <2>4. PICK p, out : /\ Good(e, p, out)
                      /\ peer' = [peer EXCEPT ![e] = p]
                      /\ net' \subseteq net \cup Sent(e, out)
    BY <2>3 DEF Outcome
  <2> QED BY <2>1, <2>4, GoodKept DEF Inv
<1>2. ASSUME NEW e \in Endpoint, NEW connects \in BOOLEAN, NEW inits \in BOOLEAN,
             NEW expired \in BOOLEAN, NEW keyed \in BOOLEAN, NEW d \in net,
             PassWith(e, d, connects, inits, expired, keyed)
      PROVE  Inv'
  <2>1. PICK dropped \in {{}, {d}} :
          Finish(e, Received(e, d), dropped, connects, inits, expired, keyed)
    BY <1>2 DEF PassWith
  <2>2. d.to = e /\ played' = Played(e, d) /\ lastLost' = lastLost
    BY <1>2 DEF PassWith
  <2>3. Good(e, Received(e, d).p, Received(e, d).out)
    BY <2>2, GoodReceived
  <2>4. Outcome(e, dropped)
    BY <2>1, <2>3, GoodAtLast
  <2>5. PICK p, out : /\ Good(e, p, out)
                      /\ peer' = [peer EXCEPT ![e] = p]
                      /\ net' \subseteq net \cup Sent(e, out)
    BY <2>4 DEF Outcome
  <2> QED BY <2>2, <2>5, GoodKept, PlayedKept DEF Inv
<1>3. ASSUME NEW e \in Endpoint, SendMedia(e) PROVE Inv'
  <2> DEFINE new == {[to |-> o, what |-> "media", key |-> peer[e].send] : o \in Endpoint \ {e}}
  <2>1. net' = net \cup new /\ UNCHANGED <<peer, lastLost, played>> /\ Keyed(peer[e])
    BY <1>3 DEF SendMedia
  <2>2. peer[e].send \in Keys /\ peer[e].send = SrtpKeys(e).send
    BY <2>1 DEF Inv, Sound, Peer
  <2>3. ASSUME NEW d \in new PROVE d \in Datagram /\ Telling(d)
    <3>1. PICK o \in Endpoint \ {e} : d = [to |-> o, what |-> "media", key |-> peer[e].send]
      OBVIOUS
    <3>2. d.key = SrtpKeys(d.to).recv
      BY <2>2, <3>1, Roles
    <3> QED BY <2>2, <3>1, <3>2 DEF Datagram, Flights, Telling
  <2> HIDE DEF new
  <2>4. net' \subseteq Datagram /\ \A d \in net' : Telling(d)
    BY <2>1, <2>3 DEF Inv
  <2>5. \A d : Telling(d)' = Telling(d)
    BY <2>1 DEF Telling
  <2>6. \A f \in Endpoint : (Sound(f, peer[f]) /\ Ordered(f, peer[f].dtls))'
    BY <2>1 DEF Inv, Ordered
  <2> QED BY <2>1, <2>4, <2>5, <2>6 DEF Inv
<1>4. ASSUME NEW d \in net, Lose(d) PROVE Inv'
  <2>1. net' \subseteq net /\ UNCHANGED <<peer, played>> /\ lastLost' \in BOOLEAN
    BY <1>4 DEF Lose, Inv
  <2>2. \A c : Telling(c)' = Telling(c)
    BY <2>1 DEF Telling
  <2>3. \A f \in Endpoint : (Sound(f, peer[f]) /\ Ordered(f, peer[f].dtls))'
    BY <2>1 DEF Inv, Ordered
  <2> QED BY <2>1, <2>2, <2>3 DEF Inv
<1>5. ASSUME NEW e \in Endpoint, HandshakeFails(e) PROVE Inv'
  <2>1. PICK q : Good(e, q, {}) /\ peer' = [peer EXCEPT ![e] = q]
    BY <1>5, GoodFailed
  <2>2. net' = net /\ lastLost' = lastLost /\ played' = played
    BY <1>5 DEF HandshakeFails
  <2>3. net' \subseteq net \cup Sent(e, {})
    BY <2>2
  <2> QED BY <2>1, <2>2, <2>3, GoodKept DEF Inv
<1>6. CASE UNCHANGED vars
  <2>1. UNCHANGED <<peer, net, lastLost, played>>
    BY <1>6 DEF vars
  <2>2. \A c : Telling(c)' = Telling(c)
    BY <2>1 DEF Telling
  <2>3. \A f \in Endpoint : (Sound(f, peer[f]) /\ Ordered(f, peer[f].dtls))'
    BY <2>1 DEF Inv, Ordered
  <2> QED BY <2>1, <2>2, <2>3 DEF Inv
<1> QED BY <1>1, <1>2, <1>3, <1>4, <1>5, <1>6 DEF Next

LEMMA Invariance == Spec => []Inv
<1> QED BY InitInv, NextInv, PTL DEF Spec

-----------------------------------------------------------------------------
\* The types of all variables; keys come in pairs, and no context is left
\* where a HelloVerifyRequest has put it (dtls_handle_handshake_result,
\* pc_initialize_srtp_after_dtls).
THEOREM TypeCorrect == Spec => []TypeOK
<1>1. Inv => TypeOK
  <2> SUFFICES ASSUME Inv PROVE TypeOK
    OBVIOUS
  <2>1. \A e \in Endpoint : peer[e] \in Peer /\ (peer[e].send = "none") = (peer[e].recv = "none")
    BY DEF Inv, Sound
  <2>2. \A e \in Endpoint : peer[e].dtls # "verify"
    BY DEF Inv, Sound, Phases
  <2>3. peer \in [Endpoint -> Peer]
    BY <2>1 DEF Inv
  <2> QED BY <2>1, <2>2, <2>3 DEF Inv, TypeOK
<1> QED BY Invariance, <1>1, PTL

\* Whatever is lost, repeated or overtaken, an SRTP context never decrypts
\* what another key has encrypted (tinyrtc.c:75-81, :248,
\* pc_initialize_srtp_after_dtls).
THEOREM MediaKeysMatch == Spec => []KeysMatch
<1>1. Inv => KeysMatch
  BY DEF Inv
<1> QED BY Invariance, <1>1, PTL

\* No side has keys before its peer is as far as the handshake asks, and no
\* handshake begins without a transport (tinyrtc.c:52-98, :248, :287).
THEOREM HandshakeInOrder == Spec => []HandshakeOrdered
<1>1. Inv => HandshakeOrdered
  <2> SUFFICES ASSUME Inv, NEW e \in Endpoint, NEW o \in Endpoint
               PROVE  /\ ~peer[e].connected => peer[e].dtls \in {"none", "idle"}
                      /\ e # o /\ Keyed(peer[e]) =>
                           peer[o].dtls \in (IF Role(o) = "server" THEN {"over"} ELSE {"finished", "over"})
    BY DEF HandshakeOrdered
  <2>1. Sound(e, peer[e]) /\ Ordered(e, peer[e].dtls)
    BY DEF Inv
  <2> QED BY <2>1 DEF Sound, Ordered, FarEnough
<1> QED BY Invariance, <1>1, PTL

-----------------------------------------------------------------------------
(***************************************************************************)
(* The congestion control.                                                 *)
(***************************************************************************)
\* A rate that a configuration bounds does not leave the bounds, as long as no
\* sum wraps.
RateInv ==
  Roomy /\ Sensible =>
    /\ config.min <= target /\ target <= config.max
    /\ config.min <= estimated /\ estimated <= config.max

\* What was paced is paid for by the time up to the next packet.
PaceInv ==
  /\ started <= clock
  /\ lastPaced <= paced
  /\ nextSend = 0 => paced = 0
  /\ nextSend # 0 => started <= nextSend /\ paced <= 2 * (peak * (nextSend - started))
  /\ paced - lastPaced <= 2 * (peak * (clock - started))

CcInv ==
  /\ CcTypeOK
  /\ TargetInBounds
  /\ RateInv
  /\ target <= peak
  /\ PaceInv

-----------------------------------------------------------------------------
\* A larger number of times a longer time is more.
LEMMA ProductGrows ==
  ASSUME NEW a \in Nat, NEW b \in Nat, NEW c \in Nat, NEW d \in Nat, a <= b, c <= d
  PROVE  a * c <= b * d
<1>1. PICK x \in Nat : b = a + x
  <2>1. b - a \in Nat /\ b = a + (b - a)
    OBVIOUS
  <2> QED
    BY <2>1
<1>2. PICK y \in Nat : d = c + y
  <2>1. d - c \in Nat /\ d = c + (d - c)
    OBVIOUS
  <2> QED
    BY <2>1
<1>3. b * d = a * c + a * y + x * c + x * y
  BY <1>1, <1>2
<1>4. a * y \in Nat /\ x * c \in Nat /\ x * y \in Nat /\ a * c \in Nat
  BY <1>1, <1>2
<1> HIDE <1>1, <1>2
<1> QED
  BY <1>3, <1>4

\* A quotient that is not zero loses less than half.
LEMMA DivisionLosesLess ==
  ASSUME NEW b \in Nat, NEW r \in Nat \ {0}, r <= b
  PROVE  b <= 2 * ((b \div r) * r)
<1> DEFINE q == b \div r
<1>1. q \in Nat /\ q * r <= b /\ b < q * r + r
  OBVIOUS
<1>2. q # 0
  BY <1>1
<1> HIDE DEF q
<1>3. 1 <= q /\ r <= r
  BY <1>1, <1>2
<1>4. r <= q * r
  <2>1. 1 * r <= q * r
    BY <1>1, <1>3, ProductGrows
  <2> QED
    BY <2>1
<1>5. q * r \in Nat
  BY <1>1
<1>6. b <= 2 * (q * r)
  BY <1>1, <1>4, <1>5
<1> QED
  BY <1>6 DEF q

\* A configuration is one of numbers below Word.
LEMMA ConfigType ==
  ASSUME CcTypeOK
  PROVE  /\ config.min \in 0..(Word - 1) /\ config.max \in 0..(Word - 1)
         /\ config.initial \in 0..(Word - 1) /\ config.pacing \in BOOLEAN
<1>1. config \in [min : 0..(Word - 1), max : 0..(Word - 1), initial : 0..(Word - 1), pacing : BOOLEAN]
  BY CongestionAssumption DEF CcTypeOK
<1> QED
  BY <1>1

\* The increase is a natural number for every round trip time.
LEMMA IncreaseType ==
  ASSUME NEW rtt \in Rtts
  PROVE  Increase(rtt) \in Nat
<1>1. rtt \in Nat /\ 100 * AddIncrease \in Nat
  BY CongestionAssumption
<1> DEFINE x == 100 * AddIncrease
<1>2. CASE rtt > 0
  <2>1. x \in Nat
    BY <1>1
  <2> HIDE DEF x
  <2>2. x \div rtt \in Nat
    BY <1>1, <1>2, <2>1
  <2> QED
    BY <1>2, <2>2 DEF Increase, x
<1>3. CASE ~(rtt > 0)
  BY <1>3, CongestionAssumption DEF Increase
<1> QED
  BY <1>2, <1>3

\* A small number is its own remainder.
LEMMA SmallRemainder ==
  ASSUME NEW x \in Nat, NEW w \in Nat \ {0}
  PROVE  x % w \in 0..(w - 1) /\ (x < w => x % w = x)
OBVIOUS

\* A weighted mean lies between what its arguments lie between.
LEMMA SmoothedOK ==
  ASSUME estimated \in Nat, NEW new \in Nat, NEW lo \in Nat, NEW hi \in Nat,
         lo <= estimated, estimated <= hi, lo <= new, new <= hi
  PROVE  Smoothed(new) \in Nat /\ lo <= Smoothed(new) /\ Smoothed(new) <= hi
BY DEF Smoothed

LEMMA HalvedOK ==
  ASSUME CcTypeOK
  PROVE  /\ Halved \in 0..(Word - 1)
         /\ config.min <= Halved
         /\ config.min <= config.max /\ target <= config.max => Halved <= config.max
BY ConfigType, CongestionAssumption DEF CcTypeOK, Halved, AtLeast

LEMMA RaisedOK ==
  ASSUME CcTypeOK, NEW rtt \in Rtts
  PROVE  /\ Raised(rtt) \in 0..(Word - 1)
         /\ Raised(rtt) <= config.max
         /\ Roomy /\ target <= config.max => target <= Raised(rtt)
<1> DEFINE sum == target + Increase(rtt)
<1>1. sum \in Nat
  BY IncreaseType DEF CcTypeOK
<1>2. sum % Word \in 0..(Word - 1) /\ (sum < Word => sum % Word = sum)
  <2> HIDE DEF sum
  <2> QED
    BY <1>1, SmallRemainder, CongestionAssumption
<1>3. /\ config.max \in 0..(Word - 1) /\ target \in Nat /\ Increase(rtt) \in Nat
      /\ Word \in Nat
  BY ConfigType, IncreaseType, CongestionAssumption DEF CcTypeOK
<1>4. Roomy /\ target <= config.max => sum < Word
  BY <1>3 DEF Roomy
<1>5. target <= sum
  BY <1>3
<1>6. Raised(rtt) = AtMost(sum % Word, config.max)
  BY DEF Raised
<1> HIDE DEF sum
<1> QED
  BY <1>1, <1>2, <1>3, <1>4, <1>5, <1>6 DEF AtMost

LEMMA ClampedOK ==
  ASSUME CcTypeOK, NEW new \in 0..(Word - 1)
  PROVE  /\ Clamped(new) \in 0..(Word - 1)
         /\ config.min <= config.max =>
              config.min <= Clamped(new) /\ Clamped(new) <= config.max
         /\ new <= config.max => new <= Clamped(new)
BY ConfigType, CongestionAssumption DEF Clamped, AtLeast, AtMost

-----------------------------------------------------------------------------
LEMMA CcInitOK == CcInit => CcInv
<1> SUFFICES ASSUME CcInit PROVE CcInv
  OBVIOUS
<1>1. /\ config.min \in 0..(Word - 1) /\ config.max \in 0..(Word - 1)
      /\ config.initial \in 0..(Word - 1)
  <2>1. config \in [min : 0..(Word - 1), max : 0..(Word - 1), initial : 0..(Word - 1), pacing : BOOLEAN]
    BY CongestionAssumption DEF CcInit
  <2> QED
    BY <2>1
<1>2. CcTypeOK
  <2>1. config.initial \in Nat /\ AtLeast(config.initial, 1) \in Nat \ {0}
    BY <1>1, CongestionAssumption DEF AtLeast
  <2> QED
    BY <1>1, <2>1 DEF CcInit, CcTypeOK
<1>3. TargetInBounds
  BY DEF CcInit, TargetInBounds
<1>4. RateInv
  BY DEF CcInit, RateInv, Sensible
<1>5. target <= peak
  BY <1>1 DEF CcInit, AtLeast
<1>6. PaceInv
  BY <1>1 DEF CcInit, PaceInv, AtLeast
<1> QED
  BY <1>2, <1>3, <1>4, <1>5, <1>6 DEF CcInv

\* A higher peak takes nothing back that was paid for.
LEMMA PeakGrows ==
  ASSUME CcTypeOK, PaceInv, NEW p \in Nat, peak <= p, UNCHANGED <<pace, clock>>, peak' = p
  PROVE  PaceInv'
<1>1. /\ nextSend' = nextSend /\ clock' = clock /\ started' = started
      /\ paced' = paced /\ lastPaced' = lastPaced
  BY DEF pace
<1>2. /\ peak \in Nat /\ started \in Nat /\ clock \in Nat /\ nextSend \in Nat
      /\ paced \in Nat /\ lastPaced \in Nat
  BY DEF CcTypeOK
<1>3. clock - started \in Nat
  BY <1>2 DEF PaceInv
<1>4. peak * (clock - started) <= p * (clock - started)
  <2> DEFINE d == clock - started
  <2> HIDE DEF d
  <2>1. d \in Nat => peak * d <= p * d
    BY <1>2, ProductGrows
  <2> QED
    BY <1>3, <2>1 DEF d
<1>5. nextSend # 0 => peak * (nextSend - started) <= p * (nextSend - started)
  <2> DEFINE d == nextSend - started
  <2>1. nextSend # 0 => d \in Nat
    BY <1>2 DEF PaceInv
  <2> HIDE DEF d
  <2>2. d \in Nat => peak * d <= p * d
    BY <1>2, ProductGrows
  <2> QED
    BY <2>1, <2>2 DEF d
<1> DEFINE a == peak * (clock - started)
           b == p * (clock - started)
           c == peak * (nextSend - started)
           d == p * (nextSend - started)
<1>6. a \in Int /\ b \in Int /\ c \in Int /\ d \in Int
  BY <1>2
<1>7. /\ started <= clock /\ lastPaced <= paced
      /\ nextSend = 0 => paced = 0
      /\ nextSend # 0 => started <= nextSend /\ paced <= 2 * c
      /\ paced - lastPaced <= 2 * a
  BY DEF PaceInv
<1>8. a <= b /\ (nextSend # 0 => c <= d)
  BY <1>4, <1>5
<1>9. /\ nextSend # 0 => paced <= 2 * d
      /\ paced - lastPaced <= 2 * b
  <2> HIDE DEF a, b, c, d
  <2> QED
    BY <1>2, <1>6, <1>7, <1>8
<1> QED
  BY <1>1, <1>7, <1>9 DEF PaceInv

-----------------------------------------------------------------------------
\* Feedback: the new rate is clamped, the estimate is drawn to it.
LEMMA ReportFeedbackOK ==
  ASSUME CcInv, NEW rtt \in Rtts, NEW lost \in Losses, ReportFeedback(rtt, lost)
  PROVE  CcInv'
<1> DEFINE new == IF Congested(lost) THEN Halved ELSE Raised(rtt)
<1>1. CcTypeOK /\ RateInv /\ target <= peak /\ PaceInv
  BY DEF CcInv
<1>2. /\ new \in 0..(Word - 1)
      /\ Roomy /\ Sensible => config.min <= new /\ new <= config.max
  <2>1. CASE Congested(lost)
    BY <1>1, <2>1, HalvedOK, ConfigType DEF RateInv, Sensible
  <2>2. CASE ~Congested(lost)
    <3>1. Roomy /\ Sensible => config.min <= target /\ target <= config.max
      BY <1>1 DEF RateInv
    <3>2. target \in Nat /\ config.min \in Nat /\ Word \in Nat
      BY <1>1, ConfigType, CongestionAssumption DEF CcTypeOK
    <3>3. Raised(rtt) \in 0..(Word - 1) /\ Raised(rtt) <= config.max
      BY <1>1, RaisedOK
    <3>4. Roomy /\ target <= config.max => target <= Raised(rtt)
      BY <1>1, RaisedOK
    <3>5. Raised(rtt) \in Nat
      BY <3>2, <3>3
    <3> QED
      BY <2>2, <3>1, <3>2, <3>3, <3>4, <3>5
  <2> QED
    BY <2>1, <2>2
<1>3. /\ estimated' = Smoothed(new) /\ target' = Clamped(new)
      /\ reports' = reports + 1 /\ fedBack' = TRUE
      /\ peak' = AtLeast(peak, Clamped(new))
      /\ config' = config /\ UNCHANGED <<pace, clock>>
  BY DEF ReportFeedback
<1> HIDE DEF new
<1>4. /\ Clamped(new) \in 0..(Word - 1)
      /\ config.min <= config.max => config.min <= Clamped(new) /\ Clamped(new) <= config.max
  BY <1>1, <1>2, ClampedOK
<1>5. /\ estimated \in 0..(Word - 1) /\ Word \in Nat \ {0}
      /\ config.min \in 0..(Word - 1) /\ config.max \in 0..(Word - 1)
      /\ config.initial \in 0..(Word - 1)
  BY <1>1, ConfigType, CongestionAssumption DEF CcTypeOK
<1>6. Smoothed(new) \in 0..(Word - 1)
  BY <1>2, <1>5, SmoothedOK
<1>7. Roomy /\ Sensible => config.min <= Smoothed(new) /\ Smoothed(new) <= config.max
  <2> SUFFICES ASSUME Roomy, Sensible
               PROVE  config.min <= Smoothed(new) /\ Smoothed(new) <= config.max
    OBVIOUS
  <2>1. config.min <= estimated /\ estimated <= config.max
    BY <1>1 DEF RateInv
  <2> QED
    BY <1>2, <1>5, <2>1, SmoothedOK
<1>8. /\ peak' \in Nat \ {0} /\ peak <= peak' /\ Clamped(new) <= peak'
  BY <1>1, <1>3, <1>4, <1>5 DEF CcTypeOK, AtLeast
<1>9. CcTypeOK'
  <2>1. UNCHANGED <<nextSend, started, paced, lastPaced, clock>>
    BY <1>3 DEF pace
  <2> QED
    BY <1>1, <1>3, <1>4, <1>6, <1>8, <2>1 DEF CcTypeOK
<1>10. TargetInBounds'
  BY <1>3, <1>4 DEF TargetInBounds
<1>11. RateInv'
  <2>1. (Roomy /\ Sensible)' => Roomy /\ Sensible /\ config.min <= config.max
    BY <1>3, <1>5 DEF Roomy, Sensible, Increase
  <2> QED
    BY <1>3, <1>4, <1>7, <2>1 DEF RateInv
<1>12. PaceInv'
  BY <1>1, <1>3, <1>8, PeakGrows
<1> QED
  BY <1>3, <1>8, <1>9, <1>10, <1>11, <1>12 DEF CcInv

\* Congestion: the target is halved, not below the minimum.
LEMMA ReportCongestionOK ==
  ASSUME CcInv, ReportCongestion
  PROVE  CcInv'
<1> DEFINE new == Halved
<1>1. CcTypeOK /\ TargetInBounds /\ RateInv /\ target <= peak /\ PaceInv
  BY DEF CcInv
<1>2. /\ new \in 0..(Word - 1) /\ config.min <= new
      /\ config.min <= config.max /\ target <= config.max => new <= config.max
  BY <1>1, HalvedOK
<1>3. /\ estimated' = Smoothed(new) /\ target' = new
      /\ reports' = reports + 1 /\ fedBack' = fedBack
      /\ peak' = AtLeast(peak, new)
      /\ config' = config /\ UNCHANGED <<pace, clock>>
  BY DEF ReportCongestion
<1> HIDE DEF new
<1>5. /\ estimated \in 0..(Word - 1) /\ Word \in Nat \ {0}
      /\ config.min \in 0..(Word - 1) /\ config.max \in 0..(Word - 1)
      /\ config.initial \in 0..(Word - 1)
  BY <1>1, ConfigType, CongestionAssumption DEF CcTypeOK
<1>6. Smoothed(new) \in 0..(Word - 1)
  BY <1>2, <1>5, SmoothedOK
<1>7. Roomy /\ Sensible =>
        /\ config.min <= Smoothed(new) /\ Smoothed(new) <= config.max
        /\ new <= config.max
  <2> SUFFICES ASSUME Roomy, Sensible
               PROVE  /\ config.min <= Smoothed(new) /\ Smoothed(new) <= config.max
                      /\ new <= config.max
    OBVIOUS
  <2>1. /\ config.min <= estimated /\ estimated <= config.max
        /\ target <= config.max
    BY <1>1 DEF RateInv
  <2>2. config.min <= config.max
    BY <1>5, <2>1
  <2> QED
    BY <1>2, <1>5, <2>1, <2>2, SmoothedOK
<1>8. /\ peak' \in Nat \ {0} /\ peak <= peak' /\ new <= peak'
  BY <1>1, <1>2, <1>3, <1>5 DEF CcTypeOK, AtLeast
<1>9. CcTypeOK'
  <2>1. UNCHANGED <<nextSend, started, paced, lastPaced, clock>>
    BY <1>3 DEF pace
  <2> QED
    BY <1>1, <1>2, <1>3, <1>6, <1>8, <2>1 DEF CcTypeOK
<1>10. TargetInBounds'
  BY <1>1, <1>2, <1>3 DEF TargetInBounds
<1>11. RateInv'
  <2>1. (Roomy /\ Sensible)' => Roomy /\ Sensible
    BY <1>3 DEF Roomy, Sensible, Increase
  <2> QED
    BY <1>2, <1>3, <1>7, <2>1 DEF RateInv
<1>12. PaceInv'
  BY <1>1, <1>3, <1>8, PeakGrows
<1> QED
  BY <1>3, <1>8, <1>9, <1>10, <1>11, <1>12 DEF CcInv

-----------------------------------------------------------------------------
\* What does not change the rates keeps what is said of them.
LEMMA RateUntouched ==
  ASSUME CcInv, UNCHANGED <<config, rate>>
  PROVE  TargetInBounds' /\ RateInv' /\ (target <= peak)'
BY DEF CcInv, rate, TargetInBounds, RateInv, Roomy, Sensible, Increase

\* The first packet starts the account.
LEMMA FirstPacketOK ==
  ASSUME CcInv, FirstPacket
  PROVE  CcInv'
<1>1. CcTypeOK /\ PaceInv
  BY DEF CcInv
<1>2. CcTypeOK'
  BY <1>1 DEF FirstPacket, rate, CcTypeOK
<1>3. PaceInv'
  <2>1. /\ started' = clock /\ nextSend' = clock /\ clock' = clock
        /\ paced' = 0 /\ lastPaced' = 0 /\ peak' = peak
    BY <1>1 DEF FirstPacket, rate, PaceInv, CcTypeOK
  <2>2. clock - clock = 0 /\ peak * 0 = 0
    BY <1>1 DEF CcTypeOK
  <2> QED
    BY <1>1, <2>1, <2>2 DEF PaceInv, CcTypeOK
<1> QED
  BY <1>2, <1>3, RateUntouched DEF FirstPacket, CcInv

\* A packet is let through when the last one is paid for.
LEMMA NextPacketOK ==
  ASSUME CcInv, NextPacket
  PROVE  CcInv'
<1>1. CcTypeOK /\ PaceInv /\ target <= peak
  BY DEF CcInv
<1>2. PICK size \in Sizes :
        /\ nextSend' = clock + Wait(size)
        /\ IF Bits(size) >= Rate
           THEN paced' = paced + Bits(size) /\ lastPaced' = Bits(size)
           ELSE UNCHANGED <<paced, lastPaced>>
  BY DEF NextPacket
<1> DEFINE b == Bits(size)
           r == Rate
           w == Wait(size)
           x == nextSend - started
           y == clock - started
           z == nextSend' - started
<1>3. /\ nextSend # 0 /\ clock >= nextSend
      /\ started' = started /\ clock' = clock /\ peak' = peak
      /\ target' = target /\ estimated' = estimated /\ reports' = reports /\ fedBack' = fedBack
      /\ config' = config
  BY DEF NextPacket, rate
<1>4. /\ b \in Nat /\ r \in Nat \ {0} /\ r <= peak /\ peak \in Nat
      /\ clock \in Nat /\ nextSend \in Nat /\ started \in Nat
      /\ paced \in Nat /\ lastPaced \in Nat
  BY <1>1, CongestionAssumption DEF CcTypeOK, Bits, Rate, AtLeast
<1>5. w = b \div r
  BY DEF Wait
<1> HIDE DEF b, r, w
<1>6. w \in Nat
  BY <1>4, <1>5
<1>7. /\ started <= nextSend /\ started <= clock /\ lastPaced <= paced
      /\ paced <= 2 * (peak * x)
      /\ paced - lastPaced <= 2 * (peak * y)
  BY <1>1, <1>3 DEF PaceInv
<1>8. /\ x \in Nat /\ y \in Nat /\ z \in Nat /\ x <= y
      /\ z = y + w
  BY <1>2, <1>3, <1>4, <1>6, <1>7 DEF w
<1>9. /\ paced' \in Nat /\ lastPaced' \in Nat /\ lastPaced' <= paced'
      /\ \/ r <= b /\ paced' = paced + b /\ lastPaced' = b
         \/ paced' = paced /\ lastPaced' = lastPaced
  BY <1>2, <1>4, <1>7 DEF b, r
<1>10. nextSend' \in Nat /\ nextSend' # 0 /\ started <= nextSend'
  BY <1>2, <1>3, <1>4, <1>6, <1>7 DEF w
<1> HIDE DEF x, y, z
<1> DEFINE px == peak * x
           py == peak * y
           pz == peak * z
           pw == peak * w
<1>11. px \in Nat /\ py \in Nat /\ pz \in Nat /\ pw \in Nat
  BY <1>4, <1>6, <1>8
<1>12. px <= py
  BY <1>4, <1>8, ProductGrows
<1>13. pz = py + pw
  BY <1>4, <1>6, <1>8
<1>14. r <= b => b <= 2 * pw
  <2> SUFFICES ASSUME r <= b PROVE b <= 2 * pw
    OBVIOUS
  <2>1. b <= 2 * (w * r)
    BY <1>4, <1>5, DivisionLosesLess
  <2>2. w * r <= w * peak
    BY <1>4, <1>6, ProductGrows
  <2>3. w * peak = pw
    BY <1>4, <1>6
  <2>4. w * r \in Nat
    BY <1>4, <1>6
  <2> HIDE DEF pw
  <2> QED
    BY <1>4, <1>11, <2>1, <2>2, <2>3, <2>4
<1>15. paced <= 2 * px /\ paced - lastPaced <= 2 * py
  BY <1>7
<1> HIDE DEF px, py, pz, pw
<1>16. paced' <= 2 * pz /\ paced' - lastPaced' <= 2 * py
  <2>1. CASE r <= b /\ paced' = paced + b /\ lastPaced' = b
    <3>1. b <= 2 * pw
      BY <1>14, <2>1
    <3>2. paced + b <= 2 * pz
      BY <1>4, <1>11, <1>12, <1>13, <1>15, <3>1
    <3>3. (paced + b) - b <= 2 * py
      BY <1>4, <1>11, <1>12, <1>15
    <3> QED
      BY <2>1, <3>2, <3>3
  <2>2. CASE paced' = paced /\ lastPaced' = lastPaced
    <3>1. paced <= 2 * pz
      BY <1>4, <1>11, <1>12, <1>13, <1>15
    <3> QED
      BY <1>15, <2>2, <3>1
  <2> QED
    BY <1>9, <2>1, <2>2
<1>17. PaceInv'
  BY <1>3, <1>7, <1>9, <1>10, <1>16 DEF PaceInv, pz, py, y, z
<1>18. CcTypeOK'
  BY <1>1, <1>3, <1>9, <1>10 DEF CcTypeOK
<1> QED
  BY <1>17, <1>18, RateUntouched DEF NextPacket, CcInv

\* Time pays.
LEMMA TickOK ==
  ASSUME CcInv, Tick
  PROVE  CcInv'
<1>1. CcTypeOK /\ PaceInv
  BY DEF CcInv
<1>2. /\ clock' = clock + 1 /\ UNCHANGED <<config, rate>>
      /\ nextSend' = nextSend /\ started' = started /\ paced' = paced
      /\ lastPaced' = lastPaced /\ peak' = peak
  BY DEF Tick, pace, rate
<1>3. CcTypeOK'
  BY <1>1, <1>2 DEF CcTypeOK, rate
<1>4. PaceInv'
  <2> DEFINE y == clock - started
  <2>1. y \in Nat /\ peak \in Nat /\ clock \in Nat /\ started \in Nat
    BY <1>1 DEF CcTypeOK, PaceInv
  <2>2. clock' - started' = y + 1
    BY <1>2, <2>1
  <2>3. paced - lastPaced <= 2 * (peak * y)
    BY <1>1 DEF PaceInv
  <2>4. paced \in Nat /\ lastPaced \in Nat
    BY <1>1 DEF CcTypeOK
  <2> HIDE DEF y
  <2>5. peak * y <= peak * (y + 1) /\ peak * y \in Nat /\ peak * (y + 1) \in Nat
    BY <2>1, ProductGrows
  <2>6. paced - lastPaced <= 2 * (peak * (y + 1))
    <3> DEFINE a == peak * y
               c == peak * (y + 1)
    <3>1. a <= c /\ a \in Nat /\ c \in Nat /\ paced - lastPaced <= 2 * a
      BY <2>3, <2>5
    <3> HIDE DEF a, c
    <3>2. paced - lastPaced <= 2 * c
      BY <2>4, <3>1
    <3> QED
      BY <3>2 DEF c
  <2>7. started' <= clock'
    BY <1>1, <1>2, <2>1 DEF PaceInv
  <2> QED
    BY <1>1, <1>2, <2>2, <2>6, <2>7 DEF PaceInv
<1> QED
  BY <1>2, <1>3, <1>4, RateUntouched DEF CcInv

LEMMA CcStutterOK ==
  ASSUME CcInv, UNCHANGED ccVars
  PROVE  CcInv'
<1>1. CcTypeOK' /\ PaceInv'
  BY DEF CcInv, CcTypeOK, PaceInv, ccVars, rate, pace
<1> QED
  BY <1>1, RateUntouched DEF CcInv, ccVars

-----------------------------------------------------------------------------
\* The inductive invariant: rates and pacing, whatever the order of reports.
THEOREM CcInvariance == CcSpec => []CcInv
<1>1. CcInv /\ [CcNext]_ccVars => CcInv'
  BY ReportFeedbackOK, ReportCongestionOK, FirstPacketOK, NextPacketOK, TickOK, CcStutterOK DEF CcNext
<1> QED
  BY CcInitOK, <1>1, PTL DEF CcSpec

\* The rates of tinyrtc_cc_t stay numbers of 32 bits, and the rest has its type.
THEOREM CcTypeCorrect == CcSpec => []CcTypeOK
<1>1. CcInv => CcTypeOK
  BY DEF CcInv
<1> QED
  BY CcInvariance, <1>1, PTL

\* After the first feedback the target never leaves the configured bounds.
THEOREM TargetStaysInBounds == CcSpec => []TargetInBounds
<1>1. CcInv => TargetInBounds
  BY DEF CcInv
<1> QED
  BY CcInvariance, <1>1, PTL

\* Neither does the estimate, though no clamp protects it.
THEOREM EstimateStaysInBounds == CcSpec => []EstimateInBounds
<1>1. CcInv => EstimateInBounds
  BY DEF CcInv, RateInv, EstimateInBounds
<1> QED
  BY CcInvariance, <1>1, PTL

\* tinyrtc_cc_can_send lets packets through at no more than twice the rate.
THEOREM PacingBounded == CcSpec => []PacedWithinTwice
<1>1. CcInv => PacedWithinTwice
  <2> SUFFICES ASSUME CcInv PROVE PacedWithinTwice
    OBVIOUS
  <2>1. peak \in Nat /\ clock - started \in Int
    BY DEF CcInv, CcTypeOK
  <2>2. paced - lastPaced <= 2 * (peak * (clock - started))
    BY DEF CcInv, PaceInv
  <2>3. 2 * (peak * (clock - started)) = 2 * peak * (clock - started)
    BY <2>1
  <2> QED
    BY <2>2, <2>3 DEF PacedWithinTwice
<1> QED
  BY CcInvariance, <1>1, PTL

\* Feedback without congestion never lowers the target.
THEOREM ClearFeedbackRaises == CcSpec => ClearNeverLowers
<1>1. ASSUME CcInv, NEW rtt \in Rtts, NEW lost \in Losses, ReportFeedback(rtt, lost),
             50 * lost <= 256, Roomy, target <= config.max
      PROVE  target' >= target
  <2>1. CcTypeOK /\ lost \in Int
    BY <1>1, CongestionAssumption DEF CcInv
  <2>2. target' = Clamped(Raised(rtt))
    <3>1. ~Congested(lost)
      BY <1>1, <2>1 DEF Congested
    <3> QED
      BY <1>1, <3>1 DEF ReportFeedback
  <2>3. /\ Raised(rtt) \in 0..(Word - 1) /\ Raised(rtt) <= config.max
        /\ target <= Raised(rtt)
    BY <1>1, <2>1, RaisedOK
  <2>4. Clamped(Raised(rtt)) \in 0..(Word - 1) /\ Raised(rtt) <= Clamped(Raised(rtt))
    BY <2>1, <2>3, ClampedOK
  <2>5. target \in Int /\ Word \in Nat
    BY <2>1, CongestionAssumption DEF CcTypeOK
  <2> QED
    BY <2>2, <2>3, <2>4, <2>5
<1> DEFINE A == \A rtt \in Rtts, lost \in Losses :
                  ReportFeedback(rtt, lost) /\ 50 * lost <= 256 /\ Roomy /\ target <= config.max
                    => target' >= target
<1>2. CcInv /\ [CcNext]_ccVars => [A]_ccVars
  BY <1>1
<1> QED
  BY CcInvariance, <1>2, PTL DEF CcSpec, ClearNeverLowers
=============================================================================
