------------------------------- MODULE DtlsLink -------------------------------
(***************************************************************************)
(* Two peer connections whose ICE sessions connect, make a DTLS handshake  *)
(* (src/src/media/dtls.c) over a network that loses, repeats and reorders, *)
(* derive SRTP keys and send media: what tinyrtc_process_events does at    *)
(* either end, one pass at a time.                                         *)
(*                                                                         *)
(* mbedtls is external: its handshake is a machine over flights, with      *)
(* retransmission by the timer that dtls_poll_handshake looks at.  It is   *)
(* taken to retransmit without end (mbedtls gives up after a minute), and  *)
(* a context whose handshake has failed to be of no use from then on.      *)
(***************************************************************************)
EXTENDS Naturals

CONSTANTS
  Endpoint,     \* the two peer connections
  Initiator,    \* the one with config.is_initiator
  MayFail       \* may dtls_init, the handshake and srtp_init fail?

ASSUME LinkAssumption ==
  /\ Initiator \in Endpoint
  /\ \E other \in Endpoint : other # Initiator /\ Endpoint = {Initiator, other}
  /\ MayFail \in BOOLEAN

VARIABLES
  peer,       \* the connection at each endpoint
  net,        \* the datagrams on their way
  lastLost,   \* history: a last flight of the handshake was lost
  played      \* history: the keys media was decrypted with, and those it was encrypted with

vars == <<peer, net, lastLost, played>>

\* The DTLS role, from config.is_initiator.
Role(e) == IF e = Initiator THEN "client" ELSE "server"

Flights == {"hello", "verify", "cookie", "server", "finished", "last", "media"}

\* "none" is the key of what is no media.
Keys == {"client", "server", "none"}

Datagram == [to : Endpoint, what : Flights, key : Keys]

\* pc->dtls is "none" or the state of its mbedtls_ssl_context: "idle" before
\* dtls_start, "verify" when a server has sent a HelloVerifyRequest and has
\* not been reset, "over" with handshake_complete; failed once mbedtls has
\* reported an error for it.  send and recv are the keys of pc->srtp and
\* pc->srtp_rx; both are there or none is.
Phase == {"none", "idle", "waiting", "verify", "hello", "cookie", "server", "finished", "over"}

Peer == [connected : BOOLEAN, dtls : Phase, failed : BOOLEAN, send : Keys, recv : Keys]

Keyed(p) == p.send # "none"

\* A description may have made the DTLS context already.
Init ==
  /\ peer \in [Endpoint -> [connected : {FALSE}, dtls : {"none", "idle"},
                            failed : {FALSE}, send : {"none"}, recv : {"none"}]]
  /\ net = {}
  /\ lastLost = FALSE
  /\ played = {}

-----------------------------------------------------------------------------
(***************************************************************************)
(* The handshake of mbedtls: what a side is in after a flight, and what it *)
(* sends.                                                                  *)
(***************************************************************************)
Waits(phase) == [phase |-> phase, out |-> {}]

ClientHandshake(phase, flight) ==
  CASE phase = "hello" /\ flight = "verify"    -> [phase |-> "cookie", out |-> {"cookie"}]
    [] phase = "cookie" /\ flight = "server"   -> [phase |-> "finished", out |-> {"finished"}]
    [] phase = "finished" /\ flight = "server" -> [phase |-> "finished", out |-> {"finished"}]
    [] phase = "finished" /\ flight = "last"   -> [phase |-> "over", out |-> {}]
    [] OTHER                                   -> Waits(phase)

\* A ClientHello without a cookie is answered by a HelloVerifyRequest, after
\* which the context takes nothing until it is reset.
ServerHandshake(phase, flight) ==
  CASE phase = "waiting" /\ flight = "hello"   -> [phase |-> "verify", out |-> {"verify"}]
    [] phase = "waiting" /\ flight = "cookie"  -> [phase |-> "server", out |-> {"server"}]
    [] phase = "server" /\ flight = "cookie"   -> [phase |-> "server", out |-> {"server"}]
    [] phase = "server" /\ flight = "finished" -> [phase |-> "over", out |-> {"last"}]
    [] OTHER                                   -> Waits(phase)

Handshake(role, phase, flight) ==
  IF role = "client" THEN ClientHandshake(phase, flight) ELSE ServerHandshake(phase, flight)

\* The flight that is sent again when the timer has run out.
Resent(phase) == {phase} \cap {"hello", "cookie", "server", "finished"}

-----------------------------------------------------------------------------
(***************************************************************************)
(* dtls.c and one pass of tinyrtc_process_events over a peer connection.   *)
(***************************************************************************)

\* Wrong variant (the context is not reset), for the sensitivity of ServerKeyed.
NotRecovered(result) == result

\* dtls_handle_handshake_result: after a HelloVerifyRequest the server's
\* context is reset to take the next ClientHello.
Recovered(result) ==
  IF result.phase = "verify" THEN [result EXCEPT !.phase = "waiting"] ELSE result

\* dtls_process_data.  A server that has been reset is given the same
\* ClientHello once more, and sends a second HelloVerifyRequest.
ProcessData(role, phase, flight) ==
  LET once  == Handshake(role, phase, flight)
      again == Handshake(role, Recovered(once).phase, flight)
  IN  IF once.phase = "verify" /\ phase # "verify"
      THEN Recovered([again EXCEPT !.out = @ \cup once.out])
      ELSE Recovered(once)

\* dtls_start: the client sends its ClientHello.
Started(role) ==
  IF role = "client" THEN [phase |-> "hello", out |-> {"hello"}] ELSE Waits("waiting")

\* A datagram that is not STUN is for DTLS until there are SRTP keys, and
\* media from then on; before ICE has connected it is lost as media, and a
\* context that has failed makes nothing of it.
ToDtls(p) == p.dtls # "none" /\ ~p.failed /\ ~Keyed(p) /\ p.connected

\* Wrong variant (a captured master secret is enough), for the sensitivity
\* of HandshakeOrdered.
CapturedIsComplete(phase) == phase \in {"finished", "over"}

\* dtls_is_handshake_complete.
Complete(phase) == phase = "over"

\* Wrong variant (there is no context to receive with), for the sensitivity
\* of TypeOK.
SendingKeys(e) == [send |-> Role(e), recv |-> "none"]

\* Wrong variant (the keys are not exchanged), for the sensitivity of
\* KeysMatch.
SameKeys(e) == [send |-> "client", recv |-> "server"]

\* pc_initialize_srtp_after_dtls: the initiator sends with the client's key.
SrtpKeys(e) ==
  IF e = Initiator THEN [send |-> "client", recv |-> "server"]
                   ELSE [send |-> "server", recv |-> "client"]

\* The connection after a datagram, with what it has sent.
Received(e, d) ==
  LET p == peer[e]
      result == ProcessData(Role(e), p.dtls, d.what)
  IN  IF ToDtls(p) THEN [p |-> [p EXCEPT !.dtls = result.phase], out |-> result.out]
                   ELSE [p |-> p, out |-> {}]

\* Wrong variant (a context made by a description is not started), for the
\* sensitivity of ClientKeyed.
ConnectedNew(e, p, inits) ==
  LET result == IF p.dtls = "none" /\ inits THEN Started(Role(e)) ELSE Waits(p.dtls)
  IN  [p |-> [p EXCEPT !.connected = TRUE, !.dtls = result.phase], out |-> result.out]

\* The connection once ICE has connected; without a context dtls_init is
\* tried here, once.
Connected(e, p, inits) ==
  LET result == IF p.dtls = "none" /\ ~inits THEN Waits("none") ELSE Started(Role(e))
  IN  [p |-> [p EXCEPT !.connected = TRUE, !.dtls = result.phase], out |-> result.out]

Sent(e, out) == {[to |-> o, what |-> f, key |-> "none"] : o \in Endpoint \ {e}, f \in out}

\* The rest of a pass, after the datagram: ICE may connect, the timer may
\* run out, and with a complete handshake the SRTP contexts are made, which
\* may fail and is tried again in the next pass.
Finish(e, after, dropped, connects, inits, expired, keyed) ==
  LET start  == IF connects THEN Connected(e, after.p, inits) ELSE [p |-> after.p, out |-> {}]
      polled == IF expired /\ ToDtls(start.p) THEN Resent(start.p.dtls) ELSE {}
      p      == IF keyed /\ ToDtls(start.p) /\ Complete(start.p.dtls)
                THEN [start.p EXCEPT !.send = SrtpKeys(e).send, !.recv = SrtpKeys(e).recv]
                ELSE start.p
  IN  /\ connects => ~after.p.connected
      /\ MayFail \/ (inits /\ keyed)
      /\ peer' = [peer EXCEPT ![e] = p]
      /\ net' = (net \ dropped) \cup Sent(e, after.out \cup start.out \cup polled)

\* Media is decrypted with the keys of the SRTP context, and played if these
\* are the keys it was encrypted with.
Played(e, d) ==
  IF Keyed(peer[e]) /\ d.what = "media"
  THEN played \cup {[recv |-> peer[e].recv, sent |-> d.key]} ELSE played

\* A pass with a datagram, which the network may deliver once more later.
PassWith(e, d, connects, inits, expired, keyed) ==
  /\ d \in net /\ d.to = e
  /\ \E dropped \in {{}, {d}} : Finish(e, Received(e, d), dropped, connects, inits, expired, keyed)
  /\ played' = Played(e, d)
  /\ UNCHANGED lastLost

Pass(e, connects, inits, expired, keyed) ==
  /\ Finish(e, [p |-> peer[e], out |-> {}], {}, connects, inits, expired, keyed)
  /\ UNCHANGED <<lastLost, played>>

\* A fatal error of mbedtls_ssl_handshake, or of the reset after a
\* HelloVerifyRequest: it is logged in every pass from then on and the
\* context kept.  A dtls_start that fails is this after a pass that connects.
HandshakeFails(e) ==
  /\ MayFail
  /\ ToDtls(peer[e]) /\ ~Complete(peer[e].dtls)
  /\ peer' = [peer EXCEPT ![e].failed = TRUE]
  /\ UNCHANGED <<net, lastLost, played>>

\* packetize_send_callback, once secure media is ready.
SendMedia(e) ==
  /\ Keyed(peer[e])
  /\ net' = net \cup {[to |-> o, what |-> "media", key |-> peer[e].send] : o \in Endpoint \ {e}}
  /\ UNCHANGED <<peer, lastLost, played>>

Lose(d) ==
  /\ d \in net
  /\ net' = net \ {d}
  /\ lastLost' = (lastLost \/ d.what = "last")
  /\ UNCHANGED <<peer, played>>

Next ==
  \/ \E e \in Endpoint, connects, inits, expired, keyed \in BOOLEAN :
       \/ Pass(e, connects, inits, expired, keyed)
       \/ \E d \in net : PassWith(e, d, connects, inits, expired, keyed)
  \/ \E e \in Endpoint : HandshakeFails(e) \/ SendMedia(e)
  \/ \E d \in net : Lose(d)

Spec == Init /\ [][Next]_vars

\* Events are processed for ever, so that ICE connects, timers are looked at
\* and failed SRTP contexts succeed in the end; and of the datagrams that
\* are sent again and again some arrive.
FairSpec ==
  /\ Spec
  /\ \A e \in Endpoint :
       /\ WF_vars(\E inits, expired, keyed \in BOOLEAN : Pass(e, TRUE, inits, expired, keyed))
       /\ WF_vars(\E inits \in BOOLEAN : Pass(e, FALSE, inits, TRUE, TRUE))
       /\ \A f \in Flights \ {"media"} :
            SF_vars(\E connects, inits, expired, keyed \in BOOLEAN :
                      PassWith(e, [to |-> e, what |-> f, key |-> "none"],
                               connects, inits, expired, keyed))

-----------------------------------------------------------------------------
(***************************************************************************)
(* Properties.                                                             *)
(***************************************************************************)
\* Every variable has its type; there are keys for both directions or for
\* none, and no context is left where a HelloVerifyRequest has put it.
TypeOK ==
  /\ peer \in [Endpoint -> Peer]
  /\ \A e \in Endpoint : (peer[e].send = "none") = (peer[e].recv = "none")
  /\ \A e \in Endpoint : peer[e].dtls # "verify"
  /\ net \subseteq Datagram
  /\ lastLost \in BOOLEAN
  /\ played \subseteq [recv : Keys, sent : Keys]

\* Media is only ever decrypted with the keys it was encrypted with, also
\* when it overtakes the end of the handshake or comes in the middle of it
\* (tinyrtc.c:75-81, :248).
KeysMatch == \A m \in played : m.recv = m.sent

\* A side has keys only when its peer has come as far as the handshake asks:
\* the server has sent its last flight before the client is keyed, and the
\* client its Finished before the server is; and no handshake has begun
\* without a transport (tinyrtc.c:52-98, :248, :287).
HandshakeOrdered ==
  \A e, o \in Endpoint :
    /\ ~peer[e].connected => peer[e].dtls \in {"none", "idle"}
    /\ e # o /\ Keyed(peer[e]) =>
         peer[o].dtls \in (IF Role(o) = "server" THEN {"over"} ELSE {"finished", "over"})

\* Both sides have a DTLS context in the end.
Able == \A e \in Endpoint : peer[e].connected /\ peer[e].dtls # "none"

\* A handshake that fails is not made again.
Broken == \E e \in Endpoint : peer[e].failed

\* Whatever is lost before, the server gets its keys: flights are sent again
\* and the context is reset after every HelloVerifyRequest, unless mbedtls
\* reports an error at either end (dtls.c:182).
ServerKeyed == Able ~> (Broken \/ \A e \in Endpoint : Role(e) = "server" => Keyed(peer[e]))

\* The client gets its keys as well, unless the last flight was lost: once
\* the server has keys it takes the client's retransmissions for media
\* (tinyrtc.c:248).
ClientKeyed == Able ~> (Broken \/ lastLost \/ Keyed(peer[Initiator]))
=============================================================================
