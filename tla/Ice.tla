--------------------------------- MODULE Ice ---------------------------------
(***************************************************************************)
(* One ICE session (IceSession) in its environment: the thread that calls  *)
(* the public API, the thread that runs tinyrtc_process_events, the remote *)
(* peer, the STUN server and the network between them.                     *)
(*                                                                         *)
(* The network may lose, delay, duplicate and reorder: a request that has  *)
(* been sent may be answered never, or any number of times at any later    *)
(* moment, as long as there is somebody at the address it was sent to.     *)
(***************************************************************************)
EXTENDS IceSession

CONSTANTS
  Loopback,      \* 127.0.0.1 with the session's port
  Reachable,     \* the remote addresses where the peer does answer
  Server,        \* the STUN server's address
  Senders,       \* the remote addresses the peer's own requests may come from
  MaxSpan,       \* bound: milliseconds one pass of checks may take
  MaxClock       \* bound: last millisecond of the run

ASSUME EnvAssumption ==
  /\ Loopback \in LocalAddr
  /\ Reachable \subseteq RemoteAddr
  /\ Senders \subseteq RemoteAddr
  /\ Server \notin RemoteAddr
  /\ MaxSpan \in Nat
  /\ MaxClock \in Nat \ {0}

VARIABLES
  ice,        \* the ice_session_t
  clock,      \* aosl_time_ms()
  asked,      \* requests sent so far: [to, txid]
  heard       \* history: remote addresses a STUN message has come from

vars == <<ice, clock, asked, heard>>

Requests == [to : RemoteAddr \cup {Server}, txid : Nat]

Init ==
  /\ ice = NewSession
  /\ clock = 1
  /\ asked = {}
  /\ heard = {}

-----------------------------------------------------------------------------
(***************************************************************************)
(* The thread that creates the offer or the answer.                        *)
(***************************************************************************)
OpenSocket ==
  /\ ice.state = "new"
  /\ ice' = GatherSocket(GatherStart(ice))
  /\ UNCHANGED <<clock, asked, heard>>

\* socket() or bind() fails: no candidates, no socket, and no retry.
SocketFails ==
  /\ ice.state = "new"
  /\ ice' = GatherFailed(GatherStart(ice))
  /\ UNCHANGED <<clock, asked, heard>>

\* One turn of the loop over getifaddrs(), for an interface that is up.
ScanInterface ==
  /\ ice.state = "gathering"
  /\ \E a \in LocalAddr : ice' = AddHost(ice, a)
  /\ UNCHANGED <<clock, asked, heard>>

WithFallback(s) == IF s.local = << >> THEN AddHost(s, Loopback) ELSE s

\* No STUN server (or an URL that does not parse).
FinishGathering ==
  /\ ice.state = "gathering"
  /\ ice' = GatherEnd(WithFallback(ice), 0)
  /\ UNCHANGED <<clock, asked, heard>>

\* stun_send_binding_request: the id is kept even if the name does not
\* resolve or the request cannot be sent.  (Bound: there is time left for a
\* check to be repeated.)
FinishGatheringWithStun ==
  /\ ice.state = "gathering"
  /\ clock + RetryMs < MaxClock
  /\ ice' = GatherEnd(WithFallback(ice), clock)
  /\ asked' \in {asked, asked \cup {[to |-> Server, txid |-> clock]}}
  /\ UNCHANGED <<clock, heard>>

\* The peer connection adds candidates before it creates a session (and
\* replays them after gathering) or later, never while it gathers: both
\* happen under the mutex of the peer connection.
AddRemoteCandidate ==
  /\ ice.state \notin {"new", "gathering"}
  /\ \E a \in RemoteAddr, udp \in BOOLEAN : ice' = AddRemote(ice, a, udp)
  /\ UNCHANGED <<clock, asked, heard>>

-----------------------------------------------------------------------------
(***************************************************************************)
(* The thread in tinyrtc_process_events; a session without a socket is     *)
(* skipped there.                                                          *)
(***************************************************************************)
ReceiveRequest ==
  /\ ice.socket
  /\ \E src \in Senders :
       /\ ice' = OnRequest(ice, src)
       /\ heard' = heard \cup {src}
  /\ UNCHANGED <<clock, asked>>

MappedSet == {{m} : m \in LocalAddr} \cup {{}}

\* The answer to a connectivity check.  A peer of this library puts the
\* mapped address into every response (stun_create_binding_response).
ReceivePeerResponse(q) ==
  /\ ice.socket
  /\ q.to \in Reachable
  /\ \E mapped \in MappedSet : ice' = OnResponse(ice, q.txid, mapped)
  /\ heard' = heard \cup {q.to}
  /\ UNCHANGED <<clock, asked>>

ReceiveServerResponse(q) ==
  /\ ice.socket
  /\ q.to = Server
  /\ \E mapped \in MappedSet : ice' = OnResponse(ice, q.txid, mapped)
  /\ UNCHANGED <<clock, asked, heard>>

\* When the requests of one pass are built: in the order of the pairs.
PingTimes(due, last) ==
  {at \in [due -> clock..last] : \A i, j \in due : i < j => at[i] <= at[j]}

Check ==
  /\ ice.socket
  /\ LET due == IF CanCheck(ice) THEN Due(ice, clock) ELSE {}
     IN  \E last \in clock..(clock + MaxSpan) : \E at \in PingTimes(due, last) :
           /\ last <= MaxClock
           /\ due = {} => last = clock
           /\ ice' = CheckConnectivity(ice, clock, at)
           /\ asked' = asked \cup
                {[to |-> ice.remote[ice.pairs[i].remote], txid |-> at[i]] : i \in due}
           /\ clock' = last
  /\ UNCHANGED heard

Tick ==
  /\ clock < MaxClock
  /\ clock' = clock + 1
  /\ UNCHANGED <<ice, asked, heard>>

ApiNext ==
  \/ OpenSocket
  \/ SocketFails
  \/ ScanInterface
  \/ FinishGathering
  \/ FinishGatheringWithStun
  \/ AddRemoteCandidate

LoopNext ==
  \/ ReceiveRequest
  \/ \E q \in asked : ReceivePeerResponse(q)
  \/ \E q \in asked : ReceiveServerResponse(q)
  \/ Check

Next == ApiNext \/ LoopNext \/ Tick

Spec == Init /\ [][Next]_vars

\* The application calls tinyrtc_process_events for ever, time passes, and
\* the network is not so bad that a peer's answers never come through.
Fairness ==
  /\ WF_vars(Check)
  /\ WF_vars(Tick)
  /\ \A a \in Reachable : WF_vars(\E q \in asked : q.to = a /\ ReceivePeerResponse(q))

FairSpec == Spec /\ Fairness

-----------------------------------------------------------------------------
(***************************************************************************)
(* Properties.                                                             *)
(***************************************************************************)

\* Every variable has its type, and no list is longer than its array.
TypeOK ==
  /\ SessionTyped(ice)
  /\ clock \in Nat \ {0}
  /\ asked \subseteq Requests
  /\ heard \subseteq RemoteAddr

\* Candidates arrive from three sides (interfaces, mapped addresses in
\* responses, the application's remote candidates), in any order, and the
\* two loops that make pairs stop at a bound.  Still every local candidate
\* is checked against every remote one, exactly once.
PairsComplete ==
  /\ PairsInRange(ice)
  /\ PairCount(ice)
  /\ PairsDistinct(ice)

\* Media and DTLS go to the selected pair: the session is "done" exactly
\* when it has one, and it is one whose check succeeded.
SelectionSound == SelectedPairOK(ice)

\* A pair succeeds only after a STUN message has come from its remote address.
CreditSound ==
  \A i \in DOMAIN ice.pairs :
    ice.pairs[i].succeeded => ice.remote[ice.pairs[i].remote] \in heard

\* That is so as long as the clock has told requests to different addresses
\* apart: repeated, late, duplicated and reordered answers do not mislead a
\* session whose requests were built in different milliseconds.
CreditSoundIfDistinct ==
  (\A p, q \in asked : p.txid = q.txid => p.to = q.to) => CreditSound

\* No step forgets what dtls.c and peer_connection.c keep pointers to.
NothingForgotten == [][Kept(ice, ice')]_vars

\* If there is a socket and a remote candidate where the peer answers, the
\* session gets connected, even when the first checks are lost or their
\* answers mistaken for the STUN server's.
Connects ==
  (/\ ice.socket
   /\ ice.state # "gathering"
   /\ \E i \in DOMAIN ice.remote : ice.remote[i] \in Reachable)
  ~> IceIsConnected(ice)
=============================================================================
