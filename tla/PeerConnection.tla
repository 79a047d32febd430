--------------------------- MODULE PeerConnection ---------------------------
(***************************************************************************)
(* One tinyrtc_peer_connection_t (src/src/peer_connection.c) and the loop  *)
(* of tinyrtc_process_events (src/src/tinyrtc.c) that drives it: signalling *)
(* state, the ICE sessions it creates (IceSession), the DTLS handshake and *)
(* the SRTP contexts.                                                      *)
(*                                                                         *)
(* The application calls the public functions and the loop from one thread *)
(* (ARCHITECTURE.md:183): the loop only runs between two calls, and the    *)
(* reverse.  The parts of a call are actions; gathering is one.            *)
(*                                                                         *)
(* Abstractions.  The clock of the checks stands still (Ice.tla is about   *)
(* time): a check is sent once and request i of a session has id i.        *)
(* mbedtls_ssl_handshake is external: fed with a datagram it may complete. *)
(* Tracks, media and SDP text other than candidates are left out.          *)
(***************************************************************************)
EXTENDS IceSession

CONSTANTS
  HostAddr,      \* the address of the host's interface
  Senders,       \* remote addresses whose binding requests arrive
  MaxSessions    \* bound: calls of create_offer and create_answer

ASSUME PeerAssumption ==
  /\ HostAddr \in LocalAddr
  /\ Senders \subseteq RemoteAddr
  /\ MaxSessions \in Nat \ {0}

VARIABLES
  handle,      \* the connection: "live", with its place in ctx->peers, or "gone"
  state,       \* pc->state
  ice,         \* pc->ice, the session created last
  created,     \* sessions created so far; all but the last are leaked
  announced,   \* local candidates of pc->ice given to on_ice_candidate, in order
  remoteSdp,   \* pc->remote_sdp.candidates
  unused,      \* history: how many of remoteSdp, the first ones, come from a
               \* description that failed to parse and are in no session since
  dtls,        \* pc->dtls: its phase, and the session it sends through (dtls->ice)
  srtp,        \* pc->srtp_initialized
  api,         \* where the public function in progress is
  next,        \* its loop counter
  loop         \* where tinyrtc_process_events is

vars == <<handle, state, ice, created, announced, remoteSdp, unused, dtls, srtp,
          api, next, loop>>

SdpCandidate == [addr : RemoteAddr, udp : BOOLEAN]

\* What a remote description may carry (bound: at most one candidate).
SdpLists == {<< >>} \cup {<<c>> : c \in SdpCandidate}

Dtls ==
  [phase : {"off", "init", "started", "fed", "done"},
   ice : {"none", "current", "leaked"}]

\* pc->ice is NULL before the first description; then ice means nothing.
HasIce == created > 0

Init ==
  /\ handle = "live"
  /\ state = "new"
  /\ ice = NewSession
  /\ created = 0
  /\ announced = << >>
  /\ remoteSdp = << >>
  /\ unused = 0
  /\ dtls = [phase |-> "off", ice |-> "none"]
  /\ srtp = FALSE
  /\ api = "idle"
  /\ next = 1
  /\ loop = "idle"

-----------------------------------------------------------------------------
(***************************************************************************)
(* The public functions.                                                   *)
(***************************************************************************)
ApiCall == handle = "live" /\ api = "idle" /\ loop = "idle"

\* Wrong variant (the state is not reset), for the sensitivity of
\* ConnectedMeansIce.
BeginDescriptionQuietly ==
  /\ ApiCall
  /\ created < MaxSessions
  /\ state # "closed"
  /\ api' = "described"
  /\ UNCHANGED <<handle, state, ice, created, announced, remoteSdp, unused, dtls, srtp,
                 next, loop>>

\* create_offer and create_answer up to the new session.  dtls_init may fail,
\* which is no error: the fingerprint is left out.
BeginDescription ==
  /\ ApiCall
  /\ created < MaxSessions
  /\ state # "closed"
  /\ state' = "connecting"
  /\ dtls' \in {dtls} \cup
       (IF dtls.phase = "off" THEN {[dtls EXCEPT !.phase = "init"]} ELSE {})
  /\ api' = "described"
  /\ UNCHANGED <<handle, ice, created, announced, remoteSdp, unused, srtp, next, loop>>

\* Wrong variant (the gathering is skipped), for the sensitivity of SessionSound.
CreateSessionOnly ==
  /\ api = "described"
  /\ ice' = NewSession
  /\ created' = created + 1
  /\ dtls' = IF dtls.ice = "current" THEN [dtls EXCEPT !.ice = "leaked"] ELSE dtls
  /\ announced' = << >>
  /\ api' = "replaying"
  /\ UNCHANGED <<handle, state, remoteSdp, unused, srtp, next, loop>>

\* pc->ice is overwritten.  The previous session keeps its socket, and DTLS
\* its pointer to it.
CreateSession ==
  /\ api = "described"
  /\ ice' = NewSession
  /\ created' = created + 1
  /\ dtls' = IF dtls.ice = "current" THEN [dtls EXCEPT !.ice = "leaked"] ELSE dtls
  /\ announced' = << >>
  /\ api' = "created"
  /\ UNCHANGED <<handle, state, remoteSdp, unused, srtp, next, loop>>

\* ice_start_gathering; its error is logged.  The id of the request to the
\* STUN server is larger than that of any check.
Gathered(s, txid) == GatherEnd(AddHost(GatherSocket(GatherStart(s)), HostAddr), txid)

\* Wrong variant (nothing is replayed), for the sensitivity of RemoteSynced.
GatherOnly ==
  /\ api = "created"
  /\ \E txid \in {0, MaxPairs + 1} : ice' = Gathered(ice, txid)
  /\ api' = "announcing"
  /\ next' = 1
  /\ UNCHANGED <<handle, state, created, announced, remoteSdp, unused, dtls, srtp, loop>>

Gather ==
  /\ api = "created"
  /\ \/ ice' = GatherFailed(GatherStart(ice))
     \/ \E txid \in {0, MaxPairs + 1} : ice' = Gathered(ice, txid)
  /\ api' = "replaying"
  /\ next' = 1
  /\ UNCHANGED <<handle, state, created, announced, remoteSdp, unused, dtls, srtp, loop>>

\* The candidates of remote_sdp go into the session, one turn of the loop
\* each: those known before the session ("replaying") and those of a remote
\* description set after it ("adding").  An error is ignored.
AddFromSdp ==
  /\ api \in {"replaying", "adding"}
  /\ next <= Len(remoteSdp)
  /\ ice' = AddRemote(ice, remoteSdp[next].addr, remoteSdp[next].udp)
  /\ next' = next + 1
  /\ UNCHANGED <<handle, state, created, announced, remoteSdp, unused, dtls, srtp, api, loop>>

AddedFromSdp ==
  /\ api \in {"replaying", "adding"}
  /\ next > Len(remoteSdp)
  /\ api' = IF api = "adding" THEN "idle" ELSE "announcing"
  /\ next' = 1
  /\ unused' = 0
  /\ UNCHANGED <<handle, state, ice, created, announced, remoteSdp, dtls, srtp, loop>>

\* Local candidates go into the description and to on_ice_candidate.
AnnounceLocal ==
  /\ api = "announcing"
  /\ next <= Len(ice.local)
  /\ announced' = Append(announced, next)
  /\ next' = next + 1
  /\ UNCHANGED <<handle, state, ice, created, remoteSdp, unused, dtls, srtp, api, loop>>

FinishDescription ==
  /\ api = "announcing"
  /\ next > Len(ice.local)
  /\ api' = "idle"
  /\ next' = 1
  /\ UNCHANGED <<handle, state, ice, created, announced, remoteSdp, unused, dtls, srtp, loop>>

\* sdp_parse starts from an empty description, and what it has parsed stays
\* even when it fails in the end.
SetRemoteDescription ==
  /\ ApiCall
  /\ state # "closed"
  /\ remoteSdp' \in SdpLists
  /\ \E parsed \in BOOLEAN :
       /\ unused' = IF parsed THEN 0 ELSE Len(remoteSdp')
       /\ api' = IF parsed /\ HasIce THEN "adding" ELSE "idle"
  /\ next' = 1
  /\ UNCHANGED <<handle, state, ice, created, announced, dtls, srtp, loop>>

\* Wrong variant (the bound is off by one), for the sensitivity of TypeOK.
AcceptsOneMore == Len(remoteSdp) <= MaxCandidates

\* sdp_add_candidate finds room.
Accepts == Len(remoteSdp) < MaxCandidates

\* Refused when the description is full (and skipped when not udp).
AddIceCandidate ==
  /\ ApiCall
  /\ Accepts
  /\ \E a \in RemoteAddr :
       /\ remoteSdp' = Append(remoteSdp, [addr |-> a, udp |-> TRUE])
       /\ ice' = IF HasIce THEN AddRemote(ice, a, TRUE) ELSE ice
  /\ UNCHANGED <<handle, state, created, announced, unused, dtls, srtp, api, next, loop>>

\* tinyrtc_peer_connection_close: the session, its socket, DTLS and the place
\* in ctx->peers are kept.
Close ==
  /\ ApiCall
  /\ state' = "closed"
  /\ UNCHANGED <<handle, ice, created, announced, remoteSdp, unused, dtls, srtp, api, next, loop>>

\* What a new peer connection has: with calloc nothing is left of the one
\* before.
Blank ==
  /\ state' = "new"
  /\ ice' = NewSession /\ created' = 0 /\ announced' = << >>
  /\ remoteSdp' = << >> /\ unused' = 0
  /\ dtls' = [phase |-> "off", ice |-> "none"] /\ srtp' = FALSE
  /\ next' = 1
  /\ UNCHANGED <<api, loop>>

\* tinyrtc_peer_connection_destroy frees what the connection has, its session
\* with the socket included, and takes it out of ctx->peers.
Destroy ==
  /\ ApiCall
  /\ handle' = "gone"
  /\ Blank

\* tinyrtc_peer_connection_create.
Create ==
  /\ handle = "gone"
  /\ handle' = "live"
  /\ Blank

-----------------------------------------------------------------------------
(***************************************************************************)
(* One pass of tinyrtc_process_events over this peer connection: at most   *)
(* one packet, then the checks and what follows from them.                 *)
(***************************************************************************)
\* Every listed connection with a socket has its turn, between two calls.
LoopTurn ==
  /\ loop = "idle" /\ api = "idle"
  /\ handle = "live" /\ HasIce /\ ice.socket

NoPacket ==
  /\ LoopTurn
  /\ loop' = "received"
  /\ UNCHANGED <<handle, state, ice, created, announced, remoteSdp, unused, dtls, srtp, api, next>>

ReceiveRequest ==
  /\ LoopTurn
  /\ \E src \in Senders : ice' = OnRequest(ice, src)
  /\ loop' = "received"
  /\ UNCHANGED <<handle, state, created, announced, remoteSdp, unused, dtls, srtp, api, next>>

Outstanding(s) ==
  ({s.pairs[i].txid : i \in DOMAIN s.pairs} \cup {s.serverTxid}) \ {0}

\* Wrong variant (the callback is missing), for the sensitivity of AnnouncedOnce.
NotAnnounced(s) == announced

\* A new server reflexive candidate is announced at once.
AnnouncedWith(s) ==
  IF Len(s.local) > Len(ice.local) THEN Append(announced, Len(s.local)) ELSE announced

ReceiveResponse ==
  /\ LoopTurn
  /\ \E txid \in Outstanding(ice), mapped \in {{m} : m \in LocalAddr} \cup {{}} :
       LET s == OnResponse(ice, txid, mapped)
       IN  /\ ice' = s
           /\ announced' = AnnouncedWith(s)
  /\ loop' = "received"
  /\ UNCHANGED <<handle, state, created, remoteSdp, unused, dtls, srtp, api, next>>

\* Anything else is for DTLS until there are SRTP keys (and is media, which
\* changes nothing here, after that).  Without a transport the handshake
\* fails and stays as it is.
GoesToDtls == dtls.phase # "off" /\ ~srtp /\ IceIsConnected(ice)

ReceiveDatagram ==
  /\ LoopTurn
  /\ GoesToDtls
  /\ dtls' \in IF dtls.ice = "none" THEN {dtls}
               ELSE {[dtls EXCEPT !.phase = p] :
                       p \in IF dtls.phase = "done" THEN {"done"} ELSE {"fed", "done"}}
  /\ loop' = "received"
  /\ UNCHANGED <<handle, state, ice, created, announced, remoteSdp, unused, srtp, api, next>>

Checked == CheckConnectivity(ice, 1, [i \in DOMAIN ice.pairs |-> i])

\* Wrong variant (a handshake keeps the session it was started with), for the
\* sensitivity of HandshakeHasTransport.
DtlsStartedOnce ==
  LET on(phase) == [phase |-> phase, ice |-> "current"]
  IN  CASE dtls.phase = "off"  -> {dtls, on("started")}
        [] dtls.phase = "init" -> {on("started")}
        [] OTHER               -> {dtls}

\* dtls_start gives DTLS the session to send through; a handshake that is
\* under way or over stays so.  Without a context from the description one
\* is made here (or not: dtls_init may fail).
DtlsStarted ==
  LET on(phase) == [phase |-> phase, ice |-> "current"]
  IN  CASE dtls.phase = "off"  -> {dtls, on("started")}
        [] dtls.phase = "init" -> {on("started")}
        [] OTHER               -> {on(dtls.phase)}

\* The checks, the change of state with the start of DTLS, then the handshake
\* and the SRTP contexts, which may fail and is tried again in the next pass.
Advance ==
  /\ loop = "received"
  /\ LET connected == IceIsConnected(Checked)
         starts == connected /\ state # "connected"
     IN  /\ ice' = Checked
         /\ state' = IF starts THEN "connected" ELSE state
         /\ \E d \in IF starts THEN DtlsStarted ELSE {dtls} :
              /\ dtls' \in {d} \cup
                   (IF connected /\ ~srtp /\ d.phase = "fed"
                    THEN {[d EXCEPT !.phase = "done"]} ELSE {})
              /\ srtp' \in IF connected /\ dtls'.phase = "done" THEN {srtp, TRUE} ELSE {srtp}
  /\ loop' = "idle"
  /\ UNCHANGED <<handle, created, announced, remoteSdp, unused, api, next>>

ApiNext ==
  \/ BeginDescription
  \/ CreateSession
  \/ Gather
  \/ AddFromSdp
  \/ AddedFromSdp
  \/ AnnounceLocal
  \/ FinishDescription
  \/ SetRemoteDescription
  \/ AddIceCandidate
  \/ Close
  \/ Destroy
  \/ Create

LoopNext ==
  \/ NoPacket
  \/ ReceiveRequest
  \/ ReceiveResponse
  \/ ReceiveDatagram
  \/ Advance

Next == ApiNext \/ LoopNext

Spec == Init /\ [][Next]_vars

-----------------------------------------------------------------------------
(***************************************************************************)
(* Properties.                                                             *)
(***************************************************************************)

\* Every variable has its type.
TypeOK ==
  /\ handle \in {"live", "gone"}
  /\ state \in {"new", "connecting", "connected", "closed"}
  /\ SessionTyped(ice)
  /\ created \in 0..MaxSessions
  /\ announced \in Seq(Nat)
  /\ remoteSdp \in Seq(SdpCandidate) /\ Len(remoteSdp) <= MaxCandidates
  /\ unused \in 0..MaxCandidates
  /\ dtls \in Dtls
  /\ srtp \in BOOLEAN
  /\ api \in {"idle", "described", "created", "replaying", "adding", "announcing"}
  /\ next \in Nat
  /\ loop \in {"idle", "received"}

\* Whatever the order of descriptions, candidates and packets, the present
\* session is sound: complete pairs, a selection that succeeded.
SessionSound == SessionInv(ice)

\* "connected" speaks of the present session: it has a selected pair, and a
\* handshake that goes on goes through it, not through one of an earlier
\* description.
ConnectedMeansIce ==
  state = "connected" =>
    /\ HasIce
    /\ IceIsConnected(ice)
    /\ dtls.phase # "off" => dtls.ice = "current"

\* A datagram is only given to a handshake that has a socket and a remote
\* address to answer to.
HandshakeHasTransport ==
  /\ dtls.phase \in {"started", "fed", "done"} =>
       /\ dtls.ice # "none"
       /\ dtls.ice = "current" => ice.socket /\ ice.selected # 0
  /\ LoopTurn /\ GoesToDtls => dtls.ice = "current"

\* Between two calls the session knows every udp candidate of the remote
\* description (unless it is full), whether the candidate or the session was
\* there first, and whether it came in the description or by itself.  Only
\* the candidates of a description that failed to parse wait for the next
\* session; those that come after them do not.
RemoteSynced ==
  api = "idle" /\ HasIce /\ Len(ice.remote) < MaxCandidates =>
    \A i \in DOMAIN remoteSdp :
      i > unused /\ remoteSdp[i].udp =>
        \E j \in DOMAIN ice.remote : ice.remote[j] = remoteSdp[i].addr

\* Between two calls the application has been told of every local candidate
\* of the session, in order and once.
AnnouncedOnce ==
  api = "idle" /\ HasIce => announced = [i \in DOMAIN ice.local |-> i]

\* A closed peer connection stays closed until it is destroyed.
ClosedIsFinal == [][state = "closed" /\ handle' = "live" => state' = "closed"]_vars
=============================================================================
