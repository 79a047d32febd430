--------------------------------- MODULE Call ---------------------------------
(***************************************************************************)
(* A call between the two applications of the repository, a caller         *)
(* (src/demo/demo_sender.c) and a callee (src/demo/demo_receiver.c), each  *)
(* with a peer connection (src/src/peer_connection.c), an ICE session      *)
(* (IceSession) and a signalling client, through a server that forwards    *)
(* what a member of the room sends to the other member, in order (as       *)
(* SignalChannel says).  Either application is one thread.                 *)
(*                                                                         *)
(* Descriptions are the candidates in them.  A failure of the signalling   *)
(* connection is final: later sends fail and nothing is read any more.     *)
(* Until then its messages arrive whole and in order: neither the frame    *)
(* that is lost when it is read in part (signaling.c:582-680) nor the cut  *)
(* of an escaped description at 4095 characters is here, see Signaling.    *)
(* Checks and media are left to Ice, DtlsLink and RtpMedia.                *)
(***************************************************************************)
EXTENDS IceSession

CONSTANTS
  Hosts,         \* the host addresses of either side, in the order of its interfaces
  Mapped,        \* the address a STUN server or a peer sees either side at
  MayBreak,      \* may signalling connections fail?
  MaxRestarts    \* bound: times the callee is stopped and started again

Peers == {"caller", "callee"}

ASSUME CallAssumption ==
  /\ LocalAddr = RemoteAddr
  /\ Hosts \in [Peers -> Seq(LocalAddr)]
  /\ Mapped \in [Peers -> LocalAddr]
  /\ MayBreak \in BOOLEAN
  /\ MaxRestarts \in Nat

VARIABLES
  pc,        \* the peer connections
  stage,     \* where main() is
  link,      \* does the signalling connection work?
  queue,     \* what the server has for either side
  joined,    \* g_peer_joined of the caller
  offered,   \* g_offer_sent of the caller
  pending,   \* g_pending_offer of the callee
  told,      \* history: the server has told the caller of a callee
  restarts   \* history: restarts of the callee

vars == <<pc, stage, link, queue, joined, offered, pending, told, restarts>>

\* has: pc->ice # NULL; sdp: the candidates of pc->remote_sdp; described: a
\* remote description has been set.
NewPeerConnection == [has |-> FALSE, ice |-> NewSession, sdp |-> << >>, described |-> FALSE]

PeerConnections ==
  [has : BOOLEAN, ice : Session, sdp : Seq(RemoteAddr), described : BOOLEAN]

Msg(type, candidates) == [type |-> type, candidates |-> candidates]

Message ==
  [type : {"peer-joined", "offer", "answer", "candidate"}, candidates : Seq(LocalAddr)]

Init ==
  /\ pc = [p \in Peers |-> NewPeerConnection]
  /\ stage = [p \in Peers |-> "out"]
  /\ link = [p \in Peers |-> TRUE]
  /\ queue = [p \in Peers |-> << >>]
  /\ joined = FALSE
  /\ offered = FALSE
  /\ pending = << >>
  /\ told = FALSE
  /\ restarts = 0

Other(p) == IF p = "caller" THEN "callee" ELSE "caller"

InRoom(p) == stage[p] \notin {"out", "exited"}

-----------------------------------------------------------------------------
(***************************************************************************)
(* peer_connection.c, as far as candidates go.                             *)
(***************************************************************************)
Addresses(s) == [i \in DOMAIN s.local |-> s.local[i].addr]

\* The session of a description, with one host candidate per interface.
Gathered(p) ==
  LET with[i \in 0..Len(Hosts[p])] ==
        IF i = 0 THEN GatherSocket(GatherStart(NewSession)) ELSE AddHost(with[i - 1], Hosts[p][i])
  IN  GatherEnd(with[Len(Hosts[p])], 0)

\* Candidates are added in order, as far as there is room.
WithRemote(s, candidates) ==
  LET with[i \in 0..Len(candidates)] ==
        IF i = 0 THEN s ELSE AddRemote(with[i - 1], candidates[i], TRUE)
  IN  with[Len(candidates)]

\* Wrong variant (nothing is replayed), for the sensitivity of CandidatesKept.
DescribedOnly(p) == [pc[p] EXCEPT !.has = TRUE, !.ice = Gathered(p)]

\* create_offer and create_answer: a new session, into which the candidates
\* of remote_sdp are replayed.
Described(p) ==
  [pc[p] EXCEPT !.has = TRUE, !.ice = WithRemote(Gathered(p), pc[p].sdp)]

\* sdp_parse reads no more candidates than there is room for.
Parsed(candidates) ==
  SubSeq(candidates, 1, IF Len(candidates) <= MaxCandidates THEN Len(candidates) ELSE MaxCandidates)

\* set_remote_description: remote_sdp is started anew.
WithRemoteDescription(connection, candidates) ==
  [connection EXCEPT
     !.sdp = Parsed(candidates),
     !.described = TRUE,
     !.ice = IF connection.has THEN WithRemote(@, Parsed(candidates)) ELSE @]

\* sdp_add_candidate finds no room.
NoRoom(connection) == Len(connection.sdp) >= MaxCandidates

\* Wrong variant (kept for the next description only), for the sensitivity of
\* CandidatesKnown.
WithCandidateKept(connection, a) ==
  IF NoRoom(connection) THEN connection ELSE [connection EXCEPT !.sdp = Append(@, a)]

\* add_ice_candidate: with no room left in remote_sdp it is refused.
WithCandidate(connection, a) ==
  IF NoRoom(connection)
  THEN connection
  ELSE [connection EXCEPT !.sdp = Append(@, a),
                          !.ice = IF connection.has THEN AddRemote(@, a, TRUE) ELSE @]

\* on_ice_candidate sends every local candidate as soon as it is known.
Announced(s) == [i \in DOMAIN s.local |-> Msg("candidate", <<s.local[i].addr>>)]

-----------------------------------------------------------------------------
(***************************************************************************)
(* The server.                                                             *)
(***************************************************************************)
Received(p, messages) == IF InRoom(p) THEN queue[p] \o messages ELSE queue[p]

\* A message of p is forwarded to the other member of the room.
Forwarded(p, messages) == [queue EXCEPT ![Other(p)] = Received(Other(p), messages)]

\* tinyrtc_signaling_create has joined the room.  A member that was there
\* before is told; whether the new one is too is up to the server.
Join(p) ==
  /\ stage[p] = "out"
  /\ stage' = [stage EXCEPT ![p] = IF p = "caller" THEN "main" ELSE "waiting"]
  /\ \E tellsNew \in BOOLEAN :
       LET toldNow == {q \in Peers : InRoom(Other(p)) /\ (q = Other(p) \/ tellsNew)}
       IN  /\ queue' = [q \in Peers |->
                          IF q \in toldNow THEN Append(queue[q], Msg("peer-joined", << >>)) ELSE queue[q]]
           /\ told' = (told \/ "caller" \in toldNow)
  /\ UNCHANGED <<pc, link, joined, offered, pending, restarts>>

Break(p) ==
  /\ MayBreak
  /\ InRoom(p)
  /\ link' = [link EXCEPT ![p] = FALSE]
  /\ UNCHANGED <<pc, stage, queue, joined, offered, pending, told, restarts>>

\* The callee is stopped and will be started again.
Restart ==
  /\ restarts < MaxRestarts
  /\ stage["callee"] # "out"
  /\ stage' = [stage EXCEPT !["callee"] = "out"]
  /\ pc' = [pc EXCEPT !["callee"] = NewPeerConnection]
  /\ link' = [link EXCEPT !["callee"] = TRUE]
  /\ queue' = [queue EXCEPT !["callee"] = << >>]
  /\ pending' = << >>
  /\ restarts' = restarts + 1
  /\ UNCHANGED <<joined, offered, told>>

-----------------------------------------------------------------------------
(***************************************************************************)
(* The applications.                                                       *)
(***************************************************************************)
\* tinyrtc_signaling_process calls the callback for one message.
Next1(p) ==
  /\ link[p]
  /\ queue[p] # << >>
  /\ queue' = [queue EXCEPT ![p] = Tail(@)]

\* Either callback for a candidate.
AddTrickled(p) ==
  /\ Next1(p)
  /\ Head(queue[p]).type = "candidate"
  /\ pc' = [pc EXCEPT ![p] = WithCandidate(@, Head(queue[p]).candidates[1])]
  /\ UNCHANGED <<stage, link, joined, offered, pending, told, restarts>>

\* The caller's loop: once it has seen the callee it makes its offer before
\* it looks at the next message.
CallerReads == stage["caller"] = "main" /\ ~(joined /\ ~offered)

CallerAddsCandidate == CallerReads /\ AddTrickled("caller")

CallerSeesPeer ==
  /\ CallerReads
  /\ Next1("caller")
  /\ Head(queue["caller"]).type = "peer-joined"
  /\ joined' = TRUE
  /\ UNCHANGED <<pc, stage, link, offered, pending, told, restarts>>

CallerTakesAnswer ==
  /\ CallerReads
  /\ Next1("caller")
  /\ Head(queue["caller"]).type = "answer"
  /\ pc' = [pc EXCEPT !["caller"] = WithRemoteDescription(@, Head(queue["caller"]).candidates)]
  /\ UNCHANGED <<stage, link, joined, offered, pending, told, restarts>>

\* A description with what is sent while it is made; when it cannot be sent
\* the application ends.
Describes(p, type, next) ==
  /\ pc' = [pc EXCEPT ![p] = Described(p)]
  /\ IF link[p]
     THEN /\ queue' = Forwarded(p, Append(Announced(Described(p).ice),
                                          Msg(type, Addresses(Described(p).ice))))
          /\ stage' = [stage EXCEPT ![p] = next]
     ELSE stage' = [stage EXCEPT ![p] = "exited"] /\ UNCHANGED queue

CallerOffers ==
  /\ stage["caller"] = "main"
  /\ joined /\ ~offered
  /\ Describes("caller", "offer", "main")
  /\ offered' = TRUE
  /\ UNCHANGED <<link, joined, pending, told, restarts>>

\* The callee waits for an offer and then leaves the loop.
CalleeReads == stage["callee"] \in {"waiting", "main"}

CalleeAddsCandidate == CalleeReads /\ AddTrickled("callee")

\* Any other event is ignored.
CalleeIgnores ==
  /\ CalleeReads
  /\ Next1("callee")
  /\ Head(queue["callee"]).type = "peer-joined"
  /\ UNCHANGED <<pc, stage, link, joined, offered, pending, told, restarts>>

\* Wrong variant (the loop does not notice), for the sensitivity of
\* CallEstablished.
CalleeKeepsWaiting ==
  /\ CalleeReads
  /\ Next1("callee")
  /\ Head(queue["callee"]).type = "offer"
  /\ pending' = <<Head(queue["callee"]).candidates>>
  /\ UNCHANGED <<pc, stage, link, joined, offered, told, restarts>>

\* The callback keeps a copy of the offer, for which the loop ends.
CalleeTakesOffer ==
  /\ CalleeReads
  /\ Next1("callee")
  /\ Head(queue["callee"]).type = "offer"
  /\ pending' = <<Head(queue["callee"]).candidates>>
  /\ stage' = [stage EXCEPT !["callee"] = IF @ = "waiting" THEN "offered" ELSE @]
  /\ UNCHANGED <<pc, link, joined, offered, told, restarts>>

\* The offer is set.
CalleeSetsOffer ==
  /\ stage["callee"] = "offered"
  /\ pending # << >>
  /\ pc' = [pc EXCEPT !["callee"] = WithRemoteDescription(@, pending[1])]
  /\ pending' = << >>
  /\ UNCHANGED <<stage, link, queue, joined, offered, told, restarts>>

CalleeAnswers ==
  /\ stage["callee"] = "offered"
  /\ pending = << >>
  /\ Describes("callee", "answer", "main")
  /\ UNCHANGED <<link, joined, offered, pending, told, restarts>>

\* tinyrtc_process_events: an answer to one of its STUN requests gives a
\* server reflexive candidate, which is announced at once.
Reflexive(p) ==
  /\ InRoom(p)
  /\ pc[p].has
  /\ Len(pc[p].ice.local) < MaxCandidates
  /\ pc' = [pc EXCEPT ![p].ice = AddServerReflexive(@, Mapped[p])]
  /\ queue' = IF link[p] THEN Forwarded(p, <<Msg("candidate", <<Mapped[p]>>)>>) ELSE queue
  /\ UNCHANGED <<stage, link, joined, offered, pending, told, restarts>>

CallerTurn == CallerAddsCandidate \/ CallerSeesPeer \/ CallerTakesAnswer \/ CallerOffers

CalleeTurn ==
  CalleeAddsCandidate \/ CalleeIgnores \/ CalleeTakesOffer \/ CalleeSetsOffer \/ CalleeAnswers

Next ==
  \/ \E p \in Peers : Join(p) \/ Break(p) \/ Reflexive(p)
  \/ Restart
  \/ CallerTurn
  \/ CalleeTurn

Spec == Init /\ [][Next]_vars

\* Both applications run their loops for ever.
FairSpec == Spec /\ WF_vars(CallerTurn) /\ WF_vars(CalleeTurn)

-----------------------------------------------------------------------------
(***************************************************************************)
(* Properties.                                                             *)
(***************************************************************************)
\* Every variable has its type; neither list of candidates outgrows its array.
TypeOK ==
  /\ pc \in [Peers -> PeerConnections]
  /\ \A p \in Peers : SessionTyped(pc[p].ice) /\ Len(pc[p].sdp) <= MaxCandidates
  /\ stage \in [Peers -> {"out", "waiting", "offered", "main", "exited"}]
  /\ link \in [Peers -> BOOLEAN]
  /\ queue \in [Peers -> Seq(Message)]
  /\ joined \in BOOLEAN /\ offered \in BOOLEAN /\ told \in BOOLEAN
  /\ pending \in Seq(Seq(LocalAddr))
  /\ restarts \in 0..MaxRestarts

Holds(list, a) == \E i \in DOMAIN list : list[i] = a

\* The session of p has no room for another candidate of its peer.
Full(p) == Len(pc[p].ice.remote) >= MaxCandidates \/ Len(pc[p].sdp) >= MaxCandidates

\* No candidate gets lost between the two sides, whether it is announced
\* while a description is made or later, comes before its description or
\* after it: once both sides have the description of the other, a candidate
\* of one is in the session of the other or still on its way, unless there
\* is no room (demo_receiver.c:148-179, :313-360, peer_connection.c:438-447, :561-569).
CandidatesKept ==
  \A p \in Peers :
    LET q == Other(p)
    IN  /\ pc[p].described /\ pc[p].has /\ pc[q].has
        /\ link["caller"] /\ link["callee"] /\ restarts = 0 /\ InRoom(p)
        => \A i \in DOMAIN pc[q].ice.local :
             LET a == pc[q].ice.local[i].addr
             IN  \/ Holds(pc[p].ice.remote, a)
                 \/ \E k \in DOMAIN queue[p] : Holds(queue[p][k].candidates, a)
                 \/ Full(p)

\* The signalling never failed and the callee was never restarted.
Undisturbed == link["caller"] /\ link["callee"] /\ restarts = 0

\* Once the server has told the caller of the callee, the two exchange their
\* descriptions.
CallEstablished ==
  told ~> (~Undisturbed \/ (pc["caller"].described /\ pc["callee"].described
                              /\ stage["callee"] = "main"))

\* Every candidate that a side ever has is known to the other in the end.
CandidatesKnown ==
  \A p \in Peers : \A a \in LocalAddr :
    Holds(Addresses(pc[p].ice), a) ~>
      (~Undisturbed \/ Full(Other(p)) \/ Holds(pc[Other(p)].ice.remote, a))
=============================================================================
