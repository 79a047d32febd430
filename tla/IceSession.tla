----------------------------- MODULE IceSession -----------------------------
(***************************************************************************)
(* The ICE session of src/src/ice/ice.c as operators on a session record:  *)
(* what each function of ice.c does to an ice_session_t.  The module has   *)
(* no variables, so that one session in an environment (Ice.tla) and a     *)
(* peer connection that owns sessions (PeerConnection.tla) use the same    *)
(* translation.                                                            *)
(*                                                                         *)
(* Abstractions.  An address stands for an ip:port couple; candidate       *)
(* priorities, foundations and the STUN encoding are left out.  The twelve *)
(* bytes of a transaction id are a function of the millisecond the message *)
(* is built in (stun.c:126-142, ice.c:523-537), so the id is that          *)
(* millisecond; 0 stands for "not valid".  Pointers into local[],          *)
(* remote[] and check_pairs[] are indices, 0 being NULL.                   *)
(***************************************************************************)
EXTENDS Integers, Sequences

CONSTANTS
  LocalAddr,        \* addresses of this host, and those a mapped address may name
  RemoteAddr,       \* addresses a remote candidate or a packet source may have
  MaxCandidates,    \* ICE_MAX_CANDIDATES
  RetryMs           \* ICE_STUN_TIMEOUT_MS * ICE_MAX_RETRIES

ASSUME IceAssumption ==
  /\ MaxCandidates \in Nat \ {0}
  /\ RetryMs \in Nat

(***************************************************************************)
(* ice_candidate_internal_t, ice_check_pair_t and ice_session_t.           *)
(***************************************************************************)
LocalCandidate ==
  [type : {"host", "srflx"}, addr : LocalAddr, selected : BOOLEAN]

CheckPair ==
  [local : Nat, remote : Nat, succeeded : BOOLEAN, ping : Nat, txid : Nat]

Session ==
  [state : {"new", "gathering", "gathered", "checking", "done"},
   socket : BOOLEAN,
   local : Seq(LocalCandidate),
   remote : Seq(RemoteAddr),
   pairs : Seq(CheckPair),
   selected : Nat,
   serverTxid : Nat]

\* ice_session_create: everything zeroed, no socket.
NewSession ==
  [state |-> "new", socket |-> FALSE, local |-> << >>, remote |-> << >>,
   pairs |-> << >>, selected |-> 0, serverTxid |-> 0]

-----------------------------------------------------------------------------
(***************************************************************************)
(* Check pairs.                                                            *)
(***************************************************************************)
NewPair(l, r) ==
  [local |-> l, remote |-> r, succeeded |-> FALSE, ping |-> 0, txid |-> 0]

MaxPairs == MaxCandidates * MaxCandidates

\* The room left in check_pairs[]: both loops that add pairs stop at it.
Room(s) == MaxPairs - Len(s.pairs)

PairsAdded(s, n) == IF n <= Room(s) THEN n ELSE Room(s)

\* Pairs of a new remote candidate with the local ones, in their order.
RemotePairs(s, r) ==
  [l \in 1..PairsAdded(s, Len(s.local)) |-> NewPair(l, r)]

\* ice_add_check_pairs_for_local_candidate: a new local candidate with the
\* remote ones, in their order.
LocalPairs(s, l) ==
  [r \in 1..PairsAdded(s, Len(s.remote)) |-> NewPair(l, r)]

-----------------------------------------------------------------------------
(***************************************************************************)
(* Gathering.  ice_start_gathering runs under the mutex of its peer        *)
(* connection only, so the thread in tinyrtc_process_events (which holds   *)
(* the context's mutex) may look at the session between its steps: opening *)
(* the socket, one step per interface, the STUN request.                   *)
(***************************************************************************)
GatherStart(s) == [s EXCEPT !.state = "gathering"]

\* socket() or bind() failed: reported as an error, with the state "gathered".
GatherFailed(s) == [s EXCEPT !.state = "gathered"]

GatherSocket(s) == [s EXCEPT !.socket = TRUE]

\* ice_add_local_candidate: silently nothing when full or already present.
AddHost(s, a) ==
  IF \/ Len(s.local) >= MaxCandidates
     \/ \E i \in DOMAIN s.local : s.local[i].addr = a
  THEN s
  ELSE [s EXCEPT !.local =
          Append(@, [type |-> "host", addr |-> a, selected |-> FALSE])]

\* txid is 0 when there is no STUN server; otherwise the id is recorded
\* before the name is resolved and the request sent.
GatherEnd(s, txid) ==
  [s EXCEPT !.state = "gathered",
            !.serverTxid = IF txid = 0 THEN @ ELSE txid]

-----------------------------------------------------------------------------
(***************************************************************************)
(* ice_add_remote_candidate.                                               *)
(***************************************************************************)
\* Wrong variant (the bound is off by one), for the sensitivity of TypeOK.
AddRemoteFailsLate(s) == Len(s.remote) > MaxCandidates

AddRemoteFails(s) == Len(s.remote) >= MaxCandidates

AddRemote(s, a, udp) ==
  IF AddRemoteFails(s) \/ ~udp
  THEN s
  ELSE [s EXCEPT !.remote = Append(@, a),
                 !.pairs = @ \o RemotePairs(s, Len(s.remote) + 1)]

-----------------------------------------------------------------------------
(***************************************************************************)
(* ice_process_packet.                                                     *)
(***************************************************************************)

\* A binding request from address src: every pair with that remote address
\* succeeds (the response sent back is no state of the session).
OnRequest(s, src) ==
  [s EXCEPT !.pairs =
     [i \in DOMAIN s.pairs |->
        IF s.remote[s.pairs[i].remote] = src
        THEN [s.pairs[i] EXCEPT !.succeeded = TRUE]
        ELSE s.pairs[i]]]

Matches(s, txid) == {i \in DOMAIN s.pairs : s.pairs[i].txid # 0 /\ s.pairs[i].txid = txid}

IsFirst(i, S) == i \in S /\ \A j \in S : i <= j

First(S) == CHOOSE i \in S : IsFirst(i, S)

\* The first pair whose last transaction id is that of the response.
Credit(s, txid) ==
  [s EXCEPT !.pairs =
     [i \in DOMAIN s.pairs |->
        IF IsFirst(i, Matches(s, txid))
        THEN [s.pairs[i] EXCEPT !.succeeded = TRUE]
        ELSE s.pairs[i]]]

\* Wrong variant (the call that makes the pairs is missing), for the
\* sensitivity of PairsComplete.
AddServerReflexiveUnpaired(s, mapped) ==
  IF Len(s.local) >= MaxCandidates
  THEN s
  ELSE [s EXCEPT !.local =
          Append(@, [type |-> "srflx", addr |-> mapped, selected |-> FALSE])]

\* A mapped address becomes a server reflexive candidate whoever answered,
\* and whether or not the address is already there.
AddServerReflexive(s, mapped) ==
  IF Len(s.local) >= MaxCandidates
  THEN s
  ELSE [s EXCEPT !.local =
                   Append(@, [type |-> "srflx", addr |-> mapped, selected |-> FALSE]),
                 !.pairs = @ \o LocalPairs(s, Len(s.local) + 1)]

IsServerResponse(s, txid) == s.serverTxid # 0 /\ s.serverTxid = txid

\* A binding response; mapped is the set that holds the mapped address it
\* carries, empty when it carries none.
OnResponse(s, txid, mapped) ==
  LET credited == IF IsServerResponse(s, txid) THEN s ELSE Credit(s, txid)
  IN  IF mapped = {}
      THEN credited
      ELSE AddServerReflexive(credited, CHOOSE m \in mapped : TRUE)

-----------------------------------------------------------------------------
(***************************************************************************)
(* ice_check_connectivity(ice, now).                                       *)
(***************************************************************************)
CanCheck(s) == s.state \in {"gathered", "checking", "done"}

\* Wrong variant (a check is never repeated), for the sensitivity of Connects.
DueOnce(s, now) == {i \in DOMAIN s.pairs : ~s.pairs[i].succeeded /\ s.pairs[i].ping = 0}

\* The pairs pinged in this call.
Due(s, now) ==
  {i \in DOMAIN s.pairs :
     /\ ~s.pairs[i].succeeded
     /\ s.pairs[i].ping = 0 \/ now - s.pairs[i].ping > RetryMs}

\* Wrong variant (the pairs record the time of the pass instead of the id that
\* is sent), for the sensitivity of CreditSoundIfDistinct.
PingedWithPassTime(s, now, at) ==
  [s EXCEPT !.state = IF @ = "gathered" THEN "checking" ELSE @,
            !.pairs =
     [i \in DOMAIN s.pairs |->
        IF i \in Due(s, now)
        THEN [s.pairs[i] EXCEPT !.ping = now, !.txid = now]
        ELSE s.pairs[i]]]

\* at[i] is the millisecond in which the request of pair i is built.
Pinged(s, now, at) ==
  [s EXCEPT !.state = IF @ = "gathered" THEN "checking" ELSE @,
            !.pairs =
     [i \in DOMAIN s.pairs |->
        IF i \in Due(s, now)
        THEN [s.pairs[i] EXCEPT !.ping = now, !.txid = at[i]]
        ELSE s.pairs[i]]]

Succeeded(s) == {i \in DOMAIN s.pairs : s.pairs[i].succeeded}

\* Wrong variants (the state is not advanced; the selection is made anew in
\* every pass), for the sensitivity of SelectionSound and NothingForgotten.
SelectedSilently(s) ==
  IF s.selected # 0 \/ Succeeded(s) = {}
  THEN s
  ELSE LET p == First(Succeeded(s))
       IN  [s EXCEPT !.selected = p, !.local[s.pairs[p].local].selected = TRUE]

SelectedAnew(s) ==
  IF Succeeded(s) = {}
  THEN s
  ELSE LET p == First(Succeeded(s))
       IN  [s EXCEPT !.selected = p,
                     !.state = "done",
                     !.local[s.pairs[p].local].selected = TRUE]

\* The first succeeded pair is selected, once and for all.
Selected(s) ==
  IF s.selected # 0 \/ Succeeded(s) = {}
  THEN s
  ELSE LET p == First(Succeeded(s))
       IN  [s EXCEPT !.selected = p,
                     !.state = "done",
                     !.local[s.pairs[p].local].selected = TRUE]

CheckConnectivity(s, now, at) ==
  IF CanCheck(s) THEN Selected(Pinged(s, now, at)) ELSE s

IceIsConnected(s) == s.selected # 0 /\ s.pairs[s.selected].succeeded

-----------------------------------------------------------------------------
(***************************************************************************)
(* What is true of a session s, whatever happens to it.                    *)
(***************************************************************************)

\* Its fields have their types and no list is longer than its array.
SessionTyped(s) ==
  /\ s \in Session
  /\ Len(s.local) <= MaxCandidates
  /\ Len(s.remote) <= MaxCandidates

\* Every pair names a local and a remote candidate that exist.
PairsInRange(s) ==
  \A i \in DOMAIN s.pairs :
    /\ s.pairs[i].local \in DOMAIN s.local
    /\ s.pairs[i].remote \in DOMAIN s.remote

\* There is one pair per combination, and it is there once.
PairCount(s) == Len(s.pairs) = Len(s.local) * Len(s.remote)

PairsDistinct(s) ==
  \A i, j \in DOMAIN s.pairs :
    /\ s.pairs[i].local = s.pairs[j].local
    /\ s.pairs[i].remote = s.pairs[j].remote
    => i = j

\* "done" is the state with a selected pair; that pair exists, its check
\* succeeded and its local candidate is the one marked as selected.
SelectedPairOK(s) ==
  /\ s.state = "done" <=> s.selected # 0
  /\ s.selected # 0 =>
       /\ s.selected \in DOMAIN s.pairs
       /\ s.pairs[s.selected].succeeded
       /\ s.local[s.pairs[s.selected].local].selected

\* Host candidates get no pairs of their own: they are all there before
\* the first remote candidate.
HostsFirst(s) == s.state \in {"new", "gathering"} => s.remote = << >>

\* From s to t no pointer into the session changes its meaning: a candidate
\* never moves or changes its address, a success is never taken back, and
\* the selected pair stays the selected pair.
Kept(s, t) ==
  /\ \A i \in DOMAIN s.local :
       i \in DOMAIN t.local /\ t.local[i].addr = s.local[i].addr
  /\ \A i \in DOMAIN s.remote :
       i \in DOMAIN t.remote /\ t.remote[i] = s.remote[i]
  /\ \A i \in DOMAIN s.pairs :
       /\ i \in DOMAIN t.pairs
       /\ s.pairs[i].succeeded => t.pairs[i].succeeded
  /\ s.selected # 0 => t.selected = s.selected

\* The inductive form of the state predicates.
SessionInv(s) ==
  /\ SessionTyped(s)
  /\ PairsInRange(s)
  /\ PairCount(s)
  /\ PairsDistinct(s)
  /\ SelectedPairOK(s)
  /\ HostsFirst(s)
=============================================================================
