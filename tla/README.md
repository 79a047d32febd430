# TinyRTC: TLA+ models and proofs

TinyRTC is a small WebRTC stack in C: ICE, DTLS-SRTP, RTP with H.264
packetisation, a jitter buffer, congestion control, SDP and signalling over a
WebSocket, with two demo applications.  This directory holds TLA+ modules that
model it, TLC configurations that check them on small instances, and proofs
checked by TLAPS.  Paths below are relative to the repository's `src/`, except
`include/` and `demo/`.

## The system

| Component | Code | State | Operations | Correct when |
|---|---|---|---|---|
| ICE session | `ice/ice.c` | state, socket, `local[]`, `remote[]`, `check_pairs[]`, selected pair, server's transaction id | gather, add remote candidate, process packet, check connectivity | every combination of candidates is checked once; what succeeded was heard from; the selection is sound and final; it connects when it can |
| STUN | `ice/stun.c` | none | build and parse requests and responses | an answer can be told from every other one |
| Peer connection | `peer_connection.c` | state, present ICE session, local and remote description, DTLS, SRTP, tracks | create, destroy, offer, answer, remote description, add candidate, close, tracks, send | "connected" is about the present session; no candidate is lost; closed is final |
| Event loop | `tinyrtc.c` | list of peers | one pass: signalling, `select`, one packet per peer, checks, start of DTLS and SRTP | every packet reaches its consumer in a state that can use it |
| DTLS | `media/dtls.c` | mbedtls context, ICE session, one pending datagram | init, start, feed, poll, derive keys | the handshake goes through the session that is connected, and both sides finish |
| SRTP | `media/srtp.c` | keys, packet counter | encrypt, decrypt | media is decrypted with the keys it was encrypted with |
| RTP media | `media/rtp.c`, `peer_connection.c` | send sequence, reassembly buffer | packetise, send, depacketise, deliver | a frame that is delivered is one frame, whole |
| Jitter buffer | `media/rtp.c` | sorted array, next playout time | add, get | played in order at the configured pace |
| Congestion control | `cc/congestion_control.c` | target and estimated bitrate, pacing time | feedback, congestion, may I send | the target stays between its bounds |
| Signalling | `signaling/signaling.c` | socket, state, fragment buffer | create, connect, send, process, disconnect, destroy | every message sent by the server becomes one event, whole and in order; what is escaped is read back |
| SDP | `signal/*.c` | none | parse, generate | what is generated is parsed back |
| Demo applications | `demo/demo_sender.c`, `demo/demo_receiver.c` | peer joined, offer sent, pending offer | callbacks, `main` loop | caller and callee exchange descriptions, no candidate is lost between them |
| RTCP, codec table | `media/rtp.c`, `media_codec.c` | none | pure functions | |

The application calls the peer connection and the event loop, in one thread
unless it asks for locks (`ARCHITECTURE.md:183`); the demos are one thread each.
Signalling calls the application back, which passes descriptions and candidates
on to the peer connection: the callee keeps an offer and sets it later from
`main`.  The loop reads at most one datagram per peer and pass: STUN goes to
ICE, the rest to DTLS until there are SRTP keys and to RTP afterwards; then it
runs the checks, and when they connect it starts DTLS on the session.  ICE
session and candidates are shared by pointer with DTLS and the send path.

What is hard: the orders in which candidates, descriptions and sessions can
arrive; answers that come late, twice or never and are matched by an id that a
retry overwrites; a second offer that replaces the session under a handshake;
flights of DTLS that are lost, repeated or met by media; frames of the
WebSocket in pieces and messages in several frames; loss and reordering of
fragments; allocation failing in the middle; 16 and 32-bit counters.
`PROJECT.json` lists each hazard at its line.

## Modules

| Module | What it is |
|---|---|
| `IceSession` | the functions of `ice.c` as operators on a session record, and `SessionInv`, what is always true of one |
| `Ice` | one session with the calls on it, the clock, the peer, the STUN server and the network |
| `PeerConnection` | a peer connection and the pass of the event loop over it; its `ice` is a record of `IceSession`, changed only by the operators of that module |
| `Call` | the two demo applications, each with a peer connection's candidates and an ICE session (`IceSession`), and the signalling server between them |
| `DtlsLink` | two peer connections making their handshake and sending media over a network |
| `SignalChannel` | what a signalling client promises (abstract specification) |
| `Signaling` | the WebSocket client with the server and TCP, shown to implement `SignalChannel` |
| `JsonText` | escaping and extraction of strings in `signaling.c`, as recursive functions |
| `RtpMedia` | one video track from `tinyrtc_track_send_video_frame` over a network to `on_video_frame` |
| `PlayoutQueue` | what a jitter buffer promises (abstract specification) |
| `JitterBuffer` | the sorted array of `rtp.c`, with 16-bit sequence numbers, shown to implement `PlayoutQueue` |
| `CongestionControl` | the rate control and the pacing of `congestion_control.c` |
| `MC...` | instances of the module of that name for TLC |
| `IceSessionProofs` | every operation preserves `SessionInv` and forgets nothing (lemmas) |
| `IceProofs`, `PeerConnectionProofs`, `CallProofs`, `SignalingProofs`, `RtpMediaProofs`, `JitterBufferProofs` | the theorems about the `Spec` of the module of that name |
| `LinkProofs` | the theorems about `DtlsLink` (`Spec`) and `CongestionControl` (`CcSpec`) |

Where a module has an operator or action marked "wrong variant", that is a
plausible mistake in the code, kept to show that a property notices it; no
specification uses it.

**Ice.** An address stands for an ip:port pair, and pointers into the session's
arrays are indices.  A transaction id is the millisecond the request is built
in, because that is all `stun.c:126` and `ice.c:524` make it from.
`ScanInterface`, `OpenSocket`, `SocketFails`, `FinishGathering` and
`FinishGatheringWithStun` are the steps of `ice_start_gathering`;
`AddRemoteCandidate`, `ReceiveRequest`, `ReceivePeerResponse`,
`ReceiveServerResponse` and `Check` are one call each of the function of that
purpose.  A request sent stays in `asked`: it may be answered never or any
number of times at any later moment, which is loss, delay, duplication and
reordering at once.

**PeerConnection.** The steps of `create_offer` (and of `create_answer`, which
does the same to this state) are `BeginDescription`, `CreateSession`, `Gather`,
`AddFromSdp`, `AddedFromSdp`, `AnnounceLocal` and `FinishDescription`.  A call
runs to its end before the loop does, and the reverse, because both are in one
thread.  A pass of the loop is one of `NoPacket`, `ReceiveRequest`,
`ReceiveResponse` and `ReceiveDatagram`, then `Advance`.  `Destroy` frees the
connection and takes it out of `ctx->peers`, `Create` makes the next one.
`unused` is history: how many candidates at the head of `remote_sdp` came with
a description that failed to parse and wait for the next session.  Time stands still there
(`Ice` is about time): a check is sent once, and the id of a request is the
index of its pair.  mbedtls is external: a handshake that has been given a
datagram may be complete or not.

**Call.** A description is the list of candidates in it.  `stage` is where
either `main` is; one action is one message taken from signalling with what the
callback does, or one step of `main` between two passes.  The caller offers
once, when it has been told of a callee; the callee keeps an offer in
`pending` (`g_pending_offer`), sets it in the next round and answers.  Local
candidates are announced while a description is made and, by `Reflexive`, when
a check or the STUN server has shown a mapped address.  The server forwards in
order; `Break` is a signalling connection that fails for good, `Restart` a
callee that is stopped and started again.  Gathering succeeds, because a
failure ends the call (as in `PeerConnection`).  What `Signaling` finds about its
channel is not in `Call`: until `Break` every message that is sent arrives, whole
and in order, although a frame that is read in part is lost on a link that stays
up (`sig_split`), and a description whose escaped form has more than 4095
characters is cut (`escaped_sdp`).  `CandidatesKept`, `CallEstablished` and `CandidatesKnown` are
about calls to which neither happens.  Worth knowing: the candidates
trickled while an offer is being made arrive before it and are wiped when it is
parsed, which does no harm because the offer repeats them; a candidate that is
both trickled and repeated takes two places of the array.

**DtlsLink.** A datagram is the flight of the handshake it carries, or media
with the keys it was encrypted with.  `Pass` and `PassWith` are one pass of
`tinyrtc_process_events` over a connection, without and with a datagram: feed
DTLS or decrypt (`Received`), connect and start the handshake (`Connected`),
retransmit when the timer has run out, derive the keys once the handshake is
over (`Finish`).  `dtls_init` may fail, and is tried once after ICE connected;
the SRTP contexts may fail and are tried in each pass.  An error that mbedtls
reports for a handshake, in a pass or already in `dtls_start`, is logged and no
more (`HandshakeFails`): the context stays, of no use from then on, and the
connection stays connected without keys.  The handshake of mbedtls
is a small machine over flights (`ClientHandshake`, `ServerHandshake`).  What
`dtls.c` adds is the reset after a HelloVerifyRequest (`Recovered`) and feeding
the same ClientHello once more, so that the server sends two of them and then
waits for the one with the cookie.  The network is a set: `PassWith` may leave
the datagram there (duplication, reordering), `Lose` takes one away.

**Signaling.** The server's stream is a sequence of frames, each of two halves
(header and payload do not matter, only that a frame can arrive in part);
`arrived` counts the halves TCP has delivered.  One action is one call of
`tinyrtc_signaling_process` with what it reads: a whole message (`ReadMessage`),
a fragment (`ReadFirst`, `ReadMiddle`, `ReadLast`), a ping, a frame that cannot be
read (close, a failing read, or too large, which the header tells alone), or
half a frame (`ReadPart`).  A message has one frame, or a first and a last one
with up to `MaxBetween` continuations and pings between them (`Framings`).
`sig_read_ws_frame` returns without a record of what it has consumed, so the
rest of that frame is then read as if it were a header: from there `skewed`
holds, and `ReadSkewed` allows any event.  What becomes of a message follows
its type (`Reported`); `event_type` is not assigned for an unknown type, so
anything may be reported.  `SignalChannel` knows messages, not frames: they are
reported in order, each once and whole until a fault, in order and at most once
after it.  The refinement substitutes `Kind` and `Reported` only; the other
variables have the same names.  A text to send is a sequence of characters of
the few classes that matter to escaping (`JsonText!Char`), because there the
conversion is the point: `Extract` is `sig_extract_json_string_field`, reading
`Escape` of the text with the buffer's bound.

**RtpMedia.** A frame is its shape: the number of packets each of its NAL units
takes, 0 for a start code with nothing behind it (at the end of a frame it costs
the frame its marker); a payload is the name of that part of the frame, and the
RTP timestamp is the number of the frame.  `SendFrame` is the start of the
packetiser, `SendPacket` and `SendFails` the two ends of
`packetize_send_callback`, which advances the number in the packetiser's context
always and the track's only when the packet left; `UnitFails` is a fragmented
unit for which the packetiser gets no memory, which it leaves out.  `Receive` is
`pc_process_incoming_rtp`: any packet sent may arrive at any later moment and
any number of times; `ReceiveFails` is the one for which the reassembly buffer
cannot grow, which drops what was in it.  The jitter buffer is not in the way of
a frame there, because the packet put into it is depacketised at once; a packet
whose type of NAL unit `rtp.c:947` does not know (0, 24 to 31 without 28) is as
good as lost there; SRTP decides nothing from earlier packets.

**JitterBuffer.** A packet is its position in the sender's stream; the code sees
the lowest 16 bits of it (`Sequence`) and compares them through a signed
difference (`Before`).  `AddPacket` makes room, finds the place and inserts;
`AddFails` is the call that makes room and then returns with an error;
`GetPacket` plays the head when its time has come.  `InWindow` is the one
assumption about the environment: a packet arrives within half of the sequence
space of those in the buffer, without which 16 bits cannot tell an order.
`late` marks an entry that was older than what had been played when it came; it
and `newest`, `playedAt` and the ids are history, which no guard reads.  The
refinement forgets the array and its order: `PlayoutQueue` holds a set of
packets, plays an oldest one, not before `Delay` has passed since the last, and
gives up an oldest one when it has to make room.

**CongestionControl.** One action per function that changes something:
`ReportFeedback`, `ReportCongestion`, and `FirstPacket` and `NextPacket` for
`tinyrtc_cc_can_send` when it says yes.  Sums are taken modulo `Word`, because
the code adds two `uint32_t` before it compares; divisions cut as the casts do.
Left out: what `tinyrtc_cc_report_packet_sent` counts, which nothing reads, and
the rounding of doubles before the cast.  No caller in the repository uses this
component yet, so the model lets its functions be called in any order, with any
configuration.  The names `CcInit`, `CcSpec` and so on let `LinkProofs` extend
this module next to `DtlsLink`.  `paced` and `peak` are history: what was let through, and the
highest rate so far.

## What the runs check

| Run | Shows |
|---|---|
| `ice_safety` | `PairsComplete`, `SelectionSound`, `CreditSoundIfDistinct`, `NothingForgotten` and the liveness property `Connects`, with two local and two remote addresses, two candidates on each side, four pairs |
| `ice_shared_id` | finding: two checks of one millisecond share their id, and the wrong pair succeeds |
| `pc_single` | `SessionSound`, `ConnectedMeansIce`, `HandshakeHasTransport`, `RemoteSynced` and `AnnouncedOnce`, over descriptions, candidates, packets, destruction and creation in every order |
| `pc_closed` | finding: a closed peer connection becomes connected |
| `call_setup` | `CandidatesKept` at any time; `CallEstablished` and `CandidatesKnown` in the end |
| `dtls_link` | `KeysMatch` and `HandshakeOrdered`; unless mbedtls reports an error, `ServerKeyed`, and if the last flight is not lost `ClientKeyed` |
| `sig_stream` | `ImplementsChannel`, `ReadBack` and `Delivered`, with fragments, pings, a server that closes, reads that fail and bytes in any pieces |
| `sig_split` | finding: a frame that arrives in two pieces is dropped, and a later message is processed as if there had been none |
| `media_lossy` | `WireSequence`, `OneTimestamp` and `FrameRecovered` over a network that loses, repeats and reorders, with packets that cannot be sent and memory that runs out |
| `media_frames` | finding: a frame with a fragmented NAL unit before another one is delivered in pieces over a perfect network |
| `jitter_queue` | `OnlyLateOutOfOrder` and `ImplementsQueue`: the buffer is a playout queue across the wrap, overflow and failed insertions |
| `cc_rate` | `TargetInBounds`, `EstimateInBounds`, `ClearNeverLowers` and `PacedWithinTwice` for sensible and odd configurations |

**Bounds.** *ICE and peer connection:* `MaxCandidates` (32 in the code) is 2:
two candidates on each side fill the arrays, so the limits are met, the loops
that make pairs run more than once, and a list may be full on one side only.
`RetryMs` (3000) is a millisecond and `MaxClock` three or four: enough for a
check, a retry of it and an answer to the first.  `MaxSpan` bounds the
milliseconds one pass of checks takes; 1 tells two requests apart or not.
`MaxSessions = 2` is one offer or answer and one that replaces it.  A remote
description carries at most one candidate there; more come by `AddIceCandidate`.
*Call:* four addresses, a host and a mapped one of either side, and
`MaxCandidates = 4`, which candidates that are found twice can fill;
`MaxRestarts = 1`.  *DtlsLink:* none, the set of datagrams is finite.
*Signaling:* `Kinds` are one message that is silent and one that is reported
with data, the two ways a message can go; `MaxMessages = 2` and `MaxPings = 1`
are two messages that can be confused and one control frame between them;
`MaxBetween = 1` is a message of up to three frames, which fill `MaxBuf = 3`
exactly if they are short; a frame of length 4 overruns it, and so do fragments
after a partial read has left others behind.  `MCTexts` has a text that just fits
`EscapedSize = 11` and whose pairs read as escapes, and one of which a character
does not fit and the next one does.  *RtpMedia:*
`MaxFrames = 2` is a frame and the one it can be confused with; shapes of one to
three packets have a single unit, a fragmented one, each before the other, and a
start code at the end;
`MaxArrivals = 5` lets both frames arrive whole, or one of them after parts of
the other or after repeated packets.  `SeqSpace` (65536) is 4 there, which two
frames wrap, and half of which a frame can exceed; in `media_frames` it is
65536.  *JitterBuffer:* `BufferSize = 3` overflows
with the fourth packet; the positions lie on both sides of 65536, and one is
the farthest that can still be ordered; `MinDelay` and `MaxDelay` differ, so
that the clamp counts.  *CongestionControl:* `Word = 65536` and
`AddIncrease = 1000` scale the rates so that TLC's integers hold every product;
one configuration is close enough to `Word` for the sum to wrap, one starts
above its bounds, one below and one at its minimum; four reports are two falls
and two rises in every order, in eight milliseconds of pacing.
`CHECK_DEADLOCK FALSE` wherever the bounds stop the model.

**Fairness.** *Ice:* `Check` because the application calls
`tinyrtc_process_events` in a loop, `Tick` because time passes, and the arrival
of an answer from an address that does answer, because nothing connects through
a network that loses everything; all weak.  The clock is bounded, so the run
leaves time for at least one repetition of every check.  *Signaling:* weak
fairness of the arrival of bytes that TCP carries and of `Process`, which the
application calls in a loop.  *Call:* weak fairness of either application's
loop.  *DtlsLink:* weak fairness of the passes in which ICE connects, and of
those in which the timer has run out and allocation succeeds; strong fairness
of the delivery of each flight of the handshake, because a flight that is sent
again and again gets through in the end.  mbedtls stops retransmitting after
about a minute, which the model does not: its promise is for a network that is
not down for so long.  The liveness properties name what excuses them: a
damaged or ended connection (`Delivered`), signalling that failed, a callee
that was restarted or a list that is full (`CallEstablished`,
`CandidatesKnown`), a side without a DTLS context (`Able`), a handshake that
mbedtls has given up with an error (`Broken`) and a lost last
flight (`ClientKeyed`: once the server has its keys it takes the client's
retransmission for media, `tinyrtc.c:248`, and never answers).

## What is proved

Every theorem is for all values of the constants, from the named assumptions of
the module it is about (`IceAssumption`, `EnvAssumption`, `PeerAssumption`,
`LinkAssumption`, `SignalingAssumption`, ...) and nothing else.

**ICE**

- `TypeCorrect`: no list of a session outgrows its array;
- `PairsAreComplete`: each local candidate is checked against each remote one, once;
- `SelectionIsSound`: done means selected, and the selected pair exists and succeeded;
- `NothingIsForgotten`: no step moves a candidate, takes a success back or
  changes the selection, so the pointers kept by `dtls.c` stay meaningful;
- `CreditIsSound`: as long as no two addresses were asked under one id, a pair
  succeeds only when its own remote address was heard from.

The inductive invariant of the first four is `SessionInv(ice)` with the types of
the other variables.  `PairsComplete` alone is not inductive: it needs
`HostsFirst` (host candidates get no pairs of their own, so there must be no
remote candidate yet while they are added) and the lists' bounds, from which
the product of their lengths never exceeds `MaxPairs` and the two loops that
stop there are never cut short.  `CreditIsSound` adds that the id a pair waits
for is that of a request sent to its own address (`CreditInv`).
`IceSessionProofs` has one lemma per operation, used by `IceProofs` and
`PeerConnectionProofs`.

**Peer connection**: `TypeCorrect`, `SessionIsSound`, `ConnectedIsCurrent`,
`HandshakeCanAnswer`, `SessionKnowsRemote` and `EachAnnouncedOnce`, which are all
the properties of `pc_single`, for any number of descriptions.  They speak of the state between two calls; the invariant `Inv`
says what holds within one.  `Calls`: where a call is, and that the loop is
not.  `Sessions`: up to `next` the candidates of the remote description have
been replayed into the session.  `Announcing`: up to `next` the local ones have
been announced.  `Transport`: DTLS sends through the present session as soon as
that has a selected pair, except between `dtls_init` and the new session of a
description; this is what makes "connected" mean the present session.

**DTLS**: `TypeCorrect`, `MediaKeysMatch` and `HandshakeInOrder`, whatever is
lost, repeated or reordered.  The invariant says what a datagram on its way
proves about its sender (`Telling`: the Finished, that the client has come that
far; the last flight, that the server is through; media, which keys it was
encrypted with), and is carried through the four parts of a pass (`Good`).

**Signalling**: `TypeCorrect` (what is reassembled stays in its buffer) and
`ChannelImplemented` (`Signaling!Spec` implements `SignalChannel!Spec`), for
all messages, buffers and pieces.  The invariant says that the unread frames
are numbered as the messages are (`InOrder`), that all of them are of messages
after the one processed last, and that, as long as nothing is damaged, the next
frame goes on where the client has come to: a reassembly buffer is open exactly
when that frame continues a message, and holds parts of that message only
(`Synced`).  Every step then maps to a step of the channel or a stutter.

`DescriptionsReadBack` is about the text of a message, which goes through
`Escape` and comes back through `Extract`: what is sent never overruns
`escaped_sdp`, and a text that fits and does not end with a backslash comes back
as it was.  Both conversions are recursive functions.  Along the text it is
shown that the escaped form of each character is never cut in two when the whole
fits (`EscapeWhole`), that no quote in it is taken for the closing one, because
every quote has a backslash before it that is not itself the second half of an
escape (`NoQuoteInside`, `ExtractWhole`), and that reading it back gives the
characters one by one (`UnescapeWhole`); `RoundTrip` puts these together.

**Call**: `CallTyped` and `NoCandidateLost`, for any interfaces, any order of the
two applications, the server and the STUN answers, and any number of restarts.
The invariant `CInv` has a part that always holds: each connection is sound,
each queue has only what its reader can be sent (`Sides`).  The other part
holds as long as nothing disturbs the call (`Here`).  `Progress` says how far the
two have come: there is at most one offer and one answer, an offer only
while the callee waits and an answer only while the caller has none, and a
description is set only after its sender has a session.  `Safe` follows each
candidate of a side from there on: no description of its owner is still to be
read after the message that announces the candidate (`Behind`), which is what
makes it harmless that `set_remote_description` starts `remote_sdp` anew; the
offer in hand has it, or it comes (`InHand`); and once there is a description,
it comes, or it is in the session, or in what is replayed into the next one
(`KnownTo`).  The loops over interfaces and candidates are recursive functions
(`GatheredOK`, `WithRemoteOK`).

**RTP media**, for all codecs, shapes of frames, sizes of the number space and
numbers of packets, whatever the network does and whenever memory runs out:

- `TypeCorrect`: every number on the wire and in the packetiser is a number of
  the space, and every packet is a piece of a frame that was given to it;
- `NumbersKeepOrder`: a receiver can tell the order of two packets from their
  numbers as long as the frames between them have no more than half of the
  number space in packets, also across the wrap and when packets could not be
  made or sent;
- `FramesNeverMixed`: nothing delivered is put together from two frames;
- `RecoversAlways`: whatever was lost, repeated or reordered before, a frame
  of which only the last unit is fragmented, which does not end in a start code
  and whose packets arrive in order is
  delivered whole, and leaves the reassembly buffer idle.

`TypeInv` adds to the types what `unsent` and `sent` may hold: the pieces that
`FlattenSeq` joins from the units of a frame.  For `WireSequence`, which says
nothing inductive about numbers that wrap, `WireInv` puts an unbounded position
behind each number: positions grow, and two of them are less far apart than the
number of packets the frames from the one's to the other's are cut into
(`PacketsUpTo`), however many of those could not be sent.  For `FrameRecovered`,
`RecoverInv` says of each such frame that if its first parts are what has arrived
last, in order, and nothing of it came before, they are in the buffer, in order,
under its timestamp, or delivered when they are all.  `OneTimestamp` needs that
buffer and deliveries hold parts of the frame whose timestamp is remembered, and
nothing of what the packetiser sends.

**Jitter buffer** (`InWindow` is a guard of the specification):

- `TypeCorrect`: the arrays are never overrun;
- `OrderKept`: a packet is played after a newer one only if it came too late;
- `Implements`: the specification implements `PlayoutQueue`.

`IInv` says that the array is sorted by position, that ids differ, that an entry
older than what was played is marked, and that the playout time is at least
`Delay` after the last packet played.  Sorting needs `BeforeIsLess`: the signed
difference of two 16-bit numbers has the sign of the difference of the positions
as long as that is less than 32768.  The refinement then needs two facts about
sets of entries: the tail of a sorted sequence of distinct entries holds all but
an oldest one (`TailHeld`), and an insertion holds what there was and the new
one (`InsertedContents`).

**Congestion control**, for every word size, configuration, round trip time and
size of packet:

- `CcTypeCorrect`, `TargetStaysInBounds`, `EstimateStaysInBounds`: after the first
  feedback the target is within the configured bounds; the estimate always is,
  if the configuration is sensible and no sum wraps (`Roomy`);
- `ClearFeedbackRaises`: feedback without loss never lowers the target (`Roomy`);
- `PacingBounded`: packets of a millisecond or more leave at no more than twice
  the highest rate so far, one of them in advance.

`PacedWithinTwice` is not inductive: it speaks of the time that has passed, but
a packet is let through against the time of the next one.  `PaceInv` adds what
was paid for by that time, `paced <= 2 * peak * (nextSend - started)`; a quotient
that is not zero loses less than half when it is cut (`DivisionLosesLess`), and a
higher rate never takes back what was paid (`PeakGrows`).  Without `Roomy` the
two properties fail in the code: a maximum so close to 2^32 that target plus
increase wraps makes clear feedback drop the rate to its minimum.

**Recursive functions.**  The library's induction theorems take an operator as
a parameter, which the provers do not instantiate.  `WFMin` does not: every set
of numbers that is not empty has a least element.  From it follows that a set with 0
and the successor of each of its elements is all of `Nat`, and induction is done
with that on sets, first to show that a recursive function exists (a function
defined by itself is a `CHOOSE`, which means nothing before that) and then to
show what it computes: `NatSetInduction` and `IterationDefined` in `CallProofs`,
`RtpMediaProofs` and `SignalingProofs`.

**Model-checked only.**  All liveness (`Connects`, `Delivered`,
`CallEstablished`, `CandidatesKnown`, `ServerKeyed`, `ClientKeyed`), which this
prover cannot do.  Every invariant, action property and refinement that a
passing run checks has a theorem.

## Findings

Each is a run that expects a violation; `PROJECT.json` quotes the line that says
otherwise.  `ice_shared_id`: transaction ids called random are a function of
the millisecond.  `pc_closed`: `close` only writes the state, and the loop
overwrites it.  `media_frames`: the end of a fragmented unit is taken for the
end of a frame.  `sig_split`: what was read of a partial frame is forgotten.

## Not modelled

- Bytes: STUN, DTLS and RTP encodings, SDP text, ciphers and key derivation, the
  HTTP upgrade, URLs, base64 and TLS of signalling; foundations and priorities
  of candidates (no decision depends on them).
- An ICE session that cannot be allocated: `ice_session_create` returns NULL
  (`ice.c:170`) and both descriptions go on to use it (`peer_connection.c:450`,
  `:669`).
- RTCP, which nothing calls, and the codec table: pure functions.
- Two threads.  With locks the API takes `pc->mutex` and the loop `ctx->mutex`;
  then the old session can connect while `create_offer` replaces it, so that
  `ConnectedMeansIce` does not hold; `destroy` frees the session and the mutex
  before it takes the connection out of `ctx->peers`, so that the loop may meet
  what is left of it; and whether a callback that calls back
  into the library waits for itself depends on a lock that is not in the
  repository.  Data races inside a function are left out as well.
- The array of several peers and its growth, `add_track` and `remove_track`, and
  audio tracks, which take the path of a codec other than H.264.
- What a restarted callee may expect: `g_offer_sent` is never reset, so it gets
  no offer, and nothing in the repository says that it should.  `Call` checks
  the safety properties across the restart and excuses the liveness ones.
- AOSL and mbedtls (git submodules that are not in the repository) beyond what
  the code's use of them shows.

What could follow: the list of peers with more than one connection in a pass;
tracks, with their two locks.
