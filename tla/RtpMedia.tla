------------------------------ MODULE RtpMedia ------------------------------
(***************************************************************************)
(* One video track from tinyrtc_track_send_video_frame to on_video_frame:  *)
(* packetisation (src/src/media/rtp.c), the send sequence, the network and *)
(* the reassembly of the remote track (src/src/peer_connection.c).         *)
(*                                                                         *)
(* The network may lose, delay, duplicate and reorder: any packet that was *)
(* sent may arrive at any later moment, any number of times.  (A packet    *)
(* the jitter buffer has no memory for, and one with a type of NAL unit    *)
(* that rtp.c does not know, is dropped: as good as lost.)                 *)
(*                                                                         *)
(* Abstractions.  A frame is its shape: the number of packets each of its  *)
(* NAL units takes, 0 for one that is empty: a start code with nothing     *)
(* behind it.  The payload of a packet is the name of that part.     *)
(* SRTP keeps no state that depends on earlier packets and is left out.    *)
(* The jitter buffer has no influence on what is delivered: the packet     *)
(* put into it is depacketised at once, in the order of arrival.           *)
(***************************************************************************)
EXTENDS Integers, Sequences, SequencesExt

CONSTANTS
  Codecs,        \* the codecs a track may have agreed on
  Shapes,        \* the shapes of frames
  SeqSpace,      \* how many RTP sequence numbers there are, 65536
  MaxFrames,     \* bound: frames sent
  MaxArrivals    \* bound: packets received

ASSUME MediaAssumption ==
  /\ Codecs \subseteq {"h264", "other"}
  /\ Shapes \subseteq Seq(Nat)
  /\ SeqSpace \in Nat \ {0} /\ SeqSpace % 2 = 0
  /\ MaxFrames \in Nat
  /\ MaxArrivals \in Nat

VARIABLES
  codec,          \* track->codec_id, at both ends
  frames,         \* history: the shapes sent; frame f has RTP timestamp f
  unsent,         \* the packets of the frame the packetiser still has to hand over
  sequence,       \* packetize_context_t.sequence
  nextSequence,   \* track->next_sequence
  sent,           \* packets on the wire, in the order of sendto()
  arrived,        \* history: packets received, in the order of recvfrom()
  reassembly,     \* the track's reassembly_active, _timestamp and _buffer
  delivered       \* frames given to on_video_frame

sender   == <<frames, unsent, sequence, nextSequence, sent>>
receiver == <<arrived, reassembly, delivered>>
vars == <<codec, sender, receiver>>

Part == [frame : Nat, unit : Nat, part : Nat]

Packet ==
  [sequence : 0..(SeqSpace - 1),
   frame : Nat, unit : Nat, part : Nat,
   kind : {"single", "start", "middle", "end", "chunk"},
   marker : BOOLEAN]

Idle == [active |-> FALSE, timestamp |-> 0, data |-> << >>]

Init ==
  /\ codec \in Codecs
  /\ frames = << >>
  /\ unsent = << >>
  /\ sequence = 0
  /\ nextSequence = 0
  /\ sent = << >>
  /\ arrived = << >>
  /\ reassembly = Idle
  /\ delivered = << >>

-----------------------------------------------------------------------------
(***************************************************************************)
(* Sending.                                                                *)
(***************************************************************************)
FragmentKind(k, n) ==
  CASE n = 1             -> "single"
    [] n > 1 /\ k = 1    -> "start"
    [] n > 1 /\ k = n    -> "end"
    [] k > 1 /\ k < n    -> "middle"

\* h264_packetize_nalu: the packets of NAL unit u.  The marker is on the last
\* packet of the last unit, and on none if the frame ends in a start code.
UnitPackets(frame, shape, u) ==
  [k \in 1..shape[u] |->
     [frame |-> frame, unit |-> u, part |-> k,
      kind |-> FragmentKind(k, shape[u]),
      marker |-> u = Len(shape) /\ k = shape[u]]]

\* Any other codec: the units mean nothing, the frame is cut into chunks.
Chunk(p, last) == [p EXCEPT !.kind = "chunk", !.marker = last]

FramePackets(frame, shape) ==
  LET packets == FlattenSeq([u \in DOMAIN shape |-> UnitPackets(frame, shape, u)])
  IN  IF codec = "h264" THEN packets
      ELSE [i \in DOMAIN packets |-> Chunk(packets[i], i = Len(packets))]

SendFrame ==
  /\ unsent = << >>
  /\ Len(frames) < MaxFrames
  /\ \E shape \in Shapes :
       /\ frames' = Append(frames, shape)
       /\ unsent' = FramePackets(Len(frames) + 1, shape)
  /\ sequence' = nextSequence
  /\ UNCHANGED <<codec, nextSequence, sent, receiver>>

\* Wrong variant (the number before the next one is used), for the sensitivity of TypeOK.
NumberedLow(p) ==
  [sequence |-> sequence - 1, frame |-> p.frame, unit |-> p.unit, part |-> p.part,
   kind |-> p.kind, marker |-> p.marker]

Numbered(p) ==
  [sequence |-> sequence, frame |-> p.frame, unit |-> p.unit, part |-> p.part,
   kind |-> p.kind, marker |-> p.marker]

\* Wrong variant (the track remembers the number just used instead of the next
\* one), for the sensitivity of WireSequence.
SendPacketReusing ==
  /\ unsent # << >>
  /\ sent' = Append(sent, Numbered(Head(unsent)))
  /\ unsent' = Tail(unsent)
  /\ sequence' = (sequence + 1) % SeqSpace
  /\ nextSequence' = sequence
  /\ UNCHANGED <<codec, frames, receiver>>

\* packetize_send_callback.
SendPacket ==
  /\ unsent # << >>
  /\ sent' = Append(sent, Numbered(Head(unsent)))
  /\ unsent' = Tail(unsent)
  /\ sequence' = (sequence + 1) % SeqSpace
  /\ nextSequence' = (sequence + 1) % SeqSpace
  /\ UNCHANGED <<codec, frames, receiver>>

\* No selected pair any more, or sendto() fails: the number is used up for
\* this frame, but the track does not remember it.
SendFails ==
  /\ unsent # << >>
  /\ unsent' = Tail(unsent)
  /\ sequence' = (sequence + 1) % SeqSpace
  /\ UNCHANGED <<codec, frames, nextSequence, sent, receiver>>

\* What is left behind the first n packets.
Behind(n) == SubSeq(unsent, n + 1, Len(unsent))

\* There is no memory for the fragments of a NAL unit: none of them is made,
\* and the packetiser goes on with the next unit.
UnitFails ==
  /\ unsent # << >>
  /\ Head(unsent).kind = "start"
  /\ unsent' = Behind(Last(frames)[Head(unsent).unit])
  /\ UNCHANGED <<codec, frames, sequence, nextSequence, sent, receiver>>

-----------------------------------------------------------------------------
(***************************************************************************)
(* Receiving: pc_process_incoming_rtp.                                     *)
(***************************************************************************)
PartOf(p) == [frame |-> p.frame, unit |-> p.unit, part |-> p.part]

\* tinyrtc_depacketize_frame: is this packet the end of a frame?
Completes(p) == p.marker \/ p.kind = "end"

\* Wrong variant (a stale reassembly is kept), for the sensitivity of
\* OneTimestamp.
JoinedAnyway(r, p) ==
  [active |-> TRUE,
   timestamp |-> IF r.active THEN r.timestamp ELSE p.frame,
   data |-> Append(r.data, PartOf(p))]

\* A packet of another frame than the one in the reassembly buffer starts it
\* anew; then the packet is appended.
Joined(r, p) ==
  LET s == IF r.active /\ r.timestamp # p.frame /\ r.data # << >> THEN Idle ELSE r
  IN  [active |-> TRUE,
       timestamp |-> IF s.active THEN s.timestamp ELSE p.frame,
       data |-> Append(s.data, PartOf(p))]

\* Wrong variant (no reset after delivery), for the sensitivity of
\* FrameRecovered.
ReassembledStill(p) == IF codec = "h264" THEN Joined(reassembly, p) ELSE reassembly

Reassembled(p) ==
  IF codec # "h264" THEN reassembly
  ELSE IF Completes(p) THEN Idle
  ELSE Joined(reassembly, p)

\* What is given to the application: the reassembly buffer, or for any other
\* codec the payload of this packet.
DeliveredData(p) ==
  IF codec = "h264" THEN Joined(reassembly, p).data ELSE <<PartOf(p)>>

Receive ==
  /\ Len(arrived) < MaxArrivals
  /\ \E i \in DOMAIN sent :
       LET p == sent[i]
       IN  /\ arrived' = Append(arrived, p)
           /\ reassembly' = Reassembled(p)
           /\ delivered' =
                IF Completes(p)
                THEN Append(delivered, [timestamp |-> p.frame, data |-> DeliveredData(p)])
                ELSE delivered
  /\ UNCHANGED <<codec, sender>>

\* What is left of a packet in arrived when its payload could not be kept.
Unusable ==
  [sequence |-> 0, frame |-> 0, unit |-> 0, part |-> 0, kind |-> "chunk", marker |-> FALSE]

\* The reassembly buffer has to grow and there is no memory: what it held goes
\* as well, and nothing is delivered.
ReceiveFails ==
  /\ codec = "h264"
  /\ Len(arrived) < MaxArrivals
  /\ sent # << >>
  /\ arrived' = Append(arrived, Unusable)
  /\ reassembly' = Idle
  /\ UNCHANGED <<codec, delivered, sender>>

Next == SendFrame \/ SendPacket \/ SendFails \/ UnitFails \/ Receive \/ ReceiveFails

Spec == Init /\ [][Next]_vars

-----------------------------------------------------------------------------
(***************************************************************************)
(* Properties.                                                             *)
(***************************************************************************)

\* Every variable has its type.
TypeOK ==
  /\ codec \in Codecs
  /\ frames \in Seq(Shapes)
  /\ sequence \in 0..(SeqSpace - 1)
  /\ nextSequence \in 0..(SeqSpace - 1)
  /\ sent \in Seq(Packet)
  /\ arrived \in Seq(Packet)
  /\ reassembly \in [active : BOOLEAN, timestamp : Nat, data : Seq(Part)]
  /\ delivered \in Seq([timestamp : Nat, data : Seq(Part)])

\* How many packets the first f frames have been cut into.
PacketsUpTo ==
  LET upTo[f \in 0..Len(frames)] ==
        IF f = 0 THEN 0 ELSE upTo[f - 1] + Len(FramePackets(f, frames[f]))
  IN  upTo

\* Of two numbers less than half of the space apart, a is the earlier one
\* (rtp.c:590-595).
Earlier(a, b) == ((a - b + SeqSpace \div 2) % SeqSpace) - SeqSpace \div 2 < 0

\* A receiver can tell the order of two packets from their numbers, whichever
\* packets could not be sent and where the numbers wrap, as long as the
\* frames from the one to the other have half as many packets as there are
\* numbers, at most (peer_connection.c:769-846, :874, :916).
WireSequence ==
  LET upTo == PacketsUpTo
  IN  \A i, j \in DOMAIN sent :
        /\ i < j
        /\ upTo[sent[j].frame] - upTo[sent[i].frame - 1] <= SeqSpace \div 2
        => Earlier(sent[i].sequence, sent[j].sequence)

\* Whatever is lost, repeated or overtaken, no frame is delivered that is put
\* together from parts of two, or under another timestamp than its parts'.
OneTimestamp ==
  \A k \in DOMAIN delivered : \A i \in DOMAIN delivered[k].data :
    delivered[k].data[i].frame = delivered[k].timestamp

WholeFrame(f) ==
  [timestamp |-> f,
   data |-> FlattenSeq([u \in DOMAIN frames[f] |->
              [k \in 1..frames[f][u] |-> [frame |-> f, unit |-> u, part |-> k]]])]

\* The last packets that arrived are those of frame f, all of them, once and
\* in order.
ArrivedInOrder(f) ==
  LET parts == WholeFrame(f).data
      m == Len(arrived)
      n == Len(parts)
  IN  /\ 0 < n /\ n <= m
      /\ \A k \in 1..n : PartOf(arrived[m - n + k]) = parts[k]
      /\ \A i \in 1..(m - n) : arrived[i].frame # f

\* The frames that the receiver can reassemble: H.264 frames of which only
\* the last NAL unit is fragmented, and no unit is empty, and other frames
\* of one packet.
Simple(f) ==
  IF codec = "h264"
  THEN \A u \in DOMAIN frames[f] :
         IF u < Len(frames[f]) THEN frames[f][u] = 1 ELSE frames[f][u] > 0
  ELSE frames[f] = <<1>>

\* The receiver always recovers: whatever it has received before, a frame
\* that then arrives in order is delivered whole, and leaves nothing behind.
FrameRecovered ==
  \A f \in DOMAIN frames :
    Simple(f) /\ ArrivedInOrder(f) =>
      /\ delivered # << >>
      /\ Last(delivered) = WholeFrame(f)
      /\ reassembly = Idle

PacketsOf(f) == SelectSeq(sent, LAMBDA p : p.frame = f)

\* If the network has done no harm so far (every packet arrived, in order and
\* once), every frame delivered is a complete one.
CompleteFrames ==
  IsPrefix(arrived, sent) =>
    \A k \in DOMAIN delivered :
      /\ delivered[k].timestamp \in DOMAIN frames
      /\ Len(PacketsOf(delivered[k].timestamp)) = Len(WholeFrame(delivered[k].timestamp).data)
         => delivered[k] = WholeFrame(delivered[k].timestamp)
=============================================================================
