---------------------------- MODULE JitterBuffer ----------------------------
(***************************************************************************)
(* The jitter buffer of src/src/media/rtp.c: an array kept in the order of *)
(* 16-bit sequence numbers, a limit, and one playout time for its head.    *)
(*                                                                         *)
(* A packet is the position of its number in the sender's stream, of which *)
(* the code sees the lowest 16 bits.  The environment is a stream whose    *)
(* packets are reordered by less than half of the sequence space.          *)
(***************************************************************************)
EXTENDS Integers, Sequences

CONSTANTS
  Indices,       \* positions in the stream that may arrive
  BufferSize,    \* config.buffer_size
  MinDelay,      \* config.min_delay_ms
  MaxDelay,      \* config.max_delay_ms
  MaxArrivals,   \* bound: packets that arrive
  MaxClock       \* bound: last millisecond

ASSUME JitterAssumption ==
  /\ Indices \subseteq Nat
  /\ BufferSize \in Nat \ {0}
  /\ MinDelay \in Nat
  /\ MaxDelay \in Nat
  /\ MaxArrivals \in Nat
  /\ MaxClock \in Nat

VARIABLES
  packets,       \* jb->sequence[] and jb->packets[]: [index, id, late]
  nextPlayout,   \* jb->next_playout_time
  clock,         \* aosl_time_ms()
  arrivals,      \* history: packets that have arrived, the id of the last
  newest,        \* history: the highest index played, -1 at first
  playedAt       \* history: when a packet was last played

vars == <<packets, nextPlayout, clock, arrivals, newest, playedAt>>

Entry == [index : Nat, id : Nat, late : BOOLEAN]

\* The pace of the playout.
Delay == IF MinDelay <= MaxDelay THEN MinDelay ELSE MaxDelay

Init ==
  /\ packets = << >>
  /\ nextPlayout = 0
  /\ clock = 0
  /\ arrivals = 0
  /\ newest = -1
  /\ playedAt = -Delay

-----------------------------------------------------------------------------
(***************************************************************************)
(* tinyrtc_jitter_buffer_add_packet.                                       *)
(***************************************************************************)
Sequence(n) == n % 65536

\* The cast of a 16-bit difference to int16_t.
Int16(x) == ((x + 32768) % 65536) - 32768

\* Wrong variant (the numbers are compared without regard to the wrap), for
\* the sensitivity of OnlyLateOutOfOrder.
BeforeUnwrapped(n, m) == Sequence(n) < Sequence(m)

Before(n, m) == Int16(Sequence(n) - Sequence(m)) < 0

\* Before the first entry that the packet precedes, or at the end.
IsInsertPos(s, n, i) ==
  /\ i \in 1..(Len(s) + 1)
  /\ i <= Len(s) => Before(n, s[i].index)
  /\ \A j \in 1..(i - 1) : ~Before(n, s[j].index)

InsertPos(s, n) == CHOOSE i \in 1..(Len(s) + 1) : IsInsertPos(s, n, i)

Inserted(s, i, e) ==
  [k \in 1..(Len(s) + 1) |->
     IF k < i THEN s[k] ELSE IF k = i THEN e ELSE s[k - 1]]

\* Wrong variant (room is made too late), for the sensitivity of TypeOK.
RoomMadeLate(s) == IF Len(s) > BufferSize THEN Tail(s) ELSE s

\* A full buffer loses its head, whatever becomes of the new packet.
RoomMade(s) == IF Len(s) >= BufferSize THEN Tail(s) ELSE s

NewEntry(n) == [index |-> n, id |-> arrivals + 1, late |-> n < newest]

\* The reordering the 16 bits can tell.
InWindow(n) ==
  \A i \in DOMAIN packets :
    packets[i].index - 32768 < n /\ n < packets[i].index + 32768

\* No memory for the packet, or it is no RTP packet: the room was made for
\* nothing.
AddFails ==
  /\ arrivals < MaxArrivals
  /\ arrivals' = arrivals + 1
  /\ packets' = RoomMade(packets)
  /\ UNCHANGED <<nextPlayout, clock, newest, playedAt>>

AddPacket ==
  /\ arrivals < MaxArrivals
  /\ arrivals' = arrivals + 1
  /\ \E n \in Indices :
       LET s == RoomMade(packets)
       IN  /\ InWindow(n)
           /\ packets' = Inserted(s, InsertPos(s, n), NewEntry(n))
           /\ nextPlayout' = IF s = << >> THEN clock + MinDelay ELSE nextPlayout
  /\ UNCHANGED <<clock, newest, playedAt>>

(***************************************************************************)
(* tinyrtc_jitter_buffer_get_packet.                                       *)
(***************************************************************************)

\* Wrong variant (no pause after a packet), for the sensitivity of
\* ImplementsQueue.
NextDueAtOnce == clock

\* The clamp makes the pause the smaller of the two delays.
NextDue == clock + Delay

\* Success; otherwise (nothing due, or the caller's buffer is too small for
\* the head) it changes nothing.
GetPacket ==
  /\ packets # << >>
  /\ clock >= nextPlayout
  /\ packets' = Tail(packets)
  /\ nextPlayout' = NextDue
  /\ newest' = IF packets[1].index > newest THEN packets[1].index ELSE newest
  /\ playedAt' = clock
  /\ UNCHANGED <<clock, arrivals>>

Tick ==
  /\ clock < MaxClock
  /\ clock' = clock + 1
  /\ UNCHANGED <<packets, nextPlayout, arrivals, newest, playedAt>>

Next == AddFails \/ AddPacket \/ GetPacket \/ Tick

Spec == Init /\ [][Next]_vars

-----------------------------------------------------------------------------
(***************************************************************************)
(* Properties.                                                             *)
(***************************************************************************)

\* Every variable has its type, and the arrays are never overrun.
TypeOK ==
  /\ packets \in Seq(Entry)
  /\ Len(packets) <= BufferSize
  /\ nextPlayout \in Nat
  /\ clock \in Nat
  /\ arrivals \in Nat
  /\ newest \in Nat \cup {-1}
  /\ playedAt \in Int

\* A packet is played after a newer one only if it arrived after that had
\* been played already, whatever overflowed in between.
OnlyLateOutOfOrder ==
  [][GetPacket => packets[1].late \/ packets[1].index >= newest]_vars

\* The buffer is a playout queue: sorted insertion at the place the 16-bit
\* comparison finds, across the wrap, makes the head the oldest packet, and
\* the one playout time keeps the pace.
HeldPackets == {[index |-> packets[i].index, id |-> packets[i].id] : i \in DOMAIN packets}

Queue == INSTANCE PlayoutQueue WITH held <- HeldPackets

ImplementsQueue == Queue!QueueSpec
=============================================================================
