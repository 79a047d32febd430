---------------------------- MODULE PlayoutQueue ----------------------------
(***************************************************************************)
(* What a jitter buffer promises: packets leave it oldest first, never     *)
(* closer to each other than Delay, and when it has to make room it gives  *)
(* up the oldest.                                                          *)
(***************************************************************************)
EXTENDS Integers

CONSTANT Delay    \* a number of milliseconds

VARIABLES
  held,       \* the packets in the buffer: [index, id]
  clock,      \* the time
  playedAt    \* when a packet was last played

queueVars == <<held, clock, playedAt>>

Held == [index : Nat, id : Nat]

QueueInit ==
  /\ held = {}
  /\ clock = 0
  /\ playedAt = -Delay

Oldest(p) == p \in held /\ \A q \in held : p.index <= q.index

\* A packet arrives and is kept or not, perhaps at the price of the oldest.
Arrive ==
  /\ \E lost \in {{}} \cup {{p} : p \in {q \in held : Oldest(q)}} :
       \/ held' = held \ lost
       \/ \E p \in held' \cap Held : held' = (held \ lost) \cup {p}
  /\ UNCHANGED <<clock, playedAt>>

Play ==
  /\ \E p \in held : Oldest(p) /\ held' = held \ {p}
  /\ clock >= playedAt + Delay
  /\ playedAt' = clock
  /\ UNCHANGED clock

Pass ==
  /\ clock' > clock
  /\ UNCHANGED <<held, playedAt>>

QueueNext == Arrive \/ Play \/ Pass

QueueSpec == QueueInit /\ [][QueueNext]_queueVars
=============================================================================
