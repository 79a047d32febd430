---------------------------- MODULE SignalChannel ----------------------------
(***************************************************************************)
(* What an application may expect of tinyrtc_signaling_process: the        *)
(* messages of the signalling server reach its callback in order, each     *)
(* once and none left out, as long as no fault damages the channel; after  *)
(* a fault some may be missing or made up, and those reported still come   *)
(* in order and at most once.                                              *)
(***************************************************************************)
EXTENDS Naturals, Sequences

CONSTANTS
  Message,        \* what the server may send
  Event,          \* what the application may be told
  Reports(_)      \* the events a message may be reported as; none when it is silent

VARIABLES
  sent,      \* what the server has sent
  taken,     \* the number of the message that was taken last
  told,      \* calls of the callback, the last one's message (0 for none) and event
  intact     \* no fault so far

chan == <<sent, taken, told, intact>>

Init ==
  /\ sent = << >>
  /\ taken = 0
  /\ told.calls = 0 /\ told.msg = 0 /\ told.event \in Event
  /\ intact = TRUE

Send ==
  /\ \E m \in Message : sent' = Append(sent, m)
  /\ UNCHANGED <<taken, told, intact>>

Called(m, e) == [calls |-> told.calls + 1, msg |-> m, event |-> e]

\* The application is told of message m, unless m is silent.
Told(m) ==
  \/ Reports(sent[m]) = {} /\ told' = told
  \/ \E e \in Reports(sent[m]) : told' = Called(m, e)

Take ==
  /\ intact
  /\ taken < Len(sent)
  /\ taken' = taken + 1
  /\ Told(taken + 1)
  /\ UNCHANGED <<sent, intact>>

\* After a fault: a later message, whole or not, or none at all.
TakeDamaged ==
  /\ ~intact'
  /\ taken' \in taken..Len(sent)
  /\ \/ told' = told
     \/ taken' > taken /\ Told(taken')
     \/ told' = [told EXCEPT !.calls = @ + 1, !.msg = 0]
  /\ sent' = sent

Next == Send \/ Take \/ TakeDamaged

Spec == Init /\ [][Next]_chan
=============================================================================
