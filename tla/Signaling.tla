------------------------------ MODULE Signaling ------------------------------
(***************************************************************************)
(* One tinyrtc_signaling_t (src/src/signaling/signaling.c): the WebSocket  *)
(* client through which descriptions and candidates are exchanged, with    *)
(* the server and the TCP connection as its environment.                   *)
(*                                                                         *)
(* The server puts frames on the connection as RFC 6455 has it (a message  *)
(* is one frame or several, control frames may come between them).  TCP    *)
(* keeps their order and delivers them in any pieces: a frame is two       *)
(* halves, and what has arrived is a number of halves.  Payloads are the   *)
(* number of the message they belong to.  TLS is left out.                 *)
(***************************************************************************)
EXTENDS JsonText

CONSTANTS
  Kinds,        \* the messages the server may send, of those in Kind
  Lens,         \* the lengths of its frames, in units of a short one (the length
                \* of every frame but the first one of a message)
  Texts,        \* the descriptions the application may send
  EscapedSize,  \* sizeof(escaped_sdp)
  MaxBuf,       \* SIG_MAX_RECV_BUF, in the same unit
  MayFail,      \* may allocations, reads and sends fail?
  MaxMessages,  \* bound: messages of the server
  MaxPings,     \* bound: pings of the server
  MaxBetween,   \* bound: frames between the first and the last one of a message
  MaxSends      \* bound: descriptions and candidates of the application

\* Messages by what becomes of them: "unknown" has a type the client does
\* not know, "end-of-candidates" is a candidate without a value.
Kind == {"joined", "error", "peer-joined", "peer-left", "offer", "answer",
         "ice-candidate", "end-of-candidates", "unknown"}

ASSUME SignalingAssumption ==
  /\ Kinds \subseteq Kind
  /\ Lens \subseteq Nat \ {0}
  /\ Texts \subseteq Seq(Char)
  /\ EscapedSize \in Nat \ {0}
  /\ MaxBuf \in Nat \ {0}
  /\ MayFail \in BOOLEAN
  /\ MaxMessages \in Nat /\ MaxPings \in Nat /\ MaxBetween \in Nat /\ MaxSends \in Nat

VARIABLES
  state,      \* sig->state; "null" when there is no handle
  wire,       \* frames of the server that have not been read to their end
  arrived,    \* halves of them that have arrived and not been read
  skewed,     \* the first half of Head(wire) has been read and forgotten
  fragments,  \* sig->message_buf: is there one, whose parts are in it, message_len
  outbox,     \* the frame sent last
  sends,      \* descriptions and candidates sent so far
  pings,      \* pings of the server so far
  closed,     \* has the server closed the connection?
  sent,       \* history: the messages of the server
  taken,      \* history: the message processed last
  told,       \* history: the calls of sig->callback and the last one's message and event
  intact      \* history: nothing has been misread, or dropped for want of memory

server == <<pings, closed, sent>>
stream == <<wire, arrived, skewed>>
reports == <<taken, told, intact>>
vars == <<state, stream, fragments, outbox, sends, server, reports>>

\* msg is the message a frame belongs to, the next one for a control frame
\* between two; inner holds when a message has begun before it and not ended.
Frame ==
  [op : {"text", "continue", "close", "ping", "eof"}, fin : BOOLEAN,
   msg : Nat \ {0}, len : Nat \ {0}, inner : BOOLEAN]

NoFragments == [open |-> FALSE, parts |-> {}, len |-> 0]

EventTypes == {"peer_join", "peer_leave", "offer", "answer", "candidate", "other"}

\* tinyrtc_signal_event_t: its type, and has it a description or candidate?
Event ==
  {e \in [type : EventTypes, data : BOOLEAN] :
     e.data => e.type \in {"offer", "answer", "candidate"}}

\* With or without its data: extracting it takes memory.
Carrying(type) ==
  {[type |-> type, data |-> d] : d \in IF MayFail THEN BOOLEAN ELSE {TRUE}}

\* What sig_process_message may call the callback with.  For a type it does
\* not know event_type is never assigned: it is whatever was there.
Reported(kind) ==
  CASE kind \in {"joined", "error"} -> {}
    [] kind = "peer-joined"       -> {[type |-> "peer_join", data |-> FALSE]}
    [] kind = "peer-left"         -> {[type |-> "peer_leave", data |-> FALSE]}
    [] kind = "offer"             -> Carrying("offer")
    [] kind = "answer"            -> Carrying("answer")
    [] kind = "ice-candidate"     -> Carrying("candidate")
    [] kind = "end-of-candidates" -> {[type |-> "candidate", data |-> FALSE]}
    [] OTHER                      -> Event

\* A frame of the client.
OutFrame(op, type, text, json) == [op |-> op, type |-> type, text |-> text, json |-> json]

Out(op, type) == OutFrame(op, type, << >>, << >>)

NotTold == [calls |-> 0, msg |-> 0, event |-> [type |-> "other", data |-> FALSE]]

Init ==
  /\ state = "null"
  /\ wire = << >> /\ arrived = 0 /\ skewed = FALSE
  /\ fragments = NoFragments
  /\ outbox = Out("none", "none") /\ sends = 0
  /\ pings = 0 /\ closed = FALSE /\ sent = << >>
  /\ taken = 0 /\ told = NotTold /\ intact = TRUE

-----------------------------------------------------------------------------
(***************************************************************************)
(* The server and the network.                                             *)
(***************************************************************************)
CanServe ==
  /\ state = "connected"
  /\ ~closed

\* A message in one frame, or in a first and a last one with continuations
\* and pings between them.
Framings(m, len) ==
  LET first == [op |-> "text", fin |-> FALSE, msg |-> m, len |-> len, inner |-> FALSE]
      ping  == [op |-> "ping", fin |-> TRUE, msg |-> m, len |-> 1, inner |-> TRUE]
      last  == [ping EXCEPT !.op = "continue"]
      between == UNION {[1..n -> {ping, [last EXCEPT !.fin = FALSE]}] : n \in 0..MaxBetween}
  IN  {<<[first EXCEPT !.fin = TRUE]>>} \cup {<<first>> \o mid \o <<last>> : mid \in between}

Pings(frames) == Cardinality({i \in DOMAIN frames : frames[i].op = "ping"})

ServerSends ==
  /\ CanServe
  /\ Len(sent) < MaxMessages
  /\ \E kind \in Kinds, len \in Lens :
       \E frames \in Framings(Len(sent) + 1, len) :
         /\ pings + Pings(frames) <= MaxPings
         /\ wire' = wire \o frames
         /\ pings' = pings + Pings(frames)
         /\ sent' = Append(sent, kind)
  /\ UNCHANGED <<state, arrived, skewed, fragments, outbox, sends, closed, reports>>

ControlFrame(op) ==
  [op |-> op, fin |-> TRUE, msg |-> Len(sent) + 1, len |-> 1, inner |-> FALSE]

ServerPings ==
  /\ CanServe
  /\ pings < MaxPings
  /\ wire' = Append(wire, ControlFrame("ping"))
  /\ pings' = pings + 1
  /\ UNCHANGED <<state, arrived, skewed, fragments, outbox, sends, closed, sent, reports>>

\* A close frame, or the end of the connection.
ServerCloses ==
  /\ CanServe
  /\ \E op \in {"close", "eof"} : wire' = Append(wire, ControlFrame(op))
  /\ closed' = TRUE
  /\ UNCHANGED <<state, arrived, skewed, fragments, outbox, sends, pings, sent, reports>>

\* Halves that the server has sent and the client has not read.
Unread == 2 * Len(wire) - (IF skewed THEN 1 ELSE 0)

\* Some more of the stream arrives: no more than a frame, because what lies
\* beyond a call does not look at.
Arrive ==
  /\ state = "connected"
  /\ \E n \in {1, 2} : arrived < n /\ n <= Unread /\ arrived' = n
  /\ UNCHANGED <<state, wire, skewed, fragments, outbox, sends, server, reports>>

-----------------------------------------------------------------------------
(***************************************************************************)
(* tinyrtc_signaling_create, which does not return before the server has   *)
(* answered the WebSocket handshake, and the end of the handle.            *)
(***************************************************************************)
\* The connection is made and the request sent.
BeginCreate ==
  /\ state = "null"
  /\ outbox = Out("none", "none")
  /\ state' = "connecting"
  /\ UNCHANGED <<stream, fragments, outbox, sends, server, reports>>

\* The right answer: the client joins its room.
FinishCreate ==
  /\ state = "connecting"
  /\ state' = "connected"
  /\ outbox' = Out("text", "join")
  /\ UNCHANGED <<stream, fragments, sends, server, reports>>

\* Another answer, the end of the connection or a join that cannot be sent.
CreateFails ==
  /\ state = "connecting"
  /\ state' = "null"
  /\ UNCHANGED <<stream, fragments, outbox, sends, server, reports>>

\* The connection is not read any more: what is on it does not matter.
Left(newState) ==
  /\ state' = newState
  /\ wire' = << >> /\ arrived' = 0 /\ skewed' = FALSE

\* tinyrtc_signaling_disconnect: only the state changes.
Disconnect ==
  /\ state \in {"connected", "error"}
  /\ Left("disconnected")
  /\ UNCHANGED <<fragments, outbox, sends, server, reports>>

\* tinyrtc_signaling_destroy, with a close frame while connected.
Destroy ==
  /\ state \in {"connected", "disconnected", "error"}
  /\ outbox' = IF state = "connected" THEN Out("close", "none") ELSE outbox
  /\ Left("null")
  /\ fragments' = NoFragments
  /\ UNCHANGED <<sends, server, reports>>

-----------------------------------------------------------------------------
(***************************************************************************)
(* Sending.  sig_send_ws_frame sends all of a frame, or the connection is  *)
(* in error.                                                               *)
(***************************************************************************)
Sent(frame) ==
  \/ /\ outbox' = frame
     /\ UNCHANGED <<state, stream>>
  \/ /\ MayFail
     /\ Left("error")
     /\ outbox' = outbox

\* tinyrtc_signaling_send_offer and _send_answer.
SendDescription ==
  /\ state = "connected"
  /\ sends < MaxSends
  /\ sends' = sends + 1
  /\ \E text \in Texts : Sent(OutFrame("text", "description", text, Escape(text, EscapedSize)))
  /\ UNCHANGED <<fragments, server, reports>>

SendCandidate ==
  /\ state = "connected"
  /\ sends < MaxSends
  /\ sends' = sends + 1
  /\ Sent(Out("text", "ice-candidate"))
  /\ UNCHANGED <<fragments, server, reports>>

-----------------------------------------------------------------------------
(***************************************************************************)
(* tinyrtc_signaling_process.  sig_read_ws_frame never returns more than   *)
(* 0, so that the loop ends after one frame, or part of one.               *)
(***************************************************************************)
\* Wrong variant (a frame is only read when more has arrived), for the
\* sensitivity of Delivered.
ReadingBefore(op, fin) ==
  /\ state = "connected"
  /\ ~skewed
  /\ wire # << >>
  /\ arrived > 2
  /\ Head(wire).op = op /\ Head(wire).fin = fin
  /\ Head(wire).len <= MaxBuf

\* The next frame is read from its start, and all of it has arrived.
Reading(op, fin) ==
  /\ state = "connected"
  /\ ~skewed
  /\ wire # << >>
  /\ arrived >= 2
  /\ Head(wire).op = op /\ Head(wire).fin = fin
  /\ Head(wire).len <= MaxBuf

Read ==
  /\ wire' = Tail(wire)
  /\ arrived' = arrived - 2
  /\ UNCHANGED skewed

Called(m, e) == [calls |-> told.calls + 1, msg |-> m, event |-> e]

\* The callback is called for message m, unless m is silent.
Told(m) ==
  \/ Reported(sent[m]) = {} /\ told' = told
  \/ \E e \in Reported(sent[m]) : told' = Called(m, e)

\* The callback is called for something the server has not sent (what it is
\* told then is left open), or not at all.
ToldGarbage ==
  \/ told' = told
  \/ told' = [told EXCEPT !.calls = @ + 1, !.msg = 0]

\* sig_process_message on message m, whole or with parts of others in it.
ProcessMessage(m, whole) ==
  \/ /\ MayFail
     /\ intact' = FALSE
     /\ UNCHANGED <<taken, told>>
  \/ /\ taken' = m
     /\ IF whole THEN Told(m) ELSE ToldGarbage
     /\ UNCHANGED intact

ReadMessage ==
  /\ Reading("text", TRUE)
  /\ Read
  /\ ProcessMessage(Head(wire).msg, TRUE)
  /\ UNCHANGED <<state, fragments, outbox, sends, server>>

\* message_buf with the payload of a frame at its end.
Extended(frame) ==
  [open |-> TRUE, parts |-> fragments.parts \cup {frame.msg}, len |-> fragments.len + frame.len]

\* Wrong variant (only the frame is measured), for the sensitivity of TypeOK.
FitsAlone(frame) == frame.len <= MaxBuf

\* There is room for the payload of a frame.
Fits(frame) == fragments.len + frame.len <= MaxBuf

\* The first frame of a message; it is added to what message_buf has.
ReadFirst ==
  /\ Reading("text", FALSE)
  /\ Fits(Head(wire))
  /\ Read
  /\ fragments' = Extended(Head(wire))
  /\ UNCHANGED <<state, outbox, sends, server, reports>>

\* A frame in the middle of a message.
ReadMiddle ==
  /\ Reading("continue", FALSE)
  /\ fragments.open /\ Fits(Head(wire))
  /\ Read
  /\ fragments' = Extended(Head(wire))
  /\ UNCHANGED <<state, outbox, sends, server, reports>>

\* Wrong variant (the buffer is not freed), for the sensitivity of
\* ImplementsChannel.
ReadLastKept ==
  /\ Reading("continue", TRUE)
  /\ fragments.open /\ Fits(Head(wire))
  /\ Read
  /\ fragments' = [fragments EXCEPT !.len = 0]
  /\ ProcessMessage(Head(wire).msg, fragments.parts = {Head(wire).msg})
  /\ UNCHANGED <<state, outbox, sends, server>>

\* The last frame of a message: the message is processed and its buffer freed.
ReadLast ==
  /\ Reading("continue", TRUE)
  /\ fragments.open /\ Fits(Head(wire))
  /\ Read
  /\ fragments' = NoFragments
  /\ ProcessMessage(Head(wire).msg, fragments.parts = {Head(wire).msg})
  /\ UNCHANGED <<state, outbox, sends, server>>

\* The answer to a ping; without it the connection is left in error.
ReadPing ==
  /\ Reading("ping", TRUE)
  /\ \/ Read /\ outbox' = Out("pong", "none") /\ UNCHANGED state
     \/ MayFail /\ Left("error") /\ UNCHANGED outbox
  /\ UNCHANGED <<fragments, sends, server, reports>>

\* A close frame, the end of the connection, a frame that is too large, a
\* fragment that has no room or a continuation of nothing.
Unreadable(frame) ==
  \/ frame.op \in {"close", "eof"}
  \/ frame.len > MaxBuf
  \/ frame.op = "text" /\ ~frame.fin /\ ~Fits(frame)
  \/ frame.op = "continue" /\ ~(fragments.open /\ Fits(frame))

\* That a frame is too large its header tells, without the rest of it.
ReadUnreadable ==
  /\ state = "connected"
  /\ ~skewed
  /\ \/ arrived >= 2 /\ Unreadable(Head(wire))
     \/ arrived = 1 /\ Head(wire).len > MaxBuf
  /\ Left("disconnected")
  /\ UNCHANGED <<fragments, outbox, sends, server, reports>>

\* The socket reports an error, or message_buf cannot be allocated.
ReadError ==
  /\ MayFail
  /\ state = "connected"
  /\ Left("disconnected")
  /\ UNCHANGED <<fragments, outbox, sends, server, reports>>

\* Only a part of the next frame has arrived: it is read and forgotten.
ReadPart ==
  /\ state = "connected"
  /\ ~skewed
  /\ arrived = 1
  /\ Head(wire).op # "eof"
  /\ arrived' = 0
  /\ skewed' = TRUE
  /\ intact' = FALSE
  /\ UNCHANGED <<state, wire, fragments, outbox, sends, server, taken, told>>

\* The next n halves are read, which do not reach the end of the connection.
Skipped(n) ==
  LET left == Unread - n
      kept == (left + 1) \div 2
  IN  /\ \A i \in 1..(Len(wire) - kept) : wire[i].op # "eof"
      /\ wire' = SubSeq(wire, Len(wire) - kept + 1, Len(wire))
      /\ arrived' = arrived - n
      /\ skewed' = (left % 2 = 1)

\* Bytes from the middle of a frame are taken for one: for a message, the
\* last or the first part of one, a ping, or something to ignore.
ReadSkewed ==
  /\ state = "connected"
  /\ skewed
  /\ \E n \in 1..arrived : Skipped(n)
  /\ \/ ToldGarbage /\ UNCHANGED <<fragments, outbox>>
     \/ fragments.open /\ ToldGarbage /\ fragments' = NoFragments /\ UNCHANGED outbox
     \/ /\ \E len \in (fragments.len + 1)..MaxBuf :
             fragments' = [open |-> TRUE, parts |-> fragments.parts \cup {0}, len |-> len]
        /\ UNCHANGED <<outbox, told>>
     \/ outbox' = Out("pong", "none") /\ UNCHANGED <<fragments, told>>
  /\ UNCHANGED <<state, sends, server, taken, intact>>

\* What was taken for a frame is a close frame, too large or out of place.
ReadSkewedFails ==
  /\ state = "connected"
  /\ skewed
  /\ arrived > 0
  /\ Left("disconnected")
  /\ UNCHANGED <<fragments, outbox, sends, server, reports>>

Process ==
  \/ ReadMessage \/ ReadFirst \/ ReadMiddle \/ ReadLast \/ ReadPing \/ ReadUnreadable
  \/ ReadPart \/ ReadSkewed \/ ReadSkewedFails

Next ==
  \/ ServerSends \/ ServerPings \/ ServerCloses \/ Arrive
  \/ BeginCreate \/ FinishCreate \/ CreateFails \/ Disconnect \/ Destroy
  \/ SendDescription \/ SendCandidate
  \/ Process \/ ReadError

Spec == Init /\ [][Next]_vars

\* The application calls tinyrtc_signaling_process again and again, and
\* what the server has sent arrives in the end.
FairSpec == Spec /\ WF_vars(Arrive) /\ WF_vars(Process)

-----------------------------------------------------------------------------
(***************************************************************************)
(* Properties.                                                             *)
(***************************************************************************)
\* Every variable has its type; in particular what has been reassembled
\* never outgrows message_buf (signaling.c:716, :737).
TypeOK ==
  /\ state \in {"null", "connecting", "connected", "disconnected", "error"}
  /\ wire \in Seq(Frame)
  /\ arrived \in 0..2 /\ arrived <= Unread
  /\ skewed \in BOOLEAN /\ (skewed => wire # << >>)
  /\ fragments.open \in BOOLEAN /\ fragments.parts \in SUBSET (0..Len(sent))
  /\ fragments.len \in 0..MaxBuf
  /\ pings \in 0..MaxPings /\ closed \in BOOLEAN /\ sends \in 0..MaxSends
  /\ sent \in Seq(Kind) /\ Len(sent) <= MaxMessages
  /\ taken \in 0..Len(sent)
  /\ told \in [calls : Nat, msg : 0..Len(sent), event : Event]
  /\ intact \in BOOLEAN

\* The client keeps what an application may expect of the channel: while
\* nothing was misread or dropped the callback sees every message that is
\* not silent, whole, once and in order, however the messages are split into
\* frames and whatever pings come between the frames
\* (signaling.c:569-781, sig_process_message).
Channel == INSTANCE SignalChannel WITH Message <- Kind, Reports <- Reported

ImplementsChannel == Channel!Spec

\* A description that fits its buffer is read back by the extraction of the
\* peer exactly as it was given, unless it ends in a backslash (then the
\* closing quote is taken for an escaped one); one that does not fit is sent
\* all the same, with characters missing, and never more than the buffer
\* holds (sig_json_escape against sig_extract_json_string_field).
ReadBack ==
  outbox.type = "description" =>
    LET text == outbox.text
    IN  /\ Len(outbox.json) < EscapedSize
        /\ EscapedLength(text) < EscapedSize /\ (text # << >> => text[Len(text)] # "backslash")
             => Extract(Closed(outbox.json)) = {text}

\* What the server has sent is processed in the end, as long as the
\* connection lasts and nothing is damaged, although a call takes one frame
\* at most (signaling.c:1465-1488).
Delivered ==
  \A m \in 1..MaxMessages :
    (Len(sent) >= m) ~> (taken >= m \/ ~intact \/ state # "connected")

\* "Process pending incoming messages from signaling server"
\* (signaling.h:126): a later message is never processed with one before it
\* passed over.
NoneSkipped == [][taken' \in {taken, taken + 1}]_taken
=============================================================================
