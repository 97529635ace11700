----------------------------- MODULE EventStream -----------------------------
(***************************************************************************)
(* What the framer promises of a stream of events: the bytes received are  *)
(* cut into events by their headers alone, however TCP has cut the stream  *)
(* into chunks.  After an event of no valid length nothing is known of     *)
(* where events begin, and the bytes are passed on as they come.  When     *)
(* there is no room for more events, what is behind an event may be lost,  *)
(* all of it, and so is the end of an event that is too long to be kept    *)
(* until it is complete; otherwise nothing is.                             *)
(***************************************************************************)
EXTENDS Integers, Sequences

CONSTANTS
  HeaderLen,     \* bytes that are needed to know the length of an event
  Room,          \* bytes of an incomplete event there is room for
  EventLen(_)    \* length of the event that begins with a given header; an
                 \* invalid header has a length < 0

VARIABLES
  pending,       \* received bytes that are not part of a frame yet
  framed,        \* the bytes of all frames
  failed,        \* has an invalid header been met?
  over,          \* is the stream over?
  full           \* is there no room for more events?

vars == <<pending, framed, failed, over, full>>

Init ==
  /\ pending = <<>> /\ framed = <<>>
  /\ failed = FALSE /\ over = FALSE
  /\ full \in BOOLEAN

\* The first n pending bytes become a frame.
Cut(n) ==
  /\ n \in 1..Len(pending)
  /\ framed' = framed \o SubSeq(pending, 1, n)
  /\ full' \in BOOLEAN
  /\ \/ pending' = SubSeq(pending, n + 1, Len(pending))
     \/ full' /\ pending' = <<>>

Header == SubSeq(pending, 1, HeaderLen)

Receive ==
  /\ Len(pending') >= Len(pending)
  /\ SubSeq(pending', 1, Len(pending)) = pending
  /\ UNCHANGED <<framed, failed, full>>

Event ==
  /\ ~failed /\ Len(pending) >= HeaderLen
  /\ EventLen(Header) >= 0
  /\ Cut(EventLen(Header))
  /\ UNCHANGED failed

Fail ==
  /\ ~failed /\ Len(pending) >= HeaderLen
  /\ EventLen(Header) < 0
  /\ \E n \in 1..Len(pending) : Cut(n)
  /\ failed' = TRUE

\* Of an event there is no room for the beginning is all that is ever known.
Overrun ==
  /\ ~failed /\ Len(pending) > Room
  /\ EventLen(Header) > Room
  /\ pending' = SubSeq(pending, 1, Room)
  /\ UNCHANGED <<framed, failed, full>>

Raw == failed /\ (\E n \in 1..Len(pending) : Cut(n)) /\ UNCHANGED failed

\* The connection is over: what is left becomes the last frame.
Flush ==
  /\ framed' = framed \o pending
  /\ pending' = <<>>
  /\ UNCHANGED <<failed, full>>

Next ==
  /\ ~over
  /\ \/ (Receive \/ Event \/ Fail \/ Overrun \/ Raw) /\ UNCHANGED over
     \/ Flush /\ over' = TRUE

Spec == Init /\ [][Next]_vars
=============================================================================
