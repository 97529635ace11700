------------------------------- MODULE Framer -------------------------------
(***************************************************************************)
(* The framer (sidaq_framer.cpp) of one run: RecvSiDaqData cuts the chunks *)
(* it is given into frames, byte by byte, and keeps the bytes of an        *)
(* incomplete frame in its buffer for the next call.  framer_thread is the *)
(* only caller, so the steps of a call are its passes over the data: the   *)
(* one that completes the buffered frame, and those of the while loop.     *)
(* The reader empties the event queue meanwhile.                           *)
(***************************************************************************)
EXTENDS Integers, Sequences

CONSTANTS
  Bytes,          \* the byte values of the stream
  HeaderLen,      \* header_len of SiDaqRun
  HasLengthFunc,  \* is lengthFunc not NULL?
  LengthFunc(_),  \* what it returns for a header
  FixedLen,       \* fixed_frame_len, 0 = none
  MaxFrameLen,    \* max_frame_len
  BuffSize,       \* _buff_size, DEFAULT_MAX_FRAME_LEN in the code
  MaxRecv,        \* max_recv_buff, the longest chunk
  QueueLimit,     \* frame_queue_limit, 0 = no limit
  MaxBytes        \* bound on the length of the stream

ASSUME FramerAssumption ==
  /\ 0 \in Bytes
  /\ HeaderLen \in Nat /\ FixedLen \in Nat /\ QueueLimit \in Nat
  /\ MaxBytes \in Nat /\ BuffSize \in Nat /\ BuffSize >= 2
  /\ MaxFrameLen \in Nat /\ MaxRecv \in Nat
  /\ HeaderLen < MaxFrameLen       \* tested by SiDaqRun
  /\ \/ MaxFrameLen <= BuffSize    \* not tested: both have the defaults that
     \/ MaxRecv <= BuffSize        \* make this true
  /\ HasLengthFunc \in BOOLEAN
  /\ \A h \in [1..HeaderLen -> Bytes] : LengthFunc(h) \in Int

VARIABLES
  buff,        \* _buff_ptr[0.._buff_size - 1]
  rest,        \* _rest
  null,        \* has the null framer taken over?
  error_code,  \* _error_code
  queued,      \* _count of the event queue after the last SQPut
  data,        \* the bytes from read_ptr on
  pc,          \* "idle", "first" or "loop" in RecvSiDaqData, "done"
  received,    \* history: the bytes of all chunks
  framed,      \* history: the bytes of all frames, in order
  lost         \* history: what has made bytes go lost

vars ==
  <<buff, rest, null, error_code, queued, data, pc, received, framed, lost>>

\* NewSiDaqFramer and the setup in SiDaqRun.
Init ==
  /\ buff = [i \in 1..BuffSize |-> 0]
  /\ rest = 0
  /\ null = FALSE
  /\ error_code = "NO_ERROR"
  /\ queued = 0
  /\ data = <<>>
  /\ pc = "idle"
  /\ received = <<>> /\ framed = <<>> /\ lost = {}

\* The buffer with the bytes of s at position p + 1.
CopyTo(p, s) ==
  [i \in 1..BuffSize |->
      IF i \in (p + 1)..(p + Len(s)) THEN s[i - p] ELSE buff[i]]

Drop(s, n) == SubSeq(s, n + 1, Len(s))

(***************************************************************************)
(* The length of the frame at the beginning of s and the framer's state    *)
(* after it: without a valid length all of s is a frame and the framer     *)
(* becomes the null framer.                                                *)
(***************************************************************************)
CalcLength(s) ==
  IF null THEN Len(s)
  ELSE IF HasLengthFunc /\ HeaderLen # 0
       THEN IF Len(s) < HeaderLen THEN -1
            ELSE LengthFunc(SubSeq(s, 1, HeaderLen))
  ELSE IF FixedLen # 0 THEN FixedLen
  ELSE Len(s)

Header == IF null THEN 0 ELSE HeaderLen

LengthFailed(s) == CalcLength(s) < 0

FullLength(s) == IF LengthFailed(s) THEN Len(s) ELSE CalcLength(s) + Header

TooLong(s) == FullLength(s) > MaxFrameLen

FrameLength(s) == IF TooLong(s) THEN Len(s) ELSE FullLength(s)

SetNull(s) == null' = (null \/ LengthFailed(s) \/ TooLong(s))

LengthError(s) ==
  IF TooLong(s) THEN "EXCEED_MAX_FRAME_LENGTH"
  ELSE IF LengthFailed(s) THEN "GET_FRAME_LENGTH_FAILED"
  ELSE error_code

\* frame_queue_limit as the last SQPut has found it.
AtLimit == QueueLimit # 0 /\ queued >= QueueLimit

\* SQPut of a frame, and the test of the count it returns; the reader may
\* have taken any number of frames meanwhile.
LimitReached == AtLimit'

PutFrame(frame, code) ==
  /\ framed' = framed \o frame
  /\ queued' \in 0..(queued + 1)
  /\ error_code' = IF LimitReached THEN "EXCEED_FRAME_QUEUE_COUNT" ELSE code

Loses(cause, bytes) == lost' = IF bytes THEN lost \cup {cause} ELSE lost

(***************************************************************************)
(* RecvSiDaqData.                                                          *)
(***************************************************************************)
Recv ==
  /\ pc = "idle"
  /\ \E n \in 1..MaxRecv :
        /\ n <= MaxBytes - Len(received)
        /\ \E d \in [1..n -> Bytes] :
              data' = d /\ received' = received \o d
  /\ pc' = IF rest > 0 THEN "first" ELSE "loop"
  /\ UNCHANGED <<buff, rest, null, error_code, queued, framed, lost>>

Copied_All == data

\* The data are added to the buffer, as far as there is room ...
Copied == SubSeq(data, 1, IF Len(data) < BuffSize - rest THEN Len(data)
                                                         ELSE BuffSize - rest)
Filled == SubSeq(buff, 1, rest) \o Copied

First_Rewind ==
  /\ pc = "first" /\ Len(Filled) >= FrameLength(Filled)
  /\ PutFrame(SubSeq(Filled, 1, FrameLength(Filled)), LengthError(Filled))
  /\ SetNull(Filled)
  /\ pc' = "loop"
  /\ buff' = CopyTo(rest, Copied)
  /\ rest' = 0
  /\ UNCHANGED <<data, received, lost>>

First_Stash ==
  /\ pc = "first" /\ Len(Filled) >= FrameLength(Filled)
  /\ PutFrame(SubSeq(Filled, 1, FrameLength(Filled)), LengthError(Filled))
  /\ SetNull(Filled)
  /\ buff' = CopyTo(0, Drop(data, FrameLength(Filled) - rest))
  /\ rest' = Len(Drop(data, FrameLength(Filled) - rest))
  /\ data' = <<>>
  /\ pc' = "idle"
  /\ UNCHANGED <<received, lost>>

\* ... and either complete a frame: the loop goes on behind it, ...
First ==
  /\ pc = "first" /\ Len(Filled) >= FrameLength(Filled)
  /\ PutFrame(SubSeq(Filled, 1, FrameLength(Filled)), LengthError(Filled))
  /\ SetNull(Filled)
  /\ data' = Drop(data, FrameLength(Filled) - rest)
  /\ pc' = IF data' = <<>> THEN "idle" ELSE "loop"
  /\ buff' = CopyTo(rest, Copied)
  /\ rest' = 0
  /\ UNCHANGED <<received, lost>>

\* ... or do not.  What there was no room for is dropped.
FirstKeep ==
  /\ pc = "first" /\ Len(Filled) < FrameLength(Filled)
  /\ SetNull(Filled)
  /\ error_code' = LengthError(Filled)
  /\ buff' = CopyTo(rest, Copied)
  /\ rest' = Len(Filled)
  /\ Loses("room", Len(Copied) < Len(data))
  /\ data' = <<>>
  /\ pc' = "idle"
  /\ UNCHANGED <<queued, received, framed>>

\* Less than a header is left: _rest says how much, but only its first byte
\* is copied; if nothing is left, a byte from behind the data is.
LoopShort ==
  /\ pc = "loop"
  /\ data = <<>> \/ Len(data) < Header
  /\ rest' = Len(data)
  /\ \E b \in IF data = <<>> THEN Bytes ELSE {data[1]} :
        buff' = CopyTo(0, <<b>>)
  /\ Loses("header", Len(data) > 1)
  /\ data' = <<>>
  /\ pc' = "idle"
  /\ UNCHANGED <<null, error_code, queued, received, framed>>

LoopOn == pc = "loop" /\ data # <<>> /\ Len(data) >= Header

\* A whole frame.  When the queue's limit is reached the call is left, and what
\* is behind the frame is dropped.
LoopFrame ==
  /\ LoopOn /\ Len(data) >= FrameLength(data)
  /\ PutFrame(SubSeq(data, 1, FrameLength(data)), LengthError(data))
  /\ SetNull(data)
  /\ LET behind == Drop(data, FrameLength(data))
     IN IF LimitReached
        THEN data' = <<>> /\ pc' = "idle" /\ Loses("limit", behind # <<>>)
        ELSE data' = behind /\ UNCHANGED <<pc, lost>>
  /\ UNCHANGED <<buff, rest, received>>

LoopKeep_Short ==
  /\ LoopOn /\ Len(data) < FrameLength(data)
  /\ SetNull(data)
  /\ error_code' = LengthError(data)
  /\ buff' = CopyTo(0, SubSeq(data, 1, Len(data) - 1))
  /\ rest' = Len(data) - 1
  /\ data' = <<>>
  /\ pc' = "idle"
  /\ UNCHANGED <<queued, received, framed, lost>>

\* Part of a frame: it is kept.
LoopKeep ==
  /\ LoopOn /\ Len(data) < FrameLength(data)
  /\ SetNull(data)
  /\ error_code' = LengthError(data)
  /\ buff' = CopyTo(0, data)
  /\ rest' = Len(data)
  /\ data' = <<>>
  /\ pc' = "idle"
  /\ UNCHANGED <<queued, received, framed, lost>>

\* framer_thread ends and makes a frame of what is in the buffer.
Flush ==
  /\ pc = "idle"
  /\ framed' = framed \o SubSeq(buff, 1, rest)
  /\ rest' = 0
  /\ pc' = "done"
  /\ UNCHANGED <<buff, null, error_code, queued, data, received, lost>>

Next ==
  Recv \/ First \/ FirstKeep \/ LoopShort \/ LoopFrame \/ LoopKeep \/ Flush

Spec == Init /\ [][Next]_vars

-----------------------------------------------------------------------------
Errors == {"NO_ERROR", "EXCEED_FRAME_QUEUE_COUNT", "GET_FRAME_LENGTH_FAILED",
           "EXCEED_MAX_FRAME_LENGTH"}

\* The framer's fields have their types: _rest never exceeds the buffer.
TypeOK ==
  /\ buff \in [1..BuffSize -> Bytes]
  /\ rest \in 0..BuffSize
  /\ null \in BOOLEAN
  /\ error_code \in Errors
  /\ queued \in Nat
  /\ data \in Seq(Bytes)
  /\ pc \in {"idle", "first", "loop", "done"}
  /\ received \in Seq(Bytes)
  /\ framed \in Seq(Bytes)
  /\ lost \subseteq {"limit", "header", "room"}

\* The bytes the framer has got and not passed on.
Held == SubSeq(buff, 1, rest) \o data

\* The frames and what the framer holds are, byte by byte, what was received:
\* nothing is lost, repeated or reordered at the border of two chunks.  Bytes
\* go lost at frame_queue_limit, and that is always reported, inside a header
\* of more than two bytes, or behind an event that is longer than the buffer.
Conserved ==
  /\ lost = {} => received = framed \o Held
  /\ "limit" \in lost => QueueLimit # 0 /\ error_code # "NO_ERROR"
  /\ "header" \in lost => HeaderLen > 2
  /\ "room" \in lost => MaxFrameLen > BuffSize

\* When RecvSiDaqData returns, no complete event is left in the buffer: what
\* it holds is shorter than a header or than the event its header announces.
NoCompleteEventHeld ==
  pc = "idle" /\ rest > 0 =>
     ~null /\ (rest < HeaderLen \/ rest < FrameLength(Held))

\* The abstract stream, with the events' length as the headers give it.
StreamLen(h) ==
  LET n == IF HasLengthFunc /\ HeaderLen # 0 THEN LengthFunc(h) ELSE FixedLen
  IN IF n < 0 \/ n + HeaderLen > MaxFrameLen THEN -1 ELSE n + HeaderLen

Stream == INSTANCE EventStream
  WITH pending <- Held, failed <- null, over <- pc = "done",
       full <- AtLimit, EventLen <- StreamLen, Room <- BuffSize

\* The frames are the events of the stream, wherever TCP has cut it: every
\* frame is exactly as long as its header says, until a header is invalid.
\* Nothing is dropped between two frames, unless the first of them reached
\* frame_queue_limit, or the second is longer than the buffer and never comes.
CutsEvents == Stream!Spec

\* README.md: "The beginning of the received data string passed is always the
\* beginning of the event data."  When RecvSiDaqData is at work, what is in
\* front of it begins where the last frame has ended.
EventStart == pc \in {"first", "loop"} => received = framed \o Held
=============================================================================
