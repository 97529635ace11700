---------------------------- MODULE FrameLength ----------------------------
(***************************************************************************)
(* The frame length calculation functions of the sample programs:          *)
(* GetFrameLength of the MFC sample and GetHeaderLengthFuncSample of the   *)
(* C# sample.  The framer calls them with the whole header h of an event.  *)
(* The width of a byte and of an int are parameters: an int overflows in   *)
(* small instances, too.  In C++ a header longer than an int is undefined  *)
(* behaviour: such headers are left out.                                   *)
(***************************************************************************)
EXTENDS Integers, Sequences

CONSTANTS
  Base,     \* number of values of a byte, 256 in the code
  IntBytes  \* bytes of an int, 4 in the code

ASSUME WidthAssumption == Base \in {2 * k : k \in 1..128} /\ IntBytes \in 1..4

\* The number with the big-endian digits s.
BigEndian(s) ==
  LET value[n \in 0..Len(s)] == IF n = 0 THEN 0 ELSE value[n - 1] * Base + s[n]
  IN value[Len(s)]

\* How many numbers n bytes can hold.
Power[n \in 0..IntBytes] == IF n = 0 THEN 1 ELSE Power[n - 1] * Base

\* What is left of x in an int.
IntRange == Power[IntBytes]
ToInt(x) ==
  LET u == x % IntRange IN IF 2 * u < IntRange THEN u ELSE u - IntRange

GetFrameLength_LittleEndian(h) ==
  LET header == ToInt(BigEndian([i \in DOMAIN h |-> h[Len(h) + 1 - i]]))
  IN IF header = 0 THEN -1 ELSE header

\* The bytes are shifted to their places and added up in an int.
GetFrameLength(h) ==
  LET header == ToInt(BigEndian(h))
  IN IF header = 0 THEN -1 ELSE header

\* The bytes are reversed and BitConverter reads an unsigned number from the
\* first IntBytes of them: the last ones of the header.
GetHeaderLengthFuncSample(h) ==
  LET first == IF Len(h) > IntBytes THEN Len(h) - IntBytes + 1 ELSE 1
      ret   == BigEndian(SubSeq(h, first, Len(h)))
  IN IF ret = 0 THEN -1 ELSE ToInt(ret)
=============================================================================
