------------------------------ MODULE MCFramer ------------------------------
(***************************************************************************)
(* Framer for TLC, with the length function of the MFC sample.             *)
(***************************************************************************)
EXTENDS Framer, FrameLength

\* The length functions of the samples agree on every header the framer comes
\* to, and what they return is the number the header stands for or an error:
\* a header with the high bit set is refused, not taken for a length.
HeaderIsLength ==
  LET h == SubSeq(Held, 1, HeaderLen)
  IN ~null /\ Len(Held) >= HeaderLen =>
        /\ GetFrameLength(h) = GetHeaderLengthFuncSample(h)
        /\ GetFrameLength(h) >= 0 => GetFrameLength(h) = BigEndian(h)
        /\ GetFrameLength(h) < 0 <=>
              BigEndian(h) = 0 \/ 2 * BigEndian(h) >= IntRange
=============================================================================
