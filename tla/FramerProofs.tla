---------------------------- MODULE FramerProofs ----------------------------
(***************************************************************************)
(* Proofs about Framer, for every byte stream, every way TCP cuts it and   *)
(* every length function, limit and maximum: RecvSiDaqData neither repeats *)
(* nor reorders a byte, never keeps a whole event back, and loses a byte   *)
(* only at the limit, inside a header of more than two bytes or behind an  *)
(* event that is longer than its buffer.                                   *)
(***************************************************************************)
EXTENDS Framer, SequenceTheorems, TLAPS

-----------------------------------------------------------------------------
\* A sequence is its beginning and its end.
LEMMA SplitAt ==
  ASSUME NEW S, NEW s \in Seq(S), NEW k \in 0..Len(s)
  PROVE  /\ SubSeq(s, 1, k) \in Seq(S) /\ Len(SubSeq(s, 1, k)) = k
         /\ Drop(s, k) \in Seq(S) /\ Len(Drop(s, k)) = Len(s) - k
         /\ SubSeq(s, 1, k) \o Drop(s, k) = s
<1> DEFINE a == SubSeq(s, 1, k)
<1> DEFINE b == Drop(s, k)
<1>1. /\ a \in Seq(S) /\ Len(a) = k
      /\ \A i \in 1..k : a[i] = s[i]
  OBVIOUS
<1>2. /\ b \in Seq(S) /\ Len(b) = Len(s) - k
      /\ \A i \in 1..(Len(s) - k) : b[i] = s[i + k]
  BY DEF Drop
<1> HIDE DEF a, b
<1>3. a \o b = s
  <2>1. /\ a \o b \in Seq(S) /\ Len(a \o b) = k + (Len(s) - k)
        /\ \A i \in 1..(Len(a) + Len(b)) :
              (a \o b)[i] = IF i <= Len(a) THEN a[i] ELSE b[i - Len(a)]
    BY <1>1, <1>2, ConcatProperties
  <2> DEFINE c == a \o b
  <2>2. c \in Seq(S) /\ Len(c) = Len(s)
    BY <2>1
  <2>3. \A i \in 1..Len(c) : c[i] = s[i]
    BY <1>1, <1>2, <2>1
  <2> HIDE DEF c
  <2>4. c = s
    BY <2>2, <2>3, SeqEqual
  <2> QED
    BY <2>4 DEF c
<1> QED
  BY <1>1, <1>2, <1>3 DEF a, b

\* The beginning of a concatenation that reaches into its second part.
LEMMA BeginOfConcat ==
  ASSUME NEW S, NEW s \in Seq(S), NEW t \in Seq(S),
         NEW n \in Len(s)..(Len(s) + Len(t))
  PROVE  SubSeq(s \o t, 1, n) = s \o SubSeq(t, 1, n - Len(s))
<1> DEFINE a == SubSeq(s \o t, 1, n)
<1> DEFINE b == SubSeq(t, 1, n - Len(s))
<1>1. /\ a \in Seq(S) /\ Len(a) = n
      /\ \A i \in 1..n : a[i] = (s \o t)[i]
  OBVIOUS
<1>2. /\ b \in Seq(S) /\ Len(b) = n - Len(s)
      /\ \A i \in 1..(n - Len(s)) : b[i] = t[i]
  OBVIOUS
<1> HIDE DEF a, b
<1>3. a = s \o b
  <2> DEFINE c == s \o b
  <2> DEFINE d == s \o t
  <2>1. /\ c \in Seq(S) /\ Len(c) = n
        /\ \A i \in 1..n : c[i] = IF i <= Len(s) THEN s[i] ELSE b[i - Len(s)]
    <3>1. Len(s) + Len(b) = n
      BY <1>2
    <3> QED
      BY <1>2, <3>1, ConcatProperties
  <2>2. \A i \in 1..n : d[i] = IF i <= Len(s) THEN s[i] ELSE t[i - Len(s)]
    BY ConcatProperties
  <2>3. \A i \in 1..n : a[i] = d[i]
    BY <1>1
  <2> HIDE DEF c, d
  <2>4. \A i \in 1..Len(a) : a[i] = c[i]
    <3> SUFFICES ASSUME NEW i \in 1..n PROVE a[i] = c[i]
      BY <1>1
    <3>1. CASE i <= Len(s)
      BY <2>1, <2>2, <2>3, <3>1
    <3>2. CASE ~(i <= Len(s))
      <4>1. i - Len(s) \in 1..(n - Len(s))
        BY <3>2
      <4> QED
        BY <1>2, <2>1, <2>2, <2>3, <3>2, <4>1
    <3> QED
      BY <3>1, <3>2
  <2>5. a = c
    BY <1>1, <2>1, <2>4, SeqEqual
  <2> QED
    BY <2>5 DEF c
<1> QED
  BY <1>3 DEF a, b

\* The buffer is a sequence of bytes, and what is copied to it is there.
LEMMA CopyToBuffer ==
  ASSUME buff \in [1..BuffSize -> Bytes], NEW p \in Nat, NEW s \in Seq(Bytes),
         p + Len(s) <= BuffSize
  PROVE  /\ CopyTo(p, s) \in [1..BuffSize -> Bytes]
         /\ SubSeq(CopyTo(p, s), 1, p + Len(s)) = SubSeq(buff, 1, p) \o s
<1> DEFINE b == CopyTo(p, s)
<1>1. b \in [1..BuffSize -> Bytes]
  BY FramerAssumption DEF CopyTo
<1>2. b \in Seq(Bytes) /\ Len(b) = BuffSize
  BY <1>1, SeqDef, FramerAssumption
<1>3. buff \in Seq(Bytes) /\ Len(buff) = BuffSize
  BY SeqDef, FramerAssumption
<1>4. \A i \in 1..BuffSize :
         b[i] = IF i \in (p + 1)..(p + Len(s)) THEN s[i - p] ELSE buff[i]
  BY DEF CopyTo
<1> HIDE DEF b
<1> DEFINE x == SubSeq(b, 1, p + Len(s))
<1> DEFINE y == SubSeq(buff, 1, p)
<1>5. /\ x \in Seq(Bytes) /\ Len(x) = p + Len(s)
      /\ \A i \in 1..(p + Len(s)) : x[i] = b[i]
  BY <1>2, FramerAssumption
<1>6. /\ y \in Seq(Bytes) /\ Len(y) = p
      /\ \A i \in 1..p : y[i] = buff[i]
  BY <1>3, FramerAssumption
<1> HIDE DEF x, y
<1>7. x = y \o s
  <2> DEFINE c == y \o s
  <2>1. /\ c \in Seq(Bytes) /\ Len(c) = p + Len(s)
        /\ \A i \in 1..(p + Len(s)) : c[i] = IF i <= p THEN y[i] ELSE s[i - p]
    BY <1>6, ConcatProperties
  <2> HIDE DEF c
  <2>2. \A i \in 1..Len(x) : x[i] = c[i]
    <3> SUFFICES ASSUME NEW i \in 1..(p + Len(s)) PROVE x[i] = c[i]
      BY <1>5
    <3>1. i \in 1..BuffSize /\ i \in Int
      BY FramerAssumption
    <3>2. CASE i <= p
      BY <1>4, <1>5, <1>6, <2>1, <3>1, <3>2
    <3>3. CASE ~(i <= p)
      <4>1. i \in (p + 1)..(p + Len(s))
        BY <3>1, <3>3
      <4>2. b[i] = s[i - p]
        BY <1>4, <3>1, <4>1
      <4>3. x[i] = b[i]
        BY <1>5
      <4>4. c[i] = s[i - p]
        BY <2>1, <3>3
      <4> QED
        BY <4>2, <4>3, <4>4
    <3> QED
      BY <3>2, <3>3
  <2>3. x = c
    BY <1>5, <2>1, <2>2, SeqEqual
  <2> QED
    BY <2>3 DEF c
<1> QED
  BY <1>1, <1>7 DEF b, x, y

-----------------------------------------------------------------------------
Buffered == SubSeq(buff, 1, rest)

\* An incomplete frame is shorter than its header or its length.
Partial ==
  pc \in {"idle", "first"} /\ rest > 0 =>
     /\ ~null
     /\ HasLengthFunc /\ HeaderLen # 0 /\ rest >= HeaderLen =>
           LET n == LengthFunc(SubSeq(buff, 1, HeaderLen))
           IN n >= 0 /\ n + HeaderLen <= MaxFrameLen /\ rest < n + HeaderLen
     /\ ~(HasLengthFunc /\ HeaderLen # 0) /\ FixedLen # 0 =>
           rest < FixedLen + HeaderLen

\* The buffer and the data are in use at different points of the call.
Points ==
  /\ pc = "first" => rest > 0 /\ data # <<>>
  /\ pc = "loop" => rest = 0
  /\ pc \in {"idle", "done"} => data = <<>>
  /\ pc = "done" => rest = 0
  /\ Len(data) <= MaxRecv

IndInv == TypeOK /\ Points /\ Partial /\ Conserved

\* Empty buffer, empty stream.
LEMMA IndInit == Init => IndInv
<1> SUFFICES ASSUME Init PROVE IndInv
  OBVIOUS
<1>1. TypeOK
  <2>1. buff \in [1..BuffSize -> Bytes] /\ rest \in 0..BuffSize
    BY FramerAssumption DEF Init
  <2>2. data \in Seq(Bytes) /\ received \in Seq(Bytes) /\ framed \in Seq(Bytes)
    BY EmptySeq DEF Init
  <2> QED
    BY <2>1, <2>2 DEF Init, TypeOK, Errors
<1>2. Points /\ Partial
  BY EmptySeq, FramerAssumption DEF Init, Points, Partial
<1>3. Conserved
  <2>1. SubSeq(buff, 1, 0) = <<>>
    BY SubSeqEmpty
  <2>2. <<>> \in Seq(Bytes)
    OBVIOUS
  <2> QED
    BY <2>1, <2>2, ConcatEmptySeq DEF Init, Conserved, Held
<1> QED
  BY <1>1, <1>2, <1>3 DEF IndInv

\* The buffer as a sequence.
LEMMA BufferedType ==
  ASSUME TypeOK
  PROVE  /\ buff \in Seq(Bytes) /\ Len(buff) = BuffSize
         /\ Buffered \in Seq(Bytes) /\ Len(Buffered) = rest
<1>1. buff \in Seq(Bytes) /\ Len(buff) = BuffSize
  BY SeqDef, FramerAssumption DEF TypeOK
<1> QED
  BY <1>1, FramerAssumption DEF TypeOK, Buffered

\* The length function gives an integer for every header.
LEMMA LengthFuncType ==
  ASSUME NEW s \in Seq(Bytes), Len(s) >= HeaderLen
  PROVE  LengthFunc(SubSeq(s, 1, HeaderLen)) \in Int
<1>1. SubSeq(s, 1, HeaderLen) \in [1..HeaderLen -> Bytes]
  <2>1. /\ SubSeq(s, 1, HeaderLen) \in Seq(Bytes)
        /\ Len(SubSeq(s, 1, HeaderLen)) = HeaderLen
    BY FramerAssumption
  <2> QED
    BY <2>1, LenProperties
<1> QED
  BY <1>1, FramerAssumption

\* So a length is computed, or is -1.
LEMMA CalcLengthType ==
  ASSUME NEW s \in Seq(Bytes)
  PROVE  CalcLength(s) \in Int
  BY LengthFuncType, FramerAssumption DEF CalcLength

\* The frame a pass cuts is not longer than what there is, or not longer than
\* max_frame_len; a frame that is not complete has a valid length.
LEMMA FrameLengthFacts ==
  ASSUME NEW s \in Seq(Bytes), null \in BOOLEAN
  PROVE  /\ FrameLength(s) \in Nat
         /\ Len(s) < FrameLength(s) =>
               /\ ~null /\ ~LengthFailed(s) /\ ~TooLong(s)
               /\ FrameLength(s) = CalcLength(s) + HeaderLen
               /\ FrameLength(s) <= MaxFrameLen
<1>1. CalcLength(s) \in Int
  BY CalcLengthType
<1>2. Header \in Nat
  BY FramerAssumption DEF Header
<1>3. FullLength(s) \in Nat
  BY <1>1, <1>2 DEF FullLength, LengthFailed
<1>4. FrameLength(s) \in Nat
  BY <1>3 DEF FrameLength
<1>5. ASSUME Len(s) < FrameLength(s)
      PROVE  /\ ~null /\ ~LengthFailed(s) /\ ~TooLong(s)
             /\ FrameLength(s) = CalcLength(s) + HeaderLen
             /\ FrameLength(s) <= MaxFrameLen
  <2>1. ~TooLong(s) /\ FrameLength(s) = FullLength(s)
    BY <1>5 DEF FrameLength
  <2>2. ~LengthFailed(s) /\ FullLength(s) = CalcLength(s) + Header
    BY <1>5, <2>1 DEF FullLength
  <2>3. ~null
    BY <1>5, <2>1, <2>2 DEF CalcLength, Header
  <2> QED
    BY <2>1, <2>2, <2>3, <1>3, FramerAssumption DEF TooLong, Header
<1> QED
  BY <1>4, <1>5

\* The beginning of a beginning.
LEMMA PrefixOfPrefix ==
  ASSUME NEW S, NEW s \in Seq(S), NEW m \in 0..Len(s), NEW k \in 0..m
  PROVE  SubSeq(SubSeq(s, 1, m), 1, k) = SubSeq(s, 1, k)
<1> DEFINE a == SubSeq(s, 1, m)
<1> DEFINE b == SubSeq(a, 1, k)
<1> DEFINE c == SubSeq(s, 1, k)
<1>1. a \in Seq(S) /\ Len(a) = m /\ \A i \in 1..m : a[i] = s[i]
  OBVIOUS
<1> HIDE DEF a
<1>2. b \in Seq(S) /\ Len(b) = k /\ \A i \in 1..k : b[i] = a[i]
  BY <1>1
<1>3. c \in Seq(S) /\ Len(c) = k /\ \A i \in 1..k : c[i] = s[i]
  OBVIOUS
<1> HIDE DEF b, c
<1>4. b = c
  BY <1>1, <1>2, <1>3, SeqEqual
<1> QED
  BY <1>4 DEF a, b, c

\* What follows the same beginning is the same.
LEMMA Cancel ==
  ASSUME NEW S, NEW a \in Seq(S), NEW b \in Seq(S), NEW c \in Seq(S),
         a \o b = a \o c
  PROVE  b = c
<1> DEFINE x == a \o b
<1> DEFINE y == a \o c
<1>1. /\ Len(x) = Len(a) + Len(b)
      /\ \A i \in 1..(Len(a) + Len(b)) :
            x[i] = IF i <= Len(a) THEN a[i] ELSE b[i - Len(a)]
  BY ConcatProperties
<1>2. /\ Len(y) = Len(a) + Len(c)
      /\ \A i \in 1..(Len(a) + Len(c)) :
            y[i] = IF i <= Len(a) THEN a[i] ELSE c[i - Len(a)]
  BY ConcatProperties
<1>3. x = y
  OBVIOUS
<1> HIDE DEF x, y
<1>4. Len(b) = Len(c)
  BY <1>1, <1>2, <1>3
<1>5. ASSUME NEW i \in 1..Len(b) PROVE b[i] = c[i]
  <2>1. /\ i + Len(a) \in 1..(Len(a) + Len(b)) /\ ~(i + Len(a) <= Len(a))
        /\ (i + Len(a)) - Len(a) = i
    OBVIOUS
  <2> QED
    BY <1>1, <1>2, <1>3, <1>4, <2>1
<1> QED
  BY <1>4, <1>5, SeqEqual

\* A concatenation of three, in either grouping.
LEMMA Regroup ==
  ASSUME NEW S
  PROVE  \A a, x, c \in Seq(S) : (a \o x) \o c = a \o (x \o c)
BY ConcatAssociative

\* The two parts of a concatenation.
LEMMA Parts ==
  ASSUME NEW S, NEW a \in Seq(S), NEW b \in Seq(S)
  PROVE  /\ SubSeq(a \o b, 1, Len(a)) = a
         /\ SubSeq(a \o b, Len(a) + 1, Len(a \o b)) = b
<1> DEFINE s == a \o b
<1>1. s \in Seq(S) /\ Len(s) = Len(a) + Len(b)
  BY ConcatProperties
<1>2. SubSeq(s, 1, Len(a)) = a
  <2>1. Len(a) \in Len(a)..(Len(a) + Len(b)) /\ Len(a) - Len(a) = 0
    OBVIOUS
  <2>2. SubSeq(s, 1, Len(a)) = a \o SubSeq(b, 1, 0)
    BY <2>1, BeginOfConcat
  <2> QED
    BY <2>2, SubSeqEmpty, ConcatEmptySeq
<1>3. a \o Drop(s, Len(a)) = a \o b /\ Drop(s, Len(a)) \in Seq(S)
  <2> HIDE DEF s
  <2>1. Len(a) \in 0..Len(s)
    BY <1>1
  <2>2. SubSeq(s, 1, Len(a)) \o Drop(s, Len(a)) = s /\ Drop(s, Len(a)) \in Seq(S)
    BY <1>1, <2>1, SplitAt
  <2> QED
    BY <1>2, <2>2 DEF s
<1>4. Drop(s, Len(a)) = b
  BY <1>3, Cancel
<1> QED
  BY <1>2, <1>4 DEF Drop

\* An empty buffer holds nothing.
LEMMA NothingBuffered == ASSUME NEW b PROVE SubSeq(b, 1, 0) = <<>>
  BY SubSeqEmpty

\* What is held is buffered or still in front of the framer.
LEMMA HeldType ==
  ASSUME TypeOK
  PROVE  Held \in Seq(Bytes) /\ Held = Buffered \o data
  BY BufferedType, ConcatProperties DEF TypeOK, Held, Buffered

\* An error code is never taken back.
LEMMA ErrorStays ==
  ASSUME NEW s, NEW f, error_code # "NO_ERROR",
         error_code' = LengthError(s) \/ PutFrame(f, LengthError(s))
  PROVE  error_code' # "NO_ERROR"
  BY DEF LengthError, PutFrame

\* A step that passes on the beginning x of what is held, and holds the rest,
\* loses nothing.
LEMMA PassedOn ==
  ASSUME IndInv, received' = received, lost' = lost,
         error_code # "NO_ERROR" => error_code' # "NO_ERROR",
         NEW x \in Seq(Bytes), framed' = framed \o x,
         Held' \in Seq(Bytes), Held = x \o Held'
  PROVE  Conserved'
<1>1. ASSUME lost' = {} PROVE received' = framed' \o Held'
  <2>1. received = framed \o (x \o Held')
    BY <1>1 DEF IndInv, Conserved
  <2> DEFINE k == Held'
  <2>2. framed \in Seq(Bytes) /\ k \in Seq(Bytes)
    BY DEF IndInv, TypeOK
  <2> HIDE DEF k
  <2>3. (framed \o x) \o k = framed \o (x \o k)
    BY <2>2, Regroup
  <2> QED
    BY <2>1, <2>3 DEF k
<1> QED
  BY <1>1 DEF IndInv, Conserved

\* A chunk goes behind what is buffered.
LEMMA IndRecv == IndInv /\ Recv => IndInv'
<1> SUFFICES ASSUME IndInv, Recv PROVE IndInv'
  OBVIOUS
<1>1. PICK n \in 1..MaxRecv : \E d \in [1..n -> Bytes] :
         data' = d /\ received' = received \o d
  BY DEF Recv
<1>2. PICK d \in [1..n -> Bytes] : data' = d /\ received' = received \o d
  BY <1>1
<1>3. /\ received \in Seq(Bytes) /\ framed \in Seq(Bytes)
      /\ pc = "idle" /\ data = <<>> /\ rest \in 0..BuffSize
  BY DEF IndInv, TypeOK, Points, Recv
<1>4. n \in Nat /\ n >= 1
  BY <1>3, FramerAssumption
<1>5. d \in Seq(Bytes) /\ Len(d) = n
  BY <1>4, SeqDef
<1>6. d # <<>>
  BY <1>4, <1>5
<1>7. /\ buff' = buff /\ rest' = rest /\ null' = null /\ framed' = framed
      /\ error_code' = error_code /\ queued' = queued /\ lost' = lost
      /\ pc' = IF rest > 0 THEN "first" ELSE "loop"
  BY DEF Recv
<1>8. received' \in Seq(Bytes)
  BY <1>2, <1>3, <1>5, ConcatProperties
<1>9. TypeOK'
  BY <1>2, <1>5, <1>7, <1>8 DEF IndInv, TypeOK
<1>10. Points'
  BY <1>2, <1>3, <1>4, <1>5, <1>6, <1>7, FramerAssumption DEF Points
<1>11. Partial'
  BY <1>3, <1>7 DEF IndInv, Partial
<1>12. Conserved'
  <2>1. Buffered \in Seq(Bytes) /\ Held = Buffered
    BY <1>3, BufferedType, ConcatEmptySeq DEF IndInv, Held, Buffered
  <2>2. ASSUME lost' = {} PROVE received' = framed' \o Held'
    <3>1. received = framed \o Buffered
      BY <1>7, <2>1, <2>2 DEF IndInv, Conserved
    <3>2. (framed \o Buffered) \o d = framed \o (Buffered \o d)
      <4>1. framed \in Seq(Bytes) /\ Buffered \in Seq(Bytes) /\ d \in Seq(Bytes)
        BY <1>3, <1>5, <2>1
      <4> QED
        BY <4>1, Regroup
    <3>3. received' = framed \o (Buffered \o d)
      BY <1>2, <3>1, <3>2
    <3> QED
      BY <1>2, <1>7, <3>3 DEF Held, Buffered
  <2> QED
    BY <1>7, <2>2 DEF IndInv, Conserved
<1> QED
  BY <1>9, <1>10, <1>11, <1>12 DEF IndInv

\* What the pass over the buffer works with.
LEMMA FilledFacts ==
  ASSUME IndInv, pc = "first"
  PROVE  /\ Copied \in Seq(Bytes) /\ Len(Copied) <= Len(data)
         /\ Copied = SubSeq(data, 1, Len(Copied))
         /\ rest + Len(Copied) <= BuffSize
         /\ Len(Copied) # Len(data) => rest + Len(Copied) = BuffSize
         /\ Filled = Buffered \o Copied
         /\ Filled \in Seq(Bytes) /\ Len(Filled) = rest + Len(Copied)
<1> DEFINE m == IF Len(data) < BuffSize - rest THEN Len(data) ELSE BuffSize - rest
<1>1. data \in Seq(Bytes) /\ rest \in 0..BuffSize
  BY DEF IndInv, TypeOK
<1>2. m \in 0..Len(data) /\ rest + m <= BuffSize
      /\ (m # Len(data) => rest + m = BuffSize)
  BY <1>1, FramerAssumption
<1>3. Copied = SubSeq(data, 1, m)
  BY DEF Copied
<1> HIDE DEF m
<1>4. Copied \in Seq(Bytes) /\ Len(Copied) = m
  BY <1>1, <1>2, <1>3
<1>5. Buffered \in Seq(Bytes) /\ Len(Buffered) = rest
  BY BufferedType DEF IndInv
<1>6. Filled = Buffered \o Copied
  BY DEF Filled, Buffered
<1>7. Filled \in Seq(Bytes) /\ Len(Filled) = rest + Len(Copied)
  BY <1>4, <1>5, <1>6, ConcatProperties
<1> QED
  BY <1>1, <1>2, <1>3, <1>4, <1>6, <1>7

\* The frame that the pass over the buffer completes ends behind the buffered
\* bytes: they alone were no complete frame.
LEMMA FrameEndsBehind ==
  ASSUME IndInv, pc = "first"
  PROVE  rest <= FrameLength(Filled)
<1>1. /\ Filled \in Seq(Bytes) /\ Len(Filled) >= rest
      /\ Filled = Buffered \o Copied
      /\ rest \in Nat /\ rest > 0 /\ ~null /\ null \in BOOLEAN
  BY FilledFacts, FramerAssumption DEF IndInv, TypeOK, Points, Partial
<1>2. CASE FrameLength(Filled) = Len(Filled)
  BY <1>1, <1>2
<1>3. CASE FrameLength(Filled) # Len(Filled)
  <2>1. ~TooLong(Filled) /\ ~LengthFailed(Filled)
    BY <1>3 DEF FrameLength, FullLength
  <2>2. CalcLength(Filled) \in Int
    BY <1>1, CalcLengthType
  <2>3. /\ FrameLength(Filled) = CalcLength(Filled) + HeaderLen
        /\ CalcLength(Filled) >= 0
    BY <1>1, <2>1, <2>2 DEF FrameLength, FullLength, LengthFailed, Header
  <2>4. CASE HasLengthFunc /\ HeaderLen # 0
    <3>1. CASE rest < HeaderLen
      BY <1>1, <2>2, <2>3, <3>1, FramerAssumption
    <3>2. CASE ~(rest < HeaderLen)
      <4>1. rest >= HeaderLen
        BY <1>1, <3>2, FramerAssumption
      <4>2. LET n == LengthFunc(SubSeq(buff, 1, HeaderLen))
            IN  rest < n + HeaderLen
        BY <1>1, <2>4, <4>1 DEF IndInv, Partial
      <4>3. SubSeq(Filled, 1, HeaderLen) = SubSeq(buff, 1, HeaderLen)
        <5>1. /\ buff \in Seq(Bytes) /\ Len(buff) = BuffSize
              /\ Buffered \in Seq(Bytes) /\ Len(Buffered) = rest
              /\ Copied \in Seq(Bytes) /\ rest \in 0..BuffSize
          BY BufferedType, FilledFacts DEF IndInv, TypeOK
        <5>2. 1 \in 1..Len(Buffered) /\ HeaderLen \in 1..Len(Buffered)
          BY <2>4, <4>1, <5>1, FramerAssumption
        <5>3. SubSeq(Filled, 1, HeaderLen) = SubSeq(Buffered, 1, HeaderLen)
          BY <1>1, <5>1, <5>2, SubSeqOfConcat1
        <5>4. SubSeq(Buffered, 1, HeaderLen) = SubSeq(buff, 1, HeaderLen)
          BY <4>1, <5>1, PrefixOfPrefix, FramerAssumption DEF Buffered
        <5> QED
          BY <5>3, <5>4
      <4>4. CalcLength(Filled) = LengthFunc(SubSeq(buff, 1, HeaderLen))
        <5>1. ~(Len(Filled) < HeaderLen)
          BY <1>1, <4>1, FramerAssumption
        <5> QED
          BY <1>1, <2>4, <4>3, <5>1 DEF CalcLength
      <4> QED
        BY <1>1, <2>2, <2>3, <4>2, <4>4, FramerAssumption
    <3> QED
      BY <3>1, <3>2
  <2>5. CASE ~(HasLengthFunc /\ HeaderLen # 0)
    BY <1>1, <2>3, <2>5, FramerAssumption DEF CalcLength, IndInv, Partial
  <2> QED
    BY <2>4, <2>5
<1> QED
  BY <1>2, <1>3

\* A pass that puts a frame keeps the types of the framer's other fields.
LEMMA PutFrameType ==
  ASSUME TypeOK, NEW f \in Seq(Bytes), NEW s \in Seq(Bytes),
         PutFrame(f, LengthError(s)), SetNull(s)
  PROVE  /\ framed' \in Seq(Bytes) /\ queued' \in Nat
         /\ error_code' \in Errors /\ null' \in BOOLEAN
<1>1. framed' \in Seq(Bytes)
  BY ConcatProperties DEF TypeOK, PutFrame
<1>2. queued' \in Nat
  BY DEF TypeOK, PutFrame
<1>3. error_code' \in Errors
  BY DEF TypeOK, PutFrame, LengthError, Errors
<1>4. null' \in BOOLEAN
  BY DEF SetNull
<1> QED
  BY <1>1, <1>2, <1>3, <1>4

\* The pass over the buffer takes from the data what the frame needs.
LEMMA IndFirst ==
  ASSUME IndInv, First
  PROVE  /\ IndInv' /\ Held' \in Seq(Bytes)
         /\ Held = SubSeq(Filled, 1, FrameLength(Filled)) \o Held'
<1> DEFINE k == FrameLength(Filled) - rest
<1>0. /\ TypeOK /\ pc = "first" /\ null \in BOOLEAN /\ rest \in Nat
      /\ data \in Seq(Bytes) /\ framed \in Seq(Bytes) /\ received \in Seq(Bytes)
  BY FramerAssumption DEF First, IndInv, TypeOK
<1>1. /\ Filled \in Seq(Bytes) /\ Filled = Buffered \o Copied
      /\ Copied \in Seq(Bytes) /\ Len(Filled) = rest + Len(Copied)
      /\ Copied = SubSeq(data, 1, Len(Copied)) /\ Len(Copied) <= Len(data)
      /\ rest + Len(Copied) <= BuffSize
      /\ Buffered \in Seq(Bytes) /\ Len(Buffered) = rest
  BY <1>0, FilledFacts, BufferedType
<1>2. /\ FrameLength(Filled) \in Nat /\ rest <= FrameLength(Filled)
      /\ FrameLength(Filled) <= Len(Filled)
  BY <1>0, <1>1, FrameLengthFacts, FrameEndsBehind DEF First
<1>3. k \in 0..Len(Copied) /\ k \in 0..Len(data) /\ Len(Copied) \in 0..Len(data)
  BY <1>0, <1>1, <1>2
<1>4. SubSeq(Filled, 1, FrameLength(Filled)) = Buffered \o SubSeq(data, 1, k)
  <2>1. SubSeq(Filled, 1, FrameLength(Filled)) = Buffered \o SubSeq(Copied, 1, k)
    <3>1. FrameLength(Filled) \in Len(Buffered)..(Len(Buffered) + Len(Copied))
      BY <1>0, <1>1, <1>2
    <3>2. SubSeq(Buffered \o Copied, 1, FrameLength(Filled)) =
            Buffered \o SubSeq(Copied, 1, FrameLength(Filled) - Len(Buffered))
      BY <1>1, <3>1, BeginOfConcat
    <3> QED
      BY <1>1, <3>2
  <2>2. SubSeq(Copied, 1, k) = SubSeq(data, 1, k)
    BY <1>0, <1>1, <1>3, PrefixOfPrefix
  <2> QED
    BY <2>1, <2>2
<1>5. /\ SubSeq(data, 1, k) \in Seq(Bytes) /\ Drop(data, k) \in Seq(Bytes)
      /\ SubSeq(data, 1, k) \o Drop(data, k) = data
  BY <1>0, <1>3, SplitAt
<1>6. /\ framed' = framed \o (Buffered \o SubSeq(data, 1, k))
      /\ data' = Drop(data, k) /\ rest' = 0 /\ received' = received
      /\ pc' = IF data' = <<>> THEN "idle" ELSE "loop"
      /\ lost' = lost
  BY <1>4 DEF First, PutFrame
<1>7. TypeOK'
  <2>1. /\ framed' \in Seq(Bytes) /\ queued' \in Nat
        /\ error_code' \in Errors /\ null' \in BOOLEAN
    <3>1. SubSeq(Filled, 1, FrameLength(Filled)) \in Seq(Bytes)
      <4>1. Buffered \o SubSeq(data, 1, k) \in Seq(Bytes)
        BY <1>1, <1>5, ConcatProperties
      <4> QED
        BY <1>4, <4>1
    <3> QED
      BY <1>0, <1>1, <3>1, PutFrameType DEF First
  <2>2. buff' \in [1..BuffSize -> Bytes]
    BY <1>0, <1>1, CopyToBuffer DEF First, TypeOK
  <2>3. /\ data' \in Seq(Bytes) /\ received' \in Seq(Bytes)
        /\ pc' \in {"idle", "first", "loop", "done"}
    BY <1>0, <1>5, <1>6
  <2>4. rest' \in 0..BuffSize
    BY <1>6, FramerAssumption
  <2> QED
    BY <1>0, <1>6, <2>1, <2>2, <2>3, <2>4 DEF TypeOK
<1>8. Points' /\ Partial'
  <2>1. Len(data') <= MaxRecv
    <3>1. Len(Drop(data, k)) = Len(data) - k /\ Len(data) <= MaxRecv
      BY <1>0, <1>3, SplitAt DEF IndInv, Points
    <3> QED
      BY <1>0, <1>3, <1>6, <3>1, FramerAssumption
  <2> QED
    BY <1>6, <2>1 DEF Points, Partial
<1>9. Held' = Drop(data, k)
  BY <1>5, <1>6, NothingBuffered, ConcatEmptySeq DEF Held
<1>10. Held = (Buffered \o SubSeq(data, 1, k)) \o Held'
  <2> DEFINE u == SubSeq(data, 1, k)
  <2> DEFINE v == Drop(data, k)
  <2>1. u \in Seq(Bytes) /\ v \in Seq(Bytes) /\ u \o v = data
    BY <1>5
  <2> HIDE DEF u, v
  <2>2. (Buffered \o u) \o v = Buffered \o (u \o v)
    <3>1. Buffered \in Seq(Bytes) /\ u \in Seq(Bytes) /\ v \in Seq(Bytes)
      BY <1>1, <2>1
    <3> QED
      BY <3>1, Regroup
  <2>3. Held = (Buffered \o u) \o v
    BY <2>1, <2>2 DEF Held, Buffered
  <2> QED
    BY <1>9, <2>3 DEF u, v
<1>11. Conserved'
  <2> DEFINE x == Buffered \o SubSeq(data, 1, k)
  <2>1. x \in Seq(Bytes)
    BY <1>1, <1>5, ConcatProperties
  <2>2. framed' = framed \o x /\ Held = x \o Held' /\ Held' \in Seq(Bytes)
    BY <1>5, <1>6, <1>9, <1>10
  <2>3. error_code # "NO_ERROR" => error_code' # "NO_ERROR"
    BY ErrorStays DEF First
  <2> HIDE DEF x
  <2> QED
    BY <1>6, <2>1, <2>2, <2>3, PassedOn
<1> QED
  BY <1>4, <1>5, <1>7, <1>8, <1>9, <1>10, <1>11 DEF IndInv

\* Bytes of an incomplete frame are kept as far as there is room, and Partial
\* describes them: they are no complete event.
LEMMA Kept ==
  ASSUME NEW s \in Seq(Bytes), IndInv, Len(s) < FrameLength(s),
         Len(s) <= BuffSize, SetNull(s), error_code' = LengthError(s),
         buff' \in [1..BuffSize -> Bytes],
         rest' = Len(s), SubSeq(buff', 1, Len(s)) = s,
         data' = <<>>, pc' = "idle", queued' = queued,
         received' = received, framed' = framed,
         lost' \subseteq {"limit", "header", "room"}
  PROVE  /\ TypeOK' /\ Points' /\ Partial' /\ NoCompleteEventHeld'
         /\ Held' = s /\ error_code' = error_code /\ null' = null
<1>0. TypeOK
  BY DEF IndInv
<1>1. /\ ~null /\ ~LengthFailed(s) /\ ~TooLong(s) /\ FrameLength(s) \in Nat
      /\ FrameLength(s) = CalcLength(s) + HeaderLen
      /\ FrameLength(s) <= MaxFrameLen
  BY <1>0, FrameLengthFacts DEF TypeOK
<1>2. null' = FALSE /\ error_code' = error_code
  BY <1>0, <1>1 DEF SetNull, LengthError, TypeOK
<1>3. Len(s) \in 0..BuffSize
  BY FramerAssumption
<1>4. TypeOK'
  BY <1>0, <1>2, <1>3, EmptySeq DEF TypeOK
<1>5. Points'
  BY EmptySeq, FramerAssumption DEF Points
<1>6. Partial'
  <2>1. CalcLength(s) \in Int /\ CalcLength(s) >= 0
    BY <1>1, CalcLengthType DEF LengthFailed
  <2>2. ASSUME HasLengthFunc, HeaderLen # 0, Len(s) >= HeaderLen
        PROVE  LengthFunc(SubSeq(buff', 1, HeaderLen)) = CalcLength(s)
    <3>1. buff' \in Seq(Bytes) /\ Len(buff') = BuffSize
      BY SeqDef, FramerAssumption
    <3>2. SubSeq(SubSeq(buff', 1, Len(s)), 1, HeaderLen) = SubSeq(buff', 1, HeaderLen)
      BY <1>3, <2>2, <3>1, PrefixOfPrefix, FramerAssumption
    <3>3. SubSeq(s, 1, HeaderLen) = SubSeq(buff', 1, HeaderLen)
      BY <3>2
    <3>4. ~(Len(s) < HeaderLen)
      BY <2>2, FramerAssumption
    <3> QED
      BY <1>1, <2>2, <3>3, <3>4 DEF CalcLength
  <2>3. ASSUME ~(HasLengthFunc /\ HeaderLen # 0), FixedLen # 0
        PROVE  CalcLength(s) = FixedLen
    BY <1>1, <2>3 DEF CalcLength
  <2> QED
    BY <1>1, <1>2, <2>1, <2>2, <2>3, FramerAssumption DEF Partial
<1>7. Held' = s
  BY ConcatEmptySeq DEF Held
<1>8. null' = null
  BY <1>0, <1>1, <1>2 DEF TypeOK
<1>9. NoCompleteEventHeld'
  <2>1. FrameLength(Held)' = FrameLength(s)
    BY <1>7, <1>8
    DEF FrameLength, FullLength, TooLong, CalcLength, LengthFailed, Header
  <2> QED
    BY <1>2, <2>1 DEF NoCompleteEventHeld
<1> QED
  BY <1>2, <1>4, <1>5, <1>6, <1>7, <1>8, <1>9

\* The pass over the buffer that does not complete a frame: the data fit, or
\* the beginning of an event fills the buffer that is longer than that.
LEMMA IndFirstKeep ==
  ASSUME IndInv, FirstKeep
  PROVE  /\ IndInv' /\ NoCompleteEventHeld' /\ null' = null
         /\ \/ Held' = Held
            \/ /\ Len(Held) > BuffSize /\ Held' = SubSeq(Held, 1, BuffSize)
               /\ Filled = Held' /\ Len(Filled) = BuffSize
<1>0. TypeOK /\ pc = "first" /\ rest \in Nat /\ data \in Seq(Bytes)
      /\ null \in BOOLEAN /\ buff \in [1..BuffSize -> Bytes]
  BY FramerAssumption DEF FirstKeep, IndInv, TypeOK
<1>1. /\ Filled \in Seq(Bytes) /\ Filled = Buffered \o Copied
      /\ Copied \in Seq(Bytes) /\ Len(Filled) = rest + Len(Copied)
      /\ Copied = SubSeq(data, 1, Len(Copied)) /\ Len(Copied) <= Len(data)
      /\ rest + Len(Copied) <= BuffSize
      /\ Len(Copied) # Len(data) => rest + Len(Copied) = BuffSize
  BY <1>0, FilledFacts
<1>2. /\ Len(Filled) < FrameLength(Filled) /\ FrameLength(Filled) <= MaxFrameLen
      /\ FrameLength(Filled) \in Nat
  BY <1>0, <1>1, FrameLengthFacts DEF FirstKeep
<1>3. /\ buff' \in [1..BuffSize -> Bytes]
      /\ SubSeq(buff', 1, rest + Len(Copied)) = Buffered \o Copied
  BY <1>0, <1>1, CopyToBuffer DEF FirstKeep, Buffered
<1>4. /\ data' = <<>> /\ pc' = "idle" /\ queued' = queued /\ rest' = Len(Filled)
      /\ received' = received /\ framed' = framed /\ SetNull(Filled)
      /\ error_code' = LengthError(Filled)
      /\ lost' = IF Len(Copied) < Len(data) THEN lost \cup {"room"} ELSE lost
  BY DEF FirstKeep, Loses
<1>5. lost' \subseteq {"limit", "header", "room"}
  BY <1>0, <1>4 DEF TypeOK
<1>6. /\ TypeOK' /\ Points' /\ Partial' /\ NoCompleteEventHeld'
      /\ Held' = Filled /\ error_code' = error_code /\ null' = null
  <2>1. SubSeq(buff', 1, Len(Filled)) = Filled /\ Len(Filled) <= BuffSize
    BY <1>1, <1>3
  <2> QED
    BY <1>1, <1>2, <1>3, <1>4, <1>5, <2>1, Kept
<1>7. CASE Len(Copied) = Len(data)
  <2>1. Copied = data
    BY <1>0, <1>1, <1>7, SubSeqFull
  <2>2. Held = Filled /\ lost' = lost
    BY <1>1, <1>4, <1>7, <2>1 DEF Held, Buffered
  <2>3. Conserved'
    BY <1>4, <1>6, <2>2 DEF IndInv, Conserved
  <2> QED
    BY <1>6, <2>2, <2>3 DEF IndInv
<1>8. CASE Len(Copied) # Len(data)
  <2>1. Len(Copied) < Len(data) /\ Len(Filled) = BuffSize
    BY <1>0, <1>1, <1>8
  <2>2. lost' = lost \cup {"room"} /\ MaxFrameLen > BuffSize
    BY <1>2, <1>4, <2>1, FramerAssumption
  <2>3. Conserved'
    BY <1>4, <1>6, <2>2 DEF IndInv, Conserved
  <2>4. Held = Buffered \o data /\ Buffered \in Seq(Bytes) /\ Len(Buffered) = rest
    BY <1>0, HeldType, BufferedType
  <2>5. Len(Held) > BuffSize /\ SubSeq(Held, 1, BuffSize) = Filled
    <3>1. Len(Buffered \o data) = rest + Len(data)
      BY <1>0, <2>4, ConcatProperties
    <3>2. /\ BuffSize \in Len(Buffered)..(Len(Buffered) + Len(data))
          /\ BuffSize - Len(Buffered) = Len(Copied)
      BY <1>0, <1>1, <2>1, <2>4, FramerAssumption
    <3>3. SubSeq(Buffered \o data, 1, BuffSize) =
            Buffered \o SubSeq(data, 1, BuffSize - Len(Buffered))
      BY <1>0, <2>4, <3>2, BeginOfConcat
    <3>4. Len(Buffered \o data) > BuffSize
      BY <1>0, <1>1, <2>1, <3>1, FramerAssumption
    <3> QED
      BY <1>1, <2>4, <3>2, <3>3, <3>4
  <2> QED
    BY <1>6, <2>1, <2>3, <2>5 DEF IndInv
<1> QED
  BY <1>7, <1>8

\* A chunk that is shorter than its frame fits in the buffer.
LEMMA ChunkFits ==
  ASSUME IndInv, data \in Seq(Bytes), NEW n \in Int, n <= MaxFrameLen,
         Len(data) < n
  PROVE  Len(data) <= BuffSize
<1>1. Len(data) \in Nat /\ Len(data) <= MaxRecv
  BY DEF IndInv, Points
<1> QED
  BY <1>1, FramerAssumption

\* The loop keeps the beginning of a frame: it fits in the buffer.
LEMMA IndLoopKeep ==
  ASSUME IndInv, LoopKeep
  PROVE  IndInv' /\ NoCompleteEventHeld' /\ Held' = Held /\ null' = null
<1>0. TypeOK /\ pc = "loop" /\ rest = 0 /\ data \in Seq(Bytes)
      /\ null \in BOOLEAN /\ buff \in [1..BuffSize -> Bytes]
  BY DEF LoopKeep, LoopOn, IndInv, TypeOK, Points
<1>1. /\ Len(data) < FrameLength(data) /\ FrameLength(data) <= MaxFrameLen
      /\ FrameLength(data) \in Nat
  BY <1>0, FrameLengthFacts DEF LoopKeep
<1>2. 0 + Len(data) <= BuffSize
  BY <1>0, <1>1, ChunkFits
<1>3. /\ buff' \in [1..BuffSize -> Bytes]
      /\ SubSeq(buff', 1, 0 + Len(data)) = SubSeq(buff, 1, 0) \o data
  BY <1>0, <1>2, CopyToBuffer DEF LoopKeep
<1>4. 0 + Len(data) = Len(data) /\ SubSeq(buff, 1, 0) \o data = data
  BY <1>0, NothingBuffered, ConcatEmptySeq
<1>5. Held = data
  BY <1>0, <1>4 DEF Held
<1>6. /\ data' = <<>> /\ pc' = "idle" /\ queued' = queued /\ rest' = Len(data)
      /\ received' = received /\ framed' = framed /\ lost' = lost
      /\ SetNull(data) /\ error_code' = LengthError(data)
  BY DEF LoopKeep
<1>7. /\ TypeOK' /\ Points' /\ Partial' /\ NoCompleteEventHeld'
      /\ Held' = data /\ error_code' = error_code /\ null' = null
  <2>1. /\ lost' \subseteq {"limit", "header", "room"} /\ Len(data) <= BuffSize
        /\ SubSeq(buff', 1, Len(data)) = data
    BY <1>0, <1>2, <1>3, <1>4, <1>6 DEF TypeOK
  <2> QED
    BY <1>0, <1>1, <1>3, <1>6, <2>1, Kept
<1>8. Conserved'
  BY <1>5, <1>6, <1>7 DEF IndInv, Conserved
<1> QED
  BY <1>5, <1>7, <1>8 DEF IndInv

\* Less than a header: one byte of it is kept, and is all there is when the
\* header has no more than two.  More of them are lost.
LEMMA IndLoopShort ==
  ASSUME IndInv, LoopShort
  PROVE  IndInv' /\ NoCompleteEventHeld' /\ (HeaderLen <= 2 => Held' = Held)
<1>0. /\ TypeOK /\ pc = "loop" /\ rest = 0 /\ data \in Seq(Bytes)
      /\ framed \in Seq(Bytes) /\ received \in Seq(Bytes)
      /\ null \in BOOLEAN /\ buff \in [1..BuffSize -> Bytes]
  BY DEF LoopShort, IndInv, TypeOK, Points
<1>1. PICK b \in IF data = <<>> THEN Bytes ELSE {data[1]} : buff' = CopyTo(0, <<b>>)
  BY DEF LoopShort
<1>2. /\ data' = <<>> /\ rest' = Len(data) /\ pc' = "idle" /\ null' = null
      /\ received' = received /\ framed' = framed
      /\ error_code' = error_code /\ queued' = queued
      /\ lost' = IF Len(data) > 1 THEN lost \cup {"header"} ELSE lost
  BY DEF LoopShort, Loses
<1>3. Len(data) \in Nat /\ (Len(data) > 0 => ~null /\ Len(data) < HeaderLen)
  <2>1. data = <<>> \/ Len(data) < Header
    BY DEF LoopShort
  <2>2. CASE data = <<>>
    BY <2>2
  <2>3. CASE data # <<>> /\ Len(data) < Header
    <3>1. Len(data) \in Nat /\ Len(data) >= 1
      BY <1>0, <2>3
    <3> QED
      BY <2>3, <3>1 DEF Header
  <2> QED
    BY <2>1, <2>2, <2>3
<1>4. b \in Bytes /\ (Len(data) = 1 => <<b>> = data)
  BY <1>0, <1>1, FramerAssumption
<1>5. /\ buff' \in [1..BuffSize -> Bytes]
      /\ SubSeq(buff', 1, 0 + Len(<<b>>)) = SubSeq(buff, 1, 0) \o <<b>>
  <2>1. <<b>> \in Seq(Bytes) /\ Len(<<b>>) = 1 /\ 0 + Len(<<b>>) <= BuffSize
    BY <1>4, FramerAssumption
  <2> QED
    BY <1>0, <1>1, <2>1, CopyToBuffer
<1>6. ASSUME Len(data) <= 1 PROVE Held' = data /\ lost' = lost
  <2>1. SubSeq(buff', 1, Len(data)) = data
    <3>1. CASE Len(data) = 0
      BY <1>0, <3>1, NothingBuffered
    <3>2. CASE Len(data) = 1
      <4>1. SubSeq(buff, 1, 0) \o <<b>> = <<b>>
        <5>1. <<b>> \in Seq(Bytes) /\ SubSeq(buff, 1, 0) = <<>>
          BY <1>4, NothingBuffered
        <5> QED
          BY <5>1, ConcatEmptySeq
      <4> QED
        BY <1>4, <1>5, <3>2, <4>1
    <3>3. Len(data) = 0 \/ Len(data) = 1
      BY <1>3, <1>6
    <3> QED
      BY <3>1, <3>2, <3>3
  <2>2. Held' = data
    BY <1>0, <1>2, <2>1, ConcatEmptySeq DEF Held
  <2> QED
    BY <1>2, <1>3, <1>6, <2>2
<1>7. Held = data
  BY <1>0, NothingBuffered, ConcatEmptySeq DEF Held
<1>8. TypeOK'
  <2>1. rest' \in 0..BuffSize
    <3>1. Len(data) > 0 => Len(data) <= BuffSize
      BY <1>0, <1>3, ChunkFits, FramerAssumption
    <3> QED
      BY <1>2, <1>3, <3>1, FramerAssumption
  <2>2. lost' \subseteq {"limit", "header", "room"}
    BY <1>0, <1>2 DEF TypeOK
  <2> QED
    BY <1>0, <1>2, <1>5, <2>1, <2>2, EmptySeq DEF TypeOK
<1>9. Points'
  BY <1>2, EmptySeq, FramerAssumption DEF Points
<1>10. Partial'
  BY <1>2, <1>3, FramerAssumption DEF Partial
<1>11. Conserved'
  <2>1. CASE Len(data) <= 1
    BY <1>2, <1>6, <1>7, <2>1 DEF IndInv, Conserved
  <2>2. CASE ~(Len(data) <= 1)
    <3>1. Len(data) > 1 /\ HeaderLen > 2
      BY <1>3, <2>2, FramerAssumption
    <3>2. /\ "header" \in lost' /\ ("limit" \in lost' => "limit" \in lost)
          /\ "room" \in lost' => "room" \in lost
      BY <1>2, <3>1
    <3> QED
      BY <1>2, <3>1, <3>2 DEF IndInv, Conserved
  <2> QED
    BY <2>1, <2>2
<1>12. NoCompleteEventHeld'
  BY <1>2, <1>3 DEF NoCompleteEventHeld
<1>13. ASSUME HeaderLen <= 2 PROVE Held' = Held
  <2>1. Len(data) <= 1
    BY <1>3, <1>13, FramerAssumption
  <2> QED
    BY <1>6, <1>7, <2>1
<1> QED
  BY <1>8, <1>9, <1>10, <1>11, <1>12, <1>13 DEF IndInv

\* A frame of the loop is the beginning of the data; the loop goes on behind
\* it, or drops the rest because the frame has reached the limit.
LEMMA IndLoopFrame ==
  ASSUME IndInv, LoopFrame
  PROVE  /\ IndInv' /\ Held' \in Seq(Bytes)
         /\ \/ Held = SubSeq(data, 1, FrameLength(data)) \o Held'
            \/ LimitReached /\ Held' = <<>>
<1> DEFINE x == SubSeq(data, 1, FrameLength(data))
<1> DEFINE y == Drop(data, FrameLength(data))
<1>0. /\ TypeOK /\ pc = "loop" /\ rest = 0 /\ data \in Seq(Bytes)
      /\ framed \in Seq(Bytes) /\ received \in Seq(Bytes)
      /\ null \in BOOLEAN
  BY DEF LoopFrame, LoopOn, IndInv, TypeOK, Points
<1>1. FrameLength(data) \in 0..Len(data)
  BY <1>0, FrameLengthFacts DEF LoopFrame
<1>2. /\ x \in Seq(Bytes) /\ y \in Seq(Bytes) /\ x \o y = data
      /\ Len(y) <= MaxRecv
  <2>1. /\ x \in Seq(Bytes) /\ y \in Seq(Bytes) /\ x \o y = data
        /\ Len(y) = Len(data) - FrameLength(data)
    BY <1>0, <1>1, SplitAt
  <2>2. Len(data) <= MaxRecv
    BY DEF IndInv, Points
  <2> QED
    BY <1>0, <1>1, <2>1, <2>2, FramerAssumption
<1>3. /\ framed' = framed \o x
      /\ rest' = 0 /\ buff' = buff /\ received' = received
      /\ error_code # "NO_ERROR" => error_code' # "NO_ERROR"
      /\ LimitReached => error_code' # "NO_ERROR"
  BY <1>0, ErrorStays DEF LoopFrame, PutFrame
<1>4. \/ LimitReached /\ data' = <<>> /\ pc' = "idle" /\ Loses("limit", y # <<>>)
      \/ data' = y /\ pc' = "loop" /\ lost' = lost
  BY <1>0 DEF LoopFrame
<1>5. /\ framed' \in Seq(Bytes) /\ queued' \in Nat
      /\ error_code' \in Errors /\ null' \in BOOLEAN
  BY <1>0, <1>2, PutFrameType DEF LoopFrame
<1>6. Held = x \o y
  BY <1>0, <1>2, NothingBuffered, ConcatEmptySeq DEF Held
<1> HIDE DEF x, y
<1>7. Held' = data' /\ data' \in Seq(Bytes)
  <2>1. data' \in Seq(Bytes)
    BY <1>2, <1>4, EmptySeq
  <2> QED
    BY <1>3, <2>1, NothingBuffered, ConcatEmptySeq DEF Held
<1>8. TypeOK'
  <2>1. lost' \subseteq {"limit", "header", "room"} /\ pc' \in {"idle", "loop"}
    BY <1>0, <1>4 DEF TypeOK, Loses
  <2> QED
    BY <1>0, <1>3, <1>5, <1>7, <2>1 DEF TypeOK
<1>9. Points' /\ Partial'
  BY <1>2, <1>3, <1>4, EmptySeq, FramerAssumption DEF Points, Partial
<1>10. CASE data' = y /\ lost' = lost
  <2>1. Held = x \o Held'
    BY <1>6, <1>7, <1>10
  <2>2. Conserved'
    BY <1>2, <1>3, <1>7, <1>10, <2>1, PassedOn
  <2> QED
    BY <1>7, <1>8, <1>9, <2>1, <2>2 DEF IndInv, x
<1>11. CASE LimitReached /\ data' = <<>> /\ y # <<>> /\ Loses("limit", y # <<>>)
  <2>1. lost' = lost \cup {"limit"}
    BY <1>11 DEF Loses
  <2>2. QueueLimit # 0
    BY <1>11 DEF LimitReached, AtLimit
  <2>3. Conserved'
    BY <1>3, <1>11, <2>1, <2>2 DEF IndInv, Conserved
  <2> QED
    BY <1>7, <1>8, <1>9, <1>11, <2>3 DEF IndInv
<1> QED
  BY <1>4, <1>10, <1>11 DEF Loses

\* The last frame is what was buffered.
LEMMA IndFlush == IndInv /\ Flush => IndInv'
<1> SUFFICES ASSUME IndInv, Flush PROVE IndInv'
  OBVIOUS
<1>0. /\ TypeOK /\ data = <<>> /\ framed \in Seq(Bytes)
      /\ Buffered \in Seq(Bytes)
  BY BufferedType DEF Flush, IndInv, TypeOK, Points
<1>1. /\ framed' = framed \o Buffered /\ rest' = 0 /\ pc' = "done"
      /\ data' = data /\ received' = received /\ lost' = lost
      /\ error_code' = error_code
  BY DEF Flush, Buffered
<1>2. framed' \in Seq(Bytes)
  BY <1>0, <1>1, ConcatProperties
<1>3. TypeOK'
  BY <1>0, <1>1, <1>2, FramerAssumption DEF TypeOK, Flush
<1>4. Points' /\ Partial'
  BY <1>0, <1>1 DEF IndInv, Points, Partial
<1>5. Conserved'
  <2>1. Held = Buffered
    BY <1>0, ConcatEmptySeq DEF Held, Buffered
  <2>2. Held' = <<>> /\ Held' \in Seq(Bytes)
    BY <1>0, <1>1, NothingBuffered, ConcatEmptySeq, EmptySeq DEF Held
  <2>3. Held = Buffered \o Held'
    BY <1>0, <2>1, <2>2, ConcatEmptySeq
  <2> QED
    BY <1>0, <1>1, <2>2, <2>3, PassedOn
<1> QED
  BY <1>3, <1>4, <1>5 DEF IndInv

\* Every step preserves the invariant.
LEMMA IndStep == IndInv /\ [Next]_vars => IndInv'
<1> SUFFICES ASSUME IndInv, [Next]_vars PROVE IndInv'
  OBVIOUS
<1>1. CASE Next
  BY <1>1, IndRecv, IndFirst, IndFirstKeep, IndLoopShort, IndLoopFrame,
     IndLoopKeep, IndFlush DEF Next
<1>2. CASE UNCHANGED vars
  BY <1>2 DEF vars, IndInv, TypeOK, Points, Partial, Conserved, Held
<1> QED
  BY <1>1, <1>2

\* When nothing is buffered there is no event to hold; the other steps end in
\* the middle of a call, or at its end with what Kept describes.
LEMMA HeldStep ==
  IndInv /\ NoCompleteEventHeld /\ [Next]_vars => NoCompleteEventHeld'
<1> SUFFICES ASSUME IndInv, NoCompleteEventHeld, [Next]_vars
             PROVE  NoCompleteEventHeld'
  OBVIOUS
<1>1. CASE Recv
  BY <1>1 DEF Recv, NoCompleteEventHeld
<1>2. CASE First
  BY <1>2 DEF First, NoCompleteEventHeld
<1>3. CASE LoopFrame
  BY <1>3 DEF LoopFrame, LoopOn, NoCompleteEventHeld, IndInv, Points
<1>4. CASE Flush
  BY <1>4 DEF Flush, NoCompleteEventHeld
<1>5. CASE FirstKeep \/ LoopShort \/ LoopKeep
  BY <1>5, IndFirstKeep, IndLoopShort, IndLoopKeep
<1>6. CASE UNCHANGED vars
  <2>1. Held' = Held /\ null' = null
    BY <1>6 DEF vars, Held
  <2>2. FrameLength(Held)' = FrameLength(Held)
    BY <2>1
    DEF FrameLength, FullLength, TooLong, CalcLength, LengthFailed, Header
  <2> QED
    BY <1>6, <2>2 DEF vars, NoCompleteEventHeld
<1> QED
  BY <1>1, <1>2, <1>3, <1>4, <1>5, <1>6 DEF Next

\* RecvSiDaqData repeats and reorders no byte, and loses one only where the
\* event queue is at frame_queue_limit, which it reports, in a header of more
\* than two bytes that is cut in two, or behind an event that is longer than
\* its buffer: whatever the stream, the chunks and the length function are.
THEOREM BytesConserved == Spec => []Conserved
<1>1. IndInv => Conserved
  BY DEF IndInv
<1>2. IndInv /\ [Next]_vars => IndInv'
  BY IndStep
<1> QED
  BY <1>1, <1>2, IndInit, PTL DEF Spec

\* The framer's fields keep their types; _rest stays within the buffer.
THEOREM FramerTypeCorrect == Spec => []TypeOK
<1>1. IndInv => TypeOK
  BY DEF IndInv
<1>2. IndInv /\ [Next]_vars => IndInv'
  BY IndStep
<1> QED
  BY <1>1, <1>2, IndInit, PTL DEF Spec

\* RecvSiDaqData never returns with a complete event in its buffer: what it
\* keeps is less than a header, or less than the event its header announces.
THEOREM NoEventHeldBack == Spec => []NoCompleteEventHeld
<1>1. Init => NoCompleteEventHeld
  BY DEF Init, NoCompleteEventHeld
<1>2. IndInv /\ [Next]_vars => IndInv'
  BY IndStep
<1>3. IndInv /\ NoCompleteEventHeld /\ [Next]_vars => NoCompleteEventHeld'
  BY HeldStep
<1> QED
  BY <1>1, <1>2, <1>3, IndInit, PTL DEF Spec

\* Without a limit, with a header of two bytes at most and a max_frame_len that
\* is not greater than the buffer, RecvSiDaqData is always at work where the
\* last frame has ended: "The beginning of the received data string passed is
\* always the beginning of the event data" (README.md).
THEOREM EventsBeginBehindFrames ==
  ASSUME HeaderLen <= 2, QueueLimit = 0, MaxFrameLen <= BuffSize
  PROVE  Spec => []EventStart
<1>1. IndInv => EventStart
  <2> SUFFICES ASSUME IndInv PROVE EventStart
    OBVIOUS
  <2>1. "limit" \notin lost
    BY DEF IndInv, Conserved
  <2>2. "header" \notin lost
    BY FramerAssumption DEF IndInv, Conserved
  <2>3. "room" \notin lost
    BY FramerAssumption DEF IndInv, Conserved
  <2>4. lost = {}
    BY <2>1, <2>2, <2>3 DEF IndInv, TypeOK
  <2> QED
    BY <2>4 DEF IndInv, Conserved, EventStart
<1>2. IndInv /\ [Next]_vars => IndInv'
  BY IndStep
<1> QED
  BY <1>1, <1>2, IndInit, PTL DEF Spec

-----------------------------------------------------------------------------
\* The framer has a length for every event: from the header, or fixed.
HasLength == (HasLengthFunc /\ HeaderLen # 0) \/ FixedLen # 0

\* A step that makes no frame and holds what it has held changes nothing in
\* the stream.
LEMMA Stutter ==
  ASSUME Held' = Held, framed' = framed, queued' = queued,
         null' = null, pc # "done", pc' # "done"
  PROVE  UNCHANGED Stream!vars
  BY DEF Stream!vars, AtLimit

\* A pass over s, the beginning of what is held, that makes a frame: it is the
\* event the header announces, or the header is invalid.
LEMMA CutStep ==
  ASSUME HasLength, IndInv, NEW s \in Seq(Bytes), Len(s) >= 1,
         Len(Held) >= Len(s), SubSeq(Held, 1, Len(s)) = s,
         ~null => Len(s) >= HeaderLen,
         FrameLength(s) <= Len(s), SetNull(s),
         framed' = framed \o SubSeq(s, 1, FrameLength(s)),
         Held' \in Seq(Bytes),
         \/ Held = SubSeq(s, 1, FrameLength(s)) \o Held'
         \/ LimitReached /\ Held' = <<>>,
         queued' \in Nat, pc # "done", pc' # "done"
  PROVE  Stream!Next
<1> DEFINE n == FrameLength(s)
<1> DEFINE x == SubSeq(s, 1, n)
<1> DEFINE c == LET h == SubSeq(s, 1, HeaderLen)
                IN  IF HasLengthFunc /\ HeaderLen # 0 THEN LengthFunc(h)
                                                      ELSE FixedLen
<1>1. null \in BOOLEAN /\ n \in Nat /\ n <= Len(s)
  BY FrameLengthFacts DEF IndInv, TypeOK
<1>2. x \in Seq(Bytes) /\ Len(x) = n
  BY <1>1
<1>3. Held \in Seq(Bytes) /\ Len(s) \in 0..Len(Held)
  BY HeldType DEF IndInv
<1>4. SubSeq(Held, 1, n) = x
  <2>1. n \in 0..Len(s)
    BY <1>1
  <2> DEFINE m == Len(s)
  <2>2. SubSeq(SubSeq(Held, 1, m), 1, n) = SubSeq(Held, 1, n)
    BY <1>3, <2>1, PrefixOfPrefix
  <2> QED
    BY <2>2
<1>5. \/ SubSeq(Held, n + 1, Len(Held)) = Held'
      \/ LimitReached /\ Held' = <<>>
  <2> DEFINE k == Held'
  <2> SUFFICES ASSUME Held = x \o k PROVE SubSeq(Held, n + 1, Len(Held)) = k
    OBVIOUS
  <2> HIDE DEF x, k
  <2>1. k \in Seq(Bytes)
    BY DEF k
  <2>2. SubSeq(x \o k, Len(x) + 1, Len(x \o k)) = k
    BY <1>2, <2>1, Parts
  <2> QED
    BY <1>2, <2>2
<1>6. ASSUME n >= 1 PROVE n \in 1..Len(Held) /\ Stream!Cut(n)
  <2>1. n \in 1..Len(Held)
    BY <1>1, <1>3, <1>6
  <2>2. AtLimit' \in BOOLEAN
    BY FramerAssumption DEF AtLimit
  <2> QED
    BY <1>4, <1>5, <2>1, <2>2 DEF Stream!Cut, LimitReached
<1>7. CASE null
  <2>1. n = Len(s)
    BY <1>7 DEF FrameLength, FullLength, LengthFailed, CalcLength, Header
  <2>2. null' = null
    BY <1>7 DEF SetNull
  <2>3. Stream!Raw
    BY <1>6, <1>7, <2>1, <2>2 DEF Stream!Raw
  <2> QED
    BY <2>3 DEF Stream!Next
<1>8. CASE ~null
  <2>1. ~(Len(s) < HeaderLen) /\ HeaderLen \in 0..Len(s)
    BY <1>8, FramerAssumption
  <2>2. SubSeq(Held, 1, HeaderLen) = SubSeq(s, 1, HeaderLen)
    <3> DEFINE m == Len(s)
    <3>1. SubSeq(SubSeq(Held, 1, m), 1, HeaderLen) = SubSeq(Held, 1, HeaderLen)
      BY <1>3, <2>1, PrefixOfPrefix
    <3> QED
      BY <3>1
  <2>3. CalcLength(s) = c /\ c \in Int /\ Header = HeaderLen
    <3>1. CalcLength(s) \in Int
      BY CalcLengthType
    <3>2. CalcLength(s) = c
      BY <1>8, <2>1 DEF CalcLength, HasLength
    <3> QED
      BY <1>8, <3>1, <3>2 DEF Header
  <2>4. StreamLen(Stream!Header) =
           IF c < 0 \/ c + HeaderLen > MaxFrameLen THEN -1 ELSE c + HeaderLen
    BY <2>2 DEF StreamLen, Stream!Header
  <2>5. Len(Held) >= HeaderLen
    BY <1>3, <2>1
  <2> HIDE DEF c
  <2>6. CASE c < 0 \/ c + HeaderLen > MaxFrameLen
    <3>1. LengthFailed(s) \/ TooLong(s)
      BY <2>3, <2>6 DEF LengthFailed, TooLong, FullLength
    <3>2. n = Len(s) /\ null' = TRUE
      BY <3>1 DEF FrameLength, FullLength, SetNull
    <3>3. StreamLen(Stream!Header) < 0
      BY <2>4, <2>6
    <3>4. n \in 1..Len(Held) /\ Stream!Cut(n)
      BY <1>6, <3>2
    <3>5. Stream!Fail
      BY <1>8, <2>5, <3>2, <3>3, <3>4 DEF Stream!Fail
    <3> QED
      BY <3>5 DEF Stream!Next
  <2>7. CASE ~(c < 0 \/ c + HeaderLen > MaxFrameLen)
    <3>1. ~LengthFailed(s) /\ FullLength(s) = c + HeaderLen
      BY <2>3, <2>7 DEF LengthFailed, FullLength
    <3>2. ~TooLong(s) /\ n = c + HeaderLen
      BY <2>7, <3>1 DEF TooLong, FrameLength
    <3>3. null' = null
      BY <1>1, <3>1, <3>2 DEF SetNull
    <3>4. StreamLen(Stream!Header) = n /\ n >= 0
      <4>1. StreamLen(Stream!Header) = c + HeaderLen
        BY <2>4, <2>7
      <4> QED
        BY <1>1, <3>2, <4>1
    <3>5. n >= 1
      <4>1. HeaderLen # 0 \/ c # 0
        BY DEF HasLength, c
      <4> QED
        BY <1>1, <2>3, <2>7, <3>2, <4>1, FramerAssumption
    <3>6. Stream!Event
      BY <1>6, <1>8, <2>5, <3>3, <3>4, <3>5 DEF Stream!Event
    <3> QED
      BY <3>6 DEF Stream!Next
  <2> QED
    BY <2>6, <2>7
<1> QED
  BY <1>7, <1>8

\* A chunk that comes in is behind what is held.
LEMMA RecvExtends == IndInv /\ Recv => Stream!Next
<1> SUFFICES ASSUME IndInv, Recv PROVE Stream!Next
  OBVIOUS
<1>1. PICK n \in 1..MaxRecv : \E d \in [1..n -> Bytes] :
         data' = d /\ received' = received \o d
  BY DEF Recv
<1>2. PICK d \in [1..n -> Bytes] : data' = d /\ received' = received \o d
  BY <1>1
<1>3. d \in Seq(Bytes)
  <2>1. n \in Nat
    BY FramerAssumption
  <2> QED
    BY <2>1, SeqDef
<1>4. /\ Buffered \in Seq(Bytes) /\ data = <<>> /\ pc = "idle"
      /\ rest' = rest /\ buff' = buff
  BY BufferedType DEF IndInv, Points, Recv
<1>5. Held = Buffered /\ Held' = Buffered \o d
  BY <1>2, <1>4, ConcatEmptySeq DEF Held, Buffered
<1>6. /\ Len(Buffered \o d) >= Len(Buffered)
      /\ SubSeq(Buffered \o d, 1, Len(Buffered)) = Buffered
  <2>1. Len(Buffered \o d) = Len(Buffered) + Len(d)
    BY <1>3, <1>4, ConcatProperties
  <2> QED
    BY <1>3, <1>4, <2>1, Parts
<1>7. framed' = framed /\ null' = null /\ pc' # "done" /\ AtLimit' = AtLimit
  BY DEF Recv, AtLimit
<1>8. Stream!Receive
  BY <1>5, <1>6, <1>7 DEF Stream!Receive
<1> QED
  BY <1>4, <1>7, <1>8 DEF Stream!Next

\* The pass over the buffer that completes a frame cuts the event whose
\* beginning was buffered.
LEMMA FirstCuts ==
  ASSUME HasLength, HeaderLen <= 2, IndInv, First
  PROVE  Stream!Next
<1>1. /\ rest \in Nat /\ rest > 0 /\ data \in Seq(Bytes) /\ data # <<>>
      /\ pc = "first" /\ Buffered \in Seq(Bytes) /\ Len(Buffered) = rest
      /\ null \in BOOLEAN
  BY BufferedType, FramerAssumption DEF First, IndInv, TypeOK, Points
<1>2. /\ Filled \in Seq(Bytes) /\ Filled = Buffered \o Copied
      /\ Copied \in Seq(Bytes) /\ Len(Filled) = rest + Len(Copied)
      /\ Copied = SubSeq(data, 1, Len(Copied)) /\ Len(Copied) <= Len(data)
      /\ Len(Copied) # Len(data) => rest + Len(Copied) = BuffSize
  BY <1>1, FilledFacts
<1>3. Len(data) >= 1 /\ Len(data) \in Nat /\ Len(Copied) \in Nat
  BY <1>1, <1>2
<1>4. Len(Filled) >= 1 /\ Len(Filled) >= HeaderLen
  BY <1>1, <1>2, <1>3, FramerAssumption
<1>5. Filled = SubSeq(Held, 1, Len(Filled)) /\ Len(Held) >= Len(Filled)
      /\ Held \in Seq(Bytes)
  <2>1. /\ Held = Buffered \o data /\ Held \in Seq(Bytes)
        /\ Len(Held) = rest + Len(data)
    BY <1>1, ConcatProperties DEF Held, Buffered
  <2>2. /\ Len(Filled) \in Len(Buffered)..(Len(Buffered) + Len(data))
        /\ Len(Filled) - Len(Buffered) = Len(Copied)
    BY <1>1, <1>2, <1>3
  <2>3. SubSeq(Buffered \o data, 1, Len(Filled))
          = Buffered \o SubSeq(data, 1, Len(Copied))
    BY <1>1, <2>2, BeginOfConcat
  <2> QED
    BY <1>1, <1>2, <1>3, <2>1, <2>3
<1>6. /\ Held' \in Seq(Bytes) /\ queued' \in Nat
      /\ Held = SubSeq(Filled, 1, FrameLength(Filled)) \o Held'
  BY IndFirst DEF IndInv, TypeOK
<1>7. FrameLength(Filled) <= Len(Filled)
  <2>1. FrameLength(Filled) \in Nat
    BY <1>1, <1>2, FrameLengthFacts
  <2> QED
    BY <1>2, <2>1 DEF First
<1>8. /\ framed' = framed \o SubSeq(Filled, 1, FrameLength(Filled))
      /\ SetNull(Filled) /\ pc # "done" /\ pc' # "done"
  BY DEF First, PutFrame
<1> QED
  BY <1>2, <1>4, <1>5, <1>6, <1>7, <1>8, CutStep

\* A pass of the loop that makes a frame cuts the next event of the data.
LEMMA LoopCuts ==
  ASSUME HasLength, IndInv, LoopFrame
  PROVE  Stream!Next
<1>1. /\ rest = 0 /\ data \in Seq(Bytes) /\ data # <<>> /\ pc = "loop"
      /\ null \in BOOLEAN /\ Len(data) >= Header
  BY DEF LoopFrame, LoopOn, IndInv, TypeOK, Points
<1>2. Held = data
  BY <1>1, NothingBuffered, ConcatEmptySeq DEF Held
<1>3. Len(data) >= 1 /\ (~null => Len(data) >= HeaderLen)
  BY <1>1 DEF Header
<1>4. FrameLength(data) <= Len(data)
  BY <1>1, FrameLengthFacts DEF LoopFrame
<1>5. /\ framed' = framed \o SubSeq(data, 1, FrameLength(data))
      /\ SetNull(data) /\ pc # "done" /\ pc' # "done"
  BY <1>1 DEF LoopFrame, PutFrame
<1>6. Len(Held) >= Len(data) /\ SubSeq(Held, 1, Len(data)) = data
  BY <1>1, <1>2, SubSeqFull
<1>7. /\ Held' \in Seq(Bytes) /\ queued' \in Nat
      /\ \/ Held = SubSeq(data, 1, FrameLength(data)) \o Held'
         \/ LimitReached /\ Held' = <<>>
  BY IndLoopFrame DEF IndInv, TypeOK
<1> QED
  BY <1>1, <1>3, <1>4, <1>5, <1>6, <1>7, CutStep

\* The pass over the buffer that completes no frame changes nothing in the
\* stream, or there is no room for the event it has come to.
LEMMA FirstKeeps ==
  ASSUME HasLength, IndInv, FirstKeep
  PROVE  [Stream!Next]_(Stream!vars)
<1>1. /\ framed' = framed /\ queued' = queued /\ null' = null
      /\ pc # "done" /\ pc' # "done"
  BY IndFirstKeep DEF FirstKeep
<1>2. CASE Held' = Held
  BY <1>1, <1>2, Stutter
<1>3. CASE /\ Len(Held) > BuffSize /\ Held' = SubSeq(Held, 1, BuffSize)
           /\ Filled = Held' /\ Len(Filled) = BuffSize
  <2>1. Held \in Seq(Bytes) /\ Filled \in Seq(Bytes) /\ null \in BOOLEAN
    BY HeldType, FilledFacts DEF FirstKeep, IndInv, TypeOK
  <2>2. /\ ~null /\ ~LengthFailed(Filled) /\ FrameLength(Filled) <= MaxFrameLen
        /\ FrameLength(Filled) = CalcLength(Filled) + HeaderLen
        /\ FrameLength(Filled) \in Nat /\ FrameLength(Filled) > BuffSize
    BY <1>3, <2>1, FrameLengthFacts, FramerAssumption DEF FirstKeep
  <2> DEFINE c == LET h == SubSeq(Held, 1, HeaderLen)
                  IN  IF HasLengthFunc /\ HeaderLen # 0 THEN LengthFunc(h)
                                                        ELSE FixedLen
  <2>3. CalcLength(Filled) = c /\ CalcLength(Filled) \in Int /\ ~(c < 0)
    <3>1. CalcLength(Filled) \in Int
      BY <2>1, CalcLengthType
    <3>2. CASE HasLengthFunc /\ HeaderLen # 0
      <4>1. ~(Len(Filled) < HeaderLen) /\ HeaderLen \in 0..Len(Filled)
        BY <2>1, <2>2, <3>2, FramerAssumption DEF LengthFailed, CalcLength
      <4>2. SubSeq(Filled, 1, HeaderLen) = SubSeq(Held, 1, HeaderLen)
        <5>1. BuffSize \in 0..Len(Held) /\ HeaderLen \in 0..BuffSize
          BY <1>3, <2>1, <4>1, FramerAssumption
        <5>2. SubSeq(SubSeq(Held, 1, BuffSize), 1, HeaderLen)
                = SubSeq(Held, 1, HeaderLen)
          BY <2>1, <5>1, PrefixOfPrefix
        <5> QED
          BY <1>3, <5>2
      <4>3. CalcLength(Filled) = c
        BY <2>2, <3>2, <4>1, <4>2 DEF CalcLength
      <4> QED
        BY <2>2, <3>1, <4>3 DEF LengthFailed
    <3>3. CASE ~(HasLengthFunc /\ HeaderLen # 0)
      <4>1. CalcLength(Filled) = c
        BY <2>2, <3>3 DEF CalcLength, HasLength
      <4> QED
        BY <2>2, <3>1, <4>1 DEF LengthFailed
    <3> QED
      BY <3>2, <3>3
  <2>4. StreamLen(Stream!Header) =
           IF c < 0 \/ c + HeaderLen > MaxFrameLen THEN -1 ELSE c + HeaderLen
    BY DEF StreamLen, Stream!Header
  <2> HIDE DEF c
  <2>5. StreamLen(Stream!Header) > BuffSize
    <3>1. c \in Int /\ ~(c < 0) /\ c + HeaderLen <= MaxFrameLen
      BY <2>2, <2>3
    <3>2. StreamLen(Stream!Header) = c + HeaderLen
      BY <2>4, <3>1, FramerAssumption
    <3> QED
      BY <2>2, <2>3, <3>2
  <2>6. AtLimit' = AtLimit
    BY <1>1 DEF AtLimit
  <2>7. Stream!Overrun
    BY <1>1, <1>3, <2>2, <2>5, <2>6 DEF Stream!Overrun
  <2> QED
    BY <1>1, <2>7 DEF Stream!Next
<1> QED
  BY <1>2, <1>3, IndFirstKeep

\* Every step of the framer is one of the stream's, or none.
LEMMA StreamStep ==
  ASSUME HasLength, HeaderLen <= 2
  PROVE  IndInv /\ [Next]_vars => [Stream!Next]_(Stream!vars)
<1> SUFFICES ASSUME IndInv, [Next]_vars PROVE [Stream!Next]_(Stream!vars)
  OBVIOUS
<1>1. CASE Recv
  BY <1>1, RecvExtends
<1>2. CASE First
  BY <1>2, FirstCuts
<1>3. CASE LoopFrame
  BY <1>3, LoopCuts
<1>4. CASE FirstKeep
  BY <1>4, FirstKeeps
<1>5. CASE LoopShort \/ LoopKeep
  <2>1. /\ framed' = framed /\ queued' = queued
        /\ pc # "done" /\ pc' # "done"
    BY <1>5 DEF LoopShort, LoopKeep, LoopOn
  <2>2. null' = null
    BY <1>5, IndLoopKeep DEF LoopShort
  <2>3. Held' = Held
    BY <1>5, IndLoopShort, IndLoopKeep
  <2> QED
    BY <2>1, <2>2, <2>3, Stutter
<1>6. CASE Flush
  <2>1. data = <<>> /\ Buffered \in Seq(Bytes) /\ pc = "idle"
    BY <1>6, BufferedType DEF Flush, IndInv, Points
  <2>2. Held = Buffered
    BY <2>1, ConcatEmptySeq DEF Held, Buffered
  <2>3. Held' = <<>>
    BY <1>6, <2>1, NothingBuffered, ConcatEmptySeq, EmptySeq DEF Flush, Held
  <2>4. /\ framed' = framed \o Buffered /\ null' = null /\ pc' = "done"
        /\ AtLimit' = AtLimit
    BY <1>6 DEF Flush, Buffered, AtLimit
  <2>5. Stream!Flush
    BY <2>2, <2>3, <2>4 DEF Stream!Flush
  <2> QED
    BY <2>1, <2>4, <2>5 DEF Stream!Next
<1>7. CASE UNCHANGED vars
  BY <1>7 DEF vars, Stream!vars, Held, AtLimit
<1> QED
  BY <1>1, <1>2, <1>3, <1>4, <1>5, <1>6, <1>7 DEF Next

\* The framer implements EventStream: wherever TCP cuts the stream, the frames
\* are the events their headers announce, until a header is invalid; nothing is
\* dropped between them, unless behind an event that reaches frame_queue_limit
\* or from an event that is longer than the buffer.
THEOREM FramerCutsEvents ==
  ASSUME HasLength, HeaderLen <= 2
  PROVE  Spec => CutsEvents
<1>1. Init => Stream!Init
  <2>1. ASSUME Init PROVE Held = <<>> /\ framed = <<>> /\ ~null /\ pc # "done"
    BY <2>1, NothingBuffered, ConcatEmptySeq, EmptySeq DEF Init, Held
  <2>2. ASSUME Init PROVE AtLimit \in BOOLEAN
    BY <2>2, FramerAssumption DEF Init, AtLimit
  <2> QED
    BY <2>1, <2>2 DEF Stream!Init, Init
<1>2. IndInv /\ [Next]_vars => IndInv'
  BY IndStep
<1>3. IndInv /\ [Next]_vars => [Stream!Next]_(Stream!vars)
  BY StreamStep
<1> QED
  BY <1>1, <1>2, <1>3, IndInit, PTL DEF Spec, CutsEvents, Stream!Spec
=============================================================================
