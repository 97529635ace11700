------------------------- MODULE FrameLengthProofs -------------------------
(***************************************************************************)
(* Proofs about the length functions of the samples: for every header that *)
(* fits in an int they agree, and give the number it stands for or refuse  *)
(* it.  The sums are recursive functions; what they are is proved by their *)
(* smallest argument that would be a counterexample.                       *)
(***************************************************************************)
EXTENDS MCFramer, FramerProofs, WellFoundedInduction

-----------------------------------------------------------------------------
\* A set of natural numbers has a smallest one.
LEMMA Smallest ==
  ASSUME NEW C, C \subseteq Nat, C # {}
  PROVE  \E n \in C : \A m \in C : n <= m
<1> DEFINE R == OpToRel(<, Nat)
<1>1. IsWellFoundedOn(R, Nat)
  BY NatLessThanWellFounded
<1>2. PICK n \in C : \A m \in C : ~(<<m, n>> \in R)
  <2> HIDE DEF R
  <2> QED
    BY <1>1, WFMin
<1>3. \A m \in C : ~(m < n)
  BY <1>2 DEF OpToRel
<1> QED
  BY <1>3

\* What the proofs need to know of the widths of a byte and an int.
LEMMA Widths == Base \in Nat /\ Base >= 2 /\ IntBytes \in Nat
<1>1. PICK k \in 1..128 : Base = 2 * k
  BY WidthAssumption
<1> QED
  BY <1>1, WidthAssumption

\* Summing up digits d behind a number a defines a function.
LEMMA SumExists ==
  ASSUME NEW N \in Nat, NEW a \in Int, NEW d \in [1..N -> Int]
  PROVE  \E g \in [0..N -> Int] :
            \A n \in 0..N : g[n] = IF n = 0 THEN a ELSE g[n - 1] * Base + d[n]
<1> DEFINE Sum(g, k) ==
      \A n \in 0..k : g[n] = IF n = 0 THEN a ELSE g[n - 1] * Base + d[n]
<1> DEFINE C == {k \in 0..N : ~(\E g \in [0..k -> Int] : Sum(g, k))}
<1> SUFFICES ASSUME C # {} PROVE FALSE
  <2>1. ASSUME C = {} PROVE \E g \in [0..N -> Int] : Sum(g, N)
    <3>1. N \in 0..N
      OBVIOUS
    <3> HIDE DEF Sum
    <3> QED
      BY <2>1, <3>1
  <2> QED
    BY <2>1
<1>1. PICK k \in C : \A m \in C : k <= m
  <2>1. C \subseteq Nat
    OBVIOUS
  <2> HIDE DEF C
  <2> QED
    BY <2>1, Smallest
<1>2. k \in 0..N /\ ~(\E g \in [0..k -> Int] : Sum(g, k))
  OBVIOUS
<1>3. CASE k = 0
  <2> DEFINE g == [n \in 0..0 |-> a]
  <2>1. g \in [0..0 -> Int] /\ Sum(g, 0)
    OBVIOUS
  <2> HIDE DEF g, Sum
  <2> QED
    BY <1>2, <1>3, <2>1
<1>4. CASE k # 0
  <2>1. k - 1 \in 0..N /\ k - 1 \notin C
    <3>1. k - 1 \in 0..N /\ ~(k <= k - 1)
      BY <1>2, <1>4
    <3> HIDE DEF C
    <3> QED
      BY <1>1, <3>1
  <2>2. PICK f \in [0..(k - 1) -> Int] : Sum(f, k - 1)
    <3> HIDE DEF Sum
    <3> QED
      BY <2>1
  <2> DEFINE g == [n \in 0..k |-> IF n = k THEN f[k - 1] * Base + d[k] ELSE f[n]]
  <2>3. f[k - 1] * Base + d[k] \in Int
    <3>1. f[k - 1] \in Int /\ Base \in Int /\ d[k] \in Int
      <4>1. k - 1 \in 0..(k - 1) /\ k \in 1..N
        BY <1>2, <1>4
      <4> QED
        BY <4>1, Widths
    <3> QED
      BY <3>1
  <2>4. g \in [0..k -> Int]
    BY <1>2, <2>3
  <2>5. Sum(g, k)
    <3> SUFFICES ASSUME NEW n \in 0..k
                 PROVE  g[n] = IF n = 0 THEN a ELSE g[n - 1] * Base + d[n]
      OBVIOUS
    <3>1. CASE n = k
      <4>1. g[n] = f[k - 1] * Base + d[k] /\ g[n - 1] = f[k - 1]
        BY <1>2, <1>4, <3>1
      <4> QED
        BY <1>4, <3>1, <4>1
    <3>2. CASE n # k
      <4>1. n \in 0..(k - 1) /\ g[n] = f[n] /\ (n # 0 => g[n - 1] = f[n - 1])
        BY <1>2, <3>2
      <4> QED
        BY <2>2, <4>1
    <3> QED
      BY <3>1, <3>2
  <2> HIDE DEF g, Sum
  <2> QED
    BY <1>2, <2>4, <2>5
<1> QED
  BY <1>3, <1>4

\* So a byte sequence has a value, digit by digit ...
LEMMA BigEndianDef ==
  ASSUME NEW s \in Seq(Int)
  PROVE  \E g : /\ BigEndian(s) = g[Len(s)]
                /\ \A n \in 0..Len(s) :
                      g[n] = IF n = 0 THEN 0 ELSE g[n - 1] * Base + s[n]
<1> DEFINE E(g) ==
      [n \in 0..Len(s) |-> IF n = 0 THEN 0 ELSE g[n - 1] * Base + s[n]]
<1>1. Len(s) \in Nat /\ s \in [1..Len(s) -> Int]
  BY LenProperties
<1>2. PICK f \in [0..Len(s) -> Int] : \A n \in 0..Len(s) :
         f[n] = IF n = 0 THEN 0 ELSE f[n - 1] * Base + s[n]
  <2> DEFINE N == Len(s)
  <2>1. N \in Nat /\ s \in [1..N -> Int] /\ 0 \in Int
    BY <1>1
  <2> HIDE DEF N
  <2>2. \E g \in [0..N -> Int] :
           \A n \in 0..N : g[n] = IF n = 0 THEN 0 ELSE g[n - 1] * Base + s[n]
    BY <2>1, SumExists
  <2> QED
    BY <2>2 DEF N
<1>3. f = E(f)
  BY <1>2
<1> DEFINE value == CHOOSE g : g = E(g)
<1>4. value = E(value)
  <2> HIDE DEF E
  <2> QED
    BY <1>3
<1>5. BigEndian(s) = value[Len(s)]
  BY DEF BigEndian
<1>6. \A n \in 0..Len(s) :
         value[n] = IF n = 0 THEN 0 ELSE value[n - 1] * Base + s[n]
  <2> HIDE DEF value
  <2> QED
    BY <1>4
<1> HIDE DEF value
<1> QED
  BY <1>5, <1>6

\* ... and Power is what it is defined to be.
LEMMA PowerDef ==
  \A n \in 0..IntBytes : Power[n] = IF n = 0 THEN 1 ELSE Power[n - 1] * Base
<1> DEFINE E(g) == [n \in 0..IntBytes |-> IF n = 0 THEN 1 ELSE g[n - 1] * Base]
<1> DEFINE zero == [n \in 1..IntBytes |-> 0]
<1>1. /\ IntBytes \in Nat /\ Base \in Int /\ 1 \in Int
      /\ zero \in [1..IntBytes -> Int]
  BY Widths
<1>2. PICK f \in [0..IntBytes -> Int] : \A n \in 0..IntBytes :
         f[n] = IF n = 0 THEN 1 ELSE f[n - 1] * Base + zero[n]
  <2> HIDE DEF zero
  <2> QED
    <3>1. \E g \in [0..IntBytes -> Int] : \A n \in 0..IntBytes :
             g[n] = IF n = 0 THEN 1 ELSE g[n - 1] * Base + zero[n]
      BY <1>1, SumExists
    <3> QED
      BY <3>1
<1>3. f = E(f)
  <2> SUFFICES ASSUME NEW n \in 0..IntBytes, n # 0
               PROVE  f[n] = f[n - 1] * Base
    BY <1>2
  <2>1. n \in 1..IntBytes /\ n - 1 \in 0..IntBytes
    BY <1>1
  <2>2. zero[n] = 0 /\ f[n - 1] \in Int
    BY <2>1
  <2>3. f[n - 1] * Base \in Int
    BY <1>1, <2>2
  <2> QED
    BY <1>2, <2>2, <2>3
<1>4. Power = CHOOSE g : g = E(g)
  BY DEF Power
<1>5. Power = E(Power)
  <2> HIDE DEF E
  <2> QED
    BY <1>3, <1>4
<1> QED
  BY <1>5

\* One more digit keeps a number below the numbers that long.
LEMMA NextDigit ==
  ASSUME NEW v \in Int, NEW p \in Int, NEW b \in Int, NEW d \in Int,
         0 <= v, v < p, 0 < b, 0 <= d, d < b
  PROVE  /\ v * b + d \in Int /\ 0 <= v * b + d
         /\ p * b \in Int /\ v * b + d < p * b
<1>1. v * b \in Int /\ p * b \in Int
  OBVIOUS
<1>2. 0 <= v * b
  OBVIOUS
<1>3. (p - v - 1) * b >= 0
  <2>1. p - v - 1 \in Int /\ p - v - 1 >= 0
    OBVIOUS
  <2> QED
    BY <2>1
<1>4. (p - v - 1) * b = p * b - v * b - b
  OBVIOUS
<1> QED
  BY <1>1, <1>2, <1>3, <1>4

\* The numbers of n bytes are the natural numbers below Power[n].
LEMMA Below ==
  ASSUME NEW s \in Seq(0..(Base - 1)), Len(s) <= IntBytes
  PROVE  BigEndian(s) \in Nat /\ BigEndian(s) < Power[Len(s)]
<1>0. Len(s) \in Nat /\ IntBytes \in Nat /\ Base \in Int /\ Base > 0
  BY Widths
<1>1. s \in Seq(Int)
  <2>1. s \in [1..Len(s) -> Int]
    BY <1>0, LenProperties
  <2> QED
    BY <1>0, <2>1, SeqDef
<1>2. PICK g : /\ BigEndian(s) = g[Len(s)]
               /\ \A n \in 0..Len(s) :
                     g[n] = IF n = 0 THEN 0 ELSE g[n - 1] * Base + s[n]
  BY <1>1, BigEndianDef
<1> DEFINE Ok(n) == g[n] \in Int /\ Power[n] \in Int /\ 0 <= g[n] /\ g[n] < Power[n]
<1> DEFINE C == {n \in 0..Len(s) : ~Ok(n)}
<1>3. C = {}
  <2> SUFFICES ASSUME C # {} PROVE FALSE
    OBVIOUS
  <2>1. PICK n \in C : \A m \in C : n <= m
    <3>1. C \subseteq Nat
      BY <1>0
    <3> HIDE DEF C
    <3> QED
      BY <3>1, Smallest
  <2>2. n \in 0..Len(s) /\ n \in 0..IntBytes /\ ~Ok(n)
    <3>1. n \in 0..Len(s) /\ ~Ok(n)
      OBVIOUS
    <3> QED
      BY <1>0, <3>1
  <2>3. CASE n = 0
    <3>1. g[n] = 0 /\ Power[n] = 1
      BY <1>2, <2>2, <2>3, PowerDef
    <3> QED
      BY <2>2, <3>1
  <2>4. CASE n # 0
    <3>1. n - 1 \in 0..Len(s) /\ n \in 1..Len(s) /\ ~(n <= n - 1)
      BY <1>0, <2>2, <2>4
    <3>2. Ok(n - 1)
      <4>1. n - 1 \notin C
        <5> HIDE DEF C
        <5> QED
          BY <2>1, <3>1
      <4> QED
        BY <3>1, <4>1
    <3>3. s[n] \in Int /\ 0 <= s[n] /\ s[n] < Base
      <4>1. s[n] \in 0..(Base - 1)
        BY <3>1, ElementOfSeq
      <4> QED
        BY <1>0, <4>1
    <3>4. g[n] = g[n - 1] * Base + s[n] /\ Power[n] = Power[n - 1] * Base
      BY <1>2, <2>2, <2>4, PowerDef
    <3>5. Ok(n)
      <4> DEFINE v == g[n - 1]
      <4> DEFINE p == Power[n - 1]
      <4> DEFINE d == s[n]
      <4>1. /\ v \in Int /\ p \in Int /\ 0 <= v /\ v < p
            /\ d \in Int /\ 0 <= d /\ d < Base
        BY <3>2, <3>3
      <4> HIDE DEF v, p, d
      <4>2. /\ v * Base + d \in Int /\ 0 <= v * Base + d
            /\ p * Base \in Int /\ v * Base + d < p * Base
        BY <1>0, <4>1, NextDigit
      <4> QED
        BY <3>4, <4>2 DEF v, p, d
    <3> QED
      BY <2>2, <3>5
  <2> QED
    BY <2>3, <2>4
<1>4. Ok(Len(s))
  BY <1>0, <1>3
<1> QED
  BY <1>2, <1>4

\* An int holds at least the numbers of fewer bytes.
LEMMA PowerGrows ==
  ASSUME NEW k \in 0..IntBytes
  PROVE  /\ Power[k] \in Nat /\ IntRange \in Nat
         /\ 1 <= Power[k] /\ Power[k] <= IntRange
<1>0. IntBytes \in Nat /\ Base \in Int /\ Base > 0 /\ k \in Nat
  BY Widths
<1> DEFINE Up(n) == /\ Power[n] \in Int /\ Power[n] >= 1
                    /\ n >= k => Power[k] <= Power[n]
<1> DEFINE C == {n \in 0..IntBytes : ~Up(n)}
<1>1. C = {}
  <2> SUFFICES ASSUME C # {} PROVE FALSE
    OBVIOUS
  <2>1. PICK n \in C : \A m \in C : n <= m
    <3>1. C \subseteq Nat
      BY <1>0
    <3> HIDE DEF C
    <3> QED
      BY <3>1, Smallest
  <2>2. n \in 0..IntBytes /\ ~Up(n)
    OBVIOUS
  <2>3. CASE n = 0
    <3>1. Power[n] = 1 /\ (n >= k => k = n)
      BY <1>0, <2>2, <2>3, PowerDef
    <3> QED
      BY <2>2, <3>1
  <2>4. CASE n # 0
    <3>1. n - 1 \in 0..IntBytes /\ ~(n <= n - 1)
      BY <1>0, <2>2, <2>4
    <3>2. Up(n - 1)
      <4>1. n - 1 \notin C
        <5> HIDE DEF C
        <5> QED
          BY <2>1, <3>1
      <4> QED
        BY <3>1, <4>1
    <3>3. Power[n] = Power[n - 1] * Base
      BY <2>2, <2>4, PowerDef
    <3>4. Power[n] \in Int /\ Power[n] >= Power[n - 1]
      <4> DEFINE p == Power[n - 1]
      <4>1. p \in Int /\ p >= 1
        BY <3>2
      <4> HIDE DEF p
      <4>2. p * Base \in Int /\ p * (Base - 1) >= 0 /\ p * (Base - 1) = p * Base - p
        BY <1>0, <4>1
      <4> QED
        BY <1>0, <3>3, <4>1, <4>2 DEF p
    <3>5. Up(n)
      <4>1. n >= k => n = k \/ n - 1 >= k
        BY <1>0, <2>2
      <4>2. Power[n] >= 1
        BY <3>2, <3>4
      <4>3. CASE n = k
        BY <3>4, <4>2, <4>3
      <4>4. CASE n # k
        <5>1. n >= k => Power[k] <= Power[n - 1]
          BY <3>2, <4>1, <4>4
        <5>2. Power[n - 1] \in Int
          BY <3>2
        <5>3. n >= k => Power[k] \in Int
          <6>1. n >= k => k \in 0..(n - 1)
            BY <1>0, <2>2, <4>4
          <6>2. k <= n - 1 => k \notin C
            <7> HIDE DEF C
            <7> QED
              BY <1>0, <2>1, <2>2
          <6> QED
            BY <1>0, <2>2, <6>1, <6>2
        <5> QED
          BY <3>4, <4>2, <5>1, <5>2, <5>3
      <4> QED
        BY <4>3, <4>4
    <3> QED
      BY <2>2, <3>5
  <2> QED
    BY <2>3, <2>4
<1>2. Up(k) /\ Up(IntBytes)
  BY <1>0, <1>1
<1> QED
  BY <1>0, <1>2 DEF IntRange

-----------------------------------------------------------------------------
\* The length functions of the MFC sample and of the C# sample agree on every
\* header that is not longer than an int, and return the number it stands for,
\* or an error when that is 0 or does not fit in an int.
LengthOf(h) ==
  /\ GetFrameLength(h) = GetHeaderLengthFuncSample(h)
  /\ GetFrameLength(h) >= 0 => GetFrameLength(h) = BigEndian(h)
  /\ GetFrameLength(h) < 0 <=> BigEndian(h) = 0 \/ 2 * BigEndian(h) >= IntRange

THEOREM LengthFunctionsAgree ==
  ASSUME NEW h \in Seq(0..(Base - 1)), Len(h) <= IntBytes
  PROVE  LengthOf(h)
<1> DEFINE v == BigEndian(h)
<1>1. v \in Nat /\ IntRange \in Nat /\ v < IntRange
  <2>1. Len(h) \in 0..IntBytes
    BY Widths
  <2> QED
    BY <2>1, Below, PowerGrows
<1>2. v % IntRange = v
  <2> HIDE DEF v
  <2> QED
    BY <1>1
<1>3. ToInt(v) = IF 2 * v < IntRange THEN v ELSE v - IntRange
  BY <1>2 DEF ToInt
<1>4. GetFrameLength(h) = IF ToInt(v) = 0 THEN -1 ELSE ToInt(v)
  BY DEF GetFrameLength
<1>5. GetHeaderLengthFuncSample(h) = IF v = 0 THEN -1 ELSE ToInt(v)
  <2>1. ~(Len(h) > IntBytes) /\ SubSeq(h, 1, Len(h)) = h
    BY Widths, SubSeqFull
  <2> QED
    BY <2>1 DEF GetHeaderLengthFuncSample
<1> HIDE DEF v
<1>6. ToInt(v) = 0 <=> v = 0
  BY <1>1, <1>3
<1> QED
  BY <1>1, <1>3, <1>4, <1>5, <1>6 DEF LengthOf, v

\* So do they for every header that RecvSiDaqData comes to.
THEOREM HeadersAreLengths ==
  ASSUME HeaderLen <= IntBytes, Bytes \subseteq 0..(Base - 1)
  PROVE  Spec => []HeaderIsLength
<1>1. TypeOK => HeaderIsLength
  <2> SUFFICES ASSUME TypeOK, Len(Held) >= HeaderLen
               PROVE  LengthOf(SubSeq(Held, 1, HeaderLen))
    BY DEF HeaderIsLength, LengthOf
  <2> DEFINE h == SubSeq(Held, 1, HeaderLen)
  <2>1. h \in Seq(Bytes) /\ Len(h) = HeaderLen
    BY HeldType, FramerAssumption
  <2>2. h \in Seq(0..(Base - 1))
    <3>1. \A i \in 1..Len(h) : h[i] \in 0..(Base - 1)
      BY <2>1, ElementOfSeq
    <3>2. h = [i \in 1..Len(h) |-> h[i]] /\ Len(h) \in Nat
      BY <2>1
    <3> HIDE DEF h
    <3>3. h \in [1..Len(h) -> 0..(Base - 1)]
      BY <3>1, <3>2
    <3> QED
      BY <3>2, <3>3, SeqDef
  <2> HIDE DEF h
  <2>3. LengthOf(h)
    BY <2>1, <2>2, LengthFunctionsAgree
  <2> QED
    BY <2>3 DEF h
<1> QED
  BY <1>1, FramerTypeCorrect, PTL
=============================================================================
