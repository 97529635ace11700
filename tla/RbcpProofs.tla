----------------------------- MODULE RbcpProofs -----------------------------
(***************************************************************************)
(* Proofs about Rbcp: a reply with the id of the waiting call answers that *)
(* call, and a call that succeeds tells the truth about the registers.     *)
(***************************************************************************)
EXTENDS Rbcp, TLAPS

\* The id that was in use k calls before the id i.
Back(i, k) == IF k <= i THEN i - k ELSE i - k + IdMod

\* A datagram in the network is as old as the network allows.
NetAges ==
  \A p \in requests \cup replies :
     p.n <= calls /\ calls - p.n < Lifetime /\ p.id = Back(id, calls - p.n)

\* A reply in the buffer grows older with every call, but each call also
\* takes one away in front of it, except for the call that is under way.
InboxAges ==
  \A i \in 1..Len(inbox) :
     /\ inbox[i].n <= calls
     /\ calls - inbox[i].n + i <=
           Lifetime - 1 + InboxLen + (IF pc = "recv" THEN 1 ELSE 0)
     /\ inbox[i].id = Back(id, calls - inbox[i].n)

Truthful(p) ==
  p.n = calls /\ ~p.buserr /\ ~p.unreachable => Truth(p.bytes)

\* The request of the waiting call is what the call asked for, and the
\* replies to it are truthful.
Current ==
  pc = "recv" =>
     /\ result = "none"
     /\ \A p \in requests : p.n = calls =>
           /\ p.read = call.read /\ p.addr = call.addr
           /\ p.length = call.length /\ p.bytes = call.bytes
     /\ \A p \in replies : Truthful(p)
     /\ \A i \in 1..Len(inbox) : Truthful(inbox[i])

IndInv == TypeOK /\ NetAges /\ InboxAges /\ Current /\ OkIsCurrent

-----------------------------------------------------------------------------
\* The id wraps around at IdMod.
LEMMA NextIdCases ==
  ASSUME id \in 0..IdMod - 1
  PROVE  NextId = IF id + 1 = IdMod THEN 0 ELSE id + 1
  BY RbcpConstants DEF NextId

\* The empty sequence is a sequence of bytes.
LEMMA EmptyBytes == <<>> \in AllBytes
<1>1. <<>> \in Bytes(0)
  BY DEF Bytes
<1>2. 0 \in Lengths
  BY RbcpConstants DEF Lengths
<1> QED
  BY <1>1, <1>2 DEF AllBytes

\* The initial states satisfy the inductive invariant.
LEMMA InitInv == Init => IndInv
  BY RbcpConstants, EmptyBytes
  DEF Init, IndInv, TypeOK, NetAges, InboxAges, Current, OkIsCurrent

-----------------------------------------------------------------------------
\* A call that throws leaves no claim about registers behind.
LEMMA ThrowsInv ==
  ASSUME NEW e, Throws(e),
         e \in {"TIMEOUT", "BUSERROR", "INVALIDPACKET", "SOCKETERROR",
                "INVALID_PARAM"}
  PROVE  /\ OkIsCurrent'
         /\ call' \in Calls \cup {NoCall}
         /\ result' \in {"none", "ok", "TIMEOUT", "BUSERROR", "INVALIDPACKET",
                         "SOCKETERROR", "INVALID_PARAM"}
         /\ data' \in AllBytes
         /\ error_code' \in {"SIDAQ_NO_ERROR", "SITCP_WRITE_ERROR"}
  BY EmptyBytes DEF Throws, OkIsCurrent

\* A call with a length that is too large changes nothing but its result.
LEMMA CallTooLongInv == IndInv /\ CallTooLong => IndInv'
<1> SUFFICES ASSUME IndInv, CallTooLong PROVE IndInv'
  OBVIOUS
<1>1. /\ OkIsCurrent'
      /\ call' \in Calls \cup {NoCall}
      /\ result' \in {"none", "ok", "TIMEOUT", "BUSERROR", "INVALIDPACKET",
                      "SOCKETERROR", "INVALID_PARAM"}
      /\ data' \in AllBytes
      /\ error_code' \in {"SIDAQ_NO_ERROR", "SITCP_WRITE_ERROR"}
  BY ThrowsInv DEF CallTooLong
<1>2. TypeOK'
  BY <1>1 DEF IndInv, TypeOK, CallTooLong, net
<1>3. NetAges' /\ InboxAges'
  BY DEF IndInv, NetAges, InboxAges, Back, CallTooLong, net
<1>4. Current'
  BY DEF Current, CallTooLong
<1> QED
  BY <1>1, <1>2, <1>3, <1>4 DEF IndInv

\* A timeout happens only when the buffer is empty.
LEMMA TimeoutInv == IndInv /\ Timeout => IndInv'
<1> SUFFICES ASSUME IndInv, Timeout PROVE IndInv'
  OBVIOUS
<1>1. /\ OkIsCurrent'
      /\ call' \in Calls \cup {NoCall}
      /\ result' \in {"none", "ok", "TIMEOUT", "BUSERROR", "INVALIDPACKET",
                      "SOCKETERROR", "INVALID_PARAM"}
      /\ data' \in AllBytes
      /\ error_code' \in {"SIDAQ_NO_ERROR", "SITCP_WRITE_ERROR"}
  BY ThrowsInv DEF Timeout
<1>2. TypeOK'
  BY <1>1 DEF IndInv, TypeOK, Timeout, net
<1>3. NetAges' /\ InboxAges'
  BY DEF IndInv, NetAges, InboxAges, Back, Timeout, net
<1>4. Current'
  BY DEF Current, Timeout
<1> QED
  BY <1>1, <1>2, <1>3, <1>4 DEF IndInv

\* With the next call every datagram is one call older and the id one on.
LEMMA OneCallOlder ==
  ASSUME id \in 0..IdMod - 1, NEW k \in Nat, k + 1 < IdMod
  PROVE  Back(NextId, k + 1) = Back(id, k)
  BY NextIdCases, RbcpConstants DEF Back

\* A call grows the age of every datagram by one; the network forgets the
\* oldest ones.
LEMMA YoungAges ==
  ASSUME IndInv, calls < MaxCalls, id' = NextId, calls' = calls + 1
  PROVE  /\ id' \in 0..IdMod - 1
         /\ calls' \in 0..MaxCalls
         /\ \A p \in Young(requests) \cup Young(replies) :
               /\ p.n <= calls' /\ p.n # calls'
               /\ calls' - p.n < Lifetime
               /\ p.id = Back(id', calls' - p.n)
         /\ Young(requests) \subseteq RequestPackets
         /\ Young(requests) \subseteq requests
         /\ Young(replies) \subseteq ReplyPackets
<1>1. id \in 0..IdMod - 1 /\ calls \in 0..MaxCalls
  BY DEF IndInv, TypeOK
<1>2. id' \in 0..IdMod - 1
  BY <1>1, NextIdCases, RbcpConstants
<1>3. ASSUME NEW p \in Young(requests) \cup Young(replies)
      PROVE  /\ p.n <= calls' /\ p.n # calls'
             /\ calls' - p.n < Lifetime
             /\ p.id = Back(id', calls' - p.n)
  <2>1. p \in requests \cup replies /\ calls + 1 - p.n < Lifetime
    BY DEF Young
  <2>2. p.n \in 1..MaxCalls
    BY <2>1 DEF IndInv, TypeOK, RequestPackets, ReplyPackets
  <2>3. p.n <= calls /\ p.id = Back(id, calls - p.n)
    BY <2>1 DEF IndInv, NetAges
  <2>4. calls - p.n \in Nat /\ (calls - p.n) + 1 < IdMod
    BY <1>1, <2>1, <2>2, <2>3, RbcpConstants, IdWindow
  <2>5. Back(NextId, (calls - p.n) + 1) = Back(id, calls - p.n)
    BY <1>1, <2>4, OneCallOlder
  <2>6. (calls - p.n) + 1 = calls' - p.n
    BY <1>1, <2>2
  <2> QED
    BY <1>1, <2>1, <2>2, <2>3, <2>5, <2>6
<1> QED
  BY <1>1, <1>2, <1>3, RbcpConstants DEF IndInv, TypeOK, Young

\* send() has failed: the buffer of the closed socket is gone.
LEMMA CallNotSentInv == IndInv /\ CallNotSent => IndInv'
<1> SUFFICES ASSUME IndInv, CallNotSent PROVE IndInv'
  OBVIOUS
<1>1. /\ OkIsCurrent'
      /\ call' \in Calls \cup {NoCall}
      /\ result' \in {"none", "ok", "TIMEOUT", "BUSERROR", "INVALIDPACKET",
                      "SOCKETERROR", "INVALID_PARAM"}
      /\ data' \in AllBytes
      /\ error_code' \in {"SIDAQ_NO_ERROR", "SITCP_WRITE_ERROR"}
  BY ThrowsInv DEF CallNotSent
<1>2. /\ id' \in 0..IdMod - 1
      /\ calls' \in 0..MaxCalls
      /\ \A p \in Young(requests) \cup Young(replies) :
            /\ p.n <= calls' /\ p.n # calls'
            /\ calls' - p.n < Lifetime
            /\ p.id = Back(id', calls' - p.n)
      /\ Young(requests) \subseteq RequestPackets
      /\ Young(requests) \subseteq requests
      /\ Young(replies) \subseteq ReplyPackets
  BY YoungAges DEF CallNotSent
<1>3. TypeOK'
  <2>1. inbox' \in Seq(ReplyPackets) /\ Len(inbox') <= InboxLen
    BY RbcpConstants DEF CallNotSent
  <2>2. requests' \subseteq RequestPackets /\ replies' \subseteq ReplyPackets
    BY <1>2 DEF CallNotSent
  <2>3. \A p \in requests' : ~p.read => p.bytes \in Bytes(p.length)
    BY <1>2 DEF CallNotSent, IndInv, TypeOK
  <2>4. pc' \in {"idle", "recv"} /\ open' \in BOOLEAN
        /\ registers' \in [Registers -> Values]
    BY DEF CallNotSent, IndInv, TypeOK
  <2> QED
    BY <1>1, <1>2, <2>1, <2>2, <2>3, <2>4 DEF TypeOK
<1>4. NetAges'
  BY <1>2 DEF NetAges, CallNotSent
<1>5. InboxAges'
  BY DEF InboxAges, CallNotSent
<1>6. Current'
  BY DEF Current, CallNotSent
<1> QED
  BY <1>1, <1>3, <1>4, <1>5, <1>6 DEF IndInv

\* A new call: the only datagram with its number is its request, and every
\* reply in the buffer is within the ids.
LEMMA CallSentInv ==
  ASSUME IndInv, NEW c \in Calls, CallSent(c)
  PROVE  IndInv'
<1> DEFINE new == [n |-> calls + 1, id |-> NextId, read |-> c.read,
                   addr |-> c.addr, length |-> c.length, bytes |-> c.bytes]
<1>1. /\ id' \in 0..IdMod - 1
      /\ calls' \in 0..MaxCalls
      /\ \A p \in Young(requests) \cup Young(replies) :
            /\ p.n <= calls' /\ p.n # calls'
            /\ calls' - p.n < Lifetime
            /\ p.id = Back(id', calls' - p.n)
      /\ Young(requests) \subseteq RequestPackets
      /\ Young(requests) \subseteq requests
      /\ Young(replies) \subseteq ReplyPackets
  BY YoungAges DEF CallSent
<1>2. /\ c.read \in BOOLEAN /\ c.addr \in Addrs /\ c.length \in Lengths
      /\ c.bytes \in AllBytes /\ (~c.read => c.bytes \in Bytes(c.length))
  <2>1. CASE \E a \in Addrs, n \in Lengths :
               c = [read |-> TRUE, addr |-> a, length |-> n, bytes |-> <<>>]
    BY <2>1, EmptyBytes
  <2>2. CASE \E n \in Lengths : \E a \in Addrs, b \in Bytes(n) :
               c = [read |-> FALSE, addr |-> a, length |-> n, bytes |-> b]
    BY <2>2 DEF AllBytes
  <2> QED
    BY <2>1, <2>2 DEF Calls
<1>3. new \in RequestPackets /\ (~new.read => new.bytes \in Bytes(new.length))
  BY <1>1, <1>2 DEF CallSent, RequestPackets, IndInv, TypeOK
<1>4. requests' = Young(requests) \cup {new}
  BY DEF CallSent
<1>5. TypeOK'
  BY <1>1, <1>3, <1>4, EmptyBytes DEF IndInv, TypeOK, CallSent
<1>6. NetAges'
  <2>1. /\ new.n <= calls' /\ calls' - new.n < Lifetime
        /\ new.id = Back(id', calls' - new.n)
    BY <1>1, RbcpConstants DEF Back, CallSent, IndInv, TypeOK
  <2> QED
    BY <1>1, <1>4, <2>1 DEF NetAges, CallSent
<1>7. InboxAges'
  <2> SUFFICES ASSUME NEW i \in 1..Len(inbox)
               PROVE  /\ inbox[i].n <= calls'
                      /\ calls' - inbox[i].n + i <= Lifetime - 1 + InboxLen + 1
                      /\ inbox[i].id = Back(id', calls' - inbox[i].n)
    BY DEF InboxAges, CallSent
  <2>1. inbox[i] \in ReplyPackets /\ i \in Nat \ {0}
    BY DEF IndInv, TypeOK
  <2>2. inbox[i].n \in 1..MaxCalls
    BY <2>1 DEF ReplyPackets
  <2>3. /\ inbox[i].n <= calls
        /\ calls - inbox[i].n + i <= Lifetime - 1 + InboxLen
        /\ inbox[i].id = Back(id, calls - inbox[i].n)
    <3>1. pc # "recv"
      BY DEF CallSent
    <3>2. Lifetime - 1 + InboxLen + 0 = Lifetime - 1 + InboxLen
      BY RbcpConstants
    <3> QED
      BY <3>1, <3>2 DEF IndInv, InboxAges
  <2>4. calls \in Nat /\ id \in 0..IdMod - 1 /\ calls' = calls + 1
    BY DEF IndInv, TypeOK, CallSent
  <2>5. calls - inbox[i].n \in Nat /\ (calls - inbox[i].n) + 1 < IdMod
    <3>1. \A n, k \in Nat : n <= calls /\ k >= 1
                           /\ calls - n + k <= Lifetime - 1 + InboxLen
             => calls - n \in Nat /\ (calls - n) + 1 < IdMod
      BY <2>4, RbcpConstants, IdWindow
    <3>2. inbox[i].n \in Nat /\ i >= 1
      BY <2>1, <2>2
    <3> QED
      BY <2>1, <2>3, <3>1, <3>2
  <2>6. Back(NextId, (calls - inbox[i].n) + 1) = Back(id, calls - inbox[i].n)
    BY <2>4, <2>5, OneCallOlder
  <2>7. (calls - inbox[i].n) + 1 = calls' - inbox[i].n
    BY <2>2, <2>4
  <2>8. id' = NextId
    BY DEF CallSent
  <2>9. inbox[i].id = Back(id', calls' - inbox[i].n)
    BY <2>3, <2>6, <2>7, <2>8
  <2> QED
    BY <2>1, <2>2, <2>3, <2>4, <2>9, RbcpConstants
<1>8. Current'
  <2>1. \A p \in requests' : p.n = calls' =>
           /\ p.read = c.read /\ p.addr = c.addr
           /\ p.length = c.length /\ p.bytes = c.bytes
    BY <1>1, <1>4 DEF CallSent
  <2>2. \A p \in replies' : p.n # calls'
    BY <1>1 DEF CallSent
  <2>3. \A i \in 1..Len(inbox) : inbox[i].n # calls'
    <3> SUFFICES ASSUME NEW i \in 1..Len(inbox) PROVE inbox[i].n # calls'
      OBVIOUS
    <3>1. inbox[i] \in ReplyPackets
      BY DEF IndInv, TypeOK
    <3>2. inbox[i].n \in 1..MaxCalls /\ inbox[i].n <= calls
      BY <3>1 DEF ReplyPackets, IndInv, InboxAges
    <3> QED
      BY <3>2 DEF CallSent, IndInv, TypeOK
  <2> QED
    BY <2>1, <2>2, <2>3 DEF Current, Truthful, CallSent
<1>9. OkIsCurrent'
  BY DEF OkIsCurrent, CallSent
<1> QED
  BY <1>5, <1>6, <1>7, <1>8, <1>9 DEF IndInv

-----------------------------------------------------------------------------
\* While a call waits, a reply in the buffer or the network with its id has
\* its number: the age of every reply is smaller than the number of ids.
LEMMA InvIdIdentifies == IndInv => IdIdentifies
<1> SUFFICES ASSUME IndInv, pc = "recv",
                    NEW p \in replies \cup {inbox[i] : i \in DOMAIN inbox},
                    p.id = id
             PROVE  p.n = calls
  BY DEF IdIdentifies
<1>1. calls \in Nat /\ id \in 0..IdMod - 1 /\ inbox \in Seq(ReplyPackets)
  BY DEF IndInv, TypeOK
<1>2. p.n \in Nat
  <2>1. p \in ReplyPackets
    BY <1>1 DEF IndInv, TypeOK
  <2> QED
    BY <2>1 DEF ReplyPackets
<1>3. p.n <= calls /\ calls - p.n < IdMod /\ p.id = Back(id, calls - p.n)
  <2>1. CASE p \in replies
    <3>1. p.n <= calls /\ calls - p.n < Lifetime /\ p.id = Back(id, calls - p.n)
      BY <2>1 DEF IndInv, NetAges
    <3> QED
      BY <3>1, <1>1, <1>2, RbcpConstants, IdWindow
  <2>2. CASE p \in {inbox[i] : i \in DOMAIN inbox}
    <3>1. PICK i \in 1..Len(inbox) : p = inbox[i]
      BY <1>1, <2>2
    <3>2. /\ p.n <= calls
          /\ calls - p.n + i <= Lifetime - 1 + InboxLen + 1
          /\ p.id = Back(id, calls - p.n)
      BY <3>1 DEF IndInv, InboxAges
    <3>3. i \in Nat /\ i >= 1
      BY <1>1
    <3> QED
      BY <3>2, <3>3, <1>1, <1>2, RbcpConstants, IdWindow
  <2> QED
    BY <2>1, <2>2
<1> DEFINE k == calls - p.n
<1>4. k \in Nat /\ k < IdMod /\ p.id = Back(id, k)
  BY <1>1, <1>2, <1>3
<1> HIDE DEF k
<1>5. Back(id, k) = id => k = 0
  BY <1>1, <1>4, RbcpConstants DEF Back
<1>6. k = 0
  BY <1>4, <1>5
<1> QED
  BY <1>1, <1>2, <1>6 DEF k

\* The first reply is taken; only one that answers this call is accepted.
LEMMA ReceiveInv == IndInv /\ Receive => IndInv'
<1> SUFFICES ASSUME IndInv, Receive PROVE IndInv'
  OBVIOUS
<1> DEFINE p == Head(inbox)
<1>1. /\ inbox \in Seq(ReplyPackets) /\ inbox # <<>> /\ Len(inbox) <= InboxLen
      /\ inbox' = Tail(inbox)
  BY DEF IndInv, TypeOK, Receive
<1>2. /\ inbox' \in Seq(ReplyPackets) /\ Len(inbox') = Len(inbox) - 1
      /\ \A i \in 1..Len(inbox') : i + 1 \in 1..Len(inbox)
                                    /\ inbox'[i] = inbox[i + 1]
      /\ p = inbox[1] /\ p \in ReplyPackets /\ 1 \in DOMAIN inbox
      /\ Len(inbox') <= InboxLen
  BY <1>1, RbcpConstants
<1>3. /\ OkIsCurrent'
      /\ call' \in Calls \cup {NoCall}
      /\ result' \in {"none", "ok", "TIMEOUT", "BUSERROR", "INVALIDPACKET",
                      "SOCKETERROR", "INVALID_PARAM"}
      /\ data' \in AllBytes
      /\ error_code' \in {"SIDAQ_NO_ERROR", "SITCP_WRITE_ERROR"}
  <2>1. CASE CheckPacket(p) = "ok"
    <3>1. ~p.unreachable /\ ~p.buserr /\ p.id = id
      BY <1>2, <2>1 DEF CheckPacket, ReplyPackets
    <3>2. p.n = calls
      BY <1>2, <3>1, InvIdIdentifies DEF IdIdentifies, Receive
    <3>3. Truth(p.bytes)
      BY <1>1, <1>2, <3>1, <3>2 DEF IndInv, Current, Truthful, Receive
    <3>4. result' = "ok" /\ data' = p.bytes /\ UNCHANGED <<error_code, call, seen>>
      BY <2>1, <1>2, <3>1 DEF Receive, Throws
    <3> QED
      <4>1. p.bytes \in AllBytes
        BY <1>2 DEF ReplyPackets
      <4>2. OkIsCurrent'
        BY <3>3, <3>4 DEF OkIsCurrent, Truth, Mapped, ReplyBytes
      <4> QED
        BY <3>4, <4>1, <4>2 DEF IndInv, TypeOK
  <2>2. CASE CheckPacket(p) # "ok"
    <3>1. Throws(CheckPacket(p))
      BY <2>2 DEF Receive
    <3>2. CheckPacket(p) \in {"TIMEOUT", "BUSERROR", "INVALIDPACKET",
                              "SOCKETERROR", "INVALID_PARAM"}
      BY <2>2, <1>2 DEF CheckPacket, ReplyPackets
    <3> QED
      BY <3>1, <3>2, ThrowsInv
  <2> QED
    BY <2>1, <2>2
<1>4. TypeOK'
  BY <1>2, <1>3 DEF IndInv, TypeOK, Receive
<1>5. NetAges'
  BY DEF IndInv, NetAges, Receive
<1>6. InboxAges'
  <2> SUFFICES ASSUME NEW i \in 1..Len(inbox')
               PROVE  /\ inbox'[i].n <= calls
                      /\ calls - inbox'[i].n + i <= Lifetime - 1 + InboxLen
                      /\ inbox'[i].id = Back(id, calls - inbox'[i].n)
    <3>1. Lifetime - 1 + InboxLen + 0 = Lifetime - 1 + InboxLen
      BY RbcpConstants
    <3> QED
      BY <3>1 DEF InboxAges, Receive
  <2>1. i \in Nat /\ i + 1 \in 1..Len(inbox) /\ inbox'[i] = inbox[i + 1]
    BY <1>2
  <2>2. /\ inbox[i + 1].n <= calls
        /\ calls - inbox[i + 1].n + (i + 1) <= Lifetime - 1 + InboxLen + 1
        /\ inbox[i + 1].id = Back(id, calls - inbox[i + 1].n)
    BY <2>1 DEF IndInv, InboxAges, Receive
  <2>3. inbox[i + 1].n \in Nat /\ calls \in Nat
    <3>1. inbox[i + 1] \in ReplyPackets /\ calls \in Nat
      BY <1>1, <2>1 DEF IndInv, TypeOK
    <3> QED
      BY <3>1 DEF ReplyPackets
  <2>4. \A n \in Nat : calls - n + (i + 1) <= Lifetime - 1 + InboxLen + 1
           => calls - n + i <= Lifetime - 1 + InboxLen
    BY <2>1, <2>3, RbcpConstants
  <2> QED
    BY <2>1, <2>2, <2>3, <2>4
<1>7. Current'
  BY DEF Current, Receive
<1> QED
  BY <1>3, <1>4, <1>5, <1>6, <1>7 DEF IndInv

-----------------------------------------------------------------------------
\* The reply to a request of the current call is the truth about registers
\* that are recorded as seen.
LEMMA DeviceAnswersInv ==
  ASSUME IndInv, NEW p \in requests, DeviceAnswers(p)
  PROVE  IndInv'
<1>1. /\ p \in RequestPackets /\ (~p.read => p.bytes \in Bytes(p.length))
      /\ p.n \in 1..MaxCalls /\ p.id \in 0..IdMod - 1 /\ p.read \in BOOLEAN
      /\ p.addr \in Int /\ p.length \in Lengths /\ p.length \in Nat
  <2>1. p \in RequestPackets /\ (~p.read => p.bytes \in Bytes(p.length))
    BY DEF IndInv, TypeOK
  <2>2. /\ p.n \in 1..MaxCalls /\ p.id \in 0..IdMod - 1 /\ p.read \in BOOLEAN
        /\ p.addr \in Addrs /\ p.length \in Lengths
    BY <2>1 DEF RequestPackets
  <2>3. \A a \in Addrs, n \in Lengths : a \in Int /\ n \in Nat
    BY RbcpConstants DEF Lengths
  <2>4. p.addr \in Int /\ p.length \in Nat
    BY <2>2, <2>3
  <2> QED
    BY <2>1, <2>2, <2>4
<1>2. requests' \subseteq requests
  BY DEF DeviceAnswers, Taken
<1>3. PICK q : /\ replies' = replies \cup {q}
               /\ \/ /\ Mapped(p)
                     /\ registers' = IF p.read THEN registers ELSE Written(p)
                     /\ seen' = IF pc = "recv" THEN seen \cup {registers'}
                                              ELSE seen
                     /\ q = Reply(p, ReplyBytes(p, registers'), FALSE, FALSE)
                  \/ /\ q = Reply(p, NoBytes(p), TRUE, FALSE)
                     /\ UNCHANGED <<registers, seen>>
  BY DEF DeviceAnswers, device
<1>4. registers' \in [Registers -> Values]
  <2>1. registers \in [Registers -> Values] /\ Registers \subseteq Int
    BY RbcpConstants DEF IndInv, TypeOK
  <2>2. ~p.read => Written(p) \in [Registers -> Values]
    <3> SUFFICES ASSUME ~p.read, NEW a \in Registers
                 PROVE  (IF a - p.addr \in 0..(p.length - 1)
                         THEN p.bytes[a - p.addr + 1] ELSE registers[a])
                        \in Values
      BY DEF Written
    <3>1. CASE a - p.addr \in 0..(p.length - 1)
      <4>1. a - p.addr + 1 \in 1..p.length /\ p.bytes \in [1..p.length -> Values]
        BY <1>1, <2>1, <3>1 DEF Bytes
      <4> QED
        BY <3>1, <4>1
    <3>2. CASE a - p.addr \notin 0..(p.length - 1)
      BY <2>1, <3>2
    <3> QED
      BY <3>1, <3>2
  <2> QED
    BY <1>3, <2>1, <2>2
<1>5. Mapped(p) => ReplyBytes(p, registers') \in Bytes(p.length)
  BY <1>1, <1>4 DEF Mapped, ReplyBytes, Bytes
<1>6. NoBytes(p) \in Bytes(p.length)
  BY RbcpConstants DEF NoBytes, Bytes
<1>7. q \in ReplyPackets /\ q.n = p.n /\ q.id = p.id
  <2>1. Bytes(p.length) \subseteq AllBytes
    BY <1>1 DEF AllBytes
  <2> QED
    <3>1. CASE Mapped(p) /\ q = Reply(p, ReplyBytes(p, registers'), FALSE, FALSE)
      <4>1. ReplyBytes(p, registers') \in AllBytes
        BY <1>5, <2>1, <3>1
      <4> QED
        BY <1>1, <3>1, <4>1 DEF Reply, ReplyPackets
    <3>2. CASE q = Reply(p, NoBytes(p), TRUE, FALSE)
      <4>1. NoBytes(p) \in AllBytes
        BY <1>6, <2>1
      <4> QED
        BY <1>1, <3>2, <4>1 DEF Reply, ReplyPackets
    <3> QED
      BY <1>3, <3>1, <3>2
<1>8. TypeOK'
  BY <1>2, <1>3, <1>4, <1>7 DEF IndInv, TypeOK, DeviceAnswers, client
<1>9. NetAges'
  BY <1>2, <1>3, <1>7 DEF IndInv, NetAges, DeviceAnswers, client
<1>10. InboxAges'
  BY DEF IndInv, InboxAges, DeviceAnswers, client
<1>11. seen \subseteq seen' /\ (pc # "recv" => seen' = seen)
  BY <1>3
<1>12. Current'
  <2> SUFFICES ASSUME pc = "recv" PROVE Current'
    BY DEF Current, DeviceAnswers, client
  <2>1. \A bytes : Truth(bytes) => Truth(bytes)'
    <3>1. UNCHANGED call
      BY DEF DeviceAnswers, client
    <3> QED
      BY <1>11, <3>1 DEF Truth, Mapped, ReplyBytes
  <2>2. ASSUME q.n = calls, ~q.buserr PROVE Truth(q.bytes)'
    <3>1. /\ Mapped(p) /\ q.bytes = ReplyBytes(p, registers')
          /\ registers' \in seen'
          /\ registers' = IF p.read THEN registers ELSE Written(p)
      BY <1>3, <2>2 DEF Reply
    <3>2. /\ p.read = call.read /\ p.addr = call.addr
          /\ p.length = call.length /\ p.bytes = call.bytes
      BY <1>7, <2>2 DEF IndInv, Current
    <3>3. ~p.read => ReplyBytes(p, registers') = p.bytes
      <4> SUFFICES ASSUME ~p.read PROVE ReplyBytes(p, Written(p)) = p.bytes
        BY <3>1
      <4>1. p.bytes \in [1..p.length -> Values]
        BY <1>1 DEF Bytes
      <4>2. \A i \in 1..p.length : Written(p)[p.addr + i - 1] = p.bytes[i]
        <5> SUFFICES ASSUME NEW i \in 1..p.length
                     PROVE  Written(p)[p.addr + i - 1] = p.bytes[i]
          OBVIOUS
        <5>1. /\ i - 1 \in 0..p.length - 1 /\ p.addr + (i - 1) = p.addr + i - 1
              /\ (p.addr + i - 1) - p.addr = i - 1 /\ (i - 1) + 1 = i
          BY <1>1
        <5>2. p.addr + i - 1 \in Registers
          BY <3>1, <5>1 DEF Mapped
        <5> QED
          BY <5>1, <5>2 DEF Written
      <4> QED
        BY <4>1, <4>2 DEF ReplyBytes
    <3>4. ReplyBytes(p, registers') = ReplyBytes(call, registers')
      BY <3>2 DEF ReplyBytes
    <3>5. call' = call
      BY DEF DeviceAnswers, client
    <3> QED
      <4>1. q.bytes = ReplyBytes(call', registers')
        BY <3>1, <3>4, <3>5
      <4>2. ~call'.read => q.bytes = call'.bytes
        BY <3>1, <3>2, <3>3, <3>5
      <4>3. \E regs \in seen' : /\ q.bytes = ReplyBytes(call', regs)
                                /\ ~call'.read => q.bytes = call'.bytes
        BY <3>1, <4>1, <4>2
      <4>4. Mapped(call)'
        BY <3>1, <3>2, <3>5 DEF Mapped
      <4> QED
        BY <4>3, <4>4 DEF Truth, Mapped, ReplyBytes
  <2>3. \A r \in replies' : Truthful(r)'
    <3>1. calls' = calls
      BY DEF DeviceAnswers, client
    <3>2. \A r \in replies : Truthful(r)'
      BY <2>1, <3>1 DEF IndInv, Current, Truthful
    <3> QED
      BY <1>3, <2>2, <3>1, <3>2 DEF Truthful
  <2>4. \A i \in 1..Len(inbox') : Truthful(inbox[i])'
    <3>1. calls' = calls /\ inbox' = inbox
      BY DEF DeviceAnswers, client
    <3> QED
      BY <2>1, <3>1 DEF IndInv, Current, Truthful
  <2> QED
    BY <1>2, <2>3, <2>4 DEF IndInv, Current, DeviceAnswers, client
<1>13. OkIsCurrent'
  BY <1>11 DEF IndInv, Current, OkIsCurrent, Truth, Mapped, ReplyBytes,
     DeviceAnswers, client
<1> QED
  BY <1>8, <1>9, <1>10, <1>12, <1>13 DEF IndInv

\* What is true of a call stays true while nothing about it changes.
LEMMA SameTruth ==
  ASSUME UNCHANGED <<call, seen, calls>>
  PROVE  \A p : Truthful(p)' <=> Truthful(p)
<1>1. \A bytes : Truth(bytes)' <=> Truth(bytes)
  BY DEF Truth, Mapped, ReplyBytes
<1> QED
  BY <1>1 DEF Truthful

\* An ICMP message has the number of the request it answers.
LEMMA UnreachableInv ==
  ASSUME IndInv, NEW p \in requests, Unreachable(p)
  PROVE  IndInv'
<1> DEFINE q == Reply(p, <<>>, FALSE, TRUE)
<1>1. p \in RequestPackets
  BY DEF IndInv, TypeOK
<1>2. q \in ReplyPackets /\ q.n = p.n /\ q.id = p.id /\ q.unreachable
  BY <1>1, EmptyBytes DEF Reply, RequestPackets, ReplyPackets
<1>3. requests' \subseteq requests /\ replies' = replies \cup {q}
  BY DEF Unreachable
<1> HIDE DEF q
<1>4. TypeOK'
  BY <1>2, <1>3 DEF IndInv, TypeOK, Unreachable, client, device
<1>5. NetAges'
  BY <1>2, <1>3 DEF IndInv, NetAges, Unreachable, client
<1>6. InboxAges'
  BY DEF IndInv, InboxAges, Unreachable, client
<1>7. Current'
  <2>1. UNCHANGED <<pc, result, call, seen, calls, inbox>>
    BY DEF Unreachable, client, device
  <2>2. Truthful(q)
    BY <1>2 DEF Truthful
  <2>3. \A r : Truthful(r)' <=> Truthful(r)
    BY <2>1, SameTruth
  <2>4. \A i \in 1..Len(inbox) : Truthful(inbox[i])' <=> Truthful(inbox[i])
    BY <2>1 DEF Truthful, Truth, Mapped, ReplyBytes
  <2> QED
    BY <1>3, <2>1, <2>2, <2>3, <2>4 DEF IndInv, Current
<1>8. OkIsCurrent'
  BY DEF IndInv, OkIsCurrent, Truth, Mapped, ReplyBytes,
     Unreachable, client, device
<1> QED
  BY <1>4, <1>5, <1>6, <1>7, <1>8 DEF IndInv

\* A reply that enters the buffer is young and not beyond its last place.
LEMMA DeliverInv ==
  ASSUME IndInv, NEW p \in replies, Deliver(p)
  PROVE  IndInv'
<1>1. /\ p \in ReplyPackets /\ inbox \in Seq(ReplyPackets)
      /\ Len(inbox) < InboxLen /\ inbox' = Append(inbox, p)
      /\ replies' \subseteq replies
  BY DEF IndInv, TypeOK, Deliver, Taken
<1>2. /\ inbox' \in Seq(ReplyPackets) /\ Len(inbox') = Len(inbox) + 1
      /\ Len(inbox') <= InboxLen
      /\ \A i \in 1..Len(inbox') :
            \/ i \in 1..Len(inbox) /\ inbox'[i] = inbox[i]
            \/ i = Len(inbox) + 1 /\ inbox'[i] = p
  BY <1>1, RbcpConstants
<1>3. TypeOK'
  BY <1>1, <1>2 DEF IndInv, TypeOK, Deliver, client, device
<1>4. NetAges'
  BY <1>1 DEF IndInv, NetAges, Deliver, client
<1>5. InboxAges'
  <2> SUFFICES ASSUME NEW i \in 1..Len(inbox'), i = Len(inbox) + 1,
                      inbox'[i] = p
               PROVE  /\ p.n <= calls
                      /\ calls - p.n + i <=
                            Lifetime - 1 + InboxLen
                              + (IF pc = "recv" THEN 1 ELSE 0)
                      /\ p.id = Back(id, calls - p.n)
    BY <1>2 DEF IndInv, InboxAges, Deliver, client
  <2>1. p.n <= calls /\ calls - p.n < Lifetime /\ p.id = Back(id, calls - p.n)
    BY DEF IndInv, NetAges
  <2>2. p.n \in Nat /\ calls \in Nat
    BY <1>1 DEF ReplyPackets, IndInv, TypeOK
  <2>3. i \in Nat /\ i <= InboxLen
    BY <1>1, <1>2
  <2> QED
    BY <2>1, <2>2, <2>3, RbcpConstants
<1>6. Current'
  <2> SUFFICES ASSUME pc = "recv" PROVE Current'
    BY DEF Current, Deliver, client
  <2>1. UNCHANGED <<pc, result, call, seen, calls, requests>>
    BY DEF Deliver, client, device
  <2>2. \A q : Truthful(q)' <=> Truthful(q)
    BY <2>1, SameTruth
  <2>3. \A i \in 1..Len(inbox') : Truthful(inbox'[i])
    BY <1>2 DEF IndInv, Current
  <2>4. \A i \in 1..Len(inbox') : Truthful(inbox[i])'
    <3> SUFFICES ASSUME NEW i \in 1..Len(inbox'), (inbox[i].n = calls)',
                        (~inbox[i].buserr)', (~inbox[i].unreachable)'
                 PROVE  Truth(inbox[i].bytes)'
      BY DEF Truthful
    <3>1. Truth(inbox'[i].bytes)
      BY <2>1, <2>3 DEF Truthful
    <3>2. PICK regs \in seen :
             /\ inbox'[i].bytes = ReplyBytes(call, regs)
             /\ ~call.read => inbox'[i].bytes = call.bytes
      BY <3>1 DEF Truth
    <3> QED
      BY <2>1, <3>1, <3>2 DEF Truth, Mapped, ReplyBytes
  <2> QED
    BY <1>1, <2>1, <2>2, <2>4 DEF IndInv, Current
<1>7. OkIsCurrent'
  BY DEF IndInv, OkIsCurrent, Truth, Mapped, ReplyBytes,
     Deliver, client, device
<1> QED
  BY <1>3, <1>4, <1>5, <1>6, <1>7 DEF IndInv

\* The invariant says nothing that a lost datagram could disturb.
LEMMA LoseInv == IndInv /\ Lose => IndInv'
<1> SUFFICES ASSUME IndInv, Lose PROVE IndInv'
  OBVIOUS
<1>1. requests' \subseteq requests /\ replies' \subseteq replies
  BY DEF Lose
<1>2. TypeOK' /\ NetAges' /\ InboxAges'
  BY <1>1 DEF IndInv, TypeOK, NetAges, InboxAges, Lose, client, device
<1>3. Current' /\ OkIsCurrent'
  <2>1. UNCHANGED <<pc, result, data, call, seen, calls, inbox>>
    BY DEF Lose, client, device
  <2>2. \A q : Truthful(q)' <=> Truthful(q)
    BY <2>1, SameTruth
  <2>3. \A i \in 1..Len(inbox) : Truthful(inbox[i])' <=> Truthful(inbox[i])
    BY <2>1 DEF Truthful, Truth, Mapped, ReplyBytes
  <2>4. Current'
    BY <1>1, <2>1, <2>2, <2>3 DEF IndInv, Current
  <2> QED
    BY <2>1, <2>4 DEF IndInv, OkIsCurrent, Truth, Mapped, ReplyBytes
<1> QED
  BY <1>2, <1>3 DEF IndInv

-----------------------------------------------------------------------------
\* Every step keeps the inductive invariant.
LEMMA NextInv == IndInv /\ [Next]_vars => IndInv'
<1> SUFFICES ASSUME IndInv, [Next]_vars PROVE IndInv'
  OBVIOUS
<1>1. CASE UNCHANGED vars
  <2>1. TypeOK' /\ NetAges' /\ InboxAges'
    BY <1>1 DEF IndInv, TypeOK, NetAges, InboxAges, vars, client, net, device
  <2>2. Current' /\ OkIsCurrent'
    <3>1. /\ UNCHANGED <<pc, result, data, call, seen, calls, inbox>>
          /\ UNCHANGED <<requests, replies>>
      BY <1>1 DEF vars, client, net, device
    <3>2. \A q : Truthful(q)' <=> Truthful(q)
      BY <3>1, SameTruth
    <3>3. \A i \in 1..Len(inbox) : Truthful(inbox[i])' <=> Truthful(inbox[i])
      BY <3>1 DEF Truthful, Truth, Mapped, ReplyBytes
    <3>4. Current'
      BY <3>1, <3>2, <3>3 DEF IndInv, Current
    <3> QED
      BY <3>1, <3>4 DEF IndInv, OkIsCurrent, Truth, Mapped, ReplyBytes
  <2> QED
    BY <2>1, <2>2 DEF IndInv
<1>2. CASE Next
  BY <1>2, CallTooLongInv, CallNotSentInv, CallSentInv, ReceiveInv, TimeoutInv,
     DeviceAnswersInv, UnreachableInv, DeliverInv, LoseInv DEF Next
<1> QED
  BY <1>1, <1>2

\* Every behaviour satisfies the inductive invariant.
LEMMA AlwaysInv == Spec => []IndInv
  BY InitInv, NextInv, PTL DEF Spec

\* The client, the network and the device keep their types: in particular
\* the id of SiTcpRbcp stays within its byte.
THEOREM RbcpTypeCorrect == Spec => []TypeOK
<1>1. IndInv => TypeOK
  BY DEF IndInv
<1> QED
  BY <1>1, AlwaysInv, PTL

\* The id of the header tells the replies apart for every number of ids,
\* lifetime of datagrams and size of the buffer with IdWindow.
THEOREM IdsIdentify == Spec => []IdIdentifies
  BY InvIdIdentifies, AlwaysInv, PTL

\* Whatever is lost, late, duplicated or out of order, a read or write that
\* check_packet() lets through tells the truth about the registers.
THEOREM OkTellsTruth == Spec => []OkIsCurrent
<1>1. IndInv => OkIsCurrent
  BY DEF IndInv
<1> QED
  BY <1>1, AlwaysInv, PTL
=============================================================================
