-------------------------------- MODULE Rbcp --------------------------------
(***************************************************************************)
(* The RBCP client SiTcpRbcp (SiTcpRbcpLib2.cpp) and its wrappers          *)
(* SiDaqRbcpReadBytes and SiDaqRbcpWriteBytes: one UDP datagram asks the   *)
(* device to read or write registers, one datagram answers.                *)
(*                                                                         *)
(* The network loses, delays, duplicates and reorders datagrams.  The      *)
(* client never repeats a request and never empties its socket: a reply    *)
(* that comes after the timeout stays in the socket's buffer and is what   *)
(* the next call receives.  The 8-bit id in the header is all that tells   *)
(* it from the reply the call is waiting for.                              *)
(***************************************************************************)
EXTENDS Integers, Sequences

CONSTANTS
  IdMod,       \* number of ids; 256 in the code
  MaxDataLen,  \* MAX_DATA_LEN; 255 in the code
  Addrs,       \* register addresses used by the application
  Registers,   \* the addresses at which the device has a register
  Values,      \* what a register holds
  Lifetime,    \* the number of calls a datagram survives in the network
  InboxLen,    \* the number of replies the buffer of the socket holds
  MaxCalls     \* bound on the calls

\* IdWindow: the ids outnumber the calls a reply can be late by, in the
\* network and then behind others in the buffer.  The code relies on this.
ASSUME RbcpConstants ==
  /\ IdMod \in Nat \ {0} /\ MaxDataLen \in Nat
  /\ Lifetime \in Nat \ {0} /\ InboxLen \in Nat
  /\ Addrs \subseteq Int /\ Registers \subseteq Int
  /\ Values # {} /\ MaxCalls \in Nat
ASSUME IdWindow == Lifetime + InboxLen <= IdMod

VARIABLES
  pc,          \* "idle", or "recv": in recv_packet()
  id,          \* SiTcpRbcp::id
  call,        \* the arguments of the current call and of one that was ok
  result,      \* how the last call ended
  data,        \* the bytes it returned
  error_code,  \* sidaq_mngr->error_code
  open,        \* is the socket open?
  requests,    \* datagrams on their way to the device
  replies,     \* datagrams on their way to the client
  inbox,       \* the buffer of the socket
  registers,   \* the registers of the device
  calls,       \* number of calls that reached rw_memory()
  seen         \* history: register contents while the call was under way

client == <<pc, id, call, result, data, error_code, open, calls>>
net    == <<requests, replies, inbox>>
device == <<registers, seen>>
vars   == <<client, net, device>>

Lengths   == 0..MaxDataLen
Bytes(n)  == [1..n -> Values]
NoCall    == [read |-> TRUE, addr |-> 0, length |-> 0, bytes |-> <<>>]

Init ==
  /\ pc = "idle" /\ id = 0 /\ call = NoCall
  /\ result = "none" /\ data = <<>> /\ error_code = "SIDAQ_NO_ERROR"
  /\ open = TRUE
  /\ requests = {} /\ replies = {} /\ inbox = <<>>
  /\ registers \in [Registers -> Values]
  /\ calls = 0 /\ seen = {registers}

-----------------------------------------------------------------------------
\* An exception thrown in SiTcpRbcp, as the wrappers report it: they set the
\* same code for a read as for a write.
Throws(error) ==
  /\ result' = error
  /\ call' = NoCall /\ seen' = {}
  /\ data' = <<>>
  /\ error_code' = "SITCP_WRITE_ERROR"

Calls ==
  {[read |-> TRUE, addr |-> a, length |-> n, bytes |-> <<>>] :
      a \in Addrs, n \in Lengths}
  \cup
  UNION {{[read |-> FALSE, addr |-> a, length |-> n, bytes |-> b] :
      a \in Addrs, b \in Bytes(n)} : n \in Lengths}

\* ReadBytes and WriteBytes: length > MAX_DATA_LEN.
CallTooLong ==
  /\ pc = "idle"
  /\ Throws("INVALID_PARAM")
  /\ UNCHANGED <<pc, id, open, calls, net, registers>>

NextId_Same == id

NextId_Wide == id + 1

NextId == (id + 1) % IdMod

\* Datagrams the network has not lost by the time of the next call.
Young(S) == {p \in S : calls + 1 - p.n < Lifetime}

\* rw_memory: the header is made and the datagram sent.
CallSent(c) ==
  /\ pc = "idle" /\ open
  /\ calls < MaxCalls
  /\ id' = NextId
  /\ calls' = calls + 1
  /\ call' = c
  /\ requests' = Young(requests) \cup
        {[n |-> calls + 1, id |-> NextId, read |-> c.read, addr |-> c.addr,
          length |-> c.length, bytes |-> c.bytes]}
  /\ replies' = Young(replies)
  /\ seen' = {registers}
  /\ pc' = "recv"
  /\ result' = "none" /\ data' = <<>>
  /\ UNCHANGED <<error_code, open, inbox, registers>>

\* send() fails: the socket is closed for good, and every later call fails
\* here too.
CallNotSent ==
  /\ pc = "idle"
  /\ calls < MaxCalls
  /\ id' = NextId
  /\ calls' = calls + 1
  /\ open' = FALSE
  /\ inbox' = <<>> /\ requests' = Young(requests) /\ replies' = Young(replies)
  /\ Throws("SOCKETERROR")
  /\ UNCHANGED <<pc, registers>>

\* The exception of check_packet(), "ok" when there is none.  length is a
\* field of the header as well as the size of the datagram.
CheckPacket_NoId(p) ==
  IF p.unreachable THEN "SOCKETERROR"
  ELSE IF Len(p.bytes) # call.length \/ p.read # call.read
       THEN "INVALIDPACKET"
  ELSE IF p.buserr THEN "BUSERROR"
  ELSE "ok"

CheckPacket(p) ==
  IF p.unreachable THEN "SOCKETERROR"      \* recv() < 0
  ELSE IF Len(p.bytes) # call.length \/ p.read # call.read
       THEN "INVALIDPACKET"
  ELSE IF p.buserr THEN "BUSERROR"
  ELSE IF p.id # id THEN "INVALIDPACKET"
  ELSE "ok"

\* recv_packet and check_packet: whatever reply is first in the buffer.
Receive ==
  /\ pc = "recv" /\ inbox # <<>>
  /\ inbox' = Tail(inbox)
  /\ pc' = "idle"
  /\ LET p == Head(inbox) IN
     \/ /\ CheckPacket(p) = "ok"
        /\ result' = "ok" /\ data' = p.bytes
        /\ UNCHANGED <<error_code, call, seen>>
     \/ /\ CheckPacket(p) # "ok"
        /\ Throws(CheckPacket(p))
  /\ UNCHANGED <<id, open, calls, requests, replies, registers>>

Timeout_Never == FALSE /\ UNCHANGED vars

\* select() timeout; the request or its reply may still be on the way.
Timeout ==
  /\ pc = "recv" /\ inbox = <<>>
  /\ pc' = "idle"
  /\ Throws("TIMEOUT")
  /\ UNCHANGED <<id, open, calls, net, registers>>

-----------------------------------------------------------------------------
(***************************************************************************)
(* The network and the device.  A datagram that is taken may stay as well: *)
(* that is its duplicate.                                                  *)
(***************************************************************************)
Taken(S, p) == {S, S \ {p}}

Mapped(p) == \A i \in 0..p.length - 1 : p.addr + i \in Registers

Written(p) ==
  [a \in Registers |-> IF a - p.addr \in 0..p.length - 1
                       THEN p.bytes[a - p.addr + 1] ELSE registers[a]]

ReplyBytes(p, regs) == [i \in 1..p.length |-> regs[p.addr + i - 1]]

\* A reply of the same size that holds no register's contents.
NoBytes(p) == [i \in 1..p.length |-> CHOOSE v \in Values : TRUE]

Reply(p, bytes, buserr, unreachable) ==
  [n |-> p.n, id |-> p.id, read |-> p.read, bytes |-> bytes,
   buserr |-> buserr, unreachable |-> unreachable]

\* The device does what a datagram asks for and answers with the contents of
\* the registers, or refuses an address it does not have.
DeviceAnswers(p) ==
  /\ \/ /\ Mapped(p)
        /\ registers' = IF p.read THEN registers ELSE Written(p)
        /\ seen' = IF pc = "recv" THEN seen \cup {registers'} ELSE seen
        /\ replies' = replies \cup
              {Reply(p, ReplyBytes(p, registers'), FALSE, FALSE)}
     \/ /\ ~Mapped(p)
        /\ replies' = replies \cup {Reply(p, NoBytes(p), TRUE, FALSE)}
        /\ UNCHANGED device
  /\ requests' \in Taken(requests, p)
  /\ UNCHANGED <<client, inbox>>

\* No one listens at the port: an ICMP message comes back.
Unreachable(p) ==
  /\ requests' = requests \ {p}
  /\ replies' = replies \cup {Reply(p, <<>>, FALSE, TRUE)}
  /\ UNCHANGED <<client, inbox, device>>

Deliver(p) ==
  /\ open /\ Len(inbox) < InboxLen
  /\ inbox' = Append(inbox, p)
  /\ replies' \in Taken(replies, p)
  /\ UNCHANGED <<client, requests, device>>

Lose ==
  /\ \/ \E p \in requests : requests' = requests \ {p} /\ UNCHANGED replies
     \/ \E p \in replies : replies' = replies \ {p} /\ UNCHANGED requests
  /\ UNCHANGED <<client, inbox, device>>

Next ==
  \/ CallTooLong \/ CallNotSent \/ \E c \in Calls : CallSent(c)
  \/ Receive \/ Timeout
  \/ \E p \in requests : DeviceAnswers(p) \/ Unreachable(p)
  \/ \E p \in replies : Deliver(p)
  \/ Lose

Spec == Init /\ [][Next]_vars

\* A call that is inside recv_packet() goes on; nothing is asked of the
\* network or of the device.
FairSpec == Spec /\ WF_vars(Receive \/ Timeout)

-----------------------------------------------------------------------------
AllBytes == UNION {Bytes(n) : n \in Lengths}

RequestPackets == [n : 1..MaxCalls, id : 0..IdMod - 1, read : BOOLEAN,
                   addr : Addrs, length : Lengths, bytes : AllBytes]
ReplyPackets   == [n : 1..MaxCalls, id : 0..IdMod - 1, read : BOOLEAN,
                   bytes : AllBytes, buserr : BOOLEAN, unreachable : BOOLEAN]

\* The variables of the client, the network and the device have their types,
\* and a write request carries as many bytes as its length says.
TypeOK ==
  /\ pc \in {"idle", "recv"} /\ open \in BOOLEAN
  /\ id \in 0..IdMod - 1
  /\ call \in Calls \cup {NoCall}
  /\ result \in {"none", "ok", "TIMEOUT", "BUSERROR", "INVALIDPACKET",
                 "SOCKETERROR", "INVALID_PARAM"}
  /\ data \in AllBytes
  /\ error_code \in {"SIDAQ_NO_ERROR", "SITCP_WRITE_ERROR"}
  /\ requests \subseteq RequestPackets
  /\ \A p \in requests : ~p.read => p.bytes \in Bytes(p.length)
  /\ replies \subseteq ReplyPackets
  /\ inbox \in Seq(ReplyPackets) /\ Len(inbox) <= InboxLen
  /\ registers \in [Registers -> Values]
  /\ calls \in 0..MaxCalls

\* The id tells replies apart: while a call waits, a reply with its id, in
\* the buffer or on its way, answers this call and not one that had the same
\* id IdMod calls ago.
IdIdentifies ==
  pc = "recv" =>
     \A p \in replies \cup {inbox[i] : i \in DOMAIN inbox} :
        p.id = id => p.n = calls

\* At some moment of the call the registers it asks for held the bytes.
Truth(bytes) ==
  /\ Mapped(call)
  /\ \E regs \in seen :
        bytes = ReplyBytes(call, regs) /\ (~call.read => bytes = call.bytes)

\* A call that succeeds tells the truth: the device has the registers, and at
\* some moment since the call began they held the bytes a read returns, or a
\* write has stored, whatever replies to earlier calls came late.
OkIsCurrent == result = "ok" => Truth(data)

\* Every call returns, whatever the network loses.
CallReturns == pc = "recv" ~> pc = "idle"
=============================================================================
