--------------------------- MODULE SiDaqApiProofs ---------------------------
(***************************************************************************)
(* Theorems about SiDaqApi, for any number of runs, chunks and handles,    *)
(* any limits and any application.                                         *)
(***************************************************************************)
EXTENDS SiDaqApi, TLAPS

USE ConstantsAssumption DEF Runs, Unconnected

-----------------------------------------------------------------------------
\* The types of what the queue operations take and leave.
LEMMA AppendType ==
  ASSUME NEW S, NEW s \in Seq(S), NEW e \in S
  PROVE  Append(s, e) \in Seq(S)
OBVIOUS

\* The head and the tail of a sequence have its type.
LEMMA HeadTailType ==
  ASSUME NEW S, NEW s \in Seq(S), s # <<>>
  PROVE  Head(s) \in S /\ Tail(s) \in Seq(S)
OBVIOUS

\* The empty sequence has every sequence type.
LEMMA EmptyType ==
  ASSUME NEW S
  PROVE  <<>> \in Seq(S)
OBVIOUS

\* The chunks of a sequence are of its type.
LEMMA ElemsType ==
  ASSUME NEW S, NEW s \in Seq(S)
  PROVE  Elems(s) \in SUBSET S
BY DEF Elems

\* The chunks of a sequence when one is appended, and when the first is taken.
LEMMA ElemsAppend ==
  ASSUME NEW S, NEW s \in Seq(S), NEW e \in S
  PROVE  Elems(Append(s, e)) = Elems(s) \cup {e}
<1>1. \A i \in DOMAIN s : Append(s, e)[i] = s[i]
  OBVIOUS
<1>2. Append(s, e)[Len(s) + 1] = e
  OBVIOUS
<1>3. DOMAIN Append(s, e) = DOMAIN s \cup {Len(s) + 1}
  OBVIOUS
<1> QED
  BY <1>1, <1>2, <1>3 DEF Elems

\* Taking the first element takes exactly one chunk out.
LEMMA ElemsTail ==
  ASSUME NEW S, NEW s \in Seq(S), s # <<>>
  PROVE  Elems(s) = {Head(s)} \cup Elems(Tail(s))
<1>1. Len(s) \in Nat /\ Len(s) > 0 /\ DOMAIN s = 1..Len(s)
  OBVIOUS
<1>2. DOMAIN Tail(s) = 1..(Len(s) - 1)
  OBVIOUS
<1>3. \A i \in DOMAIN Tail(s) : Tail(s)[i] = s[i + 1]
  OBVIOUS
<1>4. Head(s) = s[1]
  OBVIOUS
<1>5. ASSUME NEW i \in DOMAIN s
      PROVE  i = 1 \/ (i - 1 \in DOMAIN Tail(s) /\ s[i] = Tail(s)[i - 1])
  <2>1. i = 1 \/ (i - 1 \in DOMAIN Tail(s) /\ (i - 1) + 1 = i)
    BY <1>1, <1>2
  <2> QED
    BY <1>3, <2>1
<1>6. Elems(s) \subseteq {Head(s)} \cup Elems(Tail(s))
  <2> SUFFICES ASSUME NEW i \in DOMAIN s
               PROVE  s[i] = Head(s) \/ \E j \in DOMAIN Tail(s) : s[i] = Tail(s)[j]
    BY DEF Elems
  <2> QED
    BY <1>4, <1>5
<1>7. {Head(s)} \cup Elems(Tail(s)) \subseteq Elems(s)
  <2>1. \A i \in DOMAIN Tail(s) : i + 1 \in DOMAIN s
    BY <1>1, <1>2
  <2> QED
    BY <1>1, <1>3, <1>4, <2>1 DEF Elems
<1> QED
  BY <1>6, <1>7

\* The empty sequence has no chunks.
LEMMA ElemsEmpty == Elems(<<>>) = {} /\ FrameElems(<<>>) = {}
BY DEF Elems, FrameElems

\* The same for the chunks of a sequence of frames.
LEMMA FrameElemsAppend ==
  ASSUME NEW S, NEW fs \in Seq(Seq(S)), NEW f \in Seq(S)
  PROVE  FrameElems(Append(fs, f)) = FrameElems(fs) \cup Elems(f)
<1>1. \A i \in DOMAIN fs : Append(fs, f)[i] = fs[i]
  OBVIOUS
<1>2. Append(fs, f)[Len(fs) + 1] = f
  OBVIOUS
<1>3. DOMAIN Append(fs, f) = DOMAIN fs \cup {Len(fs) + 1}
  OBVIOUS
<1> QED
  BY <1>1, <1>2, <1>3 DEF FrameElems

\* Taking the first frame takes exactly its chunks out.
LEMMA FrameElemsTail ==
  ASSUME NEW S, NEW fs \in Seq(Seq(S)), fs # <<>>
  PROVE  FrameElems(fs) = Elems(Head(fs)) \cup FrameElems(Tail(fs))
<1>1. Elems(fs) = {Head(fs)} \cup Elems(Tail(fs))
  BY ElemsTail
<1>2. \A gs : FrameElems(gs) = UNION {Elems(f) : f \in Elems(gs)}
  BY DEF FrameElems, Elems
<1> QED
  BY <1>1, <1>2

-----------------------------------------------------------------------------
\* What the threads carry by hand is there: a chunk between recv() and SQPut
\* in socket_loop_thread, and between SQGet and framing in framer_thread.
\* It holds because a thread is created once and every run has its own.
Carried ==
  /\ \A r \in Runs : sock_pc[r] = "put" <=> got[r] # 0
  /\ \A r \in Runs : framer_pc[r] = "frame" <=> hand[r] # 0
  /\ \A r \in Runs : r > runs => sock_pc[r] = "none" /\ framer_pc[r] = "none"
  /\ main = "run_framer" => framer_pc[runs] = "none"

TypeInv == TypeOK /\ Carried

\* The manager does not exist yet and no thread carries anything.
LEMMA TypeInit == Init => TypeInv
<1> SUFFICES ASSUME Init PROVE TypeInv
  OBVIOUS
<1>1. MngrType
  BY DEF Init, MngrType, Statuses, ErrorCodes, FramerErrors, QueueErrors,
         Sockets
<1>2. QueueType /\ FlagType
  BY EmptyType DEF Init, QueueType, FlagType, FramerErrors
<1>3. ThreadType /\ AppType
  BY DEF Init, ThreadType, AppType, SockPoints, FramerPoints, MainPoints,
         Statuses, Sockets
<1>4. NetType
  <2>1. wire \in [Runs -> Seq(Chunks)]
    BY EmptyType DEF Init
  <2>2. conn \in [Handles -> 0..Unconnected] /\ sent \in 0..MaxChunks
    BY DEF Init
  <2> QED
    BY <2>1, <2>2 DEF Init, NetType
<1>5. HistType
  <2>1. owner \in [Chunks -> 0..MaxRuns]
    BY DEF Init
  <2>2. recvd \in SUBSET Chunks /\ out \in SUBSET Chunks
    BY DEF Init
  <2>3. dropped \in SUBSET Chunks /\ was_reset \in BOOLEAN
    BY DEF Init
  <2> QED
    BY <2>1, <2>2, <2>3 DEF HistType
<1>6. Carried
  BY DEF Init, Carried
<1> QED
  BY <1>1, <1>2, <1>3, <1>4, <1>5, <1>6
  DEF TypeInv, TypeOK

USE DEF vars, mngrVars, queueVars, framerVars, sockVars, frThread, appVars,
        netVars, histVars

\* A step between two points of socket_loop_thread where it carries nothing.
LEMMA SockCarried ==
  ASSUME TypeInv, NEW r \in Runs, NEW pc, pc # "put",
         sock_pc[r] \notin {"none", "put"}, SockGoto(r, pc),
         UNCHANGED <<got, framer_pc, hand, runs, main>>
  PROVE  Carried'
BY DEF TypeInv, TypeOK, ThreadType, AppType, Carried, SockGoto

\* The same for framer_thread.
LEMMA FramerCarried ==
  ASSUME TypeInv, NEW r \in Runs, NEW pc, pc # "frame",
         framer_pc[r] \notin {"none", "frame"}, FramerGoto(r, pc),
         UNCHANGED <<got, sock_pc, hand, runs, main>>
  PROVE  Carried'
BY DEF TypeInv, TypeOK, ThreadType, AppType, Carried, FramerGoto

\* The calls of the application thread keep the types.
LEMMA TypeApplication ==
  ASSUME TypeInv, Application
  PROVE  TypeInv'
<1> USE DEF TypeInv, TypeOK
<1>1. CASE InitializeOk
  <2>1. MngrType'
    BY <1>1 DEF InitializeOk, MngrType, FlagType, AppType, Statuses,
           ErrorCodes, FramerErrors, QueueErrors, Sockets
  <2>2. AppType'
    BY <1>1 DEF InitializeOk, AppType, MngrType, MainPoints, Statuses
  <2>3. QueueType' /\ FlagType' /\ ThreadType' /\ NetType' /\ HistType'
    BY <1>1 DEF InitializeOk, QueueType, FlagType, ThreadType, NetType,
           HistType
  <2>4. Carried'
    BY <1>1 DEF InitializeOk, Carried, ThreadType, AppType
  <2> QED
    BY <2>1, <2>2, <2>3, <2>4
<1>2. CASE InitializeFails
  <2>1. MngrType'
    BY <1>2 DEF InitializeFails, MngrType, FlagType, AppType, Statuses,
           ErrorCodes, FramerErrors, QueueErrors, Sockets
  <2>2. AppType'
    BY <1>2 DEF InitializeFails, AppType, MngrType, MainPoints, Statuses
  <2>3. QueueType' /\ FlagType' /\ ThreadType' /\ NetType' /\ HistType'
    BY <1>2 DEF InitializeFails, QueueType, FlagType, ThreadType, NetType,
           HistType
  <2>4. Carried'
    BY <1>2 DEF InitializeFails, Carried, ThreadType, AppType
  <2> QED
    BY <2>1, <2>2, <2>3, <2>4
<1>3. CASE RunRefused
  <2>1. MngrType'
    BY <1>3 DEF RunRefused, MayRun, MngrType, FlagType, AppType, Statuses,
           ErrorCodes, FramerErrors, QueueErrors, Sockets
  <2>2. QueueType' /\ FlagType' /\ ThreadType' /\ AppType' /\ NetType' /\ HistType'
    BY <1>3 DEF RunRefused, MayRun, QueueType, FlagType, ThreadType,
           AppType, NetType, HistType
  <2>3. Carried'
    BY <1>3 DEF RunRefused, MayRun, Carried, ThreadType, AppType
  <2> QED
    BY <2>1, <2>2, <2>3
<1>4. CASE RunNotConnected
  <2>1. MngrType'
    BY <1>4 DEF RunNotConnected, MayRun, MngrType, FlagType, AppType,
           Statuses, ErrorCodes, FramerErrors, QueueErrors, Sockets
  <2>2. NetType'
    BY <1>4 DEF RunNotConnected, MayRun, NetType, MngrType, ThreadType,
           AppType
  <2>3. QueueType' /\ FlagType' /\ ThreadType' /\ AppType' /\ HistType'
    BY <1>4 DEF RunNotConnected, MayRun, QueueType, FlagType, ThreadType,
           AppType, HistType
  <2>4. Carried'
    BY <1>4 DEF RunNotConnected, MayRun, Carried, ThreadType, AppType
  <2> QED
    BY <2>1, <2>2, <2>3, <2>4
<1>5. CASE RunConnect
  <2>1. MngrType'
    BY <1>5 DEF RunConnect, MayRun, MngrType, FlagType, AppType, Statuses,
           ErrorCodes, FramerErrors, QueueErrors, Sockets
  <2>2. ThreadType'
    BY <1>5 DEF RunConnect, MayRun, ThreadType, MngrType, QueueType,
           NetType, AppType, SockPoints, FramerPoints, Sockets
  <2>3. AppType'
    BY <1>5 DEF RunConnect, MayRun, AppType, MngrType, MainPoints, Statuses
  <2>4. NetType'
    BY <1>5 DEF RunConnect, MayRun, NetType, MngrType, ThreadType, AppType
  <2>5. QueueType' /\ FlagType' /\ HistType'
    BY <1>5 DEF RunConnect, MayRun, QueueType, FlagType, HistType
  <2>6. Carried'
    BY <1>5 DEF RunConnect, MayRun, Carried, ThreadType, AppType
  <2> QED
    BY <2>1, <2>2, <2>3, <2>4, <2>5, <2>6
<1>6. CASE Stop
  <2>1. AppType'
    BY <1>6 DEF Stop, StopEntry, Stoppable, CallStop, AppType, MngrType,
           MainPoints, Statuses
  <2>2. MngrType' /\ QueueType' /\ FlagType' /\ ThreadType' /\ NetType' /\ HistType'
    BY <1>6 DEF Stop, StopEntry, Stoppable, CallStop, MngrType, QueueType,
           FlagType, ThreadType, NetType, HistType
  <2>3. Carried'
    BY <1>6 DEF Stop, StopEntry, Stoppable, CallStop, Carried, ThreadType,
           AppType
  <2> QED
    BY <2>1, <2>2, <2>3
<1>7. CASE Terminate
  <2>1. AppType'
    BY <1>7 DEF Terminate, StopEntry, Stoppable, CallStop, AppType,
           MngrType, MainPoints, Statuses
  <2>2. MngrType' /\ QueueType' /\ FlagType' /\ ThreadType' /\ NetType' /\ HistType'
    BY <1>7 DEF Terminate, StopEntry, Stoppable, CallStop, MngrType,
           QueueType, FlagType, ThreadType, NetType, HistType
  <2>3. Carried'
    BY <1>7 DEF Terminate, StopEntry, Stoppable, CallStop, Carried,
           ThreadType, AppType
  <2> QED
    BY <2>1, <2>2, <2>3
<1>8. CASE ResetQueue
  <2>1. MngrType'
    BY <1>8 DEF ResetQueue, MngrType, FlagType, AppType, Statuses,
           ErrorCodes, FramerErrors, QueueErrors, Sockets
  <2>2. AppType'
    BY <1>8 DEF ResetQueue, AppType, MngrType, MainPoints, Statuses
  <2>3. HistType'
    BY <1>8 DEF ResetQueue, HistType, QueueType, NetType, ThreadType,
           AppType
  <2>4. QueueType' /\ FlagType' /\ ThreadType' /\ NetType'
    BY <1>8 DEF ResetQueue, QueueType, FlagType, ThreadType, NetType
  <2>5. Carried'
    BY <1>8 DEF ResetQueue, Carried, ThreadType, AppType
  <2> QED
    BY <2>1, <2>2, <2>3, <2>4, <2>5
<1>9. CASE RunFramer
  <2>1. FlagType'
    BY <1>9 DEF RunFramer, FlagType, FramerErrors
  <2>2. ThreadType'
    BY <1>9 DEF RunFramer, ThreadType, MngrType, QueueType, NetType,
           AppType, SockPoints, FramerPoints, Sockets
  <2>3. AppType'
    BY <1>9 DEF RunFramer, AppType, MngrType, MainPoints, Statuses
  <2>4. MngrType' /\ QueueType' /\ NetType' /\ HistType'
    BY <1>9 DEF RunFramer, MngrType, QueueType, NetType, HistType
  <2>5. Carried'
    BY <1>9 DEF RunFramer, Carried, ThreadType, AppType
  <2> QED
    BY <2>1, <2>2, <2>3, <2>4, <2>5
<1>10. CASE RunStatus
  <2>1. MngrType'
    BY <1>10 DEF RunStatus, MngrType, FlagType, AppType, Statuses,
           ErrorCodes, FramerErrors, QueueErrors, Sockets
  <2>2. AppType'
    BY <1>10 DEF RunStatus, AppType, MngrType, MainPoints, Statuses
  <2>3. QueueType' /\ FlagType' /\ ThreadType' /\ NetType' /\ HistType'
    BY <1>10 DEF RunStatus, QueueType, FlagType, ThreadType, NetType,
           HistType
  <2>4. Carried'
    BY <1>10 DEF RunStatus, Carried, ThreadType, AppType
  <2> QED
    BY <2>1, <2>2, <2>3, <2>4
<1>11. CASE StopEnter
  <2>1. MngrType'
    BY <1>11 DEF StopEnter, MngrType, FlagType, AppType, Statuses,
           ErrorCodes, FramerErrors, QueueErrors, Sockets
  <2>2. AppType'
    BY <1>11 DEF StopEnter, AppType, MngrType, MainPoints, Statuses
  <2>3. QueueType' /\ FlagType' /\ ThreadType' /\ NetType' /\ HistType'
    BY <1>11 DEF StopEnter, QueueType, FlagType, ThreadType, NetType,
           HistType
  <2>4. Carried'
    BY <1>11 DEF StopEnter, Carried, ThreadType, AppType
  <2> QED
    BY <2>1, <2>2, <2>3, <2>4
<1>12. CASE StopRun
  <2>1. MngrType'
    BY <1>12 DEF StopRun, MngrType, FlagType, AppType, Statuses, ErrorCodes,
           FramerErrors, QueueErrors, Sockets
  <2>2. AppType'
    BY <1>12 DEF StopRun, AppType, MngrType, MainPoints, Statuses
  <2>3. QueueType' /\ FlagType' /\ ThreadType' /\ NetType' /\ HistType'
    BY <1>12 DEF StopRun, QueueType, FlagType, ThreadType, NetType, HistType
  <2>4. Carried'
    BY <1>12 DEF StopRun, Carried, ThreadType, AppType
  <2> QED
    BY <2>1, <2>2, <2>3, <2>4
<1>13. CASE StopClose
  <2>1. MngrType'
    BY <1>13 DEF StopClose, CloseDeviceSocket, MngrType, FlagType, AppType,
           Statuses, ErrorCodes, FramerErrors, QueueErrors, Sockets
  <2>2. AppType'
    BY <1>13 DEF StopClose, CloseDeviceSocket, AppType, MngrType,
           MainPoints, Statuses
  <2>3. NetType'
    BY <1>13 DEF StopClose, CloseDeviceSocket, NetType, MngrType,
           ThreadType, AppType
  <2>4. QueueType' /\ FlagType' /\ ThreadType' /\ HistType'
    BY <1>13 DEF StopClose, CloseDeviceSocket, QueueType, FlagType,
           ThreadType, HistType
  <2>5. Carried'
    BY <1>13 DEF StopClose, CloseDeviceSocket, Carried, ThreadType, AppType
  <2> QED
    BY <2>1, <2>2, <2>3, <2>4, <2>5
<1>14. CASE Free
  <2>1. AppType'
    BY <1>14 DEF Free, AppType, MngrType, MainPoints, Statuses
  <2>2. MngrType' /\ QueueType' /\ FlagType' /\ ThreadType' /\ NetType' /\ HistType'
    BY <1>14 DEF Free, MngrType, QueueType, FlagType, ThreadType, NetType,
           HistType
  <2>3. Carried'
    BY <1>14 DEF Free, Carried, ThreadType, AppType
  <2> QED
    BY <2>1, <2>2, <2>3
<1>15. CASE ResetRecv
  <2>1. QueueType'
    BY <1>15, AppendType, HeadTailType, EmptyType DEF ResetRecv, QueueType,
           ThreadType
  <2>2. AppType'
    BY <1>15 DEF ResetRecv, AppType, MngrType, MainPoints, Statuses
  <2>3. HistType'
    BY <1>15, HeadTailType DEF ResetRecv, HistType, QueueType
  <2>4. MngrType' /\ FlagType' /\ ThreadType' /\ NetType'
    BY <1>15 DEF ResetRecv, MngrType, FlagType, ThreadType, NetType
  <2>5. Carried'
    BY <1>15 DEF ResetRecv, Carried, ThreadType, AppType
  <2> QED
    BY <2>1, <2>2, <2>3, <2>4, <2>5
<1>16. CASE ResetFrame
  <2>1. MngrType'
    BY <1>16 DEF ResetFrame, MngrType, FlagType, AppType, Statuses,
           ErrorCodes, FramerErrors, QueueErrors, Sockets
  <2>2. QueueType'
    BY <1>16, AppendType, HeadTailType, EmptyType DEF ResetFrame, QueueType,
           ThreadType
  <2>3. AppType'
    BY <1>16 DEF ResetFrame, AppType, MngrType, MainPoints, Statuses
  <2>4. HistType'
    BY <1>16, HeadTailType, ElemsType DEF ResetFrame, HistType, QueueType
  <2>5. FlagType' /\ ThreadType' /\ NetType'
    BY <1>16 DEF ResetFrame, FlagType, ThreadType, NetType
  <2>6. Carried'
    BY <1>16 DEF ResetFrame, Carried, ThreadType, AppType
  <2> QED
    BY <2>1, <2>2, <2>3, <2>4, <2>5, <2>6
<1> QED
  BY <1>1, <1>2, <1>3, <1>4, <1>5, <1>6, <1>7, <1>8, <1>9, <1>10, <1>11,
         <1>12, <1>13, <1>14, <1>15, <1>16 DEF Application, InCall

\* So do the reader thread and the device.
LEMMA TypeReaderDevice ==
  ASSUME TypeInv, Reader \/ Device
  PROVE  TypeInv'
<1> USE DEF TypeInv, TypeOK
<1>1. CASE GetData
  <2>1. QueueType'
    BY <1>1, AppendType, HeadTailType, EmptyType DEF GetData, QueueType,
           ThreadType
  <2>2. HistType'
    BY <1>1, HeadTailType, ElemsType DEF GetData, HistType, QueueType
  <2>3. MngrType' /\ FlagType' /\ ThreadType' /\ AppType' /\ NetType'
    BY <1>1 DEF GetData, MngrType, FlagType, ThreadType, AppType, NetType
  <2>4. Carried'
    BY <1>1 DEF GetData, Carried, ThreadType, AppType
  <2> QED
    BY <2>1, <2>2, <2>3, <2>4
<1>2. CASE SetPause(TRUE) \/ SetPause(FALSE)
  <2>1. MngrType'
    BY <1>2 DEF SetPause, MngrType, FlagType, AppType, Statuses, ErrorCodes,
           FramerErrors, QueueErrors, Sockets
  <2>2. QueueType' /\ FlagType' /\ ThreadType' /\ AppType' /\ NetType' /\ HistType'
    BY <1>2 DEF SetPause, QueueType, FlagType, ThreadType, AppType, NetType,
           HistType
  <2>3. Carried'
    BY <1>2 DEF SetPause, Carried, ThreadType, AppType
  <2> QED
    BY <2>1, <2>2, <2>3
<1>3. CASE \E r \in Runs : DeviceSend(r)
  <2>1. NetType'
    BY <1>3, AppendType, HeadTailType, EmptyType DEF DeviceSend, NetType,
           MngrType, ThreadType, AppType, Chunks
  <2>2. HistType'
    BY <1>3 DEF DeviceSend, HistType, NetType, Chunks
  <2>3. MngrType' /\ QueueType' /\ FlagType' /\ ThreadType' /\ AppType'
    BY <1>3 DEF DeviceSend, MngrType, QueueType, FlagType, ThreadType,
           AppType
  <2>4. Carried'
    BY <1>3 DEF DeviceSend, Carried, ThreadType, AppType
  <2> QED
    BY <2>1, <2>2, <2>3, <2>4
<1>4. CASE \E r \in Runs : DeviceClose(r)
  <2>1. NetType'
    BY <1>4 DEF DeviceClose, NetType, MngrType, ThreadType, AppType
  <2>2. MngrType' /\ QueueType' /\ FlagType' /\ ThreadType' /\ AppType' /\ HistType'
    BY <1>4 DEF DeviceClose, MngrType, QueueType, FlagType, ThreadType,
           AppType, HistType
  <2>3. Carried'
    BY <1>4 DEF DeviceClose, Carried, ThreadType, AppType
  <2> QED
    BY <2>1, <2>2, <2>3
<1> QED
  BY <1>1, <1>2, <1>3, <1>4 DEF Reader, Device

\* So does socket_loop_thread.
LEMMA TypeSockThread ==
  ASSUME TypeInv, NEW r \in Runs, SockThread(r)
  PROVE  TypeInv'
<1> USE DEF TypeInv, TypeOK
<1>1. CASE SockStart(r)
  <2>1. MngrType'
    <3>1. UNCHANGED <<status, error_code, run, device_socket>>
      BY <1>1 DEF SockStart
    <3>2. pause_flg' \in {pause_flg, FALSE}
      BY <1>1 DEF SockStart
    <3>3. queue_error_code' \in {queue_error_code, "NO_ERROR"}
      BY <1>1 DEF SockStart
    <3>4. mngr' = mngr
      BY <1>1 DEF SockStart
    <3> QED
      BY <3>1, <3>2, <3>3, <3>4 DEF MngrType, QueueErrors
  <2>2. ThreadType'
    <3>1. /\ UNCHANGED <<got, framer_pc, hand>>
          /\ sock' \in {sock, [sock EXCEPT ![r] = device_socket]}
          /\ \E pt \in {"outer", "done"} : sock_pc' = [sock_pc EXCEPT ![r] = pt]
      BY <1>1 DEF SockStart, SockGoto
    <3>2. sock' \in [Runs -> Sockets]
      BY <3>1 DEF ThreadType, MngrType
    <3>3. sock_pc' \in [Runs -> SockPoints]
      BY <3>1 DEF ThreadType, SockPoints
    <3> QED
      BY <3>1, <3>2, <3>3 DEF ThreadType
  <2>3. QueueType' /\ FlagType' /\ AppType' /\ NetType' /\ HistType'
    BY <1>1 DEF SockStart, SockGoto, SockAt, QueueType, FlagType, AppType,
           NetType, HistType
  <2>4. Carried'
    BY <1>1, SockCarried DEF SockStart, SockGoto, SockAt
  <2> QED
    BY <2>1, <2>2, <2>3, <2>4
<1>2. CASE SockOuter(r)
  <2>1. ThreadType'
    BY <1>2 DEF SockOuter, SockGoto, SockAt, Conn, HasData, ThreadType,
           MngrType, QueueType, NetType, AppType, SockPoints, FramerPoints,
           Sockets
  <2>2. MngrType' /\ QueueType' /\ FlagType' /\ AppType' /\ NetType' /\ HistType'
    BY <1>2 DEF SockOuter, SockGoto, SockAt, Conn, HasData, MngrType,
           QueueType, FlagType, AppType, NetType, HistType
  <2>3. Carried'
    BY <1>2, SockCarried DEF SockOuter, SockGoto, SockAt, Conn, HasData
  <2> QED
    BY <2>1, <2>2, <2>3
<1>3. CASE SockInner(r)
  <2>1. ThreadType'
    BY <1>3 DEF SockInner, SockGoto, SockAt, ThreadType, MngrType,
           QueueType, NetType, AppType, SockPoints, FramerPoints, Sockets
  <2>2. MngrType' /\ QueueType' /\ FlagType' /\ AppType' /\ NetType' /\ HistType'
    BY <1>3 DEF SockInner, SockGoto, SockAt, MngrType, QueueType, FlagType,
           AppType, NetType, HistType
  <2>3. Carried'
    BY <1>3, SockCarried DEF SockInner, SockGoto, SockAt
  <2> QED
    BY <2>1, <2>2, <2>3
<1>4. CASE SockRecv(r)
  <2> DEFINE h == sock[r]
             w == wire[Conn(h)]
  <2>1. MngrType' /\ QueueType' /\ FlagType' /\ AppType'
    BY <1>4 DEF SockRecv, MngrType, QueueType, FlagType, AppType
  <2>2. CASE HasData(h)
    <3>1. Conn(h) \in Runs /\ w \in Seq(Chunks) /\ w # <<>>
      BY <2>2 DEF HasData, NetType
    <3>2. Head(w) \in Chunks /\ Tail(w) \in Seq(Chunks)
      BY <3>1, HeadTailType
    <3>3. /\ got' = [got EXCEPT ![r] = Head(w)]
          /\ wire' = [wire EXCEPT ![Conn(h)] = Tail(w)]
          /\ recvd' = recvd \cup {Head(w)}
          /\ SockGoto(r, "put")
          /\ sock_pc[r] = "recv"
          /\ UNCHANGED <<sock, frThread, appVars, conn, peer, sent, owner,
                         out, dropped, was_reset>>
      <4>1. ~HasEnded(h) /\ ~Dead(h) /\ ~NotConn(h)
        BY <2>2, <3>1 DEF HasData, HasEnded, Dead, NotConn
      <4> QED
        BY <1>4, <2>2, <4>1 DEF SockRecv, SockAt
    <3> HIDE DEF w, h
    <3>4. ThreadType'
      BY <3>2, <3>3 DEF ThreadType, SockGoto, SockPoints
    <3>5. NetType' /\ HistType'
      BY <3>2, <3>3 DEF NetType, HistType
    <3>6. Carried'
      BY <3>2, <3>3 DEF Carried, ThreadType, SockGoto, Chunks
    <3> QED
      BY <2>1, <3>4, <3>5, <3>6
  <2>3. CASE ~HasData(h)
    <3>1. PICK pc \in {"close", "inner"} : SockGoto(r, pc)
      BY <1>4, <2>3 DEF SockRecv
    <3>2. /\ sock_pc[r] = "recv"
          /\ UNCHANGED <<sock, got, frThread, appVars, netVars, histVars>>
      BY <1>4, <2>3 DEF SockRecv, SockAt
    <3>3. ThreadType'
      BY <3>1, <3>2 DEF ThreadType, SockGoto, SockPoints
    <3>4. NetType' /\ HistType'
      BY <3>2 DEF NetType, HistType
    <3>5. Carried'
      BY <3>1, <3>2, SockCarried
    <3> QED
      BY <2>1, <3>3, <3>4, <3>5
  <2> QED
    BY <2>2, <2>3
<1>5. CASE SockPut(r)
  <2>1. QueueType'
    BY <1>5, AppendType, HeadTailType, EmptyType DEF SockPut, SockGoto,
           SockAt, QueueType, ThreadType, Carried
  <2>2. ThreadType'
    BY <1>5 DEF SockPut, SockGoto, SockAt, ThreadType, MngrType, QueueType,
           NetType, AppType, SockPoints, FramerPoints, Sockets
  <2>3. MngrType' /\ FlagType' /\ AppType' /\ NetType' /\ HistType'
    BY <1>5 DEF SockPut, SockGoto, SockAt, MngrType, FlagType, AppType,
           NetType, HistType
  <2>4. Carried'
    BY <1>5 DEF SockPut, SockGoto, SockAt, Carried, ThreadType, AppType
  <2> QED
    BY <2>1, <2>2, <2>3, <2>4
<1>6. CASE SockCheck(r)
  <2>1. MngrType'
    BY <1>6 DEF SockCheck, SockGoto, SockAt, MngrType, FlagType, AppType,
           Statuses, ErrorCodes, FramerErrors, QueueErrors, Sockets
  <2>2. ThreadType'
    BY <1>6 DEF SockCheck, SockGoto, SockAt, ThreadType, MngrType,
           QueueType, NetType, AppType, SockPoints, FramerPoints, Sockets
  <2>3. QueueType' /\ FlagType' /\ AppType' /\ NetType' /\ HistType'
    BY <1>6 DEF SockCheck, SockGoto, SockAt, QueueType, FlagType, AppType,
           NetType, HistType
  <2>4. Carried'
    BY <1>6, SockCarried DEF SockCheck, SockGoto, SockAt
  <2> QED
    BY <2>1, <2>2, <2>3, <2>4
<1>7. CASE SockClose(r)
  <2>1. MngrType'
    BY <1>7 DEF SockClose, SockGoto, SockAt, MngrType, FlagType, AppType,
           Statuses, ErrorCodes, FramerErrors, QueueErrors, Sockets
  <2>2. ThreadType'
    BY <1>7 DEF SockClose, SockGoto, SockAt, ThreadType, MngrType,
           QueueType, NetType, AppType, SockPoints, FramerPoints, Sockets
  <2>3. NetType'
    BY <1>7 DEF SockClose, SockGoto, SockAt, NetType, MngrType, ThreadType,
           AppType
  <2>4. QueueType' /\ FlagType' /\ AppType' /\ HistType'
    BY <1>7 DEF SockClose, SockGoto, SockAt, QueueType, FlagType, AppType,
           HistType
  <2>5. Carried'
    BY <1>7, SockCarried DEF SockClose, SockGoto, SockAt
  <2> QED
    BY <2>1, <2>2, <2>3, <2>4, <2>5
<1> QED
  BY <1>1, <1>2, <1>3, <1>4, <1>5, <1>6, <1>7 DEF SockThread

\* So does framer_thread.
LEMMA TypeFramerThread ==
  ASSUME TypeInv, NEW r \in Runs, FramerThread(r)
  PROVE  TypeInv'
<1> USE DEF TypeInv, TypeOK
<1>1. CASE FramerStart(r)
  <2>1. FlagType'
    BY <1>1 DEF FramerStart, FramerGoto, FramerAt, FlagType, FramerErrors
  <2>2. ThreadType'
    BY <1>1 DEF FramerStart, FramerGoto, FramerAt, ThreadType, MngrType,
           QueueType, NetType, AppType, SockPoints, FramerPoints, Sockets
  <2>3. MngrType' /\ QueueType' /\ AppType' /\ NetType' /\ HistType'
    BY <1>1 DEF FramerStart, FramerGoto, FramerAt, MngrType, QueueType,
           AppType, NetType, HistType
  <2>4. Carried'
    BY <1>1, FramerCarried DEF FramerStart, FramerGoto, FramerAt
  <2> QED
    BY <2>1, <2>2, <2>3, <2>4
<1>2. CASE FramerLoop(r)
  <2>1. ThreadType'
    BY <1>2 DEF FramerLoop, FramerGoto, FramerAt, ThreadType, MngrType,
           QueueType, NetType, AppType, SockPoints, FramerPoints, Sockets
  <2>2. MngrType' /\ QueueType' /\ FlagType' /\ AppType' /\ NetType' /\ HistType'
    BY <1>2 DEF FramerLoop, FramerGoto, FramerAt, MngrType, QueueType,
           FlagType, AppType, NetType, HistType
  <2>3. Carried'
    BY <1>2, FramerCarried DEF FramerLoop, FramerGoto, FramerAt
  <2> QED
    BY <2>1, <2>2, <2>3
<1>3. CASE FramerGet(r)
  <2>1. MngrType' /\ FlagType' /\ AppType' /\ NetType' /\ HistType'
    BY <1>3 DEF FramerGet, MngrType, FlagType, AppType, NetType, HistType
  <2>2. CASE recv_queue = <<>>
    <3>1. /\ framer_pc[r] = "get" /\ FramerGoto(r, "empty")
          /\ UNCHANGED <<hand, sockVars, queueVars, rest, appVars>>
      BY <1>3, <2>2 DEF FramerGet, FramerAt
    <3>2. QueueType' /\ ThreadType'
      BY <3>1 DEF QueueType, ThreadType, FramerGoto, FramerPoints
    <3>3. Carried'
      BY <3>1, FramerCarried
    <3> QED
      BY <2>1, <3>2, <3>3
  <2>3. CASE recv_queue # <<>>
    <3>1. /\ framer_pc[r] = "get" /\ FramerGoto(r, "frame")
          /\ hand' = [hand EXCEPT ![r] = Head(recv_queue)]
          /\ recv_queue' = Tail(recv_queue)
          /\ UNCHANGED <<sockVars, event_frame, rest, appVars>>
      BY <1>3, <2>3 DEF FramerGet, FramerAt
    <3>2. Head(recv_queue) \in Chunks /\ Tail(recv_queue) \in Seq(Chunks)
      BY <2>3, HeadTailType DEF QueueType
    <3>3. QueueType' /\ ThreadType'
      BY <3>1, <3>2 DEF QueueType, ThreadType, FramerGoto, FramerPoints
    <3>4. Carried'
      BY <3>1, <3>2 DEF Carried, ThreadType, FramerGoto, Chunks
    <3> QED
      BY <2>1, <3>3, <3>4
  <2> QED
    BY <2>2, <2>3
<1>4. CASE FramerFrame(r)
  <2>1. MngrType' /\ AppType' /\ NetType' /\ HistType'
    BY <1>4 DEF FramerFrame, MngrType, AppType, NetType, HistType
  <2>2. FlagType'
    BY <1>4 DEF FramerFrame, FlagType, FramerErrors
  <2>3. /\ framer_pc[r] = "frame"
        /\ hand' = [hand EXCEPT ![r] = 0]
        /\ UNCHANGED <<recv_queue, sockVars, appVars>>
    BY <1>4 DEF FramerFrame, FramerAt
  <2>4. PICK pc \in {"limit", "error"} : FramerGoto(r, pc)
    BY <1>4 DEF FramerFrame
  <2>5. Append(rest, hand[r]) \in Seq(Chunks)
    BY <2>3, AppendType DEF QueueType, ThreadType, Carried
  <2>6. QueueType'
    <3>1. Append(event_frame, Append(rest, hand[r])) \in Seq(Seq(Chunks))
      BY <2>5, AppendType DEF QueueType
    <3> QED
      BY <1>4, <2>3, <2>5, <3>1, EmptyType DEF FramerFrame, QueueType
  <2>7. ThreadType'
    BY <2>3, <2>4 DEF ThreadType, FramerGoto, FramerPoints
  <2>8. Carried'
    BY <2>3, <2>4 DEF Carried, ThreadType, FramerGoto
  <2> QED
    BY <2>1, <2>2, <2>6, <2>7, <2>8
<1>5. CASE FramerLimit(r)
  <2>1. FlagType'
    BY <1>5 DEF FramerLimit, FramerGoto, FramerAt, FlagType, FramerErrors
  <2>2. ThreadType'
    BY <1>5 DEF FramerLimit, FramerGoto, FramerAt, ThreadType, MngrType,
           QueueType, NetType, AppType, SockPoints, FramerPoints, Sockets
  <2>3. MngrType' /\ QueueType' /\ AppType' /\ NetType' /\ HistType'
    BY <1>5 DEF FramerLimit, FramerGoto, FramerAt, MngrType, QueueType,
           AppType, NetType, HistType
  <2>4. Carried'
    BY <1>5, FramerCarried DEF FramerLimit, FramerGoto, FramerAt
  <2> QED
    BY <2>1, <2>2, <2>3, <2>4
<1>6. CASE FramerErrorCheck(r)
  <2>1. MngrType'
    BY <1>6 DEF FramerErrorCheck, SetError, FramerGoto, FramerAt, MngrType,
           FlagType, AppType, Statuses, ErrorCodes, FramerErrors,
           QueueErrors, Sockets
  <2>2. FlagType'
    BY <1>6 DEF FramerErrorCheck, SetError, FramerGoto, FramerAt, FlagType,
           FramerErrors
  <2>3. ThreadType'
    BY <1>6 DEF FramerErrorCheck, SetError, FramerGoto, FramerAt,
           ThreadType, MngrType, QueueType, NetType, AppType, SockPoints,
           FramerPoints, Sockets
  <2>4. QueueType' /\ AppType' /\ NetType' /\ HistType'
    BY <1>6 DEF FramerErrorCheck, SetError, FramerGoto, FramerAt, QueueType,
           AppType, NetType, HistType
  <2>5. Carried'
    BY <1>6, FramerCarried DEF FramerErrorCheck, SetError, FramerGoto,
           FramerAt
  <2> QED
    BY <2>1, <2>2, <2>3, <2>4, <2>5
<1>7. CASE FramerRunOff(r)
  <2>1. MngrType'
    BY <1>7 DEF FramerRunOff, FramerGoto, FramerAt, MngrType, FlagType,
           AppType, Statuses, ErrorCodes, FramerErrors, QueueErrors, Sockets
  <2>2. ThreadType'
    BY <1>7 DEF FramerRunOff, FramerGoto, FramerAt, ThreadType, MngrType,
           QueueType, NetType, AppType, SockPoints, FramerPoints, Sockets
  <2>3. QueueType' /\ FlagType' /\ AppType' /\ NetType' /\ HistType'
    BY <1>7 DEF FramerRunOff, FramerGoto, FramerAt, QueueType, FlagType,
           AppType, NetType, HistType
  <2>4. Carried'
    BY <1>7, FramerCarried DEF FramerRunOff, FramerGoto, FramerAt
  <2> QED
    BY <2>1, <2>2, <2>3, <2>4
<1>8. CASE FramerCloseSocket(r)
  <2>1. MngrType'
    BY <1>8 DEF FramerCloseSocket, CloseDeviceSocket, FramerGoto, FramerAt,
           MngrType, FlagType, AppType, Statuses, ErrorCodes, FramerErrors,
           QueueErrors, Sockets
  <2>2. ThreadType'
    BY <1>8 DEF FramerCloseSocket, CloseDeviceSocket, FramerGoto, FramerAt,
           ThreadType, MngrType, QueueType, NetType, AppType, SockPoints,
           FramerPoints, Sockets
  <2>3. NetType'
    BY <1>8 DEF FramerCloseSocket, CloseDeviceSocket, FramerGoto, FramerAt,
           NetType, MngrType, ThreadType, AppType
  <2>4. QueueType' /\ FlagType' /\ AppType' /\ HistType'
    BY <1>8 DEF FramerCloseSocket, CloseDeviceSocket, FramerGoto, FramerAt,
           QueueType, FlagType, AppType, HistType
  <2>5. Carried'
    BY <1>8, FramerCarried DEF FramerCloseSocket, CloseDeviceSocket,
           FramerGoto, FramerAt
  <2> QED
    BY <2>1, <2>2, <2>3, <2>4, <2>5
<1>9. CASE FramerEmpty(r)
  <2>1. MngrType'
    BY <1>9 DEF FramerEmpty, SetError, FlushRest, FramerGoto, FramerAt,
           MngrType, FlagType, AppType, Statuses, ErrorCodes, FramerErrors,
           QueueErrors, Sockets
  <2>2. QueueType'
    <3>1. Append(event_frame, rest) \in Seq(Seq(Chunks))
      BY AppendType DEF QueueType
    <3> QED
      BY <1>9, <3>1, EmptyType DEF FramerEmpty, FlushRest, QueueType
  <2>3. FlagType'
    BY <1>9 DEF FramerEmpty, SetError, FlushRest, FramerGoto, FramerAt,
           FlagType, FramerErrors
  <2>4. ThreadType'
    BY <1>9 DEF FramerEmpty, SetError, FlushRest, FramerGoto, FramerAt,
           ThreadType, MngrType, QueueType, NetType, AppType, SockPoints,
           FramerPoints, Sockets
  <2>5. AppType' /\ NetType' /\ HistType'
    BY <1>9 DEF FramerEmpty, SetError, FlushRest, FramerGoto, FramerAt,
           AppType, NetType, HistType
  <2>6. Carried'
    BY <1>9, FramerCarried DEF FramerEmpty, SetError, FlushRest, FramerGoto,
           FramerAt
  <2> QED
    BY <2>1, <2>2, <2>3, <2>4, <2>5, <2>6
<1>10. CASE FramerExit(r)
  <2>1. ThreadType'
    BY <1>10 DEF FramerExit, FramerGoto, StopEntry, Stoppable, FramerAt,
           ThreadType, MngrType, QueueType, NetType, AppType, SockPoints,
           FramerPoints, Sockets
  <2>2. MngrType' /\ QueueType' /\ FlagType' /\ AppType' /\ NetType' /\ HistType'
    BY <1>10 DEF FramerExit, FramerGoto, StopEntry, Stoppable, FramerAt,
           MngrType, QueueType, FlagType, AppType, NetType, HistType
  <2>3. Carried'
    BY <1>10, FramerCarried DEF FramerExit, FramerGoto, StopEntry,
           Stoppable, FramerAt
  <2> QED
    BY <2>1, <2>2, <2>3
<1>11. CASE FramerStopEnter(r)
  <2>1. MngrType'
    BY <1>11 DEF FramerStopEnter, FramerGoto, FramerAt, MngrType, FlagType,
           AppType, Statuses, ErrorCodes, FramerErrors, QueueErrors, Sockets
  <2>2. ThreadType'
    BY <1>11 DEF FramerStopEnter, FramerGoto, FramerAt, ThreadType,
           MngrType, QueueType, NetType, AppType, SockPoints, FramerPoints,
           Sockets
  <2>3. QueueType' /\ FlagType' /\ AppType' /\ NetType' /\ HistType'
    BY <1>11 DEF FramerStopEnter, FramerGoto, FramerAt, QueueType, FlagType,
           AppType, NetType, HistType
  <2>4. Carried'
    BY <1>11, FramerCarried DEF FramerStopEnter, FramerGoto, FramerAt
  <2> QED
    BY <2>1, <2>2, <2>3, <2>4
<1>12. CASE FramerIdle(r)
  <2>1. MngrType'
    BY <1>12 DEF FramerIdle, FramerGoto, FramerAt, MngrType, FlagType,
           AppType, Statuses, ErrorCodes, FramerErrors, QueueErrors, Sockets
  <2>2. ThreadType'
    BY <1>12 DEF FramerIdle, FramerGoto, FramerAt, ThreadType, MngrType,
           QueueType, NetType, AppType, SockPoints, FramerPoints, Sockets
  <2>3. QueueType' /\ FlagType' /\ AppType' /\ NetType' /\ HistType'
    BY <1>12 DEF FramerIdle, FramerGoto, FramerAt, QueueType, FlagType,
           AppType, NetType, HistType
  <2>4. Carried'
    BY <1>12, FramerCarried DEF FramerIdle, FramerGoto, FramerAt
  <2> QED
    BY <2>1, <2>2, <2>3, <2>4
<1> QED
  BY <1>1, <1>2, <1>3, <1>4, <1>5, <1>6, <1>7, <1>8, <1>9, <1>10, <1>11,
         <1>12 DEF FramerThread

\* One step of any of them, or a step that changes nothing.
LEMMA TypeStep == TypeInv /\ [Next]_vars => TypeInv'
<1> SUFFICES ASSUME TypeInv, [Next]_vars PROVE TypeInv'
  OBVIOUS
<1>1. CASE Application
  BY <1>1, TypeApplication
<1>2. CASE Reader \/ Device
  BY <1>2, TypeReaderDevice
<1>3. ASSUME NEW r \in Runs, SockThread(r) PROVE TypeInv'
  BY <1>3, TypeSockThread
<1>4. ASSUME NEW r \in Runs, FramerThread(r) PROVE TypeInv'
  BY <1>4, TypeFramerThread
<1>5. CASE UNCHANGED vars
  BY <1>5 DEF TypeInv, TypeOK, MngrType, QueueType, FlagType, ThreadType,
              AppType, NetType, HistType, Carried
<1> QED
  BY <1>1, <1>2, <1>3, <1>4, <1>5 DEF Next

\* Every variable of the manager and its threads keeps its type in every
\* behaviour, whatever the application, the reader and the device do.
THEOREM TypeCorrect == Spec => []TypeOK
<1>1. TypeInv => TypeOK
  BY DEF TypeInv
<1> QED
  BY <1>1, TypeInit, TypeStep, PTL DEF Spec

-----------------------------------------------------------------------------
\* A thread takes a chunk, and gives it away.
LEMMA GotTaken ==
  ASSUME TypeInv, NEW r \in Runs, NEW c \in Chunks, got[r] = 0,
         got' = [got EXCEPT ![r] = c], UNCHANGED hand
  PROVE  InHands' = InHands \cup {c}
BY DEF TypeInv, TypeOK, ThreadType, InHands, Chunks

\* SQPut moves a chunk out of the hands of socket_loop_thread.
LEMMA GotGiven ==
  ASSUME TypeInv, NEW r \in Runs, got[r] # 0,
         got' = [got EXCEPT ![r] = 0], UNCHANGED hand
  PROVE  InHands = InHands' \cup {got[r]}
BY DEF TypeInv, TypeOK, ThreadType, InHands, Chunks

\* SQGet moves a chunk into the hands of framer_thread.
LEMMA HandTaken ==
  ASSUME TypeInv, NEW r \in Runs, NEW c \in Chunks, hand[r] = 0,
         hand' = [hand EXCEPT ![r] = c], UNCHANGED got
  PROVE  InHands' = InHands \cup {c}
BY DEF TypeInv, TypeOK, ThreadType, InHands, Chunks

\* RecvSiDaqData moves a chunk out of the hands of framer_thread.
LEMMA HandGiven ==
  ASSUME TypeInv, NEW r \in Runs, hand[r] # 0,
         hand' = [hand EXCEPT ![r] = 0], UNCHANGED got
  PROVE  InHands = InHands' \cup {hand[r]}
BY DEF TypeInv, TypeOK, ThreadType, InHands, Chunks

\* The steps that move no chunk.
LEMMA NoLossKept ==
  ASSUME NoLoss,
         UNCHANGED <<got, hand, queueVars, rest, recvd, out, dropped>>
  PROVE  NoLoss'
BY DEF NoLoss, Held, InHands, Elems, FrameElems

\* No step of the application, its reader or the device loses a chunk: what
\* they take out of a queue is handed out or recorded as dropped.
LEMMA NoLossApplication ==
  ASSUME TypeInv, NoLoss, Application \/ Reader \/ Device
  PROVE  NoLoss'
<1> USE DEF TypeInv, TypeOK
<1>1. CASE ResetRecv
  <2>1. CASE recv_queue = <<>>
    BY <1>1, <2>1, NoLossKept DEF ResetRecv
  <2>2. CASE recv_queue # <<>>
    <3>1. Elems(recv_queue) = {Head(recv_queue)} \cup Elems(recv_queue')
      BY <1>1, <2>2, ElemsTail DEF ResetRecv, QueueType
    <3>2. /\ dropped' = dropped \cup {Head(recv_queue)}
          /\ UNCHANGED <<got, hand, event_frame, rest, recvd, out>>
      BY <1>1, <2>2 DEF ResetRecv
    <3>3. InHands' = InHands /\ Elems(rest)' = Elems(rest)
          /\ FrameElems(event_frame)' = FrameElems(event_frame)
      BY <3>2 DEF InHands, Elems, FrameElems
    <3> QED
      BY <3>1, <3>2, <3>3 DEF NoLoss, Held
  <2> QED
    BY <2>1, <2>2
<1>2. ASSUME event_frame # <<>>, event_frame' = Tail(event_frame),
             out' \cup dropped' = out \cup dropped \cup Elems(Head(event_frame)),
             UNCHANGED <<got, hand, recv_queue, rest, recvd>>
      PROVE  NoLoss'
  <2>1. FrameElems(event_frame) =
           Elems(Head(event_frame)) \cup FrameElems(event_frame')
    BY <1>2, FrameElemsTail DEF QueueType
  <2>2. InHands' = InHands /\ Elems(rest)' = Elems(rest)
        /\ Elems(recv_queue)' = Elems(recv_queue)
    BY <1>2 DEF InHands, Elems
  <2> QED
    BY <1>2, <2>1, <2>2 DEF NoLoss, Held
<1>3. CASE ResetFrame
  <2>1. CASE event_frame = <<>>
    BY <1>3, <2>1, NoLossKept DEF ResetFrame
  <2>2. CASE event_frame # <<>>
    BY <1>2, <1>3, <2>2 DEF ResetFrame
  <2> QED
    BY <2>1, <2>2
<1>4. CASE GetData
  BY <1>2, <1>4 DEF GetData
<1>5. CASE InitializeOk \/ InitializeFails \/ RunRefused \/ RunNotConnected
           \/ RunConnect \/ RunFramer \/ RunStatus
  BY <1>5, NoLossKept DEF InitializeOk, InitializeFails, RunRefused,
     RunNotConnected, RunConnect, RunFramer, RunStatus
<1>6. CASE Stop \/ Terminate \/ StopEnter \/ StopRun \/ StopClose \/ Free
           \/ ResetQueue
  BY <1>6, NoLossKept DEF Stop, Terminate, CallStop, StopEnter, StopRun,
     StopClose, Free, ResetQueue
<1>7. CASE SetPause(TRUE) \/ SetPause(FALSE) \/ Device
  BY <1>7, NoLossKept DEF SetPause, Device, DeviceSend, DeviceClose
<1> QED
  BY <1>1, <1>3, <1>4, <1>5, <1>6, <1>7 DEF Application, InCall, Reader

\* No step of socket_loop_thread loses a chunk.
LEMMA NoLossSockThread ==
  ASSUME TypeInv, NoLoss, NEW r \in Runs, SockThread(r)
  PROVE  NoLoss'
<1> USE DEF TypeInv, TypeOK
<1>1. CASE SockRecv(r)
  <2> DEFINE w == wire[Conn(sock[r])]
  <2>1. CASE HasData(sock[r])
    <3>1. w \in Seq(Chunks) /\ w # <<>>
      BY <2>1 DEF HasData, NetType
    <3>2. Head(w) \in Chunks
      BY <3>1, HeadTailType
    <3>3. /\ got' = [got EXCEPT ![r] = Head(w)]
          /\ recvd' = recvd \cup {Head(w)}
          /\ UNCHANGED <<hand, queueVars, rest, out, dropped>>
      BY <1>1, <2>1 DEF SockRecv, HasData, HasEnded, Dead, NotConn
    <3>4. got[r] = 0
      BY <1>1 DEF SockRecv, SockAt, Carried
    <3>5. InHands' = InHands \cup {Head(w)}
      BY <3>2, <3>3, <3>4, GotTaken
    <3>6. Held' = Held \cup {Head(w)}
      BY <3>3, <3>5 DEF Held, Elems, FrameElems
    <3> QED
      BY <3>3, <3>6 DEF NoLoss
  <2>2. CASE ~HasData(sock[r])
    BY <1>1, <2>2, NoLossKept DEF SockRecv
  <2> QED
    BY <2>1, <2>2
<1>2. CASE SockPut(r)
  <2>1. got[r] # 0 /\ got[r] \in Chunks
    BY <1>2 DEF SockPut, SockAt, Carried, ThreadType
  <2>2. InHands = InHands' \cup {got[r]}
    BY <1>2, <2>1, GotGiven DEF SockPut
  <2>3. Elems(recv_queue') = Elems(recv_queue) \cup {got[r]}
    BY <1>2, <2>1, ElemsAppend DEF SockPut, QueueType
  <2>4. UNCHANGED <<rest, event_frame, recvd, out, dropped>>
    BY <1>2 DEF SockPut
  <2>5. Held' = Held
    BY <2>2, <2>3, <2>4 DEF Held, Elems, FrameElems
  <2> QED
    BY <2>4, <2>5 DEF NoLoss
<1>3. CASE SockStart(r) \/ SockOuter(r) \/ SockInner(r) \/ SockCheck(r)
           \/ SockClose(r)
  BY <1>3, NoLossKept DEF SockStart, SockOuter, SockInner, SockCheck,
     SockClose
<1> QED
  BY <1>1, <1>2, <1>3 DEF SockThread

\* No step of framer_thread loses a chunk.
LEMMA NoLossFramerThread ==
  ASSUME TypeInv, NoLoss, NEW r \in Runs, FramerThread(r)
  PROVE  NoLoss'
<1> USE DEF TypeInv, TypeOK
<1>1. CASE FramerGet(r)
  <2>1. CASE recv_queue = <<>>
    BY <1>1, <2>1, NoLossKept DEF FramerGet
  <2>2. CASE recv_queue # <<>>
    <3>1. /\ hand' = [hand EXCEPT ![r] = Head(recv_queue)]
          /\ recv_queue' = Tail(recv_queue)
          /\ UNCHANGED <<got, rest, event_frame, recvd, out, dropped>>
      BY <1>1, <2>2 DEF FramerGet
    <3>2. hand[r] = 0
      BY <1>1 DEF FramerGet, FramerAt, Carried
    <3>3. Head(recv_queue) \in Chunks
      BY <2>2, HeadTailType DEF QueueType
    <3>4. InHands' = InHands \cup {Head(recv_queue)}
      BY <3>1, <3>2, <3>3, HandTaken
    <3>5. Elems(recv_queue) = {Head(recv_queue)} \cup Elems(recv_queue')
      BY <2>2, <3>1, ElemsTail DEF QueueType
    <3>6. Held' = Held
      BY <3>1, <3>4, <3>5 DEF Held, Elems, FrameElems
    <3> QED
      BY <3>1, <3>6 DEF NoLoss
  <2> QED
    BY <2>1, <2>2
<1>2. CASE FramerFrame(r)
  <2>1. hand[r] # 0 /\ hand[r] \in Chunks
    BY <1>2 DEF FramerFrame, FramerAt, Carried, ThreadType
  <2>2. InHands = InHands' \cup {hand[r]}
    BY <1>2, <2>1, HandGiven DEF FramerFrame
  <2>3. Elems(Append(rest, hand[r])) = Elems(rest) \cup {hand[r]}
    BY <2>1, ElemsAppend DEF QueueType
  <2>4. UNCHANGED <<recv_queue, recvd, out, dropped>>
    BY <1>2 DEF FramerFrame
  <2>5. CASE rest' = Append(rest, hand[r]) /\ UNCHANGED event_frame
    <3>1. Held' = Held
      BY <2>2, <2>3, <2>4, <2>5 DEF Held, Elems, FrameElems
    <3> QED
      BY <2>4, <3>1 DEF NoLoss
  <2>6. CASE /\ event_frame' = Append(event_frame, Append(rest, hand[r]))
             /\ rest' = <<>>
    <3>1. Append(rest, hand[r]) \in Seq(Chunks)
      BY <2>1, AppendType DEF QueueType
    <3>2. FrameElems(event_frame') =
             FrameElems(event_frame) \cup Elems(Append(rest, hand[r]))
      BY <2>6, <3>1, FrameElemsAppend DEF QueueType
    <3>3. Elems(rest') = {}
      BY <2>6, ElemsEmpty
    <3>4. Elems(recv_queue') = Elems(recv_queue)
      BY <2>4
    <3>5. Held' = Held
      BY <2>2, <2>3, <3>2, <3>3, <3>4 DEF Held
    <3> QED
      BY <2>4, <3>5 DEF NoLoss
  <2> QED
    BY <1>2, <2>5, <2>6 DEF FramerFrame
<1>3. CASE FramerEmpty(r)
  <2>1. UNCHANGED <<got, hand, recv_queue, recvd, out, dropped>>
    BY <1>3 DEF FramerEmpty
  <2>2. CASE UNCHANGED <<event_frame, rest>>
    BY <2>1, <2>2, NoLossKept
  <2>3. CASE event_frame' = Append(event_frame, rest) /\ rest' = <<>>
    <3>1. FrameElems(event_frame') = FrameElems(event_frame) \cup Elems(rest)
      BY <2>3, FrameElemsAppend DEF QueueType
    <3>2. Elems(rest') = {}
      BY <2>3, ElemsEmpty
    <3>3. Elems(recv_queue') = Elems(recv_queue) /\ InHands' = InHands
      BY <2>1 DEF InHands
    <3>4. Held' = Held
      BY <3>1, <3>2, <3>3 DEF Held
    <3> QED
      BY <2>1, <3>4 DEF NoLoss
  <2> QED
    BY <1>3, <2>2, <2>3 DEF FramerEmpty, FlushRest
<1>4. CASE FramerStart(r) \/ FramerLoop(r) \/ FramerLimit(r)
           \/ FramerErrorCheck(r) \/ FramerRunOff(r) \/ FramerCloseSocket(r)
  BY <1>4, NoLossKept DEF FramerStart, FramerLoop, FramerLimit,
     FramerErrorCheck, FramerRunOff, FramerCloseSocket
<1>5. CASE FramerExit(r) \/ FramerStopEnter(r) \/ FramerIdle(r)
  BY <1>5, NoLossKept DEF FramerExit, FramerStopEnter, FramerIdle
<1> QED
  BY <1>1, <1>2, <1>3, <1>4, <1>5 DEF FramerThread

\* No step of the system loses a chunk.
LEMMA NoLossStep == TypeInv /\ NoLoss /\ [Next]_vars => NoLoss'
<1> SUFFICES ASSUME TypeInv, NoLoss, [Next]_vars PROVE NoLoss'
  OBVIOUS
<1>1. CASE Application \/ Reader \/ Device
  BY <1>1, NoLossApplication
<1>2. ASSUME NEW r \in Runs, SockThread(r) PROVE NoLoss'
  BY <1>2, NoLossSockThread
<1>3. ASSUME NEW r \in Runs, FramerThread(r) PROVE NoLoss'
  BY <1>3, NoLossFramerThread
<1>4. CASE UNCHANGED vars
  BY <1>4, NoLossKept
<1> QED
  BY <1>1, <1>2, <1>3, <1>4 DEF Next

\* No chunk that recv() returned is lost between socket_loop_thread,
\* framer_thread and the reader, for any number of runs, whatever the limits
\* and however the application calls the API: it is handed to the
\* application, deleted by SiDaqResetQueue, or still held.
THEOREM NothingLost == Spec => []NoLoss
<1>1. Init => NoLoss
  BY ElemsEmpty DEF Init, NoLoss, Held, InHands
<1> QED
  BY <1>1, TypeInit, TypeStep, NoLossStep, PTL DEF Spec

=============================================================================
