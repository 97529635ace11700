--------------------------- MODULE WaitingProofs ---------------------------
(***************************************************************************)
(* Theorems about SiDaqApi for an application that waits for the threads   *)
(* of a run before it starts the next one or terminates (ClientWaits), for *)
(* any number of runs, chunks and handles and any limits.                  *)
(***************************************************************************)
EXTENDS SiDaqApiProofs

USE ConstantsAssumption DEF Runs, Unconnected, vars, mngrVars, queueVars,
      framerVars, sockVars, frThread, appVars, netVars, histVars

-----------------------------------------------------------------------------
\* A thread that is not of the latest run has ended.
OneRun ==
  \A r \in Runs : r # runs => sock_pc[r] \in Ended /\ framer_pc[r] \in Ended

SockActive == {"outer", "inner", "recv", "put", "check", "close"}

\* Who is connected to the device.  A handle is never connected to a run yet
\* to come; device_socket, when there is one, and no other handle, is the
\* connection of the latest run; what socket_loop_thread holds is that
\* connection or closed.
OwnSocket ==
  /\ \A h \in Handles : conn[h] \in 0..runs \cup {Unconnected}
  /\ device_socket # INVALID_SOCKET =>
        runs \in Runs /\ conn[device_socket] = runs
  /\ \A h \in Handles : runs # 0 /\ conn[h] = runs => h = device_socket
  /\ \A r \in Runs : sock_pc[r] \in SockActive =>
        /\ device_socket \in {INVALID_SOCKET, sock[r]}
        /\ sock[r] # INVALID_SOCKET => conn[sock[r]] \in {0, runs}

OwnInv == TypeInv /\ OneRun /\ OwnSocket

\* The connection a thread of the latest run finds data on is its own.
LEMMA OwnConnection ==
  ASSUME OwnSocket, NEW r \in Runs, r = runs, sock_pc[r] \in SockActive,
         HasData(sock[r])
  PROVE  Conn(sock[r]) = r
<1>1. sock[r] # INVALID_SOCKET => conn[sock[r]] \in {0, runs}
  BY DEF OwnSocket
<1>2. Conn(sock[r]) \in {0, runs}
  BY <1>1 DEF Conn
<1> QED
  BY <1>2 DEF HasData

\* No thread and no connection exists.
LEMMA OwnInit == Init => OneRun /\ OwnSocket
BY DEF Init, OneRun, OwnSocket, Ended, SockActive

\* A thread that takes a step is of the latest run, and goes on.
LEMMA OneRunThread ==
  ASSUME TypeInv, OneRun, NEW r \in Runs, UNCHANGED runs,
         \/ /\ sock_pc[r] \notin Ended /\ UNCHANGED framer_pc
            /\ \E pc : SockGoto(r, pc)
         \/ /\ framer_pc[r] \notin Ended /\ UNCHANGED sock_pc
            /\ \E pc : FramerGoto(r, pc)
  PROVE  OneRun' /\ r = runs
BY DEF OneRun, TypeInv, TypeOK, ThreadType, AppType, SockGoto, FramerGoto

\* The steps of socket_loop_thread move it from a point where it lives.
LEMMA SockMoves ==
  ASSUME NEW r \in Runs, SockThread(r)
  PROVE  /\ sock_pc[r] \in SockActive \cup {"start"}
         /\ \E pc : SockGoto(r, pc)
         /\ UNCHANGED <<framer_pc, runs>>
BY DEF SockThread, SockStart, SockOuter, SockInner, SockRecv, SockPut,
       SockCheck, SockClose, SockAt, SockActive

\* So do the steps of framer_thread.
LEMMA FramerMoves ==
  ASSUME NEW r \in Runs, FramerThread(r)
  PROVE  /\ framer_pc[r] \notin Ended
         /\ \E pc : FramerGoto(r, pc)
         /\ UNCHANGED <<sock_pc, runs>>
BY DEF FramerThread, FramerStart, FramerLoop, FramerGet, FramerFrame,
       FramerLimit, FramerErrorCheck, FramerRunOff, FramerCloseSocket,
       FramerEmpty, FramerExit, FramerStopEnter, FramerIdle, FramerAt, Ended

\* SiDaqRun starts its threads when all others have ended.
LEMMA OneRunStep ==
  ASSUME ClientWaits, TypeInv, OneRun, [Next]_vars
  PROVE  OneRun'
<1> USE DEF TypeInv, TypeOK, ThreadType, AppType
<1>1. CASE RunConnect
  BY <1>1 DEF RunConnect, MayRun, ThreadsEnded, OneRun, Ended
<1>2. CASE RunFramer
  BY <1>2 DEF RunFramer, OneRun
<1>3. CASE UNCHANGED <<sock_pc, framer_pc, runs>>
  BY <1>3 DEF OneRun
<1>4. ASSUME NEW r \in Runs, SockThread(r) PROVE OneRun'
  BY <1>4, SockMoves, OneRunThread DEF SockActive, Ended
<1>5. ASSUME NEW r \in Runs, FramerThread(r) PROVE OneRun'
  BY <1>5, FramerMoves, OneRunThread
<1>6. CASE Application
  BY <1>1, <1>2, <1>3, <1>6 DEF Application, InCall, InitializeOk,
     InitializeFails, RunRefused, RunNotConnected, RunStatus, Stop,
     Terminate, CallStop, StopEnter, StopRun, StopClose, Free, ResetQueue,
     ResetRecv, ResetFrame
<1>7. CASE Reader \/ Device
  BY <1>3, <1>7 DEF Reader, GetData, SetPause, Device, DeviceSend,
     DeviceClose
<1> QED
  BY <1>3, <1>4, <1>5, <1>6, <1>7 DEF Next

-----------------------------------------------------------------------------
\* closesocket() of a handle that is the latest run's connection, or closed.
LEMMA OwnClose ==
  ASSUME OwnInv, NEW h \in Sockets,
         h # INVALID_SOCKET => conn[h] \in {0, runs},
         device_socket \in {INVALID_SOCKET, h},
         conn' = [g \in Handles |-> IF g = h THEN 0 ELSE conn[g]],
         device_socket' = INVALID_SOCKET,
         UNCHANGED runs,
         \A r \in Runs : sock_pc'[r] \in SockActive =>
            /\ sock_pc[r] \in SockActive
            /\ sock'[r] \in {INVALID_SOCKET, sock[r]}
  PROVE  OwnSocket'
BY DEF OwnInv, OwnSocket, TypeInv, TypeOK, NetType, AppType, ThreadType,
       MngrType, Sockets

\* The steps that leave the sockets alone.
LEMMA OwnKept ==
  ASSUME OwnSocket, UNCHANGED <<conn, device_socket, runs, sock>>,
         \A r \in Runs : sock_pc'[r] \in SockActive => sock_pc[r] \in SockActive
  PROVE  OwnSocket'
BY DEF OwnSocket

\* A step of the application thread, the reader or the device.
LEMMA OwnApplication ==
  ASSUME ClientWaits, OwnInv, Application \/ Reader \/ Device
  PROVE  OwnSocket'
<1> USE DEF OwnInv, TypeInv, TypeOK, ThreadType, AppType, NetType, MngrType
<1>1. CASE RunConnect
  <2>1. PICK h \in Handles : /\ conn[h] = 0
                             /\ conn' = [conn EXCEPT ![h] = runs + 1]
                             /\ device_socket' = h
    BY <1>1 DEF RunConnect
  <2>2. /\ runs' = runs + 1 /\ runs' \in Runs
        /\ sock_pc' = [sock_pc EXCEPT ![runs + 1] = "start"]
        /\ \A r \in Runs : sock_pc[r] \in Ended
    BY <1>1 DEF RunConnect, MayRun, ThreadsEnded
  <2>3. \A r \in Runs : sock_pc'[r] \notin SockActive
    BY <2>2 DEF Ended, SockActive
  <2>4. \A g \in Handles : conn'[g] \in 0..runs' \cup {Unconnected}
    BY <2>1, <2>2 DEF OwnSocket
  <2>5. \A g \in Handles : conn'[g] = runs' => g = h
    <3>1. runs \in Nat /\ runs + 1 \in 1..MaxRuns
      BY <2>2
    <3>2. \A g \in Handles : conn[g] \in 0..runs \/ conn[g] = MaxRuns + 1
      BY DEF OwnSocket
    <3>3. \A g \in Handles : conn[g] # runs + 1
      BY <3>1, <3>2
    <3> QED
      BY <2>1, <2>2, <3>3
  <2>6. conn'[h] = runs'
    BY <2>1, <2>2
  <2> QED
    BY <2>1, <2>2, <2>3, <2>4, <2>5, <2>6 DEF OwnSocket
<1>2. CASE RunNotConnected
  <2>1. PICK h \in Handles : /\ conn[h] = 0
                             /\ conn' = [conn EXCEPT ![h] = Unconnected]
    BY <1>2 DEF RunNotConnected
  <2>2. /\ UNCHANGED <<device_socket, runs, sock, sock_pc>>
        /\ \A r \in Runs : sock_pc[r] \in Ended
    BY <1>2 DEF RunNotConnected, MayRun, ThreadsEnded
  <2>3. \A r \in Runs : sock_pc'[r] \notin SockActive
    BY <2>2 DEF Ended, SockActive
  <2> QED
    BY <2>1, <2>2, <2>3 DEF OwnSocket
<1>3. CASE StopClose
  BY <1>3, OwnClose DEF StopClose, CloseDeviceSocket, OwnSocket, Sockets
<1>4. CASE UNCHANGED <<conn, device_socket, runs, sock, sock_pc>>
  BY <1>4, OwnKept
<1>5. CASE Application
  BY <1>1, <1>2, <1>3, <1>4, <1>5 DEF Application, InCall, InitializeOk,
     InitializeFails, RunRefused, RunFramer, RunStatus, Stop, Terminate,
     CallStop, StopEnter, StopRun, Free, ResetQueue, ResetRecv, ResetFrame
<1>6. CASE Reader \/ Device
  BY <1>4, <1>6 DEF Reader, GetData, SetPause, Device, DeviceSend,
     DeviceClose
<1> QED
  BY <1>5, <1>6

\* A step of socket_loop_thread, which takes device_socket when it starts.
LEMMA OwnSockThread ==
  ASSUME OwnInv, NEW r \in Runs, SockThread(r)
  PROVE  OwnSocket'
<1> USE DEF OwnInv, TypeInv, TypeOK, ThreadType, AppType, NetType, MngrType
<1>0. r = runs
  BY SockMoves, OneRunThread DEF SockActive, Ended
<1>1. CASE SockStart(r)
  <2>1. UNCHANGED <<conn, device_socket, runs>>
    BY <1>1 DEF SockStart
  <2>2. \A s \in Runs : s # r => sock_pc'[s] \notin SockActive
    BY <1>0, <1>1 DEF SockStart, SockGoto, OneRun, Ended, SockActive
  <2>3. sock_pc'[r] \in SockActive => sock'[r] = device_socket
    BY <1>1 DEF SockStart, SockGoto, SockActive
  <2> QED
    BY <2>1, <2>2, <2>3 DEF OwnSocket, Sockets
<1>2. CASE SockOuter(r)
  <2>1. UNCHANGED <<conn, device_socket, runs>>
    BY <1>2 DEF SockOuter
  <2>2. \A s \in Runs : sock_pc'[s] \in SockActive =>
           sock_pc[s] \in SockActive /\ sock'[s] = sock[s]
    BY <1>2 DEF SockOuter, SockGoto, SockAt, SockActive
  <2> QED
    BY <2>1, <2>2 DEF OwnSocket
<1>3. CASE SockClose(r)
  <2>1. sock_pc[r] \in SockActive
    BY <1>3 DEF SockClose, SockAt, SockActive
  <2>2. \A s \in Runs : sock_pc'[s] \in SockActive =>
           /\ sock_pc[s] \in SockActive
           /\ sock'[s] \in {INVALID_SOCKET, sock[s]}
    BY <1>3, <2>1 DEF SockClose, SockGoto
  <2>3. /\ sock[r] # INVALID_SOCKET => conn[sock[r]] \in {0, runs}
        /\ device_socket \in {INVALID_SOCKET, sock[r]}
    BY <2>1 DEF OwnSocket
  <2> QED
    BY <1>3, <2>2, <2>3, OwnClose DEF SockClose
<1>4. CASE SockInner(r) \/ SockRecv(r) \/ SockPut(r) \/ SockCheck(r)
  <2>1. UNCHANGED <<conn, device_socket, runs, sock>>
    BY <1>4 DEF SockInner, SockRecv, SockPut, SockCheck
  <2>2. sock_pc[r] \in SockActive
    BY <1>4 DEF SockInner, SockRecv, SockPut, SockCheck, SockAt, SockActive
  <2>3. \E pc : SockGoto(r, pc)
    BY SockMoves
  <2> QED
    BY <2>1, <2>2, <2>3, OwnKept DEF SockGoto
<1> QED
  BY <1>1, <1>2, <1>3, <1>4 DEF SockThread

\* A step of framer_thread, which closes device_socket after an error.
LEMMA OwnFramerThread ==
  ASSUME OwnInv, NEW r \in Runs, FramerThread(r)
  PROVE  OwnSocket'
<1> USE DEF OwnInv, TypeInv, TypeOK, ThreadType, AppType, NetType, MngrType
<1>1. CASE FramerCloseSocket(r)
  BY <1>1, OwnClose DEF FramerCloseSocket, CloseDeviceSocket, OwnSocket,
     Sockets
<1>2. CASE UNCHANGED <<conn, device_socket, runs, sock, sock_pc>>
  BY <1>2, OwnKept
<1> QED
  BY <1>1, <1>2 DEF FramerThread, FramerStart, FramerLoop, FramerGet,
     FramerFrame, FramerLimit, FramerErrorCheck, FramerRunOff, FramerEmpty,
     FramerExit, FramerStopEnter, FramerIdle

\* The latest run owns the device's connection after every step.
LEMMA OwnStep ==
  ASSUME ClientWaits, OwnInv, [Next]_vars
  PROVE  OwnInv'
<1>1. TypeInv'
  BY TypeStep DEF OwnInv
<1>2. OneRun'
  BY OneRunStep DEF OwnInv
<1>3. OwnSocket'
  <2>1. CASE UNCHANGED vars
    BY <2>1, OwnKept DEF OwnInv
  <2> QED
    BY <2>1, OwnApplication, OwnSockThread, OwnFramerThread DEF Next
<1> QED
  BY <1>1, <1>2, <1>3 DEF OwnInv

\* One step closes nothing but the latest run's connection.
LEMMA ClosesOwnStep ==
  ASSUME OwnInv, Next
  PROVE  \A h \in Handles : conn'[h] = 0 => conn[h] \in {0, runs}
<1> USE DEF OwnInv, TypeInv, TypeOK, ThreadType, AppType, NetType, MngrType
<1>1. CASE UNCHANGED conn
  BY <1>1
<1>2. CASE RunConnect
  BY <1>2 DEF RunConnect
<1>3. CASE RunNotConnected
  BY <1>3 DEF RunNotConnected
<1>4. CASE StopClose
  BY <1>4 DEF StopClose, CloseDeviceSocket, OwnSocket
<1>5. CASE Application
  BY <1>1, <1>2, <1>3, <1>4, <1>5 DEF Application, InCall, InitializeOk,
     InitializeFails, RunRefused, RunFramer, RunStatus, Stop, Terminate,
     CallStop, StopEnter, StopRun, Free, ResetQueue, ResetRecv, ResetFrame
<1>6. CASE Reader \/ Device
  BY <1>1, <1>6 DEF Reader, GetData, SetPause, Device, DeviceSend,
     DeviceClose
<1>7. ASSUME NEW r \in Runs, SockThread(r), NEW h \in Handles, conn'[h] = 0
      PROVE  conn[h] \in {0, runs}
  <2>1. CASE SockClose(r)
    <3>1. sock_pc[r] \in SockActive
      BY <2>1 DEF SockClose, SockAt, SockActive
    <3> QED
      BY <1>7, <2>1, <3>1 DEF SockClose, OwnSocket
  <2> QED
    BY <1>1, <1>7, <2>1 DEF SockThread, SockStart, SockOuter, SockInner,
       SockRecv, SockPut, SockCheck
<1>8. ASSUME NEW r \in Runs, FramerThread(r), NEW h \in Handles, conn'[h] = 0
      PROVE  conn[h] \in {0, runs}
  <2>1. CASE FramerCloseSocket(r)
    BY <1>8, <2>1 DEF FramerCloseSocket, CloseDeviceSocket, OwnSocket
  <2> QED
    BY <1>1, <1>8, <2>1 DEF FramerThread, FramerStart, FramerLoop,
       FramerGet, FramerFrame, FramerLimit, FramerErrorCheck, FramerRunOff,
       FramerEmpty, FramerExit, FramerStopEnter, FramerIdle
<1> QED
  BY <1>5, <1>6, <1>7, <1>8 DEF Next

\* However many threads close the socket, and however late: as long as the
\* application waits for the threads of a run, no closesocket() hits a handle
\* that winsock has given to somebody else.
THEOREM SocketsClosedByOwner == ClientWaits /\ Spec => ClosesOwn
<1>1. Init => OwnInv
  BY TypeInit, OwnInit DEF OwnInv
<1>2. ClientWaits /\ OwnInv /\ [Next]_vars => OwnInv'
  BY OwnStep
<1>3. OwnInv /\ [Next]_vars =>
         [\A h \in Handles : conn'[h] = 0 => conn[h] \in {0, runs}]_vars
  BY ClosesOwnStep
<1>4. CASE ClientWaits
  BY <1>1, <1>2, <1>3, <1>4, PTL DEF Spec, ClosesOwn
<1> QED
  BY <1>4

-----------------------------------------------------------------------------
\* While a thread of a run lives no other run is started: nobody opens a
\* socket, and the threads are moved by their own steps only.
LEMMA NoNewRun ==
  ASSUME ClientWaits, TypeInv, Next, ~ThreadsEnded
  PROVE  /\ device_socket' \in {device_socket, INVALID_SOCKET}
         /\ \A r \in Runs :
               /\ sock_pc'[r] = sock_pc[r] \/ SockThread(r)
               /\ \/ framer_pc'[r] = framer_pc[r] \/ FramerThread(r)
                  \/ framer_pc[r] = "none"
<1> USE DEF TypeInv, TypeOK, ThreadType, AppType
<1>1. CASE RunConnect
  BY <1>1 DEF RunConnect, MayRun
<1>2. CASE RunFramer
  <2>1. framer_pc[runs] = "none"
    BY <1>2 DEF RunFramer, Carried
  <2> QED
    BY <1>2, <2>1 DEF RunFramer
<1>3. CASE StopClose
  BY <1>3 DEF StopClose, CloseDeviceSocket
<1>4. CASE UNCHANGED <<device_socket, sock_pc, framer_pc>>
  BY <1>4
<1>5. CASE Application
  BY <1>1, <1>2, <1>3, <1>4, <1>5 DEF Application, InCall, InitializeOk,
     InitializeFails, RunRefused, RunNotConnected, RunStatus, Stop,
     Terminate, CallStop, StopEnter, StopRun, Free, ResetQueue, ResetRecv,
     ResetFrame
<1>6. CASE Reader \/ Device
  BY <1>4, <1>6 DEF Reader, GetData, SetPause, Device, DeviceSend,
     DeviceClose
<1>7. ASSUME NEW s \in Runs, SockThread(s)
      PROVE  /\ device_socket' \in {device_socket, INVALID_SOCKET}
             /\ \A r \in Runs : r # s => sock_pc'[r] = sock_pc[r]
             /\ UNCHANGED framer_pc
  <2>1. device_socket' \in {device_socket, INVALID_SOCKET}
    BY <1>7 DEF SockThread, SockStart, SockOuter, SockInner, SockRecv,
       SockPut, SockCheck, SockClose
  <2> QED
    BY <1>7, <2>1, SockMoves DEF SockGoto
<1>8. ASSUME NEW s \in Runs, FramerThread(s)
      PROVE  /\ device_socket' \in {device_socket, INVALID_SOCKET}
             /\ \A r \in Runs : r # s => framer_pc'[r] = framer_pc[r]
             /\ UNCHANGED sock_pc
  <2>1. device_socket' \in {device_socket, INVALID_SOCKET}
    BY <1>8 DEF FramerThread, FramerStart, FramerLoop, FramerGet,
       FramerFrame, FramerLimit, FramerErrorCheck, FramerRunOff,
       FramerCloseSocket, CloseDeviceSocket, FramerEmpty, FramerExit,
       FramerStopEnter, FramerIdle
  <2> QED
    BY <1>8, <2>1, FramerMoves DEF FramerGoto
<1> QED
  BY <1>4, <1>5, <1>6, <1>7, <1>8 DEF Next

\* When device_socket is closed, so is the connection socket_loop_thread
\* works on: recv() and select() fail.
LEMMA ClosedIsDead ==
  ASSUME OwnInv, device_socket = INVALID_SOCKET,
         NEW r \in Runs, r = runs, sock_pc[r] \in SockActive
  PROVE  Dead(sock[r])
<1>1. sock[r] \in Handles \cup {INVALID_SOCKET}
  BY DEF OwnInv, TypeInv, TypeOK, ThreadType, Sockets
<1>2. \A h \in Handles : conn[h] # runs
  BY ConstantsAssumption DEF OwnInv, OwnSocket
<1>3. sock[r] # INVALID_SOCKET => conn[sock[r]] \in {0, runs}
  BY DEF OwnInv, OwnSocket
<1> QED
  BY <1>1, <1>2, <1>3 DEF Dead, Conn

\* So each of its steps takes socket_loop_thread nearer to its end.
LEMMA SockEnds ==
  ASSUME OwnInv, device_socket = INVALID_SOCKET, NEW r \in Runs, SockThread(r)
  PROVE  SockSteps[sock_pc'[r]] < SockSteps[sock_pc[r]]
<1>1. sock_pc \in [Runs -> SockPoints]
  BY DEF OwnInv, TypeInv, TypeOK, ThreadType
<1>2. r = runs
  BY SockMoves, OneRunThread DEF OwnInv, SockActive, Ended
<1>3. sock_pc[r] \in SockActive => ~HasData(sock[r]) /\ ~HasEnded(sock[r])
                                   /\ Dead(sock[r])
  BY <1>2, ClosedIsDead DEF HasData, HasEnded, Dead
<1>4. CASE SockStart(r)
  BY <1>1, <1>4 DEF SockStart, SockAt, SockGoto, SockSteps
<1>5. CASE SockOuter(r)
  BY <1>1, <1>3, <1>5 DEF SockOuter, SockAt, SockGoto, SockSteps, SockActive
<1>6. CASE SockInner(r)
  BY <1>1, <1>6 DEF SockInner, SockAt, SockGoto, SockSteps
<1>7. CASE SockRecv(r)
  <2>1. sock_pc[r] = "recv" /\ sock_pc[r] \in SockActive
    BY <1>7 DEF SockRecv, SockAt, SockActive
  <2>2. sock_pc'[r] = "close"
    BY <1>1, <1>3, <1>7, <2>1 DEF SockRecv, SockGoto
  <2> QED
    BY <2>1, <2>2 DEF SockSteps
<1>8. CASE SockPut(r) \/ SockCheck(r)
  BY <1>1, <1>8 DEF SockPut, SockCheck, SockAt, SockGoto, SockSteps
<1>9. CASE SockClose(r)
  BY <1>1, <1>9 DEF SockClose, SockAt, SockGoto, SockSteps
<1> QED
  BY <1>4, <1>5, <1>6, <1>7, <1>8, <1>9 DEF SockThread

\* Whoever closes the socket, and wherever that finds the receive loop:
\* socket_loop_thread is through after at most six steps of its own.
LEMMA ReceivingEnds ==
  ASSUME ClientWaits, OwnInv, Next, NEW r \in Runs
  PROVE  SocketLoopRunsOut(r)
<1> SUFFICES ASSUME sock_pc[r] \notin Ended, device_socket = INVALID_SOCKET
             PROVE  /\ device_socket' = INVALID_SOCKET
                    /\ \/ sock_pc'[r] = sock_pc[r]
                       \/ SockSteps[sock_pc'[r]] < SockSteps[sock_pc[r]]
  BY DEF SocketLoopRunsOut
<1>1. TypeInv /\ ~ThreadsEnded
  BY DEF OwnInv, ThreadsEnded
<1>2. /\ device_socket' = INVALID_SOCKET
      /\ sock_pc'[r] = sock_pc[r] \/ SockThread(r)
  BY <1>1, NoNewRun
<1> QED
  BY <1>2, SockEnds

\* What SQGet takes out of recv_queue is one chunk.
LEMMA QueueTail ==
  ASSUME TypeInv, recv_queue # <<>>, recv_queue' = Tail(recv_queue)
  PROVE  Len(recv_queue') = Len(recv_queue) - 1
BY DEF TypeInv, TypeOK, QueueType

\* When receiving is over nobody puts a chunk into recv_queue.
LEMMA QueueDrains ==
  ASSUME TypeInv, ReceivingOver, Next
  PROVE  Len(recv_queue') <= Len(recv_queue)
<1>1. Len(recv_queue) \in Nat
  BY DEF TypeInv, TypeOK, QueueType
<1>2. CASE UNCHANGED recv_queue
  BY <1>1, <1>2
<1>3. CASE recv_queue # <<>> /\ recv_queue' = Tail(recv_queue)
  BY <1>1, <1>3, QueueTail
<1>4. CASE Application
  BY <1>2, <1>3, <1>4 DEF Application, InCall, InitializeOk,
     InitializeFails, RunRefused, RunNotConnected, RunConnect, RunFramer,
     RunStatus, Stop, Terminate, CallStop, StopEnter, StopRun, StopClose,
     Free, ResetQueue, ResetRecv, ResetFrame
<1>5. CASE Reader \/ Device
  BY <1>2, <1>5 DEF Reader, GetData, SetPause, Device, DeviceSend,
     DeviceClose
<1>6. ASSUME NEW r \in Runs PROVE ~SockThread(r)
  BY SockMoves DEF ReceivingOver, SockActive, Ended
<1>7. ASSUME NEW r \in Runs, FramerThread(r)
      PROVE  Len(recv_queue') <= Len(recv_queue)
  BY <1>2, <1>3, <1>7 DEF FramerThread, FramerStart, FramerLoop, FramerGet,
     FramerFrame, FramerLimit, FramerErrorCheck, FramerRunOff,
     FramerCloseSocket, FramerEmpty, FramerExit, FramerStopEnter, FramerIdle
<1> QED
  BY <1>4, <1>5, <1>6, <1>7 DEF Next

\* With the socket closed each step of framer_thread takes it nearer to its
\* end, or a chunk out of recv_queue.
LEMMA FramerEnds ==
  ASSUME TypeInv, ReceivingOver, NEW r \in Runs, FramerThread(r)
  PROVE  FramerWork(r)' < FramerWork(r)
<1>1. /\ framer_pc \in [Runs -> FramerPoints]
      /\ framer_pc[r] \in FramerPoints
      /\ Len(recv_queue) \in Nat
  BY DEF TypeInv, TypeOK, ThreadType, QueueType
<1>2. FramerSteps[framer_pc[r]] \in Nat
  BY <1>1 DEF FramerPoints, FramerSteps
<1>3. CASE /\ UNCHANGED recv_queue
           /\ FramerSteps[framer_pc'[r]] \in Nat
           /\ FramerSteps[framer_pc'[r]] < FramerSteps[framer_pc[r]]
  BY <1>1, <1>2, <1>3 DEF FramerWork
<1>4. CASE FramerStart(r) \/ FramerLoop(r)
  <2>1. UNCHANGED recv_queue
    BY <1>4 DEF FramerStart, FramerLoop
  <2>2. \/ framer_pc[r] = "start" /\ framer_pc'[r] = "loop"
        \/ framer_pc[r] = "loop" /\ framer_pc'[r] \in {"exit", "get"}
    BY <1>1, <1>4 DEF FramerStart, FramerLoop, FramerAt, FramerGoto
  <2> QED
    BY <1>3, <2>1, <2>2 DEF FramerSteps
<1>5. CASE FramerGet(r)
  <2>1. framer_pc[r] = "get"
    BY <1>5 DEF FramerGet, FramerAt
  <2>2. CASE recv_queue = <<>>
    <3>1. UNCHANGED recv_queue /\ framer_pc'[r] = "empty"
      BY <1>1, <1>5, <2>2 DEF FramerGet, FramerGoto
    <3> QED
      BY <1>3, <2>1, <3>1 DEF FramerSteps
  <2>3. CASE recv_queue # <<>>
    <3>1. recv_queue' = Tail(recv_queue) /\ framer_pc'[r] = "frame"
      BY <1>1, <1>5, <2>3 DEF FramerGet, FramerGoto
    <3>2. Len(recv_queue') = Len(recv_queue) - 1
      BY <2>3, <3>1, QueueTail
    <3>3. FramerSteps[framer_pc[r]] = 6 /\ FramerSteps[framer_pc'[r]] = 12
      BY <2>1, <3>1 DEF FramerSteps
    <3> QED
      BY <1>1, <3>2, <3>3 DEF FramerWork
  <2> QED
    BY <2>2, <2>3
<1>6. CASE FramerFrame(r) \/ FramerLimit(r) \/ FramerErrorCheck(r)
  <2>1. UNCHANGED recv_queue
    BY <1>6 DEF FramerFrame, FramerLimit, FramerErrorCheck
  <2>2. \/ framer_pc[r] = "frame" /\ framer_pc'[r] \in {"limit", "error"}
        \/ framer_pc[r] = "limit" /\ framer_pc'[r] = "error"
        \/ framer_pc[r] = "error" /\ framer_pc'[r] \in {"kill", "loop"}
    BY <1>1, <1>6 DEF FramerFrame, FramerLimit, FramerErrorCheck, FramerAt,
       FramerGoto
  <2> QED
    BY <1>3, <2>1, <2>2 DEF FramerSteps
<1>7. CASE FramerRunOff(r) \/ FramerCloseSocket(r)
  <2>1. UNCHANGED recv_queue
    BY <1>7 DEF FramerRunOff, FramerCloseSocket
  <2>2. \/ framer_pc[r] = "kill" /\ framer_pc'[r] = "kill_close"
        \/ framer_pc[r] = "kill_close" /\ framer_pc'[r] = "loop"
        \/ framer_pc[r] = "stop_run" /\ framer_pc'[r] = "stop_close"
        \/ framer_pc[r] = "stop_close" /\ framer_pc'[r] = "done"
    BY <1>1, <1>7 DEF FramerRunOff, FramerCloseSocket, FramerAt, FramerGoto
  <2> QED
    BY <1>3, <2>1, <2>2 DEF FramerSteps
<1>8. CASE FramerEmpty(r)
  <2>1. UNCHANGED recv_queue
    BY <1>8 DEF FramerEmpty
  <2>2. framer_pc[r] = "empty" /\ framer_pc'[r] = "exit"
    BY <1>1, <1>8 DEF FramerEmpty, FramerAt, FramerGoto, ReceivingOver
  <2> QED
    BY <1>3, <2>1, <2>2 DEF FramerSteps
<1>9. CASE FramerExit(r) \/ FramerStopEnter(r) \/ FramerIdle(r)
  <2>1. UNCHANGED recv_queue
    BY <1>9 DEF FramerExit, FramerStopEnter, FramerIdle
  <2>2. \/ /\ framer_pc[r] = "exit"
           /\ framer_pc'[r] \in {"stop_enter", "stop_run", "idle", "done"}
        \/ framer_pc[r] = "stop_enter" /\ framer_pc'[r] = "stop_run"
        \/ framer_pc[r] = "idle" /\ framer_pc'[r] = "done"
    BY <1>1, <1>9 DEF FramerExit, FramerStopEnter, FramerIdle, StopEntry,
       FramerAt, FramerGoto
  <2> QED
    BY <1>3, <2>1, <2>2 DEF FramerSteps
<1> QED
  BY <1>4, <1>5, <1>6, <1>7, <1>8, <1>9 DEF FramerThread

\* When the connection is closed and receiving is over, framer_thread has a
\* bounded number of steps left, for any number of chunks that are queued.
LEMMA FramingEnds ==
  ASSUME ClientWaits, OwnInv, Next, NEW r \in Runs
  PROVE  FramerRunsOut(r)
<1> SUFFICES ASSUME framer_pc[r] \notin Ended, ReceivingOver
             PROVE  /\ ReceivingOver'
                    /\ FramerWork(r)' <= FramerWork(r)
                    /\ framer_pc'[r] # framer_pc[r] =>
                          FramerWork(r)' < FramerWork(r)
  BY DEF FramerRunsOut
<1>1. TypeInv /\ ~ThreadsEnded
  BY DEF OwnInv, ThreadsEnded
<1>2. ReceivingOver'
  <2>1. \A s \in Runs : ~SockThread(s)
    BY SockMoves DEF ReceivingOver, SockActive, Ended
  <2> QED
    BY <1>1, <2>1, NoNewRun DEF ReceivingOver
<1>3. CASE FramerThread(r)
  <2>1. FramerWork(r)' < FramerWork(r)
    BY <1>1, <1>3, FramerEnds
  <2>2. FramerWork(r) \in Int /\ FramerWork(r)' \in Int
    <3>1. TypeInv /\ TypeInv'
      BY <1>1, TypeStep
    <3>2. /\ Len(recv_queue) \in Nat /\ Len(recv_queue') \in Nat
          /\ framer_pc[r] \in FramerPoints /\ framer_pc'[r] \in FramerPoints
      BY <3>1 DEF TypeInv, TypeOK, QueueType, ThreadType
    <3>3. /\ FramerSteps[framer_pc[r]] \in Nat
          /\ FramerSteps[framer_pc'[r]] \in Nat
      BY <3>2 DEF FramerPoints, FramerSteps
    <3> QED
      BY <3>2, <3>3 DEF FramerWork
  <2> QED
    BY <1>2, <2>1, <2>2
<1>4. CASE ~FramerThread(r)
  <2>1. framer_pc'[r] = framer_pc[r]
    BY <1>1, <1>4, NoNewRun DEF Ended
  <2>2. Len(recv_queue') <= Len(recv_queue)
    BY <1>1, QueueDrains
  <2>3. Len(recv_queue) \in Nat /\ Len(recv_queue') \in Nat
    BY <1>1, TypeStep DEF TypeInv, TypeOK, QueueType
  <2>4. FramerSteps[framer_pc[r]] \in Nat
    BY <1>1 DEF TypeInv, TypeOK, ThreadType, FramerPoints, FramerSteps
  <2> QED
    BY <1>2, <2>1, <2>2, <2>3, <2>4 DEF FramerWork
<1> QED
  BY <1>3, <1>4

\* A closed connection ends both threads, for any number of runs and chunks:
\* the receive loop in at most six steps, framer_thread in those it takes to
\* frame what is queued.
THEOREM ThreadsEnd == ClientWaits /\ Spec => ThreadsRunOut
<1>1. Init => OwnInv
  BY TypeInit, OwnInit DEF OwnInv
<1>2. ClientWaits /\ OwnInv /\ [Next]_vars => OwnInv'
  BY OwnStep
<1>3. ClientWaits /\ OwnInv /\ [Next]_vars =>
         [\A r \in Runs : SocketLoopRunsOut(r) /\ FramerRunsOut(r)]_vars
  BY ReceivingEnds, FramingEnds
<1>4. CASE ClientWaits
  BY <1>1, <1>2, <1>3, <1>4, PTL DEF Spec, ThreadsRunOut
<1> QED
  BY <1>4

-----------------------------------------------------------------------------
\* SIDAQ_STOPPING is only reached after a SiDaqRun.
EverRun ==
  runs = 0 => status \notin {"SIDAQ_RUN", "SIDAQ_STOPPING"}
              /\ main \notin {"run_framer", "run_status", "stop_enter"}

\* Who sets SIDAQ_STOPPING closes the socket before it is done.
CloseComing ==
  status = "SIDAQ_STOPPING" =>
     \/ device_socket = INVALID_SOCKET
     \/ main \in {"stop_run", "stop_close"}
     \/ \E r \in Runs : framer_pc[r] \in {"stop_run", "stop_close"}

StoppingInv == EverRun /\ CloseComing

\* A step of the application thread, the reader or the device.
LEMMA StoppingApplication ==
  ASSUME TypeInv, StoppingInv, Application \/ Reader \/ Device
  PROVE  StoppingInv'
<1> USE DEF StoppingInv, EverRun, CloseComing, TypeInv, TypeOK, ThreadType,
            AppType
<1>1. CASE InitializeOk \/ InitializeFails \/ RunRefused \/ RunNotConnected
  BY <1>1 DEF InitializeOk, InitializeFails, RunRefused, RunNotConnected,
     MayRun
<1>2. CASE RunConnect
  BY <1>2 DEF RunConnect, MayRun
<1>3. CASE RunFramer
  <2>1. framer_pc[runs] = "none"
    BY <1>3 DEF RunFramer, Carried
  <2> QED
    BY <1>3, <2>1 DEF RunFramer
<1>4. CASE RunStatus \/ Stop \/ Terminate
  BY <1>4 DEF RunStatus, Stop, Terminate, CallStop, StopEntry, Stoppable
<1>5. CASE StopEnter \/ StopRun \/ StopClose \/ Free
  BY <1>5 DEF StopEnter, StopRun, StopClose, CloseDeviceSocket, Free
<1>6. CASE ResetQueue \/ ResetRecv \/ ResetFrame
  BY <1>6 DEF ResetQueue, ResetRecv, ResetFrame
<1>7. CASE Reader \/ Device
  BY <1>7 DEF Reader, GetData, SetPause, Device, DeviceSend, DeviceClose
<1> QED
  BY <1>1, <1>2, <1>3, <1>4, <1>5, <1>6, <1>7 DEF Application, InCall

\* A step of one of the two threads.
LEMMA StoppingThreads ==
  ASSUME TypeInv, StoppingInv, NEW r \in Runs,
         SockThread(r) \/ FramerThread(r)
  PROVE  StoppingInv'
<1> USE DEF StoppingInv, EverRun, CloseComing, TypeInv, TypeOK, ThreadType,
            AppType
<1>1. runs # 0
  BY SockMoves, FramerMoves DEF Carried, SockActive, Ended
<1>2. CASE SockThread(r)
  BY <1>1, <1>2 DEF SockThread, SockStart, SockOuter, SockInner, SockRecv,
     SockPut, SockCheck, SockClose
<1>3. CASE FramerStart(r) \/ FramerLoop(r) \/ FramerGet(r) \/ FramerFrame(r)
           \/ FramerLimit(r)
  BY <1>1, <1>3 DEF FramerStart, FramerLoop, FramerGet, FramerFrame,
     FramerLimit, FramerAt, FramerGoto
<1>4. CASE FramerErrorCheck(r) \/ FramerEmpty(r)
  BY <1>1, <1>4 DEF FramerErrorCheck, FramerEmpty, SetError, FramerAt,
     FramerGoto
<1>5. CASE FramerRunOff(r) \/ FramerCloseSocket(r)
  BY <1>1, <1>5 DEF FramerRunOff, FramerCloseSocket, CloseDeviceSocket,
     FramerAt, FramerGoto
<1>6. CASE FramerExit(r) \/ FramerStopEnter(r) \/ FramerIdle(r)
  BY <1>1, <1>6 DEF FramerExit, FramerStopEnter, FramerIdle, FramerAt,
     FramerGoto
<1> QED
  BY <1>2, <1>3, <1>4, <1>5, <1>6 DEF FramerThread

\* When a run has been stopped and its threads have ended, its connection to
\* the device is closed, whoever of the three threads closed it.
THEOREM ConnectionClosed == ClientWaits /\ Spec => []StoppingClosed
<1>1. Init => OwnInv /\ StoppingInv
  BY TypeInit, OwnInit DEF OwnInv, Init, StoppingInv, EverRun, CloseComing
<1>2. ClientWaits /\ OwnInv /\ StoppingInv /\ [Next]_vars =>
         OwnInv' /\ StoppingInv'
  <2> SUFFICES ASSUME ClientWaits, OwnInv, StoppingInv, [Next]_vars
               PROVE  OwnInv' /\ StoppingInv'
    OBVIOUS
  <2>1. OwnInv'
    BY OwnStep
  <2>2. CASE UNCHANGED vars
    BY <2>1, <2>2 DEF StoppingInv, EverRun, CloseComing
  <2> QED
    BY <2>1, <2>2, StoppingApplication, StoppingThreads DEF Next, OwnInv
<1>3. OwnInv /\ StoppingInv => StoppingClosed
  <2> SUFFICES ASSUME OwnInv, StoppingInv, status = "SIDAQ_STOPPING",
                      main = "idle", ThreadsEnded
               PROVE  device_socket = INVALID_SOCKET /\ ~Connected(runs)
    BY DEF StoppingClosed
  <2>1. device_socket = INVALID_SOCKET
    BY DEF StoppingInv, CloseComing, ThreadsEnded, Ended
  <2>2. runs # 0
    BY DEF StoppingInv, EverRun
  <2> QED
    BY <2>1, <2>2 DEF OwnInv, OwnSocket, Connected
<1>4. CASE ClientWaits
  BY <1>1, <1>2, <1>3, <1>4, PTL DEF Spec
<1> QED
  BY <1>4

-----------------------------------------------------------------------------
FramerBusy == {"get", "frame", "limit", "error", "kill", "kill_close", "empty"}

\* Data is only left in the framer's buffer while the status keeps
\* framer_thread in its loop and framer_thread is there.
FlushComing ==
  ~was_reset =>
     /\ status # "SIDAQ_RESET" /\ main \notin {"reset_recv", "reset_frame"}
     /\ \A r \in Runs : framer_pc[r] \in FramerBusy => status # "SIDAQ_IDLE"
     /\ rest # <<>> =>
           /\ status # "SIDAQ_IDLE"
           /\ \E r \in Runs : framer_pc[r] \in FramerBusy \cup {"loop"}

\* A step of the application thread, the reader or the device.
LEMMA FlushApplication ==
  ASSUME ClientWaits, TypeInv, FlushComing, Application \/ Reader \/ Device
  PROVE  FlushComing'
<1> USE DEF FlushComing, TypeInv, TypeOK, ThreadType, AppType
<1>1. CASE InitializeOk \/ InitializeFails \/ RunRefused \/ RunNotConnected
  BY <1>1 DEF InitializeOk, InitializeFails, RunRefused, RunNotConnected,
     MayRun
<1>2. CASE RunConnect
  BY <1>2 DEF RunConnect, MayRun
<1>3. CASE RunFramer
  <2>1. framer_pc[runs] = "none"
    BY <1>3 DEF RunFramer, Carried
  <2>2. /\ framer_pc' = [framer_pc EXCEPT ![runs] = "start"]
        /\ UNCHANGED <<status, rest, was_reset>> /\ main' = "run_status"
    BY <1>3 DEF RunFramer
  <2>3. \A r \in Runs : framer_pc[r] \in FramerBusy \cup {"loop"} =>
           framer_pc'[r] = framer_pc[r]
    BY <2>1, <2>2 DEF FramerBusy
  <2>4. \A r \in Runs : framer_pc'[r] \in FramerBusy =>
           framer_pc[r] \in FramerBusy
    BY <2>2 DEF FramerBusy
  <2> QED
    BY <2>2, <2>3, <2>4
<1>4. CASE RunStatus \/ Stop \/ Terminate
  BY <1>4 DEF RunStatus, Stop, Terminate, CallStop, StopEntry, Stoppable
<1>5. CASE StopEnter \/ StopRun \/ StopClose \/ Free
  BY <1>5 DEF StopEnter, StopRun, StopClose, Free
<1>6. CASE ResetQueue \/ ResetRecv \/ ResetFrame
  BY <1>6 DEF ResetQueue, ResetRecv, ResetFrame
<1>7. CASE Reader \/ Device
  BY <1>7 DEF Reader, GetData, SetPause, Device, DeviceSend, DeviceClose
<1> QED
  BY <1>1, <1>2, <1>3, <1>4, <1>5, <1>6, <1>7 DEF Application, InCall

\* A step of one of the two threads; SIDAQ_IDLE is set by a framer_thread
\* that has left its loop with an empty buffer.
LEMMA FlushThreads ==
  ASSUME TypeInv, OneRun, FlushComing, NEW r \in Runs,
         SockThread(r) \/ FramerThread(r)
  PROVE  FlushComing'
<1> USE DEF TypeInv, TypeOK, ThreadType, AppType, FramerBusy
<1>1. CASE SockThread(r)
  BY <1>1 DEF FlushComing, SockThread, SockStart, SockOuter, SockInner,
     SockRecv, SockPut, SockCheck, SockClose
<1>2. ASSUME FramerThread(r)
      PROVE  \A s \in Runs : s # r => framer_pc[s] \in Ended
                                      /\ framer_pc'[s] = framer_pc[s]
  BY <1>2, FramerMoves, OneRunThread DEF OneRun, FramerGoto
<1>3. CASE FramerStart(r) \/ FramerLoop(r)
  BY <1>2, <1>3 DEF FlushComing, FramerThread, FramerStart, FramerLoop,
     FramerAt, FramerGoto
<1>4. CASE FramerGet(r) \/ FramerLimit(r)
  BY <1>2, <1>4 DEF FlushComing, FramerThread, FramerGet, FramerLimit,
     FramerAt, FramerGoto
<1>5. CASE FramerFrame(r)
  BY <1>2, <1>5 DEF FlushComing, FramerThread, FramerFrame, FramerAt,
     FramerGoto
<1>6. CASE FramerErrorCheck(r)
  BY <1>2, <1>6 DEF FlushComing, FramerThread, FramerErrorCheck, SetError,
     FramerAt, FramerGoto
<1>7. CASE FramerRunOff(r) \/ FramerCloseSocket(r)
  BY <1>2, <1>7 DEF FlushComing, FramerThread, FramerRunOff,
     FramerCloseSocket, FramerAt, FramerGoto
<1>8. CASE FramerEmpty(r)
  BY <1>2, <1>8 DEF FlushComing, FramerThread, FramerEmpty, FlushRest,
     SetError, FramerAt, FramerGoto
<1>9. CASE FramerExit(r) \/ FramerStopEnter(r) \/ FramerIdle(r)
  BY <1>2, <1>9 DEF FlushComing, FramerThread, FramerExit, FramerStopEnter,
     FramerIdle, StopEntry, Stoppable, FramerAt, FramerGoto, Ended
<1> QED
  BY <1>1, <1>3, <1>4, <1>5, <1>6, <1>7, <1>8, <1>9 DEF FramerThread

\* framer_thread makes the rest of the data the last frame before it ends,
\* unless SiDaqResetQueue took it out of its loop.
THEOREM RestIsFlushed == ClientWaits /\ Spec => []RestFlushed
<1>1. Init => OwnInv /\ FlushComing
  BY TypeInit, OwnInit DEF OwnInv, Init, FlushComing, FramerBusy
<1>2. ClientWaits /\ OwnInv /\ FlushComing /\ [Next]_vars =>
         OwnInv' /\ FlushComing'
  <2> SUFFICES ASSUME ClientWaits, OwnInv, FlushComing, [Next]_vars
               PROVE  OwnInv' /\ FlushComing'
    OBVIOUS
  <2>1. OwnInv'
    BY OwnStep
  <2>2. CASE UNCHANGED vars
    BY <2>1, <2>2 DEF FlushComing
  <2> QED
    BY <2>1, <2>2, FlushApplication, FlushThreads DEF Next, OwnInv
<1>3. FlushComing => RestFlushed
  BY DEF FlushComing, RestFlushed, FramerBusy, Ended
<1>4. CASE ClientWaits
  BY <1>1, <1>2, <1>3, <1>4, PTL DEF Spec
<1> QED
  BY <1>4

-----------------------------------------------------------------------------
\* An exceeded recv_queue_limit that is not reported yet: the chunks that
\* exceed it are still there for framer_thread, which will look at the error
\* behind the next one.
ErrorPending ==
  /\ \A r \in Runs : framer_pc[r] \in {"kill", "kill_close"} => error_flg
  /\ queue_error_code # "NO_ERROR" /\ ~was_reset =>
        \A r \in Runs :
           /\ r = runs
           /\ \/ framer_pc[r] = "none"
              \/ /\ ~error_flg
                 /\ framer_pc[r] \in {"start", "loop", "get", "empty"}
           => recv_queue # <<>>

\* A step of the application thread, the reader or the device.
LEMMA PendingApplication ==
  ASSUME ClientWaits, TypeInv, OneRun, FlushComing, ErrorPending,
         Application \/ Reader \/ Device
  PROVE  ErrorPending'
<1> USE DEF TypeInv, TypeOK, ThreadType, AppType
<1>1. CASE RunConnect
  BY <1>1 DEF RunConnect, ErrorPending, MayRun, ThreadsEnded, Ended
<1>2. CASE RunFramer
  <2>1. framer_pc[runs] = "none"
    BY <1>2 DEF RunFramer, Carried
  <2>2. /\ framer_pc' = [framer_pc EXCEPT ![runs] = "start"]
        /\ UNCHANGED <<queue_error_code, recv_queue, was_reset, runs>>
    BY <1>2 DEF RunFramer
  <2>3. \A r \in Runs : framer_pc'[r] \notin {"kill", "kill_close"}
    BY <2>1, <2>2 DEF OneRun, Ended
  <2>4. queue_error_code # "NO_ERROR" /\ ~was_reset /\ runs \in Runs =>
           recv_queue # <<>>
    BY <2>1 DEF ErrorPending
  <2> QED
    BY <2>2, <2>3, <2>4 DEF ErrorPending
<1>3. CASE ResetQueue \/ ResetRecv
  BY <1>3 DEF ResetQueue, ResetRecv, ErrorPending, FlushComing
<1>4. CASE UNCHANGED <<framer_pc, error_flg, queue_error_code, was_reset,
                       runs, recv_queue>>
  BY <1>4 DEF ErrorPending
<1>5. CASE Application
  BY <1>1, <1>2, <1>3, <1>4, <1>5 DEF Application, InCall, InitializeOk,
     InitializeFails, RunRefused, RunNotConnected, RunStatus, Stop,
     Terminate, CallStop, StopEnter, StopRun, StopClose, Free, ResetFrame
<1>6. CASE Reader \/ Device
  BY <1>4, <1>6 DEF Reader, GetData, SetPause, Device, DeviceSend,
     DeviceClose
<1> QED
  BY <1>5, <1>6

\* A step of socket_loop_thread, which sets the error while what exceeds the
\* limit is in recv_queue.
LEMMA PendingSockThread ==
  ASSUME TypeInv, ErrorPending, NEW r \in Runs, SockThread(r)
  PROVE  ErrorPending'
<1> USE DEF TypeInv, TypeOK, QueueType
<1>1. UNCHANGED <<framer_pc, error_flg, was_reset, runs>>
  BY DEF SockThread, SockStart, SockOuter, SockInner, SockRecv, SockPut,
     SockCheck, SockClose
<1>2. CASE recv_queue' # <<>>
  BY <1>1, <1>2 DEF ErrorPending
<1>3. CASE /\ queue_error_code' \in {queue_error_code, "NO_ERROR"}
           /\ UNCHANGED recv_queue
  BY <1>1, <1>3 DEF ErrorPending
<1>4. CASE SockPut(r)
  <2>1. got[r] \in Chunks \cup {0} /\ recv_queue' = Append(recv_queue, got[r])
    BY <1>4 DEF SockPut, ThreadType
  <2>2. recv_queue \in Seq(Chunks \cup {0})
    OBVIOUS
  <2>3. Len(recv_queue') = Len(recv_queue) + 1 /\ Len(recv_queue) \in Nat
    BY <2>1, <2>2
  <2>4. recv_queue' # <<>>
    BY <2>3
  <2> QED
    BY <1>2, <2>4
<1>5. CASE SockCheck(r)
  <2>1. CASE RecvLimit # 0 /\ Len(recv_queue) > RecvLimit
    <3>1. recv_queue # <<>>
      BY <2>1, ConstantsAssumption
    <3> QED
      BY <1>2, <1>5, <3>1 DEF SockCheck
  <2> QED
    BY <1>3, <1>5, <2>1 DEF SockCheck
<1> QED
  BY <1>3, <1>4, <1>5 DEF SockThread, SockStart, SockOuter, SockInner,
     SockRecv, SockClose

\* A step of framer_thread, which looks at the error behind every chunk.
LEMMA PendingFramerThread ==
  ASSUME TypeInv, OneRun, ErrorPending, NEW r \in Runs, FramerThread(r)
  PROVE  ErrorPending'
<1> USE DEF TypeInv, TypeOK, ThreadType
<1>1. /\ r = runs /\ UNCHANGED <<queue_error_code, was_reset, runs>>
      /\ \A s \in Runs : s # r => framer_pc'[s] \in Ended
  <2>1. r = runs /\ UNCHANGED runs /\ \E pc : FramerGoto(r, pc)
    BY FramerMoves, OneRunThread
  <2>2. UNCHANGED <<queue_error_code, was_reset>>
    BY DEF FramerThread, FramerStart, FramerLoop, FramerGet, FramerFrame,
       FramerLimit, FramerErrorCheck, FramerRunOff, FramerCloseSocket,
       FramerEmpty, FramerExit, FramerStopEnter, FramerIdle
  <2> QED
    BY <2>1, <2>2 DEF OneRun, FramerGoto
<1>2. /\ framer_pc[r] \in {"kill", "kill_close"} => error_flg
      /\ queue_error_code # "NO_ERROR" /\ ~was_reset /\ ~error_flg
         /\ framer_pc[r] \in {"start", "loop", "get", "empty"}
            => recv_queue # <<>>
  BY <1>1 DEF ErrorPending
<1>3. SUFFICES
        /\ framer_pc'[r] \in {"kill", "kill_close"} => error_flg'
        /\ framer_pc'[r] # "none"
        /\ queue_error_code # "NO_ERROR" /\ ~was_reset /\ ~error_flg'
           /\ framer_pc'[r] \in {"start", "loop", "get", "empty"}
              => recv_queue' # <<>>
  BY <1>1 DEF ErrorPending, Ended
<1>4. CASE FramerStart(r) \/ FramerLoop(r)
  BY <1>2, <1>4 DEF FramerStart, FramerLoop, FramerAt, FramerGoto
<1>5. CASE FramerGet(r)
  BY <1>2, <1>5 DEF FramerGet, FramerAt, FramerGoto
<1>6. CASE FramerFrame(r) \/ FramerLimit(r)
  BY <1>6 DEF FramerFrame, FramerLimit, FramerGoto
<1>7. CASE FramerErrorCheck(r)
  BY <1>7 DEF FramerErrorCheck, SetError, FramerGoto
<1>8. CASE FramerRunOff(r) \/ FramerCloseSocket(r)
  BY <1>2, <1>8 DEF FramerRunOff, FramerCloseSocket, FramerAt, FramerGoto
<1>9. CASE FramerEmpty(r)
  BY <1>2, <1>9 DEF FramerEmpty, SetError, FramerAt, FramerGoto
<1>10. CASE FramerExit(r) \/ FramerStopEnter(r) \/ FramerIdle(r)
  BY <1>10 DEF FramerExit, FramerStopEnter, FramerIdle, StopEntry,
     FramerGoto
<1> QED
  BY <1>4, <1>5, <1>6, <1>7, <1>8, <1>9, <1>10 DEF FramerThread

\* While an error of the receive queue is pending, a framer_thread that is
\* framing finds a chunk, and the error behind it.
LEMMA KeptFraming ==
  ASSUME TypeInv, OneRun, ErrorPending, NEW r \in Runs, FramerThread(r),
         queue_error_code # "NO_ERROR", ~error_flg, ~was_reset,
         framer_pc[r] \in Framing
  PROVE  framer_pc'[r] \in Framing \/ error_flg'
<1> USE DEF TypeInv, TypeOK, ThreadType, Framing
<1>1. framer_pc[r] = "get" => recv_queue # <<>>
  BY FramerMoves, OneRunThread DEF ErrorPending
<1>2. CASE FramerGet(r)
  BY <1>1, <1>2 DEF FramerGet, FramerAt, FramerGoto
<1>3. CASE FramerFrame(r) \/ FramerLimit(r)
  BY <1>3 DEF FramerFrame, FramerLimit, FramerGoto
<1>4. CASE FramerErrorCheck(r)
  BY <1>4 DEF FramerErrorCheck, SetError
<1>5. FramerGet(r) \/ FramerFrame(r) \/ FramerLimit(r) \/ FramerErrorCheck(r)
  BY DEF FramerThread, FramerStart, FramerLoop, FramerRunOff,
     FramerCloseSocket, FramerEmpty, FramerExit, FramerStopEnter, FramerIdle,
     FramerAt
<1> QED
  BY <1>2, <1>3, <1>4, <1>5

\* An exceeded recv_queue_limit is reported by a framer_thread that is
\* framing, unless SiDaqResetQueue takes the chunks away.
THEOREM LimitIsReported == ClientWaits /\ Spec => QueueErrorKept
<1>1. Init => OwnInv /\ FlushComing /\ ErrorPending
  BY TypeInit, OwnInit
  DEF OwnInv, Init, FlushComing, FramerBusy, ErrorPending
<1>2. ClientWaits /\ OwnInv /\ FlushComing /\ ErrorPending /\ [Next]_vars =>
         OwnInv' /\ FlushComing' /\ ErrorPending'
  <2> SUFFICES ASSUME ClientWaits, OwnInv, FlushComing, ErrorPending,
                      [Next]_vars
               PROVE  OwnInv' /\ FlushComing' /\ ErrorPending'
    OBVIOUS
  <2>1. OwnInv' /\ TypeInv /\ OneRun
    BY OwnStep DEF OwnInv
  <2>2. CASE UNCHANGED vars
    BY <2>1, <2>2 DEF FlushComing, ErrorPending
  <2>3. CASE Application \/ Reader \/ Device
    BY <2>1, <2>3, FlushApplication, PendingApplication
  <2>4. ASSUME NEW r \in Runs, SockThread(r) \/ FramerThread(r)
        PROVE  FlushComing' /\ ErrorPending'
    BY <2>1, <2>4, FlushThreads, PendingSockThread, PendingFramerThread
  <2> QED
    BY <2>1, <2>2, <2>3, <2>4 DEF Next
<1>3. ClientWaits /\ OwnInv /\ FlushComing /\ ErrorPending /\ [Next]_vars =>
         [\A r \in Runs :
            /\ queue_error_code # "NO_ERROR" /\ ~error_flg /\ ~was_reset
            /\ framer_pc[r] \in Framing
            => framer_pc'[r] \in Framing \/ error_flg']_vars
  <2> SUFFICES ASSUME ClientWaits, OwnInv, ErrorPending, Next,
                      NEW r \in Runs, queue_error_code # "NO_ERROR",
                      ~error_flg, ~was_reset, framer_pc[r] \in Framing
               PROVE  framer_pc'[r] \in Framing \/ error_flg'
    OBVIOUS
  <2>1. TypeInv /\ OneRun /\ ~ThreadsEnded
    BY DEF OwnInv, ThreadsEnded, Ended, Framing
  <2>2. framer_pc'[r] = framer_pc[r] \/ FramerThread(r)
    BY <2>1, NoNewRun DEF Framing
  <2> QED
    BY <2>1, <2>2, KeptFraming
<1>4. CASE ClientWaits
  BY <1>1, <1>2, <1>3, <1>4, PTL DEF Spec, QueueErrorKept
<1> QED
  BY <1>4

-----------------------------------------------------------------------------
\* The stages the chunks pass, the first to reach the reader first: handed
\* out, framed, the rest of the buffer, in the hands of framer_thread,
\* received, in the hands of socket_loop_thread, and still on the way.
Pipe(O, E, R, H, Q, G, W) ==
  /\ Before(O, E \cup R \cup H \cup Q \cup G \cup W)
  /\ Before(E, R \cup H \cup Q \cup G \cup W)
  /\ Before(R, H \cup Q \cup G \cup W)
  /\ Before(H, Q \cup G \cup W)
  /\ Before(Q, G \cup W)
  /\ Before(G, W)

Hands  == {hand[r] : r \in Runs} \ {0}
Gots   == {got[r] : r \in Runs} \ {0}
Coming == UNION {Elems(wire[r]) : r \in Runs \cap {runs}}

FramesInOrder(fs) ==
  /\ \A i \in DOMAIN fs : Increasing(fs[i])
  /\ \A i, j \in DOMAIN fs : i < j => Before(Elems(fs[i]), Elems(fs[j]))

StageOrder ==
  /\ Increasing(recv_queue) /\ Increasing(rest) /\ FramesInOrder(event_frame)
  /\ Pipe(out, FrameElems(event_frame), Elems(rest), Hands,
          Elems(recv_queue), Gots, Coming)

\* Each connection delivers in order; what the device sends next is later.
WireOrder ==
  /\ \A r \in Runs : /\ Increasing(wire[r])
                     /\ r > runs => wire[r] = <<>>
                     /\ \A x \in Elems(wire[r]) : x <= sent
  /\ \A x \in recvd : x <= sent

OrderInv == OwnInv /\ NoLoss /\ StageOrder /\ WireOrder

-----------------------------------------------------------------------------
\* A later chunk at the end leaves a sequence in order.
LEMMA IncreasingAppend ==
  ASSUME NEW s \in Seq(Chunks), NEW c \in Chunks, Increasing(s),
         Before(Elems(s), {c})
  PROVE  Increasing(Append(s, c))
<1>1. /\ DOMAIN s = 1..Len(s) /\ Len(s) \in Nat
      /\ DOMAIN Append(s, c) = 1..(Len(s) + 1)
  OBVIOUS
<1>2. /\ \A i \in DOMAIN s : Append(s, c)[i] = s[i]
      /\ Append(s, c)[Len(s) + 1] = c
  OBVIOUS
<1>3. \A i \in DOMAIN s : s[i] < c
  BY DEF Before, Elems
<1> QED
  BY <1>1, <1>2, <1>3 DEF Increasing

\* The first chunk of a sequence in order is before the others.
LEMMA IncreasingTail ==
  ASSUME NEW s \in Seq(Chunks), s # <<>>, Increasing(s)
  PROVE  Increasing(Tail(s)) /\ Before({Head(s)}, Elems(Tail(s)))
<1>1. /\ DOMAIN s = 1..Len(s) /\ Len(s) \in Nat /\ Len(s) > 0
      /\ DOMAIN Tail(s) = 1..(Len(s) - 1)
  OBVIOUS
<1>2. /\ \A i \in DOMAIN Tail(s) : Tail(s)[i] = s[i + 1]
      /\ Head(s) = s[1]
  OBVIOUS
<1>3. \A i \in DOMAIN Tail(s) : i + 1 \in DOMAIN s /\ 1 < i + 1
  BY <1>1
<1>4. Increasing(Tail(s))
  BY <1>1, <1>2, <1>3 DEF Increasing
<1>5. \A i \in DOMAIN Tail(s) : s[1] < Tail(s)[i]
  BY <1>1, <1>2, <1>3 DEF Increasing
<1> QED
  BY <1>2, <1>4, <1>5 DEF Before, Elems

\* A later frame at the end.
LEMMA FramesAppend ==
  ASSUME NEW fs \in Seq(Seq(Chunks)), NEW f \in Seq(Chunks),
         FramesInOrder(fs), Increasing(f), Before(FrameElems(fs), Elems(f))
  PROVE  FramesInOrder(Append(fs, f))
<1>1. /\ DOMAIN fs = 1..Len(fs) /\ Len(fs) \in Nat
      /\ DOMAIN Append(fs, f) = 1..(Len(fs) + 1)
  OBVIOUS
<1>2. /\ \A i \in DOMAIN fs : Append(fs, f)[i] = fs[i]
      /\ Append(fs, f)[Len(fs) + 1] = f
  OBVIOUS
<1>3. \A i \in DOMAIN fs : Before(Elems(fs[i]), Elems(f))
  BY DEF Before, FrameElems
<1>4. \A i \in DOMAIN Append(fs, f) : i \in DOMAIN fs \/ i = Len(fs) + 1
  BY <1>1
<1>5. \A i \in DOMAIN Append(fs, f) : Increasing(Append(fs, f)[i])
  BY <1>2, <1>4 DEF FramesInOrder
<1>6. ASSUME NEW i \in DOMAIN Append(fs, f), NEW j \in DOMAIN Append(fs, f),
             i < j
      PROVE  Before(Elems(Append(fs, f)[i]), Elems(Append(fs, f)[j]))
  <2>1. i \in DOMAIN fs
    BY <1>1, <1>6
  <2>2. CASE j \in DOMAIN fs
    BY <1>2, <1>6, <2>1, <2>2 DEF FramesInOrder
  <2>3. CASE j = Len(fs) + 1
    BY <1>2, <1>3, <2>1, <2>3
  <2> QED
    BY <1>4, <2>2, <2>3
<1> QED
  BY <1>5, <1>6 DEF FramesInOrder

\* The first frame is before the others.
LEMMA FramesTail ==
  ASSUME NEW fs \in Seq(Seq(Chunks)), fs # <<>>, FramesInOrder(fs)
  PROVE  /\ FramesInOrder(Tail(fs))
         /\ Before(Elems(Head(fs)), FrameElems(Tail(fs)))
<1>1. /\ DOMAIN fs = 1..Len(fs) /\ Len(fs) \in Nat /\ Len(fs) > 0
      /\ DOMAIN Tail(fs) = 1..(Len(fs) - 1)
  OBVIOUS
<1>2. /\ \A i \in DOMAIN Tail(fs) : Tail(fs)[i] = fs[i + 1]
      /\ Head(fs) = fs[1]
  OBVIOUS
<1>3. \A i \in DOMAIN Tail(fs) : i + 1 \in DOMAIN fs /\ 1 < i + 1
  BY <1>1
<1>4. 1 \in DOMAIN fs
  BY <1>1
<1>5. \A i \in DOMAIN Tail(fs) : Before(Elems(fs[1]), Elems(Tail(fs)[i]))
  BY <1>2, <1>3, <1>4 DEF FramesInOrder
<1>6. \A i, j \in DOMAIN Tail(fs) : i < j => i + 1 < j + 1
  BY <1>1
<1>7. FramesInOrder(Tail(fs))
  BY <1>2, <1>3, <1>6 DEF FramesInOrder
<1> QED
  BY <1>2, <1>5, <1>7 DEF Before, FrameElems

-----------------------------------------------------------------------------
\* Only the latest run's threads hold a chunk.
LEMMA OneHand ==
  ASSUME OwnInv, NEW r \in Runs, r = runs
  PROVE  /\ Hands = {hand[r]} \ {0} /\ Gots = {got[r]} \ {0}
         /\ Coming = Elems(wire[r])
<1>1. \A s \in Runs : s # r => hand[s] = 0 /\ got[s] = 0
  BY DEF OwnInv, OneRun, TypeInv, Carried, Ended
<1> QED
  BY <1>1 DEF Hands, Gots, Coming

\* The steps that move no chunk.
LEMMA OrderKept ==
  ASSUME StageOrder, WireOrder,
         UNCHANGED <<got, hand, queueVars, rest, recvd, out, runs, wire, sent>>
  PROVE  StageOrder' /\ WireOrder'
<1>1. WireOrder'
  BY DEF WireOrder
<1>2. /\ Hands' = Hands /\ Gots' = Gots /\ Coming' = Coming
      /\ Elems(rest)' = Elems(rest) /\ Elems(recv_queue)' = Elems(recv_queue)
      /\ FrameElems(event_frame)' = FrameElems(event_frame)
  BY DEF Hands, Gots, Coming, Elems, FrameElems
<1>3. /\ Increasing(recv_queue)' = Increasing(recv_queue)
      /\ Increasing(rest)' = Increasing(rest)
      /\ FramesInOrder(event_frame)' = FramesInOrder(event_frame)
  OBVIOUS
<1> QED
  BY <1>1, <1>2, <1>3 DEF StageOrder

\* A frame or a chunk is taken out of a queue, by the reader or for good.
LEMMA OrderDequeued ==
  ASSUME OrderInv,
         \/ /\ event_frame # <<>> /\ event_frame' = Tail(event_frame)
            /\ out' \in {out, out \cup Elems(Head(event_frame))}
            /\ UNCHANGED recv_queue
         \/ /\ recv_queue # <<>> /\ recv_queue' = Tail(recv_queue)
            /\ UNCHANGED <<event_frame, out>>,
         UNCHANGED <<got, hand, rest, recvd, runs, wire, sent>>
  PROVE  StageOrder' /\ WireOrder'
<1> USE DEF OrderInv, OwnInv, TypeInv, TypeOK, QueueType, StageOrder
<1>1. WireOrder'
  BY DEF WireOrder
<1>2. /\ Hands' = Hands /\ Gots' = Gots /\ Coming' = Coming
      /\ Elems(rest)' = Elems(rest) /\ Increasing(rest)'
  BY DEF Hands, Gots, Coming, Elems, Increasing
<1>3. CASE UNCHANGED recv_queue /\ event_frame' = Tail(event_frame)
           /\ event_frame # <<>>
           /\ out' \in {out, out \cup Elems(Head(event_frame))}
  <2>1. Elems(recv_queue)' = Elems(recv_queue) /\ Increasing(recv_queue)'
    BY <1>3 DEF Elems, Increasing
  <2>2. /\ FramesInOrder(event_frame)'
        /\ Before(Elems(Head(event_frame)), FrameElems(event_frame'))
    BY <1>3, FramesTail
  <2>3. FrameElems(event_frame) =
           Elems(Head(event_frame)) \cup FrameElems(event_frame')
    BY <1>3, FrameElemsTail
  <2>4. Pipe(out', FrameElems(event_frame'), Elems(rest), Hands,
             Elems(recv_queue), Gots, Coming)
    BY <1>3, <2>2, <2>3 DEF Pipe, Before
  <2> QED
    BY <1>1, <1>2, <2>1, <2>2, <2>4
<1>4. CASE UNCHANGED <<event_frame, out>> /\ recv_queue # <<>>
           /\ recv_queue' = Tail(recv_queue)
  <2>1. FrameElems(event_frame)' = FrameElems(event_frame)
        /\ FramesInOrder(event_frame)'
    BY <1>4 DEF FrameElems, Elems, FramesInOrder, Increasing, Before
  <2>2. Increasing(recv_queue)'
    BY <1>4, IncreasingTail
  <2>3. Elems(recv_queue) = {Head(recv_queue)} \cup Elems(recv_queue')
    BY <1>4, ElemsTail
  <2>4. Pipe(out, FrameElems(event_frame), Elems(rest), Hands,
             Elems(recv_queue'), Gots, Coming)
    BY <2>3 DEF Pipe, Before
  <2> QED
    BY <1>1, <1>2, <1>4, <2>1, <2>2, <2>4
<1> QED
  BY <1>3, <1>4

\* SiDaqRun: nothing is on its way on the new connection yet.
LEMMA OrderRunConnect ==
  ASSUME OrderInv, RunConnect
  PROVE  StageOrder' /\ WireOrder'
<1> USE DEF OrderInv, OwnInv, TypeInv, TypeOK, AppType
<1>1. /\ runs' = runs + 1 /\ runs' \in Runs
      /\ UNCHANGED <<got, hand, queueVars, rest, recvd, out, wire, sent>>
  BY DEF RunConnect
<1>2. WireOrder'
  BY <1>1 DEF WireOrder
<1>3. wire[runs + 1] = <<>>
  BY <1>1 DEF WireOrder
<1>4. Coming' = {}
  BY <1>1, <1>3, ElemsEmpty DEF Coming
<1>5. /\ Hands' = Hands /\ Gots' = Gots /\ Elems(rest)' = Elems(rest)
      /\ Elems(recv_queue)' = Elems(recv_queue)
      /\ FrameElems(event_frame)' = FrameElems(event_frame)
      /\ Increasing(recv_queue)' /\ Increasing(rest)'
      /\ FramesInOrder(event_frame)'
  BY <1>1 DEF StageOrder, Hands, Gots, Elems, FrameElems, Increasing,
     FramesInOrder, Before
<1>6. Pipe(out, FrameElems(event_frame), Elems(rest), Hands,
           Elems(recv_queue), Gots, {})
  BY DEF StageOrder, Pipe, Before
<1> QED
  BY <1>1, <1>2, <1>4, <1>5, <1>6 DEF StageOrder

\* The device sends: the chunk is later than all there are.
LEMMA OrderDeviceSend ==
  ASSUME OrderInv, NEW r \in Runs, DeviceSend(r)
  PROVE  StageOrder' /\ WireOrder'
<1> USE DEF OrderInv, OwnInv, TypeInv, TypeOK, AppType, NetType, HistType
<1>1. /\ wire' = [wire EXCEPT ![r] = Append(wire[r], sent + 1)]
      /\ sent' = sent + 1 /\ sent \in Nat /\ sent + 1 \in Chunks
      /\ UNCHANGED <<got, hand, queueVars, rest, recvd, out, runs>>
  BY DEF DeviceSend, Chunks
<1>2. r <= runs
  <2>1. PICK h \in Handles : conn[h] = r
    BY DEF DeviceSend, Connected
  <2>2. conn[h] \in 0..runs \/ conn[h] = MaxRuns + 1
    BY DEF OwnSocket
  <2> QED
    BY <2>1, <2>2
<1> HIDE DEF OrderInv, OwnInv, TypeInv, TypeOK, AppType, NetType, HistType
<1>3. ASSUME NEW s \in Runs
      PROVE  \A x \in Elems(wire[s]) : x \in Nat /\ x <= sent
  <2>1. wire[s] \in Seq(Chunks)
    BY DEF OrderInv, OwnInv, TypeInv, TypeOK, NetType
  <2>2. Elems(wire[s]) \subseteq Chunks
    BY ONLY <2>1, ElemsType
  <2>3. Chunks \subseteq Nat
    BY DEF Chunks
  <2>4. \A x \in Elems(wire[s]) : x <= sent
    BY DEF OrderInv, WireOrder
  <2> QED
    BY <2>2, <2>3, <2>4
<1> USE DEF OrderInv, OwnInv, TypeInv, TypeOK, AppType, NetType, HistType
<1>4. Before(Elems(wire[r]), {sent + 1})
  BY <1>1, <1>3 DEF Before
<1>5. /\ Increasing(wire'[r])
      /\ Elems(wire'[r]) = Elems(wire[r]) \cup {sent + 1}
  BY <1>1, <1>4, IncreasingAppend, ElemsAppend DEF WireOrder
<1>6. WireOrder'
  <2>1. \A x \in recvd' : x <= sent'
    BY <1>1 DEF WireOrder, Chunks
  <2>2. ASSUME NEW s \in Runs
        PROVE  /\ Increasing(wire'[s])
               /\ s > runs' => wire'[s] = <<>>
               /\ \A x \in Elems(wire'[s]) : x <= sent'
    <3>1. CASE s = r
      <4>1. \A x \in Elems(wire[r]) : x <= sent /\ x \in Nat
        BY <1>3
      <4>2. ASSUME NEW x \in Elems(wire'[r]) PROVE x <= sent'
        <5>1. CASE x = sent + 1
          BY <1>1, <5>1
        <5>2. CASE x \in Elems(wire[r])
          <6>1. x \in Nat /\ x <= sent
            BY <4>1, <5>2
          <6> QED
            BY <1>1, <6>1
        <5> QED
          BY <1>5, <5>1, <5>2
      <4>3. ~(s > runs')
        BY <1>1, <1>2, <3>1
      <4> QED
        BY <1>5, <3>1, <4>2, <4>3
    <3>2. CASE s # r
      <4>1. wire'[s] = wire[s]
        BY <1>1, <3>2 DEF NetType
      <4>2. \A x \in Elems(wire[s]) : x <= sent + 1
        BY <1>1, <1>3
      <4>3. Increasing(wire[s]) /\ (s > runs => wire[s] = <<>>)
        BY DEF WireOrder
      <4> QED
        BY <1>1, <4>1, <4>2, <4>3
    <3> QED
      BY <3>1, <3>2
  <2> QED
    BY <2>1, <2>2 DEF WireOrder
<1>7. /\ Hands' = Hands /\ Gots' = Gots /\ Elems(rest)' = Elems(rest)
      /\ Elems(recv_queue)' = Elems(recv_queue)
      /\ FrameElems(event_frame)' = FrameElems(event_frame)
      /\ Increasing(recv_queue)' /\ Increasing(rest)'
      /\ FramesInOrder(event_frame)'
  BY <1>1 DEF StageOrder, Hands, Gots, Elems, FrameElems, Increasing,
     FramesInOrder, Before
<1>8. Coming' \subseteq Coming \cup {sent + 1}
  BY <1>1, <1>5 DEF Coming
<1>9. \A x \in out \cup FrameElems(event_frame) \cup Elems(rest) \cup Hands
               \cup Elems(recv_queue) \cup Gots : x < sent + 1
  <2>1. Hands \cup Gots \subseteq InHands
    BY DEF Hands, Gots, InHands
  <2>2. \A x \in recvd : x < sent + 1
    BY <1>1 DEF WireOrder, Chunks
  <2> QED
    BY <2>1, <2>2 DEF NoLoss, Held
<1>10. Pipe(out, FrameElems(event_frame), Elems(rest), Hands,
           Elems(recv_queue), Gots, Coming')
  BY <1>8, <1>9 DEF StageOrder, Pipe, Before
<1> QED
  BY <1>1, <1>6, <1>7, <1>10 DEF StageOrder

\* A step of the application thread, the reader or the device.
LEMMA OrderApplication ==
  ASSUME OrderInv, Application \/ Reader \/ Device
  PROVE  StageOrder' /\ WireOrder'
<1>1. CASE UNCHANGED <<got, hand, queueVars, rest, recvd, out, runs, wire, sent>>
  BY <1>1, OrderKept DEF OrderInv
<1>2. CASE ResetRecv
  <2>1. CASE recv_queue = <<>>
    BY <1>1, <1>2, <2>1 DEF ResetRecv
  <2>2. CASE recv_queue # <<>>
    BY <1>2, <2>2, OrderDequeued DEF ResetRecv
  <2> QED
    BY <2>1, <2>2
<1>3. CASE ResetFrame
  <2>1. CASE event_frame = <<>>
    BY <1>1, <1>3, <2>1 DEF ResetFrame
  <2>2. CASE event_frame # <<>>
    BY <1>3, <2>2, OrderDequeued DEF ResetFrame
  <2> QED
    BY <2>1, <2>2
<1>4. CASE GetData
  BY <1>4, OrderDequeued DEF GetData
<1>5. CASE Application
  BY <1>1, <1>2, <1>3, <1>5, OrderRunConnect DEF Application, InCall,
     InitializeOk, InitializeFails, RunRefused, RunNotConnected, RunFramer,
     RunStatus, Stop, Terminate, CallStop, StopEnter, StopRun, StopClose,
     Free, ResetQueue
<1>6. CASE Reader \/ Device
  BY <1>1, <1>4, <1>6, OrderDeviceSend DEF Reader, SetPause, Device,
     DeviceClose
<1> QED
  BY <1>5, <1>6

\* recv() takes the next chunk of the latest run's connection.
LEMMA OrderSockRecv ==
  ASSUME OrderInv, NEW r \in Runs, SockRecv(r), r = runs
  PROVE  StageOrder' /\ WireOrder'
<1> USE DEF OrderInv, OwnInv, TypeInv, TypeOK, NetType, ThreadType, HistType
<1>1. CASE ~HasData(sock[r])
  BY <1>1, OrderKept DEF SockRecv
<1>2. CASE HasData(sock[r])
  <2> DEFINE w == wire[r]
  <2>1. Conn(sock[r]) = r
    BY <1>2, OwnConnection DEF SockRecv, SockAt, SockActive
  <2>2. w \in Seq(Chunks) /\ w # <<>> /\ Increasing(w)
    BY <1>2, <2>1 DEF HasData, WireOrder
  <2>3. /\ got' = [got EXCEPT ![r] = Head(w)]
        /\ wire' = [wire EXCEPT ![r] = Tail(w)]
        /\ recvd' = recvd \cup {Head(w)}
        /\ UNCHANGED <<hand, queueVars, rest, out, runs, sent>>
    BY <1>2, <2>1 DEF SockRecv, HasData, HasEnded, Dead, NotConn
  <2>4. got[r] = 0
    BY DEF SockRecv, SockAt, Carried
  <2>5. /\ Head(w) \in Chunks /\ Head(w) # 0 /\ Tail(w) \in Seq(Chunks)
        /\ Elems(w) = {Head(w)} \cup Elems(Tail(w))
        /\ Increasing(Tail(w)) /\ Before({Head(w)}, Elems(Tail(w)))
    <3> HIDE DEF w
    <3>1. Head(w) \in Chunks /\ Tail(w) \in Seq(Chunks)
      BY <2>2, HeadTailType
    <3>2. Elems(w) = {Head(w)} \cup Elems(Tail(w))
      BY <2>2, ElemsTail
    <3>3. Increasing(Tail(w)) /\ Before({Head(w)}, Elems(Tail(w)))
      BY <2>2, IncreasingTail
    <3>4. Head(w) # 0
      BY <3>1 DEF Chunks
    <3> QED
      BY <3>1, <3>2, <3>3, <3>4
  <2>6. /\ Gots = {} /\ Coming = Elems(w)
        /\ \A s \in Runs : s # r => got[s] = 0
    <3>1. Gots = {got[r]} \ {0} /\ Coming = Elems(w)
      BY OneHand
    <3> QED
      BY <2>4, <3>1 DEF OneRun, Carried, Ended
  <2>7. /\ Gots' = {Head(w)} /\ Coming' = Elems(Tail(w)) /\ Hands' = Hands
    <3>1. got'[r] = Head(w) /\ \A s \in Runs : s # r => got'[s] = 0
      BY <2>3, <2>6
    <3>2. Gots' = {got'[s] : s \in Runs} \ {0}
      BY DEF Gots
    <3>3. {got'[s] : s \in Runs} \ {0} = {got'[r]} \ {0}
      BY <3>1
    <3>4. Gots' = {Head(w)}
      BY <2>5, <3>1, <3>2, <3>3
    <3>5. wire'[r] = Tail(w)
      BY <2>3
    <3> QED
      BY <2>3, <3>4, <3>5 DEF Coming, Hands
  <2> HIDE DEF w
  <2>8. /\ Elems(rest)' = Elems(rest) /\ Elems(recv_queue)' = Elems(recv_queue)
        /\ FrameElems(event_frame)' = FrameElems(event_frame)
        /\ Increasing(recv_queue)' = Increasing(recv_queue)
        /\ Increasing(rest)' = Increasing(rest)
        /\ FramesInOrder(event_frame)' = FramesInOrder(event_frame)
    BY <2>3
  <2>9. Pipe(out, FrameElems(event_frame), Elems(rest), Hands,
             Elems(recv_queue), {Head(w)}, Elems(Tail(w)))
    BY <2>5, <2>6 DEF StageOrder, Pipe, Before
  <2>10. StageOrder'
    BY <2>3, <2>7, <2>8, <2>9 DEF StageOrder
  <2>11. WireOrder'
    <3>1. \A x \in Elems(w) : x <= sent
      BY DEF WireOrder, w
    <3>2. \A x \in recvd' : x <= sent'
      BY <2>3, <2>5, <3>1 DEF WireOrder
    <3>3. ASSUME NEW s \in Runs
          PROVE  /\ Increasing(wire'[s])
                 /\ s > runs' => wire'[s] = <<>>
                 /\ \A x \in Elems(wire'[s]) : x <= sent'
      <4>1. CASE s = r
        BY <2>3, <2>5, <3>1, <4>1
      <4>2. CASE s # r
        BY <2>3, <4>2 DEF WireOrder
      <4> QED
        BY <4>1, <4>2
    <3> QED
      BY <3>2, <3>3 DEF WireOrder
  <2> QED
    BY <2>10, <2>11
<1> QED
  BY <1>1, <1>2

\* SQPut: the chunk is later than all in the queue.
LEMMA OrderSockPut ==
  ASSUME OrderInv, NEW r \in Runs, SockPut(r), r = runs
  PROVE  StageOrder' /\ WireOrder'
<1> USE DEF OrderInv, OwnInv, TypeInv, TypeOK, ThreadType, QueueType
<1>1. /\ got' = [got EXCEPT ![r] = 0]
      /\ recv_queue' = Append(recv_queue, got[r])
      /\ UNCHANGED <<hand, event_frame, rest, recvd, out, runs, wire, sent>>
  BY DEF SockPut
<1>2. got[r] # 0 /\ got[r] \in Chunks
  BY DEF SockPut, SockAt, Carried
<1>3. Gots = {got[r]}
  BY <1>2, OneHand
<1>4. Gots' = {} /\ Hands' = Hands /\ Coming' = Coming
  <2>1. \A s \in Runs : s # r => got[s] = 0
    BY DEF OneRun, Carried, Ended
  <2>2. \A s \in Runs : got'[s] = 0
    BY <1>1, <2>1
  <2> QED
    BY <1>1, <2>2 DEF Gots, Hands, Coming
<1>5. /\ Elems(rest)' = Elems(rest)
      /\ FrameElems(event_frame)' = FrameElems(event_frame)
      /\ Increasing(rest)' = Increasing(rest)
      /\ FramesInOrder(event_frame)' = FramesInOrder(event_frame)
  BY <1>1
<1>6. Before(Elems(recv_queue), {got[r]})
  BY <1>3 DEF StageOrder, Pipe, Before
<1>7. /\ Increasing(recv_queue')
      /\ Elems(recv_queue') = Elems(recv_queue) \cup {got[r]}
  BY <1>1, <1>2, <1>6, IncreasingAppend, ElemsAppend DEF StageOrder
<1>8. Pipe(out, FrameElems(event_frame), Elems(rest), Hands,
           Elems(recv_queue'), {}, Coming)
  BY <1>3, <1>7 DEF StageOrder, Pipe, Before
<1>9. WireOrder'
  BY <1>1 DEF WireOrder
<1> QED
  BY <1>1, <1>4, <1>5, <1>7, <1>8, <1>9 DEF StageOrder

\* SQGet: the chunk is the earliest in the queue.
LEMMA OrderFramerGet ==
  ASSUME OrderInv, NEW r \in Runs, FramerGet(r), r = runs
  PROVE  StageOrder' /\ WireOrder'
<1> USE DEF OrderInv, OwnInv, TypeInv, TypeOK, ThreadType, QueueType
<1>1. CASE recv_queue = <<>>
  BY <1>1, OrderKept DEF FramerGet
<1>2. CASE recv_queue # <<>>
  <2> DEFINE c == Head(recv_queue)
  <2>1. /\ hand' = [hand EXCEPT ![r] = c]
        /\ recv_queue' = Tail(recv_queue)
        /\ UNCHANGED <<got, event_frame, rest, recvd, out, runs, wire, sent>>
    BY <1>2 DEF FramerGet
  <2>2. hand[r] = 0 /\ \A s \in Runs : s # r => hand[s] = 0
    BY DEF FramerGet, FramerAt, OneRun, Carried, Ended
  <2>3. /\ c \in Chunks /\ c # 0
        /\ Elems(recv_queue) = {c} \cup Elems(recv_queue')
        /\ Increasing(recv_queue') /\ Before({c}, Elems(recv_queue'))
    BY <1>2, <2>1, HeadTailType, ElemsTail, IncreasingTail
    DEF StageOrder, Chunks
  <2> HIDE DEF c
  <2>4. Hands = {}
    BY <2>2 DEF Hands
  <2>5. Hands' = {c} /\ Gots' = Gots /\ Coming' = Coming
    <3>1. hand'[r] = c /\ \A s \in Runs : s # r => hand'[s] = 0
      BY <2>1, <2>2
    <3>2. Hands' = {hand'[s] : s \in Runs} \ {0}
      BY DEF Hands
    <3>3. {hand'[s] : s \in Runs} \ {0} = {c}
      BY <2>3, <3>1
    <3>4. UNCHANGED <<got, wire, runs>>
      BY <2>1
    <3>5. Gots' = Gots /\ Coming' = Coming
      BY <3>4 DEF Gots, Coming
    <3> QED
      BY <3>2, <3>3, <3>5
  <2>6. /\ Elems(rest)' = Elems(rest)
        /\ FrameElems(event_frame)' = FrameElems(event_frame)
        /\ Increasing(rest)' = Increasing(rest)
        /\ FramesInOrder(event_frame)' = FramesInOrder(event_frame)
    BY <2>1
  <2>7. Pipe(out, FrameElems(event_frame), Elems(rest), {c},
             Elems(recv_queue'), Gots, Coming)
    BY <2>3, <2>4 DEF StageOrder, Pipe, Before
  <2>8. WireOrder'
    BY <2>1 DEF WireOrder
  <2> QED
    BY <2>1, <2>3, <2>5, <2>6, <2>7, <2>8 DEF StageOrder
<1> QED
  BY <1>1, <1>2

\* RecvSiDaqData: the chunk goes behind the rest of the buffer, which may
\* become a frame with it.
LEMMA OrderFramerFrame ==
  ASSUME OrderInv, NEW r \in Runs, FramerFrame(r), r = runs
  PROVE  StageOrder' /\ WireOrder'
<1> USE DEF OrderInv, OwnInv, TypeInv, TypeOK, ThreadType, QueueType
<1>1. /\ hand' = [hand EXCEPT ![r] = 0]
      /\ UNCHANGED <<got, recv_queue, recvd, out, runs, wire, sent>>
  BY DEF FramerFrame
<1>2. hand[r] # 0 /\ hand[r] \in Chunks
  BY DEF FramerFrame, FramerAt, Carried
<1>3. Hands = {hand[r]}
  BY <1>2, OneHand
<1>4. Hands' = {} /\ Gots' = Gots /\ Coming' = Coming
  <2>1. \A s \in Runs : s # r => hand[s] = 0
    BY DEF OneRun, Carried, Ended
  <2>2. \A s \in Runs : hand'[s] = 0
    BY <1>1, <2>1
  <2> QED
    BY <1>1, <2>2 DEF Gots, Hands, Coming
<1>5. /\ Elems(recv_queue)' = Elems(recv_queue)
      /\ Increasing(recv_queue)' = Increasing(recv_queue)
      /\ WireOrder'
  BY <1>1 DEF WireOrder
<1> DEFINE f == Append(rest, hand[r])
<1>6. Before(Elems(rest), {hand[r]})
  BY <1>3 DEF StageOrder, Pipe, Before
<1>7. /\ Increasing(f) /\ f \in Seq(Chunks)
      /\ Elems(f) = Elems(rest) \cup {hand[r]}
  BY <1>2, <1>6, IncreasingAppend, ElemsAppend, AppendType DEF StageOrder
<1>8. \/ rest' = f /\ UNCHANGED event_frame
      \/ rest' = <<>> /\ event_frame' = Append(event_frame, f)
  BY DEF FramerFrame
<1> HIDE DEF f
<1>9. CASE rest' = f /\ UNCHANGED event_frame
  <2>1. /\ FrameElems(event_frame)' = FrameElems(event_frame)
        /\ FramesInOrder(event_frame)' = FramesInOrder(event_frame)
    BY <1>9
  <2>2. Pipe(out, FrameElems(event_frame), Elems(f), {},
             Elems(recv_queue), Gots, Coming)
    BY <1>3, <1>7 DEF StageOrder, Pipe, Before
  <2> QED
    BY <1>1, <1>4, <1>5, <1>7, <1>9, <2>1, <2>2 DEF StageOrder
<1>10. CASE rest' = <<>> /\ event_frame' = Append(event_frame, f)
  <2>1. Before(FrameElems(event_frame), Elems(f))
    BY <1>3, <1>7 DEF StageOrder, Pipe, Before
  <2>2. /\ FramesInOrder(event_frame')
        /\ FrameElems(event_frame') = FrameElems(event_frame) \cup Elems(f)
    BY <1>7, <1>10, <2>1, FramesAppend, FrameElemsAppend DEF StageOrder
  <2>3. Elems(rest') = {} /\ Increasing(rest')
    BY <1>10, ElemsEmpty DEF Increasing
  <2>4. Pipe(out, FrameElems(event_frame'), {}, {},
             Elems(recv_queue), Gots, Coming)
    BY <1>3, <1>7, <2>2 DEF StageOrder, Pipe, Before
  <2> QED
    BY <1>1, <1>4, <1>5, <2>2, <2>3, <2>4 DEF StageOrder
<1> QED
  BY <1>8, <1>9, <1>10

\* The rest of the buffer becomes a frame.
LEMMA OrderFramerEmpty ==
  ASSUME OrderInv, NEW r \in Runs, FramerEmpty(r)
  PROVE  StageOrder' /\ WireOrder'
<1> USE DEF OrderInv, OwnInv, TypeInv, TypeOK, QueueType
<1>1. UNCHANGED <<got, hand, recv_queue, recvd, out, runs, wire, sent>>
  BY DEF FramerEmpty
<1>2. CASE UNCHANGED <<event_frame, rest>>
  BY <1>1, <1>2, OrderKept
<1>3. CASE event_frame' = Append(event_frame, rest) /\ rest' = <<>>
  <2>1. Before(FrameElems(event_frame), Elems(rest))
    BY DEF StageOrder, Pipe, Before
  <2>2. /\ FramesInOrder(event_frame')
        /\ FrameElems(event_frame') = FrameElems(event_frame) \cup Elems(rest)
    BY <1>3, <2>1, FramesAppend, FrameElemsAppend DEF StageOrder
  <2>3. Elems(rest') = {} /\ Increasing(rest')
    BY <1>3, ElemsEmpty DEF Increasing
  <2>4. Pipe(out, FrameElems(event_frame'), {}, Hands,
             Elems(recv_queue), Gots, Coming)
    BY <2>2 DEF StageOrder, Pipe, Before
  <2>5. /\ Hands' = Hands /\ Gots' = Gots /\ Coming' = Coming
        /\ Elems(recv_queue)' = Elems(recv_queue)
        /\ Increasing(recv_queue)' = Increasing(recv_queue)
        /\ WireOrder'
    BY <1>1 DEF WireOrder, Hands, Gots, Coming
  <2> QED
    BY <1>1, <2>2, <2>3, <2>4, <2>5 DEF StageOrder
<1> QED
  BY <1>2, <1>3 DEF FramerEmpty, FlushRest

\* A step of one of the two threads.
LEMMA OrderThreads ==
  ASSUME OrderInv, NEW r \in Runs, SockThread(r) \/ FramerThread(r)
  PROVE  StageOrder' /\ WireOrder'
<1>1. r = runs
  BY SockMoves, FramerMoves, OneRunThread
  DEF OrderInv, OwnInv, SockActive, Ended
<1>2. CASE UNCHANGED <<got, hand, queueVars, rest, recvd, out, runs, wire, sent>>
  BY <1>2, OrderKept DEF OrderInv
<1>3. CASE SockThread(r)
  BY <1>1, <1>2, <1>3, OrderSockRecv, OrderSockPut DEF SockThread, SockStart,
     SockOuter, SockInner, SockCheck, SockClose
<1>4. CASE FramerThread(r)
  BY <1>1, <1>2, <1>4, OrderFramerGet, OrderFramerFrame, OrderFramerEmpty
  DEF FramerThread, FramerStart, FramerLoop, FramerLimit, FramerErrorCheck,
      FramerRunOff, FramerCloseSocket, FramerExit, FramerStopEnter, FramerIdle
<1> QED
  BY <1>3, <1>4

\* The stages in order say what InOrder says.
LEMMA OrderImplies == OrderInv => InOrder
<1> SUFFICES ASSUME OrderInv PROVE InOrder
  OBVIOUS
<1> USE DEF OrderInv, OwnInv, TypeInv, TypeOK, ThreadType, AppType
<1>1. Held = Hands \cup Gots \cup Elems(recv_queue) \cup Elems(rest)
             \cup FrameElems(event_frame)
  BY DEF Held, InHands, Hands, Gots
<1>2. /\ Before(out, Held)
      /\ Before(FrameElems(event_frame), Elems(rest) \cup Elems(recv_queue))
      /\ Before(Elems(rest), Elems(recv_queue))
  BY <1>1 DEF StageOrder, Pipe, Before
<1>3. ASSUME NEW r \in Runs, hand[r] # 0
      PROVE  /\ Before(FrameElems(event_frame) \cup Elems(rest), {hand[r]})
             /\ Before({hand[r]}, Elems(recv_queue))
  <2>1. hand[r] \in Hands
    BY <1>3 DEF Hands
  <2> QED
    BY <2>1 DEF StageOrder, Pipe, Before
<1>4. ASSUME NEW r \in Runs, got[r] # 0
      PROVE  Before(Held \ {got[r]}, {got[r]})
  <2>1. r = runs
    BY <1>4 DEF OneRun, Carried, Ended
  <2>2. Gots = {got[r]}
    BY <1>4, <2>1, OneHand
  <2> QED
    BY <1>1, <2>2 DEF StageOrder, Pipe, Before
<1> QED
  BY <1>2, <1>3, <1>4 DEF InOrder, StageOrder, FramesInOrder

\* No chunk exists.
LEMMA OrderInit == Init => OrderInv
<1> SUFFICES ASSUME Init PROVE OrderInv
  OBVIOUS
<1>1. OwnInv
  BY TypeInit, OwnInit DEF OwnInv
<1>2. NoLoss
  BY ElemsEmpty DEF Init, NoLoss, Held, InHands
<1>3. WireOrder
  BY ElemsEmpty DEF Init, WireOrder, Increasing
<1>4. /\ Hands = {} /\ Gots = {} /\ out = {} /\ Elems(rest) = {}
      /\ Elems(recv_queue) = {} /\ FrameElems(event_frame) = {}
  BY ElemsEmpty DEF Init, Hands, Gots
<1>5. StageOrder
  BY <1>4 DEF Init, StageOrder, Pipe, Before, Increasing, FramesInOrder
<1> QED
  BY <1>1, <1>2, <1>3, <1>5 DEF OrderInv

\* Every step keeps the stages in order.
LEMMA OrderStep ==
  ASSUME ClientWaits, OrderInv, [Next]_vars
  PROVE  OrderInv'
<1>1. OwnInv' /\ NoLoss'
  BY OwnStep, NoLossStep DEF OrderInv, OwnInv
<1>2. StageOrder' /\ WireOrder'
  <2>1. CASE UNCHANGED vars
    BY <2>1, OrderKept DEF OrderInv
  <2> QED
    BY <2>1, OrderApplication, OrderThreads DEF Next
<1> QED
  BY <1>1, <1>2 DEF OrderInv

\* The reader of an application that waits gets the chunks in the order the
\* device sent them, over any number of runs, errors, resets and leftovers.
THEOREM ReadInOrder == ClientWaits /\ Spec => []InOrder
<1>1. ClientWaits /\ OrderInv /\ [Next]_vars => OrderInv'
  BY OrderStep
<1>2. CASE ClientWaits
  BY <1>1, <1>2, OrderInit, OrderImplies, PTL DEF Spec
<1> QED
  BY <1>2

-----------------------------------------------------------------------------
\* The chunks recv() has returned of run r.
RecvdOf(r) == {c \in recvd : owner[c] = r}

\* Before it is in its inner loop socket_loop_thread has received nothing,
\* and it does not come back to it: its socket is gone or _run is FALSE.
\* In the loop it goes round only while the queue is within the limit.
LimitInv ==
  /\ mngr = "none" => runs = 0
  /\ \A r \in Runs : \A c \in Elems(wire[r]) : owner[c] = r
  /\ RecvLimit # 0 => \A r \in Runs :
        /\ sock_pc[r] \in {"none", "start"} => RecvdOf(r) = {}
        /\ sock_pc[r] = "outer" /\ run /\ sock[r] # INVALID_SOCKET =>
              RecvdOf(r) = {}
        /\ sock_pc[r] \in {"inner", "recv", "put"}
           /\ Len(recv_queue) > RecvLimit => RecvdOf(r) \subseteq {got[r]}

\* The steps that move no socket_loop_thread and put nothing into the queue.
LEMMA LimitKept ==
  ASSUME LimitInv, Len(recv_queue') <= Len(recv_queue),
         Len(recv_queue) \in Nat, Len(recv_queue') \in Nat,
         run' => run, mngr' = "none" => mngr = "none",
         UNCHANGED <<runs, sockVars, wire, recvd, owner>>
  PROVE  LimitInv'
BY DEF LimitInv, RecvdOf

\* A step of the application thread, the reader or the device.
LEMMA LimitApplication ==
  ASSUME ClientWaits, OrderInv, LimitInv, Application \/ Reader \/ Device
  PROVE  LimitInv'
<1> USE DEF OrderInv, OwnInv, TypeInv, TypeOK, QueueType, AppType, ThreadType
<1>1. Len(recv_queue) \in Nat
  OBVIOUS
<1>2. CASE UNCHANGED <<runs, sockVars, wire, recvd, owner, recv_queue, run, mngr>>
  BY <1>1, <1>2, LimitKept
<1>3. CASE StopRun \/ Free \/ InitializeFails
  <2>1. UNCHANGED <<runs, sockVars, wire, recvd, owner>> /\ (run' => run)
        /\ (mngr' = "none" => mngr = "none")
    BY <1>3 DEF StopRun, Free, InitializeFails
  <2>2. recv_queue' \in {recv_queue, <<>>}
    BY <1>3 DEF StopRun, Free, InitializeFails
  <2> QED
    BY <1>1, <2>1, <2>2, LimitKept
<1>4. CASE InitializeOk
  <2>1. \A r \in Runs : sock_pc[r] = "none"
    BY <1>4 DEF InitializeOk, LimitInv, Carried
  <2> QED
    BY <1>4, <2>1 DEF InitializeOk, LimitInv, RecvdOf
<1>5. CASE ResetRecv
  <2>1. CASE recv_queue = <<>>
    BY <1>2, <1>5, <2>1 DEF ResetRecv
  <2>2. CASE recv_queue # <<>>
    <3>1. recv_queue' = Tail(recv_queue)
          /\ UNCHANGED <<runs, sockVars, wire, recvd, owner, run, mngr>>
      BY <1>5, <2>2 DEF ResetRecv
    <3>2. Len(recv_queue') \in Nat /\ Len(recv_queue') <= Len(recv_queue)
      BY <2>2, <3>1
    <3> QED
      BY <1>1, <3>1, <3>2, LimitKept
  <2> QED
    BY <2>1, <2>2
<1>6. CASE RunConnect
  <2>1. /\ sock_pc' = [sock_pc EXCEPT ![runs + 1] = "start"]
        /\ runs + 1 \in Runs /\ mngr' = "live"
        /\ \A r \in Runs : sock_pc[r] \in Ended
        /\ UNCHANGED <<sock, got, wire, recvd, owner, recv_queue>>
    BY <1>6 DEF RunConnect, MayRun, ThreadsEnded
  <2>2. sock_pc[runs + 1] = "none"
    BY <2>1 DEF Carried
  <2>3. ASSUME RecvLimit # 0, NEW r \in Runs
        PROVE  /\ sock_pc'[r] \in {"none", "start", "done"}
               /\ sock_pc'[r] \in {"none", "start"} => RecvdOf(r) = {}
    BY <2>1, <2>2, <2>3 DEF LimitInv, Ended
  <2>4. \A r : RecvdOf(r)' = RecvdOf(r)
    BY <2>1 DEF RecvdOf
  <2> QED
    BY <2>1, <2>3, <2>4 DEF LimitInv
<1>7. ASSUME NEW r \in Runs, DeviceSend(r) PROVE LimitInv'
  <2> USE DEF NetType, HistType
  <2>1. /\ wire' = [wire EXCEPT ![r] = Append(wire[r], sent + 1)]
        /\ owner' = [owner EXCEPT ![sent + 1] = r]
        /\ sent \in Nat /\ sent + 1 \in Chunks
        /\ UNCHANGED <<runs, sockVars, recvd, recv_queue, run, mngr>>
    <3>1. sent' = sent + 1 /\ sent \in Nat /\ sent < MaxChunks
      BY <1>7 DEF DeviceSend
    <3>2. sent + 1 \in Chunks
      BY <3>1, ConstantsAssumption DEF Chunks
    <3> QED
      BY <1>7, <3>1, <3>2 DEF DeviceSend
  <2>2. \A c \in recvd : c # sent + 1 /\ c \in Chunks
    BY <2>1 DEF WireOrder, Chunks
  <2>3. \A s \in Runs : \A c \in Elems(wire[s]) : c # sent + 1 /\ c \in Chunks
    <3>1. \A s \in Runs : wire[s] \in Seq(Chunks)
      OBVIOUS
    <3>2. \A s \in Runs : Elems(wire[s]) \in SUBSET Chunks
      BY <3>1, ElemsType
    <3>3. \A s \in Runs : \A c \in Elems(wire[s]) : c <= sent
      BY DEF WireOrder
    <3>4. \A c \in Chunks : c <= sent => c # sent + 1
      BY <2>1 DEF Chunks
    <3> QED
      BY <3>2, <3>3, <3>4
  <2>4. \A s : RecvdOf(s)' = RecvdOf(s)
    BY <2>1, <2>2 DEF RecvdOf
  <2>5. Elems(wire'[r]) = Elems(wire[r]) \cup {sent + 1}
    BY <2>1, ElemsAppend
  <2>6. ASSUME NEW s \in Runs, NEW c \in Elems(wire'[s])
        PROVE  owner'[c] = s
    <3>1. CASE c = sent + 1
      <4>1. s = r
        BY <2>1, <2>3, <3>1
      <4> QED
        BY <2>1, <3>1, <4>1
    <3>2. CASE c # sent + 1
      <4>1. c \in Elems(wire[s])
        BY <2>1, <2>5, <3>2
      <4> QED
        BY <2>1, <2>3, <3>2, <4>1 DEF LimitInv
    <3> QED
      BY <3>1, <3>2
  <2> QED
    BY <2>1, <2>4, <2>6 DEF LimitInv
<1>8. CASE Application
  BY <1>2, <1>3, <1>4, <1>5, <1>6, <1>8 DEF Application, InCall, RunRefused,
     RunNotConnected, RunFramer, RunStatus, Stop, Terminate, CallStop,
     StopEnter, StopClose, ResetQueue, ResetFrame
<1>9. CASE Reader \/ Device
  BY <1>2, <1>7, <1>9 DEF Reader, GetData, SetPause, Device, DeviceClose
<1> QED
  BY <1>8, <1>9

\* A step of socket_loop_thread.
LEMMA LimitSockThread ==
  ASSUME OrderInv, LimitInv, NEW r \in Runs, SockThread(r)
  PROVE  LimitInv'
<1> USE DEF OrderInv, OwnInv, TypeInv, TypeOK, QueueType, AppType,
            ThreadType, SockGoto, SockAt
<1>0. r = runs
  BY SockMoves, OneRunThread DEF SockActive, Ended
<1>1. mngr = "live" /\ mngr' = mngr /\ owner' = owner /\ run' = run
  BY DEF SockThread, SockStart, SockOuter, SockInner, SockRecv, SockPut,
     SockCheck, SockClose
<1>2. \A s \in Runs : s # r => sock_pc'[s] \in Ended /\ sock_pc'[s] = sock_pc[s]
  BY <1>0, SockMoves DEF OneRun
<1>3. CASE ~SockRecv(r)
  <2>1. UNCHANGED <<wire, recvd>>
    BY <1>3 DEF SockThread, SockStart, SockOuter, SockInner, SockPut,
       SockCheck, SockClose
  <2>2. \A s : RecvdOf(s)' = RecvdOf(s)
    BY <1>1, <2>1 DEF RecvdOf
  <2>3. ASSUME RecvLimit # 0
        PROVE  /\ sock_pc'[r] \in {"none", "start"} => RecvdOf(r) = {}
               /\ sock_pc'[r] = "outer" /\ run /\ sock'[r] # INVALID_SOCKET =>
                     RecvdOf(r) = {}
               /\ sock_pc'[r] \in {"inner", "recv", "put"}
                  /\ Len(recv_queue') > RecvLimit => RecvdOf(r) \subseteq {got'[r]}
    <3>1. CASE SockStart(r)
      BY <2>3, <3>1 DEF LimitInv, SockStart
    <3>2. CASE SockOuter(r)
      <4>1. sock_pc[r] = "outer" /\ sock_pc'[r] \in {"done", "inner"}
        BY <3>2 DEF SockOuter
      <4>2. CASE sock_pc'[r] = "done"
        BY <4>2
      <4>3. CASE sock_pc'[r] = "inner"
        <5>1. run /\ (HasData(sock[r]) \/ HasEnded(sock[r]))
          BY <3>2, <4>3 DEF SockOuter
        <5>2. sock[r] # INVALID_SOCKET
          BY <5>1, ConstantsAssumption DEF HasData, HasEnded, Conn
        <5>3. RecvdOf(r) = {}
          BY <2>3, <4>1, <5>1, <5>2 DEF LimitInv
        <5> QED
          BY <4>3, <5>3
      <4> QED
        BY <4>1, <4>2, <4>3
    <3>3. CASE SockInner(r)
      BY <2>3, <3>3 DEF LimitInv, SockInner
    <3>4. CASE SockPut(r)
      BY <3>4 DEF SockPut
    <3>5. CASE SockCheck(r)
      BY <2>3, <3>5 DEF SockCheck
    <3>6. CASE SockClose(r)
      BY <3>6 DEF SockClose
    <3> QED
      BY <1>3, <3>1, <3>2, <3>3, <3>4, <3>5, <3>6 DEF SockThread
  <2>4. ASSUME RecvLimit # 0, NEW s \in Runs, s # r
        PROVE  sock_pc'[s] \in {"none", "start"} => RecvdOf(s) = {}
    BY <1>2, <2>4 DEF LimitInv
  <2> QED
    BY <1>1, <1>2, <2>1, <2>2, <2>3, <2>4 DEF LimitInv, Ended
<1>4. CASE SockRecv(r)
  <2>1. CASE ~HasData(sock[r])
    <3>1. /\ sock_pc'[r] \in {"close", "inner"} /\ sock_pc[r] = "recv"
          /\ UNCHANGED <<wire, recvd, got, sock, recv_queue>>
      BY <1>4, <2>1 DEF SockRecv
    <3>2. \A s : RecvdOf(s)' = RecvdOf(s)
      BY <1>1, <3>1 DEF RecvdOf
    <3>3. ASSUME RecvLimit # 0, NEW s \in Runs, s # r
          PROVE  sock_pc'[s] \in {"none", "start"} => RecvdOf(s) = {}
      BY <1>2, <3>3 DEF LimitInv
    <3> QED
      BY <1>1, <1>2, <3>1, <3>2, <3>3 DEF LimitInv, Ended
  <2>2. CASE HasData(sock[r])
    <3> DEFINE w == wire[r]
               c == Head(w)
    <3>1. Conn(sock[r]) = r
      BY <1>0, <1>4, <2>2, OwnConnection DEF SockRecv, SockAt, SockActive
    <3>2. w \in Seq(Chunks) /\ w # <<>>
      BY <2>2, <3>1 DEF HasData, NetType
    <3>3. /\ got' = [got EXCEPT ![r] = c]
          /\ wire' = [wire EXCEPT ![r] = Tail(w)]
          /\ recvd' = recvd \cup {c}
          /\ sock_pc[r] = "recv" /\ sock_pc'[r] = "put" /\ got[r] = 0
          /\ UNCHANGED <<sock, recv_queue>>
      <4>1. sock_pc[r] = "recv" /\ got[r] = 0 /\ UNCHANGED <<sock, recv_queue>>
        BY <1>4 DEF SockRecv, SockAt, Carried
      <4>2. ~HasEnded(sock[r]) /\ ~Dead(sock[r]) /\ ~NotConn(sock[r])
        BY <2>2 DEF HasData, HasEnded, Dead, NotConn
      <4>3. /\ got' = [got EXCEPT ![r] = c]
            /\ wire' = [wire EXCEPT ![r] = Tail(w)]
            /\ recvd' = recvd \cup {c} /\ SockGoto(r, "put")
        BY <1>4, <2>2, <3>1, <4>2 DEF SockRecv
      <4> QED
        BY <4>1, <4>3 DEF SockGoto
    <3>4. Elems(w) = {c} \cup Elems(Tail(w))
      BY <3>2, ElemsTail
    <3>5. owner[c] = r
      BY <3>4 DEF LimitInv
    <3>6. \A s \in Runs : \A d \in Elems(wire'[s]) : owner'[d] = s
      <4>1. wire'[r] = Tail(w) /\ \A s \in Runs : s # r => wire'[s] = wire[s]
        BY <3>3 DEF NetType
      <4> HIDE DEF c
      <4> QED
        BY <1>1, <3>4, <4>1 DEF LimitInv
    <3>7. ASSUME NEW s \in Runs, s # r PROVE RecvdOf(s)' = RecvdOf(s)
      BY <1>1, <3>3, <3>5, <3>7 DEF RecvdOf
    <3>8. RecvdOf(r)' = RecvdOf(r) \cup {c}
      BY <1>1, <3>3, <3>5 DEF RecvdOf
    <3>9. ASSUME RecvLimit # 0, Len(recv_queue') > RecvLimit
          PROVE  RecvdOf(r)' \subseteq {got'[r]}
      <4>1. RecvdOf(r) \subseteq {0}
        BY <3>3, <3>9 DEF LimitInv
      <4>2. 0 \notin RecvdOf(r)
        BY DEF RecvdOf, HistType, Chunks
      <4> QED
        BY <3>3, <3>8, <4>1, <4>2
    <3>10. ASSUME RecvLimit # 0, NEW s \in Runs, s # r
           PROVE  sock_pc'[s] \in {"none", "start"} => RecvdOf(s) = {}
      BY <1>2, <3>10 DEF LimitInv
    <3> QED
      BY <1>1, <1>2, <3>3, <3>6, <3>7, <3>9, <3>10 DEF LimitInv, Ended
  <2> QED
    BY <2>1, <2>2
<1> QED
  BY <1>3, <1>4

\* A step of framer_thread.
LEMMA LimitFramerThread ==
  ASSUME OrderInv, LimitInv, NEW r \in Runs, FramerThread(r)
  PROVE  LimitInv'
<1> USE DEF OrderInv, OwnInv, TypeInv, TypeOK, QueueType, MngrType
<1>1. /\ UNCHANGED <<runs, mngr, sockVars, wire, recvd, owner>>
      /\ run' => run
  <2>1. CASE FramerStart(r) \/ FramerLoop(r) \/ FramerGet(r) \/ FramerFrame(r)
    BY <2>1 DEF FramerStart, FramerLoop, FramerGet, FramerFrame
  <2>2. CASE FramerLimit(r) \/ FramerErrorCheck(r) \/ FramerRunOff(r)
    BY <2>2 DEF FramerLimit, FramerErrorCheck, FramerRunOff
  <2>3. CASE \/ FramerCloseSocket(r) \/ FramerEmpty(r) \/ FramerExit(r)
             \/ FramerStopEnter(r) \/ FramerIdle(r)
    BY <2>3 DEF FramerCloseSocket, FramerEmpty, FramerExit, FramerStopEnter,
       FramerIdle
  <2> QED
    BY <2>1, <2>2, <2>3 DEF FramerThread
<1>2. \/ recv_queue' = recv_queue
      \/ recv_queue # <<>> /\ recv_queue' = Tail(recv_queue)
  <2>1. CASE FramerGet(r)
    BY <2>1 DEF FramerGet
  <2>2. CASE ~FramerGet(r)
    BY <2>2 DEF FramerThread, FramerStart, FramerLoop, FramerFrame,
       FramerLimit, FramerErrorCheck, FramerRunOff, FramerCloseSocket,
       FramerEmpty, FramerExit, FramerStopEnter, FramerIdle
  <2> QED
    BY <2>1, <2>2
<1>3. /\ Len(recv_queue) \in Nat /\ Len(recv_queue') \in Nat
      /\ Len(recv_queue') <= Len(recv_queue)
  BY <1>2
<1> QED
  BY <1>1, <1>3, LimitKept

\* recv_queue_limit ends the run: once socket_loop_thread has put a chunk
\* that leaves the queue over the limit it receives nothing more.
THEOREM LimitEndsRun == ClientWaits /\ Spec => []LimitEndsReceiving
<1>1. Init => OrderInv /\ LimitInv
  <2> SUFFICES ASSUME Init PROVE LimitInv
    BY OrderInit
  <2> QED
    BY ElemsEmpty DEF Init, LimitInv, RecvdOf
<1>2. ClientWaits /\ OrderInv /\ LimitInv /\ [Next]_vars =>
         OrderInv' /\ LimitInv'
  <2> SUFFICES ASSUME ClientWaits, OrderInv, LimitInv, [Next]_vars
               PROVE  LimitInv'
    BY OrderStep
  <2>1. CASE UNCHANGED vars
    BY <2>1 DEF LimitInv, RecvdOf
  <2> QED
    BY <2>1, LimitApplication, LimitSockThread, LimitFramerThread DEF Next
<1>3. LimitInv => LimitEndsReceiving
  BY DEF LimitInv, LimitEndsReceiving, RecvdOf
<1>4. CASE ClientWaits
  BY <1>1, <1>2, <1>3, <1>4, PTL DEF Spec
<1> QED
  BY <1>4

=============================================================================
