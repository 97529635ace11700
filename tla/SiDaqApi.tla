------------------------------ MODULE SiDaqApi ------------------------------
(***************************************************************************)
(* The manager SiDaqMngr of the SiDAQ API and the threads that work on it: *)
(*   - the application thread, which calls SiDaqInitialize, SiDaqRun,      *)
(*     SiDaqStop, SiDaqResetQueue and SiDaqTerminate, one call at a time;  *)
(*   - the application's reader thread, which calls SiDaqGetData,          *)
(*     SiDaqPauseRecvData and SiDaqResumeRecvData;                         *)
(*   - socket_loop_thread and framer_thread, one pair per SiDaqRun;        *)
(*   - the device at the other end of the TCP connection (environment).    *)
(* No lock protects the manager: an action is the stretch of a thread's    *)
(* code up to the next access of state another thread changes meanwhile,   *)
(* and the actions of all threads interleave.                              *)
(*                                                                         *)
(* The unit of data is the chunk one recv() returns; chunks are numbered   *)
(* in the order the device sends them.  A frame is a sequence of chunks:   *)
(* where inside a chunk a frame ends is the business of module Framer.  An *)
(* operation on an SQueue is atomic, which module SQueue justifies, but    *)
(* its count is read without the lock.                                     *)
(*                                                                         *)
(* A definition X_Fault is X with a plausible fault; it is used to see     *)
(* that the properties notice.                                             *)
(***************************************************************************)
EXTENDS Integers, Sequences, FiniteSets

CONSTANTS
  MaxRuns,         \* bound on the successful calls of SiDaqRun
  MaxChunks,       \* bound on the chunks the device sends
  Handles,         \* socket handle values; winsock reuses closed ones
  INVALID_SOCKET,  \* the null handle
  RecvLimit,       \* recv_queue_limit, 0 = no limit
  FrameLimit,      \* frame_queue_limit, 0 = no limit
  ClientWaits      \* does the application wait for both threads to return
                   \* before it calls SiDaqRun again or SiDaqTerminate?

Runs        == 1..MaxRuns
Chunks      == 1..MaxChunks
Unconnected == MaxRuns + 1    \* a socket whose connect() or setup failed

ASSUME ConstantsAssumption ==
  /\ MaxRuns \in Nat
  /\ MaxChunks \in Nat
  /\ RecvLimit \in Nat
  /\ FrameLimit \in Nat
  /\ INVALID_SOCKET \notin Handles
  /\ ClientWaits \in BOOLEAN

VARIABLES
  mngr,              \* the manager struct: "none", "live", "failed", "freed"
  status,            \* sidaq_mngr->status
  error_code,        \* sidaq_mngr->error_code
  run,               \* sock_param._run
  device_socket,     \* sock_param.device_socket; 0, its value before the
                     \* first SiDaqRun, is no socket either
  pause_flg,         \* sock_param.pause_flg
  queue_error_code,  \* sock_param.queue_error_code
  recv_queue,        \* squeue_list_ptr[0]: received chunks
  event_frame,       \* _eventFrame: frames
  rest,              \* the first _rest bytes of the framer's buffer
  raw,               \* has the framer been replaced by the null framer?
  framer_error,      \* _sidaq_framer->_error_code
  error_flg,         \* _sidaq_framer->_error_flg < 0
  runs,              \* number of thread pairs created
  sock_pc,           \* socket_loop_thread of each run: where it is
  sock,              \* ... its local copy of device_socket
  got,               \* ... and the chunk recv() gave it, 0 = none
  framer_pc,         \* framer_thread of each run: where it is
  hand,              \* ... and the chunk it took from recv_queue, 0 = none
  main,              \* the application thread: "idle" or a point in a call
  ret,               \* where SiDaqStop returns to: "idle" or "free"
  saved,             \* SiDaqResetQueue's local copy of status
  conn,              \* winsock: what each handle is connected to, 0 = closed
  wire,              \* chunks on their way on each run's connection
  peer,              \* has the device ended the connection of each run?
  sent,              \* number of chunks sent so far
  recvd,             \* history: the chunks recv() returned
  owner,             \* history: the run whose connection a chunk was sent on
  out,               \* history: chunks handed to the application
  dropped,           \* history: chunks SiDaqResetQueue deleted
  was_reset          \* history: has SiDaqResetQueue deleted the queues?

mngrVars   == <<status, error_code, run, device_socket, pause_flg,
                queue_error_code>>
queueVars  == <<recv_queue, event_frame>>
framerVars == <<rest, raw, framer_error, error_flg>>
sockVars   == <<sock_pc, sock, got>>
frThread   == <<framer_pc, hand>>
appVars    == <<mngr, main, ret, saved, runs>>
netVars    == <<conn, wire, peer, sent>>
histVars   == <<recvd, owner, out, dropped, was_reset>>
vars == <<mngrVars, queueVars, framerVars, sockVars, frThread, appVars,
          netVars, histVars>>

Ended == {"none", "done"}

ThreadsEnded == \A r \in Runs : sock_pc[r] \in Ended /\ framer_pc[r] \in Ended

\* The chunks of a sequence, and of a sequence of frames.
Elems(s)       == {s[i] : i \in DOMAIN s}
FrameElems(fs) == UNION {Elems(fs[i]) : i \in DOMAIN fs}

Init ==
  /\ mngr = "none" /\ status = "SIDAQ_IDLE" /\ error_code = "NO_ERROR"
  /\ run = FALSE /\ device_socket = INVALID_SOCKET /\ pause_flg = FALSE
  /\ queue_error_code = "NO_ERROR"
  /\ recv_queue = <<>> /\ event_frame = <<>>
  /\ rest = <<>> /\ raw = FALSE /\ framer_error = "NO_ERROR"
  /\ error_flg = FALSE
  /\ runs = 0
  /\ sock_pc = [r \in Runs |-> "none"]
  /\ sock = [r \in Runs |-> INVALID_SOCKET]
  /\ got = [r \in Runs |-> 0]
  /\ framer_pc = [r \in Runs |-> "none"]
  /\ hand = [r \in Runs |-> 0]
  /\ main = "idle" /\ ret = "idle" /\ saved = "SIDAQ_IDLE"
  /\ conn = [h \in Handles |-> 0]
  /\ wire = [r \in Runs |-> <<>>]
  /\ peer = [r \in Runs |-> "open"]
  /\ sent = 0 /\ recvd = {}
  /\ owner = [c \in Chunks |-> 0]
  /\ out = {} /\ dropped = {} /\ was_reset = FALSE

(***************************************************************************)
(* SiDaqInitialize: WSAStartup or the RBCP connection test may fail, and   *)
(* then the manager is returned in SIDAQ_SYS_ERROR without its queues.     *)
(***************************************************************************)
InitializeOk ==
  /\ mngr = "none" /\ main = "idle"
  /\ mngr' = "live"
  /\ run' = TRUE
  /\ UNCHANGED <<status, error_code, device_socket, pause_flg,
                 queue_error_code, queueVars, framerVars, sockVars, frThread,
                 main, ret, saved, runs, netVars, histVars>>

\* WSAStartup's failure leaves SIDAQ_NO_ERROR in error_code.
InitializeFails ==
  /\ mngr = "none" /\ main = "idle"
  /\ mngr' = "failed"
  /\ status' = "SIDAQ_SYS_ERROR"
  /\ error_code' \in {"NO_ERROR", "INITIAL_CONNECT_FAILED"}
  /\ UNCHANGED <<run, device_socket, pause_flg, queue_error_code, queueVars,
                 framerVars, sockVars, frThread, main, ret, saved, runs,
                 netVars, histVars>>

(***************************************************************************)
(* SiDaqRun.  The application calls it in SIDAQ_IDLE or SIDAQ_SYS_ERROR.   *)
(* It opens and publishes the socket and starts socket_loop_thread, sets   *)
(* up the framer and starts framer_thread, and only then sets the status.  *)
(***************************************************************************)
MayRun ==
  /\ mngr = "live" /\ main = "idle"
  /\ status \in {"SIDAQ_IDLE", "SIDAQ_SYS_ERROR"}
  /\ ClientWaits => ThreadsEnded

\* header_len >= max_frame_len, or socket() fails.
RunRefused ==
  /\ MayRun
  /\ error_code' \in {"INVALID_PARAMETER", "WINSOCK_ERROR"}
  /\ status' = "SIDAQ_SYS_ERROR"
  /\ UNCHANGED <<run, device_socket, pause_flg, queue_error_code, queueVars,
                 framerVars, sockVars, frThread, appVars, netVars, histVars>>

\* getaddrinfo(), connect() or setsockopt() fails: the new socket stays open.
RunNotConnected ==
  /\ MayRun
  /\ \E h \in Handles :
        conn[h] = 0 /\ conn' = [conn EXCEPT ![h] = Unconnected]
  /\ error_code' = "WINSOCK_ERROR"
  /\ status' = "SIDAQ_SYS_ERROR"
  /\ UNCHANGED <<run, device_socket, pause_flg, queue_error_code, queueVars,
                 framerVars, sockVars, frThread, appVars, wire, peer, sent,
                 histVars>>

RunConnect ==
  /\ MayRun
  /\ runs < MaxRuns
  /\ runs' = runs + 1
  /\ \E h \in Handles :
        /\ conn[h] = 0
        /\ conn' = [conn EXCEPT ![h] = runs + 1]
        /\ device_socket' = h
  /\ error_code' = "NO_ERROR"
  /\ run' = TRUE
  /\ queue_error_code' = "NO_ERROR"
  /\ sock_pc' = [sock_pc EXCEPT ![runs + 1] = "start"]
  /\ main' = "run_framer"
  /\ UNCHANGED <<status, pause_flg, queueVars, framerVars, sock, got, frThread,
                 mngr, ret, saved, wire, peer, sent, histVars>>

\* The framer of the previous run is reused; its _rest is not reset.
RunFramer ==
  /\ mngr = "live" /\ main = "run_framer"
  /\ raw' = FALSE
  /\ error_flg' = FALSE
  /\ framer_error' = "NO_ERROR"
  /\ framer_pc' = [framer_pc EXCEPT ![runs] = "start"]
  /\ main' = "run_status"
  /\ UNCHANGED <<mngrVars, queueVars, rest, sockVars, hand, mngr, ret, saved,
                 runs, netVars, histVars>>

RunStatus ==
  /\ mngr = "live" /\ main = "run_status"
  /\ status' = "SIDAQ_RUN"
  /\ main' = "idle"
  /\ UNCHANGED <<error_code, run, device_socket, pause_flg, queue_error_code,
                 queueVars, framerVars, sockVars, frThread, mngr, ret, saved,
                 runs, netVars, histVars>>

(***************************************************************************)
(* SiDaqStop, the steps both the application and framer_thread execute.    *)
(* WaitForSingleObject(sock_thread, 500) returns when the thread ended and *)
(* when 500 ms have passed, and its result is not looked at: it guards     *)
(* nothing.  SOCKET is unsigned, so device_socket >= 0 always holds, and   *)
(* closesocket(INVALID_SOCKET) does nothing.                               *)
(***************************************************************************)
Stoppable == status \in {"SIDAQ_RUN", "SIDAQ_SYS_ERROR"}

\* Where SiDaqStop goes on: the test of the status and its change are apart.
StopEntry == IF status = "SIDAQ_RUN" THEN "stop_enter" ELSE "stop_run"

CloseDeviceSocket_Open ==
  UNCHANGED conn /\ device_socket' = INVALID_SOCKET

CloseDeviceSocket_Stale ==
  /\ conn' = [h \in Handles |-> IF h = device_socket THEN 0 ELSE conn[h]]
  /\ UNCHANGED device_socket

CloseDeviceSocket ==
  /\ conn' = [h \in Handles |-> IF h = device_socket THEN 0 ELSE conn[h]]
  /\ device_socket' = INVALID_SOCKET

\* The application calls SiDaqStop, directly or through SiDaqTerminate.
CallStop(next) ==
  /\ main = "idle"
  /\ \/ Stoppable /\ main' = StopEntry /\ ret' = next
     \/ ~Stoppable /\ main' = next /\ UNCHANGED ret
  /\ UNCHANGED <<mngrVars, queueVars, framerVars, sockVars, frThread, mngr,
                 saved, runs, netVars, histVars>>

Stop == mngr = "live" /\ Stoppable /\ CallStop("idle")

StopEnter ==
  /\ main = "stop_enter"
  /\ status' = "SIDAQ_STOPPING"
  /\ main' = "stop_run"
  /\ UNCHANGED <<error_code, run, device_socket, pause_flg, queue_error_code,
                 queueVars, framerVars, sockVars, frThread, mngr, ret, saved,
                 runs, netVars, histVars>>

StopRun ==
  /\ main = "stop_run"
  /\ run' = FALSE
  /\ main' = "stop_close"
  /\ UNCHANGED <<status, error_code, device_socket, pause_flg,
                 queue_error_code, queueVars, framerVars, sockVars, frThread,
                 mngr, ret, saved, runs, netVars, histVars>>

StopClose ==
  /\ main = "stop_close"
  /\ CloseDeviceSocket
  /\ main' = ret
  /\ ret' = "idle"
  /\ UNCHANGED <<status, error_code, run, pause_flg, queue_error_code,
                 queueVars, framerVars, sockVars, frThread, mngr, saved, runs,
                 wire, peer, sent, histVars>>

(***************************************************************************)
(* SiDaqTerminate: SiDaqStop, then everything is freed.  Neither thread is *)
(* waited for.                                                             *)
(***************************************************************************)
Terminate ==
  /\ mngr \in {"live", "failed"}
  /\ ClientWaits => ThreadsEnded
  /\ CallStop("free")

Free ==
  /\ main = "free"
  /\ mngr' = "freed"
  /\ main' = "idle"
  /\ UNCHANGED <<mngrVars, queueVars, framerVars, sockVars, frThread, ret,
                 saved, runs, netVars, histVars>>

(***************************************************************************)
(* SiDaqResetQueue: both queues are emptied, one SQGet at a time, while    *)
(* the status is SIDAQ_RESET.  What framer_thread holds is left alone.     *)
(***************************************************************************)
ResetQueue ==
  /\ mngr = "live" /\ main = "idle"
  /\ status \in {"SIDAQ_STOPPING", "SIDAQ_SYS_ERROR"}
  /\ saved' = status
  /\ status' = "SIDAQ_RESET"
  /\ was_reset' = TRUE
  /\ main' = "reset_recv"
  /\ UNCHANGED <<error_code, run, device_socket, pause_flg, queue_error_code,
                 queueVars, framerVars, sockVars, frThread, mngr, ret, runs,
                 netVars, recvd, owner, out, dropped>>

ResetRecv ==
  /\ main = "reset_recv"
  /\ \/ /\ recv_queue # <<>>
        /\ recv_queue' = Tail(recv_queue)
        /\ dropped' = dropped \cup {Head(recv_queue)}
        /\ UNCHANGED main
     \/ /\ recv_queue = <<>>
        /\ main' = "reset_frame"
        /\ UNCHANGED <<recv_queue, dropped>>
  /\ UNCHANGED <<mngrVars, event_frame, framerVars, sockVars, frThread, mngr,
                 ret, saved, runs, netVars, recvd, owner, out, was_reset>>

ResetFrame ==
  /\ main = "reset_frame"
  /\ \/ /\ event_frame # <<>>
        /\ event_frame' = Tail(event_frame)
        /\ dropped' = dropped \cup Elems(Head(event_frame))
        /\ UNCHANGED <<main, status, saved>>
     \/ /\ event_frame = <<>>
        /\ status' = IF saved = "SIDAQ_SYS_ERROR" THEN saved ELSE "SIDAQ_IDLE"
        /\ saved' = "SIDAQ_IDLE"
        /\ main' = "idle"
        /\ UNCHANGED <<event_frame, dropped>>
  /\ UNCHANGED <<error_code, run, device_socket, pause_flg, queue_error_code,
                 recv_queue, framerVars, sockVars, frThread, mngr, ret, runs,
                 netVars, recvd, owner, out, was_reset>>

(***************************************************************************)
(* The application's reader thread.                                        *)
(***************************************************************************)
GetData ==
  /\ mngr = "live"
  /\ event_frame # <<>>
  /\ event_frame' = Tail(event_frame)
  /\ out' = out \cup Elems(Head(event_frame))
  /\ UNCHANGED <<mngrVars, recv_queue, framerVars, sockVars, frThread,
                 appVars, netVars, recvd, owner, dropped, was_reset>>

\* SiDaqPauseRecvData and SiDaqResumeRecvData; both do nothing unless _run.
SetPause(flag) ==
  /\ mngr = "live"
  /\ run
  /\ pause_flg' = flag
  /\ UNCHANGED <<status, error_code, run, device_socket, queue_error_code,
                 queueVars, framerVars, sockVars, frThread, appVars, netVars,
                 histVars>>

(***************************************************************************)
(* The device, as far as TCP shows it.                                     *)
(***************************************************************************)
Connected(r) == \E h \in Handles : conn[h] = r

DeviceSend(r) ==
  /\ Connected(r) /\ peer[r] = "open"
  /\ sent < MaxChunks
  /\ sent' = sent + 1
  /\ wire' = [wire EXCEPT ![r] = Append(@, sent + 1)]
  /\ owner' = [owner EXCEPT ![sent + 1] = r]
  /\ UNCHANGED <<mngrVars, queueVars, framerVars, sockVars, frThread, appVars,
                 conn, peer, recvd, out, dropped, was_reset>>

DeviceClose(r) ==
  /\ Connected(r) /\ peer[r] = "open"
  /\ peer' = [peer EXCEPT ![r] = "closed"]
  /\ UNCHANGED <<mngrVars, queueVars, framerVars, sockVars, frThread, appVars,
                 conn, wire, sent, histVars>>

(***************************************************************************)
(* socket_loop_thread of run r.                                            *)
(*   outer: while (SOCKTHREAD_IS_RUN) and select()                         *)
(*   inner: while (TRUE), left only when the socket is gone or when _run   *)
(*          is seen FALSE while receiving is paused                        *)
(***************************************************************************)
SockAt(r, pc) == mngr = "live" /\ sock_pc[r] = pc
SockGoto(r, pc) == sock_pc' = [sock_pc EXCEPT ![r] = pc]

\* What select() and recv() find at the handle h.
Conn(h)     == IF h = INVALID_SOCKET THEN 0 ELSE conn[h]
Dead(h)     == Conn(h) = 0
NotConn(h)  == Conn(h) = Unconnected
HasData(h)  == Conn(h) \in Runs /\ wire[Conn(h)] # <<>>
HasEnded(h) == Conn(h) \in Runs /\ wire[Conn(h)] = <<>>
                                /\ peer[Conn(h)] = "closed"

SockStart(r) ==
  /\ SockAt(r, "start")
  /\ \/ /\ sock' = [sock EXCEPT ![r] = device_socket]
        /\ queue_error_code' = "NO_ERROR"
        /\ pause_flg' = FALSE
        /\ SockGoto(r, "outer")
     \/ /\ SockGoto(r, "done")                  \* malloc() fails
        /\ UNCHANGED <<sock, queue_error_code, pause_flg>>
  /\ UNCHANGED <<status, error_code, run, device_socket, queueVars,
                 framerVars, got, frThread, appVars, netVars, histVars>>

SockOuter(r) ==
  /\ SockAt(r, "outer")
  /\ \/ /\ ~run \/ Dead(sock[r])
        /\ SockGoto(r, "done")
        /\ sock' = [sock EXCEPT ![r] = INVALID_SOCKET]
     \/ /\ run /\ (HasData(sock[r]) \/ HasEnded(sock[r]))
        /\ SockGoto(r, "inner")
        /\ UNCHANGED sock
  /\ UNCHANGED <<mngrVars, queueVars, framerVars, got, frThread,
                 appVars, netVars, histVars>>

SockInner(r) ==
  /\ SockAt(r, "inner")
  /\ \/ ~pause_flg /\ SockGoto(r, "recv")
     \/ pause_flg /\ ~run /\ SockGoto(r, "outer")
  /\ UNCHANGED <<mngrVars, queueVars, framerVars, sock, got, frThread,
                 appVars, netVars, histVars>>

SockRecv(r) ==
  /\ SockAt(r, "recv")
  /\ LET h == sock[r] IN
     \/ /\ HasData(h)
        /\ got' = [got EXCEPT ![r] = Head(wire[Conn(h)])]
        /\ wire' = [wire EXCEPT ![Conn(h)] = Tail(@)]
        /\ recvd' = recvd \cup {Head(wire[Conn(h)])}
        /\ SockGoto(r, "put")
     \/ /\ Dead(h) \/ HasEnded(h) \/ NotConn(h)
        /\ SockGoto(r, "close")
        /\ UNCHANGED <<wire, recvd, got>>
     \/ /\ ~(Dead(h) \/ HasData(h) \/ HasEnded(h) \/ NotConn(h))
        /\ SockGoto(r, "inner")                 \* WSAEWOULDBLOCK
        /\ UNCHANGED <<wire, recvd, got>>
  /\ UNCHANGED <<mngrVars, queueVars, framerVars, sock, frThread, appVars,
                 conn, peer, sent, owner, out, dropped, was_reset>>

SockPut_Front(r) ==
  /\ SockAt(r, "put")
  /\ recv_queue' = <<got[r]>> \o recv_queue
  /\ got' = [got EXCEPT ![r] = 0]
  /\ SockGoto(r, "check")
  /\ UNCHANGED <<mngrVars, event_frame, framerVars, sock, frThread, appVars,
                 netVars, histVars>>

SockPut(r) ==
  /\ SockAt(r, "put")
  /\ recv_queue' = Append(recv_queue, got[r])
  /\ got' = [got EXCEPT ![r] = 0]
  /\ SockGoto(r, "check")
  /\ UNCHANGED <<mngrVars, event_frame, framerVars, sock, frThread, appVars,
                 netVars, histVars>>

SockCheck_Off(r) ==
  /\ SockAt(r, "check")
  /\ SockGoto(r, "inner")
  /\ UNCHANGED <<mngrVars, queueVars, framerVars, sock, got, frThread,
                 appVars, netVars, histVars>>

\* queue_limit is compared with the count as it is after the put.
SockCheck(r) ==
  /\ SockAt(r, "check")
  /\ IF RecvLimit # 0 /\ Len(recv_queue) > RecvLimit
     THEN /\ queue_error_code' = "EXCEED_RECV_QUEUE_COUNT"
          /\ SockGoto(r, "close")
     ELSE /\ SockGoto(r, "inner")
          /\ UNCHANGED queue_error_code
  /\ UNCHANGED <<status, error_code, run, device_socket, pause_flg, queueVars,
                 framerVars, sock, got, frThread, appVars, netVars, histVars>>

\* closesocket() of the local copy, whoever has closed it before.
SockClose(r) ==
  /\ SockAt(r, "close")
  /\ conn' = [h \in Handles |-> IF h = sock[r] THEN 0 ELSE conn[h]]
  /\ device_socket' = INVALID_SOCKET
  /\ sock' = [sock EXCEPT ![r] = INVALID_SOCKET]
  /\ SockGoto(r, "outer")
  /\ UNCHANGED <<status, error_code, run, pause_flg, queue_error_code,
                 queueVars, framerVars, got, frThread, appVars, wire, peer,
                 sent, histVars>>

SockThread(r) ==
  \/ SockStart(r) \/ SockOuter(r) \/ SockInner(r) \/ SockRecv(r)
  \/ SockPut(r) \/ SockCheck(r) \/ SockClose(r)

(***************************************************************************)
(* framer_thread of run r.                                                 *)
(***************************************************************************)
FramerAt(r, pc) == mngr = "live" /\ framer_pc[r] = pc
FramerGoto(r, pc) == framer_pc' = [framer_pc EXCEPT ![r] = pc]

FramerStart(r) ==
  /\ FramerAt(r, "start")
  /\ framer_error' = "NO_ERROR"
  /\ FramerGoto(r, "loop")
  /\ UNCHANGED <<mngrVars, queueVars, rest, raw, error_flg, sockVars, hand,
                 appVars, netVars, histVars>>

FramerLoop(r) ==
  /\ FramerAt(r, "loop")
  /\ FramerGoto(r, IF status \in {"SIDAQ_IDLE", "SIDAQ_RESET"} THEN "exit"
                                                              ELSE "get")
  /\ UNCHANGED <<mngrVars, queueVars, framerVars, sockVars, hand, appVars,
                 netVars, histVars>>

FramerGet_NoNullTest(r) ==
  /\ FramerAt(r, "get")
  /\ hand' = [hand EXCEPT ![r] = IF recv_queue = <<>> THEN 0
                                                     ELSE Head(recv_queue)]
  /\ recv_queue' = IF recv_queue = <<>> THEN <<>> ELSE Tail(recv_queue)
  /\ FramerGoto(r, "frame")
  /\ UNCHANGED <<mngrVars, event_frame, framerVars, sockVars, appVars,
                 netVars, histVars>>

FramerGet(r) ==
  /\ FramerAt(r, "get")
  /\ \/ /\ recv_queue # <<>>
        /\ hand' = [hand EXCEPT ![r] = Head(recv_queue)]
        /\ recv_queue' = Tail(recv_queue)
        /\ FramerGoto(r, "frame")
     \/ /\ recv_queue = <<>>
        /\ FramerGoto(r, "empty")
        /\ UNCHANGED <<hand, recv_queue>>
  /\ UNCHANGED <<mngrVars, event_frame, framerVars, sockVars, appVars,
                 netVars, histVars>>

(***************************************************************************)
(* RecvSiDaqData: the chunk completes a frame with what is left of earlier *)
(* ones, or is kept.  When no frame length can be computed everything      *)
(* there is becomes a frame and the null framer takes over, which makes    *)
(* every further chunk a frame of its own.                                 *)
(***************************************************************************)
FramerFrame(r) ==
  /\ FramerAt(r, "frame")
  /\ \/ /\ event_frame' = Append(event_frame, Append(rest, hand[r]))
        /\ rest' = <<>>
        /\ FramerGoto(r, IF FrameLimit # 0 THEN "limit" ELSE "error")
        /\ \/ UNCHANGED <<raw, framer_error>>
           \/ /\ ~raw
              /\ raw' = TRUE
              /\ framer_error' = "GET_FRAME_LENGTH_FAILED"
     \/ /\ ~raw
        /\ rest' = Append(rest, hand[r])
        /\ FramerGoto(r, "error")
        /\ UNCHANGED <<event_frame, raw, framer_error>>
  /\ hand' = [hand EXCEPT ![r] = 0]
  /\ UNCHANGED <<mngrVars, recv_queue, error_flg, sockVars, appVars, netVars,
                 histVars>>

\* _queue_limit is compared with the count as it is after the put.
FramerLimit(r) ==
  /\ FramerAt(r, "limit")
  /\ framer_error' = IF Len(event_frame) >= FrameLimit
                     THEN "EXCEED_FRAME_QUEUE_COUNT" ELSE framer_error
  /\ FramerGoto(r, "error")
  /\ UNCHANGED <<mngrVars, queueVars, rest, raw, error_flg, sockVars, hand,
                 appVars, netVars, histVars>>

SetError(code) ==
  /\ error_flg' = TRUE
  /\ status' = "SIDAQ_SYS_ERROR"
  /\ error_code' = code

FramerErrorCheck_NoQueueError(r) ==
  /\ FramerAt(r, "error")
  /\ \/ /\ ~error_flg /\ framer_error # "NO_ERROR"
        /\ SetError(framer_error)
        /\ FramerGoto(r, "kill")
     \/ /\ error_flg \/ framer_error = "NO_ERROR"
        /\ FramerGoto(r, "loop")
        /\ UNCHANGED <<error_flg, status, error_code>>
  /\ UNCHANGED <<run, device_socket, pause_flg, queue_error_code, queueVars,
                 rest, raw, framer_error, sockVars, hand, appVars, netVars,
                 histVars>>

FramerErrorCheck(r) ==
  /\ FramerAt(r, "error")
  /\ \/ /\ ~error_flg /\ framer_error # "NO_ERROR"
        /\ SetError(framer_error)
        /\ FramerGoto(r, "kill")
     \/ /\ ~error_flg /\ framer_error = "NO_ERROR"
        /\ queue_error_code # "NO_ERROR"
        /\ SetError(queue_error_code)
        /\ FramerGoto(r, "loop")
     \/ /\ error_flg \/ (framer_error = "NO_ERROR"
                         /\ queue_error_code = "NO_ERROR")
        /\ FramerGoto(r, "loop")
        /\ UNCHANGED <<error_flg, status, error_code>>
  /\ UNCHANGED <<run, device_socket, pause_flg, queue_error_code, queueVars,
                 rest, raw, framer_error, sockVars, hand, appVars, netVars,
                 histVars>>

\* The thread sets _run FALSE: after a framing error, and inside SiDaqStop.
FramerRunOff(r) ==
  /\ \/ FramerAt(r, "kill") /\ FramerGoto(r, "kill_close")
     \/ FramerAt(r, "stop_run") /\ FramerGoto(r, "stop_close")
  /\ run' = FALSE
  /\ UNCHANGED <<status, error_code, device_socket, pause_flg,
                 queue_error_code, queueVars, framerVars, sockVars, hand,
                 appVars, netVars, histVars>>

\* ... and closes the socket, whether or not socket_loop_thread has ended.
FramerCloseSocket(r) ==
  /\ \/ FramerAt(r, "kill_close") /\ FramerGoto(r, "loop")
     \/ FramerAt(r, "stop_close") /\ FramerGoto(r, "done")
  /\ CloseDeviceSocket
  /\ UNCHANGED <<status, error_code, run, pause_flg, queue_error_code,
                 queueVars, framerVars, sockVars, hand, appVars, wire, peer,
                 sent, histVars>>

FlushRest_Discard == rest' = <<>> /\ UNCHANGED event_frame

FlushRest_Keep == UNCHANGED <<rest, event_frame>>

\* The rest of the data becomes the last frame.
FlushRest ==
  /\ event_frame' = IF rest = <<>> THEN event_frame
                                   ELSE Append(event_frame, rest)
  /\ rest' = <<>>

FramerEmpty_SocketIgnored(r) ==
  /\ FramerAt(r, "empty")
  /\ \/ /\ status # "SIDAQ_STOPPING"
        /\ FramerGoto(r, "loop")
        /\ UNCHANGED <<event_frame, rest>>
     \/ /\ status = "SIDAQ_STOPPING"
        /\ FlushRest
        /\ FramerGoto(r, "exit")
  /\ UNCHANGED <<mngrVars, recv_queue, raw, framer_error, error_flg, sockVars,
                 hand, appVars, netVars, histVars>>

\* SQGet gave nothing: the thread ends in SIDAQ_STOPPING, or without socket.
FramerEmpty(r) ==
  /\ FramerAt(r, "empty")
  /\ \/ /\ status # "SIDAQ_STOPPING" /\ device_socket # INVALID_SOCKET
        /\ FramerGoto(r, "loop")
        /\ UNCHANGED <<event_frame, rest, error_flg, status, error_code>>
     \/ /\ status = "SIDAQ_STOPPING" \/ device_socket = INVALID_SOCKET
        /\ FlushRest
        /\ FramerGoto(r, "exit")
        /\ IF /\ status # "SIDAQ_STOPPING"
              /\ ~error_flg /\ queue_error_code # "NO_ERROR"
           THEN SetError(queue_error_code)
           ELSE UNCHANGED <<error_flg, status, error_code>>
  /\ UNCHANGED <<run, device_socket, pause_flg, queue_error_code, recv_queue,
                 raw, framer_error, sockVars, hand, appVars, netVars,
                 histVars>>

\* SiDaqStop after an error; nothing in SIDAQ_RESET; else SIDAQ_IDLE is next.
FramerExit(r) ==
  /\ FramerAt(r, "exit")
  /\ FramerGoto(r, IF error_flg
                   THEN IF Stoppable THEN StopEntry ELSE "done"
                   ELSE IF status = "SIDAQ_RESET" THEN "done" ELSE "idle")
  /\ UNCHANGED <<mngrVars, queueVars, framerVars, sockVars, hand, appVars,
                 netVars, histVars>>

FramerStopEnter(r) ==
  /\ FramerAt(r, "stop_enter")
  /\ status' = "SIDAQ_STOPPING"
  /\ FramerGoto(r, "stop_run")
  /\ UNCHANGED <<error_code, run, device_socket, pause_flg, queue_error_code,
                 queueVars, framerVars, sockVars, hand, appVars, netVars,
                 histVars>>

FramerIdle(r) ==
  /\ FramerAt(r, "idle")
  /\ status' = "SIDAQ_IDLE"
  /\ FramerGoto(r, "done")
  /\ UNCHANGED <<error_code, run, device_socket, pause_flg, queue_error_code,
                 queueVars, framerVars, sockVars, hand, appVars, netVars,
                 histVars>>

FramerThread(r) ==
  \/ FramerStart(r) \/ FramerLoop(r) \/ FramerGet(r) \/ FramerFrame(r)
  \/ FramerLimit(r) \/ FramerErrorCheck(r) \/ FramerRunOff(r)
  \/ FramerCloseSocket(r) \/ FramerEmpty(r) \/ FramerExit(r)
  \/ FramerStopEnter(r) \/ FramerIdle(r)

-----------------------------------------------------------------------------
\* The steps of a call the application thread is inside of.
InCall == RunFramer \/ RunStatus \/ StopEnter \/ StopRun \/ StopClose
          \/ Free \/ ResetRecv \/ ResetFrame

Application ==
  \/ InitializeOk \/ InitializeFails
  \/ RunRefused \/ RunNotConnected \/ RunConnect
  \/ Stop \/ Terminate \/ ResetQueue
  \/ InCall

Reader == GetData \/ SetPause(TRUE) \/ SetPause(FALSE)

Device == \E r \in Runs : DeviceSend(r) \/ DeviceClose(r)

Next ==
  \/ Application \/ Reader \/ Device
  \/ \E r \in Runs : SockThread(r) \/ FramerThread(r)

Spec == Init /\ [][Next]_vars

\* The scheduler runs every thread that can run; the application calls the
\* API when it likes, but a call it is inside of goes on.
Fairness ==
  /\ WF_vars(InCall)
  /\ \A r \in Runs : WF_vars(SockThread(r)) /\ WF_vars(FramerThread(r))

FairSpec == Spec /\ Fairness

-----------------------------------------------------------------------------
Statuses == {"SIDAQ_IDLE", "SIDAQ_RUN", "SIDAQ_STOPPING", "SIDAQ_RESET",
             "SIDAQ_SYS_ERROR"}
FramerErrors == {"NO_ERROR", "GET_FRAME_LENGTH_FAILED",
                 "EXCEED_FRAME_QUEUE_COUNT"}
QueueErrors == {"NO_ERROR", "EXCEED_RECV_QUEUE_COUNT"}
ErrorCodes == FramerErrors \cup QueueErrors \cup
              {"INVALID_PARAMETER", "WINSOCK_ERROR", "INITIAL_CONNECT_FAILED"}
MainPoints == {"idle", "run_framer", "run_status", "stop_enter", "stop_run",
               "stop_close", "free", "reset_recv", "reset_frame"}
SockPoints == {"none", "start", "outer", "inner", "recv", "put", "check",
               "close", "done"}
FramerPoints == {"none", "start", "loop", "get", "frame", "limit", "error",
                 "kill", "kill_close", "empty", "exit", "stop_enter",
                 "stop_run", "stop_close", "idle", "done"}
Sockets == Handles \cup {INVALID_SOCKET}

MngrType ==
  /\ status \in Statuses
  /\ error_code \in ErrorCodes
  /\ run \in BOOLEAN
  /\ device_socket \in Sockets
  /\ pause_flg \in BOOLEAN
  /\ queue_error_code \in QueueErrors

QueueType ==
  /\ recv_queue \in Seq(Chunks)
  /\ event_frame \in Seq(Seq(Chunks))
  /\ rest \in Seq(Chunks)

FlagType ==
  /\ raw \in BOOLEAN
  /\ framer_error \in FramerErrors
  /\ error_flg \in BOOLEAN

ThreadType ==
  /\ sock_pc \in [Runs -> SockPoints]
  /\ sock \in [Runs -> Sockets]
  /\ got \in [Runs -> Chunks \cup {0}]
  /\ framer_pc \in [Runs -> FramerPoints]
  /\ hand \in [Runs -> Chunks \cup {0}]

AppType ==
  /\ mngr \in {"none", "live", "failed", "freed"}
  /\ main \in MainPoints
  /\ ret \in {"idle", "free"}
  /\ saved \in Statuses
  /\ runs \in 0..MaxRuns

NetType ==
  /\ conn \in [Handles -> 0..Unconnected]
  /\ wire \in [Runs -> Seq(Chunks)]
  /\ peer \in [Runs -> {"open", "closed"}]
  /\ sent \in 0..MaxChunks

HistType ==
  /\ recvd \in SUBSET Chunks
  /\ owner \in [Chunks -> 0..MaxRuns]
  /\ out \in SUBSET Chunks
  /\ dropped \in SUBSET Chunks
  /\ was_reset \in BOOLEAN

\* Every variable of the manager, the threads, the network and the histories
\* has its type.
TypeOK ==
  /\ MngrType /\ QueueType /\ FlagType
  /\ ThreadType /\ AppType /\ NetType /\ HistType

-----------------------------------------------------------------------------
\* The chunks that are on their way from socket_loop_thread to the reader.
InHands == ({got[r] : r \in Runs} \cup {hand[r] : r \in Runs}) \ {0}
Held == InHands \cup Elems(recv_queue) \cup Elems(rest)
        \cup FrameElems(event_frame)

\* No chunk that recv() returned is lost between the three threads: it is
\* held by a thread, a queue or the framer until the application gets it or
\* SiDaqResetQueue deletes it.  Whatever the application does.  (The bytes
\* RecvSiDaqData drops inside a chunk at its queue limit: module Framer.)
NoLoss == recvd = out \cup dropped \cup Held

Increasing(s) == \A i, j \in DOMAIN s : i < j => s[i] < s[j]
Before(S, T)  == \A x \in S, y \in T : x < y

\* The reader gets the chunks in the order the device sent them: each stage
\* of the way holds later chunks than the stages behind it and is in order
\* itself.  This needs the application to wait for the threads of a run
\* before it starts the next.
InOrder ==
  /\ Increasing(recv_queue) /\ Increasing(rest)
  /\ \A i \in DOMAIN event_frame : Increasing(event_frame[i])
  /\ \A i, j \in DOMAIN event_frame :
        i < j => Before(Elems(event_frame[i]), Elems(event_frame[j]))
  /\ Before(out, Held)
  /\ Before(FrameElems(event_frame), Elems(rest) \cup Elems(recv_queue))
  /\ Before(Elems(rest), Elems(recv_queue))
  /\ \A r \in Runs :
        /\ hand[r] # 0 =>
              /\ Before(FrameElems(event_frame) \cup Elems(rest), {hand[r]})
              /\ Before({hand[r]}, Elems(recv_queue))
        /\ got[r] # 0 => Before(Held \ {got[r]}, {got[r]})

\* framer_thread never ends with part of a frame in its buffer, unless
\* SiDaqResetQueue took it out of its loop: the rest has become a frame.
RestFlushed ==
  ~was_reset /\ (\A r \in Runs : framer_pc[r] \in Ended) => rest = <<>>

\* In SIDAQ_STOPPING, when SiDaqStop has returned and the threads have ended,
\* the connection of the run is closed, whoever closed it.
StoppingClosed ==
  (status = "SIDAQ_STOPPING" /\ main = "idle" /\ ThreadsEnded) =>
     device_socket = INVALID_SOCKET /\ ~Connected(runs)

\* A thread that calls closesocket(), be it for the second time, closes the
\* connection of the current run or nothing, never a handle that winsock has
\* meanwhile given to another socket.
ClosesOwn ==
  [][\A h \in Handles : conn'[h] = 0 => conn[h] \in {0, runs}]_vars

\* recv_queue_limit ends the run: socket_loop_thread goes on receiving only
\* while recv_queue is within the limit.  A queue that an earlier run left
\* over the limit is noticed at the first chunk the thread puts into it.
LimitEndsReceiving ==
  RecvLimit # 0 =>
     \A r \in Runs :
        sock_pc[r] \in {"inner", "recv", "put"} /\ Len(recv_queue) > RecvLimit
           => \A c \in recvd : owner[c] = r => c = got[r]

\* How many of its own steps each thread has left, at most, when the socket
\* is closed and, for framer_thread, recv_queue is empty.
SockSteps ==
  [none |-> 0, done |-> 0, outer |-> 1, close |-> 2, start |-> 2, recv |-> 3,
   inner |-> 4, check |-> 5, put |-> 6]
FramerSteps ==
  [none |-> 0, done |-> 0, idle |-> 1, stop_close |-> 1, stop_run |-> 2,
   stop_enter |-> 3, exit |-> 4, empty |-> 5, get |-> 6, loop |-> 7,
   start |-> 8, kill_close |-> 8, kill |-> 9, error |-> 10, limit |-> 11,
   frame |-> 12]

\* A closed socket ends socket_loop_thread, in at most six of its steps:
\* whoever of the three threads closed it and wherever that finds the loop,
\* nobody reopens it, and each step takes the thread nearer to its end.
SocketLoopRunsOut(r) ==
  sock_pc[r] \notin Ended /\ device_socket = INVALID_SOCKET =>
     /\ device_socket' = INVALID_SOCKET
     /\ \/ sock_pc'[r] = sock_pc[r]
        \/ SockSteps[sock_pc'[r]] < SockSteps[sock_pc[r]]

\* Each chunk still in recv_queue costs framer_thread one round of its loop.
FramerWork(r) == 7 * Len(recv_queue) + FramerSteps[framer_pc[r]]

ReceivingOver ==
  device_socket = INVALID_SOCKET /\ \A r \in Runs : sock_pc[r] \in Ended

\* When the connection is closed and nothing is received any more,
\* framer_thread has a bounded number of steps left, whatever the status is
\* and whatever the application does to it: the chunks that are queued, then
\* its end.
FramerRunsOut(r) ==
  framer_pc[r] \notin Ended /\ ReceivingOver =>
     /\ ReceivingOver'
     /\ FramerWork(r)' <= FramerWork(r)
     /\ framer_pc'[r] # framer_pc[r] => FramerWork(r)' < FramerWork(r)

\* A closed connection ends the threads of the run one after the other, in a
\* number of steps that what is queued bounds.
ThreadsRunOut ==
  [][\A r \in Runs : SocketLoopRunsOut(r) /\ FramerRunsOut(r)]_vars

\* An exceeded recv_queue_limit is not passed over: a framer_thread that is
\* framing does not leave its loop, and does not go on to wait for data,
\* before it has reported the error.  SiDaqStop, which ends the loop as soon
\* as recv_queue is empty, comes too late for that; SiDaqResetQueue does not.
Framing == {"get", "frame", "limit", "error"}

QueueErrorKept ==
  [][\A r \in Runs :
        /\ queue_error_code # "NO_ERROR" /\ ~error_flg /\ ~was_reset
        /\ framer_pc[r] \in Framing
        => framer_pc'[r] \in Framing \/ error_flg']_vars

-----------------------------------------------------------------------------
\* SiDaqStop ends socket_loop_thread.  The receive loop does not look at
\* _run: it is the closed socket that makes recv() fail and the thread end.
StopEndsSocketThread ==
  \A r \in Runs : (main = "stop_run" /\ runs = r) ~> sock_pc[r] \in Ended

\* Once the measurement is stopped, reset or in error, and no call is under
\* way, framer_thread ends.
NotRunningEndsFramer ==
  \A r \in Runs :
     /\ framer_pc[r] \notin Ended /\ main = "idle"
     /\ status \in {"SIDAQ_STOPPING", "SIDAQ_RESET", "SIDAQ_SYS_ERROR"}
     ~> framer_pc[r] \in Ended

-----------------------------------------------------------------------------
\* README.md: "All received data is framed and stored in the event queue."
\* When a run is over, nothing it received is left in recv_queue.
ReceivedIsFramed ==
  (status = "SIDAQ_IDLE" /\ main = "idle" /\ ThreadsEnded) =>
     recv_queue = <<>>

\* README.md, SIDAQ_STOPPING: "Transitions to `SIDAQ_IDLE` after framing has
\* finished."
StoppingEnds ==
  status = "SIDAQ_STOPPING" ~> status # "SIDAQ_STOPPING" \/ mngr = "freed"

\* README.md: "The beginning of the received data string passed is always the
\* beginning of the event data."  A frame has data of one connection only.
FramesOfOneRun ==
  \A i \in DOMAIN event_frame :
     \A c, d \in Elems(event_frame[i]) : owner[c] = owner[d]
=============================================================================
