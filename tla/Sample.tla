------------------------------- MODULE Sample -------------------------------
(***************************************************************************)
(* The two sample programs: the MFC dialog CSiDaqMfcSampleDlg and the C#   *)
(* form SiDaqConnect.  They have the same shape:                           *)
(*   - the GUI thread handles the buttons Connect, Run/Stop and Reset and  *)
(*     a timer, and remembers in a GUI status which buttons are enabled;   *)
(*   - recv_thread, one per run, takes frames from the API, writes them to *)
(*     the run's file and ends when the run is over and the queues have    *)
(*     been empty for a second;                                            *)
(*   - below them the API, here as the samples see it: its status, the two *)
(*     counts and framer_thread; module SiDaqApi has the details.          *)
(* What differs are the handlers of the Run button: the MFC dialog makes   *)
(* the last recv_thread end and waits for it before it calls SiDaqRun, the *)
(* C# form waits for at most five seconds and afterwards; and the MFC      *)
(* dialog terminates the API when SiDaqRun fails.                          *)
(*                                                                         *)
(* Where a sample uses a manager it has freed nothing more is said: its    *)
(* handlers and recv_thread take no step then.                             *)
(***************************************************************************)
EXTENDS Integers, Sequences, FiniteSets

CONSTANTS
  Apps,       \* the samples considered: a subset of {"mfc", "cs"}
  MaxRuns,    \* bound on the calls of SiDaqRun that succeed
  MaxChunks   \* bound on the chunks received, each of which is a frame

Runs == 1..MaxRuns

ASSUME SampleAssumption ==
  Apps \subseteq {"mfc", "cs"} /\ MaxRuns \in Nat /\ MaxChunks \in Nat

VARIABLES
  app,        \* which of the two it is
  mngr,       \* m_pSiDaqMngr, Sidaq_Mngr: "null", "live", "failed" or "freed"
  gui,        \* CurrentGuiStatus, GUICurrentStatus
  enabled,    \* the buttons that are enabled
  ui,         \* where the GUI thread is: "idle" or a point in a handler
  timer,      \* is the update timer set?
  go,         \* m_thread_param.force_exit_flg: may recv_thread go on?
  file,       \* write_file_path: the run whose file it is, 0 = do not write
  last,       \* m_winthread_ptr, recvthread_object: 0 = NULL
  reader,     \* where each recv_thread is
  item,       \* ... and the frame it has got, 0 = none
  status,     \* API: the status
  conn,       \* API: the connection: "none", "start", "open" or "limit"
  run,        \* API: _run
  paused,     \* API: pause_flg
  recv,       \* API: number of chunks before framing
  framer,     \* API: where framer_thread is: "off" or a point in its code
  failed,     \* API: _error_flg
  rest,       \* API: is there part of a frame in the framer's buffer?
  frames,     \* API: the event queue
  runs,       \* number of runs
  chunks,     \* number of chunks received
  made,       \* number of frames made
  early,      \* history: has framer_thread left because of SIDAQ_IDLE?
  written     \* history: the files' lines, in the order they were written

guiVars    == <<app, mngr, gui, enabled, ui, timer, go, file, last>>
readerVars == <<reader, item, written>>
apiVars    == <<status, conn, run, paused, recv, framer, failed, rest, frames,
                runs, chunks, made, early>>
vars       == <<guiVars, readerVars, apiVars>>

Alive(r) == reader[r] \notin {"none", "done"}

\* UpdateGUIControlStatus.
Controls(g) ==
  CASE g = "GUI_NO_CONNECTION" -> {"connect"}
    [] g = "GUI_IDLE"          -> {"connect", "run"}
    [] g = "GUI_RUNNING"       -> {"run"}
    [] g = "GUI_STOPPING"      -> {"reset"}

Show(g) == gui' = g /\ enabled' = Controls(g)

Init ==
  /\ app \in Apps
  /\ mngr = "null" /\ gui = "GUI_NO_CONNECTION"
  /\ enabled = Controls("GUI_NO_CONNECTION")
  /\ ui = "idle" /\ timer = FALSE /\ go = TRUE /\ file = 0 /\ last = 0
  /\ reader = [r \in Runs |-> "none"] /\ item = [r \in Runs |-> 0]
  /\ status = "SIDAQ_IDLE" /\ conn = "none" /\ run = FALSE /\ paused = FALSE
  /\ recv = 0 /\ framer = "off" /\ failed = FALSE /\ rest = FALSE
  /\ frames = <<>>
  /\ runs = 0 /\ chunks = 0 /\ made = 0
  /\ early = FALSE /\ written = <<>>

-----------------------------------------------------------------------------
(***************************************************************************)
(* The API's threads as the samples see them.                              *)
(***************************************************************************)
\* socket_loop_thread begins: it clears pause_flg.
SockStart ==
  /\ conn = "start"
  /\ conn' = "open" /\ paused' = FALSE
  /\ UNCHANGED <<guiVars, readerVars, status, run, recv, framer, failed, rest,
                 frames, runs, chunks, made, early>>

Receive ==
  /\ conn = "open" /\ ~paused
  /\ chunks < MaxChunks
  /\ chunks' = chunks + 1 /\ recv' = recv + 1
  /\ UNCHANGED <<guiVars, readerVars, status, conn, run, paused, framer,
                 failed, rest, frames, runs, made, early>>

\* The device ends the connection, or the receive queue exceeds its limit.
ConnectionEnds ==
  /\ conn = "open"
  /\ conn' = "none" \/ conn' = "limit"
  /\ UNCHANGED <<guiVars, readerVars, status, run, paused, recv, framer,
                 failed, rest, frames, runs, chunks, made, early>>

Open == conn \in {"start", "open"}

\* The socket is closed by another thread; queue_error_code stays.
Closed == conn' = IF conn = "limit" THEN "limit" ELSE "none"

FramerTake ==
  /\ framer = "on" /\ status \notin {"SIDAQ_IDLE", "SIDAQ_RESET"}
  /\ recv > 0
  /\ recv' = recv - 1 /\ framer' = "frame"
  /\ UNCHANGED <<guiVars, readerVars, status, conn, run, paused, failed, rest,
                 frames, runs, chunks, made, early>>

\* An error in the data or at the limit of the event queue: framer_thread
\* ends receiving, but goes on framing.
FramerFails ==
  /\ ~failed /\ failed' = TRUE
  /\ status' = "SIDAQ_SYS_ERROR" /\ run' = FALSE /\ Closed

\* The receive thread has left an error behind, and has ended.
QueueFails ==
  /\ ~failed /\ conn = "limit" /\ failed' = TRUE
  /\ status' = "SIDAQ_SYS_ERROR" /\ UNCHANGED <<conn, run>>

NoFailure ==
  /\ failed \/ conn # "limit"
  /\ UNCHANGED <<failed, status, conn, run>>

MakeFrame == frames' = Append(frames, made + 1) /\ made' = made + 1

\* RecvSiDaqData: the chunk completes a frame, or is kept in the buffer.
FramerMake ==
  /\ framer = "frame" /\ framer' = "on"
  /\ \/ MakeFrame /\ rest' = FALSE
     \/ rest' = TRUE /\ UNCHANGED <<frames, made>>
  /\ FramerFails \/ QueueFails \/ NoFailure
  /\ UNCHANGED <<guiVars, readerVars, paused, recv, runs, chunks, early>>

\* framer_thread leaves its loop because of the status alone, ...
FramerCut ==
  /\ framer = "on" /\ status \in {"SIDAQ_IDLE", "SIDAQ_RESET"}
  /\ early' = (early \/ status = "SIDAQ_IDLE")
  /\ UNCHANGED <<guiVars, readerVars, status, conn, run, paused, recv, failed,
                 rest, frames, runs, chunks, made>>
  /\ framer' = "exit"

\* ... or because there is nothing left to frame: what is in the buffer
\* becomes a frame.
FramerDone ==
  /\ framer = "on" /\ status \notin {"SIDAQ_IDLE", "SIDAQ_RESET"}
  /\ recv = 0
  /\ \/ status = "SIDAQ_STOPPING" /\ UNCHANGED <<failed, status, conn, run>>
     \/ status # "SIDAQ_STOPPING" /\ ~Open /\ (QueueFails \/ NoFailure)
  /\ IF rest THEN MakeFrame ELSE UNCHANGED <<frames, made>>
  /\ rest' = FALSE
  /\ framer' = "exit"
  /\ UNCHANGED <<guiVars, readerVars, paused, recv, runs, chunks, early>>

FramerExit ==
  /\ framer = "exit"
  /\ framer' = IF failed THEN "stop"
               ELSE IF status = "SIDAQ_RESET" THEN "off" ELSE "idle"
  /\ UNCHANGED <<guiVars, readerVars, status, conn, run, paused, recv, failed,
                 rest, frames, runs, chunks, made, early>>

FramerIdle ==
  /\ framer = "idle"
  /\ framer' = "off" /\ status' = "SIDAQ_IDLE"
  /\ UNCHANGED <<guiVars, readerVars, conn, run, paused, recv, failed, rest,
                 frames, runs, chunks, made, early>>

\* After an error framer_thread calls SiDaqStop.
FramerStop ==
  /\ \/ framer = "stop" /\ status = "SIDAQ_RUN"
        /\ framer' = "stop_set" /\ UNCHANGED <<status, conn, run>>
     \/ framer = "stop" /\ status = "SIDAQ_SYS_ERROR"
        /\ framer' = "stop_close" /\ UNCHANGED <<status, conn, run>>
     \/ framer = "stop" /\ status \notin {"SIDAQ_RUN", "SIDAQ_SYS_ERROR"}
        /\ framer' = "off" /\ UNCHANGED <<status, conn, run>>
     \/ framer = "stop_set" /\ status' = "SIDAQ_STOPPING"
        /\ framer' = "stop_close" /\ UNCHANGED <<conn, run>>
     \/ framer = "stop_close" /\ run' = FALSE /\ Closed
        /\ framer' = "off" /\ UNCHANGED status
  /\ UNCHANGED <<guiVars, readerVars, paused, recv, failed, rest, frames, runs,
                 chunks, made, early>>

FramerThread == FramerTake \/ FramerMake \/ FramerCut \/ FramerDone
                \/ FramerExit \/ FramerIdle \/ FramerStop

\* The framer has something to do.  The samples rely on its doing so within
\* the second for which they watch the queues.
FramerBusy ==
  \/ framer \notin {"off", "on"}
  \/ /\ framer = "on"
     /\ \/ recv > 0 \/ ~Open
        \/ status \in {"SIDAQ_IDLE", "SIDAQ_RESET", "SIDAQ_STOPPING"}

Settled_Once == recv = 0 /\ frames = <<>>

\* Ten times, in a second, both counts are 0.
Settled == recv = 0 /\ frames = <<>> /\ ~FramerBusy

HasRemain == recv > 0 \/ frames # <<>>

\* SiDaqTerminate frees the manager with everything in it.
ApiFreed ==
  /\ status' = "SIDAQ_IDLE" /\ conn' = "none" /\ run' = FALSE
  /\ paused' = FALSE /\ recv' = 0 /\ framer' = "off" /\ failed' = FALSE
  /\ rest' = FALSE /\ frames' = <<>>
  /\ UNCHANGED <<runs, chunks, made, early>>

-----------------------------------------------------------------------------
(***************************************************************************)
(* The Connect button.                                                     *)
(***************************************************************************)
Clicked(button) == ui = "idle" /\ button \in enabled

ConnectOk ==
  /\ Clicked("connect") /\ mngr = "null"
  /\ mngr' = "live" /\ run' = TRUE
  /\ Show("GUI_IDLE")
  /\ timer' = TRUE
  /\ UNCHANGED <<app, ui, go, file, last, readerVars, status, conn, paused,
                 recv, framer, failed, rest, frames, runs, chunks, made,
                 early>>

ConnectFails_Kept ==
  /\ Clicked("connect") /\ mngr = "null"
  /\ mngr' = "failed"
  /\ Show("GUI_NO_CONNECTION")
  /\ UNCHANGED <<app, ui, timer, go, file, last, readerVars, apiVars>>

\* The MFC dialog terminates the manager in SIDAQ_SYS_ERROR at once, the C#
\* form keeps it, and terminates it at the next click.
ConnectFails ==
  /\ Clicked("connect") /\ mngr = "null"
  /\ mngr' = IF app = "mfc" THEN "null" ELSE "failed"
  /\ Show("GUI_NO_CONNECTION")
  /\ UNCHANGED <<app, ui, timer, go, file, last, readerVars, apiVars>>

\* A recv_thread of the MFC dialog that has not ended keeps the pointer to the
\* manager; the C# form's thread reads the form's, which is 0 now.
Disconnect ==
  /\ Clicked("connect") /\ mngr \in {"live", "failed"}
  /\ ApiFreed
  /\ mngr' = IF app = "mfc" /\ (\E r \in Runs : Alive(r)) THEN "freed"
             ELSE "null"
  /\ Show("GUI_NO_CONNECTION")
  /\ timer' = FALSE
  /\ UNCHANGED <<app, ui, go, file, last, readerVars>>

(***************************************************************************)
(* The Run/Stop button.  What a click does depends on the API's status,    *)
(* not on what the button shows.                                           *)
(***************************************************************************)
Starts == \/ status = "SIDAQ_IDLE"
          \/ status = "SIDAQ_SYS_ERROR" /\ gui = "GUI_IDLE"

\* The buttons are enabled again only when the GUI status is shown next.
RunClickMfc ==
  /\ app = "mfc" /\ Clicked("run") /\ mngr = "live"
  /\ enabled' = enabled \ {"run", "connect"}
  /\ \/ Starts /\ last # 0 /\ go' = FALSE /\ ui' = "wait"
     \/ Starts /\ last = 0 /\ UNCHANGED go /\ ui' = "run"
     \/ status = "SIDAQ_RUN" /\ UNCHANGED go /\ ui' = "stop"
     \/ ~Starts /\ status # "SIDAQ_RUN" /\ UNCHANGED <<go, ui>>
  /\ UNCHANGED <<app, mngr, gui, timer, file, last, readerVars, apiVars>>

WaitReader_Not ==
  /\ ui = "wait"
  /\ last' = 0 /\ ui' = "run"
  /\ UNCHANGED <<app, mngr, gui, enabled, timer, go, file, readerVars,
                 apiVars>>

\* WaitForSingleObject(m_winthread_ptr->m_hThread, INFINITE).
WaitReader ==
  /\ ui = "wait" /\ ~Alive(last)
  /\ last' = 0 /\ ui' = "run"
  /\ UNCHANGED <<app, mngr, gui, enabled, timer, go, file, readerVars,
                 apiVars>>

RunClickCs ==
  /\ app = "cs" /\ Clicked("run") /\ mngr = "live"
  /\ \/ Starts /\ ui' = "run" /\ UNCHANGED <<gui, enabled>>
     \/ status = "SIDAQ_RUN" /\ ui' = "stop" /\ Show("GUI_STOPPING")
  /\ UNCHANGED <<app, mngr, timer, go, file, last, readerVars, apiVars>>

\* SiDaqRun fails.  The MFC dialog frees the manager and keeps the pointer.
RunFails ==
  /\ ui = "run" /\ ui' = "idle"
  /\ \/ /\ app = "mfc"
        /\ ApiFreed /\ mngr' = "freed"
        /\ Show("GUI_IDLE")
     \/ /\ app = "cs"
        /\ status' = "SIDAQ_SYS_ERROR"
        /\ UNCHANGED <<mngr, gui, enabled, conn, run, paused, recv, framer,
                       failed, rest, frames, runs, chunks, made, early>>
  /\ UNCHANGED <<app, timer, go, file, last, readerVars>>

\* SiDaqRun starts both threads ...
RunStarts ==
  /\ ui = "run" /\ runs < MaxRuns
  /\ runs' = runs + 1
  /\ conn' = "start" /\ run' = TRUE
  /\ framer' = "on" /\ failed' = FALSE
  /\ ui' = "run_status"
  /\ UNCHANGED <<app, mngr, gui, enabled, timer, go, file, last, readerVars,
                 status, paused, recv, rest, frames, chunks, made, early>>

StartReader == reader' = [reader EXCEPT ![runs] = "loop"] /\ last' = runs

\* ... and then sets and returns SIDAQ_RUN; the C# form waits for the last
\* recv_thread now, when it has changed the file already.
RunStatus ==
  /\ ui = "run_status"
  /\ status' = "SIDAQ_RUN"
  /\ Show("GUI_RUNNING")
  /\ file' \in {0, runs}
  /\ go' = TRUE
  /\ IF app = "cs" /\ last # 0
     THEN ui' = "join" /\ UNCHANGED <<reader, last>>
     ELSE ui' = "idle" /\ StartReader
  /\ UNCHANGED <<app, mngr, timer, item, written, conn, run, paused, recv,
                 framer, failed, rest, frames, runs, chunks, made, early>>

\* Join(5000) returns when the thread has ended and when it has not.
Join ==
  /\ ui = "join"
  /\ StartReader
  /\ ui' = "idle"
  /\ UNCHANGED <<app, mngr, gui, enabled, timer, go, file, item, written,
                 apiVars>>

\* SiDaqStop; afterwards the MFC dialog shows that it is stopping.
StopTest ==
  /\ ui = "stop"
  /\ ui' = IF status = "SIDAQ_RUN" THEN "stop_set"
           ELSE IF status = "SIDAQ_SYS_ERROR" THEN "stop_close"
           ELSE "stop_done"
  /\ UNCHANGED <<app, mngr, gui, enabled, timer, go, file, last, readerVars,
                 apiVars>>

StopSet ==
  /\ ui = "stop_set"
  /\ status' = "SIDAQ_STOPPING"
  /\ ui' = "stop_close"
  /\ UNCHANGED <<app, mngr, gui, enabled, timer, go, file, last, readerVars,
                 conn, run, paused, recv, framer, failed, rest, frames, runs,
                 chunks, made, early>>

StopClose_Open ==
  /\ ui = "stop_close"
  /\ run' = FALSE /\ ui' = "stop_done"
  /\ UNCHANGED <<app, mngr, gui, enabled, timer, go, file, last, readerVars,
                 conn, status, paused, recv, framer, failed, rest, frames,
                 runs, chunks, made, early>>

StopClose ==
  /\ ui = "stop_close"
  /\ run' = FALSE /\ Closed
  /\ ui' = "stop_done"
  /\ UNCHANGED <<app, mngr, gui, enabled, timer, go, file, last, readerVars,
                 status, paused, recv, framer, failed, rest, frames, runs,
                 chunks, made, early>>

StopDone ==
  /\ ui = "stop_done" /\ ui' = "idle"
  /\ Show("GUI_STOPPING")
  /\ UNCHANGED <<app, mngr, timer, go, file, last, readerVars, apiVars>>

(***************************************************************************)
(* The Reset button, the timer and the end of the program.                 *)
(***************************************************************************)
ResetClick ==
  /\ Clicked("reset") /\ mngr = "live"
  /\ enabled' = IF app = "cs" THEN enabled \ {"reset"} ELSE enabled
  /\ \/ /\ status \in {"SIDAQ_STOPPING", "SIDAQ_SYS_ERROR"}
        /\ ui' = IF status = "SIDAQ_SYS_ERROR" THEN "reset_error" ELSE "reset"
        /\ status' = "SIDAQ_RESET"
     \/ /\ status \notin {"SIDAQ_STOPPING", "SIDAQ_SYS_ERROR"}
        /\ UNCHANGED <<ui, status>>
  /\ UNCHANGED <<app, mngr, gui, timer, go, file, last, readerVars, conn, run,
                 paused, recv, framer, failed, rest, frames, runs, chunks,
                 made, early>>

ResetDone ==
  /\ ui \in {"reset", "reset_error"}
  /\ recv' = 0 /\ frames' = <<>>
  /\ status' = IF ui = "reset" THEN "SIDAQ_IDLE" ELSE "SIDAQ_SYS_ERROR"
  /\ ui' = "idle"
  /\ UNCHANGED <<app, mngr, gui, enabled, timer, go, file, last, readerVars,
                 conn, run, paused, framer, failed, rest, runs, chunks, made,
                 early>>

\* An error is noticed, and a run that is stopping is over when the queues
\* have been empty for a second.
OnTimer ==
  /\ timer /\ ui = "idle" /\ mngr = "live"
  /\ \/ gui = "GUI_STOPPING"
     \/ gui = "GUI_RUNNING" /\ status = "SIDAQ_SYS_ERROR"
  /\ \/ Settled /\ Show("GUI_IDLE")
     \/ HasRemain /\ gui = "GUI_RUNNING" /\ Show("GUI_STOPPING")
  /\ UNCHANGED <<app, mngr, ui, timer, go, file, last, readerVars, apiVars>>

\* The window is closed.  Only the MFC dialog waits for recv_thread.
Terminated ==
  /\ ApiFreed
  /\ mngr' = "null" /\ ui' = "closed" /\ enabled' = {} /\ timer' = FALSE

Close ==
  /\ ui = "idle" /\ mngr # "freed"
  /\ \/ /\ app = "mfc" /\ last # 0
        /\ go' = FALSE /\ ui' = "exit"
        /\ UNCHANGED <<mngr, enabled, timer, apiVars>>
     \/ /\ app = "cs" \/ last = 0
        /\ Terminated /\ UNCHANGED go
  /\ UNCHANGED <<app, gui, file, last, readerVars>>

Exit ==
  /\ ui = "exit" /\ ~Alive(last)
  /\ Terminated /\ last' = 0
  /\ UNCHANGED <<app, gui, go, file, readerVars>>

-----------------------------------------------------------------------------
(***************************************************************************)
(* recv_thread of run r.                                                   *)
(***************************************************************************)
ReaderAt(r, pc)   == reader[r] = pc
ReaderGoto(r, pc) == reader' = [reader EXCEPT ![r] = pc]

Over == {"SIDAQ_IDLE", "SIDAQ_STOPPING", "SIDAQ_SYS_ERROR"}

ReaderLoop(r) ==
  /\ ReaderAt(r, "loop")
  /\ \/ app = "mfc" /\ ~go /\ ReaderGoto(r, "done")
     \/ app = "cs" /\ mngr = "null" /\ ReaderGoto(r, "done")
     \/ /\ mngr = "live" /\ (app = "mfc" => go)
        /\ ReaderGoto(r, IF status \in Over THEN "poll" ELSE "get")
  /\ UNCHANGED <<guiVars, item, written, apiVars>>

ReaderPoll_Once(r) ==
  /\ ReaderAt(r, "poll") /\ mngr = "live"
  /\ ReaderGoto(r, IF HasRemain THEN "get" ELSE "done")
  /\ UNCHANGED <<guiVars, item, written, apiVars>>

\* The run is over and the queues stay empty, or there is something to get.
ReaderPoll(r) ==
  /\ ReaderAt(r, "poll") /\ mngr = "live"
  /\ \/ Settled /\ ReaderGoto(r, "done")
     \/ HasRemain /\ ReaderGoto(r, "get")
  /\ UNCHANGED <<guiVars, item, written, apiVars>>

\* SiDaqGetData; when it gives up waiting the loop asks again.
ReaderGet(r) ==
  /\ ReaderAt(r, "get") /\ mngr = "live"
  /\ IF frames = <<>>
     THEN ReaderGoto(r, "loop") /\ UNCHANGED <<item, frames>>
     ELSE /\ frames' = Tail(frames)
          /\ item' = [item EXCEPT ![r] = IF file = 0 THEN 0 ELSE Head(frames)]
          /\ ReaderGoto(r, IF file = 0 THEN "loop" ELSE "pause")
  /\ UNCHANGED <<guiVars, written, status, conn, run, paused, recv, framer,
                 failed, rest, runs, chunks, made, early>>

\* SiDaqPauseRecvData does nothing unless _run.
ReaderPause(r) ==
  /\ ReaderAt(r, "pause") /\ mngr = "live"
  /\ paused' = (paused \/ run)
  /\ ReaderGoto(r, "write")
  /\ UNCHANGED <<guiVars, item, written, status, conn, run, recv, framer,
                 failed, rest, frames, runs, chunks, made, early>>

\* WriteDataToFile, WriteFile: a file that cannot be opened is passed over.
ReaderWrite(r) ==
  /\ ReaderAt(r, "write")
  /\ \/ /\ file # 0
        /\ written' = Append(written, [file |-> file, frame |-> item[r]])
     \/ UNCHANGED written
  /\ item' = [item EXCEPT ![r] = 0]
  /\ ReaderGoto(r, "resume")
  /\ UNCHANGED <<guiVars, apiVars>>

ReaderResume_Not(r) ==
  /\ ReaderAt(r, "resume") /\ mngr = "live"
  /\ ReaderGoto(r, "loop")
  /\ UNCHANGED <<guiVars, item, written, apiVars>>

\* SiDaqResumeRecvData does nothing unless _run.
ReaderResume(r) ==
  /\ ReaderAt(r, "resume") /\ mngr = "live"
  /\ paused' = (paused /\ ~run)
  /\ ReaderGoto(r, "loop")
  /\ UNCHANGED <<guiVars, item, written, status, conn, run, recv, framer,
                 failed, rest, frames, runs, chunks, made, early>>

recv_thread(r) ==
  \/ ReaderLoop(r) \/ ReaderPoll(r) \/ ReaderGet(r)
  \/ ReaderPause(r) \/ ReaderWrite(r) \/ ReaderResume(r)

-----------------------------------------------------------------------------
User == \/ ConnectOk \/ ConnectFails \/ Disconnect
        \/ RunClickMfc \/ RunClickCs \/ ResetClick \/ Close

\* The steps of a handler the GUI thread is inside of.
Handler == \/ WaitReader \/ RunFails \/ RunStarts \/ RunStatus \/ Join
           \/ StopTest \/ StopSet \/ StopClose \/ StopDone
           \/ ResetDone \/ Exit

Network == SockStart \/ Receive \/ ConnectionEnds

Next == \/ User \/ Handler \/ OnTimer \/ Network \/ FramerThread
        \/ \E r \in Runs : recv_thread(r)

Spec == Init /\ [][Next]_vars

\* The scheduler runs every thread that can run, and the timer is set again
\* and again: its message is handled between two clicks however many there
\* are.  Nothing is asked of the user and of the network.
Fairness ==
  /\ WF_vars(Handler) /\ SF_vars(OnTimer) /\ WF_vars(FramerThread)
  /\ WF_vars(SockStart)
  /\ \A r \in Runs : WF_vars(recv_thread(r))

FairSpec == Spec /\ Fairness

-----------------------------------------------------------------------------
GUIStatuses == {"GUI_NO_CONNECTION", "GUI_IDLE", "GUI_RUNNING",
                "GUI_STOPPING"}
Handlers == {"idle", "wait", "run", "run_status", "join", "stop", "stop_set",
             "stop_close", "stop_done", "reset", "reset_error", "exit",
             "closed"}
Frames == 1..MaxChunks

\* The variables of the programs and of the API have their types; only the C#
\* form is ever left with a manager whose initialisation failed.
TypeOK ==
  /\ app \in Apps
  /\ mngr \in {"null", "live", "failed", "freed"}
  /\ mngr = "failed" => app = "cs"
  /\ gui \in GUIStatuses /\ enabled \subseteq {"connect", "run", "reset"}
  /\ ui \in Handlers /\ timer \in BOOLEAN /\ go \in BOOLEAN
  /\ file \in 0..MaxRuns /\ last \in 0..MaxRuns
  /\ reader \in [Runs -> {"none", "loop", "poll", "get", "pause", "write",
                          "resume", "done"}]
  /\ item \in [Runs -> Frames \cup {0}]
  /\ status \in {"SIDAQ_IDLE", "SIDAQ_RUN", "SIDAQ_STOPPING", "SIDAQ_RESET",
                 "SIDAQ_SYS_ERROR"}
  /\ conn \in {"none", "start", "open", "limit"}
  /\ run \in BOOLEAN /\ paused \in BOOLEAN
  /\ recv \in 0..MaxChunks
  /\ framer \in {"off", "on", "frame", "exit", "idle", "stop", "stop_set",
                 "stop_close"}
  /\ failed \in BOOLEAN /\ rest \in BOOLEAN
  /\ frames \in Seq(Frames)
  /\ runs \in 0..MaxRuns /\ chunks \in 0..MaxChunks /\ made \in 0..MaxChunks
  /\ early \in BOOLEAN
  /\ written \in Seq([file : 1..MaxRuns, frame : Frames])

\* The MFC dialog never has two recv_threads: it waits for the last one
\* before it starts the next.
OneReader ==
  app = "mfc" => \A r, s \in Runs : Alive(r) /\ Alive(s) => r = s

\* The MFC dialog writes the frames in the order they were made, and never
\* again to the file of a run when the next one has begun to write.
FilesInOrder ==
  app = "mfc" =>
     \A i, j \in DOMAIN written :
        i < j => /\ written[i].frame < written[j].frame
                 /\ written[i].file <= written[j].file

\* When the window says that the program is idle the run is over: the API is
\* not running and nothing is left in its queues that would go to the next
\* run's file.  (Unless framer_thread has left its loop because of SIDAQ_IDLE.)
IdleIsQuiet ==
  gui = "GUI_IDLE" /\ ui = "idle" /\ mngr = "live" /\ ~early =>
     status # "SIDAQ_RUN" /\ recv = 0 /\ frames = <<>> /\ ~Open

\* SiDaqRun is called only when framer_thread of the run before has returned,
\* although nobody waits for it.
FramerAlone == ui = "run" => framer = "off"

\* Receiving is suspended only as long as a recv_thread is writing.
PausedByWriter ==
  paused /\ run /\ conn = "open" =>
     \E r \in Runs : reader[r] \in {"write", "resume"}

\* As long as the window shows a run the recv_thread of that run fetches its
\* frames: it ends of its own when the run seems to be over and the queues
\* have been empty for a second, and then no frame is left or still to come.
\* A frame that comes later would keep the window in GUI_STOPPING for ever.
FramesHaveReader ==
  /\ gui \in {"GUI_RUNNING", "GUI_STOPPING"} /\ ui = "idle" /\ mngr = "live"
  /\ frames # <<>>
  => Alive(runs)

\* A run that is stopping comes to its end: framer_thread empties the receive
\* queue and recv_thread the event queue, and neither has left before.
\* (Unless framer_thread left data in the receive queue.)
StoppingEnds ==
  gui = "GUI_STOPPING" ~>
     gui # "GUI_STOPPING" \/ ui = "closed" \/ (framer = "off" /\ recv > 0)
=============================================================================
