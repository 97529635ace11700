---------------------------- MODULE SampleProofs ----------------------------
(***************************************************************************)
(* Theorems about Sample, for any number of runs and frames: the MFC       *)
(* dialog has one recv_thread and writes the frames in their order, a run  *)
(* starts when framer_thread of the run before has returned, an idle       *)
(* window means a quiet API, receiving is suspended only by a writer, and  *)
(* the frames of a run that is shown have a recv_thread to fetch them.     *)
(***************************************************************************)
EXTENDS Sample, TLAPS

USE SampleAssumption DEF Runs

-----------------------------------------------------------------------------
(***************************************************************************)
(* The parts of the inductive invariant.                                   *)
(***************************************************************************)
\* TypeOK, by the threads whose variables they are.
GuiTypes ==
  /\ app \in Apps
  /\ mngr \in {"null", "live", "failed", "freed"}
  /\ mngr = "failed" => app = "cs"
  /\ gui \in GUIStatuses /\ enabled \subseteq {"connect", "run", "reset"}
  /\ ui \in Handlers /\ timer \in BOOLEAN /\ go \in BOOLEAN

ReaderTypes ==
  /\ reader \in [Runs -> {"none", "loop", "poll", "get", "pause", "write",
                          "resume", "done"}]
  /\ item \in [Runs -> Frames \cup {0}]
  /\ written \in Seq([file : 1..MaxRuns, frame : Frames])

ApiTypes ==
  /\ status \in {"SIDAQ_IDLE", "SIDAQ_RUN", "SIDAQ_STOPPING", "SIDAQ_RESET",
                 "SIDAQ_SYS_ERROR"}
  /\ conn \in {"none", "start", "open", "limit"}
  /\ run \in BOOLEAN /\ paused \in BOOLEAN
  /\ framer \in {"off", "on", "frame", "exit", "idle", "stop", "stop_set",
                 "stop_close"}
  /\ failed \in BOOLEAN /\ rest \in BOOLEAN
  /\ early \in BOOLEAN

DataTypes ==
  /\ file \in 0..MaxRuns /\ last \in 0..MaxRuns /\ runs \in 0..MaxRuns
  /\ recv \in 0..MaxChunks /\ chunks \in 0..MaxChunks
  /\ made \in 0..MaxChunks /\ frames \in Seq(Frames)

One(b) == IF b THEN 1 ELSE 0

\* A chunk is in the receive queue, with the framer, in its buffer, or has
\* become a frame.
Counting == recv + One(framer = "frame") + One(rest) + made <= chunks

\* The handlers go on only with a manager; the buttons are the window's.
Handling ==
  /\ ui \notin {"idle", "exit", "closed"} => mngr = "live"
  /\ enabled \subseteq Controls(gui)

\* The recv_threads of later runs have not been started.
Fresh ==
  /\ ui \in {"run_status", "join"} => runs # 0 /\ reader[runs] = "none"
  /\ \A r \in Runs : r > runs => reader[r] = "none"

\* A recv_thread has a frame between SiDaqGetData and the end of its writing.
Holding == \A r \in Runs : reader[r] \in {"pause", "write"} <=> item[r] # 0

\* Without a manager there is nothing below it.
Freed ==
  mngr # "live" => /\ framer = "off" /\ status = "SIDAQ_IDLE"
                   /\ recv = 0 /\ frames = <<>> /\ conn = "none"

TypeInv == /\ GuiTypes /\ ReaderTypes /\ ApiTypes /\ DataTypes
           /\ Counting /\ Handling /\ Fresh /\ Holding /\ Freed

\* m_winthread_ptr is the only recv_thread that has not ended.
Single ==
  app = "mfc" => /\ \A r \in Runs : Alive(r) => r = last
                 /\ ui \in {"run", "run_status"} => last = 0
                 /\ ui # "join"

\* The event queue holds frames in the order they were made ...
Queued ==
  /\ \A i \in DOMAIN frames : frames[i] <= made
  /\ \A i, j \in DOMAIN frames : i < j => frames[i] < frames[j]

\* ... a recv_thread has an earlier one ...
Taken ==
  \A r \in Runs : item[r] # 0 =>
     item[r] <= made /\ \A i \in DOMAIN frames : item[r] < frames[i]

\* ... and the files of the MFC dialog have still earlier ones.
Stored ==
  app = "mfc" =>
    /\ \A k \in DOMAIN written :
         /\ written[k].frame <= made
         /\ \A i \in DOMAIN frames : written[k].frame < frames[i]
         /\ \A r \in Runs : item[r] # 0 => written[k].frame < item[r]
         /\ written[k].file <= runs
         /\ file # 0 => written[k].file <= file
    /\ file <= runs

\* When a handler may start a run framer_thread has returned.
Quiet ==
  /\ ui \in {"wait", "run"} =>
        framer = "off" /\ status \in {"SIDAQ_IDLE", "SIDAQ_SYS_ERROR"}
  /\ gui = "GUI_RUNNING" /\ status = "SIDAQ_IDLE" /\ ui # "run_status" =>
        framer = "off"
  /\ gui = "GUI_IDLE" /\ ui # "run_status" => framer = "off"
  /\ (status = "SIDAQ_SYS_ERROR" \/ ui = "reset_error") /\ ui # "run_status"
     /\ framer \in {"on", "frame"} => ~Open
  /\ gui \in {"GUI_IDLE", "GUI_STOPPING"} /\ ui \notin {"stop", "stop_set"} =>
        status # "SIDAQ_RUN"
  /\ ui \in {"stop_close", "stop_done"} => status # "SIDAQ_RUN"
  /\ status = "SIDAQ_RESET" => ui \in {"reset", "reset_error"}
  /\ ui \in {"reset", "reset_error"} => gui = "GUI_STOPPING"

\* framer_thread leaves only when the connection is closed or is being closed
\* by SiDaqStop, unless it left because of SIDAQ_IDLE.
Closing ==
  /\ failed => ~Open
  /\ framer \in {"stop", "stop_set", "stop_close"} => failed
  /\ Open /\ ~early =>
       /\ status = "SIDAQ_STOPPING" => ui = "stop_close"
       /\ ui \notin {"reset", "reset_error"}
       /\ status = "SIDAQ_SYS_ERROR" => ui = "run_status"
       /\ framer \in {"exit", "idle", "off"} => ui = "stop_close"
  /\ gui = "GUI_IDLE" /\ ui # "run_status" /\ ~early =>
       recv = 0 /\ frames = <<>> /\ ~Open

\* The window shows a run, and no handler is between this run and the next.
Watching ==
  /\ gui \in {"GUI_RUNNING", "GUI_STOPPING"}
  /\ ui \notin {"run_status", "join", "exit", "closed"}
  /\ app = "mfc" => ui \notin {"wait", "run"}

\* The recv_thread of the run has ended only when there will be no frame more.
Fetched ==
  /\ ui \in {"stop", "stop_set", "stop_close", "stop_done"} =>
        gui \in {"GUI_RUNNING", "GUI_STOPPING"}
  /\ runs # 0 /\ reader[runs] = "poll" => status # "SIDAQ_RUN"
  /\ Watching => runs # 0 /\ (app = "mfc" => go)
  /\ Watching /\ mngr = "live" /\ ~Alive(runs) =>
        frames = <<>> /\ framer \notin {"on", "frame"}

-----------------------------------------------------------------------------
\* TypeOK is the sum of its four parts.
LEMMA TypeParts ==
  TypeOK <=> GuiTypes /\ ReaderTypes /\ ApiTypes /\ DataTypes
  BY DEF TypeOK, GuiTypes, ReaderTypes, ApiTypes, DataTypes

\* The first state has no manager, no thread and no data.
LEMMA TypeInit == Init => TypeInv
<1> SUFFICES ASSUME Init PROVE TypeInv
  OBVIOUS
<1>1. GuiTypes
  BY DEF Init, GuiTypes, GUIStatuses, Handlers, Controls
<1>2. ReaderTypes
  BY DEF Init, ReaderTypes
<1>3. ApiTypes
  BY DEF Init, ApiTypes
<1>4. DataTypes
  BY DEF Init, DataTypes
<1>5. Counting /\ Handling /\ Fresh /\ Holding /\ Freed
  BY DEF Init, Counting, One, Handling, Fresh, Holding, Freed
<1> QED
  BY <1>1, <1>2, <1>3, <1>4, <1>5 DEF TypeInv

\* The types of the empty sequence, of an appended one, of head and tail.
LEMMA SequenceTypes ==
  ASSUME NEW S, NEW s \in Seq(S)
  PROVE  /\ <<>> \in Seq(S)
         /\ s # <<>> => Head(s) \in S /\ Tail(s) \in Seq(S)
         /\ \A e \in S : Append(s, e) \in Seq(S)
         /\ \A i \in DOMAIN s : i \in Nat /\ s[i] \in S
OBVIOUS

\* The lines of the files.
Line == [file : 1..MaxRuns, frame : Frames]

\* Appending keeps the elements in their places.
LEMMA Appended ==
  ASSUME NEW S, NEW s \in Seq(S), NEW e \in S
  PROVE  /\ DOMAIN Append(s, e) = DOMAIN s \cup {Len(s) + 1}
         /\ \A i \in DOMAIN s : i \in Nat /\ i < Len(s) + 1
         /\ \A i \in DOMAIN s : Append(s, e)[i] = s[i]
         /\ Append(s, e)[Len(s) + 1] = e
OBVIOUS

\* Taking the first element moves the others up.
LEMMA Shifted ==
  ASSUME NEW S, NEW s \in Seq(S), s # <<>>
  PROVE  /\ Head(s) = s[1] /\ 1 \in DOMAIN s
         /\ \A i \in DOMAIN Tail(s) :
              /\ i \in Nat /\ i + 1 \in DOMAIN s /\ 1 < i + 1
              /\ Tail(s)[i] = s[i + 1]
OBVIOUS

USE DEF vars, guiVars, readerVars, apiVars

\* The network and framer_thread change nothing of the programs.
LEMMA ApiSteps ==
  ASSUME Network \/ FramerThread
  PROVE  UNCHANGED <<guiVars, readerVars, runs>>
  BY DEF Network, FramerThread, SockStart, Receive, ConnectionEnds,
         FramerTake, FramerMake, FramerCut, FramerDone, FramerExit,
         FramerIdle, FramerStop

\* A frame more is made of a chunk that has been received, or none.
LEMMA FrameMade ==
  ASSUME TypeInv, FramerMake \/ FramerDone
  PROVE  /\ UNCHANGED <<guiVars, readerVars, recv, runs, chunks>>
         /\ \/ /\ frames' = Append(frames, made + 1) /\ made' = made + 1
               /\ made + 1 \in Frames
            \/ UNCHANGED <<frames, made>>
<1>1. recv + made + 1 <= chunks \/ (framer # "frame" /\ ~rest)
  <2>1. CASE framer = "frame"
    BY <2>1 DEF TypeInv, DataTypes, Counting, One
  <2>2. CASE rest
    BY <2>2 DEF TypeInv, DataTypes, Counting, One
  <2> QED
    BY <2>1, <2>2
<1>2. framer = "frame" \/ rest => made + 1 \in Frames
  BY <1>1 DEF TypeInv, DataTypes, Frames
<1> QED
  BY <1>2 DEF FramerMake, FramerDone, MakeFrame

\* What is compared is a number.
LEMMA Numbers ==
  ASSUME TypeInv
  PROVE  /\ made \in Nat /\ runs \in Nat /\ file \in Nat
         /\ \A i \in DOMAIN frames : i \in Nat /\ frames[i] \in Nat
         /\ \A r \in Runs : item[r] \in Nat
         /\ \A k \in DOMAIN written :
              /\ k \in Nat
              /\ written[k].frame \in Nat /\ written[k].file \in Nat
<1>1. made \in Nat /\ runs \in Nat /\ file \in Nat
  BY DEF TypeInv, DataTypes
<1>2. \A i \in DOMAIN frames : i \in Nat /\ frames[i] \in Nat
  BY DEF TypeInv, DataTypes, Frames
<1>3. \A r \in Runs : item[r] \in Nat
  BY DEF TypeInv, ReaderTypes, Frames
<1>4. \A k \in DOMAIN written :
        k \in Nat /\ written[k] \in Line
  <2>1. written \in Seq(Line)
    BY DEF TypeInv, ReaderTypes, Line
  <2> QED
    BY <2>1, SequenceTypes
<1> QED
  BY <1>1, <1>2, <1>3, <1>4 DEF Frames, Line

\* What is in the event queue afterwards was there before, or is the new frame
\* behind all others.
LEMMA QueueGrows ==
  ASSUME TypeInv, FramerMake \/ FramerDone
  PROVE  /\ UNCHANGED <<guiVars, readerVars, runs>>
         /\ made' \in Nat /\ made <= made'
         /\ \A j \in DOMAIN frames' : j \in Nat
         /\ \A j \in DOMAIN frames' :
              \/ j \in DOMAIN frames /\ frames'[j] = frames[j]
              \/ /\ frames'[j] = made + 1 /\ made' = made + 1
                 /\ j = Len(frames) + 1 /\ \A i \in DOMAIN frames : i < j
<1>1. made \in Nat /\ frames \in Seq(Frames)
  BY DEF TypeInv, DataTypes
<1>2. CASE frames' = Append(frames, made + 1) /\ made' = made + 1
           /\ made + 1 \in Frames
  <2>1. /\ DOMAIN frames' = DOMAIN frames \cup {Len(frames) + 1}
        /\ \A i \in DOMAIN frames : i < Len(frames) + 1
        /\ \A i \in DOMAIN frames : frames'[i] = frames[i]
        /\ frames'[Len(frames) + 1] = made + 1
    BY <1>1, <1>2, Appended
  <2> QED
    BY <1>1, <1>2, <2>1, FrameMade
<1>3. CASE UNCHANGED <<frames, made>>
  BY <1>1, <1>3, FrameMade
<1> QED
  BY <1>2, <1>3, FrameMade

\* SiDaqGetData takes the first frame.
LEMMA QueueShrinks ==
  ASSUME TypeInv, NEW r \in Runs, ReaderGet(r)
  PROVE  /\ UNCHANGED <<guiVars, runs, made, written>>
         /\ \/ UNCHANGED <<frames, item>>
            \/ /\ \A j \in DOMAIN frames' :
                    /\ j + 1 \in DOMAIN frames /\ 1 < j + 1
                    /\ frames'[j] = frames[j + 1] /\ j \in Nat
               /\ 1 \in DOMAIN frames
               /\ item' = [item EXCEPT ![r] = IF file = 0 THEN 0
                                             ELSE frames[1]]
<1>1. frames \in Seq(Frames)
  BY DEF TypeInv, DataTypes
<1>2. CASE frames = <<>>
  BY <1>2 DEF ReaderGet
<1>3. CASE frames # <<>>
  BY <1>1, <1>3, Shifted DEF ReaderGet
<1> QED
  BY <1>2, <1>3

\* What a recv_thread writes, if it writes, comes behind all other lines.
LEMMA LinesGrow ==
  ASSUME TypeInv, NEW r \in Runs, ReaderWrite(r)
  PROVE  /\ UNCHANGED <<guiVars, apiVars>>
         /\ item' = [item EXCEPT ![r] = 0] /\ item[r] # 0
         /\ \A j \in DOMAIN written' :
              \/ j \in DOMAIN written /\ written'[j] = written[j]
              \/ /\ written'[j] = [file |-> file, frame |-> item[r]]
                 /\ file # 0 /\ j = Len(written) + 1
                 /\ \A i \in DOMAIN written : i < j
<1>1. UNCHANGED <<guiVars, apiVars>> /\ item' = [item EXCEPT ![r] = 0]
      /\ item[r] # 0
  BY DEF ReaderWrite, ReaderAt, TypeInv, Holding
<1>2. CASE written' = written
  BY <1>1, <1>2
<1>3. CASE /\ file # 0
           /\ written' = Append(written, [file |-> file, frame |-> item[r]])
  <2>1. written \in Seq(Line)
    BY DEF TypeInv, ReaderTypes, Line
  <2>2. [file |-> file, frame |-> item[r]] \in Line
    BY <1>1, <1>3 DEF TypeInv, ReaderTypes, DataTypes, Line
  <2>3. /\ DOMAIN written' = DOMAIN written \cup {Len(written) + 1}
        /\ \A i \in DOMAIN written : i < Len(written) + 1
        /\ \A i \in DOMAIN written : written'[i] = written[i]
        /\ written'[Len(written) + 1] = [file |-> file, frame |-> item[r]]
    BY <1>3, <2>1, <2>2, Appended
  <2> QED
    BY <1>1, <1>3, <2>3
<1> QED
  BY <1>2, <1>3 DEF ReaderWrite

\* The buttons that start a run and reset one are enabled in these states.
LEMMA ButtonsShown ==
  ASSUME TypeInv
  PROVE  /\ Clicked("run") => gui \in {"GUI_IDLE", "GUI_RUNNING"}
         /\ Clicked("reset") => gui = "GUI_STOPPING"
  BY DEF TypeInv, GuiTypes, GUIStatuses, Handling, Clicked, Controls

\* A click that starts a run finds framer_thread gone.
LEMMA StartFound ==
  ASSUME TypeInv, Quiet, Clicked("run"), Starts
  PROVE  framer = "off" /\ status \in {"SIDAQ_IDLE", "SIDAQ_SYS_ERROR"}
  BY ButtonsShown DEF Clicked, Starts, Quiet

\* A recv_thread changes nothing of the GUI thread, and of the API only the
\* event queue and pause_flg.
LEMMA ReaderSteps ==
  ASSUME NEW r \in Runs, recv_thread(r)
  PROVE  UNCHANGED <<guiVars, status, conn, run, recv, framer, failed, rest,
                     runs, chunks, made, early>>
  BY
     DEF recv_thread, ReaderLoop, ReaderPoll, ReaderGet, ReaderPause,
         ReaderWrite, ReaderResume

\* A handler keeps the types of the GUI thread's variables.
LEMMA GuiTypesStep ==
  ASSUME TypeInv, Next
  PROVE  GuiTypes'
<1>1. CASE ConnectOk
  BY <1>1
     DEF TypeInv, GuiTypes, ApiTypes, GUIStatuses, Handlers, ConnectOk,
         Clicked, Show, Controls
<1>2. CASE ConnectFails
  BY <1>2
     DEF TypeInv, GuiTypes, ApiTypes, GUIStatuses, Handlers, ConnectFails,
         Clicked, Show, Controls
<1>3. CASE Disconnect
  BY <1>3
     DEF TypeInv, GuiTypes, ApiTypes, GUIStatuses, Handlers, Disconnect,
         Clicked, ApiFreed, Show, Controls
<1>4. CASE RunClickMfc
  BY <1>4
     DEF TypeInv, GuiTypes, ApiTypes, GUIStatuses, Handlers, RunClickMfc,
         Clicked, Starts
<1>5. CASE WaitReader
  BY <1>5 DEF TypeInv, GuiTypes, ApiTypes, GUIStatuses, Handlers, WaitReader
<1>6. CASE RunClickCs
  BY <1>6
     DEF TypeInv, GuiTypes, ApiTypes, GUIStatuses, Handlers, RunClickCs,
         Clicked, Starts, Show, Controls
<1>7. CASE RunFails
  BY <1>7
     DEF TypeInv, GuiTypes, ApiTypes, GUIStatuses, Handlers, RunFails,
         ApiFreed, Show, Controls
<1>8. CASE RunStarts
  BY <1>8 DEF TypeInv, GuiTypes, ApiTypes, GUIStatuses, Handlers, RunStarts
<1>9. CASE RunStatus
  BY <1>9
     DEF TypeInv, GuiTypes, ApiTypes, GUIStatuses, Handlers, RunStatus, Show,
         Controls
<1>10. CASE Join
  BY <1>10 DEF TypeInv, GuiTypes, ApiTypes, GUIStatuses, Handlers, Join
<1>11. CASE StopTest
  BY <1>11 DEF TypeInv, GuiTypes, ApiTypes, GUIStatuses, Handlers, StopTest
<1>12. CASE StopSet
  BY <1>12 DEF TypeInv, GuiTypes, ApiTypes, GUIStatuses, Handlers, StopSet
<1>13. CASE StopClose
  BY <1>13 DEF TypeInv, GuiTypes, ApiTypes, GUIStatuses, Handlers, StopClose
<1>14. CASE StopDone
  BY <1>14
     DEF TypeInv, GuiTypes, ApiTypes, GUIStatuses, Handlers, StopDone, Show,
         Controls
<1>15. CASE ResetClick
  BY <1>15
     DEF TypeInv, GuiTypes, ApiTypes, GUIStatuses, Handlers, ResetClick,
         Clicked
<1>16. CASE ResetDone
  BY <1>16 DEF TypeInv, GuiTypes, ApiTypes, GUIStatuses, Handlers, ResetDone
<1>17. CASE OnTimer
  BY <1>17
     DEF TypeInv, GuiTypes, ApiTypes, GUIStatuses, Handlers, OnTimer, Show,
         Controls
<1>18. CASE Close
  BY <1>18
     DEF TypeInv, GuiTypes, ApiTypes, GUIStatuses, Handlers, Close,
         Terminated, ApiFreed
<1>19. CASE Exit
  BY <1>19
     DEF TypeInv, GuiTypes, ApiTypes, GUIStatuses, Handlers, Exit,
         Terminated, ApiFreed
<1>20. CASE \E r \in Runs : recv_thread(r)
  <2>1. UNCHANGED guiVars
    BY <1>20, ReaderSteps
  <2> QED
    BY <2>1 DEF TypeInv, GuiTypes
<1>21. CASE Network \/ FramerThread
  <2>1. UNCHANGED guiVars
    BY <1>21, ApiSteps
  <2> QED
    BY <2>1 DEF TypeInv, GuiTypes
<1> QED
  BY <1>1, <1>2, <1>3, <1>4, <1>5, <1>6, <1>7, <1>8, <1>9, <1>10, <1>11,
     <1>12, <1>13, <1>14, <1>15, <1>16, <1>17, <1>18, <1>19, <1>20, <1>21
     DEF Next, User, Handler, Network, FramerThread

\* A recv_thread takes frames and writes frames.
LEMMA ReaderTypesStep ==
  ASSUME TypeInv, Next
  PROVE  ReaderTypes'
<1>1. CASE RunStatus
  BY <1>1
     DEF TypeInv, GuiTypes, ReaderTypes, DataTypes, Fresh, Holding,
         RunStatus, StartReader
<1>2. CASE Join
  BY <1>2
     DEF TypeInv, GuiTypes, ReaderTypes, DataTypes, Fresh, Holding, Join,
         StartReader
<1>3. ASSUME NEW r \in Runs, recv_thread(r) PROVE ReaderTypes'
  <2>1. CASE ReaderLoop(r)
    BY <2>1
       DEF TypeInv, GuiTypes, ReaderTypes, DataTypes, Fresh, Holding,
           ReaderLoop, ReaderAt, ReaderGoto
  <2>2. CASE ReaderPoll(r)
    BY <2>2
       DEF TypeInv, GuiTypes, ReaderTypes, DataTypes, Fresh, Holding,
           ReaderPoll, ReaderAt, ReaderGoto
  <2>3. CASE ReaderGet(r)
    <3>1. frames # <<>> => Head(frames) \in Frames
      BY SequenceTypes DEF TypeInv, DataTypes
    <3>2. item' \in [Runs -> Frames \cup {0}]
      BY <2>3, <3>1 DEF TypeInv, ReaderTypes, ReaderGet
    <3> QED
      BY <2>3, <3>2 DEF TypeInv, ReaderTypes, ReaderGet, ReaderGoto
  <2>4. CASE ReaderPause(r)
    BY <2>4
       DEF TypeInv, GuiTypes, ReaderTypes, DataTypes, Fresh, Holding,
           ReaderPause, ReaderAt, ReaderGoto
  <2>5. CASE ReaderWrite(r)
    <3>1. item[r] \in Frames
      BY <2>5 DEF TypeInv, ReaderTypes, Holding, ReaderWrite, ReaderAt
    <3>2. file # 0 => [file |-> file, frame |-> item[r]] \in Line
      BY <3>1 DEF TypeInv, DataTypes, Line
    <3>3. \/ /\ file # 0
             /\ written' = Append(written, [file |-> file, frame |-> item[r]])
          \/ written' = written
      BY <2>5 DEF ReaderWrite
    <3>4. written \in Seq(Line)
      BY DEF TypeInv, ReaderTypes, Line
    <3>5. written' \in Seq(Line)
      BY <3>2, <3>3, <3>4, SequenceTypes
    <3> QED
      BY <2>5, <3>5 DEF TypeInv, ReaderTypes, Line, ReaderWrite, ReaderGoto
  <2>6. CASE ReaderResume(r)
    BY <2>6
       DEF TypeInv, GuiTypes, ReaderTypes, DataTypes, Fresh, Holding,
           ReaderResume, ReaderAt, ReaderGoto
  <2> QED
    BY <1>3, <2>1, <2>2, <2>3, <2>4, <2>5, <2>6 DEF recv_thread
<1>4. CASE Network \/ FramerThread
  BY <1>4, ApiSteps
     DEF TypeInv, GuiTypes, ReaderTypes, DataTypes, Fresh, Holding
<1>5. CASE ConnectOk \/ ConnectFails \/ Disconnect
  BY <1>5
     DEF TypeInv, GuiTypes, ReaderTypes, DataTypes, Fresh, Holding,
         ConnectOk, ConnectFails, Disconnect, Alive
<1>6. CASE RunClickMfc \/ WaitReader \/ RunClickCs \/ RunFails \/ RunStarts
  BY <1>6
     DEF TypeInv, GuiTypes, ReaderTypes, DataTypes, Fresh, Holding,
         RunClickMfc, WaitReader, Alive, RunClickCs, RunFails, RunStarts
<1>7. CASE StopTest \/ StopSet \/ StopClose \/ StopDone
  BY <1>7
     DEF TypeInv, GuiTypes, ReaderTypes, DataTypes, Fresh, Holding, StopTest,
         StopSet, StopClose, StopDone
<1>8. CASE ResetClick \/ ResetDone \/ OnTimer \/ Close \/ Exit
  BY <1>8
     DEF TypeInv, GuiTypes, ReaderTypes, DataTypes, Fresh, Holding,
         ResetClick, ResetDone, OnTimer, Close, Exit, Alive
<1> QED
  BY <1>1, <1>2, <1>3, <1>4, <1>5, <1>6, <1>7, <1>8
     DEF Next, User, Handler, Network, FramerThread

\* The API keeps its types.
LEMMA ApiTypesStep ==
  ASSUME TypeInv, Next
  PROVE  ApiTypes'
<1>1. CASE ConnectOk
  BY <1>1 DEF TypeInv, ApiTypes, ConnectOk, Controls
<1>2. CASE Disconnect
  BY <1>2 DEF TypeInv, ApiTypes, Disconnect, ApiFreed, Controls
<1>3. CASE RunFails
  <2>1. CASE ApiFreed
    BY <2>1 DEF TypeInv, ApiTypes, ApiFreed
  <2>2. CASE /\ status' = "SIDAQ_SYS_ERROR"
             /\ UNCHANGED <<conn, run, paused, framer, failed, rest, early>>
    BY <2>2 DEF TypeInv, ApiTypes
  <2> QED
    BY <1>3, <2>1, <2>2 DEF RunFails
<1>4. CASE RunStarts
  BY <1>4 DEF TypeInv, ApiTypes, RunStarts
<1>5. CASE RunStatus
  BY <1>5 DEF TypeInv, ApiTypes, RunStatus, Controls
<1>6. CASE StopSet
  BY <1>6 DEF TypeInv, ApiTypes, StopSet
<1>7. CASE StopClose
  BY <1>7 DEF TypeInv, ApiTypes, StopClose, Closed
<1>8. CASE ResetClick
  BY <1>8 DEF TypeInv, ApiTypes, ResetClick
<1>9. CASE ResetDone
  BY <1>9 DEF TypeInv, ApiTypes, ResetDone
<1>10. CASE Close
  <2>1. ApiFreed \/ UNCHANGED apiVars
    BY <1>10 DEF Close, Terminated
  <2> QED
    <3>1. CASE ApiFreed
      BY <3>1 DEF TypeInv, ApiTypes, ApiFreed
    <3>2. CASE UNCHANGED apiVars
      BY <3>2 DEF TypeInv, ApiTypes
    <3> QED
      BY <2>1, <3>1, <3>2
<1>11. CASE Exit
  BY <1>11 DEF TypeInv, ApiTypes, Exit, Terminated, ApiFreed
<1>12. CASE SockStart
  BY <1>12 DEF TypeInv, ApiTypes, SockStart
<1>13. CASE ConnectionEnds
  BY <1>13 DEF TypeInv, ApiTypes, ConnectionEnds
<1>14. CASE FramerTake
  BY <1>14 DEF TypeInv, ApiTypes, FramerTake
<1>15. CASE FramerMake
  BY <1>15
     DEF TypeInv, ApiTypes, FramerMake, FramerFails, Closed, QueueFails,
         NoFailure
<1>16. CASE FramerCut
  BY <1>16 DEF TypeInv, ApiTypes, FramerCut
<1>17. CASE FramerDone
  BY <1>17 DEF TypeInv, ApiTypes, FramerDone, Open, QueueFails, NoFailure
<1>18. CASE FramerExit
  BY <1>18 DEF TypeInv, ApiTypes, FramerExit
<1>19. CASE FramerIdle
  BY <1>19 DEF TypeInv, ApiTypes, FramerIdle
<1>20. CASE FramerStop
  BY <1>20 DEF TypeInv, ApiTypes, FramerStop, Closed
<1>21. ASSUME NEW r \in Runs, recv_thread(r) PROVE ApiTypes'
  <2>1. CASE ReaderPause(r)
    BY <2>1 DEF TypeInv, ApiTypes, ReaderPause
  <2>2. CASE ReaderResume(r)
    BY <2>2 DEF TypeInv, ApiTypes, ReaderResume
  <2>3. CASE ReaderLoop(r) \/ ReaderPoll(r) \/ ReaderGet(r) \/
             ReaderWrite(r)
    BY <2>3
       DEF TypeInv, ApiTypes, ReaderLoop, ReaderPoll, Settled, FramerBusy,
           Open, ReaderGet, ReaderWrite
  <2> QED
    BY <1>21, <2>1, <2>2, <2>3 DEF recv_thread
<1>22. CASE ConnectFails
  BY <1>22 DEF TypeInv, ApiTypes, ConnectFails, Controls
<1>23. CASE RunClickMfc \/ WaitReader \/ RunClickCs \/ Join
  BY <1>23
     DEF TypeInv, ApiTypes, RunClickMfc, Starts, WaitReader, RunClickCs,
         Controls, Join
<1>24. CASE StopTest \/ StopDone
  BY <1>24 DEF TypeInv, ApiTypes, StopTest, StopDone, Controls
<1>25. CASE OnTimer
  BY <1>25 DEF TypeInv, ApiTypes, OnTimer, Settled, FramerBusy, Open, Controls
<1>26. CASE Receive
  BY <1>26 DEF TypeInv, ApiTypes, Receive
<1> QED
  BY <1>1, <1>2, <1>3, <1>4, <1>5, <1>6, <1>7, <1>8, <1>9, <1>10, <1>11,
     <1>12, <1>13, <1>14, <1>15, <1>16, <1>17, <1>18, <1>19, <1>20, <1>21,
     <1>22, <1>23, <1>24, <1>25, <1>26
     DEF Next, User, Handler, Network, FramerThread

\* There are never more frames than chunks.
LEMMA DataTypesStep ==
  ASSUME TypeInv, Next
  PROVE  DataTypes'
<1>1. CASE Disconnect
  BY <1>1 DEF TypeInv, DataTypes, Counting, One, Disconnect, ApiFreed
<1>2. CASE WaitReader
  BY <1>2 DEF TypeInv, DataTypes, Counting, One, WaitReader
<1>3. CASE RunFails
  <2>1. UNCHANGED <<file, last, runs, chunks, made>>
        /\ (recv' = 0 \/ recv' = recv)
    BY <1>3 DEF RunFails, ApiFreed
  <2>2. frames' = <<>> \/ frames' = frames
    BY <1>3 DEF RunFails, ApiFreed
  <2>3. frames' \in Seq(Frames)
    BY <2>2, SequenceTypes DEF TypeInv, DataTypes
  <2> QED
    BY <2>1, <2>3 DEF TypeInv, DataTypes
<1>4. CASE RunStarts
  BY <1>4 DEF TypeInv, DataTypes, Counting, One, RunStarts
<1>5. CASE RunStatus
  BY <1>5 DEF TypeInv, DataTypes, Counting, One, RunStatus, StartReader
<1>6. CASE Join
  BY <1>6 DEF TypeInv, DataTypes, Counting, One, Join, StartReader
<1>7. CASE ResetDone
  BY <1>7 DEF TypeInv, DataTypes, Counting, One, ResetDone
<1>8. CASE Close
  <2>1. UNCHANGED <<file, last, runs, chunks, made>>
        /\ (recv' = 0 \/ recv' = recv)
    BY <1>8 DEF Close, Terminated, ApiFreed
  <2>2. frames' = <<>> \/ frames' = frames
    BY <1>8 DEF Close, Terminated, ApiFreed
  <2>3. frames' \in Seq(Frames)
    BY <2>2, SequenceTypes DEF TypeInv, DataTypes
  <2> QED
    BY <2>1, <2>3 DEF TypeInv, DataTypes
<1>9. CASE Exit
  BY <1>9 DEF TypeInv, DataTypes, Counting, One, Exit, Terminated, ApiFreed
<1>10. CASE Receive
  BY <1>10 DEF TypeInv, DataTypes, Counting, One, Receive
<1>11. CASE FramerTake
  BY <1>11 DEF TypeInv, DataTypes, Counting, One, FramerTake
<1>12. CASE FramerMake \/ FramerDone
  <2>1. UNCHANGED <<file, last, runs, recv, chunks>> /\ made' \in 0..MaxChunks
    BY <1>12, FrameMade DEF TypeInv, DataTypes, Frames
  <2>2. frames' \in Seq(Frames)
    BY <1>12, FrameMade, SequenceTypes DEF TypeInv, DataTypes
  <2> QED
    BY <2>1, <2>2 DEF TypeInv, DataTypes
<1>13. ASSUME NEW r \in Runs, recv_thread(r) PROVE DataTypes'
  <2>1. CASE ReaderGet(r)
    <3>1. UNCHANGED <<file, last, runs, recv, chunks, made>>
      BY <2>1 DEF ReaderGet
    <3>2. frames' \in Seq(Frames)
      <4>1. frames \in Seq(Frames)
        BY DEF TypeInv, DataTypes
      <4>2. frames' = IF frames = <<>> THEN frames ELSE Tail(frames)
        BY <2>1 DEF ReaderGet
      <4> QED
        BY <4>1, <4>2, SequenceTypes
    <3> QED
      BY <3>1, <3>2 DEF TypeInv, DataTypes
  <2>2. CASE ReaderLoop(r) \/ ReaderPoll(r) \/ ReaderPause(r) \/
             ReaderWrite(r) \/ ReaderResume(r)
    BY <2>2
       DEF TypeInv, DataTypes, Counting, One, ReaderLoop, ReaderPoll,
           Settled, FramerBusy, HasRemain, ReaderPause, ReaderWrite,
           ReaderResume
  <2> QED
    BY <1>13, <2>1, <2>2 DEF recv_thread
<1>14. CASE ConnectOk \/ ConnectFails
  BY <1>14 DEF TypeInv, DataTypes, Counting, One, ConnectOk, ConnectFails
<1>15. CASE RunClickMfc \/ RunClickCs
  BY <1>15 DEF TypeInv, DataTypes, Counting, One, RunClickMfc, RunClickCs
<1>16. CASE StopTest \/ StopSet \/ StopClose \/ StopDone
  BY <1>16
     DEF TypeInv, DataTypes, Counting, One, StopTest, StopSet, StopClose,
         StopDone
<1>17. CASE ResetClick \/ OnTimer
  BY <1>17
     DEF TypeInv, DataTypes, Counting, One, ResetClick, OnTimer, Settled,
         FramerBusy, HasRemain
<1>18. CASE SockStart \/ ConnectionEnds
  BY <1>18 DEF TypeInv, DataTypes, Counting, One, SockStart, ConnectionEnds
<1>19. CASE FramerCut \/ FramerExit \/ FramerIdle \/ FramerStop
  BY <1>19
     DEF TypeInv, DataTypes, Counting, One, FramerCut, FramerExit,
         FramerIdle, FramerStop
<1> QED
  BY <1>1, <1>2, <1>3, <1>4, <1>5, <1>6, <1>7, <1>8, <1>9, <1>10, <1>11,
     <1>12, <1>13, <1>14, <1>15, <1>16, <1>17, <1>18, <1>19
     DEF Next, User, Handler, Network, FramerThread

\* A step moves a chunk on or drops it.
LEMMA CountingStep ==
  ASSUME TypeInv, Next
  PROVE  Counting'
<1>1. CASE Disconnect
  BY <1>1
     DEF TypeInv, DataTypes, ApiTypes, Counting, One, Disconnect, ApiFreed
<1>2. CASE RunFails
  BY <1>2 DEF TypeInv, DataTypes, ApiTypes, Counting, One, RunFails, ApiFreed
<1>3. CASE RunStarts
  BY <1>3 DEF TypeInv, DataTypes, ApiTypes, Counting, One, RunStarts
<1>4. CASE ResetDone
  BY <1>4 DEF TypeInv, DataTypes, ApiTypes, Counting, One, ResetDone
<1>5. CASE Close
  BY <1>5
     DEF TypeInv, DataTypes, ApiTypes, Counting, One, Close, Terminated,
         ApiFreed
<1>6. CASE Exit
  BY <1>6
     DEF TypeInv, DataTypes, ApiTypes, Counting, One, Exit, Terminated,
         ApiFreed
<1>7. CASE Receive
  BY <1>7 DEF TypeInv, DataTypes, ApiTypes, Counting, One, Receive
<1>8. CASE FramerTake
  BY <1>8 DEF TypeInv, DataTypes, ApiTypes, Counting, One, FramerTake
<1>9. CASE FramerMake
  BY <1>9
     DEF TypeInv, DataTypes, ApiTypes, Counting, One, FramerMake, MakeFrame
<1>10. CASE FramerCut
  BY <1>10 DEF TypeInv, DataTypes, ApiTypes, Counting, One, FramerCut
<1>11. CASE FramerDone
  BY <1>11
     DEF TypeInv, DataTypes, ApiTypes, Counting, One, FramerDone, MakeFrame
<1>12. CASE FramerExit
  BY <1>12 DEF TypeInv, DataTypes, ApiTypes, Counting, One, FramerExit
<1>13. CASE FramerIdle
  BY <1>13 DEF TypeInv, DataTypes, ApiTypes, Counting, One, FramerIdle
<1>14. CASE FramerStop
  BY <1>14 DEF TypeInv, DataTypes, ApiTypes, Counting, One, FramerStop
<1>15. CASE \E r \in Runs : recv_thread(r)
  BY <1>15, ReaderSteps DEF TypeInv, DataTypes, ApiTypes, Counting, One
<1>16. CASE ConnectOk \/ ConnectFails
  BY <1>16
     DEF TypeInv, DataTypes, ApiTypes, Counting, One, ConnectOk, ConnectFails
<1>17. CASE RunClickMfc \/ WaitReader \/ RunClickCs \/ RunStatus \/ Join
  BY <1>17
     DEF TypeInv, DataTypes, ApiTypes, Counting, One, RunClickMfc,
         WaitReader, RunClickCs, RunStatus, Join
<1>18. CASE StopTest \/ StopSet \/ StopClose \/ StopDone
  BY <1>18
     DEF TypeInv, DataTypes, ApiTypes, Counting, One, StopTest, StopSet,
         StopClose, StopDone
<1>19. CASE ResetClick \/ OnTimer
  BY <1>19
     DEF TypeInv, DataTypes, ApiTypes, Counting, One, ResetClick, OnTimer,
         Settled, FramerBusy, HasRemain
<1>20. CASE SockStart \/ ConnectionEnds
  BY <1>20
     DEF TypeInv, DataTypes, ApiTypes, Counting, One, SockStart,
         ConnectionEnds
<1> QED
  BY <1>1, <1>2, <1>3, <1>4, <1>5, <1>6, <1>7, <1>8, <1>9, <1>10, <1>11,
     <1>12, <1>13, <1>14, <1>15, <1>16, <1>17, <1>18, <1>19, <1>20
     DEF Next, User, Handler, Network, FramerThread

\* A handler needs a live manager when it begins.
LEMMA HandlingStep ==
  ASSUME TypeInv, Next
  PROVE  Handling'
<1>1. CASE ConnectOk
  BY <1>1 DEF TypeInv, GuiTypes, Handling, ConnectOk, Clicked, Show, Controls
<1>2. CASE ConnectFails
  BY <1>2
     DEF TypeInv, GuiTypes, Handling, ConnectFails, Clicked, Show, Controls
<1>3. CASE Disconnect
  BY <1>3 DEF TypeInv, GuiTypes, Handling, Disconnect, Clicked, Show, Controls
<1>4. CASE RunClickMfc
  BY <1>4 DEF TypeInv, GuiTypes, Handling, RunClickMfc, Clicked, Starts
<1>5. CASE WaitReader
  BY <1>5 DEF TypeInv, GuiTypes, Handling, WaitReader
<1>6. CASE RunClickCs
  BY <1>6
     DEF TypeInv, GuiTypes, Handling, RunClickCs, Clicked, Starts, Show,
         Controls
<1>7. CASE RunFails
  BY <1>7 DEF TypeInv, GuiTypes, Handling, RunFails, Show, Controls
<1>8. CASE RunStarts
  BY <1>8 DEF TypeInv, GuiTypes, Handling, RunStarts
<1>9. CASE RunStatus
  BY <1>9 DEF TypeInv, GuiTypes, Handling, RunStatus, Show, Controls
<1>10. CASE Join
  BY <1>10 DEF TypeInv, GuiTypes, Handling, Join
<1>11. CASE StopTest
  BY <1>11 DEF TypeInv, GuiTypes, Handling, StopTest
<1>12. CASE StopSet
  BY <1>12 DEF TypeInv, GuiTypes, Handling, StopSet
<1>13. CASE StopClose
  BY <1>13 DEF TypeInv, GuiTypes, Handling, StopClose
<1>14. CASE StopDone
  BY <1>14 DEF TypeInv, GuiTypes, Handling, StopDone, Show, Controls
<1>15. CASE ResetClick
  BY <1>15 DEF TypeInv, GuiTypes, Handling, ResetClick, Clicked
<1>16. CASE ResetDone
  BY <1>16 DEF TypeInv, GuiTypes, Handling, ResetDone
<1>17. CASE OnTimer
  BY <1>17 DEF TypeInv, GuiTypes, Handling, OnTimer, Show, Controls
<1>18. CASE Close
  BY <1>18 DEF TypeInv, GuiTypes, Handling, Close, Terminated
<1>19. CASE Exit
  BY <1>19 DEF TypeInv, GuiTypes, Handling, Exit, Terminated
<1>20. CASE \E r \in Runs : recv_thread(r)
  BY <1>20, ReaderSteps DEF TypeInv, GuiTypes, Handling
<1>21. CASE Network \/ FramerThread
  BY <1>21, ApiSteps DEF TypeInv, GuiTypes, Handling
<1> QED
  BY <1>1, <1>2, <1>3, <1>4, <1>5, <1>6, <1>7, <1>8, <1>9, <1>10, <1>11,
     <1>12, <1>13, <1>14, <1>15, <1>16, <1>17, <1>18, <1>19, <1>20, <1>21
     DEF Next, User, Handler, Network, FramerThread

\* A run has a number of its own, and its recv_thread starts once.
LEMMA FreshStep ==
  ASSUME TypeInv, Next
  PROVE  Fresh'
<1>1. CASE RunClickMfc
  BY <1>1 DEF TypeInv, ReaderTypes, DataTypes, Fresh, RunClickMfc, Clicked
<1>2. CASE WaitReader
  BY <1>2 DEF TypeInv, ReaderTypes, DataTypes, Fresh, WaitReader, Alive
<1>3. CASE RunClickCs
  BY <1>3 DEF TypeInv, ReaderTypes, DataTypes, Fresh, RunClickCs, Clicked
<1>4. CASE RunFails
  BY <1>4 DEF TypeInv, ReaderTypes, DataTypes, Fresh, RunFails, ApiFreed
<1>5. CASE RunStarts
  BY <1>5 DEF TypeInv, ReaderTypes, DataTypes, Fresh, RunStarts
<1>6. CASE RunStatus
  BY <1>6 DEF TypeInv, ReaderTypes, DataTypes, Fresh, RunStatus, StartReader
<1>7. CASE Join
  BY <1>7 DEF TypeInv, ReaderTypes, DataTypes, Fresh, Join, StartReader
<1>8. CASE StopTest
  BY <1>8 DEF TypeInv, ReaderTypes, DataTypes, Fresh, StopTest
<1>9. CASE StopSet
  BY <1>9 DEF TypeInv, ReaderTypes, DataTypes, Fresh, StopSet
<1>10. CASE StopClose
  BY <1>10 DEF TypeInv, ReaderTypes, DataTypes, Fresh, StopClose
<1>11. CASE StopDone
  BY <1>11 DEF TypeInv, ReaderTypes, DataTypes, Fresh, StopDone
<1>12. CASE ResetClick
  BY <1>12 DEF TypeInv, ReaderTypes, DataTypes, Fresh, ResetClick, Clicked
<1>13. CASE ResetDone
  BY <1>13 DEF TypeInv, ReaderTypes, DataTypes, Fresh, ResetDone
<1>14. CASE Close
  BY <1>14
     DEF TypeInv, ReaderTypes, DataTypes, Fresh, Close, Terminated, ApiFreed
<1>15. CASE Exit
  BY <1>15
     DEF TypeInv, ReaderTypes, DataTypes, Fresh, Exit, Alive, Terminated,
         ApiFreed
<1>16. ASSUME NEW r \in Runs, recv_thread(r) PROVE Fresh'
  <2>1. CASE ReaderLoop(r)
    BY <2>1
       DEF TypeInv, ReaderTypes, DataTypes, Fresh, ReaderLoop, ReaderAt,
           ReaderGoto
  <2>2. CASE ReaderPoll(r)
    BY <2>2
       DEF TypeInv, ReaderTypes, DataTypes, Fresh, ReaderPoll, ReaderAt,
           ReaderGoto
  <2>3. CASE ReaderGet(r)
    BY <2>3
       DEF TypeInv, ReaderTypes, DataTypes, Fresh, ReaderGet, ReaderAt,
           ReaderGoto
  <2>4. CASE ReaderPause(r)
    BY <2>4
       DEF TypeInv, ReaderTypes, DataTypes, Fresh, ReaderPause, ReaderAt,
           ReaderGoto
  <2>5. CASE ReaderWrite(r)
    BY <2>5
       DEF TypeInv, ReaderTypes, DataTypes, Fresh, ReaderWrite, ReaderAt,
           ReaderGoto
  <2>6. CASE ReaderResume(r)
    BY <2>6
       DEF TypeInv, ReaderTypes, DataTypes, Fresh, ReaderResume, ReaderAt,
           ReaderGoto
  <2> QED
    BY <1>16, <2>1, <2>2, <2>3, <2>4, <2>5, <2>6 DEF recv_thread
<1>17. CASE Network \/ FramerThread
  BY <1>17, ApiSteps DEF TypeInv, ReaderTypes, DataTypes, Fresh
<1>18. CASE ConnectOk \/ ConnectFails \/ Disconnect
  BY <1>18
     DEF TypeInv, ReaderTypes, DataTypes, Fresh, ConnectOk, Clicked,
         ConnectFails, Disconnect, ApiFreed, Alive
<1>19. CASE OnTimer
  BY <1>19 DEF TypeInv, ReaderTypes, DataTypes, Fresh, OnTimer
<1> QED
  BY <1>1, <1>2, <1>3, <1>4, <1>5, <1>6, <1>7, <1>8, <1>9, <1>10, <1>11,
     <1>12, <1>13, <1>14, <1>15, <1>16, <1>17, <1>18, <1>19
     DEF Next, User, Handler, Network, FramerThread

\* A frame is taken before it is written, and written once.
LEMMA HoldingStep ==
  ASSUME TypeInv, Next
  PROVE  Holding'
<1>1. CASE RunStarts
  BY <1>1
     DEF TypeInv, ReaderTypes, DataTypes, Frames, Fresh, Holding, RunStarts
<1>2. CASE RunStatus
  BY <1>2
     DEF TypeInv, ReaderTypes, DataTypes, Frames, Fresh, Holding, RunStatus,
         StartReader
<1>3. CASE Join
  BY <1>3
     DEF TypeInv, ReaderTypes, DataTypes, Frames, Fresh, Holding, Join,
         StartReader
<1>4. ASSUME NEW r \in Runs, recv_thread(r) PROVE Holding'
  <2>1. CASE ReaderLoop(r)
    BY <2>1
       DEF TypeInv, ReaderTypes, DataTypes, Frames, Fresh, Holding,
           ReaderLoop, ReaderAt, ReaderGoto
  <2>2. CASE ReaderPoll(r)
    BY <2>2
       DEF TypeInv, ReaderTypes, DataTypes, Frames, Fresh, Holding,
           ReaderPoll, ReaderAt, ReaderGoto
  <2>3. CASE ReaderGet(r)
    <3>1. /\ item[r] = 0 /\ reader'[r] \in {"loop", "pause"}
          /\ reader'[r] = "pause" <=> item'[r] # 0
      <4>1. CASE frames = <<>>
        BY <2>3, <4>1
           DEF TypeInv, ReaderTypes, Holding, ReaderGet, ReaderAt, ReaderGoto
      <4>2. CASE frames # <<>>
        <5>1. Head(frames) # 0
          BY <4>2 DEF TypeInv, DataTypes, Frames
        <5> QED
          BY <2>3, <4>2, <5>1
             DEF TypeInv, ReaderTypes, Holding, ReaderGet, ReaderAt, ReaderGoto
      <4> QED
        BY <4>1, <4>2
    <3>2. \A s \in Runs : s # r => reader'[s] = reader[s] /\ item'[s] = item[s]
      BY <2>3 DEF TypeInv, ReaderTypes, ReaderGet, ReaderGoto
    <3> QED
      BY <3>1, <3>2 DEF TypeInv, Holding
  <2>4. CASE ReaderPause(r)
    BY <2>4
       DEF TypeInv, ReaderTypes, DataTypes, Frames, Fresh, Holding,
           ReaderPause, ReaderAt, ReaderGoto
  <2>5. CASE ReaderWrite(r)
    BY <2>5
       DEF TypeInv, ReaderTypes, DataTypes, Frames, Fresh, Holding,
           ReaderWrite, ReaderAt, ReaderGoto
  <2>6. CASE ReaderResume(r)
    BY <2>6
       DEF TypeInv, ReaderTypes, DataTypes, Frames, Fresh, Holding,
           ReaderResume, ReaderAt, ReaderGoto
  <2> QED
    BY <1>4, <2>1, <2>2, <2>3, <2>4, <2>5, <2>6 DEF recv_thread
<1>5. CASE Network \/ FramerThread
  BY <1>5, ApiSteps
     DEF TypeInv, ReaderTypes, DataTypes, Frames, Fresh, Holding
<1>6. CASE ConnectOk \/ ConnectFails \/ Disconnect
  BY <1>6
     DEF TypeInv, ReaderTypes, DataTypes, Frames, Fresh, Holding, ConnectOk,
         ConnectFails, Disconnect, Alive
<1>7. CASE RunClickMfc \/ WaitReader \/ RunClickCs \/ RunFails
  BY <1>7
     DEF TypeInv, ReaderTypes, DataTypes, Frames, Fresh, Holding,
         RunClickMfc, WaitReader, Alive, RunClickCs, RunFails
<1>8. CASE StopTest \/ StopSet \/ StopClose \/ StopDone
  BY <1>8
     DEF TypeInv, ReaderTypes, DataTypes, Frames, Fresh, Holding, StopTest,
         StopSet, StopClose, StopDone
<1>9. CASE ResetClick \/ ResetDone \/ OnTimer \/ Close \/ Exit
  BY <1>9
     DEF TypeInv, ReaderTypes, DataTypes, Frames, Fresh, Holding, ResetClick,
         ResetDone, OnTimer, Close, Exit, Alive
<1> QED
  BY <1>1, <1>2, <1>3, <1>4, <1>5, <1>6, <1>7, <1>8, <1>9
     DEF Next, User, Handler, Network, FramerThread

\* Nothing is used below a manager that does not live.
LEMMA FreedStep ==
  ASSUME TypeInv, Next
  PROVE  Freed'
<1>1. CASE ConnectOk
  BY <1>1
     DEF TypeInv, GuiTypes, ApiTypes, DataTypes, Handling, Freed, ConnectOk
<1>2. CASE ConnectFails
  BY <1>2
     DEF TypeInv, GuiTypes, ApiTypes, DataTypes, Handling, Freed,
         ConnectFails
<1>3. CASE Disconnect
  BY <1>3
     DEF TypeInv, GuiTypes, ApiTypes, DataTypes, Handling, Freed, Disconnect,
         ApiFreed
<1>4. CASE RunFails
  BY <1>4
     DEF TypeInv, GuiTypes, ApiTypes, DataTypes, Handling, Freed, RunFails,
         ApiFreed
<1>5. CASE RunStarts
  BY <1>5
     DEF TypeInv, GuiTypes, ApiTypes, DataTypes, Handling, Freed, RunStarts
<1>6. CASE RunStatus
  BY <1>6
     DEF TypeInv, GuiTypes, ApiTypes, DataTypes, Handling, Freed, RunStatus
<1>7. CASE StopSet
  BY <1>7 DEF TypeInv, GuiTypes, ApiTypes, DataTypes, Handling, Freed, StopSet
<1>8. CASE StopClose
  BY <1>8
     DEF TypeInv, GuiTypes, ApiTypes, DataTypes, Handling, Freed, StopClose,
         Closed
<1>9. CASE ResetClick
  BY <1>9
     DEF TypeInv, GuiTypes, ApiTypes, DataTypes, Handling, Freed, ResetClick
<1>10. CASE ResetDone
  BY <1>10
     DEF TypeInv, GuiTypes, ApiTypes, DataTypes, Handling, Freed, ResetDone
<1>11. CASE Close
  BY <1>11
     DEF TypeInv, GuiTypes, ApiTypes, DataTypes, Handling, Freed, Close,
         Terminated, ApiFreed
<1>12. CASE Exit
  BY <1>12
     DEF TypeInv, GuiTypes, ApiTypes, DataTypes, Handling, Freed, Exit,
         Terminated, ApiFreed
<1>13. CASE SockStart
  BY <1>13
     DEF TypeInv, GuiTypes, ApiTypes, DataTypes, Handling, Freed, SockStart
<1>14. CASE Receive
  BY <1>14
     DEF TypeInv, GuiTypes, ApiTypes, DataTypes, Handling, Freed, Receive
<1>15. CASE ConnectionEnds
  BY <1>15
     DEF TypeInv, GuiTypes, ApiTypes, DataTypes, Handling, Freed,
         ConnectionEnds
<1>16. CASE FramerTake
  BY <1>16
     DEF TypeInv, GuiTypes, ApiTypes, DataTypes, Handling, Freed, FramerTake
<1>17. CASE FramerMake
  BY <1>17
     DEF TypeInv, GuiTypes, ApiTypes, DataTypes, Handling, Freed, FramerMake,
         MakeFrame, FramerFails, Closed, QueueFails, NoFailure
<1>18. CASE FramerCut
  BY <1>18
     DEF TypeInv, GuiTypes, ApiTypes, DataTypes, Handling, Freed, FramerCut
<1>19. CASE FramerDone
  BY <1>19
     DEF TypeInv, GuiTypes, ApiTypes, DataTypes, Handling, Freed, FramerDone,
         Open, QueueFails, NoFailure, MakeFrame
<1>20. CASE FramerExit
  BY <1>20
     DEF TypeInv, GuiTypes, ApiTypes, DataTypes, Handling, Freed, FramerExit
<1>21. CASE FramerIdle
  BY <1>21
     DEF TypeInv, GuiTypes, ApiTypes, DataTypes, Handling, Freed, FramerIdle
<1>22. CASE FramerStop
  BY <1>22
     DEF TypeInv, GuiTypes, ApiTypes, DataTypes, Handling, Freed, FramerStop,
         Closed
<1>23. ASSUME NEW r \in Runs, recv_thread(r) PROVE Freed'
  <2>1. CASE ReaderGet(r)
    BY <2>1
       DEF TypeInv, GuiTypes, ApiTypes, DataTypes, Handling, Freed, ReaderGet
  <2>2. CASE ReaderLoop(r) \/ ReaderPoll(r) \/ ReaderPause(r) \/
             ReaderWrite(r) \/ ReaderResume(r)
    BY <2>2
       DEF TypeInv, GuiTypes, ApiTypes, DataTypes, Handling, Freed,
           ReaderLoop, ReaderPoll, Settled, FramerBusy, Open, HasRemain,
           ReaderPause, ReaderWrite, ReaderResume
  <2> QED
    BY <1>23, <2>1, <2>2 DEF recv_thread
<1>24. CASE RunClickMfc \/ WaitReader \/ RunClickCs \/ Join
  BY <1>24
     DEF TypeInv, GuiTypes, ApiTypes, DataTypes, Handling, Freed,
         RunClickMfc, Starts, WaitReader, RunClickCs, Join
<1>25. CASE StopTest \/ StopDone
  BY <1>25
     DEF TypeInv, GuiTypes, ApiTypes, DataTypes, Handling, Freed, StopTest,
         StopDone
<1>26. CASE OnTimer
  BY <1>26
     DEF TypeInv, GuiTypes, ApiTypes, DataTypes, Handling, Freed, OnTimer,
         Settled, FramerBusy, Open, HasRemain
<1> QED
  BY <1>1, <1>2, <1>3, <1>4, <1>5, <1>6, <1>7, <1>8, <1>9, <1>10, <1>11,
     <1>12, <1>13, <1>14, <1>15, <1>16, <1>17, <1>18, <1>19, <1>20, <1>21,
     <1>22, <1>23, <1>24, <1>25, <1>26
     DEF Next, User, Handler, Network, FramerThread

\* A recv_thread starts only when the last one has ended.
LEMMA SingleStep ==
  ASSUME TypeInv, Single, Next
  PROVE  Single'
<1>1. CASE RunClickMfc
  BY <1>1
     DEF TypeInv, GuiTypes, ReaderTypes, ApiTypes, Fresh, Single, Alive,
         RunClickMfc, Clicked, Starts
<1>2. CASE WaitReader
  BY <1>2
     DEF TypeInv, GuiTypes, ReaderTypes, ApiTypes, Fresh, Single, Alive,
         WaitReader
<1>3. CASE RunClickCs
  BY <1>3
     DEF TypeInv, GuiTypes, ReaderTypes, ApiTypes, Fresh, Single, RunClickCs,
         Clicked, Controls
<1>4. CASE RunFails
  BY <1>4
     DEF TypeInv, GuiTypes, ReaderTypes, ApiTypes, Fresh, Single, Alive,
         RunFails, ApiFreed, Show, Controls
<1>5. CASE RunStarts
  BY <1>5
     DEF TypeInv, GuiTypes, ReaderTypes, ApiTypes, Fresh, Single, Alive,
         RunStarts
<1>6. CASE RunStatus
  BY <1>6
     DEF TypeInv, GuiTypes, ReaderTypes, ApiTypes, Fresh, Single, Alive,
         RunStatus, Show, Controls, StartReader
<1>7. CASE Join
  BY <1>7
     DEF TypeInv, GuiTypes, ReaderTypes, ApiTypes, Fresh, Single, Join,
         StartReader
<1>8. CASE StopTest
  BY <1>8
     DEF TypeInv, GuiTypes, ReaderTypes, ApiTypes, Fresh, Single, Alive,
         StopTest
<1>9. CASE StopSet
  BY <1>9
     DEF TypeInv, GuiTypes, ReaderTypes, ApiTypes, Fresh, Single, Alive,
         StopSet
<1>10. CASE StopClose
  BY <1>10
     DEF TypeInv, GuiTypes, ReaderTypes, ApiTypes, Fresh, Single, Alive,
         StopClose, Closed
<1>11. CASE StopDone
  BY <1>11
     DEF TypeInv, GuiTypes, ReaderTypes, ApiTypes, Fresh, Single, Alive,
         StopDone, Show, Controls
<1>12. CASE ResetClick
  BY <1>12
     DEF TypeInv, GuiTypes, ReaderTypes, ApiTypes, Fresh, Single, Alive,
         ResetClick, Clicked
<1>13. CASE ResetDone
  BY <1>13
     DEF TypeInv, GuiTypes, ReaderTypes, ApiTypes, Fresh, Single, Alive,
         ResetDone
<1>14. CASE Close
  BY <1>14
     DEF TypeInv, GuiTypes, ReaderTypes, ApiTypes, Fresh, Single, Alive,
         Close, Terminated, ApiFreed
<1>15. CASE Exit
  BY <1>15
     DEF TypeInv, GuiTypes, ReaderTypes, ApiTypes, Fresh, Single, Alive,
         Exit, Terminated, ApiFreed
<1>16. ASSUME NEW r \in Runs, recv_thread(r) PROVE Single'
  <2>1. CASE ReaderLoop(r)
    BY <2>1
       DEF TypeInv, GuiTypes, ReaderTypes, ApiTypes, Fresh, Single, Alive,
           ReaderLoop, ReaderAt, ReaderGoto, Over
  <2>2. CASE ReaderPoll(r)
    BY <2>2
       DEF TypeInv, GuiTypes, ReaderTypes, ApiTypes, Fresh, Single, Alive,
           ReaderPoll, ReaderAt, Settled, FramerBusy, Open, ReaderGoto,
           HasRemain
  <2>3. CASE ReaderGet(r)
    BY <2>3
       DEF TypeInv, GuiTypes, ReaderTypes, ApiTypes, Fresh, Single, Alive,
           ReaderGet, ReaderAt, ReaderGoto
  <2>4. CASE ReaderPause(r)
    BY <2>4
       DEF TypeInv, GuiTypes, ReaderTypes, ApiTypes, Fresh, Single, Alive,
           ReaderPause, ReaderAt, ReaderGoto
  <2>5. CASE ReaderWrite(r)
    BY <2>5
       DEF TypeInv, GuiTypes, ReaderTypes, ApiTypes, Fresh, Single, Alive,
           ReaderWrite, ReaderAt, ReaderGoto
  <2>6. CASE ReaderResume(r)
    BY <2>6
       DEF TypeInv, GuiTypes, ReaderTypes, ApiTypes, Fresh, Single, Alive,
           ReaderResume, ReaderAt, ReaderGoto
  <2> QED
    BY <1>16, <2>1, <2>2, <2>3, <2>4, <2>5, <2>6 DEF recv_thread
<1>17. CASE Network \/ FramerThread
  BY <1>17, ApiSteps
     DEF TypeInv, GuiTypes, ReaderTypes, ApiTypes, Fresh, Single, Alive
<1>18. CASE ConnectOk \/ ConnectFails \/ Disconnect
  BY <1>18
     DEF TypeInv, GuiTypes, ReaderTypes, ApiTypes, Fresh, Single, Alive,
         ConnectOk, Clicked, Show, Controls, ConnectFails, Disconnect,
         ApiFreed
<1>19. CASE OnTimer
  BY <1>19
     DEF TypeInv, GuiTypes, ReaderTypes, ApiTypes, Fresh, Single, Alive,
         OnTimer, Settled, FramerBusy, Open, Show, Controls, HasRemain
<1> QED
  BY <1>1, <1>2, <1>3, <1>4, <1>5, <1>6, <1>7, <1>8, <1>9, <1>10, <1>11,
     <1>12, <1>13, <1>14, <1>15, <1>16, <1>17, <1>18, <1>19
     DEF Next, User, Handler, Network, FramerThread

\* Frames are appended in the order they are made.
LEMMA QueuedStep ==
  ASSUME TypeInv, Queued, Next
  PROVE  Queued'
<1>1. CASE Disconnect
  BY <1>1 DEF TypeInv, DataTypes, Queued, Disconnect, ApiFreed
<1>2. CASE RunFails
  BY <1>2 DEF TypeInv, DataTypes, Queued, RunFails, ApiFreed
<1>3. CASE ResetDone
  BY <1>3 DEF TypeInv, DataTypes, Queued, ResetDone
<1>4. CASE Close
  BY <1>4 DEF TypeInv, DataTypes, Queued, Close, Terminated, ApiFreed
<1>5. CASE Exit
  BY <1>5 DEF TypeInv, DataTypes, Queued, Exit, Terminated, ApiFreed
<1>6. CASE FramerMake \/ FramerDone
  <2>1. \A i \in DOMAIN frames' : frames'[i] <= made'
    BY <1>6, Numbers, QueueGrows DEF Queued
  <2>2. ASSUME NEW i \in DOMAIN frames', NEW j \in DOMAIN frames', i < j
        PROVE  frames'[i] < frames'[j]
    <3>1. CASE j \in DOMAIN frames /\ frames'[j] = frames[j]
      BY <1>6, <2>2, <3>1, Numbers, QueueGrows DEF Queued
    <3>2. CASE frames'[j] = made + 1 /\ j = Len(frames) + 1
      BY <1>6, <2>2, <3>2, Numbers, QueueGrows DEF Queued
    <3> QED
      BY <1>6, <3>1, <3>2, QueueGrows
  <2> QED
    BY <2>1, <2>2 DEF Queued
<1>7. ASSUME NEW r \in Runs, recv_thread(r) PROVE Queued'
  <2>1. CASE ReaderGet(r)
    BY <2>1, QueueShrinks DEF TypeInv, DataTypes, Queued
  <2>2. CASE ReaderLoop(r) \/ ReaderPoll(r) \/ ReaderPause(r) \/
             ReaderWrite(r) \/ ReaderResume(r)
    BY <2>2
       DEF TypeInv, DataTypes, Queued, ReaderLoop, ReaderPoll, Settled,
           HasRemain, ReaderPause, ReaderWrite, ReaderResume
  <2> QED
    BY <1>7, <2>1, <2>2 DEF recv_thread
<1>8. CASE ConnectOk \/ ConnectFails
  BY <1>8 DEF TypeInv, DataTypes, Queued, ConnectOk, ConnectFails
<1>9. CASE RunClickMfc \/ WaitReader \/ RunClickCs \/ RunStarts \/ RunStatus
           \/ Join
  BY <1>9
     DEF TypeInv, DataTypes, Queued, RunClickMfc, WaitReader, RunClickCs,
         RunStarts, RunStatus, Join
<1>10. CASE StopTest \/ StopSet \/ StopClose \/ StopDone
  BY <1>10
     DEF TypeInv, DataTypes, Queued, StopTest, StopSet, StopClose, StopDone
<1>11. CASE ResetClick \/ OnTimer
  BY <1>11
     DEF TypeInv, DataTypes, Queued, ResetClick, OnTimer, Settled, HasRemain
<1>12. CASE SockStart \/ Receive \/ ConnectionEnds
  BY <1>12 DEF TypeInv, DataTypes, Queued, SockStart, Receive, ConnectionEnds
<1>13. CASE FramerTake \/ FramerCut \/ FramerExit \/ FramerIdle \/ FramerStop
  BY <1>13
     DEF TypeInv, DataTypes, Queued, FramerTake, FramerCut, FramerExit,
         FramerIdle, FramerStop
<1> QED
  BY <1>1, <1>2, <1>3, <1>4, <1>5, <1>6, <1>7, <1>8, <1>9, <1>10, <1>11,
     <1>12, <1>13
     DEF Next, User, Handler, Network, FramerThread

\* The frame taken is the first.
LEMMA TakenStep ==
  ASSUME TypeInv, Queued, Taken, Next
  PROVE  Taken'
<1>1. CASE Disconnect
  BY <1>1
     DEF TypeInv, DataTypes, ReaderTypes, Queued, Taken, Disconnect, ApiFreed
<1>2. CASE RunFails
  BY <1>2
     DEF TypeInv, DataTypes, ReaderTypes, Queued, Taken, RunFails, ApiFreed
<1>3. CASE ResetDone
  BY <1>3 DEF TypeInv, DataTypes, ReaderTypes, Queued, Taken, ResetDone
<1>4. CASE Close
  BY <1>4
     DEF TypeInv, DataTypes, ReaderTypes, Queued, Taken, Close, Terminated,
         ApiFreed
<1>5. CASE Exit
  BY <1>5
     DEF TypeInv, DataTypes, ReaderTypes, Queued, Taken, Exit, Terminated,
         ApiFreed
<1>6. CASE FramerMake \/ FramerDone
  <2> SUFFICES ASSUME NEW r \in Runs, item[r] # 0
               PROVE  /\ item[r] <= made'
                      /\ \A i \in DOMAIN frames' : item[r] < frames'[i]
    BY <1>6, QueueGrows DEF Taken
  <2> QED
    BY <1>6, Numbers, QueueGrows DEF Taken
<1>7. ASSUME NEW r \in Runs, recv_thread(r) PROVE Taken'
  <2>1. CASE ReaderGet(r)
    <3>1. CASE UNCHANGED <<frames, item>>
      BY <2>1, <3>1, QueueShrinks DEF Taken
    <3>2. CASE ~UNCHANGED <<frames, item>>
      <4>1. \A s \in Runs : s # r => item'[s] = item[s]
        BY <2>1, <3>2, QueueShrinks DEF TypeInv, ReaderTypes
      <4>2. item'[r] \in {0, frames[1]} /\ 1 \in DOMAIN frames
        BY <2>1, <3>2, QueueShrinks DEF TypeInv, ReaderTypes
      <4>3. \A j \in DOMAIN frames' :
               /\ j + 1 \in DOMAIN frames /\ 1 < j + 1
               /\ frames'[j] = frames[j + 1]
        BY <2>1, <3>2, QueueShrinks
      <4>4. \A j \in DOMAIN frames' : frames[1] < frames'[j]
        BY <4>2, <4>3 DEF Queued
      <4> QED
        BY <2>1, <4>1, <4>2, <4>3, <4>4, QueueShrinks DEF Queued, Taken
    <3> QED
      BY <3>1, <3>2
  <2>2. CASE ReaderWrite(r)
    BY <2>2 DEF TypeInv, DataTypes, ReaderTypes, Queued, Taken, ReaderWrite
  <2>3. CASE ReaderLoop(r) \/ ReaderPoll(r) \/ ReaderPause(r) \/
             ReaderResume(r)
    BY <2>3
       DEF TypeInv, DataTypes, ReaderTypes, Queued, Taken, ReaderLoop,
           ReaderPoll, Settled, HasRemain, ReaderPause, ReaderResume
  <2> QED
    BY <1>7, <2>1, <2>2, <2>3 DEF recv_thread
<1>8. CASE ConnectOk \/ ConnectFails
  BY <1>8
     DEF TypeInv, DataTypes, ReaderTypes, Queued, Taken, ConnectOk,
         ConnectFails
<1>9. CASE RunClickMfc \/ WaitReader \/ RunClickCs \/ RunStarts \/ RunStatus
           \/ Join
  BY <1>9
     DEF TypeInv, DataTypes, ReaderTypes, Queued, Taken, RunClickMfc,
         WaitReader, RunClickCs, RunStarts, RunStatus, Join
<1>10. CASE StopTest \/ StopSet \/ StopClose \/ StopDone
  BY <1>10
     DEF TypeInv, DataTypes, ReaderTypes, Queued, Taken, StopTest, StopSet,
         StopClose, StopDone
<1>11. CASE ResetClick \/ OnTimer
  BY <1>11
     DEF TypeInv, DataTypes, ReaderTypes, Queued, Taken, ResetClick, OnTimer,
         Settled, HasRemain
<1>12. CASE SockStart \/ Receive \/ ConnectionEnds
  BY <1>12
     DEF TypeInv, DataTypes, ReaderTypes, Queued, Taken, SockStart, Receive,
         ConnectionEnds
<1>13. CASE FramerTake \/ FramerCut \/ FramerExit \/ FramerIdle \/ FramerStop
  BY <1>13
     DEF TypeInv, DataTypes, ReaderTypes, Queued, Taken, FramerTake,
         FramerCut, FramerExit, FramerIdle, FramerStop
<1> QED
  BY <1>1, <1>2, <1>3, <1>4, <1>5, <1>6, <1>7, <1>8, <1>9, <1>10, <1>11,
     <1>12, <1>13
     DEF Next, User, Handler, Network, FramerThread

\* A step that makes, takes and writes no frame.
LEMMA StoredKept ==
  ASSUME Stored, UNCHANGED <<app, written, made, item, runs, file>>,
         frames' = frames \/ frames' = <<>>
  PROVE  Stored'
BY DEF Stored

\* The frame written is later than all before it.
LEMMA StoredStep ==
  ASSUME TypeInv, Single, Taken, Stored, Next
  PROVE  Stored'
<1>1. CASE Disconnect
  BY <1>1, StoredKept DEF Disconnect, ApiFreed
<1>2. CASE RunFails
  BY <1>2
     DEF TypeInv, GuiTypes, ApiTypes, DataTypes, ReaderTypes, Holding,
         Single, Taken, Stored, RunFails, ApiFreed
<1>3. CASE RunStarts
  <2>1. /\ runs' = runs + 1
        /\ UNCHANGED <<app, file, item, written, made, frames>>
    BY <1>3 DEF RunStarts
  <2> QED
    BY <2>1, Numbers DEF Stored
<1>4. CASE RunStatus
  BY <1>4
     DEF TypeInv, GuiTypes, ApiTypes, DataTypes, ReaderTypes, Holding,
         Single, Taken, Stored, RunStatus
<1>5. CASE ResetDone
  BY <1>5
     DEF TypeInv, GuiTypes, ApiTypes, DataTypes, ReaderTypes, Holding,
         Single, Taken, Stored, ResetDone
<1>6. CASE Close
  BY <1>6
     DEF TypeInv, GuiTypes, ApiTypes, DataTypes, ReaderTypes, Holding,
         Single, Taken, Stored, Close, Terminated, ApiFreed
<1>7. CASE Exit
  BY <1>7
     DEF TypeInv, GuiTypes, ApiTypes, DataTypes, ReaderTypes, Holding,
         Single, Taken, Stored, Exit, Terminated, ApiFreed
<1>8. CASE FramerMake \/ FramerDone
  <2> SUFFICES ASSUME app = "mfc", NEW k \in DOMAIN written
               PROVE  /\ written[k].frame <= made'
                      /\ \A i \in DOMAIN frames' : written[k].frame < frames'[i]
    BY <1>8, QueueGrows DEF Stored
  <2> QED
    BY <1>8, Numbers, QueueGrows DEF Stored
<1>9. ASSUME NEW r \in Runs, recv_thread(r) PROVE Stored'
  <2>1. CASE ReaderGet(r)
    <3> SUFFICES ASSUME app = "mfc" PROVE Stored'
      BY <2>1, QueueShrinks DEF Stored
    <3>1. UNCHANGED <<app, made, written, runs, file>> /\ file <= runs
      BY <2>1, QueueShrinks DEF Stored
    <3>2. CASE UNCHANGED <<frames, item>>
      BY <3>1, <3>2 DEF Stored
    <3>3. CASE ~UNCHANGED <<frames, item>>
      <4>1. /\ \A j \in DOMAIN frames' :
                  j + 1 \in DOMAIN frames /\ frames'[j] = frames[j + 1]
            /\ 1 \in DOMAIN frames
            /\ item' = [item EXCEPT ![r] = IF file = 0 THEN 0 ELSE frames[1]]
        BY <2>1, <3>3, QueueShrinks
      <4>2. \A s \in Runs : item'[s] # 0 => item'[s] = frames[1]
                                            \/ item'[s] = item[s]
        BY <4>1 DEF TypeInv, ReaderTypes
      <4>3. ASSUME NEW k \in DOMAIN written
            PROVE  /\ written[k].frame <= made
                   /\ \A i \in DOMAIN frames' : written[k].frame < frames'[i]
                   /\ \A s \in Runs : item'[s] # 0 => written[k].frame < item'[s]
                   /\ written[k].file <= runs
                   /\ file # 0 => written[k].file <= file
        BY <4>1, <4>2 DEF Stored
      <4> QED
        BY <3>1, <4>3 DEF Stored
    <3> QED
      BY <3>2, <3>3
  <2>2. CASE ReaderWrite(r)
    <3> SUFFICES ASSUME app = "mfc"
                 PROVE  Stored'
      BY <2>2, LinesGrow DEF Stored
    <3>1. UNCHANGED <<app, made, frames, runs, file>> /\ file <= runs
      BY <2>2, LinesGrow DEF Stored
    <3>2. \A s \in Runs : item'[s] # 0 => s # r /\ item'[s] = item[s]
      BY <2>2, LinesGrow DEF TypeInv, ReaderTypes
    <3>3. \A s \in Runs : item[s] # 0 => s = r
      BY <2>2, LinesGrow DEF Single, TypeInv, Holding, Alive
    <3>4. \A s \in Runs : item'[s] = 0
      BY <3>2, <3>3
    <3>5. ASSUME NEW k \in DOMAIN written'
          PROVE  /\ written'[k].frame <= made
                 /\ \A i \in DOMAIN frames : written'[k].frame < frames[i]
                 /\ written'[k].file <= runs
                 /\ file # 0 => written'[k].file <= file
      <4>1. CASE k \in DOMAIN written /\ written'[k] = written[k]
        BY <4>1 DEF Stored
      <4>2. CASE written'[k] = [file |-> file, frame |-> item[r]]
        BY <2>2, <3>1, <4>2, Numbers, LinesGrow DEF Taken
      <4> QED
        BY <2>2, <4>1, <4>2, LinesGrow
    <3> QED
      BY <3>1, <3>4, <3>5 DEF Stored
  <2>3. CASE ReaderLoop(r) \/ ReaderPoll(r) \/ ReaderPause(r) \/
             ReaderResume(r)
    BY <2>3, StoredKept
       DEF ReaderLoop, ReaderPoll, ReaderPause, ReaderResume
  <2> QED
    BY <1>9, <2>1, <2>2, <2>3 DEF recv_thread
<1>10. CASE ConnectOk \/ ConnectFails
  BY <1>10, StoredKept DEF ConnectOk, ConnectFails
<1>11. CASE RunClickMfc \/ WaitReader \/ RunClickCs \/ Join
  BY <1>11
     DEF TypeInv, GuiTypes, ApiTypes, DataTypes, ReaderTypes, Holding,
         Single, Taken, Stored, RunClickMfc, WaitReader, RunClickCs, Join
<1>12. CASE StopTest \/ StopSet \/ StopClose \/ StopDone
  BY <1>12, StoredKept DEF StopTest, StopSet, StopClose, StopDone
<1>13. CASE ResetClick \/ OnTimer
  BY <1>13, StoredKept DEF ResetClick, OnTimer, Settled, HasRemain
<1>14. CASE SockStart \/ Receive \/ ConnectionEnds
  BY <1>14, StoredKept DEF SockStart, Receive, ConnectionEnds
<1>15. CASE FramerTake \/ FramerCut \/ FramerExit \/ FramerIdle \/ FramerStop
  BY <1>15, StoredKept
     DEF FramerTake, FramerCut, FramerExit, FramerIdle, FramerStop
<1> QED
  BY <1>1, <1>2, <1>3, <1>4, <1>5, <1>6, <1>7, <1>8, <1>9, <1>10, <1>11,
     <1>12, <1>13, <1>14, <1>15
     DEF Next, User, Handler, Network, FramerThread

\* A line is written behind all lines with earlier frames.
LEMMA OrderStep ==
  ASSUME TypeInv, Single, Stored, FilesInOrder, Next
  PROVE  FilesInOrder'
<1>1. ASSUME NEW r \in Runs, recv_thread(r) PROVE FilesInOrder'
  <2>1. CASE ReaderWrite(r)
    <3> SUFFICES ASSUME app = "mfc",
                        NEW i \in DOMAIN written', NEW j \in DOMAIN written',
                        i < j
                 PROVE  /\ written'[i].frame < written'[j].frame
                        /\ written'[i].file <= written'[j].file
      BY <2>1, LinesGrow DEF FilesInOrder
    <3>1. CASE j \in DOMAIN written /\ written'[j] = written[j]
      <4>1. i \in DOMAIN written /\ written'[i] = written[i]
        BY <2>1, <3>1, Numbers, LinesGrow
      <4> QED
        BY <3>1, <4>1 DEF FilesInOrder
    <3>2. CASE written'[j] = [file |-> file, frame |-> item[r]]
               /\ \A k \in DOMAIN written : k < j
      <4>1. CASE i \in DOMAIN written /\ written'[i] = written[i]
        BY <2>1, <3>2, <4>1, LinesGrow DEF Stored
      <4>2. CASE j \notin DOMAIN written /\ i \notin DOMAIN written
        BY <2>1, <4>2, LinesGrow
      <4> QED
        BY <2>1, <3>2, <4>1, <4>2, Numbers, LinesGrow
    <3> QED
      BY <2>1, <3>1, <3>2, LinesGrow
  <2>2. CASE ReaderLoop(r) \/ ReaderPoll(r) \/ ReaderGet(r) \/
             ReaderPause(r) \/ ReaderResume(r)
    BY <2>2
       DEF FilesInOrder, ReaderLoop, ReaderPoll, ReaderGet, ReaderPause,
           ReaderResume
  <2> QED
    BY <1>1, <2>1, <2>2 DEF recv_thread
<1>2. CASE Network \/ FramerThread
  BY <1>2, ApiSteps DEF FilesInOrder
<1>3. CASE ConnectOk \/ ConnectFails \/ Disconnect
  BY <1>3 DEF FilesInOrder, ConnectOk, ConnectFails, Disconnect
<1>4. CASE RunClickMfc \/ WaitReader \/ RunClickCs \/ RunFails \/ RunStarts
           \/ RunStatus \/ Join
  BY <1>4
     DEF FilesInOrder, RunClickMfc, WaitReader, RunClickCs, RunFails,
         RunStarts, RunStatus, Join
<1>5. CASE StopTest \/ StopSet \/ StopClose \/ StopDone
  BY <1>5 DEF FilesInOrder, StopTest, StopSet, StopClose, StopDone
<1>6. CASE ResetClick \/ ResetDone \/ OnTimer \/ Close \/ Exit
  BY <1>6 DEF FilesInOrder, ResetClick, ResetDone, OnTimer, Close, Exit
<1> QED
  BY <1>1, <1>2, <1>3, <1>4, <1>5, <1>6
     DEF Next, User, Handler, Network, FramerThread

\* Nothing starts framer_thread but a handler that found it gone.
LEMMA QuietStep ==
  ASSUME TypeInv, Quiet, Next
  PROVE  Quiet'
<1>1. CASE ConnectOk
  BY <1>1
     DEF TypeInv, GuiTypes, ApiTypes, Handling, Freed, Quiet, ConnectOk,
         Clicked, Show, Controls
<1>2. CASE ConnectFails
  BY <1>2
     DEF TypeInv, GuiTypes, ApiTypes, Handling, Freed, Quiet, ConnectFails,
         Clicked, Show, Controls
<1>3. CASE Disconnect
  BY <1>3
     DEF TypeInv, GuiTypes, ApiTypes, Handling, Freed, Quiet, Disconnect,
         Clicked, ApiFreed, Show, Controls
<1>4. CASE RunClickMfc
  BY <1>4, ButtonsShown, StartFound
     DEF TypeInv, Quiet, Open, RunClickMfc, Show, Controls
<1>5. CASE WaitReader
  BY <1>5 DEF TypeInv, GuiTypes, ApiTypes, Handling, Freed, Quiet, WaitReader
<1>6. CASE RunClickCs
  BY <1>6, ButtonsShown, StartFound
     DEF TypeInv, Quiet, RunClickCs, Show, Controls
<1>7. CASE RunFails
  BY <1>7
     DEF TypeInv, GuiTypes, ApiTypes, Handling, Freed, Quiet, RunFails,
         ApiFreed, Show, Controls
<1>8. CASE RunStarts
  BY <1>8 DEF TypeInv, GuiTypes, ApiTypes, Handling, Freed, Quiet, RunStarts
<1>9. CASE RunStatus
  BY <1>9
     DEF TypeInv, GuiTypes, ApiTypes, Handling, Freed, Quiet, RunStatus,
         Show, Controls
<1>10. CASE Join
  BY <1>10
     DEF TypeInv, GuiTypes, ApiTypes, Handling, Freed, Quiet, Open, Join,
         StartReader
<1>11. CASE StopTest
  BY <1>11
     DEF TypeInv, GuiTypes, ApiTypes, Handling, Freed, Quiet, Open, StopTest
<1>12. CASE StopSet
  BY <1>12 DEF TypeInv, GuiTypes, ApiTypes, Handling, Freed, Quiet, StopSet
<1>13. CASE StopClose
  BY <1>13
     DEF TypeInv, GuiTypes, ApiTypes, Handling, Freed, Quiet, Open,
         StopClose, Closed
<1>14. CASE StopDone
  BY <1>14
     DEF TypeInv, GuiTypes, ApiTypes, Handling, Freed, Quiet, Open, StopDone,
         Show, Controls
<1>15. CASE ResetClick
  BY <1>15, ButtonsShown DEF TypeInv, Quiet, Open, ResetClick, Clicked
<1>16. CASE ResetDone
  BY <1>16
     DEF TypeInv, GuiTypes, ApiTypes, Handling, Freed, Quiet, Open, ResetDone
<1>17. CASE OnTimer
  BY <1>17
     DEF TypeInv, GuiTypes, ApiTypes, Handling, Freed, Quiet, Open, OnTimer,
         Settled, FramerBusy, Show, Controls, HasRemain
<1>18. CASE Close
  BY <1>18
     DEF TypeInv, GuiTypes, ApiTypes, Handling, Freed, Quiet, Open, Close,
         Terminated, ApiFreed
<1>19. CASE Exit
  BY <1>19
     DEF TypeInv, GuiTypes, ApiTypes, Handling, Freed, Quiet, Exit,
         Terminated, ApiFreed
<1>20. CASE SockStart
  BY <1>20
     DEF TypeInv, GuiTypes, ApiTypes, Handling, Freed, Quiet, Open, SockStart
<1>21. CASE ConnectionEnds
  BY <1>21
     DEF TypeInv, GuiTypes, ApiTypes, Handling, Freed, Quiet, Open,
         ConnectionEnds
<1>22. CASE FramerTake
  BY <1>22
     DEF TypeInv, GuiTypes, ApiTypes, Handling, Freed, Quiet, Open,
         FramerTake
<1>23. CASE FramerMake
  BY <1>23
     DEF TypeInv, GuiTypes, ApiTypes, Handling, Freed, Quiet, Open,
         FramerMake, MakeFrame, FramerFails, Closed, QueueFails, NoFailure
<1>24. CASE FramerCut
  BY <1>24 DEF TypeInv, GuiTypes, ApiTypes, Handling, Freed, Quiet, FramerCut
<1>25. CASE FramerDone
  BY <1>25
     DEF TypeInv, GuiTypes, ApiTypes, Handling, Freed, Quiet, FramerDone,
         QueueFails, NoFailure
<1>26. CASE FramerExit
  BY <1>26 DEF TypeInv, GuiTypes, ApiTypes, Handling, Freed, Quiet, FramerExit
<1>27. CASE FramerIdle
  BY <1>27 DEF TypeInv, GuiTypes, ApiTypes, Handling, Freed, Quiet, FramerIdle
<1>28. CASE FramerStop
  BY <1>28 DEF TypeInv, GuiTypes, ApiTypes, Handling, Freed, Quiet, FramerStop
<1>29. CASE \E r \in Runs : recv_thread(r)
  BY <1>29, ReaderSteps
     DEF TypeInv, GuiTypes, ApiTypes, Handling, Freed, Quiet, Open
<1>30. CASE Receive
  BY <1>30
     DEF TypeInv, GuiTypes, ApiTypes, Handling, Freed, Quiet, Open, Receive
<1> QED
  BY <1>1, <1>2, <1>3, <1>4, <1>5, <1>6, <1>7, <1>8, <1>9, <1>10, <1>11,
     <1>12, <1>13, <1>14, <1>15, <1>16, <1>17, <1>18, <1>19, <1>20, <1>21,
     <1>22, <1>23, <1>24, <1>25, <1>26, <1>27, <1>28, <1>29, <1>30
     DEF Next, User, Handler, Network, FramerThread

\* framer_thread has left only when the connection is closed.
LEMMA ClosingStep ==
  ASSUME TypeInv, Quiet, Closing, Next
  PROVE  Closing'
<1>1. CASE ConnectOk
  BY <1>1
     DEF TypeInv, GuiTypes, ApiTypes, Handling, Freed, Quiet, Closing, Open,
         ConnectOk, Clicked, Show, Controls
<1>2. CASE ConnectFails
  BY <1>2
     DEF TypeInv, GuiTypes, ApiTypes, Handling, Freed, Quiet, Closing, Open,
         ConnectFails, Clicked, Show, Controls
<1>3. CASE Disconnect
  BY <1>3
     DEF TypeInv, GuiTypes, ApiTypes, Handling, Freed, Quiet, Closing, Open,
         Disconnect, Clicked, ApiFreed, Alive, Show, Controls
<1>4. CASE RunClickMfc
  BY <1>4
     DEF TypeInv, GuiTypes, ApiTypes, Handling, Freed, Quiet, Closing, Open,
         RunClickMfc, Clicked, Starts
<1>5. CASE WaitReader
  BY <1>5
     DEF TypeInv, GuiTypes, ApiTypes, Handling, Freed, Quiet, Closing, Open,
         WaitReader, Alive
<1>6. CASE RunClickCs
  BY <1>6
     DEF TypeInv, GuiTypes, ApiTypes, Handling, Freed, Quiet, Closing, Open,
         RunClickCs, Clicked, Starts, Show, Controls
<1>7. CASE RunFails
  BY <1>7
     DEF TypeInv, GuiTypes, ApiTypes, Handling, Freed, Quiet, Closing, Open,
         RunFails, ApiFreed, Show, Controls
<1>8. CASE RunStarts
  BY <1>8
     DEF TypeInv, GuiTypes, ApiTypes, Handling, Freed, Quiet, Closing,
         RunStarts
<1>9. CASE RunStatus
  BY <1>9
     DEF TypeInv, GuiTypes, ApiTypes, Handling, Freed, Quiet, Closing, Open,
         RunStatus, Show, Controls, StartReader
<1>10. CASE Join
  BY <1>10
     DEF TypeInv, GuiTypes, ApiTypes, Handling, Freed, Quiet, Closing, Open,
         Join, StartReader
<1>11. CASE StopTest
  BY <1>11
     DEF TypeInv, GuiTypes, ApiTypes, Handling, Freed, Quiet, Closing, Open,
         StopTest
<1>12. CASE StopSet
  BY <1>12
     DEF TypeInv, GuiTypes, ApiTypes, Handling, Freed, Quiet, Closing, Open,
         StopSet
<1>13. CASE StopClose
  BY <1>13
     DEF TypeInv, GuiTypes, ApiTypes, Handling, Freed, Quiet, Closing, Open,
         StopClose, Closed
<1>14. CASE StopDone
  BY <1>14
     DEF TypeInv, GuiTypes, ApiTypes, Handling, Freed, Quiet, Closing, Open,
         StopDone, Show, Controls
<1>15. CASE ResetClick
  BY <1>15
     DEF TypeInv, GuiTypes, ApiTypes, Handling, Freed, Quiet, Closing, Open,
         ResetClick, Clicked
<1>16. CASE ResetDone
  BY <1>16
     DEF TypeInv, GuiTypes, ApiTypes, Handling, Freed, Quiet, Closing, Open,
         ResetDone
<1>17. CASE OnTimer
  BY <1>17
     DEF TypeInv, GuiTypes, ApiTypes, Handling, Freed, Quiet, Closing, Open,
         OnTimer, Settled, FramerBusy, Show, Controls, HasRemain
<1>18. CASE Close
  BY <1>18
     DEF TypeInv, GuiTypes, ApiTypes, Handling, Freed, Quiet, Closing, Open,
         Close, Terminated, ApiFreed
<1>19. CASE Exit
  BY <1>19
     DEF TypeInv, GuiTypes, ApiTypes, Handling, Freed, Quiet, Closing, Open,
         Exit, Alive, Terminated, ApiFreed
<1>20. CASE SockStart
  BY <1>20
     DEF TypeInv, GuiTypes, ApiTypes, Handling, Freed, Quiet, Closing, Open,
         SockStart
<1>21. CASE Receive
  BY <1>21
     DEF TypeInv, GuiTypes, ApiTypes, Handling, Freed, Quiet, Closing, Open,
         Receive
<1>22. CASE ConnectionEnds
  BY <1>22
     DEF TypeInv, GuiTypes, ApiTypes, Handling, Freed, Quiet, Closing, Open,
         ConnectionEnds
<1>23. CASE FramerTake
  BY <1>23
     DEF TypeInv, GuiTypes, ApiTypes, Handling, Freed, Quiet, Closing, Open,
         FramerTake
<1>24. CASE FramerMake
  BY <1>24
     DEF TypeInv, GuiTypes, ApiTypes, Handling, Freed, Quiet, Closing, Open,
         FramerMake, MakeFrame, FramerFails, Closed, QueueFails, NoFailure
<1>25. CASE FramerCut
  BY <1>25
     DEF TypeInv, GuiTypes, ApiTypes, Handling, Freed, Quiet, Closing, Open,
         FramerCut
<1>26. CASE FramerDone
  BY <1>26
     DEF TypeInv, GuiTypes, ApiTypes, Handling, Freed, Quiet, Closing, Open,
         FramerDone, QueueFails, NoFailure, MakeFrame
<1>27. CASE FramerExit
  BY <1>27
     DEF TypeInv, GuiTypes, ApiTypes, Handling, Freed, Quiet, Closing, Open,
         FramerExit
<1>28. CASE FramerIdle
  BY <1>28
     DEF TypeInv, GuiTypes, ApiTypes, Handling, Freed, Quiet, Closing, Open,
         FramerIdle
<1>29. CASE FramerStop
  BY <1>29
     DEF TypeInv, GuiTypes, ApiTypes, Handling, Freed, Quiet, Closing, Open,
         FramerStop, Closed
<1>30. ASSUME NEW r \in Runs, recv_thread(r) PROVE Closing'
  <2>1. CASE ReaderGet(r)
    BY <2>1
       DEF TypeInv, GuiTypes, ApiTypes, Handling, Freed, Quiet, Closing,
           Open, ReaderGet, ReaderAt, ReaderGoto
  <2>2. CASE ReaderLoop(r) \/ ReaderPoll(r) \/ ReaderPause(r) \/
             ReaderWrite(r) \/ ReaderResume(r)
    BY <2>2
       DEF TypeInv, GuiTypes, ApiTypes, Handling, Freed, Quiet, Closing,
           Open, ReaderLoop, ReaderAt, ReaderGoto, Over, ReaderPoll, Settled,
           FramerBusy, HasRemain, ReaderPause, ReaderWrite, ReaderResume
  <2> QED
    BY <1>30, <2>1, <2>2 DEF recv_thread
<1> QED
  BY <1>1, <1>2, <1>3, <1>4, <1>5, <1>6, <1>7, <1>8, <1>9, <1>10, <1>11,
     <1>12, <1>13, <1>14, <1>15, <1>16, <1>17, <1>18, <1>19, <1>20, <1>21,
     <1>22, <1>23, <1>24, <1>25, <1>26, <1>27, <1>28, <1>29, <1>30
     DEF Next, User, Handler, Network, FramerThread

\* Only a recv_thread suspends receiving, and it goes on to write.
LEMMA PausedStep ==
  ASSUME TypeInv, PausedByWriter, Next
  PROVE  PausedByWriter'
<1>1. CASE ConnectOk
  BY <1>1
     DEF TypeInv, ReaderTypes, DataTypes, Fresh, Freed, PausedByWriter,
         ConnectOk, Controls
<1>2. CASE Disconnect
  BY <1>2
     DEF TypeInv, ReaderTypes, DataTypes, Fresh, Freed, PausedByWriter,
         Disconnect, ApiFreed, Alive, Controls
<1>3. CASE RunFails
  BY <1>3
     DEF TypeInv, ReaderTypes, DataTypes, Fresh, Freed, PausedByWriter,
         RunFails, ApiFreed, Controls
<1>4. CASE RunStarts
  BY <1>4
     DEF TypeInv, ReaderTypes, DataTypes, Fresh, Freed, PausedByWriter,
         RunStarts
<1>5. CASE RunStatus
  BY <1>5
     DEF TypeInv, ReaderTypes, DataTypes, Fresh, Freed, PausedByWriter,
         RunStatus, Controls, StartReader
<1>6. CASE Join
  BY <1>6
     DEF TypeInv, ReaderTypes, DataTypes, Fresh, Freed, PausedByWriter, Join,
         StartReader
<1>7. CASE StopClose
  BY <1>7
     DEF TypeInv, ReaderTypes, DataTypes, Fresh, Freed, PausedByWriter,
         StopClose, Closed
<1>8. CASE Close
  BY <1>8
     DEF TypeInv, ReaderTypes, DataTypes, Fresh, Freed, PausedByWriter,
         Close, Terminated, ApiFreed
<1>9. CASE Exit
  BY <1>9
     DEF TypeInv, ReaderTypes, DataTypes, Fresh, Freed, PausedByWriter, Exit,
         Alive, Terminated, ApiFreed
<1>10. CASE SockStart
  BY <1>10
     DEF TypeInv, ReaderTypes, DataTypes, Fresh, Freed, PausedByWriter,
         SockStart
<1>11. CASE ConnectionEnds
  BY <1>11
     DEF TypeInv, ReaderTypes, DataTypes, Fresh, Freed, PausedByWriter,
         ConnectionEnds
<1>12. CASE FramerMake
  BY <1>12
     DEF TypeInv, ReaderTypes, DataTypes, Fresh, Freed, PausedByWriter,
         FramerMake, FramerFails, Closed, QueueFails, NoFailure
<1>13. CASE FramerStop
  BY <1>13
     DEF TypeInv, ReaderTypes, DataTypes, Fresh, Freed, PausedByWriter,
         FramerStop, Closed
<1>14. ASSUME NEW r \in Runs, recv_thread(r) PROVE PausedByWriter'
  <2>1. CASE ReaderLoop(r)
    BY <2>1
       DEF TypeInv, ReaderTypes, DataTypes, Fresh, Freed, PausedByWriter,
           ReaderLoop, ReaderAt, ReaderGoto
  <2>2. CASE ReaderPoll(r)
    BY <2>2
       DEF TypeInv, ReaderTypes, DataTypes, Fresh, Freed, PausedByWriter,
           ReaderPoll, ReaderAt, Settled, FramerBusy, Open, ReaderGoto
  <2>3. CASE ReaderGet(r)
    BY <2>3
       DEF TypeInv, ReaderTypes, DataTypes, Fresh, Freed, PausedByWriter,
           ReaderGet, ReaderAt, ReaderGoto
  <2>4. CASE ReaderPause(r)
    BY <2>4
       DEF TypeInv, ReaderTypes, DataTypes, Fresh, Freed, PausedByWriter,
           ReaderPause, ReaderAt, ReaderGoto
  <2>5. CASE ReaderWrite(r)
    BY <2>5
       DEF TypeInv, ReaderTypes, DataTypes, Fresh, Freed, PausedByWriter,
           ReaderWrite, ReaderAt, ReaderGoto
  <2>6. CASE ReaderResume(r)
    BY <2>6
       DEF TypeInv, ReaderTypes, DataTypes, Fresh, Freed, PausedByWriter,
           ReaderResume, ReaderAt, ReaderGoto
  <2> QED
    BY <1>14, <2>1, <2>2, <2>3, <2>4, <2>5, <2>6 DEF recv_thread
<1>15. CASE ConnectFails
  BY <1>15
     DEF TypeInv, ReaderTypes, DataTypes, Fresh, Freed, PausedByWriter,
         ConnectFails, Controls
<1>16. CASE RunClickMfc \/ WaitReader \/ RunClickCs
  BY <1>16
     DEF TypeInv, ReaderTypes, DataTypes, Fresh, Freed, PausedByWriter,
         RunClickMfc, WaitReader, Alive, RunClickCs, Controls
<1>17. CASE StopTest \/ StopSet \/ StopDone
  BY <1>17
     DEF TypeInv, ReaderTypes, DataTypes, Fresh, Freed, PausedByWriter,
         StopTest, StopSet, StopDone, Controls
<1>18. CASE ResetClick \/ ResetDone \/ OnTimer
  BY <1>18
     DEF TypeInv, ReaderTypes, DataTypes, Fresh, Freed, PausedByWriter,
         ResetClick, ResetDone, OnTimer, Settled, FramerBusy, Open, Controls
<1>19. CASE Receive
  BY <1>19
     DEF TypeInv, ReaderTypes, DataTypes, Fresh, Freed, PausedByWriter,
         Receive
<1>20. CASE FramerTake \/ FramerCut \/ FramerDone \/ FramerExit \/ FramerIdle
  BY <1>20
     DEF TypeInv, ReaderTypes, DataTypes, Fresh, Freed, PausedByWriter,
         FramerTake, FramerCut, FramerDone, Open, QueueFails, NoFailure,
         FramerExit, FramerIdle
<1> QED
  BY <1>1, <1>2, <1>3, <1>4, <1>5, <1>6, <1>7, <1>8, <1>9, <1>10, <1>11,
     <1>12, <1>13, <1>14, <1>15, <1>16, <1>17, <1>18, <1>19, <1>20
     DEF Next, User, Handler, Network, FramerThread

\* The step of a handler, a click or the timer: a run that is shown anew has a
\* new recv_thread.
LEMMA FetchedGui ==
  ASSUME TypeInv, Single, Quiet, Fetched, User \/ Handler \/ OnTimer
  PROVE  Fetched'
<1> USE DEF Fetched, Watching, Alive
<1>1. CASE ConnectOk \/ ConnectFails \/ Disconnect
  BY <1>1
     DEF TypeInv, GuiTypes, Handling, ConnectOk, ConnectFails, Disconnect,
         Clicked, ApiFreed, Show
<1>2. CASE RunClickMfc
  BY <1>2, ButtonsShown
     DEF TypeInv, GuiTypes, Quiet, RunClickMfc, Clicked
<1>3. CASE RunClickCs
  BY <1>3, ButtonsShown
     DEF TypeInv, GuiTypes, Quiet, RunClickCs, Clicked, Show
<1>4. CASE WaitReader \/ RunFails
  BY <1>4
     DEF TypeInv, GuiTypes, Quiet, WaitReader, RunFails, ApiFreed, Show
<1>5. CASE RunStarts
  <2>1. runs' # 0 /\ runs' \in Runs /\ reader[runs'] = "none"
    BY <1>5 DEF RunStarts, TypeInv, DataTypes, Fresh
  <2> QED
    BY <1>5, <2>1 DEF RunStarts
<1>6. CASE RunStatus \/ Join
  <2>1. ui = "join" => app # "mfc"
    BY DEF Single
  <2>2. /\ runs \in Runs /\ reader[runs] = "none" /\ runs' = runs
        /\ reader \in [Runs -> {"none", "loop", "poll", "get", "pause",
                                "write", "resume", "done"}]
    BY <1>6
       DEF RunStatus, Join, TypeInv, DataTypes, ReaderTypes, Fresh
  <2> QED
    BY <1>6, <2>1, <2>2 DEF RunStatus, Join, StartReader, Show
<1>7. CASE StopTest \/ StopSet \/ StopClose
  BY <1>7 DEF StopTest, StopSet, StopClose
<1>8. CASE StopDone
  BY <1>8 DEF StopDone, Show
<1>9. CASE ResetClick \/ ResetDone
  BY <1>9 DEF Quiet, ResetClick, ResetDone, Clicked
<1>10. CASE OnTimer
  BY <1>10 DEF OnTimer, Show
<1>11. CASE Close \/ Exit
  BY <1>11 DEF Close, Exit, Terminated, ApiFreed
<1> QED
  BY <1>1, <1>2, <1>3, <1>4, <1>5, <1>6, <1>7, <1>8, <1>9, <1>10, <1>11
     DEF User, Handler

\* A step of the API's threads: framer_thread makes no frame when it has left
\* its loop.
LEMMA FetchedApi ==
  ASSUME TypeInv, Fetched, Network \/ FramerThread
  PROVE  Fetched'
<1> USE DEF Fetched, Watching, Alive
<1>1. UNCHANGED <<guiVars, readerVars, runs>>
  BY ApiSteps
<1>2. UNCHANGED <<ui, gui, app, go, mngr, reader, runs>>
  BY <1>1 DEF guiVars, readerVars
<1>3. status' = "SIDAQ_RUN" => status = "SIDAQ_RUN"
  BY DEF Network, FramerThread, SockStart, Receive, ConnectionEnds,
         FramerTake, FramerMake, FramerFails, QueueFails, NoFailure,
         FramerCut, FramerDone, FramerExit, FramerIdle, FramerStop
<1>4. framer \notin {"on", "frame"} =>
         framer' \notin {"on", "frame"} /\ UNCHANGED frames
  BY DEF Network, FramerThread, SockStart, Receive, ConnectionEnds,
         FramerTake, FramerMake, FramerCut, FramerDone, FramerExit,
         FramerIdle, FramerStop
<1> QED
  BY <1>2, <1>3, <1>4

\* A step of a recv_thread, which ends when the API has come to rest.
LEMMA FetchedReader ==
  ASSUME TypeInv, Quiet, Fetched, NEW r \in Runs, recv_thread(r)
  PROVE  Fetched'
<1> USE DEF Fetched, Watching, Alive, ReaderAt, ReaderGoto
<1>1. UNCHANGED <<ui, gui, app, go, mngr, status, framer, runs>>
  BY ReaderSteps DEF guiVars
<1>2. /\ reader \in [Runs -> {"none", "loop", "poll", "get", "pause", "write",
                              "resume", "done"}]
      /\ frames = <<>> => frames' = <<>>
      /\ \A s \in Runs : s # r => reader'[s] = reader[s]
  <2>1. \E pc : reader' = [reader EXCEPT ![r] = pc]
    BY DEF recv_thread, ReaderLoop, ReaderPoll, ReaderGet, ReaderPause,
           ReaderWrite, ReaderResume
  <2>2. frames = <<>> => frames' = <<>>
    BY DEF recv_thread, ReaderLoop, ReaderPoll, ReaderGet, ReaderPause,
           ReaderWrite, ReaderResume, apiVars
  <2> QED
    BY <2>1, <2>2 DEF TypeInv, ReaderTypes
<1>3. CASE r # runs
  <2>1. runs # 0 => UNCHANGED reader[runs]
    BY <1>1, <1>2, <1>3 DEF TypeInv, DataTypes
  <2> QED
    BY <1>1, <1>2, <2>1
<1>4. CASE r = runs
  <2>1. SUFFICES /\ reader'[r] = "poll" => status # "SIDAQ_RUN"
                 /\ Watching /\ mngr = "live" /\ reader'[r] = "done" =>
                       frames' = <<>> /\ framer \notin {"on", "frame"}
    <3>1. reader'[r] # "none"
      BY <1>2
         DEF recv_thread, ReaderLoop, ReaderPoll, ReaderGet, ReaderPause,
             ReaderWrite, ReaderResume
    <3> QED
      BY <1>1, <1>4, <3>1
  <2>2. CASE ReaderLoop(r)
    BY <1>2, <1>4, <2>2 DEF ReaderLoop, Over
  <2>3. CASE ReaderPoll(r)
    <3>1. reader'[r] # "poll" /\ reader[r] = "poll"
      BY <1>2, <2>3 DEF ReaderPoll
    <3>2. ASSUME Watching, reader'[r] = "done"
          PROVE  frames = <<>> /\ framer \notin {"on", "frame"}
      <4>1. Settled
        BY <1>2, <2>3, <3>2 DEF ReaderPoll
      <4>2. status # "SIDAQ_RUN"
        BY <1>4, <3>1
      <4>3. framer = "on" => Open /\ status = "SIDAQ_SYS_ERROR"
        BY <4>1, <4>2 DEF Settled, FramerBusy, TypeInv, ApiTypes
      <4>4. framer # "on"
        BY <3>2, <4>3 DEF Quiet
      <4> QED
        BY <4>1, <4>4 DEF Settled, FramerBusy
    <3> QED
      BY <1>2, <3>1, <3>2
  <2>4. CASE ReaderGet(r)
    BY <1>2, <2>4 DEF ReaderGet
  <2>5. CASE ReaderPause(r) \/ ReaderWrite(r) \/ ReaderResume(r)
    BY <1>2, <2>5 DEF ReaderPause, ReaderWrite, ReaderResume
  <2> QED
    BY <2>1, <2>2, <2>3, <2>4, <2>5 DEF recv_thread
<1> QED
  BY <1>3, <1>4

\* A recv_thread is there as long as there can be frames.
LEMMA FetchedStep ==
  ASSUME TypeInv, Single, Quiet, Fetched, Next
  PROVE  Fetched'
BY FetchedGui, FetchedApi, FetchedReader DEF Next

-----------------------------------------------------------------------------
\* Every step keeps the types and what they rest on.
LEMMA TypeStep == TypeInv /\ [Next]_vars => TypeInv'
<1> SUFFICES ASSUME TypeInv, [Next]_vars PROVE TypeInv'
  OBVIOUS
<1>1. CASE Next
  BY <1>1, GuiTypesStep, ReaderTypesStep, ApiTypesStep, DataTypesStep,
     CountingStep, HandlingStep, FreshStep, HoldingStep, FreedStep
     DEF TypeInv
<1>2. CASE UNCHANGED vars
  BY <1>2
     DEF TypeInv, GuiTypes, ReaderTypes, ApiTypes, DataTypes, Counting,
         Handling, Fresh, Holding, Freed
<1> QED
  BY <1>1, <1>2

\* What the theorems rest on, beyond the types.
SampleInv ==
  /\ TypeInv /\ Single /\ Queued /\ Taken /\ Stored /\ FilesInOrder
  /\ Quiet /\ Closing /\ PausedByWriter /\ Fetched

\* The first state satisfies the invariant, every part of it.
LEMMA SampleInit == Init => SampleInv
<1> SUFFICES ASSUME Init PROVE SampleInv
  OBVIOUS
<1>1. Single /\ Queued /\ Taken
  BY DEF Init, Single, Queued, Taken, Alive
<1>2. Stored /\ FilesInOrder
  BY DEF Init, Stored, FilesInOrder
<1>3. Quiet /\ Closing /\ PausedByWriter
  BY DEF Init, Quiet, Closing, PausedByWriter, Open
<1>4. Fetched
  BY DEF Init, Fetched, Watching
<1> QED
  BY <1>1, <1>2, <1>3, <1>4, TypeInit DEF SampleInv

\* Every step keeps the invariant.
LEMMA SampleStep == SampleInv /\ [Next]_vars => SampleInv'
<1> SUFFICES ASSUME SampleInv, [Next]_vars PROVE SampleInv'
  OBVIOUS
<1>1. CASE Next
  BY <1>1, TypeStep, SingleStep, QueuedStep, TakenStep, StoredStep,
     OrderStep, QuietStep, ClosingStep, PausedStep, FetchedStep
     DEF SampleInv
<1>2. CASE UNCHANGED vars
  <2>1. TypeInv' /\ Single' /\ Queued' /\ Taken'
    BY <1>2, TypeStep DEF SampleInv, Single, Alive, Queued, Taken
  <2>2. Stored' /\ FilesInOrder'
    BY <1>2 DEF SampleInv, Stored, FilesInOrder
  <2>3. Quiet' /\ Closing' /\ PausedByWriter'
    BY <1>2 DEF SampleInv, Quiet, Closing, PausedByWriter, Open
  <2>4. Fetched'
    BY <1>2 DEF SampleInv, Fetched, Watching, Alive
  <2> QED
    BY <2>1, <2>2, <2>3, <2>4 DEF SampleInv
<1> QED
  BY <1>1, <1>2

\* Every reachable state satisfies the invariant.
LEMMA SampleInductive == Spec => []SampleInv
  BY SampleInit, SampleStep, PTL DEF Spec

-----------------------------------------------------------------------------
\* The variables keep their types: there are never more frames than chunks,
\* and a recv_thread writes frames.
THEOREM SampleTypeCorrect == Spec => []TypeOK
<1>1. SampleInv => TypeOK
  BY TypeParts DEF SampleInv, TypeInv
<1> QED
  BY <1>1, SampleInductive, PTL

\* The MFC dialog never has two recv_threads that have not ended.
THEOREM OneReaderAtATime == Spec => []OneReader
<1>1. SampleInv => OneReader
  BY DEF SampleInv, Single, OneReader
<1> QED
  BY <1>1, SampleInductive, PTL

\* The MFC dialog writes the frames in the order they were made, and never
\* again to the file of a run when the next one has begun to write.
THEOREM FilesWrittenInOrder == Spec => []FilesInOrder
<1>1. SampleInv => FilesInOrder
  BY DEF SampleInv
<1> QED
  BY <1>1, SampleInductive, PTL

\* SiDaqRun is called only when framer_thread of the run before has returned.
THEOREM RunFindsFramerGone == Spec => []FramerAlone
<1>1. SampleInv => FramerAlone
  BY DEF SampleInv, Quiet, FramerAlone
<1> QED
  BY <1>1, SampleInductive, PTL

\* When the window says that the program is idle nothing of the run is left.
THEOREM IdleLeavesNothing == Spec => []IdleIsQuiet
<1>1. SampleInv => IdleIsQuiet
  BY DEF SampleInv, Quiet, Closing, IdleIsQuiet
<1> QED
  BY <1>1, SampleInductive, PTL

\* Receiving is suspended only as long as a recv_thread is writing.
THEOREM SuspendedByWriter == Spec => []PausedByWriter
<1>1. SampleInv => PausedByWriter
  BY DEF SampleInv
<1> QED
  BY <1>1, SampleInductive, PTL

\* As long as the window shows a run, the run's recv_thread lives or has left
\* no frame behind, for any number of runs and frames.
THEOREM FramesAreFetched == Spec => []FramesHaveReader
<1>1. SampleInv => FramesHaveReader
  BY DEF SampleInv, Fetched, Watching, FramesHaveReader
<1> QED
  BY <1>1, SampleInductive, PTL

=============================================================================
