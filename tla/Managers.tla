------------------------------ MODULE Managers ------------------------------
(***************************************************************************)
(* The managers of one process and what they share: g_wsa_init, with which *)
(* the API decides when to call WSAStartup and WSACleanup, winsock's own   *)
(* count of these calls, and the table of socket handles, which winsock    *)
(* gives out again after they were closed.                                 *)
(*                                                                         *)
(* A manager has the UDP socket of its RBCP client from SiDaqInitialize to *)
(* SiDaqTerminate, and a TCP socket during a measurement.  How a           *)
(* measurement ends, and that its threads close no socket but their own,   *)
(* is the business of SiDaqApi: here an end is one step.  The application  *)
(* makes its calls one after the other.                                    *)
(***************************************************************************)
EXTENDS Integers

CONSTANTS
  Mngrs,    \* managers, by the address malloc() gives them
  Handles,  \* socket handles
  None,     \* no socket, no owner
  App,      \* the application as the owner of sockets
  MaxCount  \* bound on g_wsa_init, so on the calls of SiDaqRun

\* The sockets of a manager, as owners of handles.
Udp(m) == <<m, "udp">>
Tcp(m) == <<m, "tcp">>
Owners == {App} \cup {Udp(m) : m \in Mngrs} \cup {Tcp(m) : m \in Mngrs}

ASSUME ManagersAssumption ==
  /\ None \notin Handles \cup Owners
  /\ App \notin Mngrs \X {"udp", "tcp"}
  /\ MaxCount \in Nat

VARIABLES
  not_wsa,        \* the argument not_wsa_cleanup of the application's calls
  app_wsa,        \* number of calls of WSAStartup by the application: 0 or 1
  g_wsa_init,     \* the count of the API
  wsa,            \* the count of winsock: it works while this is not 0
  open,           \* who owns the socket of each handle, None = closed
  status,         \* of each manager: its status, or "none" if there is none
  sock,           \* _sitcp->sock, None when there is no RBCP client
  device_socket,  \* sock_param.device_socket, None = INVALID_SOCKET
  past,           \* history: what has happened, of
                  \*   "run"     SiDaqRun has succeeded
                  \*   "leak"    connect() has failed with a new socket
                  \*   "throw"   an exception has left SiDaqInitialize
                  \*   "send"    send() has failed
                  \*   "shared"  there were two managers at a time
  harmed          \* history: has a call for one manager closed a socket that
                  \* another manager, the application or another part of
                  \* this manager was using?

modeVars == <<not_wsa, app_wsa>>
mngrVars == <<status, sock, device_socket>>
vars     == <<modeVars, g_wsa_init, wsa, open, mngrVars, past, harmed>>

\* An application that tells the API not to call WSAStartup calls it itself.
Init ==
  /\ not_wsa \in BOOLEAN /\ app_wsa \in {0, 1}
  /\ not_wsa => app_wsa = 1
  /\ g_wsa_init = 0 /\ wsa = app_wsa
  /\ open = [h \in Handles |-> None]
  /\ status = [m \in Mngrs |-> "none"]
  /\ sock = [m \in Mngrs |-> None]
  /\ device_socket = [m \in Mngrs |-> None]
  /\ past = {} /\ harmed = FALSE

-----------------------------------------------------------------------------
(***************************************************************************)
(* The handles.                                                            *)
(***************************************************************************)
\* socket(): a new socket for the owner o; any closed handle may come back.
Socket(o, h) ==
  /\ h \in Handles /\ open[h] = None
  /\ open' = [open EXCEPT ![h] = o]

\* closesocket(): the table without what the handle s names; s may be stale.
Closed(table, s) == [h \in Handles |-> IF h = s THEN None ELSE table[h]]

\* Closing s, which o takes for its own, closes a socket of another.
Harms(table, o, s) == s \in Handles /\ table[s] \notin {None, o}

\* A socket that is in use by others than the manager m.
UsedByOthers(table, m, h) ==
  \/ table[h] = App
  \/ \E n \in Mngrs \ {m} : \/ table[h] = Udp(n) /\ sock[n] = h
                            \/ table[h] = Tcp(n) /\ device_socket[n] = h

(***************************************************************************)
(* SiDaqInitialize.                                                        *)
(***************************************************************************)
NeedsStartup == ~not_wsa /\ g_wsa_init = 0

NewManager(m) ==
  /\ status[m] = "none"
  /\ UNCHANGED <<modeVars, device_socket, harmed>>

Sharing(m) ==
  IF \E n \in Mngrs : n # m /\ status[n] # "none" THEN {"shared"} ELSE {}

\* WSAStartup fails: the manager is returned without an RBCP client.
StartupFails(m) ==
  /\ NewManager(m) /\ NeedsStartup
  /\ status' = [status EXCEPT ![m] = "SIDAQ_SYS_ERROR"]
  /\ past' = past \cup Sharing(m)
  /\ UNCHANGED <<g_wsa_init, wsa, open, sock>>

\* Only the call that finds the count at 0 counts.
Startup ==
  \/ NeedsStartup /\ wsa' = wsa + 1 /\ g_wsa_init' = g_wsa_init + 1
  \/ ~NeedsStartup /\ UNCHANGED <<wsa, g_wsa_init>>

\* The constructor of SiTcpRbcp throws and nobody catches it: the caller gets
\* no manager.  The socket stays open when connect() fails.
InitializeThrows(m) ==
  /\ NewManager(m) /\ Startup
  /\ \/ /\ UNCHANGED open
        /\ past' = past \cup Sharing(m) \cup {"throw"}
     \/ /\ wsa' > 0 /\ \E h \in Handles : Socket(Udp(m), h)
        /\ past' = past \cup Sharing(m) \cup {"throw", "leak"}
  /\ UNCHANGED <<status, sock>>

\* The registers cannot be read: the RBCP client is deleted again.
InitializeUnreachable(m) ==
  /\ NewManager(m) /\ Startup
  /\ wsa' > 0 /\ \E h \in Handles : open[h] = None
  /\ status' = [status EXCEPT ![m] = "SIDAQ_SYS_ERROR"]
  /\ past' = past \cup Sharing(m)
  /\ UNCHANGED <<open, sock>>

Initialize(m) ==
  /\ NewManager(m) /\ Startup
  /\ wsa' > 0
  /\ \E h \in Handles : Socket(Udp(m), h) /\ sock' = [sock EXCEPT ![m] = h]
  /\ status' = [status EXCEPT ![m] = "SIDAQ_IDLE"]
  /\ past' = past \cup Sharing(m)

(***************************************************************************)
(* SiDaqRun, and how a measurement ends: the connection is lost, an error  *)
(* stops it, or the application calls SiDaqStop.  A manager that was not   *)
(* initialised has no queues to run with.                                  *)
(***************************************************************************)
MayRun(m) ==
  /\ status[m] \in {"SIDAQ_IDLE", "SIDAQ_SYS_ERROR"} /\ sock[m] # None
  /\ UNCHANGED <<modeVars, wsa, sock, harmed>>

RunRefused(m) ==
  /\ MayRun(m)
  /\ status' = [status EXCEPT ![m] = "SIDAQ_SYS_ERROR"]
  /\ UNCHANGED <<g_wsa_init, open, device_socket, past>>

\* getaddrinfo(), connect() or setsockopt() fails; nobody keeps the handle.
RunNotConnected(m) ==
  /\ MayRun(m)
  /\ wsa > 0 /\ \E h \in Handles : Socket(Tcp(m), h)
  /\ status' = [status EXCEPT ![m] = "SIDAQ_SYS_ERROR"]
  /\ past' = past \cup {"leak"}
  /\ UNCHANGED <<g_wsa_init, device_socket>>

RunCount == g_wsa_init' = g_wsa_init + 1

Run(m) ==
  /\ MayRun(m)
  /\ g_wsa_init < MaxCount
  /\ wsa > 0
  /\ \E h \in Handles :
        /\ Socket(Tcp(m), h)
        /\ device_socket' = [device_socket EXCEPT ![m] = h]
  /\ RunCount
  /\ status' = [status EXCEPT ![m] = "SIDAQ_RUN"]
  /\ past' = past \cup {"run"}

Forget_Not(m) == UNCHANGED device_socket

Forget(m) == device_socket' = [device_socket EXCEPT ![m] = None]

EndRun(m) ==
  /\ status[m] = "SIDAQ_RUN"
  /\ open' = Closed(open, device_socket[m])
  /\ harmed' = (harmed \/ Harms(open, Tcp(m), device_socket[m]))
  /\ Forget(m)
  /\ \E s \in {"SIDAQ_IDLE", "SIDAQ_SYS_ERROR"} :
        status' = [status EXCEPT ![m] = s]
  /\ UNCHANGED <<modeVars, g_wsa_init, wsa, sock, past>>

\* SiDaqRbcpReadBytes or SiDaqRbcpWriteBytes: send() fails and the socket is
\* closed, but the client keeps the handle and goes on using it.
SendFails(m) ==
  /\ sock[m] # None
  /\ open' = Closed(open, sock[m])
  /\ harmed' = (harmed \/ Harms(open, Udp(m), sock[m]))
  /\ past' = past \cup {"send"}
  /\ UNCHANGED <<modeVars, g_wsa_init, wsa, mngrVars>>

(***************************************************************************)
(* SiDaqTerminate: SiDaqStop, then WSACleanup if the count says so, then   *)
(* the destructor of SiTcpRbcp, which closes the handle once more.         *)
(***************************************************************************)
CountDown_Below == g_wsa_init - 1

CountDown == IF g_wsa_init > 0 THEN g_wsa_init - 1 ELSE g_wsa_init

CallsCleanup_Always == ~not_wsa /\ g_wsa_init > 0

CallsCleanup_IgnoresFlag == g_wsa_init > 0 /\ CountDown = 0

CallsCleanup_Late == ~not_wsa /\ g_wsa_init > 1 /\ CountDown = 0

CallsCleanup == ~not_wsa /\ g_wsa_init > 0 /\ CountDown = 0

AfterCleanup == IF CallsCleanup /\ wsa > 0 THEN wsa - 1 ELSE wsa

\* SiDaqStop, when the manager is running or in error.
AfterStop_Idle(m) == open

AfterStop(m) ==
  IF status[m] \in {"SIDAQ_RUN", "SIDAQ_SYS_ERROR"}
  THEN Closed(open, device_socket[m]) ELSE open

\* The last WSACleanup closes every socket of the process.
Emptied == CallsCleanup /\ AfterCleanup = 0

Terminate(m) ==
  LET stopped == AfterStop(m)
      cleaned == IF Emptied THEN [h \in Handles |-> None] ELSE stopped
  IN
  /\ status[m] # "none"
  /\ g_wsa_init' = CountDown
  /\ wsa' = AfterCleanup
  /\ open' = Closed(cleaned, sock[m])
  /\ harmed' = \/ harmed
               \/ Harms(open, Tcp(m), device_socket[m])
               \/ Emptied /\ \E h \in Handles : UsedByOthers(stopped, m, h)
               \/ Harms(cleaned, Udp(m), sock[m])
  /\ status' = [status EXCEPT ![m] = "none"]
  /\ sock' = [sock EXCEPT ![m] = None]
  /\ Forget(m)
  /\ UNCHANGED <<modeVars, past>>

(***************************************************************************)
(* The application's own sockets, if it has called WSAStartup.             *)
(***************************************************************************)
AppSocket ==
  /\ app_wsa > 0 /\ wsa > 0
  /\ \E h \in Handles : Socket(App, h)
  /\ UNCHANGED <<modeVars, g_wsa_init, wsa, mngrVars, past, harmed>>

AppClose(h) ==
  /\ open[h] = App
  /\ open' = Closed(open, h)
  /\ UNCHANGED <<modeVars, g_wsa_init, wsa, mngrVars, past, harmed>>

Next ==
  \/ \E m \in Mngrs :
       \/ StartupFails(m) \/ InitializeThrows(m) \/ InitializeUnreachable(m)
       \/ Initialize(m)
       \/ RunRefused(m) \/ RunNotConnected(m) \/ Run(m) \/ EndRun(m)
       \/ SendFails(m) \/ Terminate(m)
  \/ AppSocket
  \/ \E h \in Handles : AppClose(h)

Spec == Init /\ [][Next]_vars

-----------------------------------------------------------------------------
NoManager == \A m \in Mngrs : status[m] = "none"

\* The counts, the handles, the managers and the histories have their types.
TypeOK ==
  /\ not_wsa \in BOOLEAN /\ app_wsa \in {0, 1}
  /\ g_wsa_init \in 0..MaxCount + 1 /\ wsa \in 0..app_wsa + 1
  /\ open \in [Handles -> Owners \cup {None}]
  /\ status \in [Mngrs -> {"none", "SIDAQ_IDLE", "SIDAQ_RUN",
                           "SIDAQ_SYS_ERROR"}]
  /\ sock \in [Mngrs -> Handles \cup {None}]
  /\ device_socket \in [Mngrs -> Handles \cup {None}]
  /\ past \subseteq {"run", "leak", "throw", "send", "shared"}
  /\ harmed \in BOOLEAN

\* With one manager at a time g_wsa_init, which counts neither managers nor
\* startups, still decides correctly: it is 0 exactly when no WSAStartup of
\* the API is outstanding, so the next SiDaqInitialize finds or makes winsock
\* usable.
CountTellsStartup ==
  ~not_wsa /\ "shared" \notin past => (g_wsa_init > 0 <=> wsa > app_wsa)

\* SiDaqTerminate does not undo the WSAStartup of the application, when the
\* application says that it has called it, or has one manager at a time.
AppKeepsWinsock ==
  not_wsa \/ "shared" \notin past => wsa >= app_wsa

\* A call closes a socket that somebody else uses only in two situations:
\* after a failed send(), whose handle is kept, or when the application has
\* several managers and leaves WSACleanup to the API, so that one manager's
\* SiDaqTerminate may take winsock away from the others.
HarmNeedsCause ==
  harmed => "send" \in past \/ ("shared" \in past /\ ~not_wsa)

\* Every socket a manager has opened is one it can still close, unless
\* connect() has failed with it: SiDaqTerminate leaves none behind.
SocketsAccounted ==
  "leak" \notin past =>
    \A h \in Handles, m \in Mngrs :
       /\ open[h] = Udp(m) => sock[m] = h
       /\ open[h] = Tcp(m) => device_socket[m] = h

\* When there is no manager any more, the API has called WSACleanup as often
\* as WSAStartup, as long as it was never used to measure.
ReleasedUnlessRun ==
  NoManager /\ past \cap {"run", "throw"} = {} => wsa = app_wsa

\* The same without the exception: SiDaqTerminate releases what
\* SiDaqInitialize has allocated.
Released == NoManager /\ "throw" \notin past => wsa = app_wsa
=============================================================================
