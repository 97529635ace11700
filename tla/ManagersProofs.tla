--------------------------- MODULE ManagersProofs ---------------------------
(***************************************************************************)
(* Proofs about Managers, for any number of managers and handles: what     *)
(* g_wsa_init tells about winsock, that the application's startup is not   *)
(* undone, whose sockets a call may close, and what is left open.          *)
(***************************************************************************)
EXTENDS Managers, TLAPS

\* A manager that does not exist has no sockets, a TCP socket belongs to a
\* measurement, and there is one manager at a time until there are two.
Life ==
  /\ \A m \in Mngrs : status[m] = "none" =>
        sock[m] = None /\ device_socket[m] = None
  /\ \A m \in Mngrs : device_socket[m] # None => status[m] = "SIDAQ_RUN"
  /\ "shared" \notin past =>
        \A m, n \in Mngrs :
           status[m] # "none" /\ status[n] # "none" => m = n
  /\ app_wsa = 0 => \A h \in Handles : open[h] # App

\* The two counts.  An RBCP client shows that the API has called WSAStartup,
\* but only while there is one manager at a time.
Counts ==
  /\ not_wsa => wsa = app_wsa
  /\ ~not_wsa /\ g_wsa_init = 0 => wsa <= app_wsa
  /\ ~not_wsa /\ "shared" \notin past =>
        /\ g_wsa_init = 0 => wsa = app_wsa
        /\ g_wsa_init > 0 => wsa = app_wsa + 1
        /\ \A m \in Mngrs : sock[m] # None => g_wsa_init > 0

Calm == "send" \notin past /\ ("shared" \notin past \/ not_wsa)

\* What HarmNeedsCause rests on: without a cause no manager has a stale handle.
Owned ==
  Calm =>
    \A m \in Mngrs :
       /\ sock[m] # None => open[sock[m]] = Udp(m)
       /\ device_socket[m] # None => open[device_socket[m]] = Tcp(m)

\* Without a measurement the count of the API is that of its startups, and
\* the first SiDaqTerminate takes it back.
Unrun ==
  past \cap {"run", "throw"} = {} =>
    /\ g_wsa_init <= 1
    /\ not_wsa => g_wsa_init = 0
    /\ ~not_wsa => wsa = app_wsa + g_wsa_init
    /\ NoManager => g_wsa_init = 0

IndInv ==
  /\ TypeOK /\ Life /\ Counts /\ Owned /\ Unrun
  /\ SocketsAccounted /\ HarmNeedsCause

-----------------------------------------------------------------------------
\* Two owners are never the same.
LEMMA OwnersDiffer ==
  /\ \A m, n \in Mngrs : Udp(m) # Tcp(n)
  /\ \A m, n \in Mngrs : Udp(m) = Udp(n) => m = n
  /\ \A m, n \in Mngrs : Tcp(m) = Tcp(n) => m = n
  /\ \A m \in Mngrs : /\ Udp(m) \in Owners /\ Tcp(m) \in Owners
                      /\ Udp(m) # App /\ Tcp(m) # App
                      /\ Udp(m) # None /\ Tcp(m) # None
  /\ App \in Owners /\ App # None
  BY ManagersAssumption DEF Udp, Tcp, Owners

\* No manager, no handle and no count: nothing can be wrong yet.
LEMMA InitInv == Init => IndInv
<1> SUFFICES ASSUME Init PROVE IndInv
  OBVIOUS
<1> USE ManagersAssumption, OwnersDiffer DEF Init
<1>1. TypeOK
  <2>1. g_wsa_init \in 0..MaxCount + 1 /\ wsa \in 0..app_wsa + 1
    OBVIOUS
  <2>2. /\ open \in [Handles -> Owners \cup {None}]
        /\ sock \in [Mngrs -> Handles \cup {None}]
        /\ device_socket \in [Mngrs -> Handles \cup {None}]
        /\ status \in [Mngrs -> {"none", "SIDAQ_IDLE", "SIDAQ_RUN",
                                 "SIDAQ_SYS_ERROR"}]
    OBVIOUS
  <2> QED
    BY <2>1, <2>2 DEF TypeOK
<1>2. Life /\ Counts /\ Owned /\ Unrun
  BY DEF Life, Counts, Owned, Unrun
<1>3. SocketsAccounted /\ HarmNeedsCause
  BY DEF SocketsAccounted, HarmNeedsCause
<1> QED
  BY <1>1, <1>2, <1>3 DEF IndInv

\* A manager without an RBCP client comes into being; the counts stay.
LEMMA StartupFailsInv ==
  ASSUME IndInv, NEW m \in Mngrs, StartupFails(m)
  PROVE  IndInv'
<1>1. TypeOK'
  BY ManagersAssumption, OwnersDiffer DEF IndInv, TypeOK, Counts,
     StartupFails, NewManager, Sharing, NeedsStartup, modeVars
<1>2. Life'
  BY ManagersAssumption, OwnersDiffer DEF IndInv, TypeOK, Life,
     StartupFails, NewManager, Sharing, NeedsStartup, modeVars
<1>3. Counts'
  BY ManagersAssumption, OwnersDiffer DEF IndInv, TypeOK, Life, Counts,
     StartupFails, NewManager, Sharing, NeedsStartup, modeVars
<1>4. Owned'
  BY ManagersAssumption, OwnersDiffer DEF IndInv, TypeOK, Life, Owned,
     Calm, StartupFails, NewManager, Sharing, NeedsStartup, modeVars
<1>5. Unrun'
  BY ManagersAssumption, OwnersDiffer DEF IndInv, TypeOK, Unrun, NoManager,
     Counts, StartupFails, NewManager, Sharing, NeedsStartup, modeVars
<1>6. SocketsAccounted'
  BY ManagersAssumption, OwnersDiffer DEF IndInv, TypeOK, Life,
     SocketsAccounted, StartupFails, NewManager, Sharing, NeedsStartup,
     modeVars
<1>7. HarmNeedsCause'
  BY ManagersAssumption, OwnersDiffer DEF IndInv, TypeOK, Life,
     HarmNeedsCause, Owned, Calm, StartupFails, NewManager, Sharing,
     NeedsStartup, modeVars
<1> QED
  BY <1>1, <1>2, <1>3, <1>4, <1>5, <1>6, <1>7 DEF IndInv

\* A SiDaqInitialize that throws leaves its startup and perhaps its socket.
LEMMA InitializeThrowsInv ==
  ASSUME IndInv, NEW m \in Mngrs, InitializeThrows(m)
  PROVE  IndInv'
<1>1. TypeOK'
  <2>1. g_wsa_init' \in 0..MaxCount + 1 /\ wsa' \in 0..app_wsa' + 1
    BY ManagersAssumption DEF IndInv, TypeOK, Counts, InitializeThrows,
       NewManager, Sharing, NeedsStartup, Startup, Socket, modeVars
  <2>2. open' \in [Handles -> Owners \cup {None}]
    BY OwnersDiffer DEF IndInv, TypeOK, InitializeThrows, NewManager,
       Sharing, NeedsStartup, Startup, Socket, modeVars
  <2>3. past' \subseteq {"run", "leak", "throw", "send", "shared"}
    BY DEF IndInv, TypeOK, InitializeThrows, NewManager, Sharing,
       NeedsStartup, Startup, Socket, modeVars
  <2> QED
    BY <2>1, <2>2, <2>3 DEF IndInv, TypeOK, InitializeThrows, NewManager,
       Sharing, NeedsStartup, Startup, Socket, modeVars
<1>2. Life'
  BY ManagersAssumption, OwnersDiffer DEF IndInv, TypeOK, Life,
     InitializeThrows, NewManager, Sharing, NeedsStartup, Startup, Socket,
     modeVars
<1>3. Counts'
  BY ManagersAssumption, OwnersDiffer DEF IndInv, TypeOK, Life, Counts,
     InitializeThrows, NewManager, Sharing, NeedsStartup, Startup, Socket,
     modeVars
<1>4. Owned'
  BY ManagersAssumption, OwnersDiffer DEF IndInv, TypeOK, Life, Owned,
     Calm, InitializeThrows, NewManager, Sharing, NeedsStartup, Startup,
     Socket, modeVars
<1>5. Unrun'
  BY ManagersAssumption, OwnersDiffer DEF IndInv, TypeOK, Unrun, NoManager,
     Counts, InitializeThrows, NewManager, Sharing, NeedsStartup, Startup,
     Socket, modeVars
<1>6. SocketsAccounted'
  BY ManagersAssumption, OwnersDiffer DEF IndInv, TypeOK, Life,
     SocketsAccounted, InitializeThrows, NewManager, Sharing, NeedsStartup,
     Startup, Socket, modeVars
<1>7. HarmNeedsCause'
  BY ManagersAssumption, OwnersDiffer DEF IndInv, TypeOK, Life,
     HarmNeedsCause, Owned, Calm, InitializeThrows, NewManager, Sharing,
     NeedsStartup, Startup, Socket, modeVars
<1> QED
  BY <1>1, <1>2, <1>3, <1>4, <1>5, <1>6, <1>7 DEF IndInv

\* The socket of a client that reached no device is closed again.
LEMMA InitializeUnreachableInv ==
  ASSUME IndInv, NEW m \in Mngrs, InitializeUnreachable(m)
  PROVE  IndInv'
<1>1. TypeOK'
  BY ManagersAssumption, OwnersDiffer DEF IndInv, TypeOK, Counts,
     InitializeUnreachable, NewManager, Sharing, NeedsStartup, Startup,
     modeVars
<1>2. Life'
  BY ManagersAssumption, OwnersDiffer DEF IndInv, TypeOK, Life,
     InitializeUnreachable, NewManager, Sharing, NeedsStartup, Startup,
     modeVars
<1>3. Counts'
  BY ManagersAssumption, OwnersDiffer DEF IndInv, TypeOK, Life, Counts,
     InitializeUnreachable, NewManager, Sharing, NeedsStartup, Startup,
     modeVars
<1>4. Owned'
  BY ManagersAssumption, OwnersDiffer DEF IndInv, TypeOK, Life, Owned,
     Calm, InitializeUnreachable, NewManager, Sharing, NeedsStartup,
     Startup, modeVars
<1>5. Unrun'
  BY ManagersAssumption, OwnersDiffer DEF IndInv, TypeOK, Unrun, NoManager,
     Counts, InitializeUnreachable, NewManager, Sharing, NeedsStartup,
     Startup, modeVars
<1>6. SocketsAccounted'
  BY ManagersAssumption, OwnersDiffer DEF IndInv, TypeOK, Life,
     SocketsAccounted, InitializeUnreachable, NewManager, Sharing,
     NeedsStartup, Startup, modeVars
<1>7. HarmNeedsCause'
  BY ManagersAssumption, OwnersDiffer DEF IndInv, TypeOK, Life,
     HarmNeedsCause, Owned, Calm, InitializeUnreachable, NewManager,
     Sharing, NeedsStartup, Startup, modeVars
<1> QED
  BY <1>1, <1>2, <1>3, <1>4, <1>5, <1>6, <1>7 DEF IndInv

\* A new manager has a socket of its own.
LEMMA InitializeInv ==
  ASSUME IndInv, NEW m \in Mngrs, Initialize(m)
  PROVE  IndInv'
<1>1. TypeOK'
  BY ManagersAssumption, OwnersDiffer DEF IndInv, TypeOK, Counts,
     Initialize, NewManager, Sharing, NeedsStartup, Startup, Socket,
     modeVars
<1>2. Life'
  BY ManagersAssumption, OwnersDiffer DEF IndInv, TypeOK, Life, Initialize,
     NewManager, Sharing, NeedsStartup, Startup, Socket, modeVars
<1>3. Counts'
  BY ManagersAssumption, OwnersDiffer DEF IndInv, TypeOK, Life, Counts,
     Initialize, NewManager, Sharing, NeedsStartup, Startup, Socket,
     modeVars
<1>4. Owned'
  BY ManagersAssumption, OwnersDiffer DEF IndInv, TypeOK, Life, Owned,
     Calm, Initialize, NewManager, Sharing, NeedsStartup, Startup, Socket,
     modeVars
<1>5. Unrun'
  BY ManagersAssumption, OwnersDiffer DEF IndInv, TypeOK, Unrun, NoManager,
     Counts, Initialize, NewManager, Sharing, NeedsStartup, Startup,
     Socket, modeVars
<1>6. SocketsAccounted'
  BY ManagersAssumption, OwnersDiffer DEF IndInv, TypeOK, Life,
     SocketsAccounted, Initialize, NewManager, Sharing, NeedsStartup,
     Startup, Socket, modeVars
<1>7. HarmNeedsCause'
  BY ManagersAssumption, OwnersDiffer DEF IndInv, TypeOK, Life,
     HarmNeedsCause, Owned, Calm, Initialize, NewManager, Sharing,
     NeedsStartup, Startup, Socket, modeVars
<1> QED
  BY <1>1, <1>2, <1>3, <1>4, <1>5, <1>6, <1>7 DEF IndInv

\* A SiDaqRun that has no socket changes only the status.
LEMMA RunRefusedInv ==
  ASSUME IndInv, NEW m \in Mngrs, RunRefused(m)
  PROVE  IndInv'
<1>1. TypeOK'
  BY ManagersAssumption, OwnersDiffer DEF IndInv, TypeOK, Counts,
     RunRefused, MayRun, modeVars
<1>2. Life'
  BY ManagersAssumption, OwnersDiffer DEF IndInv, TypeOK, Life, RunRefused,
     MayRun, modeVars
<1>3. Counts'
  BY ManagersAssumption, OwnersDiffer DEF IndInv, TypeOK, Life, Counts,
     RunRefused, MayRun, modeVars
<1>4. Owned'
  BY ManagersAssumption, OwnersDiffer DEF IndInv, TypeOK, Life, Owned,
     Calm, RunRefused, MayRun, modeVars
<1>5. Unrun'
  BY ManagersAssumption, OwnersDiffer DEF IndInv, TypeOK, Unrun, NoManager,
     Counts, RunRefused, MayRun, modeVars
<1>6. SocketsAccounted'
  BY ManagersAssumption, OwnersDiffer DEF IndInv, TypeOK, Life,
     SocketsAccounted, RunRefused, MayRun, modeVars
<1>7. HarmNeedsCause'
  BY ManagersAssumption, OwnersDiffer DEF IndInv, TypeOK, Life,
     HarmNeedsCause, Owned, Calm, RunRefused, MayRun, modeVars
<1> QED
  BY <1>1, <1>2, <1>3, <1>4, <1>5, <1>6, <1>7 DEF IndInv

\* A socket that is not connected leaks, which past tells.
LEMMA RunNotConnectedInv ==
  ASSUME IndInv, NEW m \in Mngrs, RunNotConnected(m)
  PROVE  IndInv'
<1>1. TypeOK'
  BY ManagersAssumption, OwnersDiffer DEF IndInv, TypeOK, Counts,
     RunNotConnected, MayRun, Socket, modeVars
<1>2. Life'
  BY ManagersAssumption, OwnersDiffer DEF IndInv, TypeOK, Life,
     RunNotConnected, MayRun, Socket, modeVars
<1>3. Counts'
  BY ManagersAssumption, OwnersDiffer DEF IndInv, TypeOK, Life, Counts,
     RunNotConnected, MayRun, Socket, modeVars
<1>4. Owned'
  BY ManagersAssumption, OwnersDiffer DEF IndInv, TypeOK, Life, Owned,
     Calm, RunNotConnected, MayRun, Socket, modeVars
<1>5. Unrun'
  BY ManagersAssumption, OwnersDiffer DEF IndInv, TypeOK, Unrun, NoManager,
     Counts, RunNotConnected, MayRun, Socket, modeVars
<1>6. SocketsAccounted'
  BY ManagersAssumption, OwnersDiffer DEF IndInv, TypeOK, Life,
     SocketsAccounted, RunNotConnected, MayRun, Socket, modeVars
<1>7. HarmNeedsCause'
  BY ManagersAssumption, OwnersDiffer DEF IndInv, TypeOK, Life,
     HarmNeedsCause, Owned, Calm, RunNotConnected, MayRun, Socket, modeVars
<1> QED
  BY <1>1, <1>2, <1>3, <1>4, <1>5, <1>6, <1>7 DEF IndInv

\* A measurement has a socket of its own and is counted.
LEMMA RunInv ==
  ASSUME IndInv, NEW m \in Mngrs, Run(m)
  PROVE  IndInv'
<1>1. TypeOK'
  BY ManagersAssumption, OwnersDiffer DEF IndInv, TypeOK, Counts, Run,
     MayRun, RunCount, Socket, modeVars
<1>2. Life'
  BY ManagersAssumption, OwnersDiffer DEF IndInv, TypeOK, Life, Run,
     MayRun, RunCount, Socket, modeVars
<1>3. Counts'
  BY ManagersAssumption, OwnersDiffer DEF IndInv, TypeOK, Life, Counts,
     Run, MayRun, RunCount, Socket, modeVars
<1>4. Owned'
  BY ManagersAssumption, OwnersDiffer DEF IndInv, TypeOK, Life, Owned,
     Calm, Run, MayRun, RunCount, Socket, modeVars
<1>5. Unrun'
  BY ManagersAssumption, OwnersDiffer DEF IndInv, TypeOK, Unrun, NoManager,
     Counts, Run, MayRun, RunCount, Socket, modeVars
<1>6. SocketsAccounted'
  BY ManagersAssumption, OwnersDiffer DEF IndInv, TypeOK, Life,
     SocketsAccounted, Run, MayRun, RunCount, Socket, modeVars
<1>7. HarmNeedsCause'
  BY ManagersAssumption, OwnersDiffer DEF IndInv, TypeOK, Life,
     HarmNeedsCause, Owned, Calm, Run, MayRun, RunCount, Socket, modeVars
<1> QED
  BY <1>1, <1>2, <1>3, <1>4, <1>5, <1>6, <1>7 DEF IndInv

\* A measurement ends with the socket it began with.
LEMMA EndRunInv ==
  ASSUME IndInv, NEW m \in Mngrs, EndRun(m)
  PROVE  IndInv'
<1>1. TypeOK'
  BY ManagersAssumption, OwnersDiffer DEF IndInv, TypeOK, Counts, EndRun,
     Forget, Closed, Harms, modeVars
<1>2. Life'
  BY ManagersAssumption, OwnersDiffer DEF IndInv, TypeOK, Life, EndRun,
     Forget, Closed, Harms, modeVars
<1>3. Counts'
  BY ManagersAssumption, OwnersDiffer DEF IndInv, TypeOK, Life, Counts,
     EndRun, Forget, Closed, Harms, modeVars
<1>4. Owned'
  BY ManagersAssumption, OwnersDiffer DEF IndInv, TypeOK, Life, Owned,
     Calm, EndRun, Forget, Closed, Harms, modeVars
<1>5. Unrun'
  BY ManagersAssumption, OwnersDiffer DEF IndInv, TypeOK, Unrun, NoManager,
     Counts, EndRun, Forget, Closed, Harms, modeVars
<1>6. SocketsAccounted'
  BY ManagersAssumption, OwnersDiffer DEF IndInv, TypeOK, Life,
     SocketsAccounted, EndRun, Forget, Closed, Harms, modeVars
<1>7. HarmNeedsCause'
  BY ManagersAssumption, OwnersDiffer DEF IndInv, TypeOK, Life,
     HarmNeedsCause, Owned, Calm, EndRun, Forget, Closed, Harms, modeVars
<1> QED
  BY <1>1, <1>2, <1>3, <1>4, <1>5, <1>6, <1>7 DEF IndInv

\* A failed send() is what past has to tell from now on.
LEMMA SendFailsInv ==
  ASSUME IndInv, NEW m \in Mngrs, SendFails(m)
  PROVE  IndInv'
<1>1. TypeOK'
  BY ManagersAssumption, OwnersDiffer DEF IndInv, TypeOK, Counts,
     SendFails, Closed, Harms, modeVars, mngrVars
<1>2. Life'
  BY ManagersAssumption, OwnersDiffer DEF IndInv, TypeOK, Life, SendFails,
     Closed, Harms, modeVars, mngrVars
<1>3. Counts'
  BY ManagersAssumption, OwnersDiffer DEF IndInv, TypeOK, Life, Counts,
     SendFails, Closed, Harms, modeVars, mngrVars
<1>4. Owned'
  BY ManagersAssumption, OwnersDiffer DEF IndInv, TypeOK, Life, Owned,
     Calm, SendFails, Closed, Harms, modeVars, mngrVars
<1>5. Unrun'
  BY ManagersAssumption, OwnersDiffer DEF IndInv, TypeOK, Unrun, NoManager,
     Counts, SendFails, Closed, Harms, modeVars, mngrVars
<1>6. SocketsAccounted'
  BY ManagersAssumption, OwnersDiffer DEF IndInv, TypeOK, Life,
     SocketsAccounted, SendFails, Closed, Harms, modeVars, mngrVars
<1>7. HarmNeedsCause'
  BY ManagersAssumption, OwnersDiffer DEF IndInv, TypeOK, Life,
     HarmNeedsCause, Owned, Calm, SendFails, Closed, Harms, modeVars,
     mngrVars
<1> QED
  BY <1>1, <1>2, <1>3, <1>4, <1>5, <1>6, <1>7 DEF IndInv

\* The end of a manager: it takes its sockets with it, and with one manager
\* at a time WSACleanup is called when it has nobody else to serve.
LEMMA TerminateInv ==
  ASSUME IndInv, NEW m \in Mngrs, Terminate(m)
  PROVE  IndInv'
<1> DEFINE stopped == AfterStop(m)
           cleaned == IF Emptied THEN [h \in Handles |-> None] ELSE stopped
<1> USE ManagersAssumption, OwnersDiffer
<1>0. /\ status[m] # "none"
      /\ g_wsa_init' = CountDown /\ wsa' = AfterCleanup
      /\ open' = Closed(cleaned, sock[m])
      /\ harmed' = \/ harmed
                   \/ Harms(open, Tcp(m), device_socket[m])
                   \/ Emptied /\ \E h \in Handles : UsedByOthers(stopped, m, h)
                   \/ Harms(cleaned, Udp(m), sock[m])
      /\ status' = [status EXCEPT ![m] = "none"]
      /\ sock' = [sock EXCEPT ![m] = None]
      /\ device_socket' = [device_socket EXCEPT ![m] = None]
      /\ UNCHANGED <<not_wsa, app_wsa, past>>
  BY DEF Terminate, Forget, modeVars
<1>t. TypeOK /\ Life /\ Counts
  BY DEF IndInv
<1>1. /\ stopped \in [Handles -> Owners \cup {None}]
      /\ \A h \in Handles :
            stopped[h] = IF h = device_socket[m] THEN None ELSE open[h]
  BY <1>t DEF AfterStop, Closed, TypeOK, Life
<1>2. /\ cleaned \in [Handles -> Owners \cup {None}]
      /\ \A h \in Handles : cleaned[h] = IF Emptied THEN None ELSE stopped[h]
  BY <1>1
<1> HIDE DEF stopped, cleaned
<1>3. \A h \in Handles :
         open'[h] = IF Emptied \/ h = device_socket[m] \/ h = sock[m]
                    THEN None ELSE open[h]
  BY <1>0, <1>1, <1>2 DEF Closed
<1>4. TypeOK'
  <2>1. g_wsa_init' \in 0..MaxCount + 1
    BY <1>0, <1>t DEF TypeOK, CountDown
  <2>2. wsa' \in 0..app_wsa + 1
    BY <1>0, <1>t DEF TypeOK, AfterCleanup
  <2>3. open' \in [Handles -> Owners \cup {None}]
    BY <1>0, <1>2 DEF Closed
  <2> QED
    BY <1>0, <1>t, <2>1, <2>2, <2>3 DEF TypeOK
<1>5. Life'
  BY <1>0, <1>t, <1>3 DEF Life, TypeOK
<1>6. Counts'
  <2>1. not_wsa => wsa' = app_wsa'
    BY <1>0, <1>t DEF Counts, AfterCleanup, CallsCleanup
  <2>2. ~not_wsa /\ g_wsa_init' = 0 => wsa' <= app_wsa
    BY <1>0, <1>t DEF Counts, TypeOK, AfterCleanup, CallsCleanup, CountDown
  <2>3. ASSUME ~not_wsa, "shared" \notin past
        PROVE  /\ g_wsa_init' = 0 => wsa' = app_wsa
               /\ g_wsa_init' > 0 => wsa' = app_wsa + 1
    BY <1>0, <1>t, <2>3
       DEF Counts, TypeOK, AfterCleanup, CallsCleanup, CountDown
  <2>4. ASSUME "shared" \notin past PROVE \A n \in Mngrs : sock'[n] = None
    BY <1>0, <1>t, <2>4 DEF Life, TypeOK
  <2> QED
    BY <1>0, <2>1, <2>2, <2>3, <2>4 DEF Counts
<1>7. Calm /\ Emptied => "shared" \notin past /\ app_wsa = 0
  BY <1>t DEF Calm, Emptied, CallsCleanup, AfterCleanup, Counts, TypeOK,
     CountDown
<1>8. Owned'
  <2> SUFFICES ASSUME Calm, NEW n \in Mngrs
               PROVE  /\ sock'[n] # None => open'[sock'[n]] = Udp(n)
                      /\ device_socket'[n] # None
                            => open'[device_socket'[n]] = Tcp(n)
    BY <1>0 DEF Owned, Calm
  <2>1. CASE n = m
    BY <1>0, <1>t, <2>1 DEF TypeOK
  <2>2. CASE n # m /\ Emptied
    BY <1>0, <1>t, <1>7, <2>2 DEF Life, TypeOK
  <2>3. CASE n # m /\ ~Emptied
    BY <1>0, <1>t, <1>3, <2>3 DEF IndInv, Owned, TypeOK
  <2> QED
    BY <2>1, <2>2, <2>3
<1>9. Unrun'
  <2> SUFFICES ASSUME past \cap {"run", "throw"} = {}
               PROVE  /\ g_wsa_init' = 0
                      /\ ~not_wsa => wsa' = app_wsa
    BY <1>0, <1>t DEF Unrun, TypeOK
  <2>1. g_wsa_init \in Nat /\ g_wsa_init <= 1
    BY <1>t DEF IndInv, Unrun, TypeOK
  <2> QED
    BY <1>0, <1>t, <2>1 DEF IndInv, Unrun, TypeOK, AfterCleanup, CallsCleanup,
       CountDown
<1>10. SocketsAccounted'
  <2> SUFFICES ASSUME "leak" \notin past, NEW h \in Handles, NEW n \in Mngrs
               PROVE  /\ open'[h] = Udp(n) => sock'[n] = h
                      /\ open'[h] = Tcp(n) => device_socket'[n] = h
    BY <1>0 DEF SocketsAccounted
  <2> QED
    BY <1>0, <1>t, <1>3 DEF IndInv, SocketsAccounted, TypeOK
<1>11. HarmNeedsCause'
  <2> SUFFICES ASSUME Calm PROVE ~harmed'
    BY <1>0 DEF HarmNeedsCause, Calm
  <2>1. ~harmed
    BY DEF IndInv, HarmNeedsCause, Calm
  <2>2. ~Harms(open, Tcp(m), device_socket[m])
    BY <1>t DEF IndInv, Owned, Harms, TypeOK
  <2>3. ~Harms(cleaned, Udp(m), sock[m])
    BY <1>t, <1>1, <1>2 DEF IndInv, Owned, Harms, TypeOK
  <2>4. ASSUME Emptied, NEW h \in Handles PROVE ~UsedByOthers(stopped, m, h)
    <3>1. "shared" \notin past /\ app_wsa = 0
      BY <1>7, <2>4
    <3>2. \A n \in Mngrs \ {m} : sock[n] = None /\ device_socket[n] = None
      BY <1>0, <1>t, <3>1 DEF Life
    <3>3. stopped[h] # App
      BY <1>t, <1>1, <3>1 DEF Life
    <3> QED
      BY <3>2, <3>3 DEF UsedByOthers
  <2> QED
    BY <1>0, <2>1, <2>2, <2>3, <2>4
<1> QED
  BY <1>4, <1>5, <1>6, <1>8, <1>9, <1>10, <1>11 DEF IndInv

\* The application's own sockets are nobody else's.
LEMMA AppInv ==
  ASSUME IndInv, AppSocket \/ \E h \in Handles : AppClose(h)
  PROVE  IndInv'
<1> USE ManagersAssumption, OwnersDiffer
    DEF IndInv, TypeOK, Life, AppSocket, AppClose, Socket, Closed, modeVars,
        mngrVars
<1>1. TypeOK' /\ Life'
  <2>1. open' \in [Handles -> Owners \cup {None}]
    OBVIOUS
  <2>2. TypeOK'
    <3>1. UNCHANGED <<not_wsa, app_wsa, g_wsa_init, wsa, status, sock,
                      device_socket, past, harmed>>
      OBVIOUS
    <3> HIDE DEF AppSocket, AppClose
    <3> QED
      BY <2>1, <3>1
  <2>3. app_wsa = 0 => \A h \in Handles : open'[h] # App
    OBVIOUS
  <2> QED
    BY <2>2, <2>3 DEF Life
<1>2. Counts' /\ Unrun'
  BY DEF Counts, Unrun, NoManager
<1>3. Owned'
  BY DEF Owned, Calm
<1>4. SocketsAccounted' /\ HarmNeedsCause'
  BY DEF SocketsAccounted, HarmNeedsCause
<1> QED
  BY <1>1, <1>2, <1>3, <1>4 DEF IndInv

\* Every step keeps the invariant.
LEMMA NextInv == IndInv /\ [Next]_vars => IndInv'
<1>1. ASSUME IndInv, UNCHANGED vars PROVE IndInv'
  BY <1>1 DEF IndInv, TypeOK, Life, Counts, Owned, Calm, Unrun, NoManager,
     SocketsAccounted, HarmNeedsCause, vars, modeVars, mngrVars
<1> QED
  BY <1>1, StartupFailsInv, InitializeThrowsInv, InitializeUnreachableInv,
     InitializeInv, RunRefusedInv, RunNotConnectedInv, RunInv, EndRunInv,
     SendFailsInv, TerminateInv, AppInv DEF Next

\* Every reachable state satisfies the invariant.
LEMMA Inductive == Spec => []IndInv
  BY InitInv, NextInv, PTL DEF Spec

-----------------------------------------------------------------------------
\* The counts, the handles and the managers keep their types; g_wsa_init is
\* never negative and winsock's count never below 0.
THEOREM ManagersTypeCorrect == Spec => []TypeOK
<1>1. IndInv => TypeOK
  BY DEF IndInv
<1> QED
  BY <1>1, Inductive, PTL

\* With one manager at a time g_wsa_init is 0 exactly when no WSAStartup of
\* the API is outstanding, however often each manager has measured.
THEOREM CountIsRight == Spec => []CountTellsStartup
<1>1. IndInv => CountTellsStartup
  BY DEF IndInv, Counts, CountTellsStartup, TypeOK
<1> QED
  BY <1>1, Inductive, PTL

\* The WSAStartup of the application is not undone by the API when the
\* application says it has called it, or has one manager at a time.
THEOREM WinsockIsKept == Spec => []AppKeepsWinsock
<1>1. IndInv => AppKeepsWinsock
  BY DEF IndInv, Counts, AppKeepsWinsock, TypeOK
<1> QED
  BY <1>1, Inductive, PTL

\* Without a failed send() and without managers that share the API's startup
\* no call closes a socket that somebody else is using.
THEOREM NoHarm == Spec => []HarmNeedsCause
<1>1. IndInv => HarmNeedsCause
  BY DEF IndInv
<1> QED
  BY <1>1, Inductive, PTL

\* SiDaqTerminate leaves no socket of its manager open, unless a connect()
\* has failed.
THEOREM NoSocketLeft == Spec => []SocketsAccounted
<1>1. IndInv => SocketsAccounted
  BY DEF IndInv
<1> QED
  BY <1>1, Inductive, PTL

\* Managers that have never measured leave winsock as they found it.
THEOREM ReleasedWithoutRun == Spec => []ReleasedUnlessRun
<1>1. IndInv => ReleasedUnlessRun
  BY DEF IndInv, Unrun, Counts, ReleasedUnlessRun, TypeOK
<1> QED
  BY <1>1, Inductive, PTL

=============================================================================
