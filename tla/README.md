# A TLA+ model of the SiDAQ API

SiDAQ is a Windows library that acquires event data from a SiTCP device: it
receives a TCP stream, cuts it into event frames and queues them for the
application, and it reads and writes the registers of the device over UDP
(RBCP).  This directory holds TLA+ modules that model the library, TLC
configurations that check them on small instances, and theorems that TLAPS has
proved for every value of the constants.

## The system

| Component | Source | State | Operations |
|---|---|---|---|
| Manager and threads | `SiDaqApi.cpp/.h`, `sock_thread.cpp/.h` | `SiDaqMngr`: status, error code, socket parameters, the two queues, the framer; two threads per run | `SiDaqInitialize`, `SiDaqRun`, `SiDaqStop`, `SiDaqResetQueue`, `SiDaqGetData`, `SiDaqPauseRecvData`, `SiDaqResumeRecvData`, `SiDaqTerminate`; `socket_loop_thread`, `framer_thread` |
| Managers of a process | `SiDaqApi.cpp`, `sitcp/SiTcpRbcpLib2.cpp` | the count `g_wsa_init`; winsock's own count of `WSAStartup` calls and its table of handles | `SiDaqInitialize`, `SiDaqRun`, `SiDaqTerminate`; constructor and destructor of the RBCP client |
| Queue | `squeue_c/squeue.cpp/.h` | a doubly linked list, a counter, a mutex | `SQPut`, `SQGet`, `SQCount`, `DeleteSQueue` |
| Framer | `sidaq_framer.cpp/.h` | a byte buffer and the number `_rest` of bytes in it, the length function, an error code | `RecvSiDaqData`, `NewSiDaqFramer` |
| RBCP client | `sitcp/SiTcpRbcpLib2.cpp/.h` | a UDP socket, the 8-bit packet id, a buffer | `ReadBytes`, `WriteBytes` |
| Samples | `MfcSample/`, `CsSample/` | the state of the dialog or form, a reader thread, a file | buttons, timers, the frame length function |
| Pseudo device | `Pseudo/SiDaqPseudo.py` | a test tool | - |

**How they interact.**  `SiDaqRun` connects, starts `socket_loop_thread`, which
puts every chunk `recv()` returns into the receive queue, and then
`framer_thread`, which takes the chunks out, hands them to `RecvSiDaqData` and
thereby fills the event queue; the application's reader empties it with
`SiDaqGetData`.  All of them read and write the fields of `SiDaqMngr`: its
status, `_run`, `device_socket`, `queue_error_code`.  No lock protects these
fields; only the two queues have a mutex.  Errors travel by flags: the receive
thread leaves `queue_error_code` behind, the framer `_error_code`, and
`framer_thread` turns either into `SIDAQ_SYS_ERROR`.  Managers have nothing to do
with each other, except that they share `g_wsa_init`, with which the API decides
when to start and clean up winsock, and winsock's handle values.

**What is hard.**
- Three threads change the status, in test-then-set fashion (`SiDaqStop`,
  `framer_thread`, `SiDaqRun`).
- Three threads close the device socket, one of them through a copy of the
  handle, while winsock reuses handle values.
- The receive loop has no test of `_run` while it receives: it is ended by
  somebody else closing its socket, after a wait that is allowed to time out.
- Queue limits are compared with counts read after the lock is released.
- Framing must not depend on where TCP cuts the stream.
- The samples decide from polled counts that a run is over, and only one of them
  waits for its reader before the next run.
- RBCP runs over UDP; a reply may come after its call has timed out, and nothing
  drains the socket.
- `g_wsa_init` is raised by the first `SiDaqInitialize` and by every `SiDaqRun`, and
  lowered once by every `SiDaqTerminate`: it counts neither managers nor startups.
- Handles are kept after they were closed: by the RBCP client after a failed
  `send()`.

`PROJECT.json` lists these hazards line by line, with the properties that watch
over them.

## The modules

| Module | Models | Checked by | Theorems |
|---|---|---|---|
| `SiDaqApi` | manager, both threads, application, reader, device | `MCSiDaqApi` | `SiDaqApiProofs`, `WaitingProofs` |
| `Managers` | several managers, winsock's count, the handle table | `MCManagers` | `ManagersProofs` |
| `SQueue` | the queue, pointer by pointer | `MCSQueue` | `SQueueProofs` |
| `SQueueDelete` | the queue and its end, `DeleteSQueue` | `MCSQueue` | `SQueueProofs` |
| `Fifo` | what a queue promises | (as a property of `SQueue`) | (in `SQueueProofs`) |
| `Framer` | `RecvSiDaqData`, byte by byte | `MCFramer` | `FramerProofs` |
| `EventStream` | what the framer promises | (as a property of `Framer`) | (in `FramerProofs`) |
| `FrameLength` | the frame length functions of both samples, with the widths of a byte and of an int as parameters | `MCFramer` | `FrameLengthProofs` |
| `Rbcp` | RBCP client, network, device registers | `MCRbcp` | `RbcpProofs` |
| `Sample` | both sample programs on top of the API | `MCSample` | `SampleProofs` |

A definition whose name extends that of another by an underscore and a word
(`Forget_Not`, `Settled_Once`) is that definition with a plausible fault.  No
specification uses it; `PROJECT.json` names, for every property, the fault that
makes TLC find it violated.

### SiDaqApi

Every field of the manager that the control flow depends on is a variable of the
same name.  The unit of data is the chunk that one `recv()` returns, numbered in
the order the device sends them; a frame is a sequence of chunks.  Where inside
a chunk a frame ends is the business of `Framer`: `FramerFrame` lets a chunk
complete a frame, be kept in `rest`, or fail.  In particular the bytes that
`RecvSiDaqData` drops inside a chunk at the frame queue limit do not show here;
they do in `Framer`.

An action is a stretch of one thread's code up to the next access to something
another thread changes.  Program points are values of `main` (application),
`sock_pc[r]` and `framer_pc[r]` (the two threads of run `r`).  `SiDaqStop` is
executed by the application (`StopEnter`, `StopRun`, `StopClose`) and, after an
error, by `framer_thread` (`FramerStopEnter`, `FramerRunOff`,
`FramerCloseSocket`); the test of the status and its change are separate steps.
`WaitForSingleObject(sock_thread, 500)` guards nothing: it returns after 500 ms
whatever the thread does, and its result is ignored.

The winsock handle table is the function `conn` from handle values to what they
are connected to; `closesocket` frees a value, `socket` may return it again.  It
and the device are external to the repository and modelled from how the code
uses them.

Two things are discipline of the application and not of the code:
- `MayRun` lets it call `SiDaqRun` in `SIDAQ_IDLE` and `SIDAQ_SYS_ERROR` only, as
  the repository's README says; `SiDaqRun` itself does not test the status.
- With `ClientWaits = TRUE` it waits for both threads to return before it calls
  `SiDaqRun` again or `SiDaqTerminate`.  The API offers no way to wait, and frees
  the manager under the threads if nobody does.  The theorems of `WaitingProofs`
  have this as their assumption; `TypeCorrect` and `NothingLost` do without it.

### Managers

What the managers of one process share: `g_wsa_init`, winsock's count of
`WSAStartup` calls, and the handle table.  A manager has the UDP socket of its RBCP
client from `SiDaqInitialize` to `SiDaqTerminate`, and a TCP socket during a
measurement; the application may have called `WSAStartup` itself and have sockets
of its own.  A handle is closed by its value, whoever owns the socket that has
this value now; when winsock's count becomes 0 every socket is closed.  `past`
and `harmed` are history variables: what has happened so far, and whether a call
for one manager has closed a socket that somebody else was using.

`SiDaqInitialize` may fail in `WSAStartup`, in the constructor of the RBCP client,
whose exception nobody catches, and in the first register access, and each time
leaves something else behind.  The end of a measurement is one step (`EndRun`):
its threads close no socket but their own, which is the property `ClosesOwn` of
`SiDaqApi`.  The application's calls come one after the other, and it passes the
same `not_wsa_cleanup` to all of them.

What the model says of the code, and the properties state:
- with one manager at a time the count is right, although it counts something
  odd (`CountTellsStartup`, `AppKeepsWinsock`);
- with several that leave winsock to the API, the `SiDaqTerminate` that brings the
  count to 0 closes the sockets of the others, or undoes the `WSAStartup` of the
  application: the conditions of `HarmNeedsCause` and `AppKeepsWinsock` name this;
- after a failed `send()` the RBCP client's handle may be somebody else's.

### SQueue

`SQPut` and `SQGet` with one action per access of a shared field, between lock
and unlock too, since `_count` is read without the mutex.  Nodes are heap
addresses that are allocated and freed, so a stale pointer would be seen.
`contents` is a history variable: the list as it is meant to be.  It is what
`Fifo`, the atomic queue, is refined to; an operation takes effect when it
changes `_count`.  `SiDaqApi` uses queues as atomic ones because of this result.

`SQueueDelete` adds `DeleteSQueue`: `SQGet` without a time limit, by the thread
`Deleter`, until a call gives nothing.  It may begin when no thread is inside a
call, which the code leaves to the application.  That the loop, which stops at
`_count = 0`, frees every node is `DeletedIsEmpty`.

### Framer

`RecvSiDaqData` of one run with its buffer as an array of bytes.  A chunk is any
non-empty sequence of at most `MaxRecv` bytes.  The steps of a call are its passes:
the one that completes the buffered frame (`First`, `FirstKeep`) and those of the
`while` loop.  `framer_thread` is the only caller; the reader is seen in `queued`,
which may shrink by any amount between two puts.

The code loses bytes in three ways, and `lost` is a history variable that says
which of them have occurred:
- `"limit"`: the `while` loop is left when a frame has reached the queue limit, and
  the rest of the chunk is dropped (`LoopFrame`).  `First` does not leave it.
- `"header"`: of the part of a header at the end of a chunk one byte is kept
  (`LoopShort`).
- `"room"`: an event that is longer than the buffer fills it and what comes behind
  is dropped (`FirstKeep`).  The buffer has 262144 bytes whatever maximum the
  application passes to `SiDaqRun`; with a larger one such an event is no error, it
  never becomes complete, and all that follows it until the run ends is dropped
  silently.

`Conserved` says that nothing else loses a byte, and what each of the three takes:
a limit and then an error; a header of more than two bytes; a maximum above the
buffer.  `EventStream` is the promise: the stream is cut by its headers alone, until
a header is invalid.  Its `full` is the limit as the last put found it, when what is
behind an event, all of it, may be dropped (`Cut`); its `Overrun` is the event for
which there is no room.

The length function is a parameter.  `FrameLength` has those of the samples, in
the arithmetic of the code: the MFC function adds shifted bytes up in an `int`, the
C# one reverses the bytes and reads an unsigned number from them.  A byte has
`Base` values and an int `IntBytes` bytes, so that an int overflows in a small
instance.  `HeaderIsLength` says that both return what the header stands for, or
an error: a header with the high bit of the int set is refused.

`FramerAssumption` names what the code relies on without testing it: a chunk fits
in the buffer, because no event may be longer (`MaxFrameLen <= BuffSize`) or because
the receive size is not (`MaxRecv <= BuffSize`).  The defaults satisfy both; with both
set to more than 262144 bytes the `memcpy` of `LoopKeep` would write behind the buffer,
of which the model says nothing.

### Rbcp

One call at a time, which sends one datagram and receives at most one.  The
network loses, delays, duplicates and reorders; a datagram does not outlive
`Lifetime` calls.  The socket's buffer holds `InboxLen` replies and is never
drained: a late reply is what the next call receives.  `IdWindow`
(`Lifetime + InboxLen <= IdMod`) says that ids do not come round while a reply
may still be under way; the code relies on it with its 256 ids.  `seen` is a
history variable: the register contents since the call began.  An exception sets
`SITCP_WRITE_ERROR` for reads too, as in the code.

### Sample

The MFC dialog and the C# form have the same handlers, timer and `recv_thread`;
`app` says which of them a behaviour is of, and the actions say where they
differ.  `gui` is their GUI status, `enabled` the buttons it enables, `ui` the
point inside a handler: a handler is one action up to the next access to what
another thread changes, and no other handler runs before it has returned.  The
user may click any enabled button at any time.  `written` is a history variable:
the lines of the files in the order they were written, each with the run whose
file it is.

The API below is reduced to what a sample sees: the status, the two counts,
`_run` and the pause flag, and `framer_thread` with its points between reading
and writing the status.  Its receive thread is the variable `conn`.  `SiDaqApi`
has the details.

- The samples hold a run to be over when both counts have been 0 for a second
  (ten polls, 100 ms apart).  `Settled` takes this at its word: within that
  second `framer_thread` does what it has to do.  It waits at most 50 ms for data;
  on a machine so loaded that it gets no time for a second the properties are
  not claimed.  What depends on the polls shows in the fault `Settled_Once`.
- The MFC dialog makes the last `recv_thread` end and waits for it before
  `SiDaqRun`; the C# form waits afterwards and for five seconds.  `OneReader`
  and `FilesInOrder` are claimed of the dialog only.
- Freed managers: the dialog frees the manager when `SiDaqRun` fails and keeps the
  pointer, and Disconnect may free it under a `recv_thread` that has not ended
  yet.  The model reaches these states (`mngr = "freed"`) and nothing is said of
  what follows.
- `early` is a history variable: `framer_thread` has left its loop because of
  `SIDAQ_IDLE`, the case of the run `received_is_framed` or after a reset.  Data
  may then be left in the receive queue while the window says idle.

## The runs

### Runs that pass

| Run | Question | Bounds |
|---|---|---|
| `sidaq_safety` | no chunk is lost (`NoLoss`) or overtakes another (`InOrder`); a thread that ends leaves no partial frame (`RestFlushed`); in `SIDAQ_STOPPING` with the threads ended the connection is closed (`StoppingClosed`); the receive limit ends receiving (`LimitEndsReceiving`); no thread closes a socket of somebody else (`ClosesOwn`); `framer_thread` does not leave its loop over an exceeded receive limit without reporting it (`QueueErrorKept`); once the connection is closed both threads have a bounded number of steps left (`ThreadsRunOut`) | 2 runs, 2 chunks, 1 handle value, limits 1 and 2 |
| `sidaq_live` | `SiDaqStop` ends the receive thread; a run that is stopped, reset or in error ends `framer_thread` | 1 run, 2 chunks |
| `managers` | `g_wsa_init` tells whether winsock has to be started (`CountTellsStartup`); the API does not undo the application's `WSAStartup` (`AppKeepsWinsock`); no call closes a socket that another is using without one of two causes (`HarmNeedsCause`); no socket is left behind but by a failed `connect()` (`SocketsAccounted`); without a measurement winsock is left as it was found (`ReleasedUnlessRun`) | 2 managers, 4 handles, a count of at most 3 |
| `squeue` | the list is intact between critical sections, a node has one owner, the mutex is released, the queue implements `Fifo`; `DeleteSQueue` ends and frees every node | 3 nodes, 2 items, 2 producers, 2 consumers, one of them with a time limit |
| `framer` | no byte is reordered, and none lost but at the queue limit and behind an event longer than the buffer (`Conserved`), no complete event is held back, frames are the events of `EventStream`, a header is taken for the number it stands for | all streams of 7 bytes over {0, 1, 3} in all divisions into chunks of at most 4, 2-byte header, frames of at most 6 bytes, a buffer of 4, a queue limit of 2, bytes of 4 values and an int of 2 bytes |
| `rbcp` | an id identifies a reply, a call that succeeds tells the truth about the registers, every call returns | 4 calls, 3 ids, one register and one address without, 2 values |
| `samples` | the frames are written in order, and to the file of their run (MFC, `FilesInOrder`); an idle window means an idle API (`IdleIsQuiet`); `SiDaqRun` never meets the `framer_thread` of the run before (`FramerAlone`); receiving is suspended only for a writer; while the window shows a run its `recv_thread` is there as long as there are frames (`FramesHaveReader`); a run that is stopping ends (`StoppingEnds`) | both programs, 2 runs, 2 chunks |

Why these bounds are enough to be interesting:
- One handle value makes every `socket()` return the handle closed last: the
  worst case for a thread that holds a stale copy.  A failed `SiDaqRun` that
  leaks it is included.  Two runs let the threads of one meet the leftovers of
  the other; two chunks exceed the receive limit of 1 and fill a frame queue of
  limit 2.
- Three nodes for four threads let the queue become empty, have one element and
  more, and reuse a freed node while another thread is still in a call.
- Two managers are what it takes to share winsock, four handles give each of them
  both sockets, or one of them to the application, and a count of 3 lets a manager
  measure twice.
- Seven bytes hold two events and the header of a third, and two frames reach the
  queue limit.  The header 0, 0 is invalid, 0, 1 announces an event that fits in the
  buffer, 0, 3 one that does not and is allowed, 1, 0 and more exceed the maximum, and
  a 3 in front is the high bit of an int of two four-valued bytes.  With a chunk of 4
  the part of an event in the buffer and the next chunk exceed the buffer.
- Four calls make three ids come round; with two ids `IdWindow` is false and
  `OkIsCurrent` is violated, so the assumption is tight.
- Two runs are what it takes for a `recv_thread` to meet the next one's, and two
  frames for their order to be wrong.

Deadlock is not an error where the system may stop: the application has
terminated the manager, the device has sent all its chunks and the threads have
ended (`SiDaqApi`), the queue has been freed (`SQueueDelete`), the window has been
closed (`Sample`), the stream is over (`Framer`), the bound on calls is reached
(`Rbcp`).  The managers' calls never end.

Managers and handles are symmetric in the runs of `Managers`, handles in two of
the `SiDaqApi` runs that look for a violation; all of these check safety only.

### Runs that show a disagreement with the documentation

| Run | What the documentation says | What happens |
|---|---|---|
| `received_is_framed` | "All received data is framed and stored in the event queue." | `framer_thread` is started before the status is `SIDAQ_RUN`; if it is quick it sees `SIDAQ_IDLE` and ends, and nothing frames the run's data |
| `stopping_ends` | `SIDAQ_STOPPING` "Transitions to `SIDAQ_IDLE` after framing has finished." | `SiDaqStop` may set it after `framer_thread` has ended; nobody is left to change it |
| `frames_of_one_run` | "The beginning of the received data string passed is always the beginning of the event data." | data left over by a run are put in front of those of the next connection |
| `header_split` | "The beginning of the received data ..." | of a header of three bytes that a chunk border splits after the second, only the first byte is kept |
| `released` | "`SiDaqTerminate` releases all resources allocated by `SiDaqInitialize`." | `SiDaqRun` has raised `g_wsa_init` as well: after a measurement `SiDaqTerminate` does not call `WSACleanup` |

### Fairness

- `SiDaqApi`: weak fairness of each of the two threads of a run and of the steps
  of a call the application is inside of.  Windows schedules every thread that
  can run, and no thread waits for a lock here.  Nothing is assumed of when the
  application calls, of the reader or of the device.
- `SQueueDelete`: weak fairness of a thread inside a call, and of
  `DeleteSQueue`.  `LockReleased` needs only the owner of the mutex to go on, and
  `DeleteEnds` only the deleting thread; that a particular thread gets the mutex
  while others use the queue is not claimed.
- `Rbcp`: weak fairness of `Receive \/ Timeout`, since `select()` has a time
  limit.  Nothing is assumed of the network or the device.
- `Sample`: weak fairness of the threads and of a handler that has begun; strong
  fairness of the timer, whose message is handled between two clicks however
  often the user clicks.  Nothing is assumed of the user and the network.

## The theorems

All are proved by TLAPS for every value of the constants that satisfies the
named assumptions.

**SiDaqApiProofs** (`ConstantsAssumption`).  `TypeCorrect`, and `NothingLost`:
no received chunk is lost between the threads, for any number of runs, chunks and
handles, any limits, and also for an application that does not wait.  `TypeOK`
is strengthened by `Carried`: a thread at the point of passing a chunk on has
one.  `NoLoss` is then inductive; each step moves a chunk between two of its
parts, and the lemmas `GotTaken` to `HandGiven` say what a change of one thread's
hands does to the union.

**WaitingProofs** (`ConstantsAssumption`; every theorem has the assumption
`ClientWaits`).  `SocketsClosedByOwner`, `ConnectionClosed`, `RestIsFlushed`,
`ReadInOrder` and `LimitEndsRun` state `ClosesOwn`, `StoppingClosed`, `RestFlushed`,
`InOrder` and `LimitEndsReceiving`; `ThreadsEnd` and `LimitIsReported` the action
properties `ThreadsRunOut` and `QueueErrorKept`.  All rest on `OneRun`: a thread that is not of
the latest run has ended.  `OwnSocket` says from this who is connected to the
device: `device_socket` and no other handle, and a copy in `socket_loop_thread` is
that connection or closed.  `CloseComing` and `FlushComing` say which thread will
still close the connection, or flush the rest, while it is not done.  For `InOrder`
the chunks are in the stages wire, receiving thread, receive queue, framer, event
queue and reader: `StageOrder` and `WireOrder` say that what is nearer to the reader
is older, and within a stage in order; `LimitInv`, that
`socket_loop_thread` goes on receiving only while the queue is within its limit.
`ThreadsEnd` counts steps: `SockSteps` and `FramerSteps` say how many a thread has
left from each of its points, `FramerWork` adds one round of the loop for each chunk
still queued, and every step of the thread lowers the number while no step of
another raises it.  For `socket_loop_thread` it matters that a closed socket is dead
for the thread that holds a copy of it (`ClosedIsDead`), which is `OwnSocket` again;
for `framer_thread`, that nobody fills `recv_queue` and nobody connects any more.
`LimitIsReported` needs `ErrorPending`: while the error waits to be reported there is a chunk in `recv_queue` or in the hands of `framer_thread`, so
that it does not wait for data.

**SQueueProofs** (`QueueAssumption`).  `QueueTypeCorrect`, `ListStaysIntact`,
`NodesHaveOneOwner` and `QueueImplementsFifo`, for any number of threads and
nodes.  `ListIntact` speaks of the moments when the mutex is free, so the
inductive invariant describes each point in between: `Linked` is the list that
the pointers form, which is `contents` but for a node that is linked and not yet
counted or unlinked and still counted; `Hands` says which thread may be inside
and what it holds.  The refinement follows step by step: `PutCount` and `GetCount`
are `Put` and `Get` of `Fifo`, a return without data is `GetNothing`, all
others are stutters.  `DeleteFreesAll` says of `SQueueDelete` that a freed queue has
left no node behind; it uses the invariant of the living queue, because deleting
is a use of it (`DeleteIsUse`).  `DeleteIsBounded` says that each step of
`DeleteSQueue` lowers `DeleteLeft` (`DeleteShrinks`), nine steps for a node and those left of the call:
no step is in vain, since nobody else holds the mutex or puts anything.

**FramerProofs** (`FramerAssumption`).  `FramerTypeCorrect` (`_rest` never exceeds the
buffer), `BytesConserved` and `NoEventHeldBack`, for every length function, header,
frame and queue limit, maximum and stream.  The strengthening `Partial` says that a
non-empty buffer holds less than the frame it begins, or less than a header;
without it the next pass could end a frame in front of the new data.
`EventsBeginBehindFrames` turns `Conserved` round: where none of its three causes can
occur, `RecvSiDaqData` always works on what is behind the last frame (`EventStart`).
The refinement `FramerCutsEvents` needs headers of at most two bytes, the condition
the run `header_split` shows to be needed, and that events have a length at all
(`HasLength`): without one a chunk is an event.  A pass maps to a step of
`EventStream`, or to a stutter when it only buffers; the pass that drops bytes for
want of room maps to `Overrun`.

**FrameLengthProofs** (`WidthAssumption`, and `FramerAssumption` for the second).
`LengthFunctionsAgree`: for every header that is not longer than an `int`, and every
width of a byte and an `int`, the functions of both samples return the same, which is
the number the header stands for or an error; `HeadersAreLengths` says it of every
header the framer comes to (`HeaderIsLength`).  The sum over the bytes is a recursive
function, of which nothing is known until a function with its equation is shown to
exist; there is no induction to do it with, but a set of numbers has a smallest
element (`Smallest`, from the library's `WFMin`), and a smallest number of digits for
which there is no such function (`SumExists`), or for which the sum is not below the
number of values (`Below`), cannot be.

**RbcpProofs** (`RbcpConstants`, `IdWindow`).  `RbcpTypeCorrect`, `IdsIdentify`
and `OkTellsTruth`, for every number of ids, registers, values and calls.  The
inductive invariant bounds the age of what is under way: in the network by
`Lifetime` (`NetAges`), in the buffer by its place in the queue as well
(`InboxAges`), and it says of the packets of the current call that they tell the
truth about `seen` (`Current`).

**ManagersProofs** (`ManagersAssumption`).  The six invariants of the run
`managers`, for any number of managers and handles and any count.  The
strengthening: `Counts` relates `g_wsa_init` to winsock's count in each of the
three situations that differ (the application starts winsock, the API does with
one manager at a time, with several); `Owned` says that a handle a manager holds
is its own as long as no cause for the contrary has occurred; `Unrun` counts
without measurements; `Life` ties the sockets to the status.

**SampleProofs** (`SampleAssumption`).  The six invariants of the run `samples`,
for both programs and any number of runs and frames, and `OneReader`, which
`FilesInOrder` rests on: the dialog has one `recv_thread` at a time.  `Counting` bounds the frames
by the chunks; `Handling`, `Fresh`, `Holding` and `Freed` say what handlers and
threads rely on between their steps; `Single`, that `m_winthread_ptr` is the only
`recv_thread` that has not ended; `Queued`, `Taken` and `Stored`, that frames in the
event queue are later than those in a thread's hands and these later than those
in the files.  `Quiet` and `Closing` follow a run to its end: `framer_thread` has
returned in every state in which a click may start the next run, and it has
left its loop only when the connection is closed or is being closed, which is why
the window may say idle.  `Fetched`, for `FramesAreFetched`, follows the
`recv_thread` of the run that is shown: it takes the way to its end only when the
status is no longer `SIDAQ_RUN`, and at the end the event queue is empty and
`framer_thread` is neither in its loop nor holding a chunk, so that no frame can
follow.

**Only model-checked.**  Liveness under fairness is out of the prover's reach:
`StopEndsSocketThread`, `NotRunningEndsFramer`, `LockReleased`, `DeleteEnds`,
`CallReturns`, and `StoppingEnds` of `Sample`.  Of four of them the safety part is
proved: that a thread has a bounded number of steps left (`ThreadsEnd`,
`DeleteIsBounded`), and that the thread on which the end depends is there
(`FramesAreFetched`).  That the steps are taken is fairness, and that a thread can
take its next step, ENABLED: both stay with TLC.  So does what follows from
`QueueErrorKept` and the fairness of `framer_thread`, that the error is reported.
Every invariant and action property of the passing runs is a theorem.

## What is not modelled

- Text: messages, addresses, logging; queries such as `SiDaqGetStatus`, which
  change nothing.
- What a thread does to memory that `SiDaqTerminate` has freed under it: in the
  model the threads of a freed manager do nothing more.
- The null pointers that follow a `SiDaqRun` on a manager whose initialisation
  failed.
- The functions of the queue that the API does not call.
- `SetTimeout` of the RBCP client, which sets one number; calls of it by several
  threads at a time, against which it has no protection.
- An application that passes different values of `not_wsa_cleanup` to the calls of
  one process.
- Headers longer than an `int` in the MFC sample's length function: the shift is
  undefined behaviour.
- Of the samples: the RBCP buttons, which change only the manager's last error,
  no status (the calls they make are those of `Rbcp`; that they block the GUI
  thread is no state of it), what is displayed, the input of parameters (an
  invalid one makes a click do nothing), and a timer message that is still in the
  message queue when the timer is stopped.
- `SiDaqPseudo.py`: a test tool on a library that is not part of the repository.
  Generated GUI code.

## The plan

1. Done: `SiDaqApi` (the threads and the status, the most important behaviour),
   `SQueue` with `Fifo`, `Framer` with `EventStream`, `Rbcp`, and their first
   theorems.
2. Done: `Sample`, the two sample programs on top of the API.
3. Done: `Managers`, the life of several managers, and `SQueueDelete`.
4. Done: theorems for every invariant and action property of the passing runs and
   for both refinements.
5. Left: several threads that use one RBCP client; a SiTCP reset written with the
   RBCP buttons of the samples, which a running measurement sees as the network
   ending its connection.
