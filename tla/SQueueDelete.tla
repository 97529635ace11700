---------------------------- MODULE SQueueDelete ----------------------------
(***************************************************************************)
(* The end of an SQueue: DeleteSQueue (squeue_c/squeue.cpp), with which    *)
(* SiDaqTerminate frees its queues.  It takes out whatever is still in the *)
(* queue with SQGet, and stops at the first call that gives nothing: what  *)
(* _count does not count is never freed.                                   *)
(*                                                                         *)
(* SQueue describes the queue while it lives; here it may also be deleted, *)
(* by a thread that uses SQGet without a time limit, once no thread is     *)
(* inside a call any more.  The code leaves it to the application to wait  *)
(* for that.                                                               *)
(***************************************************************************)
EXTENDS SQueue

CONSTANT Deleter  \* the thread that calls DeleteSQueue

ASSUME DeleterAssumption == Deleter \in Consumers \ Timed

VARIABLE queue  \* the struct SQueue: "live", "freed", or in DeleteSQueue:
                \* "get" in SQGet, "got" behind it

deleteVars == <<vars, queue>>

InitDelete == Init /\ queue = "live"

\* SQPut and SQGet, as long as nobody deletes the queue.
Use == queue = "live" /\ Next /\ UNCHANGED queue

Unused == \A t \in Threads : At(t, "idle")

DeleteStart ==
  /\ queue = "live" /\ Unused
  /\ queue' = "get"
  /\ UNCHANGED vars

\* SQGet(que_ptr, &data_size, -1), step by step.
DeleteGet ==
  /\ queue = "get"
  /\ SQGet(Deleter)
  /\ queue' = IF pc'[Deleter] = "idle" THEN "got" ELSE "get"

DeleteNext_Once ==
  /\ queue = "got"
  /\ queue' = "freed"
  /\ UNCHANGED vars

DeleteNext_Again ==
  /\ queue = "got"
  /\ \/ queue' = "get"
     \/ result[Deleter] = NULL /\ lock = NULL /\ queue' = "freed"
  /\ UNCHANGED vars

\* The data SQGet gave are freed and the next call follows; when it gave
\* none, the mutex is taken for the last time and the queue is freed.
DeleteNext ==
  /\ queue = "got"
  /\ \/ result[Deleter] # NULL /\ queue' = "get"
     \/ result[Deleter] = NULL /\ lock = NULL /\ queue' = "freed"
  /\ UNCHANGED vars

DeleteSQueue == DeleteGet \/ DeleteNext

NextDelete == Use \/ DeleteStart \/ DeleteSQueue

DeleteSpec == InitDelete /\ [][NextDelete]_deleteVars

\* The threads run until their calls return, and so does DeleteSQueue.
FairDeleteSpec ==
  /\ DeleteSpec
  /\ \A p \in Producers : WF_deleteVars(Use /\ ~At(p, "idle") /\ SQPut(p))
  /\ \A c \in Consumers : WF_deleteVars(Use /\ ~At(c, "idle") /\ SQGet(c))
  /\ WF_deleteVars(DeleteSQueue)

-----------------------------------------------------------------------------
QueueStates == {"live", "get", "got", "freed"}

\* DeleteSQueue leaks nothing: no node is left, linked or in a thread's hands,
\* when the queue is freed, however the threads have used it before.
DeletedIsEmpty ==
  queue = "freed" => heap = {} /\ top = NULL /\ Unused

\* How many steps DeleteSQueue has left, at most: a node that is still in the
\* queue costs it one call of SQGet.
GetSteps ==
  [idle |-> 8, get_test |-> 7, get_lock |-> 6, get_take |-> 5,
   get_unlink |-> 4, get_count |-> 3, get_clear |-> 11, get_free |-> 10]

DeleteLeft ==
  9 * Len(contents) +
     CASE queue = "get"   -> GetSteps[pc[Deleter]]
       [] queue = "got"   -> IF result[Deleter] = NULL THEN 1 ELSE 9
       [] queue = "freed" -> 0

\* DeleteSQueue is bounded by the length of the queue: no step of it is taken
\* in vain, and while it works no other thread can give it more to do.
DeleteShrinks ==
  [][(queue \in {"get", "got"}) => DeleteLeft' < DeleteLeft]_deleteVars

\* DeleteSQueue ends: its loop does not go on for ever, and the mutex it takes
\* last is free.
DeleteEnds == queue = "get" ~> queue = "freed"
=============================================================================
