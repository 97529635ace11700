------------------------------- MODULE SQueue -------------------------------
(***************************************************************************)
(* SQueue (squeue_c/squeue.cpp): the doubly linked list behind every queue *)
(* of the API.  SQPut and SQGet link and unlink under a mutex, but _count  *)
(* is read without it: before SQGet takes the mutex, after SQPut has       *)
(* released it, and by SiDaqRecvQueueCount and SiDaqFrameQueueCount.       *)
(*                                                                         *)
(* An action is the code between two accesses that another thread may see. *)
(* contents is a history variable: the nodes in the queue, in order, where *)
(* an operation takes effect when it changes _count.                       *)
(***************************************************************************)
EXTENDS Integers, Sequences, FiniteSets

CONSTANTS
  Nodes,      \* addresses malloc() gives to struct SQData; their number
              \* bounds the length of the queue
  Items,      \* data
  Producers,  \* threads that call SQPut
  Consumers,  \* threads that call SQGet
  Timed,      \* ... with wait_msec >= 0: they may give up on the mutex
  NULL        \* the null pointer, and no thread

Threads == Producers \cup Consumers

ASSUME QueueAssumption ==
  /\ NULL \notin Nodes \cup Items \cup Threads
  /\ Producers \cap Consumers = {}
  /\ Timed \subseteq Consumers

VARIABLES
  top,       \* que_ptr->_top
  last,      \* que_ptr->_last
  count,     \* que_ptr->_count
  lock,      \* the thread that owns que_ptr->_lock, or NULL
  next,      \* _next of each node
  prev,      \* _prev of each node
  member,    \* the nodes whose _parent is the queue
  data,      \* *_data_ptr of each node
  heap,      \* the nodes that are allocated
  pc,        \* where each thread is
  node,      \* sd_ptr, pRet: the node a thread works with
  result,    \* what SQGet returned last to each consumer
  contents   \* history: the nodes in the queue

listVars == <<top, last, count, next, prev, member>>
vars == <<listVars, lock, data, heap, pc, node, result, contents>>

Init ==
  /\ top = NULL /\ last = NULL /\ count = 0 /\ lock = NULL
  /\ next = [n \in Nodes |-> NULL]
  /\ prev = [n \in Nodes |-> NULL]
  /\ member = {}
  /\ data \in [Nodes -> Items]
  /\ heap = {}
  /\ pc = [t \in Threads |-> "idle"]
  /\ node = [t \in Threads |-> NULL]
  /\ result = [c \in Consumers |-> NULL]
  /\ contents = <<>>

At(t, point)   == pc[t] = point
Goto(t, point) == pc' = [pc EXCEPT ![t] = point]

Lock_Busy(t) == lock' = t

\* LOCK: WaitForSingleObject(lock, INFINITE).
Lock(t) == lock = NULL /\ lock' = t

Unlock == lock' = NULL

(***************************************************************************)
(* SQPut.                                                                  *)
(***************************************************************************)
\* NewSQData: a new node with a copy of the data.
Put(p) ==
  /\ At(p, "idle")
  /\ \E n \in Nodes \ heap, d \in Items :
        /\ heap' = heap \cup {n}
        /\ node' = [node EXCEPT ![p] = n]
        /\ data' = [data EXCEPT ![n] = d]
        /\ next' = [next EXCEPT ![n] = NULL]
        /\ prev' = [prev EXCEPT ![n] = NULL]
        /\ member' = member \ {n}
  /\ Goto(p, "put_lock")
  /\ UNCHANGED <<top, last, count, lock, result, contents>>

PutLock(p) ==
  /\ At(p, "put_lock")
  /\ Lock(p)
  /\ Goto(p, "put_link")
  /\ UNCHANGED <<listVars, data, heap, node, result, contents>>

\* The new node goes behind the last one.
PutLink(p) ==
  /\ At(p, "put_link")
  /\ LET n == node[p] IN
     /\ last' = n
     /\ member' = member \cup {n}
     /\ prev' = [prev EXCEPT ![n] = last]
     /\ next' = [m \in Nodes |-> IF m = last THEN n ELSE next[m]]
     /\ top' = IF top = NULL THEN n ELSE top
  /\ Goto(p, "put_count")
  /\ UNCHANGED <<count, lock, data, heap, node, result, contents>>

PutCount(p) ==
  /\ At(p, "put_count")
  /\ count' = count + 1
  /\ contents' = Append(contents, node[p])
  /\ node' = [node EXCEPT ![p] = NULL]
  /\ Goto(p, "put_unlock")
  /\ UNCHANGED <<top, last, next, prev, member, lock, data, heap, result>>

PutUnlock_Not(p) ==
  /\ At(p, "put_unlock")
  /\ Goto(p, "idle")
  /\ UNCHANGED <<listVars, lock, data, heap, node, result, contents>>

PutUnlock(p) ==
  /\ At(p, "put_unlock")
  /\ Unlock
  /\ Goto(p, "idle")
  /\ UNCHANGED <<listVars, data, heap, node, result, contents>>

(***************************************************************************)
(* SQGet.  _count is tested twice, by SQGet and by _sque_get, and both     *)
(* times it may have become 0.                                             *)
(***************************************************************************)
GiveNothing(c) ==
  /\ result' = [result EXCEPT ![c] = NULL]
  /\ Goto(c, "idle")

GetTest(c) ==
  /\ \/ At(c, "idle") /\ count > 0 /\ Goto(c, "get_test") /\ UNCHANGED result
     \/ At(c, "get_test") /\ count # 0 /\ Goto(c, "get_lock")
                                       /\ UNCHANGED result
     \/ At(c, "idle") /\ count <= 0 /\ GiveNothing(c)
     \/ At(c, "get_test") /\ count = 0 /\ GiveNothing(c)
  /\ UNCHANGED <<listVars, lock, data, heap, node, contents>>

\* WAIT_LOCK may time out while another thread has the mutex.
GetLock(c) ==
  /\ At(c, "get_lock")
  /\ \/ Lock(c) /\ Goto(c, "get_take") /\ UNCHANGED result
     \/ /\ c \in Timed /\ lock # NULL
        /\ GiveNothing(c)
        /\ UNCHANGED lock
  /\ UNCHANGED <<listVars, data, heap, node, contents>>

GetNone_Counts(c) ==
  /\ At(c, "get_take") /\ top = NULL
  /\ count' = count - 1
  /\ Unlock
  /\ GiveNothing(c)
  /\ UNCHANGED <<top, last, next, prev, member, data, heap, node, contents>>

\* Another consumer has emptied the queue meanwhile (data_size = -2 or 0).
GetNone(c) ==
  /\ At(c, "get_take") /\ top = NULL
  /\ Unlock
  /\ GiveNothing(c)
  /\ UNCHANGED <<listVars, data, heap, node, contents>>

\* pRet = _top.
GetTake(c) ==
  /\ At(c, "get_take") /\ top # NULL
  /\ node' = [node EXCEPT ![c] = top]
  /\ Goto(c, "get_unlink")
  /\ UNCHANGED <<listVars, lock, data, heap, result, contents>>

\* pRet is unlinked; _last keeps pointing to it if it is the only node.
GetUnlink(c) ==
  /\ At(c, "get_unlink")
  /\ LET n == node[c] IN
     /\ top' = next[n]
     /\ prev' = [m \in Nodes |-> IF m \in {n, next[n]} THEN NULL ELSE prev[m]]
     /\ next' = [next EXCEPT ![n] = NULL]
  /\ Goto(c, "get_count")
  /\ UNCHANGED <<last, count, member, lock, data, heap, node, result, contents>>

GetCount(c) ==
  /\ At(c, "get_count")
  /\ count' = count - 1
  /\ contents' = Tail(contents)
  /\ result' = [result EXCEPT ![c] = data[node[c]]]
  /\ Goto(c, "get_clear")
  /\ UNCHANGED <<top, last, next, prev, member, lock, data, heap, node>>

GetClear_KeepsLast(c) ==
  /\ At(c, "get_clear")
  /\ member' = member \ {node[c]}
  /\ Unlock
  /\ Goto(c, "get_free")
  /\ UNCHANGED <<top, last, count, next, prev, data, heap, node, result,
                 contents>>

\* _last is cleared with the last node, and the mutex is released.
GetClear(c) ==
  /\ At(c, "get_clear")
  /\ \/ count = 0 /\ top' = NULL /\ last' = NULL
     \/ count # 0 /\ UNCHANGED <<top, last>>
  /\ member' = member \ {node[c]}
  /\ Unlock
  /\ Goto(c, "get_free")
  /\ UNCHANGED <<count, next, prev, data, heap, node, result, contents>>

\* DeleteSQData.
GetFree(c) ==
  /\ At(c, "get_free")
  /\ heap' = heap \ {node[c]}
  /\ node' = [node EXCEPT ![c] = NULL]
  /\ Goto(c, "idle")
  /\ UNCHANGED <<listVars, lock, data, result, contents>>

-----------------------------------------------------------------------------
SQPut(p) == Put(p) \/ PutLock(p) \/ PutLink(p) \/ PutCount(p) \/ PutUnlock(p)

SQGet(c) ==
  \/ GetTest(c) \/ GetLock(c) \/ GetNone(c) \/ GetTake(c)
  \/ GetUnlink(c) \/ GetCount(c) \/ GetClear(c) \/ GetFree(c)

Next == (\E p \in Producers : SQPut(p)) \/ (\E c \in Consumers : SQGet(c))

Spec == Init /\ [][Next]_vars

-----------------------------------------------------------------------------
PutPoints == {"idle", "put_lock", "put_link", "put_count", "put_unlock"}
GetPoints == {"idle", "get_test", "get_lock", "get_take", "get_unlink",
              "get_count", "get_clear", "get_free"}
Pointers == Nodes \cup {NULL}

\* The pointers, the counter and the threads' points have their types.
TypeOK ==
  /\ top \in Pointers /\ last \in Pointers
  /\ count \in Nat
  /\ lock \in Threads \cup {NULL}
  /\ next \in [Nodes -> Pointers]
  /\ prev \in [Nodes -> Pointers]
  /\ member \subseteq Nodes
  /\ data \in [Nodes -> Items]
  /\ heap \subseteq Nodes
  /\ pc \in [Threads -> PutPoints \cup GetPoints]
  /\ node \in [Threads -> Pointers]
  /\ result \in [Consumers -> Items \cup {NULL}]
  /\ contents \in Seq(Nodes)

Queued == {contents[i] : i \in DOMAIN contents}

\* Between two critical sections _top, _last, _next, _prev, _parent and
\* _count describe one list, the queue's: none of the steps of SQPut and
\* SQGet leaves a dangling or a missing link behind.
ListIntact ==
  lock = NULL =>
    /\ count = Len(contents)
    /\ top = IF contents = <<>> THEN NULL ELSE contents[1]
    /\ last = IF contents = <<>> THEN NULL ELSE contents[Len(contents)]
    /\ \A i \in DOMAIN contents :
          /\ next[contents[i]] = IF i = Len(contents) THEN NULL
                                                     ELSE contents[i + 1]
          /\ prev[contents[i]] = IF i = 1 THEN NULL ELSE contents[i - 1]
    /\ member = Queued

\* A thread has a node that is no longer, or not yet, in the queue.
HeldBy(t) == pc[t] \notin {"get_unlink", "get_count"} /\ node[t] # NULL

\* A node has one owner: it is in the queue, once, or in the hands of one
\* thread, or free.  So SQGet never gives the same data to two threads, and
\* DeleteSQData frees neither a linked node nor one twice.
OneOwner ==
  /\ heap = Queued \cup {node[t] : t \in {u \in Threads : HeldBy(u)}}
  /\ \A i, j \in DOMAIN contents : contents[i] = contents[j] => i = j
  /\ \A t \in Threads : HeldBy(t) => node[t] \notin Queued
  /\ \A t, u \in Threads :
        node[t] # NULL /\ node[t] = node[u] => t = u

\* The mutex does not stay taken: every way out of SQPut and SQGet releases
\* it.
LockReleased == lock # NULL ~> lock = NULL

\* An SQueue implements the atomic queue of Fifo.
Abstract == INSTANCE Fifo WITH q <- [i \in DOMAIN contents |-> data[contents[i]]]

\* Whatever SQPut and SQGet of several threads do concurrently, the result is
\* that of atomic operations on a queue; and SQGet without a time limit gives
\* nothing only when the queue is empty.
ImplementsFifo == Abstract!Spec
=============================================================================
