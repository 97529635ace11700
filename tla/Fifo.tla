-------------------------------- MODULE Fifo --------------------------------
(***************************************************************************)
(* What an SQueue promises: a queue on which SQPut and SQGet are atomic.   *)
(* SQGet may give nothing, but only when the queue is empty or when the    *)
(* caller has limited the time it waits for the queue's lock.              *)
(***************************************************************************)
EXTENDS Sequences

CONSTANTS
  Items,      \* the data that are put
  Consumers,  \* the threads that call SQGet
  Timed,      \* the consumers that call it with wait_msec >= 0
  NULL        \* what SQGet returns when it has nothing

VARIABLES
  q,          \* the items in the queue
  result      \* the last result of SQGet of each consumer

vars == <<q, result>>

Init == q = <<>> /\ result = [c \in Consumers |-> NULL]

Put == \E d \in Items : q' = Append(q, d) /\ UNCHANGED result

Get(c) ==
  /\ q # <<>>
  /\ result' = [result EXCEPT ![c] = Head(q)]
  /\ q' = Tail(q)

GetNothing(c) ==
  /\ q = <<>> \/ c \in Timed
  /\ result' = [result EXCEPT ![c] = NULL]
  /\ UNCHANGED q

Next == Put \/ \E c \in Consumers : Get(c) \/ GetNothing(c)

Spec == Init /\ [][Next]_vars
=============================================================================
