---------------------------- MODULE SQueueProofs ----------------------------
(***************************************************************************)
(* Proofs about SQueue, for any number of producers, consumers and nodes:  *)
(* its type invariant, the integrity of the list, the ownership of nodes   *)
(* and that it implements Fifo.  All rest on one inductive invariant,      *)
(* which says what the list looks like at every point of the critical      *)
(* sections.  Deleting the queue keeps it, and leaves no node behind.      *)
(***************************************************************************)
EXTENDS SQueueDelete, TLAPS, SequenceTheorems

Critical == {"put_link", "put_count", "put_unlock", "get_take", "get_unlink",
             "get_count", "get_clear"}

\* The mutex is owned by the thread that is in its critical section.
Mutex == \A t \in Threads : pc[t] \in Critical <=> lock = t

\* A thread has a node between malloc() or _top and the put or free().
Hands ==
  /\ \A p \in Producers :
        /\ pc[p] \in PutPoints
        /\ node[p] # NULL <=> pc[p] \in {"put_lock", "put_link", "put_count"}
  /\ \A c \in Consumers :
        /\ pc[c] \in GetPoints
        /\ node[c] # NULL <=>
              pc[c] \in {"get_unlink", "get_count", "get_clear", "get_free"}

LockAt(point) == lock # NULL /\ pc[lock] = point

\* The nodes that are linked: between link and count they differ from the
\* contents by the node that is put or taken.
Linked ==
  IF LockAt("put_count") THEN Append(contents, node[lock])
  ELSE IF LockAt("get_count") THEN Tail(contents)
  ELSE contents

\* top, next and prev describe s.
Chain(s) ==
  /\ top = IF s = <<>> THEN NULL ELSE s[1]
  /\ \A i \in 1..Len(s) :
        /\ next[s[i]] = IF i = Len(s) THEN NULL ELSE s[i + 1]
        /\ prev[s[i]] = IF i = 1 THEN NULL ELSE s[i - 1]

\* _last is the end of the list; it dangles while the only node is taken.
LastOf(s) ==
  /\ s # <<>> => last = s[Len(s)]
  /\ s = <<>> /\ ~LockAt("get_count") /\ ~LockAt("get_clear") => last = NULL

\* A node that is not linked yet points nowhere.
Fresh ==
  \A p \in Producers : pc[p] \in {"put_lock", "put_link"} =>
     next[node[p]] = NULL /\ prev[node[p]] = NULL

\* A consumer takes the first node.
Taken ==
  \A c \in Consumers : pc[c] \in {"get_unlink", "get_count"} =>
     contents # <<>> /\ node[c] = contents[1]

Members ==
  \A n \in Nodes :
     n \in member <=>
       \/ n \in Queued
       \/ (LockAt("put_count") \/ LockAt("get_clear")) /\ n = node[lock]

IndInv ==
  /\ TypeOK /\ Mutex /\ Hands
  /\ count = Len(contents)
  /\ Chain(Linked) /\ LastOf(Linked)
  /\ Fresh /\ Taken /\ Members /\ OneOwner

-----------------------------------------------------------------------------
\* The initial queue is an intact empty list.
LEMMA IndInit == Init => IndInv
<1> SUFFICES ASSUME Init PROVE IndInv
  OBVIOUS
<1> USE QueueAssumption DEF Init
<1>1. TypeOK
  BY DEF TypeOK, PutPoints, Pointers, Threads
<1>2. Mutex /\ Hands /\ Fresh /\ Taken
  BY DEF Mutex, Hands, Fresh, Taken, Critical, PutPoints, GetPoints, Threads
<1>3. Linked = <<>>
  BY DEF Linked, LockAt
<1>4. Chain(Linked) /\ LastOf(Linked)
  BY <1>3 DEF Chain, LastOf
<1>5. Members /\ OneOwner
  BY DEF Members, OneOwner, HeldBy, LockAt, Queued
<1> QED
  BY <1>1, <1>2, <1>3, <1>4, <1>5 DEF IndInv

\* What IndInv says of the linked nodes: they are allocated and distinct.
LEMMA LinkedFacts ==
  ASSUME IndInv
  PROVE  /\ Linked \in Seq(Nodes)
         /\ \A i \in 1..Len(Linked) : Linked[i] \in heap
         /\ \A i, j \in 1..Len(Linked) : Linked[i] = Linked[j] => i = j
<1> USE QueueAssumption DEF IndInv, Threads
<1>0. contents \in Seq(Nodes) /\ node \in [Threads -> Pointers]
  BY DEF TypeOK
<1>q. \A i \in 1..Len(contents) : contents[i] \in heap
  BY <1>0 DEF OneOwner, Queued
<1>d. \A i, j \in 1..Len(contents) : contents[i] = contents[j] => i = j
  BY <1>0 DEF OneOwner
<1>1. CASE LockAt("put_count")
  <2>1. lock \in Threads /\ pc[lock] = "put_count"
    BY <1>1 DEF LockAt, TypeOK
  <2>2. lock \in Producers /\ node[lock] # NULL
    BY <2>1 DEF Hands, GetPoints
  <2>3. HeldBy(lock)
    BY <2>1, <2>2 DEF HeldBy
  <2>4. node[lock] \in Nodes /\ node[lock] \in heap /\ node[lock] \notin Queued
    BY <2>1, <2>2, <2>3, <1>0 DEF OneOwner, Pointers
  <2>5. Linked = Append(contents, node[lock])
    BY <1>1 DEF Linked
  <2>6. \A i \in 1..Len(contents) : contents[i] # node[lock]
    BY <2>4, <1>0 DEF Queued
  <2> QED
    BY <2>4, <2>5, <2>6, <1>0, <1>q, <1>d
<1>2. CASE LockAt("get_count")
  <2>1. lock \in Threads /\ pc[lock] = "get_count"
    BY <1>2 DEF LockAt, TypeOK
  <2>2. contents # <<>>
    BY <2>1 DEF Taken, Hands, PutPoints
  <2>3. Linked = Tail(contents)
    BY <1>2 DEF Linked, LockAt
  <2> QED
    BY <2>2, <2>3, <1>0, <1>q, <1>d
<1>3. CASE ~LockAt("put_count") /\ ~LockAt("get_count")
  <2>1. Linked = contents
    BY <1>3 DEF Linked
  <2> QED
    BY <2>1, <1>0, <1>q, <1>d
<1> QED
  BY <1>1, <1>2, <1>3

\* Allocating a node leaves the list alone: the node is not linked.
LEMMA IndPut ==
  ASSUME NEW p \in Producers, IndInv, Put(p)
  PROVE  IndInv'
<1> USE QueueAssumption DEF IndInv, Put, At, Goto, Threads
<1>1. TypeOK'
  BY DEF TypeOK, PutPoints, GetPoints, Pointers
<1>2. Mutex'
  BY DEF Mutex, TypeOK, Critical
<1>3. Hands'
  BY DEF Hands, TypeOK, PutPoints, GetPoints
<1>4. (count = Len(contents))'
  BY DEF TypeOK
<1>5. Chain(Linked)'
  <2>1. PICK n \in Nodes \ heap :
           /\ next' = [next EXCEPT ![n] = NULL]
           /\ prev' = [prev EXCEPT ![n] = NULL]
    OBVIOUS
  <2>2. lock # p /\ Linked' = Linked
    BY DEF Linked, LockAt, Mutex, Critical, TypeOK
  <2>3. \A i \in 1..Len(Linked) : Linked[i] # n /\ Linked[i] \in Nodes
    BY <2>1, LinkedFacts
  <2> QED
    BY <2>1, <2>2, <2>3 DEF Chain, TypeOK
<1>6. LastOf(Linked)'
  BY DEF LastOf, Linked, LockAt, TypeOK, Mutex, Critical
<1>7. Fresh'
  BY DEF Fresh, TypeOK, Hands
<1>8. Taken'
  BY DEF Taken, TypeOK, Hands, Mutex, Critical
<1>9. Members'
  <2>1. PICK n \in Nodes \ heap :
           /\ member' = member \ {n}
           /\ node' = [node EXCEPT ![p] = n]
    OBVIOUS
  <2>2. lock # p /\ lock \in Threads \cup {NULL}
    BY DEF Mutex, Critical, TypeOK
  <2>3. n \notin Queued /\ Queued' = Queued
    BY <2>1 DEF OneOwner, Queued
  <2>4. ASSUME LockAt("put_count") \/ LockAt("get_clear")
        PROVE  node[lock] # n
    <3>1. lock \in Threads /\ pc[lock] \in {"put_count", "get_clear"}
      BY <2>4 DEF LockAt, TypeOK
    <3>2. HeldBy(lock)
      BY <3>1 DEF HeldBy, Hands, PutPoints, GetPoints
    <3> QED
      BY <3>1, <3>2, <2>1 DEF OneOwner
  <2>5. /\ LockAt("put_count")' <=> LockAt("put_count")
        /\ LockAt("get_clear")' <=> LockAt("get_clear")
        /\ lock # NULL => node'[lock] = node[lock]
    BY <2>1, <2>2 DEF LockAt, TypeOK
  <2>6. lock' = lock
    OBVIOUS
  <2> QED
    BY <2>1, <2>2, <2>3, <2>4, <2>5, <2>6 DEF Members, LockAt
<1>10. OneOwner'
  <2>1. PICK n \in Nodes \ heap :
           /\ heap' = heap \cup {n}
           /\ node' = [node EXCEPT ![p] = n]
    OBVIOUS
  <2>2. node[p] = NULL /\ HeldBy(p)' /\ ~HeldBy(p)
    BY <2>1 DEF Hands, HeldBy, TypeOK
  <2>3. Queued' = Queued /\ n \notin Queued /\ contents' = contents
    BY <2>1 DEF OneOwner, Queued
  <2>4. /\ \A t \in Threads \ {p} : node'[t] = node[t] /\ (HeldBy(t)' <=> HeldBy(t))
        /\ node'[p] = n
    BY <2>1 DEF HeldBy, TypeOK
  <2>5. \A t \in Threads : node[t] # n
    <3> SUFFICES ASSUME NEW t \in Threads, node[t] = n PROVE FALSE
      OBVIOUS
    <3>1. node[t] # NULL /\ n \notin heap
      BY <2>1
    <3>2. ~HeldBy(t)
      BY <3>1 DEF OneOwner
    <3>3. pc[t] \in {"get_unlink", "get_count"}
      BY <3>1, <3>2 DEF HeldBy
    <3>4. contents # <<>> /\ node[t] = contents[1] /\ contents \in Seq(Nodes)
      BY <3>3 DEF Taken, Hands, PutPoints, TypeOK
    <3>5. contents[1] \in Queued
      BY <3>4 DEF Queued
    <3> QED
      BY <3>4, <3>5, <2>3
  <2>6. heap' = Queued' \cup {node'[t] : t \in {u \in Threads : HeldBy(u)'}}
    BY <2>1, <2>2, <2>3, <2>4 DEF OneOwner
  <2>7. \A t \in Threads : HeldBy(t)' => node'[t] \notin Queued'
    BY <2>3, <2>4 DEF OneOwner
  <2>8. \A t, u \in Threads : node'[t] # NULL /\ node'[t] = node'[u] => t = u
    BY <2>4, <2>5 DEF OneOwner
  <2> QED
    BY <2>3, <2>6, <2>7, <2>8 DEF OneOwner, HeldBy
<1> QED
  BY <1>1, <1>2, <1>3, <1>4, <1>5, <1>6, <1>7, <1>8, <1>9, <1>10 DEF IndInv

\* Taking the mutex changes no link.
LEMMA IndPutLock ==
  ASSUME NEW p \in Producers, IndInv, PutLock(p)
  PROVE  IndInv'
<1> USE QueueAssumption DEF IndInv, PutLock, At, Goto, Lock, listVars, Threads
<1>1. TypeOK'
  BY DEF TypeOK, PutPoints, GetPoints, Pointers
<1>2. Mutex'
  BY DEF Mutex, TypeOK, Critical
<1>3. Hands'
  BY DEF Hands, TypeOK, PutPoints, GetPoints
<1>4. (count = Len(contents))'
  BY DEF TypeOK
<1>5. Chain(Linked)'
  <2>1. Linked' = Linked
    BY DEF Linked, LockAt, TypeOK, Mutex, Critical
  <2> QED
    BY <2>1 DEF Chain
<1>6. LastOf(Linked)'
  BY DEF LastOf, Linked, LockAt, TypeOK, Mutex, Critical
<1>7. Fresh'
  BY DEF Fresh, TypeOK, Hands
<1>8. Taken'
  BY DEF Taken, TypeOK, Hands, Mutex, Critical
<1>9. Members'
  BY DEF Members, TypeOK, LockAt, Mutex, Critical, Queued
<1>10. OneOwner'
  BY DEF OneOwner, HeldBy, Queued, TypeOK, Hands, Mutex, Critical
<1> QED
  BY <1>1, <1>2, <1>3, <1>4, <1>5, <1>6, <1>7, <1>8, <1>9, <1>10 DEF IndInv

\* Linking a node behind the last one extends the chain.
LEMMA IndPutLink ==
  ASSUME NEW p \in Producers, IndInv, PutLink(p)
  PROVE  IndInv'
<1> USE QueueAssumption DEF IndInv, PutLink, At, Goto, Threads
<1> DEFINE n == node[p]
<1>a. lock = p /\ n \in Nodes /\ HeldBy(p) /\ n \notin Queued
  BY DEF Mutex, Critical, Hands, HeldBy, TypeOK, Pointers, OneOwner
<1>b. Linked = contents /\ Linked' = Append(contents, n)
  BY <1>a DEF Linked, LockAt, TypeOK
<1>c. contents \in Seq(Nodes) /\ \A i \in 1..Len(contents) : contents[i] # n
  BY <1>a DEF Queued, TypeOK
<1>d. /\ Len(Linked') = Len(contents) + 1
      /\ \A i \in 1..Len(contents) : Linked'[i] = contents[i]
      /\ Linked'[Len(contents) + 1] = n
  BY <1>a, <1>b, <1>c
<1>e. /\ contents = <<>> => last = NULL /\ top = NULL
      /\ contents # <<>> => last = contents[Len(contents)] /\ top # NULL
                              /\ top = contents[1]
  BY <1>a, <1>b, <1>c DEF LastOf, LockAt, Chain
<1>f. next[n] = NULL /\ prev[n] = NULL
  BY DEF Fresh
<1>1. TypeOK'
  BY <1>a DEF TypeOK, PutPoints, Pointers
<1>2. Mutex'
  BY DEF Mutex, TypeOK, Critical
<1>3. Hands'
  BY DEF Hands, TypeOK, PutPoints, GetPoints
<1>4. (count = Len(contents))'
  BY DEF TypeOK
<1>5. Chain(Linked)'
  <2>1. top' = Linked'[1] /\ Linked' # <<>>
    BY <1>b, <1>c, <1>d, <1>e
  <2>2. \A i \in 1..Len(contents) : i # Len(contents) =>
           next'[contents[i]] = contents[i + 1]
    <3> SUFFICES ASSUME NEW i \in 1..Len(contents), i # Len(contents)
                 PROVE  next'[contents[i]] = contents[i + 1]
      OBVIOUS
    <3>1. contents[i] # last
      BY <1>c, <1>e DEF OneOwner
    <3> QED
      BY <1>b, <1>c, <3>1 DEF Chain, TypeOK
  <2>3. contents # <<>> => next'[contents[Len(contents)]] = n
    BY <1>c, <1>e DEF TypeOK
  <2>4. next'[n] = NULL
    BY <1>a, <1>c, <1>e, <1>f DEF TypeOK
  <2>5. \A i \in 1..Len(contents) :
           prev'[contents[i]] = IF i = 1 THEN NULL ELSE contents[i - 1]
    BY <1>a, <1>b, <1>c DEF Chain, TypeOK
  <2>6. prev'[n] = IF contents = <<>> THEN NULL ELSE contents[Len(contents)]
    BY <1>a, <1>e DEF TypeOK
  <2> DEFINE s == Append(contents, n)
  <2>7. s \in Seq(Nodes) /\ s = Linked'
    BY <1>a, <1>b, <1>c
  <2>8. ASSUME NEW i \in 1..Len(s)
        PROVE  /\ next'[s[i]] = IF i = Len(s) THEN NULL ELSE s[i + 1]
               /\ prev'[s[i]] = IF i = 1 THEN NULL ELSE s[i - 1]
    <3>1. CASE i = Len(contents) + 1
      BY <1>b, <1>c, <1>d, <2>4, <2>6, <3>1
    <3>2. CASE i = Len(contents)
      BY <1>b, <1>c, <1>d, <2>3, <2>5, <3>2
    <3>3. CASE i < Len(contents)
      BY <1>b, <1>c, <1>d, <2>2, <2>5, <3>3
    <3>4. i \in Nat /\ Len(contents) \in Nat /\ i <= Len(contents) + 1
      BY <1>b, <1>c, <1>d
    <3> HIDE DEF s
    <3> QED
      BY <3>1, <3>2, <3>3, <3>4
  <2> QED
    BY <2>1, <2>7, <2>8 DEF Chain
<1>6. LastOf(Linked)'
  BY <1>b, <1>c, <1>d DEF LastOf, TypeOK
<1>7. Fresh'
  <2> SUFFICES ASSUME NEW r \in Producers, pc'[r] \in {"put_lock", "put_link"}
               PROVE  next'[node'[r]] = NULL /\ prev'[node'[r]] = NULL
    BY DEF Fresh
  <2>1. r # p /\ pc[r] \in {"put_lock", "put_link"} /\ node'[r] = node[r]
    BY DEF TypeOK
  <2>2. HeldBy(r) /\ node[r] \in Nodes /\ node[r] # n /\ node[r] \notin Queued
    BY <1>a, <2>1 DEF Hands, HeldBy, TypeOK, Pointers, OneOwner
  <2>3. node[r] # last
    <3>1. contents # <<>> => contents[Len(contents)] \in Queued
      BY <1>c DEF Queued
    <3> QED
      BY <1>e, <2>2, <3>1
  <2> QED
    BY <2>1, <2>2, <2>3 DEF Fresh, TypeOK
<1>8. Taken'
  BY DEF Taken, TypeOK, Hands, Mutex, Critical
<1>9. Members'
  BY DEF Members, TypeOK, LockAt, Mutex, Critical, Queued
<1>10. OneOwner'
  BY DEF OneOwner, HeldBy, Queued, TypeOK, Hands, Mutex, Critical
<1> QED
  BY <1>1, <1>2, <1>3, <1>4, <1>5, <1>6, <1>7, <1>8, <1>9, <1>10 DEF IndInv

\* Counting the linked node makes it part of the contents.
LEMMA IndPutCount ==
  ASSUME NEW p \in Producers, IndInv, PutCount(p)
  PROVE  IndInv'
<1> USE QueueAssumption DEF IndInv, PutCount, At, Goto, Threads
<1> DEFINE n == node[p]
<1>a. lock = p /\ n \in Nodes /\ HeldBy(p) /\ n \notin Queued
  BY DEF Mutex, Critical, Hands, HeldBy, TypeOK, Pointers, OneOwner
<1>b. contents \in Seq(Nodes) /\ contents' \in Seq(Nodes)
  BY <1>a DEF TypeOK
<1>c. Queued' = Queued \cup {n}
  BY <1>a, <1>b DEF Queued
<1>1. TypeOK'
  BY <1>a, <1>b DEF TypeOK, PutPoints, Pointers
<1>2. Mutex'
  BY DEF Mutex, TypeOK, Critical
<1>3. Hands'
  BY DEF Hands, TypeOK, PutPoints, GetPoints
<1>4. (count = Len(contents))'
  BY DEF TypeOK
<1>5. Chain(Linked)'
  <2>1. Linked' = Linked
    BY DEF Linked, LockAt, TypeOK, Mutex, Critical
  <2> QED
    BY <2>1 DEF Chain
<1>6. LastOf(Linked)'
  BY DEF LastOf, Linked, LockAt, TypeOK, Mutex, Critical
<1>7. Fresh'
  BY DEF Fresh, TypeOK, Hands
<1>8. Taken'
  BY DEF Taken, TypeOK, Hands, Mutex, Critical
<1>9. Members'
  <2>1. LockAt("put_count") /\ ~LockAt("put_count")' /\ ~LockAt("get_clear")'
    BY <1>a DEF LockAt, TypeOK
  <2> QED
    BY <1>a, <1>c, <2>1 DEF Members
<1>10. OneOwner'
  <2>1. /\ \A t \in Threads \ {p} : node'[t] = node[t] /\ (HeldBy(t)' <=> HeldBy(t))
        /\ node'[p] = NULL /\ ~HeldBy(p)'
    BY DEF HeldBy, TypeOK
  <2>2. heap' = Queued' \cup {node'[t] : t \in {u \in Threads : HeldBy(u)'}}
    BY <1>a, <1>c, <2>1 DEF OneOwner
  <2>3. \A i, j \in 1..Len(contents') : contents'[i] = contents'[j] => i = j
    <3>1. \A i \in 1..Len(contents) : contents[i] # n
      BY <1>a, <1>b DEF Queued
    <3> QED
      BY <1>a, <1>b, <3>1 DEF OneOwner
  <2>4. \A t \in Threads : HeldBy(t)' => node'[t] \notin Queued'
    BY <1>a, <1>c, <2>1 DEF OneOwner, HeldBy
  <2>5. \A t, u \in Threads : node'[t] # NULL /\ node'[t] = node'[u] => t = u
    BY <2>1 DEF OneOwner
  <2> QED
    BY <1>b, <2>2, <2>3, <2>4, <2>5 DEF OneOwner, HeldBy
<1> QED
  BY <1>1, <1>2, <1>3, <1>4, <1>5, <1>6, <1>7, <1>8, <1>9, <1>10 DEF IndInv

\* Releasing the mutex changes no link.
LEMMA IndPutUnlock ==
  ASSUME NEW p \in Producers, IndInv, PutUnlock(p)
  PROVE  IndInv'
<1> USE QueueAssumption DEF IndInv, PutUnlock, At, Goto, Unlock, listVars, Threads
<1>1. TypeOK'
  BY DEF TypeOK, PutPoints, GetPoints, Pointers
<1>2. Mutex'
  BY DEF Mutex, TypeOK, Critical
<1>3. Hands'
  BY DEF Hands, TypeOK, PutPoints, GetPoints
<1>4. (count = Len(contents))'
  BY DEF TypeOK
<1>5. Chain(Linked)'
  <2>1. Linked' = Linked
    BY DEF Linked, LockAt, TypeOK, Mutex, Critical
  <2> QED
    BY <2>1 DEF Chain
<1>6. LastOf(Linked)'
  BY DEF LastOf, Linked, LockAt, TypeOK, Mutex, Critical
<1>7. Fresh'
  BY DEF Fresh, TypeOK, Hands
<1>8. Taken'
  BY DEF Taken, TypeOK, Hands, Mutex, Critical
<1>9. Members'
  BY DEF Members, TypeOK, LockAt, Mutex, Critical, Queued
<1>10. OneOwner'
  BY DEF OneOwner, HeldBy, Queued, TypeOK, Hands, Mutex, Critical
<1> QED
  BY <1>1, <1>2, <1>3, <1>4, <1>5, <1>6, <1>7, <1>8, <1>9, <1>10 DEF IndInv

\* Reading _count changes nothing of the queue.
LEMMA IndGetTest ==
  ASSUME NEW c \in Consumers, IndInv, GetTest(c)
  PROVE  IndInv'
<1> USE QueueAssumption DEF IndInv, GetTest, At, Goto, GiveNothing, listVars, Threads
<1>1. TypeOK'
  BY DEF TypeOK, PutPoints, GetPoints, Pointers
<1>2. Mutex'
  BY DEF Mutex, TypeOK, Critical
<1>3. Hands'
  BY DEF Hands, TypeOK, PutPoints, GetPoints
<1>4. (count = Len(contents))'
  BY DEF TypeOK
<1>5. Chain(Linked)'
  <2>1. Linked' = Linked
    BY DEF Linked, LockAt, TypeOK, Mutex, Critical
  <2> QED
    BY <2>1 DEF Chain
<1>6. LastOf(Linked)'
  BY DEF LastOf, Linked, LockAt, TypeOK, Mutex, Critical
<1>7. Fresh'
  BY DEF Fresh, TypeOK, Hands
<1>8. Taken'
  BY DEF Taken, TypeOK, Hands, Mutex, Critical
<1>9. Members'
  BY DEF Members, TypeOK, LockAt, Mutex, Critical, Queued
<1>10. OneOwner'
  BY DEF OneOwner, HeldBy, Queued, TypeOK, Hands, Mutex, Critical
<1> QED
  BY <1>1, <1>2, <1>3, <1>4, <1>5, <1>6, <1>7, <1>8, <1>9, <1>10 DEF IndInv

\* Taking the mutex, or giving up on it, changes no link.
LEMMA IndGetLock ==
  ASSUME NEW c \in Consumers, IndInv, GetLock(c)
  PROVE  IndInv'
<1> USE QueueAssumption DEF IndInv, GetLock, At, Goto, Lock, GiveNothing, listVars, Threads
<1>1. TypeOK'
  BY DEF TypeOK, PutPoints, GetPoints, Pointers
<1>2. Mutex'
  BY DEF Mutex, TypeOK, Critical
<1>3. Hands'
  BY DEF Hands, TypeOK, PutPoints, GetPoints
<1>4. (count = Len(contents))'
  BY DEF TypeOK
<1>5. Chain(Linked)'
  <2>1. Linked' = Linked
    BY DEF Linked, LockAt, Mutex, Critical, TypeOK
  <2> QED
    BY <2>1 DEF Chain
<1>6. LastOf(Linked)'
  <2>1. Linked' = Linked
    BY DEF Linked, LockAt, Mutex, Critical, TypeOK
  <2>2. \/ ~LockAt("get_count") /\ ~LockAt("get_clear")
        \/ UNCHANGED <<lock, pc[lock]>>
    BY DEF LockAt, TypeOK, Mutex, Critical
  <2> QED
    BY <2>1, <2>2 DEF LastOf, LockAt
<1>7. Fresh'
  BY DEF Fresh, TypeOK, Hands
<1>8. Taken'
  BY DEF Taken, TypeOK, Hands, Mutex, Critical
<1>9. Members'
  BY DEF Members, TypeOK, LockAt, Mutex, Critical, Queued
<1>10. OneOwner'
  BY DEF OneOwner, HeldBy, Queued, TypeOK, Hands, Mutex, Critical
<1> QED
  BY <1>1, <1>2, <1>3, <1>4, <1>5, <1>6, <1>7, <1>8, <1>9, <1>10 DEF IndInv

\* An empty queue is left alone.
LEMMA IndGetNone ==
  ASSUME NEW c \in Consumers, IndInv, GetNone(c)
  PROVE  IndInv'
<1> USE QueueAssumption DEF IndInv, GetNone, At, Goto, Unlock, GiveNothing, listVars, Threads
<1>1. TypeOK'
  BY DEF TypeOK, PutPoints, GetPoints, Pointers
<1>2. Mutex'
  BY DEF Mutex, TypeOK, Critical
<1>3. Hands'
  BY DEF Hands, TypeOK, PutPoints, GetPoints
<1>4. (count = Len(contents))'
  BY DEF TypeOK
<1>5. Chain(Linked)'
  <2>1. Linked' = Linked
    BY DEF Linked, LockAt, TypeOK, Mutex, Critical
  <2> QED
    BY <2>1 DEF Chain
<1>6. LastOf(Linked)'
  BY DEF LastOf, Linked, LockAt, TypeOK, Mutex, Critical
<1>7. Fresh'
  BY DEF Fresh, TypeOK, Hands
<1>8. Taken'
  BY DEF Taken, TypeOK, Hands, Mutex, Critical
<1>9. Members'
  BY DEF Members, TypeOK, LockAt, Mutex, Critical, Queued
<1>10. OneOwner'
  BY DEF OneOwner, HeldBy, Queued, TypeOK, Hands, Mutex, Critical
<1> QED
  BY <1>1, <1>2, <1>3, <1>4, <1>5, <1>6, <1>7, <1>8, <1>9, <1>10 DEF IndInv

\* The node that is taken is the first one.
LEMMA IndGetTake ==
  ASSUME NEW c \in Consumers, IndInv, GetTake(c)
  PROVE  IndInv'
<1> USE QueueAssumption DEF IndInv, GetTake, At, Goto, listVars, Threads
<1>a. lock = c /\ top \in Nodes /\ contents \in Seq(Nodes) /\ node[c] = NULL
  BY DEF Mutex, Critical, TypeOK, Pointers, Hands
<1>b. contents # <<>> /\ top = contents[1]
  <2>1. Linked = contents
    BY <1>a DEF Linked, LockAt
  <2> QED
    BY <1>a, <2>1 DEF Chain
<1>c. top \in Queued
  BY <1>a, <1>b DEF Queued
<1>1. TypeOK'
  BY DEF TypeOK, PutPoints, GetPoints, Pointers
<1>2. Mutex'
  BY DEF Mutex, TypeOK, Critical
<1>3. Hands'
  BY DEF Hands, TypeOK, PutPoints, GetPoints
<1>4. (count = Len(contents))'
  BY DEF TypeOK
<1>5. Chain(Linked)'
  <2>1. Linked' = Linked
    BY DEF Linked, LockAt, TypeOK, Mutex, Critical
  <2> QED
    BY <2>1 DEF Chain
<1>6. LastOf(Linked)'
  BY DEF LastOf, Linked, LockAt, TypeOK, Mutex, Critical
<1>7. Fresh'
  BY DEF Fresh, TypeOK, Hands
<1>8. Taken'
  BY <1>a, <1>b DEF Taken, TypeOK
<1>9. Members'
  BY DEF Members, TypeOK, LockAt, Mutex, Critical, Queued
<1>10. OneOwner'
  <2>1. /\ \A t \in Threads \ {c} : node'[t] = node[t] /\ (HeldBy(t)' <=> HeldBy(t))
        /\ node'[c] = top /\ ~HeldBy(c)' /\ ~HeldBy(c) /\ Queued' = Queued
    BY <1>a DEF HeldBy, TypeOK, Queued
  <2>2. \A t \in Threads : node[t] # top
    <3> SUFFICES ASSUME NEW t \in Threads, node[t] = top PROVE FALSE
      OBVIOUS
    <3>1. ~HeldBy(t) /\ node[t] # NULL
      BY <1>a, <1>c DEF OneOwner
    <3>2. pc[t] \in {"get_unlink", "get_count"}
      BY <3>1 DEF HeldBy
    <3>3. lock = t
      BY <3>2 DEF Mutex, Critical
    <3> QED
      BY <1>a, <3>2, <3>3
  <2>3. heap' = Queued' \cup {node'[t] : t \in {u \in Threads : HeldBy(u)'}}
    BY <2>1 DEF OneOwner
  <2>4. \A t \in Threads : HeldBy(t)' => node'[t] \notin Queued'
    BY <2>1 DEF OneOwner
  <2>5. \A t, u \in Threads : node'[t] # NULL /\ node'[t] = node'[u] => t = u
    BY <2>1, <2>2 DEF OneOwner
  <2> QED
    BY <2>3, <2>4, <2>5 DEF OneOwner, HeldBy
<1> QED
  BY <1>1, <1>2, <1>3, <1>4, <1>5, <1>6, <1>7, <1>8, <1>9, <1>10 DEF IndInv

\* Unlinking the first node leaves the chain of the others.
LEMMA IndGetUnlink ==
  ASSUME NEW c \in Consumers, IndInv, GetUnlink(c)
  PROVE  IndInv'
<1> USE QueueAssumption DEF IndInv, GetUnlink, At, Goto, Threads
<1> DEFINE n == node[c]
<1> DEFINE s == contents
<1>a. lock = c /\ n \in Nodes /\ s \in Seq(Nodes) /\ s # <<>> /\ n = s[1]
  BY DEF Mutex, Critical, TypeOK, Pointers, Hands, Taken
<1>b. Linked = s /\ Linked' = Tail(s)
  BY <1>a DEF Linked, LockAt, TypeOK
<1>c. /\ Tail(s) \in Seq(Nodes) /\ Len(Tail(s)) = Len(s) - 1
      /\ \A i \in 1..Len(Tail(s)) : Tail(s)[i] = s[i + 1]
  BY <1>a
<1>d. next[n] = IF Len(s) = 1 THEN NULL ELSE s[2]
  BY <1>a, <1>b DEF Chain
<1>e. \A i, j \in 1..Len(s) : s[i] = s[j] => i = j
  BY <1>a DEF OneOwner
<1>1. TypeOK'
  BY <1>a DEF TypeOK, GetPoints, Pointers
<1>2. Mutex'
  BY DEF Mutex, TypeOK, Critical
<1>3. Hands'
  BY DEF Hands, TypeOK, PutPoints, GetPoints
<1>4. (count = Len(contents))'
  BY DEF TypeOK
<1>5. Chain(Linked)'
  <2>1. top' = IF Tail(s) = <<>> THEN NULL ELSE Tail(s)[1]
    BY <1>a, <1>c, <1>d
  <2>2. ASSUME NEW i \in 2..Len(s)
        PROVE  /\ next'[s[i]] = IF i = Len(s) THEN NULL ELSE s[i + 1]
               /\ prev'[s[i]] = IF i = 2 THEN NULL ELSE s[i - 1]
    <3>1. s[i] # n /\ s[i] \in Nodes /\ i \in 1..Len(s) /\ 2 \in 1..Len(s)
      BY <1>a, <1>e
    <3>2. next'[s[i]] = next[s[i]]
      BY <3>1 DEF TypeOK
    <3>3. i = 2 => prev'[s[i]] = NULL
      BY <1>a, <1>d, <3>1 DEF TypeOK
    <3>4. i # 2 => prev'[s[i]] = prev[s[i]]
      BY <1>a, <1>d, <1>e, <3>1 DEF TypeOK
    <3> QED
      BY <1>a, <1>b, <3>1, <3>2, <3>3, <3>4 DEF Chain
  <2>3. ASSUME NEW i \in 1..Len(Tail(s))
        PROVE  /\ next'[Tail(s)[i]] =
                     IF i = Len(Tail(s)) THEN NULL ELSE Tail(s)[i + 1]
               /\ prev'[Tail(s)[i]] = IF i = 1 THEN NULL ELSE Tail(s)[i - 1]
    <3>1. i + 1 \in 2..Len(s) /\ Tail(s)[i] = s[i + 1]
      BY <1>a, <1>c
    <3>2. i # Len(Tail(s)) => Tail(s)[i + 1] = s[i + 2]
      BY <1>a, <1>c
    <3>3. i # 1 => Tail(s)[i - 1] = s[i]
      BY <1>a, <1>c
    <3> QED
      BY <1>a, <1>c, <2>2, <3>1, <3>2, <3>3
  <2> DEFINE u == Tail(s)
  <2>4. /\ top' = IF u = <<>> THEN NULL ELSE u[1]
        /\ \A i \in 1..Len(u) :
              /\ next'[u[i]] = IF i = Len(u) THEN NULL ELSE u[i + 1]
              /\ prev'[u[i]] = IF i = 1 THEN NULL ELSE u[i - 1]
    BY <2>1, <2>3
  <2>5. u = Linked'
    BY <1>b
  <2> HIDE DEF u
  <2> QED
    BY <2>4, <2>5 DEF Chain
<1>6. LastOf(Linked)'
  <2>1. Linked = s /\ Linked' = Tail(s) /\ last' = last
    BY <1>b
  <2>2. Tail(s) # <<>> => Tail(s)[Len(Tail(s))] = s[Len(s)]
    BY <1>a, <1>c
  <2>3. LockAt("get_count")'
    BY <1>a DEF LockAt, TypeOK
  <2> QED
    BY <1>a, <2>1, <2>2, <2>3 DEF LastOf
<1>7. Fresh'
  <2> SUFFICES ASSUME NEW r \in Producers, pc'[r] \in {"put_lock", "put_link"}
               PROVE  next'[node'[r]] = NULL /\ prev'[node'[r]] = NULL
    BY DEF Fresh
  <2>1. pc[r] \in {"put_lock", "put_link"} /\ node'[r] = node[r]
    BY DEF TypeOK
  <2>2. node[r] \in Nodes
    BY <2>1 DEF Hands, TypeOK, Pointers
  <2> QED
    BY <1>a, <2>1, <2>2 DEF Fresh, TypeOK
<1>8. Taken'
  BY DEF Taken, TypeOK, Hands, Mutex, Critical
<1>9. Members'
  BY DEF Members, TypeOK, LockAt, Mutex, Critical, Queued
<1>10. OneOwner'
  BY DEF OneOwner, HeldBy, Queued, TypeOK, Hands, Mutex, Critical
<1> QED
  BY <1>1, <1>2, <1>3, <1>4, <1>5, <1>6, <1>7, <1>8, <1>9, <1>10 DEF IndInv

\* Counting down makes the contents what is linked.
LEMMA IndGetCount ==
  ASSUME NEW c \in Consumers, IndInv, GetCount(c)
  PROVE  IndInv'
<1> USE QueueAssumption DEF IndInv, GetCount, At, Goto, Threads
<1> DEFINE n == node[c]
<1> DEFINE s == contents
<1>a. lock = c /\ n \in Nodes /\ s \in Seq(Nodes) /\ s # <<>> /\ n = s[1]
  BY DEF Mutex, Critical, TypeOK, Pointers, Hands, Taken
<1>b. /\ Tail(s) \in Seq(Nodes) /\ Len(Tail(s)) = Len(s) - 1
      /\ \A i \in 1..Len(Tail(s)) : Tail(s)[i] = s[i + 1]
  BY <1>a
<1>c. Linked = Tail(s) /\ Linked' = Tail(s)
  BY <1>a DEF Linked, LockAt, TypeOK
<1>d. \A i, j \in 1..Len(s) : s[i] = s[j] => i = j
  BY <1>a DEF OneOwner
<1>e. n \in Queued /\ Queued' = Queued \ {n}
  <2>1. n \in Queued
    BY <1>a DEF Queued
  <2>2. \A x : x \in Queued <=> \E i \in 1..Len(s) : x = s[i]
    BY <1>a DEF Queued
  <2>3. \A x : x \in Queued' <=> \E i \in 1..Len(Tail(s)) : x = Tail(s)[i]
    <3>1. contents' = Tail(s) /\ DOMAIN Tail(s) = 1..Len(Tail(s))
      BY <1>b
    <3> QED
      BY <3>1 DEF Queued
  <2>4. ASSUME NEW i \in 1..Len(s), s[i] # n
        PROVE  i - 1 \in 1..Len(Tail(s)) /\ Tail(s)[i - 1] = s[i]
    BY <1>a, <1>b, <2>4
  <2>5. ASSUME NEW i \in 1..Len(Tail(s))
        PROVE  i + 1 \in 1..Len(s) /\ Tail(s)[i] = s[i + 1] /\ s[i + 1] # n
    BY <1>a, <1>b, <1>d
  <2>6. \A x : x \in Queued' <=> x \in Queued /\ x # n
    <3>1. ASSUME NEW x, x \in Queued' PROVE x \in Queued /\ x # n
      BY <2>2, <2>3, <2>5, <3>1
    <3>2. ASSUME NEW x, x \in Queued, x # n PROVE x \in Queued'
      <4>1. PICK i \in 1..Len(s) : x = s[i]
        BY <2>2, <3>2
      <4>2. i - 1 \in 1..Len(Tail(s)) /\ x = Tail(s)[i - 1]
        BY <2>4, <3>2, <4>1
      <4> QED
        BY <2>3, <4>2
    <3> QED
      BY <3>1, <3>2
  <2> QED
    BY <2>1, <2>6
<1>1. TypeOK'
  <2>1. count' \in Nat
    BY <1>a DEF TypeOK
  <2>2. result' \in [Consumers -> Items \cup {NULL}]
    BY <1>a DEF TypeOK
  <2> QED
    BY <1>b, <2>1, <2>2 DEF TypeOK, GetPoints
<1>2. Mutex'
  BY DEF Mutex, TypeOK, Critical
<1>3. Hands'
  BY DEF Hands, TypeOK, PutPoints, GetPoints
<1>4. (count = Len(contents))'
  BY <1>b
<1>5. Chain(Linked)'
  BY <1>c DEF Chain
<1>6. LastOf(Linked)'
  BY DEF LastOf, Linked, LockAt, TypeOK, Mutex, Critical
<1>7. Fresh'
  BY DEF Fresh, TypeOK, Hands
<1>8. Taken'
  BY DEF Taken, TypeOK, Hands, Mutex, Critical
<1>9. Members'
  <2>1. /\ LockAt("get_clear")'
        /\ ~LockAt("put_count") /\ ~LockAt("get_clear")
    BY <1>a DEF LockAt, TypeOK
  <2> QED
    BY <1>a, <1>e, <2>1 DEF Members
<1>10. OneOwner'
  <2>1. /\ \A t \in Threads \ {c} : HeldBy(t)' <=> HeldBy(t)
        /\ HeldBy(c)' /\ ~HeldBy(c)
    BY <1>a DEF HeldBy, TypeOK
  <2>2. heap' = Queued' \cup {node'[t] : t \in {u \in Threads : HeldBy(u)'}}
    BY <1>e, <2>1 DEF OneOwner
  <2>3. \A i, j \in 1..Len(contents') : contents'[i] = contents'[j] => i = j
    BY <1>a, <1>b, <1>d
  <2>4. \A t \in Threads : HeldBy(t)' => node'[t] \notin Queued'
    BY <1>e, <2>1 DEF OneOwner
  <2> QED
    BY <1>b, <2>2, <2>3, <2>4 DEF OneOwner, HeldBy
<1> QED
  BY <1>1, <1>2, <1>3, <1>4, <1>5, <1>6, <1>7, <1>8, <1>9, <1>10 DEF IndInv

\* Clearing _last repairs the list that became empty.
LEMMA IndGetClear ==
  ASSUME NEW c \in Consumers, IndInv, GetClear(c)
  PROVE  IndInv'
<1> USE QueueAssumption DEF IndInv, GetClear, At, Goto, Unlock, Threads
<1>1. TypeOK'
  BY DEF TypeOK, PutPoints, GetPoints, Pointers
<1>2. Mutex'
  BY DEF Mutex, TypeOK, Critical
<1>3. Hands'
  BY DEF Hands, TypeOK, PutPoints, GetPoints
<1>4. (count = Len(contents))'
  BY DEF TypeOK
<1>5. Chain(Linked)'
  <2>1. Linked' = Linked
    BY DEF Linked, LockAt, TypeOK, Mutex, Critical
  <2>2. Linked = contents
    BY DEF Linked, LockAt, TypeOK, Mutex, Critical
  <2>3. count = 0 => top = NULL
    <3>1. count = Len(contents) /\ contents \in Seq(Nodes)
      BY DEF TypeOK
    <3>2. count = 0 => Linked = <<>>
      BY <2>2, <3>1, EmptySeq
    <3> QED
      BY <3>2 DEF Chain
  <2> QED
    BY <2>1, <2>3 DEF Chain
<1>6. LastOf(Linked)'
  <2>1. Linked = contents /\ Linked' = contents
    BY DEF Linked, LockAt, TypeOK, Mutex, Critical
  <2>2. count = Len(contents) /\ contents \in Seq(Nodes)
    BY DEF TypeOK
  <2>3. CASE count = 0
    <3>1. contents = <<>> /\ last' = NULL
      BY <2>2, <2>3, EmptySeq
    <3> QED
      BY <2>1, <3>1 DEF LastOf
  <2>4. CASE count # 0
    <3>1. contents # <<>> /\ last' = last
      BY <2>2, <2>4
    <3> QED
      BY <2>1, <3>1 DEF LastOf
  <2> QED
    BY <2>3, <2>4
<1>7. Fresh'
  BY DEF Fresh, TypeOK, Hands
<1>8. Taken'
  BY DEF Taken, TypeOK, Hands, Mutex, Critical
<1>9. Members'
  <2>1. lock = c /\ LockAt("get_clear") /\ ~LockAt("put_count")
    BY DEF Mutex, Critical, LockAt, TypeOK
  <2>2. HeldBy(c) /\ node[c] \notin Queued /\ Queued' = Queued
    BY DEF Hands, HeldBy, OneOwner, Queued
  <2>3. ~LockAt("get_clear")' /\ ~LockAt("put_count")'
    BY DEF LockAt
  <2> QED
    BY <2>1, <2>2, <2>3 DEF Members
<1>10. OneOwner'
  BY DEF OneOwner, HeldBy, Queued, TypeOK, Hands, Mutex, Critical
<1> QED
  BY <1>1, <1>2, <1>3, <1>4, <1>5, <1>6, <1>7, <1>8, <1>9, <1>10 DEF IndInv

\* The node that is freed is not linked.
LEMMA IndGetFree ==
  ASSUME NEW c \in Consumers, IndInv, GetFree(c)
  PROVE  IndInv'
<1> USE QueueAssumption DEF IndInv, GetFree, At, Goto, listVars, Threads
<1>1. TypeOK'
  BY DEF TypeOK, PutPoints, GetPoints, Pointers
<1>2. Mutex'
  BY DEF Mutex, TypeOK, Critical
<1>3. Hands'
  BY DEF Hands, TypeOK, PutPoints, GetPoints
<1>4. (count = Len(contents))'
  BY DEF TypeOK
<1>5. Chain(Linked)'
  <2>1. Linked' = Linked
    BY DEF Linked, LockAt, TypeOK, Mutex, Critical
  <2> QED
    BY <2>1 DEF Chain
<1>6. LastOf(Linked)'
  BY DEF LastOf, Linked, LockAt, TypeOK, Mutex, Critical
<1>7. Fresh'
  BY DEF Fresh, TypeOK, Hands
<1>8. Taken'
  BY DEF Taken, TypeOK, Hands, Mutex, Critical
<1>9. Members'
  BY DEF Members, TypeOK, LockAt, Mutex, Critical, Queued
<1>10. OneOwner'
  BY DEF OneOwner, HeldBy, Queued, TypeOK, Hands, Mutex, Critical
<1> QED
  BY <1>1, <1>2, <1>3, <1>4, <1>5, <1>6, <1>7, <1>8, <1>9, <1>10 DEF IndInv

\* Every step, and every stuttering step, preserves the invariant.
LEMMA IndStep == IndInv /\ [Next]_vars => IndInv'
<1> SUFFICES ASSUME IndInv, [Next]_vars PROVE IndInv'
  OBVIOUS
<1>1. ASSUME NEW p \in Producers, SQPut(p) PROVE IndInv'
  BY <1>1, IndPut, IndPutLock, IndPutLink, IndPutCount, IndPutUnlock DEF SQPut
<1>2. ASSUME NEW c \in Consumers, SQGet(c) PROVE IndInv'
  BY <1>2, IndGetTest, IndGetLock, IndGetNone, IndGetTake, IndGetUnlink,
     IndGetCount, IndGetClear, IndGetFree DEF SQGet
<1>3. CASE UNCHANGED vars
  <2> USE <1>3 DEF vars, listVars
  <2>1. TypeOK' /\ Mutex' /\ Hands' /\ Fresh' /\ Taken' /\ Members'
    BY DEF IndInv, TypeOK, Mutex, Hands, Fresh, Taken, Members, LockAt, Queued
  <2>2. (count = Len(contents))' /\ Chain(Linked)' /\ LastOf(Linked)'
    <3>1. Linked' = Linked
      BY DEF Linked, LockAt
    <3> QED
      BY <3>1 DEF IndInv, Chain, LastOf, LockAt
  <2>3. OneOwner'
    BY DEF IndInv, OneOwner, HeldBy, Queued
  <2> QED
    BY <2>1, <2>2, <2>3 DEF IndInv
<1> QED
  BY <1>1, <1>2, <1>3 DEF Next

\* The invariant holds in every reachable state.
LEMMA Inductive == Spec => []IndInv
  BY IndInit, IndStep, PTL DEF Spec

\* The queue's variables keep their types, whatever SQPut and SQGet of any
\* number of threads do.
THEOREM QueueTypeCorrect == Spec => []TypeOK
<1>1. IndInv => TypeOK
  BY DEF IndInv
<1> QED
  BY <1>1, Inductive, PTL

\* Whenever the mutex is free the pointers and the counter describe one list
\* (SQPut and SQGet repair every link they break before they unlock).
THEOREM ListStaysIntact == Spec => []ListIntact
<1>1. IndInv => ListIntact
  <2> SUFFICES ASSUME IndInv, lock = NULL
               PROVE  /\ count = Len(contents)
                      /\ top = IF contents = <<>> THEN NULL ELSE contents[1]
                      /\ last = IF contents = <<>> THEN NULL
                                                  ELSE contents[Len(contents)]
                      /\ \A i \in DOMAIN contents :
                            /\ next[contents[i]] =
                                 IF i = Len(contents) THEN NULL
                                                      ELSE contents[i + 1]
                            /\ prev[contents[i]] =
                                 IF i = 1 THEN NULL ELSE contents[i - 1]
                      /\ member = Queued
    BY DEF ListIntact
  <2>1. contents \in Seq(Nodes) /\ DOMAIN contents = 1..Len(contents)
    BY DEF IndInv, TypeOK
  <2>2. Linked = contents /\ \A pt : ~LockAt(pt)
    BY DEF Linked, LockAt
  <2>3. Queued \subseteq Nodes /\ member \subseteq Nodes
    BY <2>1 DEF Queued, IndInv, TypeOK
  <2>4. member = Queued
    BY <2>2, <2>3 DEF IndInv, Members
  <2> QED
    BY <2>1, <2>2, <2>4 DEF IndInv, Chain, LastOf
<1> QED
  BY <1>1, Inductive, PTL

\* No node is in the hands of two threads, freed while it is linked or freed
\* twice, and none is lost.
THEOREM NodesHaveOneOwner == Spec => []OneOwner
<1>1. IndInv => OneOwner
  BY DEF IndInv
<1> QED
  BY <1>1, Inductive, PTL

-----------------------------------------------------------------------------
\* The data d of the nodes of a sequence s.
DataOf(s, d) == [i \in DOMAIN s |-> d[s[i]]]

\* They form a sequence of items as long as s.
LEMMA DataOfType ==
  ASSUME NEW s \in Seq(Nodes), NEW d \in [Nodes -> Items]
  PROVE  /\ DataOf(s, d) \in Seq(Items) /\ Len(DataOf(s, d)) = Len(s)
         /\ \A i \in 1..Len(s) : DataOf(s, d)[i] = d[s[i]]
<1>1. DOMAIN s = 1..Len(s) /\ Len(s) \in Nat
  OBVIOUS
<1>2. DataOf(s, d) \in [1..Len(s) -> Items]
  BY <1>1 DEF DataOf
<1>3. DataOf(s, d) \in Seq(Items) /\ Len(DataOf(s, d)) = Len(s)
  BY <1>1, <1>2, SeqDef
<1> QED
  BY <1>1, <1>3 DEF DataOf

\* Putting a node behind the others puts its data behind theirs.
LEMMA DataOfAppend ==
  ASSUME NEW s \in Seq(Nodes), NEW d \in [Nodes -> Items], NEW n \in Nodes
  PROVE  DataOf(Append(s, n), d) = Append(DataOf(s, d), d[n])
<1> DEFINE a == DataOf(Append(s, n), d)
<1> DEFINE b == DataOf(s, d)
<1>1. Append(s, n) \in Seq(Nodes)
  OBVIOUS
<1>2. /\ a \in Seq(Items) /\ Len(a) = Len(Append(s, n))
      /\ \A i \in 1..Len(Append(s, n)) : a[i] = d[Append(s, n)[i]]
  BY <1>1, DataOfType
<1>3. /\ b \in Seq(Items) /\ Len(b) = Len(s)
      /\ \A i \in 1..Len(s) : b[i] = d[s[i]]
  BY DataOfType
<1> HIDE DEF a, b
<1>4. a = Append(b, d[n])
  BY <1>1, <1>2, <1>3
<1> QED
  BY <1>4 DEF a, b

\* Taking the first node takes the first item.
LEMMA DataOfTail ==
  ASSUME NEW s \in Seq(Nodes), NEW d \in [Nodes -> Items], s # <<>>
  PROVE  /\ DataOf(s, d) # <<>> /\ Head(DataOf(s, d)) = d[s[1]]
         /\ DataOf(Tail(s), d) = Tail(DataOf(s, d))
<1> DEFINE a == DataOf(Tail(s), d)
<1> DEFINE b == DataOf(s, d)
<1>1. Tail(s) \in Seq(Nodes) /\ Len(Tail(s)) = Len(s) - 1 /\ Len(s) >= 1
  OBVIOUS
<1>2. /\ a \in Seq(Items) /\ Len(a) = Len(Tail(s))
      /\ \A i \in 1..Len(Tail(s)) : a[i] = d[Tail(s)[i]]
  BY <1>1, DataOfType
<1>3. /\ b \in Seq(Items) /\ Len(b) = Len(s)
      /\ \A i \in 1..Len(s) : b[i] = d[s[i]]
  BY DataOfType
<1> HIDE DEF a, b
<1>4. b # <<>> /\ Head(b) = d[s[1]]
  BY <1>1, <1>3
<1>5. /\ Tail(b) \in Seq(Items) /\ Len(Tail(b)) = Len(b) - 1
      /\ \A i \in 1..(Len(b) - 1) : Tail(b)[i] = b[i + 1]
  BY <1>3, <1>4
<1>6. \A i \in 1..(Len(s) - 1) : Tail(s)[i] = s[i + 1]
  OBVIOUS
<1>7. \A i \in 1..Len(a) : a[i] = Tail(b)[i]
  BY <1>1, <1>2, <1>3, <1>5, <1>6
<1>8. a = Tail(b)
  BY <1>1, <1>2, <1>3, <1>5, <1>7, SeqEqual
<1> QED
  BY <1>4, <1>8 DEF a, b

\* The refinement mapping: the items in the queue.
ItemsOf == DataOf(contents, data)

\* The steps of Fifo under this mapping.
AbstractPut ==
  \E d \in Items : ItemsOf' = Append(ItemsOf, d) /\ UNCHANGED result

AbstractGet(c) ==
  /\ ItemsOf # <<>>
  /\ result' = [result EXCEPT ![c] = Head(ItemsOf)]
  /\ ItemsOf' = Tail(ItemsOf)

AbstractNothing(c) ==
  /\ ItemsOf = <<>> \/ c \in Timed
  /\ result' = [result EXCEPT ![c] = NULL]
  /\ UNCHANGED ItemsOf

AbstractNext ==
  AbstractPut \/ \E c \in Consumers : AbstractGet(c) \/ AbstractNothing(c)

AbstractStutter == UNCHANGED <<ItemsOf, result>>

\* SQPut takes effect when it counts the node; its other steps do nothing a
\* caller can see.
LEMMA PutImplements ==
  ASSUME NEW p \in Producers, IndInv, SQPut(p)
  PROVE  AbstractPut \/ AbstractStutter
<1>t. data \in [Nodes -> Items] /\ contents \in Seq(Nodes)
  BY DEF IndInv, TypeOK
<1>1. CASE Put(p)
  <2>1. PICK n \in Nodes \ heap, d \in Items : data' = [data EXCEPT ![n] = d]
    BY <1>1 DEF Put
  <2>2. \A i \in DOMAIN contents : contents[i] # n /\ contents[i] \in Nodes
    BY <1>t, <2>1 DEF IndInv, OneOwner, Queued
  <2>3. contents' = contents /\ result' = result
    BY <1>1 DEF Put
  <2>4. ItemsOf' = ItemsOf
    BY <1>t, <2>1, <2>2, <2>3 DEF ItemsOf, DataOf
  <2> QED
    BY <2>3, <2>4 DEF AbstractStutter
<1>2. CASE PutCount(p)
  <2>1. node[p] \in Nodes
    BY <1>2, QueueAssumption
       DEF IndInv, PutCount, At, Hands, TypeOK, Pointers, Threads
  <2>2. ItemsOf' = Append(ItemsOf, data[node[p]])
    BY <1>t, <1>2, <2>1, DataOfAppend DEF PutCount, ItemsOf
  <2> QED
    BY <1>t, <1>2, <2>1, <2>2 DEF PutCount, AbstractPut
<1>3. CASE PutLock(p) \/ PutLink(p) \/ PutUnlock(p)
  BY <1>3 DEF PutLock, PutLink, PutUnlock, AbstractStutter, ItemsOf
<1> QED
  BY <1>1, <1>2, <1>3 DEF SQPut

\* SQGet takes effect when it counts down, or gives nothing: then the queue
\* was empty, or the time for the mutex was up.
LEMMA GetImplements ==
  ASSUME NEW c \in Consumers, IndInv, SQGet(c)
  PROVE  AbstractGet(c) \/ AbstractNothing(c) \/ AbstractStutter
<1>t. data \in [Nodes -> Items] /\ contents \in Seq(Nodes)
      /\ count = Len(contents)
  BY DEF IndInv, TypeOK
<1>e. contents = <<>> => ItemsOf = <<>>
  <2> HAVE contents = <<>>
  <2>1. ItemsOf \in Seq(Items) /\ Len(ItemsOf) = 0
    BY <1>t, DataOfType DEF ItemsOf
  <2> QED
    BY <2>1
<1>1. CASE GetTest(c)
  <2>1. ItemsOf' = ItemsOf
    BY <1>1 DEF GetTest, ItemsOf
  <2>2. CASE count <= 0 /\ GiveNothing(c)
    <3>1. contents = <<>>
      BY <1>t, <2>2
    <3> QED
      BY <1>e, <2>1, <2>2, <3>1 DEF AbstractNothing, GiveNothing
  <2>3. CASE UNCHANGED result
    BY <2>1, <2>3 DEF AbstractStutter
  <2> QED
    BY <1>1, <1>t, <2>2, <2>3 DEF GetTest
<1>2. CASE GetLock(c)
  BY <1>2 DEF GetLock, GiveNothing, AbstractNothing, AbstractStutter, ItemsOf
<1>3. CASE GetNone(c)
  <2>1. lock = c /\ Linked = contents
    BY <1>3, QueueAssumption
       DEF GetNone, At, IndInv, Mutex, Critical, Threads, Linked, LockAt
  <2>2. contents = <<>>
    <3> SUFFICES ASSUME contents # <<>> PROVE FALSE
      OBVIOUS
    <3>1. top = contents[1] /\ contents[1] \in Nodes
      BY <1>t, <2>1 DEF IndInv, Chain
    <3> QED
      BY <1>3, <3>1, QueueAssumption DEF GetNone
  <2> QED
    BY <1>3, <1>e, <2>2 DEF GetNone, GiveNothing, AbstractNothing, ItemsOf
<1>4. CASE GetCount(c)
  <2>1. contents # <<>> /\ node[c] = contents[1]
    BY <1>4 DEF GetCount, At, IndInv, Taken
  <2>2. /\ ItemsOf # <<>> /\ Head(ItemsOf) = data[node[c]]
        /\ ItemsOf' = Tail(ItemsOf)
    BY <1>t, <1>4, <2>1, DataOfTail DEF GetCount, ItemsOf
  <2> QED
    BY <1>4, <2>2 DEF GetCount, AbstractGet
<1>5. CASE GetTake(c) \/ GetUnlink(c) \/ GetClear(c) \/ GetFree(c)
  BY <1>5 DEF GetTake, GetUnlink, GetClear, GetFree, AbstractStutter, ItemsOf
<1> QED
  BY <1>1, <1>2, <1>3, <1>4, <1>5 DEF SQGet

\* SQPut and SQGet of any number of threads are atomic operations on a FIFO
\* queue: every behaviour of SQueue is one of Fifo.
THEOREM QueueImplementsFifo == Spec => ImplementsFifo
<1>1. Init => Abstract!Init
  <2> SUFFICES ASSUME Init PROVE Abstract!Init
    OBVIOUS
  <2>1. contents = <<>> /\ result = [c \in Consumers |-> NULL]
    BY DEF Init
  <2>2. [i \in DOMAIN contents |-> data[contents[i]]] = <<>>
    BY <2>1
  <2> QED
    BY <2>1, <2>2 DEF Abstract!Init
<1>2. IndInv /\ [Next]_vars => [Abstract!Next]_(Abstract!vars)
  <2> SUFFICES ASSUME IndInv, [Next]_vars
               PROVE  [Abstract!Next]_(Abstract!vars)
    OBVIOUS
  <2>1. ASSUME NEW p \in Producers, SQPut(p) PROVE AbstractNext \/ AbstractStutter
    BY <2>1, PutImplements DEF AbstractNext
  <2>2. ASSUME NEW c \in Consumers, SQGet(c) PROVE AbstractNext \/ AbstractStutter
    BY <2>2, GetImplements DEF AbstractNext
  <2>3. ASSUME UNCHANGED vars PROVE AbstractStutter
    BY <2>3 DEF vars, AbstractStutter, ItemsOf
  <2>4. AbstractNext \/ AbstractStutter
    BY <2>1, <2>2, <2>3 DEF Next
  <2>5. AbstractNext => Abstract!Next
    BY DEF AbstractNext, AbstractPut, AbstractGet, AbstractNothing, ItemsOf,
       DataOf, Abstract!Next, Abstract!Put, Abstract!Get, Abstract!GetNothing
  <2>6. AbstractStutter => UNCHANGED Abstract!vars
    BY DEF AbstractStutter, ItemsOf, DataOf, Abstract!vars
  <2> QED
    BY <2>4, <2>5, <2>6
<1> QED
  BY <1>1, <1>2, Inductive, PTL DEF Spec, ImplementsFifo, Abstract!Spec

-----------------------------------------------------------------------------
(***************************************************************************)
(* DeleteSQueue.                                                           *)
(***************************************************************************)
\* Only the deleter is still inside a call.  What its last SQGet gave tells
\* whether the queue is empty.
Alone == \A t \in Threads : t # Deleter => At(t, "idle")

IndDelete ==
  /\ IndInv
  /\ queue \in QueueStates
  /\ queue # "live" => Alone
  /\ queue \in {"got", "freed"} => At(Deleter, "idle")
  /\ queue = "get" /\ pc[Deleter] \in {"get_clear", "get_free"}
        => result[Deleter] # NULL
  /\ queue = "got" /\ result[Deleter] = NULL => count = 0
  /\ queue = "freed" => count = 0

\* A step of SQGet changes nothing of the other threads.
LEMMA GetIsLocal ==
  ASSUME NEW c \in Consumers, SQGet(c),
         pc \in [Threads -> PutPoints \cup GetPoints]
  PROVE  \A t \in Threads : t # c => pc'[t] = pc[t]
  BY DEF SQGet, GetTest, GetLock, GetNone, GetTake, GetUnlink, GetCount,
     GetClear, GetFree, GiveNothing, Goto

\* A call of SQGet without a time limit gives nothing only when the queue is
\* empty.
LEMMA NothingMeansEmpty ==
  ASSUME NEW c \in Consumers \ Timed, IndInv, SQGet(c), pc'[c] = "idle",
         pc[c] \in {"get_clear", "get_free"} => result[c] # NULL
  PROVE  result'[c] = NULL => count' = 0
<1> USE QueueAssumption DEF Threads
<1>t. TypeOK
  BY DEF IndInv
<1>p. pc \in [Threads -> PutPoints \cup GetPoints] /\ c \in Threads
  BY <1>t DEF TypeOK
<1>1. CASE GetTest(c)
  <2>1. count \in Nat
    BY <1>t DEF TypeOK
  <2>2. count' = count
    BY <1>1 DEF GetTest, listVars
  <2>3. CASE count <= 0
    BY <2>1, <2>2, <2>3
  <2>4. CASE count > 0
    BY <1>1, <1>p, <2>1, <2>4 DEF GetTest, Goto, At
  <2> QED
    BY <2>1, <2>3, <2>4
<1>2. CASE GetNone(c)
  <2>1. lock = c /\ Linked = contents
    BY <1>2 DEF GetNone, At, IndInv, Mutex, Critical, Linked, LockAt
  <2>2. contents = <<>>
    <3> SUFFICES ASSUME contents # <<>> PROVE FALSE
      OBVIOUS
    <3>1. top = contents[1] /\ contents[1] \in Nodes
      BY <1>t, <2>1 DEF IndInv, Chain, TypeOK
    <3> QED
      BY <1>2, <3>1 DEF GetNone
  <2> QED
    BY <1>2, <2>2 DEF GetNone, listVars, IndInv
<1>3. CASE GetLock(c)
  BY <1>3, <1>p DEF GetLock, Goto, GiveNothing
<1>4. CASE GetTake(c) \/ GetUnlink(c) \/ GetCount(c) \/ GetClear(c)
  BY <1>4, <1>p DEF GetTake, GetUnlink, GetCount, GetClear, Goto
<1>5. CASE GetFree(c)
  BY <1>5 DEF GetFree, At
<1> QED
  BY <1>1, <1>2, <1>3, <1>4, <1>5 DEF SQGet

\* SQGet has the data to return when it has unlinked their node.
LEMMA GetHasData ==
  ASSUME NEW c \in Consumers, TypeOK, SQGet(c),
         pc[c] \in {"get_clear", "get_free"} => result[c] # NULL,
         pc'[c] \in {"get_clear", "get_free"},
         node[c] # NULL
  PROVE  result'[c] # NULL
<1> USE QueueAssumption DEF Threads
<1>p. /\ pc \in [Threads -> PutPoints \cup GetPoints] /\ c \in Threads
      /\ node[c] \in Nodes /\ data[node[c]] \in Items
      /\ result \in [Consumers -> Items \cup {NULL}]
  BY DEF TypeOK, Pointers
<1>1. CASE GetCount(c)
  BY <1>1, <1>p DEF GetCount
<1>2. CASE GetClear(c)
  BY <1>2 DEF GetClear, At
<1>3. CASE ~GetCount(c) /\ ~GetClear(c)
  BY <1>3, <1>p DEF SQGet, GetTest, GetLock, GetNone, GetTake, GetUnlink,
     GetFree, GiveNothing, Goto
<1> QED
  BY <1>1, <1>2, <1>3

\* Nobody has used the new queue.
LEMMA DeleteInit == InitDelete => IndDelete
  BY IndInit DEF InitDelete, IndDelete, QueueStates

\* Every step of the life of a queue keeps the invariant.
LEMMA DeleteStep == IndDelete /\ [NextDelete]_deleteVars => IndDelete'
<1> SUFFICES ASSUME IndDelete, [NextDelete]_deleteVars PROVE IndDelete'
  OBVIOUS
<1> USE QueueAssumption, DeleterAssumption DEF Threads, QueueStates
<1>t. IndInv /\ TypeOK /\ TypeOK' /\ IndInv'
  <2>1. [Next]_vars
    BY DEF NextDelete, deleteVars, Use, DeleteStart, DeleteSQueue, DeleteGet,
       DeleteNext, Next
  <2> QED
    BY <2>1, IndStep DEF IndDelete, IndInv
<1>p. pc \in [Threads -> PutPoints \cup GetPoints]
  BY <1>t DEF TypeOK
<1>1. CASE UNCHANGED deleteVars
  BY <1>1, <1>t DEF deleteVars, vars, listVars, IndDelete, Alone, At
<1>2. CASE Use
  BY <1>2, <1>t DEF Use, IndDelete
<1>3. CASE DeleteStart
  BY <1>3, <1>t DEF DeleteStart, Unused, IndDelete, Alone, At, vars, listVars
<1>4. CASE DeleteGet
  <2>1. Alone'
    BY <1>4, <1>p, GetIsLocal DEF DeleteGet, IndDelete, Alone, At
  <2>2. pc[Deleter] \in {"get_clear", "get_free"} => result[Deleter] # NULL
    BY <1>4 DEF DeleteGet, IndDelete
  <2>3. pc'[Deleter] \in {"get_clear", "get_free"} => result'[Deleter] # NULL
    <3> SUFFICES ASSUME pc'[Deleter] \in {"get_clear", "get_free"}
                 PROVE  result'[Deleter] # NULL
      OBVIOUS
    <3>1. node[Deleter] # NULL
      <4>1. pc[Deleter] \in {"get_count", "get_clear"}
        BY <1>4, <1>p DEF DeleteGet, SQGet, GetTest, GetLock, GetNone, GetTake,
           GetUnlink, GetCount, GetClear, GetFree, GiveNothing, Goto, At
      <4> QED
        BY <4>1, <1>t DEF IndInv, Hands
    <3> QED
      BY <1>4, <1>t, <2>2, <3>1, GetHasData DEF DeleteGet
  <2>4. pc'[Deleter] = "idle" /\ result'[Deleter] = NULL => count' = 0
    BY <1>4, <1>t, <2>2, NothingMeansEmpty DEF DeleteGet
  <2> QED
    BY <1>4, <1>t, <2>1, <2>3, <2>4 DEF DeleteGet, IndDelete, At
<1>5. CASE DeleteNext
  <2>1. UNCHANGED <<pc, result, count>>
    BY <1>5 DEF DeleteNext, vars, listVars
  <2>2. Alone' /\ At(Deleter, "idle")'
    BY <1>5, <2>1 DEF DeleteNext, IndDelete, Alone, At
  <2>3. pc'[Deleter] = "idle"
    BY <2>2 DEF At
  <2> QED
    BY <1>5, <1>t, <2>1, <2>2, <2>3 DEF DeleteNext, IndDelete
<1> QED
  BY <1>1, <1>2, <1>3, <1>4, <1>5 DEF NextDelete, DeleteSQueue

\* DeleteSQueue frees every node: at its end none is allocated, whatever the
\* threads have put into the queue and taken out of it before.
THEOREM DeleteFreesAll == DeleteSpec => []DeletedIsEmpty
<1>1. IndDelete => DeletedIsEmpty
  <2> SUFFICES ASSUME IndDelete, queue = "freed"
               PROVE  heap = {} /\ top = NULL /\ Unused
    BY DEF DeletedIsEmpty
  <2> USE QueueAssumption, DeleterAssumption DEF Threads
  <2>1. IndInv /\ TypeOK /\ count = 0
    BY DEF IndDelete, IndInv
  <2>2. Unused
    BY DEF IndDelete, Alone, Unused
  <2>3. contents = <<>> /\ Queued = {}
    <3>1. contents \in Seq(Nodes) /\ Len(contents) = 0
      BY <2>1 DEF IndInv, TypeOK
    <3> QED
      BY <3>1 DEF Queued
  <2>4. \A t \in Threads : node[t] = NULL
    BY <2>1, <2>2 DEF Unused, At, IndInv, Hands
  <2>5. heap = {}
    BY <2>1, <2>3, <2>4 DEF IndInv, OneOwner, HeldBy
  <2>6. lock = NULL
    BY <2>1, <2>2 DEF Unused, At, IndInv, Mutex, Critical, TypeOK
  <2>7. Linked = contents
    BY <2>6 DEF Linked, LockAt
  <2>8. top = NULL
    BY <2>1, <2>3, <2>7 DEF IndInv, Chain
  <2> QED
    BY <2>2, <2>5, <2>8
<1> QED
  BY <1>1, DeleteInit, DeleteStep, PTL DEF DeleteSpec

\* Each step of SQGet takes the deleter nearer to the end of the call, or a
\* node out of the queue.
LEMMA GetShrinks ==
  ASSUME IndDelete, DeleteGet
  PROVE  \/ /\ queue' = "get" /\ Len(contents') = Len(contents)
            /\ GetSteps[pc'[Deleter]] < GetSteps[pc[Deleter]]
         \/ /\ queue' = "got" /\ Len(contents') = Len(contents)
            /\ \/ result'[Deleter] = NULL /\ GetSteps[pc[Deleter]] > 1
               \/ GetSteps[pc[Deleter]] > 9
         \/ /\ queue' = "get" /\ Len(contents') = Len(contents) - 1
            /\ GetSteps[pc'[Deleter]] < GetSteps[pc[Deleter]] + 9
<1> USE QueueAssumption, DeleterAssumption DEF Threads
<1>t. TypeOK
  BY DEF IndDelete, IndInv
<1>p. /\ pc \in [Threads -> PutPoints \cup GetPoints]
      /\ result \in [Consumers -> Items \cup {NULL}]
  BY <1>t DEF TypeOK
<1>g. SQGet(Deleter) /\ queue' = IF pc'[Deleter] = "idle" THEN "got" ELSE "get"
  BY DEF DeleteGet
<1>1. CASE GetTest(Deleter)
  BY <1>1, <1>g, <1>p DEF GetTest, GiveNothing, Goto, At, GetSteps
<1>2. CASE GetLock(Deleter)
  BY <1>2, <1>g, <1>p DEF GetLock, Goto, At, GetSteps
<1>3. CASE GetNone(Deleter)
  BY <1>3, <1>g, <1>p DEF GetNone, GiveNothing, Goto, At, GetSteps
<1>4. CASE GetTake(Deleter) \/ GetUnlink(Deleter)
  BY <1>4, <1>g, <1>p DEF GetTake, GetUnlink, Goto, At, GetSteps
<1>5. CASE GetCount(Deleter)
  <2>1. contents # <<>>
    BY <1>5 DEF GetCount, At, IndDelete, IndInv, Taken
  <2>2. Len(contents') = Len(contents) - 1
    BY <1>5, <1>t, <2>1 DEF GetCount, TypeOK
  <2>3. pc[Deleter] = "get_count" /\ pc'[Deleter] = "get_clear"
    BY <1>5, <1>p DEF GetCount, Goto, At
  <2> QED
    BY <1>g, <2>2, <2>3 DEF GetSteps
<1>6. CASE GetClear(Deleter)
  BY <1>6, <1>g, <1>p DEF GetClear, Goto, At, GetSteps
<1>7. CASE GetFree(Deleter)
  BY <1>7, <1>g, <1>p DEF GetFree, Goto, At, GetSteps
<1> QED
  BY <1>1, <1>2, <1>3, <1>4, <1>5, <1>6, <1>7, <1>g DEF SQGet

\* DeleteSQueue, begun on a queue of n nodes, is through after 9 * n + 8
\* steps at the latest, for every n.
THEOREM DeleteIsBounded == DeleteSpec => DeleteShrinks
<1>1. IndDelete /\ [NextDelete]_deleteVars =>
         [(queue \in {"get", "got"}) => DeleteLeft' < DeleteLeft]_deleteVars
  <2> SUFFICES ASSUME IndDelete, NextDelete, queue \in {"get", "got"}
               PROVE  DeleteLeft' < DeleteLeft
    OBVIOUS
  <2> USE DeleterAssumption DEF deleteVars
  <2>1. TypeOK /\ TypeOK' /\ IndDelete'
    BY DeleteStep DEF IndDelete, IndInv
  <2>2. CASE DeleteGet
    <3>1. GetSteps[pc[Deleter]] \in Int /\ GetSteps[pc'[Deleter]] \in Int
      <4>1. pc[Deleter] \in GetPoints /\ pc'[Deleter] \in GetPoints
        BY <2>1 DEF IndDelete, IndInv, Hands
      <4> QED
        BY <4>1 DEF GetPoints, GetSteps
    <3>2. queue = "get"
      BY <2>2 DEF DeleteGet
    <3>3. Len(contents) \in Nat /\ Len(contents)' \in Nat
      BY <2>1 DEF TypeOK
    <3>4. DeleteLeft = 9 * Len(contents) + GetSteps[pc[Deleter]]
      BY <3>2 DEF DeleteLeft
    <3>5. CASE queue' = "get"
      <4>1. DeleteLeft' = 9 * Len(contents') + GetSteps[pc'[Deleter]]
        BY <3>5 DEF DeleteLeft
      <4> QED
        BY <2>2, <3>1, <3>3, <3>4, <3>5, <4>1, GetShrinks
    <3>6. CASE queue' = "got"
      <4>1. DeleteLeft' = 9 * Len(contents')
                             + IF result'[Deleter] = NULL THEN 1 ELSE 9
        BY <3>6 DEF DeleteLeft
      <4> QED
        BY <2>2, <3>1, <3>3, <3>4, <3>6, <4>1, GetShrinks
    <3> QED
      BY <2>2, <3>5, <3>6 DEF DeleteGet
  <2>3. CASE DeleteNext
    <3>1. /\ UNCHANGED <<pc, result, contents>> /\ queue = "got"
          /\ \/ result[Deleter] # NULL /\ queue' = "get"
             \/ result[Deleter] = NULL /\ queue' = "freed"
      BY <2>3 DEF DeleteNext, vars, listVars
    <3>2. pc'[Deleter] = "idle"
      BY <3>1 DEF IndDelete, At
    <3>3. UNCHANGED Len(contents) /\ Len(contents) \in Nat
      BY <2>1, <3>1 DEF TypeOK
    <3>4. DeleteLeft = 9 * Len(contents)
                          + IF result[Deleter] = NULL THEN 1 ELSE 9
      BY <3>1 DEF DeleteLeft
    <3>5. CASE queue' = "get"
      <4>1. DeleteLeft' = 9 * Len(contents) + 8
        BY <3>2, <3>3, <3>5 DEF DeleteLeft, GetSteps
      <4> QED
        BY <3>1, <3>3, <3>4, <3>5, <4>1
    <3>6. CASE queue' = "freed"
      <4>1. DeleteLeft' = 9 * Len(contents) + 0
        BY <3>3, <3>6 DEF DeleteLeft
      <4> QED
        BY <3>3, <3>4, <4>1
    <3> QED
      BY <3>1, <3>5, <3>6
  <2> QED
    BY <2>2, <2>3 DEF NextDelete, Use, DeleteStart, DeleteSQueue
<1> QED
  BY <1>1, DeleteInit, DeleteStep, PTL DEF DeleteSpec, DeleteShrinks

\* A queue that is deleted has lived like any other: the theorems about Spec
\* hold for it to its end.
THEOREM DeleteIsUse == DeleteSpec => Spec
<1>1. InitDelete => Init
  BY DEF InitDelete
<1>2. [NextDelete]_deleteVars => [Next]_vars
  BY DeleterAssumption
  DEF NextDelete, deleteVars, Use, DeleteStart, DeleteSQueue, DeleteGet,
      DeleteNext, Next
<1> QED
  BY <1>1, <1>2, PTL DEF DeleteSpec, Spec

=============================================================================
