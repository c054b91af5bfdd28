-------------------------- MODULE NodeQueuesProofs --------------------------
(***************************************************************************)
(* Proofs about NodeQueues, for a pool of any size: no node is linked      *)
(* twice, nor while it is read.                                            *)
(***************************************************************************)
EXTENDS NodeQueues, FiniteSets, SequenceTheorems, FiniteSetTheorems, TLAPS

\* The threads take turns: whose turn is it, whether they are ready or asleep?
ReceiverNext ==
  \/ ready = <<"receiver", "sender">> /\ asleep = <<>>
  \/ ready = <<"receiver">> /\ asleep = <<"sender">>
  \/ ready = <<>> /\ asleep = <<"receiver", "sender">>
SenderNext ==
  \/ ready = <<"sender", "receiver">> /\ asleep = <<>>
  \/ ready = <<"sender">> /\ asleep = <<"receiver">>
  \/ ready = <<>> /\ asleep = <<"sender", "receiver">>

\* The samples in which the sender refills a pool.
Pooled == nqProgram \in {"_02", "_03", "_05", "_06"}

\* In its turn the sender has queued the nodes before i and the receiver has nothing; in its
\* own turn the receiver takes what there is, and the sender stands at the start of the pool.
TurnInv ==
  Pooled => /\ SenderNext \/ ReceiverNext
            /\ SenderNext => rx_data = 0 /\ \A a \in DOMAIN my_queue : my_queue[a] < i
            /\ ReceiverNext => i = 1

QueueTypes ==
  /\ my_queue \in Seq(Nodes) /\ i \in 1..(PoolSize + 1)
  /\ rx_data \in Nodes \cup {0} /\ heap \subseteq Nodes

NqInv == nqProgram \in NqPrograms /\ QueueTypes /\ NodesOnce /\ TurnInv

\* The two orders of the threads exclude each other.
LEMMA OneTurn == ~(SenderNext /\ ReceiverNext) /\ ~(SenderNext' /\ ReceiverNext')
  BY DEF SenderNext, ReceiverNext

\* The invariant holds at the start: the receiver is first.
LEMMA NqInitInv == NqInit => NqInv
<1> SUFFICES ASSUME NqInit PROVE NqInv
  OBVIOUS
<1>1. my_queue \in Seq(Nodes) /\ DOMAIN my_queue = {}
  BY DEF NqInit
<1>2. Pooled => ReceiverNext /\ ~SenderNext
  BY OneTurn DEF NqInit, Pooled, ReceiverNext
<1> QED
  BY <1>1, <1>2, PoolSizeAssumption DEF NqInit, NqInv, QueueTypes, NodesOnce, TurnInv, Nodes

\* Head, Tail and Append on sequences of one or two.
LEMMA OneOrTwo ==
  ASSUME NEW S, NEW x \in S, NEW y \in S
  PROVE  /\ Head(<<x, y>>) = x /\ Head(<<x>>) = x
         /\ Tail(<<x, y>>) = <<y>> /\ Tail(<<x>>) = <<>>
         /\ Append(<<>>, x) = <<x>> /\ Append(<<x>>, y) = <<x, y>>
<1>1. Head(<<x, y>>) = x /\ Head(<<x>>) = x
  OBVIOUS
<1>2. Tail(<<x, y>>) = <<y>>
  OBVIOUS
<1>3. Tail(<<x>>) = <<>>
  <2>1. <<x>> \in Seq(S) /\ <<x>> # <<>> /\ Len(<<x>>) = 1
    OBVIOUS
  <2>2. Tail(<<x>>) \in Seq(S) /\ Len(Tail(<<x>>)) = 0
    BY <2>1, HeadTailProperties
  <2> QED
    BY <2>2, EmptySeq
<1>4. Append(<<>>, x) = <<x>>
  <2>1. <<>> \in Seq(S) /\ Len(<<>>) = 0 /\ <<x>> \in Seq(S) /\ Len(<<x>>) = 1 /\ <<x>>[1] = x
    OBVIOUS
  <2>2. /\ Append(<<>>, x) \in Seq(S) /\ Len(Append(<<>>, x)) = 1
        /\ Append(<<>>, x)[1] = x
    BY <2>1, AppendProperties
  <2> QED
    BY <2>1, <2>2, SeqEqual
<1>5. Append(<<x>>, y) = <<x, y>>
  <2>1. /\ <<x>> \in Seq(S) /\ Len(<<x>>) = 1 /\ <<x>>[1] = x
        /\ <<x, y>> \in Seq(S) /\ Len(<<x, y>>) = 2 /\ <<x, y>>[1] = x /\ <<x, y>>[2] = y
    OBVIOUS
  <2>2. /\ Append(<<x>>, y) \in Seq(S) /\ Len(Append(<<x>>, y)) = 2
        /\ Append(<<x>>, y)[1] = x /\ Append(<<x>>, y)[2] = y
    BY <2>1, AppendProperties
  <2>3. \A k \in 1..Len(Append(<<x>>, y)) : Append(<<x>>, y)[k] = <<x, y>>[k]
    <3>1. 1..Len(Append(<<x>>, y)) = {1, 2}
      BY <2>2
    <3> QED
      BY Zenon, <2>1, <2>2, <3>1
  <2>4. Len(Append(<<x>>, y)) = Len(<<x, y>>)
    BY <2>1, <2>2
  <2> QED
    BY Zenon, <2>1, <2>2, <2>3, <2>4, SeqEqual
<1> QED
  BY <1>1, <1>2, <1>3, <1>4, <1>5

\* Head, Tail and Append on the sequences of threads there are.
LEMMA ShortSequences ==
  /\ Head(<<"sender", "receiver">>) = "sender" /\ Tail(<<"sender", "receiver">>) = <<"receiver">>
  /\ Head(<<"receiver", "sender">>) = "receiver" /\ Tail(<<"receiver", "sender">>) = <<"sender">>
  /\ Head(<<"sender">>) = "sender" /\ Tail(<<"sender">>) = <<>>
  /\ Head(<<"receiver">>) = "receiver" /\ Tail(<<"receiver">>) = <<>>
  /\ Append(<<>>, "sender") = <<"sender">> /\ Append(<<>>, "receiver") = <<"receiver">>
  /\ Append(<<"sender">>, "receiver") = <<"sender", "receiver">>
  /\ Append(<<"receiver">>, "sender") = <<"receiver", "sender">>
  /\ "sender" # "receiver"
<1>1. "sender" \in {"sender", "receiver"} /\ "receiver" \in {"sender", "receiver"}
  OBVIOUS
<1>2. "sender" # "receiver"
  OBVIOUS
<1> QED
  BY Zenon, OneOrTwo, <1>1, <1>2

\* The thread that sleeps gives the turn to the other one.
LEMMA SleepTurns ==
  ASSUME k_msleep, ready # <<>>
  PROVE  /\ Head(ready) = "sender" /\ SenderNext => ReceiverNext'
         /\ Head(ready) = "receiver" /\ ReceiverNext => SenderNext'
<1>1. ASSUME Head(ready) = "sender", SenderNext PROVE ReceiverNext'
  BY Zenon, <1>1, ShortSequences DEF SenderNext, ReceiverNext, k_msleep
<1>2. ASSUME Head(ready) = "receiver", ReceiverNext PROVE SenderNext'
  BY Zenon, <1>2, ShortSequences DEF SenderNext, ReceiverNext, k_msleep
<1> QED
  BY <1>1, <1>2

\* Waking up does not change the turn.
LEMMA WakeTurns ==
  ASSUME Wake
  PROVE  (SenderNext => SenderNext') /\ (ReceiverNext => ReceiverNext')
<1>1. asleep # <<>> /\ ready' = Append(ready, Head(asleep)) /\ asleep' = Tail(asleep)
  BY DEF Wake
<1> QED
  BY Zenon, <1>1, ShortSequences DEF SenderNext, ReceiverNext

\* The thread that runs is the one whose turn it is.
LEMMA RunsInTurn ==
  /\ Runs("sender") => ~ReceiverNext
  /\ Runs("receiver") => ~SenderNext
  BY Zenon, ShortSequences DEF Runs, SenderNext, ReceiverNext

\* All elements of a sequence are different.
Distinct(q) == \A a, b \in DOMAIN q : q[a] = q[b] => a = b

\* Taking the head off: the rest is distinct and has neither the head nor anything new.
LEMMA TakeDistinct ==
  ASSUME NEW S, NEW q \in Seq(S), q # <<>>, Distinct(q)
  PROVE  /\ Head(q) \in S /\ Tail(q) \in Seq(S) /\ Distinct(Tail(q))
         /\ \E b \in DOMAIN q : q[b] = Head(q)
         /\ \A a \in DOMAIN Tail(q) :
              Tail(q)[a] # Head(q) /\ \E b \in DOMAIN q : q[b] = Tail(q)[a]
<1>1. /\ Head(q) \in S /\ Tail(q) \in Seq(S) /\ Len(Tail(q)) = Len(q) - 1
      /\ \A a \in 1..Len(Tail(q)) : Tail(q)[a] = q[a + 1]
  BY HeadTailProperties
<1>2. DOMAIN q = 1..Len(q) /\ DOMAIN Tail(q) = 1..Len(Tail(q)) /\ Len(q) \in Nat \ {0}
  BY <1>1, LenProperties, EmptySeq
<1>3. Head(q) = q[1]
  OBVIOUS
<1>4. \A a \in DOMAIN Tail(q) : a + 1 \in DOMAIN q /\ a + 1 # 1 /\ Tail(q)[a] = q[a + 1]
  BY <1>1, <1>2
<1>5. Distinct(Tail(q))
  <2> SUFFICES ASSUME NEW a \in DOMAIN Tail(q), NEW b \in DOMAIN Tail(q), Tail(q)[a] = Tail(q)[b]
               PROVE a = b
    BY DEF Distinct
  <2>1. a + 1 = b + 1
    BY <1>4 DEF Distinct
  <2> QED
    BY <1>2, <2>1
<1> QED
  BY <1>1, <1>2, <1>3, <1>4, <1>5 DEF Distinct

\* The elements of r are those of q and n.
Adds(q, n, r) == \A a \in DOMAIN r : r[a] = n \/ \E b \in DOMAIN q : q[b] = r[a]

\* Appending something new keeps the elements different.
LEMMA AppendDistinct ==
  ASSUME NEW S, NEW q \in Seq(S), NEW n \in S, Distinct(q), \A a \in DOMAIN q : q[a] # n
  PROVE  Append(q, n) \in Seq(S) /\ Distinct(Append(q, n)) /\ Adds(q, n, Append(q, n))
<1> DEFINE r == Append(q, n)
<1>1. Len(q) \in Nat /\ DOMAIN q = 1..Len(q)
  BY LenProperties
<1>2. /\ r \in Seq(S) /\ Len(r) = Len(q) + 1
      /\ \A a \in 1..Len(q) : r[a] = q[a]
      /\ r[Len(q) + 1] = n
  BY AppendProperties
<1>3. DOMAIN r = 1..(Len(q) + 1)
  BY <1>2, LenProperties
<1> HIDE DEF r
<1>4. \A a \in DOMAIN r : (a \in DOMAIN q /\ r[a] = q[a]) \/ (a = Len(q) + 1 /\ r[a] = n)
  BY <1>1, <1>2, <1>3
<1>5. r \in Seq(S) /\ Distinct(r) /\ Adds(q, n, r)
  BY <1>2, <1>4 DEF Distinct, Adds
<1> QED
  BY <1>5 DEF r

\* So does putting it in front.
LEMMA PushDistinct ==
  ASSUME NEW S, NEW q \in Seq(S), NEW n \in S, Distinct(q), \A a \in DOMAIN q : q[a] # n
  PROVE  <<n>> \o q \in Seq(S) /\ Distinct(<<n>> \o q) /\ Adds(q, n, <<n>> \o q)
<1> DEFINE r == <<n>> \o q
<1>1. Len(q) \in Nat /\ DOMAIN q = 1..Len(q)
  BY LenProperties
<1>2. <<n>> \in Seq(S) /\ Len(<<n>>) = 1 /\ <<n>>[1] = n
  OBVIOUS
<1>3. /\ r \in Seq(S) /\ Len(r) = 1 + Len(q)
      /\ \A a \in 1..(1 + Len(q)) : r[a] = IF a <= 1 THEN <<n>>[a] ELSE q[a - 1]
  BY <1>2, ConcatProperties
<1>4. DOMAIN r = 1..(1 + Len(q))
  BY <1>3, LenProperties
<1> HIDE DEF r
<1>5. \A a \in DOMAIN r : (a = 1 /\ r[a] = n) \/ (a # 1 /\ a - 1 \in DOMAIN q /\ r[a] = q[a - 1])
  BY <1>1, <1>2, <1>3, <1>4
<1>6. Distinct(r)
  <2> SUFFICES ASSUME NEW a \in DOMAIN r, NEW b \in DOMAIN r, r[a] = r[b] PROVE a = b
    BY DEF Distinct
  <2>1. CASE a = 1 \/ b = 1
    BY <1>5, <2>1
  <2>2. CASE a # 1 /\ b # 1
    <3>1. a - 1 = b - 1
      BY <1>5, <2>2 DEF Distinct
    <3> QED
      BY <1>1, <1>4, <3>1
  <2> QED
    BY <2>1, <2>2
<1>7. r \in Seq(S) /\ Distinct(r) /\ Adds(q, n, r)
  BY <1>3, <1>5, <1>6 DEF Adds
<1> QED
  BY <1>7 DEF r

\* In a pool sample the thread that runs has the turn.
LEMMA PooledTurn ==
  ASSUME TurnInv, Pooled
  PROVE  /\ Runs("sender") => SenderNext /\ rx_data = 0 /\ \A a \in DOMAIN my_queue : my_queue[a] < i
         /\ Runs("receiver") => ReceiverNext /\ i = 1
  BY RunsInTurn DEF TurnInv

\* A thread goes to sleep with the queue as it is: the sender at the start of its pool, the
\* receiver with nothing left.
LEMMA SleepKeeps ==
  ASSUME NqInv, k_msleep, UNCHANGED <<nqProgram, my_queue, heap, rx_data>>,
         \/ Runs("sender") /\ i' = 1
         \/ Runs("receiver") /\ Drained /\ i' = i
  PROVE  NqInv'
<1>1. QueueTypes' /\ NodesOnce'
  BY PoolSizeAssumption DEF NqInv, QueueTypes, NodesOnce
<1>2. ASSUME Pooled, Runs("sender"), i' = 1 PROVE ReceiverNext' /\ ~SenderNext' /\ i' = 1
  BY <1>2, PooledTurn, SleepTurns, OneTurn DEF NqInv, Runs
<1>3. ASSUME Pooled, Runs("receiver"), Drained, i' = i
      PROVE SenderNext' /\ ~ReceiverNext' /\ rx_data' = 0 /\ DOMAIN my_queue' = {}
  <2>1. SenderNext' /\ ~ReceiverNext'
    BY <1>3, PooledTurn, SleepTurns, OneTurn DEF NqInv, Runs
  <2>2. rx_data' = 0 /\ my_queue' = <<>>
    BY <1>3 DEF Drained
  <2> QED
    BY <2>1, <2>2
<1>4. TurnInv'
  <2> SUFFICES ASSUME Pooled' PROVE (SenderNext \/ ReceiverNext)' /\ (SenderNext' => rx_data' = 0 /\ \A a \in DOMAIN my_queue' : my_queue'[a] < i') /\ (ReceiverNext' => i' = 1)
    BY DEF TurnInv
  <2>1. Pooled
    BY DEF Pooled
  <2> QED
    BY <1>2, <1>3, <2>1
<1> QED
  BY <1>1, <1>4 DEF NqInv

\* The sender links a node it knows to be neither queued nor read.
LEMMA LinkKeeps ==
  ASSUME NqInv, NEW n \in Nodes, k_queue_append(n) \/ k_lifo_put(n),
         \A a \in DOMAIN my_queue : my_queue[a] # n
  PROVE  my_queue' \in Seq(Nodes) /\ Distinct(my_queue') /\ Adds(my_queue, n, my_queue')
<1>1. my_queue \in Seq(Nodes) /\ Distinct(my_queue)
  BY DEF NqInv, QueueTypes, NodesOnce, Distinct
<1>2. CASE my_queue' = Append(my_queue, n)
  BY <1>1, <1>2, AppendDistinct
<1>3. CASE my_queue' = <<n>> \o my_queue
  BY <1>1, <1>3, PushDistinct
<1> QED
  BY <1>2, <1>3 DEF k_queue_append, k_lifo_put

\* A pool sample links the next node of its pool.
LEMMA FillKeeps ==
  ASSUME NqInv, Pooled, Runs("sender"), i <= PoolSize, k_queue_append(i) \/ k_lifo_put(i),
         i' = i + 1, UNCHANGED <<nqProgram, heap, rx_data, ready, asleep>>
  PROVE  NqInv'
<1>1. SenderNext /\ rx_data = 0 /\ \A a \in DOMAIN my_queue : my_queue[a] < i
  BY PooledTurn DEF NqInv
<1>2. i \in Nodes
  BY PoolSizeAssumption DEF NqInv, QueueTypes, Nodes
<1>3. \A a \in DOMAIN my_queue : my_queue[a] \in Nodes /\ my_queue[a] # i
  <2>1. \A a \in DOMAIN my_queue : my_queue[a] \in Nodes
    BY LenProperties DEF NqInv, QueueTypes
  <2> QED
    BY <1>1, <1>2, <2>1, PoolSizeAssumption DEF Nodes
<1>4. my_queue' \in Seq(Nodes) /\ Distinct(my_queue') /\ Adds(my_queue, i, my_queue')
  BY <1>2, <1>3, LinkKeeps
<1>5. \A a \in DOMAIN my_queue' : my_queue'[a] \in Nodes /\ my_queue'[a] < i'
  BY <1>1, <1>2, <1>3, <1>4 DEF Nodes, Adds
<1>6. NodesOnce'
  <2>1. \A a \in DOMAIN my_queue' : my_queue'[a] # rx_data'
    BY <1>1, <1>5 DEF Nodes
  <2>2. nqProgram' # "_04"
    BY DEF Pooled
  <2> QED
    BY <1>4, <2>1, <2>2 DEF NodesOnce, Distinct
<1>7. SenderNext' /\ ~ReceiverNext'
  <2>1. SenderNext'
    BY <1>1 DEF SenderNext
  <2> QED
    BY <2>1, OneTurn
<1>8. TurnInv'
  BY <1>1, <1>5, <1>7 DEF TurnInv
<1>9. QueueTypes'
  BY <1>2, <1>4, PoolSizeAssumption DEF NqInv, QueueTypes, Nodes
<1> QED
  BY <1>6, <1>8, <1>9 DEF NqInv

\* The receiver takes the first node, in the pool samples in its turn.
LEMMA TakeKeeps ==
  ASSUME NqInv, TakeNode, Pooled => Runs("receiver")
  PROVE  NqInv'
<1>1. /\ my_queue \in Seq(Nodes) /\ Distinct(my_queue) /\ my_queue # <<>>
      /\ rx_data' = Head(my_queue) /\ my_queue' = Tail(my_queue)
      /\ UNCHANGED <<nqProgram, i, heap, ready, asleep>>
  BY DEF NqInv, QueueTypes, NodesOnce, Distinct, TakeNode
<1>2. /\ rx_data' \in Nodes /\ my_queue' \in Seq(Nodes) /\ Distinct(my_queue')
      /\ \E b \in DOMAIN my_queue : my_queue[b] = rx_data'
      /\ \A a \in DOMAIN my_queue' :
           my_queue'[a] # rx_data' /\ \E b \in DOMAIN my_queue : my_queue[b] = my_queue'[a]
  BY <1>1, TakeDistinct
<1>3. QueueTypes'
  BY <1>1, <1>2 DEF NqInv, QueueTypes
<1>4. NodesOnce'
  BY <1>1, <1>2 DEF NqInv, NodesOnce, Distinct
<1>5. TurnInv'
  <2>1. Pooled => ReceiverNext /\ i = 1
    BY PooledTurn DEF NqInv
  <2>2. Pooled' => ReceiverNext' /\ ~SenderNext' /\ i' = 1
    BY <1>1, <2>1, OneTurn DEF Pooled, ReceiverNext
  <2> QED
    BY <2>2 DEF TurnInv
<1> QED
  BY <1>1, <1>3, <1>4, <1>5 DEF NqInv

\* The receiver is done with its node; _04 gives it back.
LEMMA PrintKeeps ==
  ASSUME NqInv, PrintNode, Pooled => Runs("receiver")
  PROVE  NqInv'
<1>1. /\ rx_data \in Nodes /\ rx_data' = 0
      /\ heap' = (IF nqProgram = "_04" THEN heap \cup {rx_data} ELSE heap)
      /\ UNCHANGED <<nqProgram, my_queue, i, ready, asleep>>
  BY DEF NqInv, QueueTypes, PrintNode, Free
<1>2. QueueTypes'
  BY <1>1 DEF NqInv, QueueTypes
<1>3. NodesOnce'
  <2>1. \A a \in DOMAIN my_queue : my_queue[a] \in Nodes
    BY LenProperties DEF NqInv, QueueTypes
  <2>2. 0 \notin Nodes
    BY DEF Nodes
  <2> QED
    BY <1>1, <1>2, <2>1, <2>2 DEF NqInv, NodesOnce, QueueTypes
<1>4. TurnInv'
  <2>1. Pooled => ReceiverNext /\ i = 1
    BY PooledTurn DEF NqInv
  <2>2. Pooled' => ReceiverNext' /\ ~SenderNext' /\ i' = 1
    BY <1>1, <2>1, OneTurn DEF Pooled, ReceiverNext
  <2> QED
    BY <2>2 DEF TurnInv
<1> QED
  BY <1>1, <1>2, <1>3, <1>4 DEF NqInv

\* _01: the receiver comes first, so the only node is free when the sender runs.
LEMMA OneNodeKeeps == NqInv /\ task_sender_nq01 => NqInv'
<1> SUFFICES ASSUME NqInv, task_sender_nq01 PROVE NqInv'
  OBVIOUS
<1>1. nqProgram = "_01" /\ my_queue = <<>> /\ rx_data = 0 /\ Runs("sender")
  BY DEF task_sender_nq01, ReceiverFirst
<1>2. CASE SenderSleeps
  BY <1>1, <1>2, SleepKeeps DEF SenderSleeps
<1>3. CASE k_queue_append(1) /\ i' = 2 /\ UNCHANGED <<nqProgram, heap, rx_data, ready, asleep>>
  <2>1. 1 \in Nodes /\ DOMAIN my_queue = {}
    BY <1>1, PoolSizeAssumption DEF Nodes
  <2>2. /\ my_queue' \in Seq(Nodes) /\ Distinct(my_queue')
        /\ \A a \in DOMAIN my_queue' : my_queue'[a] = 1
    BY <1>3, <2>1, LinkKeeps DEF Adds
  <2>3. QueueTypes'
    BY <1>3, <2>2, PoolSizeAssumption DEF NqInv, QueueTypes
  <2>4. NodesOnce'
    BY <1>1, <1>3, <2>2 DEF NodesOnce, Distinct
  <2>5. TurnInv'
    BY <1>1, <1>3 DEF TurnInv, Pooled
  <2> QED
    BY <1>3, <2>3, <2>4, <2>5 DEF NqInv
<1> QED
  BY <1>2, <1>3 DEF task_sender_nq01

\* _04: what the heap gives is neither queued nor read.
LEMMA HeapKeeps == NqInv /\ task_sender_nq04 => NqInv'
<1> SUFFICES ASSUME NqInv, task_sender_nq04 PROVE NqInv'
  OBVIOUS
<1>1. nqProgram = "_04" /\ Runs("sender")
  BY DEF task_sender_nq04
<1>2. CASE SenderSleeps
  BY <1>1, <1>2, SleepKeeps DEF SenderSleeps
<1>3. ASSUME NEW n \in heap, heap' = heap \ {n}, k_queue_append(n),
             UNCHANGED <<nqProgram, i, rx_data, ready, asleep>>
      PROVE NqInv'
  <2>1. n \in Nodes /\ n # rx_data /\ \A a \in DOMAIN my_queue : my_queue[a] # n
    BY <1>1, <1>3 DEF NqInv, QueueTypes, NodesOnce
  <2>2. my_queue' \in Seq(Nodes) /\ Distinct(my_queue') /\ Adds(my_queue, n, my_queue')
    BY <1>3, <2>1, LinkKeeps
  <2>3. QueueTypes'
    BY <1>3, <2>2 DEF NqInv, QueueTypes
  <2>4. NodesOnce'
    BY <1>1, <1>3, <2>1, <2>2 DEF NqInv, NodesOnce, Distinct, Adds
  <2>5. TurnInv'
    BY <1>1, <1>3 DEF TurnInv, Pooled
  <2> QED
    BY <1>3, <2>3, <2>4, <2>5 DEF NqInv
<1> QED
  BY <1>2, <1>3 DEF task_sender_nq04

\* The sender of a pool: the next node, or the sleep.
LEMMA PoolKeeps ==
  ASSUME NqInv, Pooled, FillPool
  PROVE  NqInv'
<1>1. CASE Runs("sender") /\ SenderSleeps
  BY <1>1, SleepKeeps DEF SenderSleeps
<1>2. CASE FillNode
  BY <1>2, FillKeeps DEF FillNode, PutNode
<1> QED
  BY <1>1, <1>2 DEF FillPool

\* The receiver of the other samples.
LEMMA DrainKeeps == ASSUME NqInv, DrainQueue PROVE NqInv'
<1>1. CASE TakeNode
  BY <1>1, TakeKeeps DEF DrainQueue
<1>2. CASE PrintNode
  BY <1>2, PrintKeeps DEF DrainQueue
<1>3. CASE Drained /\ k_msleep /\ UNCHANGED <<nqProgram, my_queue, i, heap, rx_data>>
  BY <1>3, SleepKeeps DEF DrainQueue
<1> QED
  BY <1>1, <1>2, <1>3 DEF DrainQueue

\* Waking up changes nothing the invariant is about.
LEMMA WakeKeeps == ASSUME NqInv, Wake PROVE NqInv'
<1>1. UNCHANGED <<nqProgram, my_queue, i, heap, rx_data>>
  BY DEF Wake
<1>2. QueueTypes' /\ NodesOnce' /\ nqProgram' \in NqPrograms
  BY <1>1 DEF NqInv, QueueTypes, NodesOnce
<1>3. TurnInv'
  <2>1. SenderNext => SenderNext' /\ ~ReceiverNext'
    BY WakeTurns, OneTurn
  <2>2. ReceiverNext => ReceiverNext' /\ ~SenderNext'
    BY WakeTurns, OneTurn
  <2>3. Pooled' => Pooled
    BY <1>1 DEF Pooled
  <2> QED
    BY <1>1, <2>1, <2>2, <2>3 DEF NqInv, TurnInv
<1> QED
  BY <1>2, <1>3 DEF NqInv

\* Every step of the sender keeps the invariant.
LEMMA SenderKeeps == ASSUME NqInv, NqSender PROVE NqInv'
<1>1. CASE task_sender_nq01
  BY <1>1, OneNodeKeeps
<1>2. CASE task_sender_nq04
  BY <1>2, HeapKeeps
<1>3. CASE task_sender_nq02 \/ task_sender_nq03 \/ task_sender_nq05 \/ task_sender_nq06
  <2>1. Pooled /\ FillPool
    BY <1>3 DEF task_sender_nq02, task_sender_nq03, task_sender_nq05, task_sender_nq06, Pooled
  <2> QED
    BY <2>1, PoolKeeps
<1> QED
  BY <1>1, <1>2, <1>3 DEF NqSender

\* Every step of the receiver keeps the invariant.
LEMMA ReceiverKeeps == ASSUME NqInv, NqReceiver PROVE NqInv'
<1>1. CASE task_receiver_nq01
  <2>1. ~Pooled
    BY <1>1 DEF task_receiver_nq01, Pooled
  <2> QED
    BY <1>1, <2>1, TakeKeeps, PrintKeeps DEF task_receiver_nq01
<1>2. CASE DrainQueue
  BY <1>2, DrainKeeps
<1> QED
  BY <1>1, <1>2 DEF NqReceiver, task_receiver_nq02, task_receiver_nq03, task_receiver_nq04,
                    task_receiver_nq05, task_receiver_nq06

\* Every step keeps the invariant.
LEMMA NqNextInv == NqInv /\ [NqNext]_nqVars => NqInv'
<1> SUFFICES ASSUME NqInv, [NqNext]_nqVars PROVE NqInv'
  OBVIOUS
<1>1. CASE UNCHANGED nqVars
  BY <1>1 DEF nqVars, NqInv, QueueTypes, NodesOnce, TurnInv, Pooled, SenderNext, ReceiverNext
<1> QED
  BY <1>1, SenderKeeps, ReceiverKeeps, WakeKeeps DEF NqNext, NqThreads

\* kernel/QUEUES: whatever the size of the pool or the heap, no node is linked twice, nor
\* while the receiver reads it, nor given back to the heap while it is queued or read.
THEOREM NodesLinkedOnce == NqSpec => []NodesOnce
<1>1. NqInv => NodesOnce
  BY DEF NqInv
<1> QED
  BY NqInitInv, NqNextInv, <1>1, PTL DEF NqSpec
-----------------------------------------------------------------------------
(* Types *)

\* A queue of different nodes holds no more than the pool has.
LEMMA QueueFits ==
  ASSUME NEW q \in Seq(Nodes), Distinct(q)
  PROVE  Len(q) <= PoolSize
<1>1. Len(q) \in Nat /\ DOMAIN q = 1..Len(q) /\ q \in [1..Len(q) -> Nodes]
  BY LenProperties
<1>2. IsFiniteSet(1..Len(q)) /\ Cardinality(1..Len(q)) = Len(q)
  BY <1>1, FS_Interval
<1>3. IsFiniteSet(Nodes) /\ Cardinality(Nodes) = PoolSize
  BY PoolSizeAssumption, FS_Interval DEF Nodes
<1>4. ~(Cardinality(Nodes) < Cardinality(1..Len(q)))
  BY Zenon, <1>1, <1>2, <1>3, FS_PigeonHole DEF Distinct
<1> QED
  BY <1>1, <1>2, <1>3, <1>4, PoolSizeAssumption

Threads == {"sender", "receiver"}
ThreadTypes == ready \in Seq(Threads) /\ asleep \in Seq(Threads)

\* Threads only go to sleep and wake up.
LEMMA ThreadsKeep == ASSUME ThreadTypes, [NqNext]_nqVars PROVE ThreadTypes'
<1>1. \/ k_msleep /\ ready # <<>>
      \/ Wake
      \/ UNCHANGED <<ready, asleep>>
  BY DEF NqNext, NqThreads, NqSender, NqReceiver, nqVars, task_sender_nq01, task_sender_nq02,
         task_sender_nq03, task_sender_nq04, task_sender_nq05, task_sender_nq06, task_receiver_nq01,
         task_receiver_nq02, task_receiver_nq03, task_receiver_nq04, task_receiver_nq05,
         task_receiver_nq06, FillPool, FillNode, SenderSleeps, DrainQueue, TakeNode, PrintNode, Runs
<1>2. ASSUME NEW p \in Seq(Threads), NEW q \in Seq(Threads), p # <<>>
      PROVE  Tail(p) \in Seq(Threads) /\ Append(q, Head(p)) \in Seq(Threads)
  BY <1>2, HeadTailProperties, AppendProperties
<1>3. CASE k_msleep /\ ready # <<>>
  BY <1>2, <1>3 DEF ThreadTypes, k_msleep
<1>4. CASE Wake
  BY <1>2, <1>4 DEF ThreadTypes, Wake
<1>5. CASE UNCHANGED <<ready, asleep>>
  BY <1>5 DEF ThreadTypes
<1> QED
  BY <1>1, <1>3, <1>4, <1>5

\* The invariant with the threads.
NqTypeInv == NqInv /\ ThreadTypes

\* It is inductive.
LEMMA NqTypeInvHolds ==
  /\ NqInit => NqTypeInv
  /\ NqTypeInv /\ [NqNext]_nqVars => NqTypeInv'
<1>1. NqInit => ThreadTypes
  <2>1. /\ <<"sender">> \in Seq(Threads) /\ <<"receiver", "sender">> \in Seq(Threads)
        /\ <<>> \in Seq(Threads)
    BY DEF Threads
  <2> QED
    BY Zenon, <2>1 DEF NqInit, ThreadTypes
<1> QED
  BY <1>1, NqInitInv, NqNextInv, ThreadsKeep DEF NqTypeInv

\* Type correctness follows: the queue never holds more nodes than the pool has.
LEMMA NqTypes == NqTypeInv => NqTypeOK
<1> SUFFICES ASSUME NqTypeInv PROVE NqTypeOK
  OBVIOUS
<1>1. Len(my_queue) <= PoolSize
  BY QueueFits DEF NqTypeInv, NqInv, QueueTypes, NodesOnce, Distinct
<1> QED
  BY <1>1 DEF NqTypeInv, NqInv, QueueTypes, ThreadTypes, Threads, NqTypeOK
=============================================================================
