---------------------------- MODULE NodeQueues ----------------------------
(***************************************************************************)
(* kernel/QUEUES: a sender links nodes of its own memory into a queue and  *)
(* a receiver takes them out, prints them and forgets them.  A node is     *)
(* linked through itself, so it must not be linked twice, and it must not  *)
(* change while it is queued.  _01 has one node and a receiver of higher   *)
(* priority; _02 (queue), _05 (fifo) and _06 (lifo) use a pool the sender  *)
(* refills after each sleep; _03 lets the kernel allocate the links; _04   *)
(* allocates the nodes from a heap until it is empty.  One of them runs.   *)
(***************************************************************************)
EXTENDS Naturals, Sequences

CONSTANT PoolSize        \* mem_pool[5] and the heap of _04

ASSUME PoolSizeAssumption == PoolSize \in Nat \ {0}

VARIABLES
  nqProgram,
  my_queue,        \* my_queue, my_fifo or my_lifo: the nodes, oldest first
  i,               \* the node the sender fills next
  heap,            \* _04: the nodes that k_heap_alloc can give
  rx_data,         \* the node the receiver has taken and prints; 0 for none
  ready,           \* the threads that can run, the running one first
  asleep           \* the sleeping ones in the order in which they wake

nqVars == <<nqProgram, my_queue, i, heap, rx_data, ready, asleep>>

NqPrograms == {"_01", "_02", "_03", "_04", "_05", "_06"}
Nodes == 1..PoolSize

\* Static threads start in the order of their names.
NqInit ==
  /\ nqProgram \in NqPrograms
  /\ my_queue = <<>> /\ i = 1 /\ heap = Nodes /\ rx_data = 0
  /\ ready = IF nqProgram = "_01" THEN <<"sender">> ELSE <<"receiver", "sender">>
  /\ asleep = <<>>

\* Both threads have priority 5 and there are no time slices: a thread runs until it sleeps.
Runs(t) == ready # <<>> /\ Head(ready) = t

\* k_msleep(1000) of the running thread.  Both sleep as long, so the first to sleep is the
\* first to wake.
k_msleep == ready' = Tail(ready) /\ asleep' = Append(asleep, Head(ready))

Wake ==
  /\ asleep # <<>>
  /\ ready' = Append(ready, Head(asleep))
  /\ asleep' = Tail(asleep)
  /\ UNCHANGED <<nqProgram, my_queue, i, heap, rx_data>>
-----------------------------------------------------------------------------
(* The sender *)

k_queue_append(n) == my_queue' = Append(my_queue, n)
k_lifo_put(n)     == my_queue' = <<n>> \o my_queue

SenderSleeps ==
  /\ k_msleep
  /\ i' = 1
  /\ UNCHANGED <<nqProgram, my_queue, heap, rx_data>>

\* _06 puts in front, the other samples at the end.
PutNode(n) == IF nqProgram = "_06" THEN k_lifo_put(n) ELSE k_queue_append(n)

FillNode ==
  /\ Runs("sender") /\ i <= PoolSize
  /\ PutNode(i)
  /\ i' = i + 1
  /\ UNCHANGED <<nqProgram, heap, rx_data, ready, asleep>>

FillPool == FillNode \/ (Runs("sender") /\ i > PoolSize /\ SenderSleeps)

\* The receiver of _01 waits in k_queue_get with a higher priority.
ReceiverFirst == my_queue # <<>> \/ rx_data # 0

task_sender_nq01 ==
  /\ nqProgram = "_01" /\ ~ReceiverFirst /\ Runs("sender")
  /\ \/ /\ i = 1
        /\ k_queue_append(1) /\ i' = 2
        /\ UNCHANGED <<nqProgram, heap, rx_data, ready, asleep>>
     \/ i = 2 /\ SenderSleeps

task_sender_nq02 == nqProgram = "_02" /\ FillPool
task_sender_nq03 == nqProgram = "_03" /\ FillPool
task_sender_nq05 == nqProgram = "_05" /\ FillPool
task_sender_nq06 == nqProgram = "_06" /\ FillPool

\* k_heap_alloc until it fails.
task_sender_nq04 ==
  /\ nqProgram = "_04" /\ Runs("sender")
  /\ \/ \E n \in heap :
          /\ heap' = heap \ {n}
          /\ k_queue_append(n)
          /\ UNCHANGED <<nqProgram, i, rx_data, ready, asleep>>
     \/ heap = {} /\ SenderSleeps
-----------------------------------------------------------------------------
(* The receiver *)

TakeNode ==
  /\ my_queue # <<>> /\ rx_data = 0
  /\ rx_data' = Head(my_queue) /\ my_queue' = Tail(my_queue)
  /\ UNCHANGED <<nqProgram, i, heap, ready, asleep>>

\* The node is printed; _04 then gives it back.  Variant: it does not.
Free_leak(n) == heap' = heap
Free(n) == heap' = IF nqProgram = "_04" THEN heap \cup {n} ELSE heap

PrintNode ==
  /\ rx_data # 0
  /\ Free(rx_data)
  /\ rx_data' = 0
  /\ UNCHANGED <<nqProgram, my_queue, i, ready, asleep>>

\* When the receiver goes to sleep again.  Variant: after one node.
Drained_one == rx_data = 0
Drained     == rx_data = 0 /\ my_queue = <<>>

\* Sleep, then everything there is.
DrainQueue ==
  /\ Runs("receiver")
  /\ TakeNode \/ PrintNode
     \/ (Drained /\ k_msleep /\ UNCHANGED <<nqProgram, my_queue, i, heap, rx_data>>)

task_receiver_nq01 == nqProgram = "_01" /\ (TakeNode \/ PrintNode)
task_receiver_nq02 == nqProgram = "_02" /\ DrainQueue
task_receiver_nq03 == nqProgram = "_03" /\ DrainQueue
task_receiver_nq04 == nqProgram = "_04" /\ DrainQueue
task_receiver_nq05 == nqProgram = "_05" /\ DrainQueue
task_receiver_nq06 == nqProgram = "_06" /\ DrainQueue

NqSender == task_sender_nq01 \/ task_sender_nq02 \/ task_sender_nq03
              \/ task_sender_nq04 \/ task_sender_nq05 \/ task_sender_nq06
NqReceiver == task_receiver_nq01 \/ task_receiver_nq02 \/ task_receiver_nq03
              \/ task_receiver_nq04 \/ task_receiver_nq05 \/ task_receiver_nq06
NqThreads == NqSender \/ NqReceiver
NqNext == NqThreads \/ Wake

\* The processor runs a thread that can run, and sleeps end.
NqFairness == WF_nqVars(NqThreads) /\ WF_nqVars(Wake)
NqSpec == NqInit /\ [][NqNext]_nqVars /\ NqFairness
-----------------------------------------------------------------------------
\* Type correctness.
NqTypeOK ==
  /\ nqProgram \in NqPrograms
  /\ my_queue \in Seq(Nodes) /\ Len(my_queue) <= PoolSize
  /\ i \in 1..(PoolSize + 1) /\ heap \subseteq Nodes /\ rx_data \in Nodes \cup {0}
  /\ ready \in Seq({"sender", "receiver"}) /\ asleep \in Seq({"sender", "receiver"})

\* No node is linked into the queue twice, nor while the receiver still reads it, nor given
\* back to the heap while it is queued or read: the sender is never a pool ahead.
NodesOnce ==
  /\ \A a, b \in DOMAIN my_queue : my_queue[a] = my_queue[b] => a = b
  /\ \A a \in DOMAIN my_queue : my_queue[a] # rx_data
  /\ nqProgram = "_04" =>
       heap \cap ({rx_data} \cup {my_queue[a] : a \in DOMAIN my_queue}) = {}

\* The receiver always takes a node again.
NodesReceived == []<>(rx_data # 0)
=============================================================================
