----------------------------- MODULE MsgQueues -----------------------------
(***************************************************************************)
(* kernel/MQUEUES: senders put messages into my_msgq with K_NO_WAIT and    *)
(* look at no result; a receiver takes them.  The five samples differ in   *)
(* who sends (one thread, two threads, an interrupt) and in the            *)
(* priorities; one of them runs.  A message is its source and its number,  *)
(* of which the code sends one or the other.                               *)
(***************************************************************************)
EXTENDS Naturals, Sequences

CONSTANTS Sources,       \* sender1_id and sender2_id of _03; the others have one of them
          MsgqDepth,     \* max_msgs of K_MSGQ_DEFINE: 5 or 10
          MaxData        \* bound: messages of each sender

ASSUME MsgQueuesAssumption == MsgqDepth \in Nat \ {0} /\ MaxData \in Nat

VARIABLES
  mqProgram,
  active,            \* the sources this program has
  initialised,       \* k_msgq_init of _02 has run
  my_msgq,
  data,              \* messages each sender has made
  txPc, rxPc,
  got                \* the last message received of each sender

mqVars == <<mqProgram, active, initialised, my_msgq, data, txPc, rxPc, got>>

Message == [source : Sources, n : 1..MaxData]

MqInit ==
  /\ mqProgram \in {"_01", "_02", "_03", "_04", "_05"}
  /\ active \in {S \in SUBSET Sources : S # {}}
  /\ (mqProgram # "_03" => \A s, t \in active : s = t)
  /\ initialised = (mqProgram # "_02")
  /\ my_msgq = <<>> /\ data = [s \in Sources |-> 0] /\ got = [s \in Sources |-> 0]
  /\ txPc = [s \in Sources |-> "run"]
  /\ rxPc = IF mqProgram = "_04" THEN "sleep" ELSE "get"

\* A full queue refuses the message.  Variant: the queue takes it.
k_msgq_put_full(m) == my_msgq' = Append(my_msgq, m)
k_msgq_put(m) == my_msgq' = IF Len(my_msgq) < MsgqDepth THEN Append(my_msgq, m) ELSE my_msgq

\* main has the highest priority: it is done before a thread runs.
main_mq02 ==
  /\ mqProgram = "_02" /\ ~initialised
  /\ initialised' = TRUE /\ my_msgq' = <<>>
  /\ UNCHANGED <<mqProgram, active, data, txPc, rxPc, got>>

\* The receiver has work to do; with a higher priority than the sender it does it first.
\* Variant: the priorities are the same, and a sender need not wait.
ReceiverRuns    == rxPc = "print" \/ (rxPc = "get" /\ my_msgq # <<>>)
SenderWaits_equal == FALSE
SenderWaits       == mqProgram \in {"_01", "_02", "_03"} /\ ReceiverRuns

Put(s) ==
  /\ data[s] < MaxData
  /\ data' = [data EXCEPT ![s] = @ + 1]
  /\ k_msgq_put([source |-> s, n |-> data[s] + 1])

\* One message, then the sleep.
SendOne(s) ==
  /\ txPc[s] = "run"
  /\ Put(s)
  /\ txPc' = [txPc EXCEPT ![s] = "sleep"]
  /\ UNCHANGED <<mqProgram, active, initialised, rxPc, got>>

WakeSender(s) ==
  /\ txPc[s] = "sleep"
  /\ txPc' = [txPc EXCEPT ![s] = "run"]
  /\ UNCHANGED <<mqProgram, active, initialised, my_msgq, data, rxPc, got>>

\* _04: as many messages as the queue has room for.
Fill(s) ==
  /\ txPc[s] = "run"
  /\ \/ Len(my_msgq) < MsgqDepth /\ Put(s) /\ UNCHANGED txPc
     \/ Len(my_msgq) = MsgqDepth /\ txPc' = [txPc EXCEPT ![s] = "sleep"] /\ UNCHANGED <<my_msgq, data>>
  /\ UNCHANGED <<mqProgram, active, initialised, rxPc, got>>

Sender(s) == WakeSender(s) \/ SendOne(s)

task_sender_mq01(s) == mqProgram = "_01" /\ ~SenderWaits /\ Sender(s)
task_sender_mq02(s) == mqProgram = "_02" /\ initialised /\ ~SenderWaits /\ Sender(s)
task_sender_mq03(s) == mqProgram = "_03" /\ ~SenderWaits /\ Sender(s)
task_sender_mq04(s) == mqProgram = "_04" /\ (WakeSender(s) \/ Fill(s))

\* The interrupt main sets pending; it interrupts whatever runs.
main_mq05(s)   == mqProgram = "_05" /\ WakeSender(s)
my_own_isr_mq05(s) == mqProgram = "_05" /\ SendOne(s)

GetMessage ==
  /\ my_msgq # <<>>
  /\ got' = [got EXCEPT ![Head(my_msgq).source] = Head(my_msgq).n]
  /\ my_msgq' = Tail(my_msgq)
  /\ rxPc' = "print"
  /\ UNCHANGED <<mqProgram, active, initialised, data, txPc>>

RxMoves(from, to) ==
  /\ rxPc = from
  /\ rxPc' = to
  /\ UNCHANGED <<mqProgram, active, initialised, my_msgq, data, txPc, got>>

\* k_msgq_get with K_FOREVER, printk.
Receiver == (rxPc = "get" /\ GetMessage) \/ RxMoves("print", "get")

task_receiver_mq01 == mqProgram = "_01" /\ Receiver
task_receiver_mq02 == mqProgram = "_02" /\ initialised /\ Receiver
task_receiver_mq03 == mqProgram = "_03" /\ Receiver
task_receiver_mq05 == mqProgram = "_05" /\ Receiver

\* _04: after each sleep all messages, whenever the sender, which has the higher priority,
\* is asleep.
task_receiver_mq04 ==
  /\ mqProgram = "_04" /\ \A s \in active : txPc[s] = "sleep"
  /\ \/ RxMoves("sleep", "check")
     \/ rxPc = "check" /\ GetMessage
     \/ my_msgq = <<>> /\ RxMoves("check", "sleep")
     \/ RxMoves("print", "check")

MqSenders == \E s \in active :
  task_sender_mq01(s) \/ task_sender_mq02(s) \/ task_sender_mq03(s) \/ task_sender_mq04(s)
    \/ main_mq05(s) \/ my_own_isr_mq05(s)
MqReceivers ==
  task_receiver_mq01 \/ task_receiver_mq02 \/ task_receiver_mq03 \/ task_receiver_mq04 \/ task_receiver_mq05

MqNext == main_mq02 \/ MqSenders \/ MqReceivers
MqSpec == MqInit /\ [][MqNext]_mqVars
-----------------------------------------------------------------------------
\* Type correctness.
MqTypeOK ==
  /\ mqProgram \in {"_01", "_02", "_03", "_04", "_05"} /\ active \subseteq Sources
  /\ initialised \in BOOLEAN
  /\ my_msgq \in Seq(Message) /\ Len(my_msgq) <= MsgqDepth
  /\ data \in [Sources -> 0..MaxData] /\ got \in [Sources -> 0..MaxData]
  /\ txPc \in [Sources -> {"run", "sleep"}] /\ rxPc \in {"get", "print", "sleep", "check"}

\* Although nobody looks at the result of k_msgq_put, every message of _01 to _04 is received
\* once and in order: through the priorities, or through the test for room in _04.  The
\* interrupt of _05 can find the queue full; what it delivers is in order all the same.
Msgs == INSTANCE Delivery WITH
          sent <- data, taken <- got, lossy <- IF mqProgram = "_05" THEN Sources ELSE {}
MsgsDelivered == Msgs!Spec
=============================================================================
