--------------------------- MODULE DeliveryProofs ---------------------------
(***************************************************************************)
(* Proofs that the samples of message queues, work items and Zbus          *)
(* implement Delivery, for every number of senders and messages and every  *)
(* size of the queues.                                                     *)
(***************************************************************************)
EXTENDS MsgQueues, WorkItems, Zbus, SequenceTheorems, TLAPS

MqTypes ==
  /\ active \subseteq Sources /\ my_msgq \in Seq(Message)
  /\ data \in [Sources -> Nat] /\ got \in [Sources -> Nat]
  /\ \A s \in Sources : got[s] <= data[s]

\* What is queued was sent and not yet received, and each source's messages are in order.
Ordered ==
  /\ \A a \in DOMAIN my_msgq :
       got[my_msgq[a].source] < my_msgq[a].n /\ my_msgq[a].n <= data[my_msgq[a].source]
  /\ \A a, b \in DOMAIN my_msgq :
       a < b /\ my_msgq[a].source = my_msgq[b].source => my_msgq[a].n < my_msgq[b].n

\* Without the interrupt of _05, everything sent and not yet received is queued.
Complete ==
  mqProgram # "_05" =>
    \A s \in Sources : \A n \in (got[s] + 1)..data[s] :
      \E a \in DOMAIN my_msgq : my_msgq[a].source = s /\ my_msgq[a].n = n

\* The receivers of higher priority wait or print; the queue of _02 is empty until main made it.
Controls ==
  /\ mqProgram \in {"_01", "_02", "_03"} => rxPc \in {"get", "print"}
  /\ ~initialised => mqProgram = "_02" /\ my_msgq = <<>>

MqInv == MqTypes /\ Ordered /\ Complete /\ Controls

\* The invariant holds at the start, which is a start of Delivery.
LEMMA MqInitInv == MqInit => MqInv /\ Msgs!Init
<1> SUFFICES ASSUME MqInit PROVE MqInv /\ Msgs!Init
  OBVIOUS
<1>1. my_msgq \in Seq(Message) /\ my_msgq = <<>> /\ DOMAIN my_msgq = {}
  BY DEF MqInit
<1>2. \A s \in Sources : data[s] = 0 /\ got[s] = 0
  BY DEF MqInit
<1>3. MqTypes
  BY <1>1 DEF MqInit, MqTypes
<1>4. Ordered /\ Complete
  BY <1>1, <1>2 DEF Ordered, Complete
<1>5. Controls
  BY <1>1 DEF MqInit, Controls
<1>6. Msgs!Init
  BY DEF MqInit, Msgs!Init
<1> QED
  BY <1>3, <1>4, <1>5, <1>6 DEF MqInv

\* A message of s that finds room, or is lost by the interrupt of _05.
LEMMA PutKeeps ==
  ASSUME MqInv, NEW s \in active, Put(s), mqProgram = "_05" \/ Len(my_msgq) < MsgqDepth,
         UNCHANGED <<mqProgram, active, got>>
  PROVE  MqTypes' /\ Ordered' /\ Complete' /\ [Msgs!Next]_(Msgs!deliveryVars)
<1> DEFINE m == [source |-> s, n |-> data[s] + 1]
<1>1. /\ s \in Sources /\ MqTypes /\ Ordered /\ Complete
      /\ data[s] \in Nat /\ data[s] < MaxData /\ data' = [data EXCEPT ![s] = @ + 1]
      /\ my_msgq' = IF Len(my_msgq) < MsgqDepth THEN Append(my_msgq, m) ELSE my_msgq
  BY DEF MqInv, MqTypes, Put, k_msgq_put
<1>2. m \in Message /\ m.source = s /\ m.n = data[s] + 1
  BY <1>1, MsgQueuesAssumption DEF Message
<1> HIDE DEF m
<1>3. /\ data' \in [Sources -> Nat] /\ data'[s] = data[s] + 1
      /\ \A x \in Sources : x # s => data'[x] = data[x]
      /\ \A x \in Sources : data[x] <= data'[x] /\ data[x] \in Nat /\ got[x] \in Nat
  BY <1>1 DEF MqTypes
<1>4. \A a \in DOMAIN my_msgq : a \in Nat /\ my_msgq[a] \in Message
  BY <1>1, LenProperties DEF MqTypes
<1>5. \A a \in DOMAIN my_msgq : my_msgq[a].source \in Sources /\ my_msgq[a].n \in Nat
  BY <1>4 DEF Message
<1>6. Msgs!Send({s})
  <2>1. data' = [x \in Sources |-> IF x \in {s} THEN data[x] + 1 ELSE data[x]]
    BY <1>1 DEF MqTypes
  <2> QED
    BY <2>1 DEF Msgs!Send
<1>7. [Msgs!Next]_(Msgs!deliveryVars)
  BY <1>1, <1>6 DEF Msgs!Next
<1>8. CASE Len(my_msgq) < MsgqDepth
  <2>1. my_msgq' = Append(my_msgq, m)
    BY <1>1, <1>8
  <2>2. /\ my_msgq' \in Seq(Message) /\ Len(my_msgq') = Len(my_msgq) + 1
        /\ \A a \in 1..Len(my_msgq) : my_msgq'[a] = my_msgq[a]
        /\ my_msgq'[Len(my_msgq) + 1] = m
    BY <1>1, <1>2, <2>1, AppendProperties DEF MqTypes
  <2>3. Len(my_msgq) \in Nat /\ DOMAIN my_msgq = 1..Len(my_msgq) /\ DOMAIN my_msgq' = 1..(Len(my_msgq) + 1)
    BY <1>1, <2>2, LenProperties DEF MqTypes
  <2>4. \A a \in DOMAIN my_msgq' : \/ a \in DOMAIN my_msgq /\ my_msgq'[a] = my_msgq[a]
                                   \/ a = Len(my_msgq) + 1 /\ my_msgq'[a] = m
    BY <2>2, <2>3
  <2>5. DOMAIN my_msgq \subseteq DOMAIN my_msgq' /\ Len(my_msgq) + 1 \in DOMAIN my_msgq'
    BY <2>3
  <2>6. MqTypes'
    BY <1>1, <1>3, <2>2 DEF MqTypes
  <2>7. Ordered'
    <3>1. \A a \in DOMAIN my_msgq' :
            got[my_msgq'[a].source] < my_msgq'[a].n /\ my_msgq'[a].n <= data'[my_msgq'[a].source]
      <4> SUFFICES ASSUME NEW a \in DOMAIN my_msgq'
                   PROVE  got[my_msgq'[a].source] < my_msgq'[a].n /\ my_msgq'[a].n <= data'[my_msgq'[a].source]
        OBVIOUS
      <4>1. CASE a \in DOMAIN my_msgq /\ my_msgq'[a] = my_msgq[a]
        BY <1>1, <1>3, <1>5, <4>1 DEF Ordered
      <4>2. CASE my_msgq'[a] = m
        BY <1>1, <1>2, <1>3, <4>2 DEF MqTypes
      <4> QED
        BY <2>4, <4>1, <4>2
    <3>2. ASSUME NEW a \in DOMAIN my_msgq', NEW b \in DOMAIN my_msgq', a < b,
                 my_msgq'[a].source = my_msgq'[b].source
          PROVE  my_msgq'[a].n < my_msgq'[b].n
      <4>1. a \in DOMAIN my_msgq /\ my_msgq'[a] = my_msgq[a]
        BY <2>3, <2>4, <3>2
      <4>2. CASE b \in DOMAIN my_msgq /\ my_msgq'[b] = my_msgq[b]
        BY <1>1, <3>2, <4>1, <4>2 DEF Ordered
      <4>3. CASE my_msgq'[b] = m
        <5>1. my_msgq[a].n <= data[s]
          BY <1>1, <1>2, <3>2, <4>1, <4>3 DEF Ordered
        <5> QED
          BY <1>1, <1>2, <1>5, <4>1, <4>3, <5>1
      <4> QED
        BY <2>4, <4>2, <4>3
    <3> QED
      BY <3>1, <3>2 DEF Ordered
  <2>8. Complete'
    <3> SUFFICES ASSUME mqProgram # "_05", NEW x \in Sources, NEW n \in (got[x] + 1)..data'[x]
                 PROVE  \E a \in DOMAIN my_msgq' : my_msgq'[a].source = x /\ my_msgq'[a].n = n
      BY DEF Complete
    <3>1. CASE n \in (got[x] + 1)..data[x]
      <4>1. PICK a \in DOMAIN my_msgq : my_msgq[a].source = x /\ my_msgq[a].n = n
        BY <1>1, <3>1 DEF Complete
      <4>2. a \in DOMAIN my_msgq' /\ my_msgq'[a] = my_msgq[a]
        BY <2>2, <2>3, <2>5
      <4> QED
        BY <4>1, <4>2
    <3>2. CASE x = s /\ n = data[s] + 1
      BY <1>2, <2>2, <2>5, <3>2
    <3> QED
      BY <1>3, <3>1, <3>2
  <2> QED
    BY <1>7, <2>6, <2>7, <2>8
<1>9. CASE ~(Len(my_msgq) < MsgqDepth)
  <2>1. my_msgq' = my_msgq /\ mqProgram = "_05"
    BY <1>1, <1>9
  <2>2. MqTypes'
    BY <1>1, <1>3, <2>1 DEF MqTypes
  <2>3. Ordered'
    BY <1>1, <1>3, <1>5, <2>1 DEF Ordered
  <2>4. Complete'
    BY <2>1 DEF Complete
  <2> QED
    BY <1>7, <2>2, <2>3, <2>4
<1> QED
  BY <1>8, <1>9

\* The receiver takes the first message, the next one of its source.
LEMMA GetKeeps ==
  ASSUME MqInv, GetMessage
  PROVE  MqTypes' /\ Ordered' /\ Complete' /\ [Msgs!Next]_(Msgs!deliveryVars)
<1> DEFINE h == my_msgq[1]
<1>1. /\ MqTypes /\ Ordered /\ Complete
      /\ my_msgq \in Seq(Message) /\ my_msgq # <<>> /\ my_msgq' = Tail(my_msgq)
      /\ got' = [got EXCEPT ![h.source] = h.n]
      /\ UNCHANGED <<mqProgram, active, data>>
  <2>1. h = Head(my_msgq)
    BY DEF GetMessage
  <2>2. /\ my_msgq # <<>> /\ my_msgq' = Tail(my_msgq)
        /\ got' = [got EXCEPT ![Head(my_msgq).source] = Head(my_msgq).n]
        /\ UNCHANGED <<mqProgram, active, data>>
    BY DEF GetMessage
  <2>3. MqTypes /\ Ordered /\ Complete /\ my_msgq \in Seq(Message)
    BY DEF MqInv, MqTypes
  <2> HIDE DEF h
  <2> QED
    BY <2>1, <2>2, <2>3
<1>2. Len(my_msgq) \in Nat \ {0} /\ DOMAIN my_msgq = 1..Len(my_msgq)
  BY <1>1, EmptySeq, LenProperties
<1>3. /\ my_msgq' \in Seq(Message) /\ Len(my_msgq') = Len(my_msgq) - 1
      /\ \A a \in 1..Len(my_msgq') : my_msgq'[a] = my_msgq[a + 1]
  BY <1>1, HeadTailProperties
<1>4. DOMAIN my_msgq' = 1..(Len(my_msgq) - 1)
  BY <1>3, LenProperties
<1>5. \A a \in DOMAIN my_msgq' : a + 1 \in DOMAIN my_msgq /\ 1 < a + 1 /\ my_msgq'[a] = my_msgq[a + 1]
  BY <1>2, <1>3, <1>4
<1>6. \A a \in DOMAIN my_msgq : my_msgq[a] \in Message
  BY <1>1, LenProperties
<1>7. \A a \in DOMAIN my_msgq : my_msgq[a].source \in Sources /\ my_msgq[a].n \in Nat
  BY <1>6 DEF Message
<1>8. 1 \in DOMAIN my_msgq
  BY <1>2
<1>9. h.source \in Sources /\ h.n \in Nat /\ got[h.source] < h.n /\ h.n <= data[h.source]
  BY <1>1, <1>7, <1>8 DEF Ordered
<1>10. \A b \in DOMAIN my_msgq : 1 < b /\ my_msgq[b].source = h.source => h.n < my_msgq[b].n
  BY <1>1, <1>8 DEF Ordered
<1> HIDE DEF h
<1>11. /\ got' \in [Sources -> Nat] /\ got'[h.source] = h.n
       /\ \A x \in Sources : x # h.source => got'[x] = got[x]
       /\ \A x \in Sources : data[x] \in Nat /\ got[x] \in Nat
  BY <1>1, <1>9 DEF MqTypes
<1>12. MqTypes'
  BY <1>1, <1>3, <1>9, <1>11 DEF MqTypes
<1>13. Ordered'
  <2>1. ASSUME NEW a \in DOMAIN my_msgq'
        PROVE  got'[my_msgq'[a].source] < my_msgq'[a].n /\ my_msgq'[a].n <= data[my_msgq'[a].source]
    <3>1. PICK b \in DOMAIN my_msgq : 1 < b /\ my_msgq'[a] = my_msgq[b]
      BY <1>5
    <3>2. got[my_msgq[b].source] < my_msgq[b].n /\ my_msgq[b].n <= data[my_msgq[b].source]
      BY <1>1 DEF Ordered
    <3>3. CASE my_msgq[b].source = h.source
      BY <1>10, <1>11, <3>1, <3>2, <3>3
    <3>4. CASE my_msgq[b].source # h.source
      BY <1>7, <1>11, <3>1, <3>2, <3>4
    <3> QED
      BY <3>3, <3>4
  <2>2. ASSUME NEW a \in DOMAIN my_msgq', NEW b \in DOMAIN my_msgq', a < b,
               my_msgq'[a].source = my_msgq'[b].source
        PROVE  my_msgq'[a].n < my_msgq'[b].n
    <3>1. a + 1 \in DOMAIN my_msgq /\ b + 1 \in DOMAIN my_msgq /\ a + 1 < b + 1
      BY <1>2, <1>4, <1>5, <2>2
    <3> QED
      BY <1>1, <1>5, <2>2, <3>1 DEF Ordered
  <2> QED
    BY <1>1, <2>1, <2>2 DEF Ordered
<1>14. Complete'
  <2> SUFFICES ASSUME mqProgram # "_05", NEW x \in Sources, NEW n \in (got'[x] + 1)..data[x]
               PROVE  \E a \in DOMAIN my_msgq' : my_msgq'[a].source = x /\ my_msgq'[a].n = n
    BY <1>1 DEF Complete
  <2>1. n \in (got[x] + 1)..data[x] /\ ~(x = h.source /\ n = h.n)
    BY <1>9, <1>11
  <2>2. PICK b \in DOMAIN my_msgq : my_msgq[b].source = x /\ my_msgq[b].n = n
    BY <1>1, <2>1 DEF Complete
  <2>3. b # 1
    BY <2>1, <2>2 DEF h
  <2>4. b - 1 \in DOMAIN my_msgq' /\ my_msgq'[b - 1] = my_msgq[b]
    BY <1>2, <1>3, <1>4, <2>3
  <2> QED
    BY <2>2, <2>4
<1>15. mqProgram # "_05" => h.n = got[h.source] + 1
  <2> SUFFICES ASSUME mqProgram # "_05" PROVE h.n = got[h.source] + 1
    OBVIOUS
  <2>1. got[h.source] + 1 \in (got[h.source] + 1)..data[h.source]
    BY <1>9, <1>11
  <2>2. PICK b \in DOMAIN my_msgq : my_msgq[b].source = h.source /\ my_msgq[b].n = got[h.source] + 1
    BY <1>1, <1>9, <2>1 DEF Complete
  <2>3. CASE b = 1
    BY <2>2, <2>3 DEF h
  <2>4. CASE b # 1
    <3>1. h.n < got[h.source] + 1
      BY <1>2, <1>10, <2>2, <2>4
    <3> QED
      BY <1>9, <1>11, <3>1
  <2> QED
    BY <2>3, <2>4
<1>16. Msgs!Take(h.source)
  <2>1. h.n \in (got[h.source] + 1)..data[h.source]
    BY <1>9, <1>11
  <2> QED
    BY <1>1, <1>9, <1>15, <2>1 DEF Msgs!Take
<1> QED
  BY <1>9, <1>12, <1>13, <1>14, <1>16 DEF Msgs!Next

\* A step that leaves the messages alone is a stutter of Delivery.
LEMMA QuietKeeps ==
  ASSUME MqInv, UNCHANGED <<mqProgram, active, my_msgq, data, got>>
  PROVE  MqTypes' /\ Ordered' /\ Complete' /\ [Msgs!Next]_(Msgs!deliveryVars)
<1>1. MqTypes' /\ Ordered' /\ Complete'
  BY DEF MqInv, MqTypes, Ordered, Complete
<1> QED
  BY <1>1 DEF Msgs!deliveryVars

\* Where the receiver has the higher priority, a sender that runs finds the queue empty.
LEMMA RoomForOne ==
  ASSUME MqInv, ~SenderWaits, mqProgram \in {"_01", "_02", "_03"}
  PROVE  Len(my_msgq) < MsgqDepth
<1>1. my_msgq = <<>>
  BY DEF MqInv, Controls, SenderWaits, ReceiverRuns
<1> QED
  BY <1>1, MsgQueuesAssumption

\* The senders, threads and interrupt: only the interrupt can find the queue full.
LEMMA SendersKeep ==
  ASSUME MqInv, MqSenders
  PROVE  MqInv' /\ [Msgs!Next]_(Msgs!deliveryVars)
<1>1. PICK s \in active : task_sender_mq01(s) \/ task_sender_mq02(s) \/ task_sender_mq03(s)
                            \/ task_sender_mq04(s) \/ main_mq05(s) \/ my_own_isr_mq05(s)
  BY DEF MqSenders
<1>2. /\ UNCHANGED <<mqProgram, active, initialised, rxPc, got>>
      /\ mqProgram = "_02" => initialised
      /\ \/ UNCHANGED <<my_msgq, data>>
         \/ Put(s) /\ (mqProgram = "_05" \/ Len(my_msgq) < MsgqDepth)
  <2>1. CASE task_sender_mq01(s)
    BY <2>1, RoomForOne DEF task_sender_mq01, Sender, WakeSender, SendOne
  <2>2. CASE task_sender_mq02(s)
    BY <2>2, RoomForOne DEF task_sender_mq02, Sender, WakeSender, SendOne
  <2>3. CASE task_sender_mq03(s)
    BY <2>3, RoomForOne DEF task_sender_mq03, Sender, WakeSender, SendOne
  <2>4. CASE task_sender_mq04(s)
    BY <2>4 DEF task_sender_mq04, WakeSender, Fill
  <2>5. CASE main_mq05(s)
    BY <2>5 DEF main_mq05, WakeSender
  <2>6. CASE my_own_isr_mq05(s)
    BY <2>6 DEF my_own_isr_mq05, SendOne
  <2> QED
    BY <1>1, <2>1, <2>2, <2>3, <2>4, <2>5, <2>6
<1>3. MqTypes' /\ Ordered' /\ Complete' /\ [Msgs!Next]_(Msgs!deliveryVars)
  BY <1>2, PutKeeps, QuietKeeps
<1> QED
  BY <1>2, <1>3 DEF MqInv, Controls

\* The receivers take one message, or only move.
LEMMA ReceiversKeep ==
  ASSUME MqInv, MqReceivers
  PROVE  MqInv' /\ [Msgs!Next]_(Msgs!deliveryVars)
<1>1. /\ UNCHANGED <<mqProgram, initialised>>
      /\ mqProgram = "_02" => initialised
      /\ mqProgram # "_04" => rxPc' \in {"get", "print"}
      /\ GetMessage \/ UNCHANGED <<active, my_msgq, data, got>>
  <2>1. ASSUME Receiver
        PROVE  /\ UNCHANGED <<mqProgram, initialised>> /\ rxPc' \in {"get", "print"}
               /\ GetMessage \/ UNCHANGED <<active, my_msgq, data, got>>
    BY <2>1 DEF Receiver, GetMessage, RxMoves
  <2>2. CASE task_receiver_mq04
    BY <2>2 DEF task_receiver_mq04, GetMessage, RxMoves
  <2>3. CASE ~task_receiver_mq04
    <3>1. Receiver /\ (mqProgram = "_02" => initialised)
      BY <2>3 DEF MqReceivers, task_receiver_mq01, task_receiver_mq02, task_receiver_mq03,
                  task_receiver_mq05
    <3> QED
      BY <2>1, <3>1
  <2> QED
    BY <2>2, <2>3
<1>2. MqTypes' /\ Ordered' /\ Complete' /\ [Msgs!Next]_(Msgs!deliveryVars)
  BY <1>1, GetKeeps, QuietKeeps
<1>3. Controls'
  BY <1>1 DEF MqInv, Controls
<1> QED
  BY <1>2, <1>3 DEF MqInv

\* Every step keeps the invariant and is a step or a stutter of Delivery.
LEMMA MqNextKeeps ==
  MqInv /\ [MqNext]_mqVars => MqInv' /\ [Msgs!Next]_(Msgs!deliveryVars)
<1> SUFFICES ASSUME MqInv, [MqNext]_mqVars PROVE MqInv' /\ [Msgs!Next]_(Msgs!deliveryVars)
  OBVIOUS
<1>1. CASE main_mq02
  <2>1. UNCHANGED <<mqProgram, active, my_msgq, data, rxPc, got>> /\ initialised'
    BY <1>1 DEF main_mq02, MqInv, Controls
  <2>2. Controls'
    BY <2>1 DEF MqInv, Controls
  <2> QED
    BY <2>1, <2>2, QuietKeeps DEF MqInv
<1>2. CASE UNCHANGED mqVars
  <2>1. Controls'
    BY <1>2 DEF MqInv, Controls, mqVars
  <2> QED
    BY <1>2, <2>1, QuietKeeps DEF MqInv, mqVars
<1> QED
  BY <1>1, <1>2, SendersKeep, ReceiversKeep DEF MqNext

\* kernel/MQUEUES: for every number of senders, depth of the queue and number of messages, the
\* samples implement Delivery: whatever k_msgq_put says, each message of _01 to _04 is received
\* once and in order, and what the interrupt of _05 gets into the queue is in order too.
THEOREM QueueDelivers == MqSpec => MsgsDelivered
<1> QED
  BY MqInitInv, MqNextKeeps, PTL DEF MqSpec, MsgsDelivered, Msgs!Spec
-----------------------------------------------------------------------------
(* WorkItems *)

\* Except in _05, main submits only when the item is idle, so at most one submission has not
\* been handled.  In _05 the handler, which reads the latest number, is never ahead.
WqInv ==
  /\ submitted \in Nat /\ printed \in Nat /\ printed <= submitted
  /\ wqProgram # "_05" =>
       /\ work_to_queue \in {{}, {"delayed"}, {"queued"}, {"running"}}
       /\ printed = IF work_to_queue = {} /\ wqMainPc # "interrupt" THEN submitted ELSE submitted - 1
       /\ wqMainPc = "interrupt" => work_to_queue = {}
       /\ wqMainPc = "run" => work_to_queue # {"delayed"}

\* Steps that submit, in an item that is idle or in _05.
LEMMA SubmitKeeps ==
  ASSUME WqInv, MainGoes, wqMainPc = "run", submitted' = submitted + 1, printed' = printed,
         UNCHANGED wqProgram,
         \/ wqMainPc' = "sleep" /\ (k_work_submit \/ k_work_schedule)
         \/ wqMainPc' = "interrupt" /\ work_to_queue' = work_to_queue
  PROVE  WqInv'
<1>1. wqProgram # "_05" => work_to_queue = {} /\ work_to_queue' \in {{}, {"delayed"}, {"queued"}}
                           /\ (work_to_queue' = {} <=> wqMainPc' = "interrupt")
  BY DEF WqInv, MainGoes, ItemDue, k_work_submit, k_work_schedule
<1> QED
  BY <1>1 DEF WqInv

\* Every step keeps the invariant and is a step of Delivery.
LEMMA WqStep ==
  ASSUME WqInv, WqNext
  PROVE  /\ WqInv' /\ UNCHANGED wqProgram
         /\ \/ submitted' = submitted + 1 /\ printed' = printed
            \/ submitted' = submitted /\ printed' \in {printed, submitted}
<1>1. UNCHANGED wqProgram
  BY DEF WqNext, WqMain, main_wq01, main_wq02, main_wq03, main_wq04, main_wq05, main_wq06,
         SubmitAndSleep, WakeMain, my_own_isr_wq06, DelayOver, TakeItem, WqHandlers, WorkHandler,
         work_handler_wq01, work_handler_wq02, work_handler_wq03, work_handler_wq04,
         work_handler_wq05, work_handler_wq06
<1>2. CASE SubmitAndSleep(k_work_submit) \/ SubmitAndSleep(k_work_schedule)
  BY <1>1, <1>2, SubmitKeeps DEF SubmitAndSleep
<1>3. CASE WakeMain
  BY <1>1, <1>3 DEF WakeMain, SleepOver, WqInv
<1>4. CASE main_wq06
  <2>1. CASE WakeMain
    BY <1>3, <2>1
  <2>2. CASE ~WakeMain
    BY <1>1, <1>4, <2>2, SubmitKeeps DEF main_wq06
  <2> QED
    BY <2>1, <2>2
<1>5. CASE my_own_isr_wq06
  BY <1>1, <1>5 DEF my_own_isr_wq06, k_work_submit, WqInv
<1>6. CASE DelayOver \/ TakeItem
  <2>1. wqMainPc' = wqMainPc /\ submitted' = submitted /\ printed' = printed
    BY <1>6 DEF DelayOver, TakeItem
  <2>2. wqProgram # "_05" => work_to_queue # {} /\ work_to_queue' \in {{"queued"}, {"running"}}
    BY <1>6 DEF DelayOver, TakeItem, WqInv
  <2> QED
    BY <1>1, <2>1, <2>2 DEF WqInv
<1>7. CASE WorkHandler
  BY <1>1, <1>7 DEF WorkHandler, WqInv
<1> QED
  BY <1>2, <1>3, <1>4, <1>5, <1>6, <1>7
  DEF WqNext, WqMain, main_wq01, main_wq02, main_wq03, main_wq04, main_wq05, WqHandlers,
      work_handler_wq01, work_handler_wq02, work_handler_wq03, work_handler_wq04,
      work_handler_wq05, work_handler_wq06

\* The invariant holds at the start, where nothing was submitted.
LEMMA WqInitInv == WqInit => WqInv /\ Items!Init
  BY DEF WqInit, WqInv, Items!Init, Items!deliveryVars

\* It is kept, and every step is a step of Delivery or none.
LEMMA WqNextKeeps == WqInv /\ [WqNext]_wqVars => WqInv' /\ [Items!Next]_(Items!deliveryVars)
<1> USE DEF Items!deliveryVars
<1> SUFFICES ASSUME WqInv, [WqNext]_wqVars PROVE WqInv' /\ [Items!Next]_(Items!deliveryVars)
  OBVIOUS
<1>1. CASE UNCHANGED wqVars
  BY <1>1 DEF wqVars, WqInv
<1>2. CASE WqNext
  <2>1. WqInv' /\ UNCHANGED wqProgram
    BY <1>2, WqStep
  <2>2. CASE submitted' = submitted + 1 /\ printed' = printed
    <3>1. Items!Send({"main"})
      BY <2>1, <2>2 DEF Items!Send, WqInv
    <3> QED
      BY <2>1, <3>1 DEF Items!Next
  <2>3. CASE submitted' = submitted /\ printed' = printed
    BY <2>1, <2>3
  <2>4. CASE submitted' = submitted /\ printed' = submitted /\ printed # submitted
    <3>1. /\ submitted \in (printed + 1)..submitted
          /\ wqProgram # "_05" => submitted = printed + 1
      BY <2>4 DEF WqInv
    <3>2. Items!Take("main")
      BY <2>1, <2>4, <3>1 DEF Items!Take
    <3> QED
      BY <2>1, <3>2 DEF Items!Next
  <2> QED
    BY <1>2, <2>2, <2>3, <2>4, WqStep
<1> QED
  BY <1>1, <1>2

\* Every submission is handled once, in order, and with the number it was made with.
THEOREM ItemsDelivered == WqSpec => ItemsSeen
  BY WqInitInv, WqNextKeeps, PTL DEF WqSpec, ItemsSeen, Items!Spec
-----------------------------------------------------------------------------
(* Zbus *)

\* q holds the numbers from lo + 1 to hi.
Numbers(q, lo, hi) ==
  q \in Seq(Nat) /\ Len(q) = hi - lo /\ \A k \in 1..Len(q) : q[k] = lo + k

ZbTypes ==
  /\ zbProgram \in ZbPrograms /\ chan \in Channels /\ refs \in Seq(Channels)
  /\ minor \in [Channels -> Nat] /\ channel \in [Channels -> Nat] /\ seen \in [Observers -> Nat]

\* A listener is behind only between the publication and its call.
ListenerInv ==
  zbProgram \in {"_02", "_08"} =>
    /\ channel["channel_1"] = minor["channel_1"]
    /\ seen[<<"listener", "channel_1">>] =
         IF zbMainPc = "listener" THEN minor["channel_1"] - 1 ELSE minor["channel_1"]

\* What an asynchronous listener or a message subscriber has not seen waits for it, in order.
QueuesInv ==
  /\ zbProgram \in {"_03", "_06"} =>
       Numbers(pending, seen[<<"async", "channel_1">>], minor["channel_1"])
  /\ zbProgram \in {"_05", "_06"} =>
       Numbers(fifo, seen[<<"task", "channel_1">>], minor["channel_1"])

\* A channel holds nothing older than what was read from it; only a reader locks a channel.
ReaderInv ==
  /\ taskPc # "wait" => zbProgram \in {"_04", "_07"}
  /\ zbProgram \in {"_04", "_07"} =>
       \A c \in Channels : seen[<<"task", c>>] <= channel[c] /\ channel[c] <= minor[c]

ZbInv == ZbTypes /\ ListenerInv /\ QueuesInv /\ ReaderInv

\* The next number goes to the end.
LEMMA NumbersAppend ==
  ASSUME NEW q, NEW lo \in Nat, NEW hi \in Nat, Numbers(q, lo, hi)
  PROVE  Numbers(Append(q, hi + 1), lo, hi + 1)
<1> DEFINE r == Append(q, hi + 1)
<1>1. q \in Seq(Nat) /\ Len(q) = hi - lo /\ Len(q) \in Nat /\ \A k \in 1..Len(q) : q[k] = lo + k
  BY LenProperties DEF Numbers
<1>2. /\ r \in Seq(Nat) /\ Len(r) = Len(q) + 1
      /\ \A k \in 1..Len(q) : r[k] = q[k]
      /\ r[Len(q) + 1] = hi + 1
  BY <1>1, AppendProperties
<1> HIDE DEF r
<1>3. Numbers(r, lo, hi + 1)
  BY <1>1, <1>2 DEF Numbers
<1> QED
  BY <1>3 DEF r

\* The first number is the next one, and the rest follows it.
LEMMA NumbersTake ==
  ASSUME NEW q, NEW lo \in Nat, NEW hi \in Nat, Numbers(q, lo, hi), q # <<>>
  PROVE  Head(q) = lo + 1 /\ lo + 1 <= hi /\ Numbers(Tail(q), lo + 1, hi)
<1>1. /\ q \in Seq(Nat) /\ Len(q) = hi - lo /\ Len(q) \in Nat \ {0}
      /\ \A k \in 1..Len(q) : q[k] = lo + k
  BY LenProperties, EmptySeq DEF Numbers
<1>2. /\ Tail(q) \in Seq(Nat) /\ Len(Tail(q)) = Len(q) - 1
      /\ \A k \in 1..Len(Tail(q)) : Tail(q)[k] = q[k + 1]
  BY <1>1, HeadTailProperties
<1>3. Head(q) = q[1]
  BY <1>1
<1>4. Head(q) = lo + 1 /\ lo + 1 <= hi
  BY <1>1, <1>3
<1>5. \A k \in 1..Len(Tail(q)) : Tail(q)[k] = lo + 1 + k
  BY <1>1, <1>2
<1> QED
  BY <1>1, <1>2, <1>4, <1>5 DEF Numbers

\* Nothing was published and nothing seen at the start.
LEMMA ZbInitInv == ZbInit => ZbInv /\ Messages!Init
<1> SUFFICES ASSUME ZbInit PROVE ZbInv /\ Messages!Init
  OBVIOUS
<1>1. \A c \in Channels : minor[c] = 0 /\ channel[c] = 0
  BY DEF ZbInit
<1>2. \A o \in Observers : seen[o] = 0
  BY DEF ZbInit
<1>3. \A c \in Channels, k \in {"listener", "async", "task"} : <<k, c>> \in Observers
  BY DEF Observers
<1>4. "channel_1" \in Channels
  BY DEF Channels
<1>5. ZbTypes
  BY <1>4 DEF ZbInit, ZbTypes
<1>6. Numbers(<<>>, 0, 0)
  BY DEF Numbers
<1>7. ListenerInv /\ QueuesInv /\ ReaderInv
  BY <1>1, <1>2, <1>3, <1>4, <1>6 DEF ZbInit, ListenerInv, QueuesInv, ReaderInv, Channels
<1>8. \A o \in Observers : o[2] \in Channels
  BY DEF Observers
<1>9. Messages!Init
  BY <1>1, <1>8 DEF ZbInit, Messages!Init
<1> QED
  BY <1>5, <1>7, <1>9 DEF ZbInv

\* A publication is sent to the observers of its channel.
LEMMA PublishSends ==
  ASSUME ZbTypes, NEW c \in Channels, minor' = [minor EXCEPT ![c] = @ + 1], UNCHANGED <<zbProgram, seen>>
  PROVE  /\ [Messages!Next]_(Messages!deliveryVars)
         /\ minor' \in [Channels -> Nat] /\ minor'[c] = minor[c] + 1
         /\ \A d \in Channels : d # c => minor'[d] = minor[d]
<1> DEFINE S == {o \in Observers : o[2] = c}
<1>1. /\ minor' \in [Channels -> Nat] /\ minor'[c] = minor[c] + 1
      /\ \A d \in Channels : d # c => minor'[d] = minor[d]
  BY DEF ZbTypes
<1>2. \A o \in Observers : o[2] \in Channels
  BY DEF Observers
<1>3. \A o \in Observers : minor'[o[2]] = IF o \in S THEN minor[o[2]] + 1 ELSE minor[o[2]]
  BY <1>1, <1>2
<1>4. Messages!Send(S)
  BY <1>3 DEF Messages!Send
<1>5. S \in SUBSET Observers
  OBVIOUS
<1> HIDE DEF S
<1>6. Messages!Next
  BY <1>4, <1>5 DEF Messages!Next
<1> QED
  BY <1>1, <1>6

\* An observer that sees the next message, or being lossy one that is not older, takes it.
LEMMA SeesTakes ==
  ASSUME ZbTypes, NEW o \in Observers, NEW n \in Nat, Sees(o, n), UNCHANGED <<zbProgram, minor>>,
         seen[o] <= n, n <= minor[o[2]],
         n = seen[o] + 1 \/ (o[1] = "task" /\ zbProgram \in {"_04", "_07"})
  PROVE  /\ [Messages!Next]_(Messages!deliveryVars)
         /\ seen' \in [Observers -> Nat] /\ seen'[o] = n
         /\ \A p \in Observers : p # o => seen'[p] = seen[p]
<1>1. /\ seen' \in [Observers -> Nat] /\ seen'[o] = n
      /\ \A p \in Observers : p # o => seen'[p] = seen[p]
  BY DEF ZbTypes, Sees
<1>2. CASE n = seen[o]
  <2>1. seen' = seen
    BY <1>2 DEF ZbTypes, Sees
  <2> QED
    BY <1>1, <2>1 DEF Messages!deliveryVars
<1>3. CASE n # seen[o]
  <2>1. o[2] \in Channels /\ minor[o[2]] \in Nat /\ seen[o] \in Nat
    BY DEF ZbTypes, Observers
  <2>2. n \in (seen[o] + 1)..minor[o[2]]
    BY <1>3, <2>1
  <2>3. Messages!Take(o)
    BY <2>1, <2>2 DEF Messages!Take, Sees
  <2>4. Messages!Next
    BY <2>3 DEF Messages!Next
  <2> QED
    BY <1>1, <2>4
<1> QED
  BY <1>2, <1>3

\* The observers of the samples are different ones.
LEMMA ObserverNames ==
  /\ Channels = {"channel_1", "channel_2"} /\ "channel_1" \in Channels /\ "channel_1" # "channel_2"
  /\ \A c \in Channels, k \in {"listener", "async", "task"} :
       <<k, c>> \in Observers /\ <<k, c>>[1] = k /\ <<k, c>>[2] = c
  /\ \A c, d : <<"listener", c>> # <<"async", d>> /\ <<"listener", c>> # <<"task", d>>
               /\ <<"async", c>> # <<"task", d>>
  BY DEF Channels, Observers

\* main publishes on channel_1, and in _07 on channel_2 as well.
LEMMA PublishKeeps ==
  ASSUME ZbInv, NEW c, NEW to, PublishOn(c, to),
         c = "channel_1" \/ (c = "channel_2" /\ zbProgram = "_07"),
         to = "listener" <=> zbProgram \in {"_02", "_08"}
  PROVE  ZbInv' /\ [Messages!Next]_(Messages!deliveryVars)
<1>1. /\ c \in Channels /\ zbMainPc = c /\ zbMainPc' = to /\ zbMainPc # "listener"
      /\ minor' = [minor EXCEPT ![c] = @ + 1]
      /\ zbus_chan_pub(c, minor[c] + 1)
      /\ UNCHANGED <<zbProgram, taskPc, chan, seen>>
  BY ObserverNames DEF PublishOn
<1>2. ZbTypes /\ ListenerInv /\ QueuesInv /\ ReaderInv
  BY DEF ZbInv
<1>3. /\ [Messages!Next]_(Messages!deliveryVars)
      /\ minor' \in [Channels -> Nat] /\ minor'[c] = minor[c] + 1
      /\ \A d \in Channels : d # c => minor'[d] = minor[d]
  BY <1>1, <1>2, PublishSends
<1>4. /\ \A d \in Channels : minor[d] \in Nat /\ channel[d] \in Nat
      /\ \A o \in Observers : seen[o] \in Nat
  BY <1>2 DEF ZbTypes
<1>5. CASE taskPc = "locked" /\ chan = c
  <2>1. UNCHANGED <<channel, pending, fifo, refs>> /\ zbProgram \in {"_04", "_07"}
    BY <1>1, <1>2, <1>5 DEF zbus_chan_pub, ReaderInv
  <2>2. ZbTypes' /\ ListenerInv' /\ QueuesInv'
    BY <1>1, <1>2, <1>3, <2>1 DEF ZbTypes, ListenerInv, QueuesInv
  <2>3. ReaderInv'
    BY <1>1, <1>2, <1>3, <1>4, <2>1, ObserverNames DEF ReaderInv
  <2> QED
    BY <1>3, <2>2, <2>3 DEF ZbInv
<1>6. CASE ~(taskPc = "locked" /\ chan = c)
  <2>1. channel' = [channel EXCEPT ![c] = minor[c] + 1] /\ Notify(c, minor[c] + 1)
    BY <1>1, <1>6 DEF zbus_chan_pub
  <2>2. /\ channel' \in [Channels -> Nat] /\ channel'[c] = minor[c] + 1
        /\ \A d \in Channels : d # c => channel'[d] = channel[d]
    BY <1>1, <1>2, <1>4, <2>1 DEF ZbTypes
  <2>3. ZbTypes'
    <3>1. refs' \in Seq(Channels)
      BY <1>1, <1>2, <2>1, AppendProperties DEF Notify, ZbTypes
    <3> QED
      BY <1>1, <1>2, <1>3, <2>2, <3>1 DEF ZbTypes
  <2>4. ListenerInv'
    BY <1>1, <1>2, <1>3, <1>4, <2>2 DEF ListenerInv
  <2>5. QueuesInv'
    <3>1. zbProgram \in {"_03", "_06"} =>
            Numbers(pending', seen[<<"async", "channel_1">>], minor["channel_1"] + 1)
      BY <1>2, <1>4, <2>1, NumbersAppend, ObserverNames DEF Notify, QueuesInv
    <3>2. zbProgram \in {"_05", "_06"} =>
            Numbers(fifo', seen[<<"task", "channel_1">>], minor["channel_1"] + 1)
      BY <1>2, <1>4, <2>1, NumbersAppend, ObserverNames DEF Notify, QueuesInv
    <3> QED
      BY <1>1, <1>3, <3>1, <3>2 DEF QueuesInv
  <2>6. ReaderInv'
    BY <1>1, <1>2, <1>3, <1>4, <2>2, ObserverNames DEF ReaderInv
  <2> QED
    BY <1>3, <2>3, <2>4, <2>5, <2>6 DEF ZbInv
<1> QED
  BY <1>5, <1>6

\* Steps that neither publish nor show anything.
LEMMA ZbQuietKeeps ==
  ASSUME ZbInv, UNCHANGED <<zbProgram, minor, channel, pending, fifo, seen>>,
         chan' \in Channels, refs' \in Seq(Channels),
         taskPc' # "wait" => zbProgram \in {"_04", "_07"},
         zbProgram \in {"_02", "_08"} => (zbMainPc' = "listener" <=> zbMainPc = "listener")
  PROVE  ZbInv' /\ [Messages!Next]_(Messages!deliveryVars)
<1>1. ZbTypes' /\ ListenerInv' /\ QueuesInv' /\ ReaderInv'
  BY DEF ZbInv, ZbTypes, ListenerInv, QueuesInv, ReaderInv
<1>2. UNCHANGED Messages!deliveryVars
  BY DEF Messages!deliveryVars
<1> QED
  BY <1>1, <1>2 DEF ZbInv

\* The listener is shown what main has just published.
LEMMA ListenerKeeps ==
  ASSUME ZbInv, ListenerCallback, zbProgram \in {"_02", "_08"}
  PROVE  ZbInv' /\ [Messages!Next]_(Messages!deliveryVars)
<1> DEFINE o == <<"listener", "channel_1">>
<1> DEFINE n == channel["channel_1"]
<1>1. /\ zbMainPc = "listener" /\ zbMainPc' # "listener" /\ Sees(o, n)
      /\ UNCHANGED <<zbProgram, minor, channel, pending, fifo, refs, taskPc, chan>>
  BY DEF ListenerCallback
<1>2. ZbTypes /\ ListenerInv /\ QueuesInv /\ ReaderInv
  BY DEF ZbInv
<1>3. o \in Observers /\ o[2] = "channel_1" /\ n \in Nat /\ seen[o] \in Nat /\ minor[o[2]] \in Nat
  BY <1>2, ObserverNames DEF ZbTypes
<1>4. n = minor["channel_1"] /\ seen[o] = n - 1
  BY <1>1, <1>2 DEF ListenerInv
<1> HIDE DEF n
<1>5. /\ [Messages!Next]_(Messages!deliveryVars)
      /\ seen' \in [Observers -> Nat] /\ seen'[o] = n
      /\ \A p \in Observers : p # o => seen'[p] = seen[p]
  BY <1>1, <1>2, <1>3, <1>4, SeesTakes
<1>6. ZbTypes' /\ ListenerInv' /\ QueuesInv' /\ ReaderInv'
  BY <1>1, <1>2, <1>4, <1>5 DEF ZbTypes, ListenerInv, QueuesInv, ReaderInv, n
<1> QED
  BY <1>5, <1>6 DEF ZbInv

\* The asynchronous listener is shown the first message that waits for it.
LEMMA AsyncKeeps ==
  ASSUME ZbInv, AsyncCallback, zbProgram \in {"_03", "_06"}
  PROVE  ZbInv' /\ [Messages!Next]_(Messages!deliveryVars)
<1> DEFINE o == <<"async", "channel_1">>
<1> DEFINE n == Head(pending)
<1>1. /\ pending # <<>> /\ Sees(o, n) /\ pending' = Tail(pending)
      /\ UNCHANGED <<zbProgram, zbMainPc, minor, channel, fifo, refs, taskPc, chan>>
  BY DEF AsyncCallback
<1>2. ZbTypes /\ ListenerInv /\ QueuesInv /\ ReaderInv
  BY DEF ZbInv
<1>3. /\ o \in Observers /\ o[2] = "channel_1" /\ seen[o] \in Nat /\ minor["channel_1"] \in Nat
      /\ o # <<"task", "channel_1">>
  BY <1>2, ObserverNames DEF ZbTypes
<1>4. /\ n = seen[o] + 1 /\ n <= minor["channel_1"]
      /\ Numbers(pending', seen[o] + 1, minor["channel_1"])
  BY <1>1, <1>2, <1>3, NumbersTake DEF QueuesInv
<1> HIDE DEF n
<1>5. /\ [Messages!Next]_(Messages!deliveryVars)
      /\ seen' \in [Observers -> Nat] /\ seen'[o] = n
      /\ \A p \in Observers : p # o => seen'[p] = seen[p]
  BY <1>1, <1>2, <1>3, <1>4, SeesTakes
<1>6. ZbTypes' /\ ListenerInv' /\ ReaderInv'
  BY <1>1, <1>2, <1>5 DEF ZbTypes, ListenerInv, ReaderInv
<1>7. QueuesInv'
  <2>1. seen'[<<"task", "channel_1">>] = seen[<<"task", "channel_1">>]
    BY <1>3, <1>5, ObserverNames
  <2> QED
    BY <1>1, <1>2, <1>4, <1>5, <2>1 DEF QueuesInv
<1> QED
  BY <1>5, <1>6, <1>7 DEF ZbInv

\* The message subscriber takes its first message.
LEMMA MessageKeeps ==
  ASSUME ZbInv, TakeMessage, zbProgram \in {"_05", "_06"}
  PROVE  ZbInv' /\ [Messages!Next]_(Messages!deliveryVars)
<1> DEFINE o == <<"task", "channel_1">>
<1> DEFINE n == Head(fifo)
<1>1. /\ fifo # <<>> /\ Sees(o, n) /\ fifo' = Tail(fifo)
      /\ UNCHANGED <<zbProgram, zbMainPc, minor, channel, pending, refs, taskPc, chan>>
  BY DEF TakeMessage, zbus_sub_wait_msg
<1>2. ZbTypes /\ ListenerInv /\ QueuesInv /\ ReaderInv
  BY DEF ZbInv
<1>3. /\ o \in Observers /\ o[2] = "channel_1" /\ seen[o] \in Nat /\ minor["channel_1"] \in Nat
      /\ o # <<"async", "channel_1">>
  BY <1>2, ObserverNames DEF ZbTypes
<1>4. /\ n = seen[o] + 1 /\ n <= minor["channel_1"]
      /\ Numbers(fifo', seen[o] + 1, minor["channel_1"])
  BY <1>1, <1>2, <1>3, NumbersTake DEF QueuesInv
<1> HIDE DEF n
<1>5. /\ [Messages!Next]_(Messages!deliveryVars)
      /\ seen' \in [Observers -> Nat] /\ seen'[o] = n
      /\ \A p \in Observers : p # o => seen'[p] = seen[p]
  BY <1>1, <1>2, <1>3, <1>4, SeesTakes
<1>6. ZbTypes' /\ ListenerInv' /\ ReaderInv'
  BY <1>1, <1>2, <1>5 DEF ZbTypes, ListenerInv, ReaderInv
<1>7. QueuesInv'
  <2>1. seen'[<<"async", "channel_1">>] = seen[<<"async", "channel_1">>]
    BY <1>3, <1>5, ObserverNames
  <2> QED
    BY <1>1, <1>2, <1>4, <1>5, <2>1 DEF QueuesInv
<1> QED
  BY <1>5, <1>6, <1>7 DEF ZbInv

\* A reader is shown what its channel holds by then.
LEMMA CopyKeeps ==
  ASSUME ZbInv, CopyMessage, zbProgram \in {"_04", "_07"}
  PROVE  ZbInv' /\ [Messages!Next]_(Messages!deliveryVars)
<1> DEFINE o == <<"task", chan>>
<1> DEFINE n == channel[chan]
<1>1. /\ taskPc' = "wait" /\ Sees(o, n)
      /\ UNCHANGED <<zbProgram, zbMainPc, minor, channel, pending, fifo, refs, chan>>
  BY DEF CopyMessage, TaskMoves
<1>2. ZbTypes /\ ListenerInv /\ QueuesInv /\ ReaderInv
  BY DEF ZbInv
<1>3. /\ chan \in Channels /\ o \in Observers /\ o[1] = "task" /\ o[2] = chan /\ n \in Nat
      /\ seen[o] <= n /\ n <= minor[chan]
  BY <1>2, ObserverNames DEF ZbTypes, ReaderInv
<1> HIDE DEF n
<1>4. /\ [Messages!Next]_(Messages!deliveryVars)
      /\ seen' \in [Observers -> Nat] /\ seen'[o] = n
      /\ \A p \in Observers : p # o => seen'[p] = seen[p]
  BY <1>1, <1>2, <1>3, SeesTakes
<1>5. ZbTypes' /\ ListenerInv' /\ QueuesInv'
  BY <1>1, <1>2, <1>4 DEF ZbTypes, ListenerInv, QueuesInv
<1>6. ReaderInv'
  <2>1. ASSUME NEW c \in Channels PROVE seen'[<<"task", c>>] <= channel[c] /\ channel[c] <= minor[c]
    <3>1. CASE c = chan
      BY <1>2, <1>3, <1>4, <3>1 DEF ReaderInv, ZbTypes, n
    <3>2. CASE c # chan
      <4>1. <<"task", c>> \in Observers /\ <<"task", c>> # o
        BY <3>2, ObserverNames
      <4> QED
        BY <1>2, <1>4, <4>1 DEF ReaderInv
    <3> QED
      BY <3>1, <3>2
  <2> QED
    BY <1>1, <2>1 DEF ReaderInv
<1> QED
  BY <1>4, <1>5, <1>6 DEF ZbInv

\* Every step of main.
LEMMA ZbMainKeeps ==
  ASSUME ZbInv, ZbMain
  PROVE  ZbInv' /\ [Messages!Next]_(Messages!deliveryVars)
<1>1. CASE WakeZb
  BY <1>1, ZbQuietKeeps DEF WakeZb, ZbInv, ZbTypes, ReaderInv
<1>2. CASE main_zb02 \/ main_zb08
  BY <1>1, <1>2, PublishKeeps DEF main_zb02, main_zb08
<1>3. CASE main_zb03 \/ main_zb04 \/ main_zb05 \/ main_zb06
  BY <1>1, <1>3, PublishKeeps DEF main_zb03, main_zb04, main_zb05, main_zb06
<1>4. CASE main_zb07
  BY <1>1, <1>4, PublishKeeps DEF main_zb07
<1> QED
  BY <1>2, <1>3, <1>4 DEF ZbMain

\* Every step of an observer.
LEMMA ZbObserversKeep ==
  ASSUME ZbInv, ZbObservers
  PROVE  ZbInv' /\ [Messages!Next]_(Messages!deliveryVars)
<1>1. CASE listener_callback_02 \/ listener_callback_08
  BY <1>1, ListenerKeeps DEF listener_callback_02, listener_callback_08
<1>2. CASE async_listener_callback_03 \/ async_listener_callback_06
  BY <1>2, AsyncKeeps DEF async_listener_callback_03, async_listener_callback_06
<1>3. CASE msg_subscriber_task_05 \/ msg_subscriber_task_06
  BY <1>3, MessageKeeps DEF msg_subscriber_task_05, msg_subscriber_task_06
<1>4. CASE LockChannel /\ zbProgram \in {"_04", "_07"}
  BY <1>4, ZbQuietKeeps DEF LockChannel, TaskMoves, ZbInv, ZbTypes
<1>5. CASE subscriber_task_04
  <2>1. CASE /\ TaskMoves("wait", "read")
             /\ UNCHANGED <<zbProgram, zbMainPc, minor, channel, pending, fifo, refs, chan, seen>>
    BY <1>5, <2>1, ZbQuietKeeps DEF subscriber_task_04, TaskMoves, ZbInv, ZbTypes
  <2> QED
    BY <1>4, <1>5, <2>1, CopyKeeps DEF subscriber_task_04
<1>6. CASE subscriber_task_07
  <2>1. CASE zbus_sub_wait
    <3>1. chan' \in Channels /\ refs' \in Seq(Channels)
      BY <2>1, HeadTailProperties DEF zbus_sub_wait, ZbInv, ZbTypes
    <3> QED
      BY <1>6, <2>1, <3>1, ZbQuietKeeps DEF subscriber_task_07, zbus_sub_wait, TaskMoves
  <2> QED
    BY <1>4, <1>6, <2>1, CopyKeeps DEF subscriber_task_07
<1> QED
  BY <1>1, <1>2, <1>3, <1>5, <1>6 DEF ZbObservers

\* The invariant is kept, and every step is a step of Delivery or none.
LEMMA ZbNextKeeps == ZbInv /\ [ZbNext]_zbVars => ZbInv' /\ [Messages!Next]_(Messages!deliveryVars)
<1> SUFFICES ASSUME ZbInv, [ZbNext]_zbVars PROVE ZbInv' /\ [Messages!Next]_(Messages!deliveryVars)
  OBVIOUS
<1>1. CASE UNCHANGED zbVars
  BY <1>1, ZbQuietKeeps DEF zbVars, ZbInv, ZbTypes, ReaderInv
<1> QED
  BY <1>1, ZbMainKeeps, ZbObserversKeep DEF ZbNext

\* kernel/ZBUS: for any number of publications and any size of the subscriber's queue, the
\* samples implement Delivery: a listener, an asynchronous listener and a message subscriber are
\* shown every message once and in order, a subscriber never one that is older than the last.
THEOREM ObserversServed == ZbSpec => ObserversSee
  BY ZbInitInv, ZbNextKeeps, PTL DEF ZbSpec, ObserversSee, Messages!Spec
-----------------------------------------------------------------------------
(* Types *)

\* A message that is put leaves the queue inside its limit.
LEMMA PutTypes ==
  ASSUME MqTypeOK, NEW s \in Sources, Put(s)
  PROVE  /\ my_msgq' \in Seq(Message) /\ Len(my_msgq') <= MsgqDepth
         /\ data' \in [Sources -> 0..MaxData]
<1> DEFINE m == [source |-> s, n |-> data[s] + 1]
<1>1. data[s] \in 0..MaxData /\ data[s] < MaxData
  BY DEF MqTypeOK, Put
<1>2. data[s] + 1 \in 1..MaxData /\ data' = [data EXCEPT ![s] = data[s] + 1]
  BY <1>1, MsgQueuesAssumption DEF Put
<1>3. m \in Message
  BY <1>2 DEF Message
<1>4. my_msgq' = IF Len(my_msgq) < MsgqDepth THEN Append(my_msgq, m) ELSE my_msgq
  BY DEF Put, k_msgq_put
<1> HIDE DEF m
<1>5. /\ Append(my_msgq, m) \in Seq(Message) /\ Len(Append(my_msgq, m)) = Len(my_msgq) + 1
      /\ Len(my_msgq) \in Nat
  BY <1>3, AppendProperties, LenProperties DEF MqTypeOK
<1>6. data' \in [Sources -> 0..MaxData]
  BY <1>2, MsgQueuesAssumption DEF MqTypeOK
<1> QED
  BY <1>4, <1>5, <1>6, MsgQueuesAssumption DEF MqTypeOK

\* Types of the message queues.
LEMMA MqTypesHold ==
  /\ MqInit => MqTypeOK
  /\ MqTypeOK /\ [MqNext]_mqVars => MqTypeOK'
<1>1. ASSUME MqInit PROVE MqTypeOK
  <2>1. initialised \in BOOLEAN
    BY Zenon, <1>1 DEF MqInit
  <2>2. my_msgq \in Seq(Message) /\ Len(my_msgq) <= MsgqDepth
    BY <1>1, MsgQueuesAssumption DEF MqInit
  <2> QED
    BY <1>1, <2>1, <2>2, MsgQueuesAssumption DEF MqInit, MqTypeOK
<1>2. ASSUME MqTypeOK, [MqNext]_mqVars PROVE MqTypeOK'
  <2>1. CASE main_mq02
    <3>1. initialised' \in BOOLEAN
      BY Zenon, <2>1 DEF main_mq02
    <3>2. my_msgq' \in Seq(Message) /\ Len(my_msgq') <= MsgqDepth
      BY <2>1, MsgQueuesAssumption DEF main_mq02
    <3> QED
      BY <1>2, <2>1, <3>1, <3>2 DEF main_mq02, MqTypeOK
  <2>2. CASE MqSenders
    <3>1. PICK s \in active : \/ task_sender_mq01(s) \/ task_sender_mq02(s) \/ task_sender_mq03(s)
                              \/ task_sender_mq04(s) \/ main_mq05(s) \/ my_own_isr_mq05(s)
      BY <2>2 DEF MqSenders
    <3>2. s \in Sources
      BY <1>2 DEF MqTypeOK
    <3>3. /\ UNCHANGED <<mqProgram, active, initialised, rxPc, got>>
          /\ txPc' \in {txPc, [txPc EXCEPT ![s] = "run"], [txPc EXCEPT ![s] = "sleep"]}
          /\ Put(s) \/ UNCHANGED <<my_msgq, data>>
      BY <3>1 DEF task_sender_mq01, task_sender_mq02, task_sender_mq03, task_sender_mq04, main_mq05,
                  my_own_isr_mq05, Sender, WakeSender, SendOne, Fill
    <3>4. txPc' \in [Sources -> {"run", "sleep"}]
      BY <1>2, <3>2, <3>3 DEF MqTypeOK
    <3>5. /\ my_msgq' \in Seq(Message) /\ Len(my_msgq') <= MsgqDepth
          /\ data' \in [Sources -> 0..MaxData]
      BY <1>2, <3>2, <3>3, PutTypes DEF MqTypeOK
    <3> QED
      BY <1>2, <3>3, <3>4, <3>5 DEF MqTypeOK
  <2>3. CASE MqReceivers
    <3>1. /\ UNCHANGED <<mqProgram, initialised, active, data, txPc>>
          /\ rxPc' \in {"get", "print", "sleep", "check"}
          /\ GetMessage \/ UNCHANGED <<my_msgq, got>>
      BY <2>3 DEF MqReceivers, task_receiver_mq01, task_receiver_mq02, task_receiver_mq03,
                  task_receiver_mq04, task_receiver_mq05, Receiver, GetMessage, RxMoves
    <3>2. CASE GetMessage
      <4>1. my_msgq \in Seq(Message) /\ my_msgq # <<>>
        BY <1>2, <3>2 DEF GetMessage, MqTypeOK
      <4>2. /\ Head(my_msgq) \in Message /\ Tail(my_msgq) \in Seq(Message)
            /\ Len(Tail(my_msgq)) = Len(my_msgq) - 1 /\ Len(my_msgq) \in Nat
        BY <4>1, HeadTailProperties, LenProperties
      <4>3. Head(my_msgq).source \in Sources /\ Head(my_msgq).n \in 0..MaxData
        BY <4>2 DEF Message
      <4>4. got' \in [Sources -> 0..MaxData]
        BY <1>2, <3>2, <4>3 DEF GetMessage, MqTypeOK
      <4>5. my_msgq' \in Seq(Message) /\ Len(my_msgq') <= MsgqDepth
        BY <1>2, <3>2, <4>2, MsgQueuesAssumption DEF GetMessage, MqTypeOK
      <4> QED
        BY <1>2, <3>1, <4>4, <4>5 DEF MqTypeOK
    <3>3. CASE UNCHANGED <<my_msgq, got>>
      BY <1>2, <3>1, <3>3 DEF MqTypeOK
    <3> QED
      BY <3>1, <3>2, <3>3
  <2>4. CASE UNCHANGED mqVars
    BY <1>2, <2>4 DEF mqVars, MqTypeOK
  <2> QED
    BY <1>2, <2>1, <2>2, <2>3, <2>4 DEF MqNext
<1> QED
  BY <1>1, <1>2

\* Types of the work items.
LEMMA WqTypesHold ==
  /\ WqInit => WqTypeOK
  /\ WqTypeOK /\ [WqNext]_wqVars => WqTypeOK'
<1>1. WqInit => WqTypeOK
  BY MaxSubmitsAssumption DEF WqInit, WqTypeOK
<1>2. ASSUME WqTypeOK, [WqNext]_wqVars PROVE WqTypeOK'
  <2> USE <1>2, MaxSubmitsAssumption DEF WqTypeOK
  <2> DEFINE Flags == SUBSET {"delayed", "queued", "running"}
  <2>1. CASE SubmitAndSleep(k_work_submit) \/ SubmitAndSleep(k_work_schedule)
    <3>1. work_to_queue' \in Flags
      BY <2>1 DEF SubmitAndSleep, k_work_submit, k_work_schedule
    <3>2. /\ submitted < MaxSubmits /\ submitted' = submitted + 1 /\ wqMainPc' = "sleep"
          /\ UNCHANGED <<wqProgram, printed>>
      BY <2>1 DEF SubmitAndSleep
    <3> QED
      BY <3>1, <3>2
  <2>2. CASE WakeMain \/ main_wq06 \/ my_own_isr_wq06
    <3>1. work_to_queue' \in Flags
      BY <2>2 DEF WakeMain, main_wq06, my_own_isr_wq06, k_work_submit
    <3>2. /\ \/ submitted' = submitted
             \/ submitted < MaxSubmits /\ submitted' = submitted + 1
          /\ wqMainPc' \in {"run", "interrupt", "sleep"} /\ UNCHANGED <<wqProgram, printed>>
      BY <2>2 DEF WakeMain, main_wq06, my_own_isr_wq06
    <3> QED
      BY <3>1, <3>2
  <2>3. CASE DelayOver \/ TakeItem \/ WorkHandler
    BY <2>3 DEF DelayOver, TakeItem, WorkHandler
  <2>4. CASE UNCHANGED wqVars
    BY <2>4 DEF wqVars
  <2> QED
    BY <2>1, <2>2, <2>3, <2>4
    DEF WqNext, WqMain, main_wq01, main_wq02, main_wq03, main_wq04, main_wq05, WqHandlers,
        work_handler_wq01, work_handler_wq02, work_handler_wq03, work_handler_wq04,
        work_handler_wq05, work_handler_wq06
<1> QED
  BY <1>1, <1>2

\* A publication keeps the types of the channels and of what waits for the observers.
LEMMA PublishTypes ==
  ASSUME ZbTypeOK, NEW c \in Channels, NEW to \in Channels \cup {"listener", "sleep"}, PublishOn(c, to)
  PROVE  ZbTypeOK'
<1> DEFINE n == minor[c] + 1
<1>1. n \in 1..MaxMinor /\ n \in 0..MaxMinor /\ minor' = [minor EXCEPT ![c] = n]
  BY ZbusAssumption DEF PublishOn, ZbTypeOK
<1>2. zbMainPc' = to /\ zbus_chan_pub(c, n) /\ UNCHANGED <<zbProgram, taskPc, chan, seen>>
  BY DEF PublishOn
<1> HIDE DEF n
<1>3. minor' \in [Channels -> 0..MaxMinor] /\ [channel EXCEPT ![c] = n] \in [Channels -> 0..MaxMinor]
  BY <1>1 DEF ZbTypeOK
<1>4. Append(pending, n) \in Seq(1..MaxMinor) /\ Append(fifo, n) \in Seq(1..MaxMinor)
  BY <1>1, AppendProperties DEF ZbTypeOK
<1>5. /\ Append(refs, c) \in Seq(Channels) /\ Len(Append(refs, c)) = Len(refs) + 1
      /\ Len(refs) \in Nat
  BY AppendProperties, LenProperties DEF ZbTypeOK
<1>6. channel' \in [Channels -> 0..MaxMinor]
  BY <1>2, <1>3 DEF zbus_chan_pub, ZbTypeOK
<1>7. pending' \in Seq(1..MaxMinor) /\ fifo' \in Seq(1..MaxMinor)
  BY <1>2, <1>4 DEF zbus_chan_pub, Notify, ZbTypeOK
<1>8. refs' \in Seq(Channels) /\ Len(refs') <= SubscriberSize
  <2>1. refs' = refs \/ (refs' = Append(refs, c) /\ Len(refs) < SubscriberSize)
    BY <1>2 DEF zbus_chan_pub, Notify
  <2>2. refs \in Seq(Channels) /\ Len(refs) <= SubscriberSize
    BY DEF ZbTypeOK
  <2>3. Len(refs) < SubscriberSize => Len(Append(refs, c)) <= SubscriberSize
    BY <1>5, ZbusAssumption
  <2> QED
    BY Zenon, <1>5, <2>1, <2>2, <2>3
<1> QED
  BY <1>2, <1>3, <1>6, <1>7, <1>8 DEF ZbTypeOK

\* What an observer sees has the type of a message.
LEMMA SeesTypes ==
  ASSUME ZbTypeOK, NEW k \in {"listener", "async", "task"}, NEW c \in Channels, NEW n \in 0..MaxMinor,
         Sees(<<k, c>>, n)
  PROVE  seen' \in [Observers -> 0..MaxMinor]
<1>1. <<k, c>> \in Observers
  BY ObserverNames
<1> QED
  BY <1>1 DEF Sees, ZbTypeOK

\* Types of the channels and their observers.
LEMMA ZbTypesHold ==
  /\ ZbInit => ZbTypeOK
  /\ ZbTypeOK /\ [ZbNext]_zbVars => ZbTypeOK'
<1>1. ASSUME ZbInit PROVE ZbTypeOK
  <2>1. /\ pending \in Seq(1..MaxMinor) /\ fifo \in Seq(1..MaxMinor)
        /\ refs \in Seq(Channels) /\ Len(refs) <= SubscriberSize
    BY <1>1, ZbusAssumption DEF ZbInit
  <2> QED
    BY <1>1, <2>1, ZbusAssumption DEF ZbInit, ZbTypeOK, Channels
<1>2. ASSUME ZbTypeOK, [ZbNext]_zbVars PROVE ZbTypeOK'
  <2>1. CASE \E c \in Channels, to \in Channels \cup {"listener", "sleep"} : PublishOn(c, to)
    BY <1>2, <2>1, PublishTypes
  <2>2. CASE WakeZb
    BY <1>2, <2>2 DEF WakeZb, ZbTypeOK, Channels
  <2>3. CASE ListenerCallback
    <3>1. channel["channel_1"] \in 0..MaxMinor
      BY <1>2, ObserverNames DEF ZbTypeOK
    <3>2. seen' \in [Observers -> 0..MaxMinor]
      BY <1>2, <2>3, <3>1, SeesTypes, ObserverNames DEF ListenerCallback
    <3> QED
      BY <1>2, <2>3, <3>2 DEF ListenerCallback, ZbTypeOK
  <2>4. CASE AsyncCallback
    <3>1. Head(pending) \in 0..MaxMinor /\ Tail(pending) \in Seq(1..MaxMinor)
      <4>1. Head(pending) \in 1..MaxMinor /\ Tail(pending) \in Seq(1..MaxMinor)
        BY <1>2, <2>4, HeadTailProperties DEF AsyncCallback, ZbTypeOK
      <4> QED
        BY <4>1
    <3>2. seen' \in [Observers -> 0..MaxMinor]
      BY <1>2, <2>4, <3>1, SeesTypes, ObserverNames DEF AsyncCallback
    <3> QED
      BY <1>2, <2>4, <3>1, <3>2 DEF AsyncCallback, ZbTypeOK
  <2>5. CASE TakeMessage
    <3>1. Head(fifo) \in 0..MaxMinor /\ Tail(fifo) \in Seq(1..MaxMinor)
      <4>1. Head(fifo) \in 1..MaxMinor /\ Tail(fifo) \in Seq(1..MaxMinor)
        BY <1>2, <2>5, HeadTailProperties DEF TakeMessage, ZbTypeOK
      <4> QED
        BY <4>1
    <3>2. seen' \in [Observers -> 0..MaxMinor]
      BY <1>2, <2>5, <3>1, SeesTypes, ObserverNames DEF TakeMessage, zbus_sub_wait_msg
    <3> QED
      BY <1>2, <2>5, <3>1, <3>2 DEF TakeMessage, ZbTypeOK
  <2>6. CASE CopyMessage
    <3>1. chan \in Channels /\ channel[chan] \in 0..MaxMinor
      BY <1>2 DEF ZbTypeOK
    <3>2. seen' \in [Observers -> 0..MaxMinor]
      BY <1>2, <2>6, <3>1, SeesTypes, ObserverNames DEF CopyMessage
    <3> QED
      BY <1>2, <2>6, <3>2 DEF CopyMessage, TaskMoves, ZbTypeOK
  <2>7. CASE zbus_sub_wait
    <3>1. /\ Head(refs) \in Channels /\ Tail(refs) \in Seq(Channels)
          /\ Len(Tail(refs)) = Len(refs) - 1 /\ Len(refs) \in Nat
      BY <1>2, <2>7, HeadTailProperties, LenProperties DEF zbus_sub_wait, ZbTypeOK
    <3>2. refs' \in Seq(Channels) /\ Len(refs') <= SubscriberSize
      BY <1>2, <2>7, <3>1, ZbusAssumption DEF zbus_sub_wait, ZbTypeOK
    <3> QED
      BY <1>2, <2>7, <3>1, <3>2 DEF zbus_sub_wait, TaskMoves, ZbTypeOK
  <2>8. CASE \/ LockChannel
             \/ /\ TaskMoves("wait", "read")
                /\ UNCHANGED <<zbProgram, zbMainPc, minor, channel, pending, fifo, refs, chan, seen>>
    BY <1>2, <2>8 DEF LockChannel, TaskMoves, ZbTypeOK
  <2>9. CASE UNCHANGED zbVars
    BY <1>2, <2>9 DEF zbVars, ZbTypeOK
  <2>10. ZbMain => WakeZb \/ \E c \in Channels, to \in Channels \cup {"listener", "sleep"} : PublishOn(c, to)
    BY ObserverNames DEF ZbMain, main_zb02, main_zb03, main_zb04, main_zb05, main_zb06, main_zb07, main_zb08
  <2>11. ZbObservers => \/ ListenerCallback \/ AsyncCallback \/ TakeMessage \/ CopyMessage
                        \/ zbus_sub_wait \/ LockChannel
                        \/ /\ TaskMoves("wait", "read")
                           /\ UNCHANGED <<zbProgram, zbMainPc, minor, channel, pending, fifo, refs, chan, seen>>
    BY Zenon DEF ZbObservers, listener_callback_02, listener_callback_08, async_listener_callback_03,
           async_listener_callback_06, msg_subscriber_task_05, msg_subscriber_task_06,
           subscriber_task_04, subscriber_task_07
  <2> QED
    BY Zenon, <1>2, <2>1, <2>2, <2>3, <2>4, <2>5, <2>6, <2>7, <2>8, <2>9, <2>10, <2>11 DEF ZbNext
<1> QED
  BY <1>1, <1>2
=============================================================================
