---------------------------- MODULE UartTxProofs ----------------------------
(***************************************************************************)
(* Proofs about the transmitters.  UartIrqTx, for every message length and *)
(* FIFO depth, with the semaphore (_04) and with the delay (_03): whole    *)
(* messages leave.  UartNetBufTx, for every pool of three buffers or more: *)
(* no allocation fails and the messages leave in order.                    *)
(***************************************************************************)
EXTENDS UartIrqTx, UartNetBufTx, SequenceTheorems, TLAPS

\* The position of the byte that is queued next.
NextPos == IF tx_count = 0 THEN 0 ELSE TxLen - tx_count

\* The FIFO continues the wire byte by byte, and the message continues the FIFO.
Chain ==
  /\ fifo = <<>> => After(txWire) = NextPos
  /\ fifo # <<>> => /\ fifo[1] = After(txWire)
                    /\ After(fifo[Len(fifo)]) = NextPos
  /\ \A i \in 1..(Len(fifo) - 1) : fifo[i + 1] = After(fifo[i])

\* main reloads the counter only between two messages.
Handshake ==
  /\ tx_done = 1 => Sync /\ txPc \in {"take", "sleep"} /\ ~txIrq
  /\ txPc \in {"load", "enable"} => ~txIrq
  /\ txPc = "take" /\ ~Sync => ~txIrq
  /\ ~txIrq => NextPos = 0
  /\ txPc = "enable" => tx_count = TxLen
  /\ Sync /\ txPc \in {"take", "sleep"} => tx_done = 1 \/ txIrq

TxInv == TxTypeOK /\ Chain /\ Handshake

\* The invariant holds at the start: nothing is queued and the whole message is ahead.
LEMMA TxInitInv == TxInit => TxInv
<1> SUFFICES ASSUME TxInit PROVE TxInv
  OBVIOUS
<1> USE IrqTxAssumption DEF TxInit
<1>1. fifo = <<>> /\ Len(fifo) = 0 /\ fifo \in Seq(0..(TxLen - 1))
  OBVIOUS
<1>2. TxTypeOK
  <2>1. txIrq \in BOOLEAN
    BY Zenon
  <2>2. tx_done \in 0..1 /\ txWire \in 0..(TxLen - 1) /\ tx_count \in 0..TxLen
    OBVIOUS
  <2> QED
    BY <1>1, <2>1, <2>2 DEF TxTypeOK
<1>3. Chain
  BY <1>1 DEF Chain, NextPos, After
<1>4. Handshake
  BY DEF Handshake, NextPos
<1> QED
  BY <1>2, <1>3, <1>4 DEF TxInv

\* main's own steps touch neither the FIFO nor, during a message, the counter.
LEMMA TxMainKeeps == TxInv /\ TxMain => TxInv'
<1> SUFFICES ASSUME TxInv, TxMain PROVE TxInv'
  OBVIOUS
<1> USE IrqTxAssumption DEF TxInv, TxTypeOK, Chain, Handshake, NextPos, After
<1>1. CASE TakeTxDone
  BY <1>1 DEF TakeTxDone
<1>2. CASE LoadCount
  BY <1>2 DEF LoadCount
<1>3. CASE EnableTx
  BY <1>3 DEF EnableTx
<1>4. CASE TxSleepOver
  BY <1>4 DEF TxSleepOver
<1> QED
  BY <1>1, <1>2, <1>3, <1>4 DEF TxMain

\* The byte that is shifted out is the next one, and the FIFO behind it still continues it.
LEMMA ShiftKeeps == TxInv /\ ShiftOut => TxInv' /\ txWire' = After(txWire)
<1> SUFFICES ASSUME TxInv, ShiftOut PROVE TxInv' /\ txWire' = After(txWire)
  OBVIOUS
<1>1. /\ fifo \in Seq(0..(TxLen - 1)) /\ fifo # <<>>
      /\ txWire' = fifo[1] /\ fifo' = Tail(fifo)
  BY DEF TxInv, TxTypeOK, ShiftOut
<1>2. /\ fifo' \in Seq(0..(TxLen - 1)) /\ Len(fifo') = Len(fifo) - 1
      /\ \A i \in 1..Len(fifo') : fifo'[i] = fifo[i + 1]
      /\ Len(fifo) \in Nat \ {0} /\ txWire' \in 0..(TxLen - 1)
  <2>1. /\ fifo' \in Seq(0..(TxLen - 1)) /\ Len(fifo') = Len(fifo) - 1
        /\ \A i \in 1..Len(fifo') : fifo'[i] = fifo[i + 1]
    BY <1>1, HeadTailProperties
  <2>2. Len(fifo) \in Nat \ {0}
    BY <1>1
  <2>3. txWire' \in 0..(TxLen - 1)
    <3>1. 1 \in 1..Len(fifo)
      BY <2>2
    <3> QED
      BY <1>1, <3>1, ElementOfSeq
  <2> QED
    BY <2>1, <2>2, <2>3
<1>3. UNCHANGED <<txPc, tx_count, tx_done, txIrq>>
  BY DEF ShiftOut
<1>4. Chain'
  <2>1. \A i \in 1..(Len(fifo') - 1) : fifo'[i + 1] = After(fifo'[i])
    BY <1>2 DEF TxInv, Chain
  <2>2. NextPos' = NextPos
    BY <1>3 DEF NextPos
  <2>3. CASE fifo' = <<>>
    <3>1. Len(fifo) = 1
      BY <1>2, <2>3
    <3>2. After(txWire') = NextPos'
      BY <1>1, <2>2, <3>1 DEF TxInv, Chain
    <3> QED
      BY <2>1, <2>3, <3>2 DEF Chain, After
  <2>4. CASE fifo' # <<>>
    <3>1. Len(fifo') >= 1
      BY <1>2, <2>4
    <3>2. fifo'[1] = After(txWire') /\ fifo'[Len(fifo')] = fifo[Len(fifo)]
      BY <1>1, <1>2, <3>1 DEF TxInv, Chain
    <3> QED
      BY <1>1, <2>1, <2>2, <2>4, <3>2 DEF TxInv, Chain, After
  <2> QED
    BY <2>3, <2>4
<1>5. TxTypeOK' /\ Handshake'
  BY <1>2, <1>3 DEF TxInv, TxTypeOK, Handshake, NextPos
<1>6. txWire' = After(txWire)
  BY <1>1 DEF TxInv, Chain
<1> QED
  BY <1>4, <1>5, <1>6 DEF TxInv

\* The interrupt appends the next positions of the message.
LEMMA InterruptKeeps == TxInv /\ uart_cb_tx => TxInv'
<1> SUFFICES ASSUME TxInv, uart_cb_tx PROVE TxInv'
  OBVIOUS
<1> USE IrqTxAssumption
<1>1. /\ fifo \in Seq(0..(TxLen - 1)) /\ tx_count \in 0..TxLen /\ txIrq
      /\ TxLen \in Nat /\ TxLen > 1 /\ UNCHANGED <<txPc, txWire>>
  BY DEF TxInv, TxTypeOK, uart_cb_tx
<1>2. PICK n \in 0..TxFifo - Len(fifo) :
        /\ n <= tx_count /\ (n = 0 => tx_count = 0)
        /\ fifo' = fifo \o Positions(TxLen - tx_count, n)
        /\ tx_count' = tx_count - n
  BY DEF uart_cb_tx
<1>3. n \in 0..tx_count /\ tx_count' \in 0..TxLen
  BY <1>1, <1>2
<1> DEFINE more == Positions(TxLen - tx_count, n)
<1>4. /\ more \in Seq(0..(TxLen - 1)) /\ Len(more) = n
      /\ \A i \in 1..n : more[i] = TxLen - tx_count + i - 1
  BY <1>1, <1>3 DEF Positions
<1> HIDE DEF more
<1>5. /\ fifo' \in Seq(0..(TxLen - 1)) /\ Len(fifo') = Len(fifo) + n
      /\ \A i \in 1..Len(fifo) : fifo'[i] = fifo[i]
      /\ \A i \in 1..n : fifo'[Len(fifo) + i] = TxLen - tx_count + i - 1
  <2>1. fifo' = fifo \o more
    BY <1>2 DEF more
  <2>2. Len(fifo) \in Nat /\ n \in Nat
    BY <1>1, <1>3
  <2>3. /\ fifo' \in Seq(0..(TxLen - 1)) /\ Len(fifo') = Len(fifo) + n
        /\ \A i \in 1..Len(fifo) + n : fifo'[i] = IF i <= Len(fifo) THEN fifo[i]
                                                   ELSE more[i - Len(fifo)]
    <3>1. /\ fifo \o more \in Seq(0..(TxLen - 1)) /\ Len(fifo \o more) = Len(fifo) + Len(more)
          /\ \A i \in 1..Len(fifo) + Len(more) :
               (fifo \o more)[i] = IF i <= Len(fifo) THEN fifo[i] ELSE more[i - Len(fifo)]
      BY <1>1, <1>4, ConcatProperties
    <3> QED
      BY Zenon, <1>4, <2>1, <3>1
  <2> QED
    <3>1. \A i \in 1..Len(fifo) : fifo'[i] = fifo[i]
      BY <2>2, <2>3
    <3>2. ASSUME NEW i \in 1..n PROVE fifo'[Len(fifo) + i] = TxLen - tx_count + i - 1
      <4>1. Len(fifo) + i \in 1..Len(fifo) + n /\ ~(Len(fifo) + i <= Len(fifo))
        BY <2>2
      <4>2. (Len(fifo) + i) - Len(fifo) = i
        BY <2>2
      <4> QED
        BY <1>4, <2>3, <4>1, <4>2
    <3> QED
      BY <2>3, <3>1, <3>2
<1>6. CASE n = 0
  <2>1. fifo' = fifo /\ tx_count' = tx_count
    BY <1>1, <1>2, <1>5, <1>6
  <2> QED
    <3>1. tx_count = 0 /\ tx_count' = 0 /\ txIrq' = FALSE /\ tx_done' = IF Sync THEN 1 ELSE 0
      BY <1>2, <1>6, <2>1 DEF uart_cb_tx, SignalDone
    <3>2. Chain'
      BY <1>1, <2>1, <3>1 DEF TxInv, Chain, NextPos, After
    <3>3. txIrq' \in BOOLEAN
      BY <3>1, Zenon
    <3>4. tx_done' \in 0..1
      BY <3>1
    <3>5. TxTypeOK'
      BY <1>1, <1>5, <3>1, <3>3, <3>4 DEF TxInv, TxTypeOK
    <3>6. Handshake'
      BY <1>1, <3>1 DEF TxInv, TxTypeOK, Handshake, NextPos
    <3> QED
      BY <3>2, <3>5, <3>6 DEF TxInv
<1>7. CASE n # 0
  <2>1. n >= 1 /\ tx_count >= 1 /\ NextPos = TxLen - tx_count
    BY <1>1, <1>3, <1>7 DEF NextPos
  <2>2. Len(fifo) \in Nat /\ fifo' # <<>>
    BY <1>1, <1>5, <2>1
  <2>3. fifo'[Len(fifo) + 1] = NextPos
    BY <1>1, <1>5, <2>1, <2>2
  <2>4. fifo'[Len(fifo')] = TxLen - tx_count + n - 1
    BY <1>5, <2>1
  <2>5. After(fifo'[Len(fifo')]) = NextPos'
    <3>1. fifo'[Len(fifo')] = TxLen - tx_count' - 1
      <4>1. tx_count' = tx_count - n
        BY <1>2
      <4> QED
        BY <1>1, <1>3, <2>4, <4>1
    <3>2. ASSUME NEW t \in 0..TxLen
          PROVE  After(TxLen - t - 1) = IF t = 0 THEN 0 ELSE TxLen - t
      BY <1>1 DEF After
    <3> QED
      BY <1>3, <3>1, <3>2 DEF NextPos
  <2>6. fifo'[1] = After(txWire)
    <3>1. CASE fifo = <<>>
      BY <1>1, <2>3, <3>1 DEF TxInv, Chain
    <3>2. CASE fifo # <<>>
      <4>1. Len(fifo) >= 1
        BY <1>1, <3>2
      <4> QED
        BY <1>1, <1>5, <2>2, <3>2, <4>1 DEF TxInv, Chain
    <3> QED
      BY <3>1, <3>2
  <2>7. ASSUME NEW i \in 1..(Len(fifo') - 1) PROVE fifo'[i + 1] = After(fifo'[i])
    <3>1. CASE i < Len(fifo)
      <4>1. i \in 1..(Len(fifo) - 1) /\ i \in 1..Len(fifo) /\ i + 1 \in 1..Len(fifo)
        BY <1>5, <2>2, <3>1
      <4>2. fifo'[i] = fifo[i] /\ fifo'[i + 1] = fifo[i + 1]
        BY <1>5, <4>1
      <4> QED
        BY <4>1, <4>2 DEF TxInv, Chain, After
    <3>2. CASE i = Len(fifo)
      <4>1. fifo # <<>> /\ fifo'[i] = fifo[Len(fifo)]
        BY <1>5, <2>2, <3>2
      <4> QED
        BY <2>3, <3>2, <4>1 DEF TxInv, Chain
    <3>3. CASE i > Len(fifo)
      <4> DEFINE j == i - Len(fifo)
      <4>1. j \in 1..(n - 1) /\ j + 1 \in 1..n /\ j \in 1..n /\ i = Len(fifo) + j
        BY <1>5, <2>2, <3>3
      <4>2. fifo'[i] = TxLen - tx_count + j - 1 /\ fifo'[i + 1] = TxLen - tx_count + j
        <5>1. Len(fifo) + j + 1 = i + 1
          BY <2>2, <4>1
        <5>2. fifo'[Len(fifo) + j] = TxLen - tx_count + j - 1
          BY <1>5, <4>1
        <5>3. fifo'[Len(fifo) + (j + 1)] = TxLen - tx_count + (j + 1) - 1
          BY <1>5, <4>1
        <5> QED
          BY <1>1, <2>2, <4>1, <5>1, <5>2, <5>3
      <4> QED
        BY <1>1, <1>3, <4>1, <4>2 DEF After
    <3> QED
      BY <2>2, <3>1, <3>2, <3>3
  <2>8. Chain'
    BY <1>1, <2>2, <2>5, <2>6, <2>7 DEF Chain, After
  <2>9. TxTypeOK' /\ Handshake'
    <3>1. IF tx_count' = 0 THEN txIrq' = FALSE /\ tx_done' = IF Sync THEN 1 ELSE 0
                           ELSE UNCHANGED <<txIrq, tx_done>>
      BY DEF uart_cb_tx, SignalDone
    <3>2. txPc \in {"take", "sleep"} /\ (txPc = "take" => Sync)
      BY <1>1 DEF TxInv, TxTypeOK, Handshake
    <3>3. txIrq' \in BOOLEAN
      <4>1. CASE tx_count' = 0
        BY <3>1, <4>1, Zenon
      <4>2. CASE tx_count' # 0
        BY <3>1, <4>2 DEF TxInv, TxTypeOK
      <4> QED
        BY <4>1, <4>2
    <3>4. tx_done' \in 0..1
      BY <3>1 DEF TxInv, TxTypeOK
    <3>5. TxTypeOK'
      BY <1>1, <1>3, <1>5, <3>3, <3>4 DEF TxInv, TxTypeOK
    <3>6. Handshake'
      <4>1. CASE tx_count' = 0
        BY <1>1, <3>1, <3>2, <4>1 DEF TxInv, TxTypeOK, Handshake, NextPos, IrqTxAssumption
      <4>2. CASE tx_count' # 0
        <5>1. txIrq' /\ tx_done' = tx_done /\ txPc' = txPc
          BY <1>1, <3>1, <4>2
        <5> QED
          BY <1>1, <3>2, <5>1 DEF TxInv, Handshake
      <4> QED
        BY <4>1, <4>2
    <3> QED
      BY <3>5, <3>6
  <2> QED
    BY <2>8, <2>9 DEF TxInv
<1> QED
  BY <1>6, <1>7

\* The invariant is inductive.
LEMMA TxNextInv == TxInv /\ [TxNext]_txVars => TxInv'
<1> SUFFICES ASSUME TxInv, [TxNext]_txVars PROVE TxInv'
  OBVIOUS
<1>1. CASE TxNext
  BY <1>1, TxMainKeeps, ShiftKeeps, InterruptKeeps DEF TxNext
<1>2. CASE UNCHANGED txVars
  BY <1>2 DEF txVars, TxInv, TxTypeOK, Chain, Handshake, NextPos, After
<1> QED
  BY <1>1, <1>2

\* _04 never waits for a semaphore that nobody is going to give: as long as tx_done is not
\* available the transmit interrupt is enabled, and it gives tx_done with the last byte.
THEOREM DoneIsGiven == TxSpec => []TxWoken
<1>1. TxInv => TxWoken
  BY DEF TxInv, Handshake, TxWoken
<1> QED
  BY <1>1, TxInitInv, TxNextInv, PTL DEF TxSpec

\* Whole messages leave, one behind the other, for every length and FIFO depth.
THEOREM WholeMessagesSent == TxSpec => WholeMessages
<1>1. TxInv /\ [TxNext]_txVars => [ShiftOut => txWire' = After(txWire)]_txVars
  BY ShiftKeeps
<1> QED
  BY <1>1, TxInitInv, TxNextInv, PTL DEF TxSpec, WholeMessages
-----------------------------------------------------------------------------
\* The buffers of messages lo..hi are held, each by its tx_buf; all others are in the pool.
Held(lo, hi) ==
  /\ \A m \in lo..hi : tx_buf[m] \in Pool /\ holds[tx_buf[m]] = m
  /\ \A b \in Pool : holds[b] = 0 \/ (holds[b] \in lo..hi /\ tx_buf[holds[b]] = b)

\* Main is preparing the next messages: the DMA is idle and the semaphore taken.
Preparing ==
  netPc \in {"alloc", "put", "send"} =>
    /\ tx_sem = 0 /\ dma = NoBuf /\ netWire = 3
    /\ netPc = "alloc" => tx_queue = <<>> /\ Held(1, k - 1)
    /\ netPc = "put" => Held(1, 3) /\ k \in 2..3
    /\ netPc = "put" => tx_queue = IF k = 2 THEN <<>> ELSE <<tx_buf[2]>>
    /\ netPc = "send" => Held(1, 3) /\ tx_queue = <<tx_buf[2], tx_buf[3]>>

\* The semaphore is available: everything was sent and freed.
Finished ==
  tx_sem = 1 => dma = NoBuf /\ tx_queue = <<>> /\ netWire = 3 /\ Held(1, 0)

\* The callback chain is under way: what is queued and held follows from what was sent.
Sending ==
  netPc \in {"take", "sleep"} /\ tx_sem = 0 =>
    /\ dma = ref_buff
    /\ \/ netWire = 3 /\ dma = tx_buf[1] /\ tx_queue = <<tx_buf[2], tx_buf[3]>> /\ Held(1, 3)
       \/ netWire = 1 /\ dma = tx_buf[2] /\ tx_queue = <<tx_buf[3]>> /\ Held(2, 3)
       \/ netWire = 2 /\ dma = tx_buf[3] /\ tx_queue = <<>> /\ Held(3, 3)

NetInv == NetTypeOK /\ Preparing /\ Finished /\ Sending

\* The invariant holds at the start: all buffers are in the pool and the semaphore is given.
LEMMA NetInitInv == NetInit => NetInv
  BY NetBufTxAssumption
  DEF NetInit, NetInv, NetTypeOK, Preparing, Finished, Sending, Held, Messages

\* Three distinct buffers cannot all be held by fewer than three messages.
LEMMA PoolSuffices == NetInv => AllocSucceeds
<1> SUFFICES ASSUME NetInv, netPc = "alloc" PROVE Free # {}
  BY DEF AllocSucceeds
<1>1. k \in 1..3 /\ Held(1, k - 1) /\ holds \in [Pool -> 0..3]
  BY DEF NetInv, NetTypeOK, Preparing, Messages
<1>2. PICK a \in Pool, b \in Pool, c \in Pool : a # b /\ b # c /\ a # c
  BY NetBufTxAssumption
<1>3. holds[a] = 0 \/ holds[b] = 0 \/ holds[c] = 0
  BY <1>1, <1>2 DEF Held
<1> QED
  BY <1>2, <1>3 DEF Free

\* main's own steps: each alone moves the buffers from the pool to the queue.
LEMMA NetMainKeeps == NetInv /\ NetMain => NetInv'
<1> SUFFICES ASSUME NetInv, NetMain PROVE NetInv'
  OBVIOUS
<1> USE NetBufTxAssumption DEF NetInv, NetTypeOK, Preparing, Finished, Sending, Held, Messages
<1>1. CASE TakeTxSem
  BY <1>1 DEF TakeTxSem
<1>2. CASE AllocAndFill
  BY <1>2 DEF AllocAndFill, Free
<1>3. CASE PutFifo
  <2>1. tx_buf[2] \in Pool /\ tx_buf[3] \in Pool /\ k \in 2..3
    BY <1>3 DEF PutFifo
  <2>2. tx_queue' = IF k = 2 THEN <<tx_buf[2]>> ELSE <<tx_buf[2], tx_buf[3]>>
    BY <1>3, <2>1 DEF PutFifo
  <2>3. tx_queue' \in Seq(Pool)
    BY <2>1, <2>2
  <2> QED
    BY <1>3, <2>1, <2>2, <2>3 DEF PutFifo
<1>4. CASE SendFirst
  BY <1>4 DEF SendFirst, uart_tx
<1>5. CASE NetSleepOver
  BY <1>5 DEF NetSleepOver
<1> QED
  BY <1>1, <1>2, <1>3, <1>4, <1>5 DEF NetMain

\* The two forms the queue has when a transfer ends with something queued.
LEMMA QueueHeads ==
  ASSUME NEW S, NEW x \in S, NEW y \in S
  PROVE  /\ <<x>> # <<>> /\ Head(<<x>>) = x /\ Tail(<<x>>) = <<>>
         /\ <<x, y>> # <<>> /\ Head(<<x, y>>) = x /\ Tail(<<x, y>>) = <<y>>
<1>1. <<x>> \in Seq(S) /\ <<x, y>> \in Seq(S)
  OBVIOUS
<1>2. Len(Tail(<<x>>)) = 0 /\ Len(Tail(<<x, y>>)) = 1 /\ Tail(<<x, y>>)[1] = y
  BY <1>1
<1> QED
  BY <1>1, <1>2

\* The callback frees what was sent and starts the next, or ends the chain.
LEMMA CallbackKeeps == NetInv /\ uart_cb_net => NetInv'
<1> SUFFICES ASSUME NetInv, uart_cb_net PROVE NetInv'
  OBVIOUS
<1> USE NetBufTxAssumption DEF NetInv, NetTypeOK, Preparing, Finished, Sending, Held, Messages
<1>1. netPc \in {"take", "sleep"} /\ tx_sem = 0
  BY DEF uart_cb_net
<1>2. CASE netWire = 3
  <2>1. Held(1, 3) /\ ref_buff = tx_buf[1] /\ tx_buf[2] \in Pool /\ tx_buf[3] \in Pool
    BY <1>1, <1>2 DEF uart_cb_net
  <2>2. tx_queue # <<>> /\ Head(tx_queue) = tx_buf[2] /\ Tail(tx_queue) = <<tx_buf[3]>>
    <3>1. tx_queue = <<tx_buf[2], tx_buf[3]>>
      BY <1>1, <1>2
    <3>2. tx_buf[2] \in Pool \cup {NoBuf} /\ tx_buf[3] \in Pool \cup {NoBuf}
      BY DEF NetInv
    <3> HIDE DEF NetInv, NetTypeOK, Preparing, Finished, Sending, Held, Messages
    <3> QED
      BY <3>1, <3>2, QueueHeads
  <2>3. ref_buff' = tx_buf[2] /\ dma' = tx_buf[2] /\ tx_queue' = <<tx_buf[3]>> /\ tx_sem' = 0
    BY <1>1, <2>2 DEF uart_cb_net, GiveTxSem, uart_tx
  <2>4. netWire' = 1 /\ holds' = [holds EXCEPT ![tx_buf[1]] = 0]
    BY <1>1, <1>2, <2>1 DEF uart_cb_net, Unref
  <2>5. UNCHANGED <<netPc, k, tx_buf>>
    BY DEF uart_cb_net
  <2>6. Held(2, 3)'
    BY <2>1, <2>4, <2>5
  <2>7. NetTypeOK' /\ Sending'
    BY <1>1, <2>1, <2>3, <2>4, <2>5, <2>6
  <2> QED
    BY <1>1, <2>3, <2>5, <2>6, <2>7
<1>3. CASE netWire = 1
  <2>1. Held(2, 3) /\ ref_buff = tx_buf[2] /\ tx_buf[3] \in Pool
    BY <1>1, <1>3 DEF uart_cb_net
  <2>2. tx_queue # <<>> /\ Head(tx_queue) = tx_buf[3] /\ Tail(tx_queue) = <<>>
    <3>1. tx_queue = <<tx_buf[3]>>
      BY <1>1, <1>3
    <3>2. tx_buf[2] \in Pool \cup {NoBuf} /\ tx_buf[3] \in Pool \cup {NoBuf}
      BY DEF NetInv
    <3> HIDE DEF NetInv, NetTypeOK, Preparing, Finished, Sending, Held, Messages
    <3> QED
      BY <3>1, <3>2, QueueHeads
  <2>3. ref_buff' = tx_buf[3] /\ dma' = tx_buf[3] /\ tx_queue' = <<>> /\ tx_sem' = 0
    BY <1>1, <2>2 DEF uart_cb_net, GiveTxSem, uart_tx
  <2>4. netWire' = 2 /\ holds' = [holds EXCEPT ![tx_buf[2]] = 0]
    BY <1>1, <1>3, <2>1 DEF uart_cb_net, Unref
  <2>5. UNCHANGED <<netPc, k, tx_buf>>
    BY DEF uart_cb_net
  <2>6. Held(3, 3)'
    BY <2>1, <2>4, <2>5
  <2>7. NetTypeOK' /\ Sending'
    BY <1>1, <2>1, <2>3, <2>4, <2>5, <2>6
  <2> QED
    BY <1>1, <2>3, <2>5, <2>6, <2>7
<1>4. CASE netWire = 2
  BY <1>1, <1>4 DEF uart_cb_net, Unref, GiveTxSem, uart_tx
<1> QED
  BY <1>1, <1>2, <1>3, <1>4

\* The invariant is inductive.
LEMMA NetNextInv == NetInv /\ [NetNext]_netVars => NetInv'
<1> SUFFICES ASSUME NetInv, [NetNext]_netVars PROVE NetInv'
  OBVIOUS
<1>1. CASE NetNext
  BY <1>1, NetMainKeeps, CallbackKeeps DEF NetNext
<1>2. CASE UNCHANGED netVars
  BY <1>2 DEF netVars, NetInv, NetTypeOK, Preparing, Finished, Sending, Held, Messages
<1> QED
  BY <1>1, <1>2

\* Type correctness, and the pool: no net_buf_alloc of main ever returns NULL.
THEOREM AllocationsSucceed == NetSpec => []AllocSucceeds
  BY NetInitInv, NetNextInv, PoolSuffices, PTL DEF NetSpec

\* As long as the semaphore is not available, a message is being sent.
LEMMA ChainGoesOn == NetInv => NetWoken
<1> SUFFICES ASSUME NetInv, netPc = "take", tx_sem = 0 PROVE dma # NoBuf
  BY DEF NetInv, NetTypeOK, NetWoken
<1> QED
  BY NetBufTxAssumption DEF NetInv, Sending, Held

\* _09 never waits for a chain that has stopped: each callback starts the next transfer or gives
\* the semaphore.
THEOREM ChainEnds == NetSpec => []NetWoken
  BY ChainGoesOn, NetInitInv, NetNextInv, PTL DEF NetSpec

\* In each step of the chain the next message leaves.
LEMMA ChainOrdered == NetInv /\ uart_cb_net => netWire' = AfterMessage(netWire)
  BY DEF uart_cb_net, NetInv, NetTypeOK, Preparing, Finished, Sending, Held, AfterMessage

\* The messages leave as First, Second, Third, First, ...
THEOREM SentInOrder == NetSpec => MessagesInOrder
  BY ChainOrdered, NetInitInv, NetNextInv, PTL DEF NetSpec, MessagesInOrder
=============================================================================
