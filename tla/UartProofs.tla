---------------------------- MODULE UartProofs ----------------------------
(***************************************************************************)
(* Proofs about the receivers and about the UART samples together.         *)
(* UartIrqRx, for every buffer size and a FIFO of one byte: a line that    *)
(* ends is complete.  UartDmaRx, for every size of the buffers and of the  *)
(* queue: main gets the bytes in order and none of them twice.             *)
(***************************************************************************)
EXTENDS MCUart, UartTxProofs

\* The handler does not run at the start, and rx_buf holds some bytes.
LEMMA RxInitType == RxInit => RxTypeOK
<1> SUFFICES ASSUME RxInit PROVE RxTypeOK
  OBVIOUS
<1>1. Len(got) = 0 /\ arrived \in Seq(Received) /\ line \in Seq(Text) /\ got \in Seq(Received)
  BY EmptySeq DEF RxInit
<1>2. rx_count \in Slots /\ rx_i \in 0..Len(got)
  BY <1>1, IrqRxAssumption DEF RxInit, Slots
<1> QED
  BY <1>1, <1>2 DEF RxInit, RxTypeOK

\* What the FIFO delivers: what falls into the buffer are bytes that were received.
LEMMA ReadFacts ==
  ASSUME RxTypeOK, arrived # <<>>
  PROVE  /\ ReadCount \in 1..Len(arrived)
         /\ ReadInto \in [Slots -> Received \cup {"nul"}]
         /\ SubSeq(arrived, 1, ReadCount) \in Seq(Received)
         /\ Len(SubSeq(arrived, 1, ReadCount)) = ReadCount
         /\ SubSeq(arrived, ReadCount + 1, Len(arrived)) \in Seq(Received)
<1>1. arrived \in Seq(Received) /\ rx_count \in 0..(RxLen - 1) /\ RxLen \in Nat \ {0}
  BY IrqRxAssumption DEF RxTypeOK, Slots
<1>2. Len(arrived) \in Nat \ {0} /\ \A j \in 1..Len(arrived) : arrived[j] \in Received
  BY <1>1, EmptySeq, ElementOfSeq
<1>3. ReadCount \in 1..Len(arrived)
  BY <1>1, <1>2 DEF ReadCount
<1>4. ReadInto \in [Slots -> Received \cup {"nul"}]
  <2> SUFFICES ASSUME NEW j \in Slots, j \in rx_count..(rx_count + ReadCount - 1)
               PROVE  arrived[j - rx_count + 1] \in Received
    BY DEF ReadInto, RxTypeOK
  <2> QED
    BY <1>1, <1>2, <1>3
<1>5. /\ SubSeq(arrived, 1, ReadCount) \in Seq(Received)
      /\ Len(SubSeq(arrived, 1, ReadCount)) = ReadCount
  BY <1>2, <1>3, SubSeqProperties
<1>6. SubSeq(arrived, ReadCount + 1, Len(arrived)) \in Seq(Received)
  BY <1>2, <1>3, SubSeqProperties
<1> QED
  BY <1>3, <1>4, <1>5, <1>6

\* rx_count stays inside the buffer, with main's steps and the handler's.
LEMMA RxNextType == RxTypeOK /\ [RxNext]_rxVars => RxTypeOK'
<1> SUFFICES ASSUME RxTypeOK, [RxNext]_rxVars PROVE RxTypeOK'
  OBVIOUS
<1>1. CASE RxMain
  BY <1>1 DEF RxMain, PollFlag, ClearFlag, PrintMessage, AfterStep, RxTypeOK
<1>2. CASE ByteArrives
  <2>1. PICK b \in Received : arrived' = Append(arrived, b)
    BY <1>2 DEF ByteArrives
  <2>2. arrived' \in Seq(Received)
    BY <2>1, AppendProperties DEF RxTypeOK
  <2> QED
    BY <1>2, <2>2 DEF ByteArrives, RxTypeOK
<1>3. CASE uart_cb_read
  <2>1. overrun' \in BOOLEAN
    BY <1>3 DEF uart_cb_read
  <2> QED
    BY <1>3, <2>1, ReadFacts DEF uart_cb_read, RxTypeOK
<1>4. CASE uart_cb_byte
  <2>1. rx_i + 1 \in 1..Len(got) /\ got[rx_i + 1] \in Received
    BY <1>4, ElementOfSeq, LenProperties DEF uart_cb_byte, InHandler, RxTypeOK
  <2>2. line' \in Seq(Text)
    <3>1. CASE got[rx_i + 1] = "cr" \/ Len(line) + 1 >= RxLen
      BY <1>4, <3>1, EmptySeq DEF uart_cb_byte, Extend
    <3>2. CASE ~(got[rx_i + 1] = "cr" \/ Len(line) + 1 >= RxLen)
      BY <1>4, <2>1, <3>2, AppendProperties DEF uart_cb_byte, Extend, Received, RxTypeOK
    <3> QED
      BY <3>1, <3>2
  <2>3. /\ rx_count' \in Slots /\ rx_flag' \in BOOLEAN /\ overrun' \in BOOLEAN
        /\ rx_buf' \in [Slots -> Received \cup {"nul"}]
    <3>1. 0 \in Slots /\ \A c \in Slots : NextCount(c) \in Slots
      BY IrqRxAssumption DEF NextCount, Slots
    <3>2. \/ /\ rx_flag' = TRUE /\ rx_count' = 0
             /\ rx_buf' = [rx_buf EXCEPT ![rx_count + rx_i] = "nul"]
             /\ overrun' = (rx_count + rx_i >= RxLen)
          \/ /\ rx_flag' = rx_flag /\ rx_count' = NextCount(rx_count)
             /\ rx_buf' = rx_buf /\ overrun' = overrun
      BY <1>4, Zenon DEF uart_cb_byte, LookAt, CountAfterCr
    <3>3. overrun' = (rx_count + rx_i >= RxLen) => overrun' \in BOOLEAN
      OBVIOUS
    <3>4. overrun' = overrun => overrun' \in BOOLEAN
      BY Zenon DEF RxTypeOK
    <3> QED
      BY <3>1, <3>2, <3>3, <3>4 DEF RxTypeOK
  <2> QED
    BY <1>4, <2>1, <2>2, <2>3 DEF uart_cb_byte, RxTypeOK
<1>5. CASE UNCHANGED rxVars
  BY <1>5 DEF rxVars, RxTypeOK
<1> QED
  BY <1>1, <1>2, <1>3, <1>4, <1>5 DEF RxNext

\* With a FIFO of one byte the handler looks at the byte it just read, behind the line so far.
LineInv ==
  /\ Len(arrived) <= 1 /\ Len(got) <= 1
  /\ rx_count = Len(line)
  /\ \A j \in 1..Len(line) : rx_buf[j - 1] = line[j]
  /\ InHandler => rx_buf[rx_count] = got[1]
  /\ ~overrun

\* Which byte the handler looks at: the one it read; a '\r' ends the line, another one extends it.
LEMMA HandlerLooksAt ==
  ASSUME RxTypeOK, LineInv, uart_cb_byte
  PROVE  /\ rx_i = 0 /\ rx_count \in Slots /\ rx_buf[rx_count] = got[1]
         /\ ~overrun'
         /\ IF got[1] = "cr"
            THEN /\ rx_flag' /\ rx_count' = 0 /\ line' = <<>>
                 /\ rx_buf' = [rx_buf EXCEPT ![rx_count] = "nul"]
            ELSE /\ rx_buf' = rx_buf
                 /\ rx_count' = NextCount(rx_count) /\ line' = Extend(line, got[1])
<1>1. rx_i = 0 /\ rx_count \in Slots /\ rx_buf[rx_count] = got[1]
  BY LenProperties DEF uart_cb_byte, InHandler, LineInv, RxTypeOK
<1>2. rx_count + rx_i = rx_count /\ got[rx_i + 1] = got[1]
  BY <1>1 DEF Slots
<1>3. SeesCr(rx_count + rx_i) = {got[1] = "cr"}
  BY <1>1, <1>2 DEF SeesCr
<1>4. IF got[1] = "cr"
      THEN /\ rx_flag' = TRUE /\ rx_count' = 0 /\ rx_buf' = [rx_buf EXCEPT ![rx_count] = "nul"]
           /\ overrun' = (rx_count >= RxLen)
      ELSE rx_count' = NextCount(rx_count) /\ rx_buf' = rx_buf /\ overrun' = overrun
  BY <1>2, <1>3 DEF uart_cb_byte, LookAt, CountAfterCr
<1>5. ~(rx_count >= RxLen) /\ ~overrun
  BY <1>1, IrqRxAssumption DEF Slots, LineInv
<1>6. line' = Extend(line, got[1])
  BY <1>2 DEF uart_cb_byte
<1> QED
  BY <1>1, <1>4, <1>5, <1>6 DEF Extend

\* It is one byte that the handler reads.
LEMMA OneByteRead ==
  ASSUME RxTypeOK, LineInv, arrived # <<>>
  PROVE  Len(arrived) = 1 /\ ReadCount = 1
<1>1. Len(arrived) \in Nat \ {0}
  BY EmptySeq DEF RxTypeOK
<1>2. ReadCount \in 1..Len(arrived)
  BY ReadFacts
<1>3. \A n \in Nat \ {0} : n <= 1 => n = 1
  OBVIOUS
<1>4. Len(arrived) = 1
  BY <1>1, <1>3, Zenon DEF LineInv
<1> QED
  BY <1>2, <1>4

\* The line in the buffer is the line that was received.
LEMMA LineNext ==
  ASSUME RxFifo = 1, RxTypeOK, LineInv, [RxNext]_rxVars
  PROVE  LineInv'
<1>1. CASE RxMain
  BY <1>1 DEF RxMain, LineInv, InHandler
<1>2. CASE ByteArrives
  <2>1. PICK b \in Received : arrived' = Append(arrived, b)
    BY <1>2 DEF ByteArrives
  <2>2. Len(arrived') = Len(arrived) + 1 /\ Len(arrived) \in Nat
    BY <2>1, AppendProperties, LenProperties DEF RxTypeOK
  <2> QED
    BY <1>2, <2>2 DEF ByteArrives, LineInv, InHandler
<1>3. CASE uart_cb_read
  <2>1. arrived # <<>> /\ Len(arrived) = 1 /\ ReadCount = 1
    BY <1>3, OneByteRead DEF uart_cb_read
  <2>2. got' = SubSeq(arrived, 1, 1) /\ arrived' = SubSeq(arrived, 2, 1)
    BY <1>3, <2>1 DEF uart_cb_read
  <2>3. Len(got') = 1 /\ got'[1] = arrived[1] /\ Len(arrived') = 0
    <3>1. \A j \in 1..1 : arrived[j] \in Received
      BY <2>1, ElementOfSeq DEF RxTypeOK
    <3>2. Len(SubSeq(arrived, 1, 1)) = 1 /\ SubSeq(arrived, 1, 1)[1] = arrived[1]
      BY <3>1, SubSeqProperties
    <3>3. Len(SubSeq(arrived, 2, 1)) = 0
      BY SubSeqProperties
    <3> QED
      BY <2>2, <3>2, <3>3
  <2>4. /\ rx_buf'[rx_count] = arrived[1]
        /\ \A j \in Slots : j < rx_count => rx_buf'[j] = rx_buf[j]
    BY <1>3, <2>1, IrqRxAssumption DEF uart_cb_read, ReadInto, Slots, RxTypeOK
  <2>5. \A j \in 1..Len(line) : j - 1 \in Slots /\ j - 1 < rx_count
    BY LenProperties, IrqRxAssumption DEF LineInv, Slots, RxTypeOK
  <2>6. line' = line /\ rx_count' = rx_count
    BY <1>3 DEF uart_cb_read
  <2>7. ~overrun'
    BY <1>3, <2>1, IrqRxAssumption DEF uart_cb_read, Slots, RxTypeOK
  <2> QED
    BY <2>3, <2>4, <2>5, <2>6, <2>7 DEF LineInv
<1>4. CASE uart_cb_byte
  <2>1. Len(line) \in Nat /\ rx_count = Len(line) /\ RxLen \in Nat \ {0} /\ rx_count < RxLen
    BY LenProperties, IrqRxAssumption DEF LineInv, Slots, RxTypeOK
  <2>2. got' = got /\ arrived' = arrived /\ rx_i' = 1 /\ ~InHandler' /\ ~overrun'
    BY <1>4, HandlerLooksAt, LenProperties DEF uart_cb_byte, LineInv, InHandler, RxTypeOK
  <2>3. CASE got[1] = "cr" \/ rx_count + 1 >= RxLen
    <3>1. line' = <<>> /\ rx_count' = 0
      BY <1>4, <2>1, <2>3, HandlerLooksAt DEF Extend, NextCount
    <3> QED
      BY <2>2, <3>1 DEF LineInv
  <2>4. CASE ~(got[1] = "cr" \/ rx_count + 1 >= RxLen)
    <3>1. line' = Append(line, got[1]) /\ rx_count' = rx_count + 1 /\ rx_buf' = rx_buf
      BY <1>4, <2>1, <2>4, HandlerLooksAt DEF Extend, NextCount
    <3>2. got[1] \in Text
      BY <1>4, <2>4, ElementOfSeq, LenProperties DEF uart_cb_byte, InHandler, Received, LineInv, RxTypeOK
    <3>3. /\ Len(line') = Len(line) + 1 /\ line'[Len(line) + 1] = got[1]
          /\ \A j \in 1..Len(line) : line'[j] = line[j]
      BY <3>1, <3>2, AppendProperties DEF RxTypeOK
    <3> QED
      BY <1>4, <2>1, <2>2, <3>1, <3>3, HandlerLooksAt DEF LineInv
  <2> QED
    BY <2>3, <2>4
<1>5. CASE UNCHANGED rxVars
  BY <1>5 DEF rxVars, LineInv, InHandler
<1> QED
  BY <1>1, <1>2, <1>3, <1>4, <1>5 DEF RxNext

\* A '\r' that the handler finds ends the line that stands in the buffer.
LEMMA LineStands ==
  ASSUME RxTypeOK, LineInv, uart_cb_byte, got = <<"cr">>
  PROVE  /\ rx_flag'
         /\ rx_buf'[Len(line)] = "nul"
         /\ \A j \in 1..Len(line) : rx_buf'[j - 1] = line[j]
<1>1. rx_flag' /\ rx_buf' = [rx_buf EXCEPT ![rx_count] = "nul"] /\ rx_count \in Slots
  BY HandlerLooksAt
<1>2. rx_count = Len(line) /\ \A j \in 1..Len(line) : j - 1 \in Slots /\ j - 1 # Len(line)
  BY LenProperties, IrqRxAssumption DEF LineInv, RxTypeOK, Slots
<1> QED
  BY <1>1, <1>2 DEF LineInv, RxTypeOK

\* Where the receiver has no FIFO, a '\r' finds the whole line in rx_buf from its first byte
\* on, is replaced by the terminator and raises the flag, for every size of the buffer.
THEOREM LinesComplete == RxFifo = 1 /\ RxSpec => LineCompleted
<1> SUFFICES ASSUME RxFifo = 1 PROVE RxSpec => LineCompleted
  OBVIOUS
<1>1. RxInit => RxTypeOK /\ LineInv
  BY RxInitType DEF RxInit, LineInv, InHandler
<1>2. RxTypeOK /\ LineInv /\ [RxNext]_rxVars => (RxTypeOK /\ LineInv)'
  BY RxNextType, LineNext
<1>3. RxTypeOK /\ LineInv =>
        [(uart_cb_byte /\ got = <<"cr">>) =>
            /\ rx_flag'
            /\ rx_buf'[Len(line)] = "nul"
            /\ \A j \in 1..Len(line) : rx_buf'[j - 1] = line[j]]_rxVars
  BY LineStands
<1> QED
  BY <1>1, <1>2, <1>3, PTL DEF RxSpec, LineCompleted

\* The byte that completes a line raises the flag; until then main has printed all others.
LEMMA FlagNext ==
  ASSUME RxTypeOK, LineInv, LineFlagged, [RxNext]_rxVars
  PROVE  LineFlagged'
<1>1. CASE RxMain
  BY <1>1 DEF RxMain, PollFlag, ClearFlag, PrintMessage, AfterStep, LineFlagged, RxTypeOK
<1>2. CASE ByteArrives \/ uart_cb_read \/ UNCHANGED rxVars
  BY <1>2 DEF ByteArrives, uart_cb_read, rxVars, LineFlagged
<1>3. CASE uart_cb_byte
  <2>1. rx_i = 0 /\ (got[rx_i + 1] = "cr" => rx_flag')
    BY <1>3, HandlerLooksAt
  <2>2. rx_flag => rx_flag'
    BY <1>3 DEF uart_cb_byte, LookAt
  <2>3. unseen' => unseen \/ got[rx_i + 1] = "cr"
    BY <1>3 DEF uart_cb_byte
  <2> QED
    BY <1>3, <2>1, <2>2, <2>3 DEF uart_cb_byte, LineFlagged
<1> QED
  BY <1>1, <1>2, <1>3 DEF RxNext

\* Wherever the interrupt finds main between its look at the flag and the print, a line it has
\* completed is flagged until main prints.
THEOREM LinesFlagged == RxFifo = 1 /\ RxSpec => []LineFlagged
<1> SUFFICES ASSUME RxFifo = 1 PROVE RxSpec => []LineFlagged
  OBVIOUS
<1>1. RxInit => RxTypeOK /\ LineInv /\ LineFlagged
  BY RxInitType DEF RxInit, LineInv, InHandler, LineFlagged
<1>2. RxTypeOK /\ LineInv /\ LineFlagged /\ [RxNext]_rxVars => (RxTypeOK /\ LineInv /\ LineFlagged)'
  BY RxNextType, LineNext, FlagNext
<1> QED
  BY <1>1, <1>2, PTL DEF RxSpec
-----------------------------------------------------------------------------
\* Nothing is queued and nothing reported at the start.
LEMMA DmaInitType == DmaInit => DmaTypeOK
<1> SUFFICES ASSUME DmaInit PROVE DmaTypeOK
  OBVIOUS
<1>1. [n |-> 0, kind |-> "ctrl"] \in Byte
  BY DmaRxAssumption DEF Byte, Kinds
<1>2. dma_buf \in [0..1 -> [0..(BufLen - 1) -> Byte]]
  BY <1>1 DEF DmaInit
<1>3. queue \in Seq(Byte) /\ Len(queue) <= QueueLen
  BY EmptySeq, DmaRxAssumption DEF DmaInit
<1> QED
  BY <1>2, <1>3, DmaRxAssumption DEF DmaInit, DmaTypeOK

\* What a step of the loop does with the queue: at most one byte is appended, and it is the one
\* the index points at.
LEMMA StoreFacts ==
  ASSUME DmaTypeOK, uart_cb_rx_byte
  PROVE  /\ rdyIndex \in 0..(BufLen - 1) /\ dma_buf[active][rdyIndex] \in Byte
         /\ \/ queue' = queue
            \/ /\ Len(queue) < QueueLen
               /\ queue' = Append(queue, dma_buf[active][rdyIndex])
<1>1. rdyIndex \in 0..(BufLen - 1) /\ dma_buf[active][rdyIndex] \in Byte
  BY DmaRxAssumption DEF uart_cb_rx_byte, InLoop, DmaTypeOK
<1>2. \/ queue' = queue
      \/ Len(queue) < QueueLen /\ queue' = Append(queue, dma_buf[active][rdyIndex])
  BY DEF uart_cb_rx_byte, k_msgq_put_no_wait
<1> QED
  BY <1>1, <1>2

\* The indices stay inside the buffers and the queue inside its length.
LEMMA DmaNextType == DmaTypeOK /\ [DmaNext]_dmaVars => DmaTypeOK'
<1> SUFFICES ASSUME DmaTypeOK, [DmaNext]_dmaVars PROVE DmaTypeOK'
  OBVIOUS
<1>1. CASE DmaByteArrives
  <2>1. PICK kind \in Kinds :
          dma_buf' = [dma_buf EXCEPT ![active][pos] = [n |-> received + 1, kind |-> kind]]
    BY <1>1 DEF DmaByteArrives
  <2>2. /\ pos \in 0..(BufLen - 1) /\ received + 1 \in 0..MaxBytes
        /\ [n |-> received + 1, kind |-> kind] \in Byte
    BY <1>1, DmaRxAssumption DEF DmaByteArrives, DmaTypeOK, Byte
  <2>3. dma_buf' \in [0..1 -> [0..(BufLen - 1) -> Byte]]
    BY <2>1, <2>2 DEF DmaTypeOK
  <2> QED
    BY <1>1, <2>2, <2>3, DmaRxAssumption DEF DmaByteArrives, DmaTypeOK
<1>2. CASE uart_cb_rx_rdy
  BY <1>2, DmaRxAssumption DEF uart_cb_rx_rdy, FirstIndex, DmaTypeOK
<1>3. CASE uart_cb_rx_byte
  <2>1. queue' \in Seq(Byte) /\ Len(queue') <= QueueLen
    <3>1. Len(queue) \in Nat
      BY LenProperties DEF DmaTypeOK
    <3>2. queue \in Seq(Byte) /\ Len(queue) <= QueueLen
      BY DEF DmaTypeOK
    <3>3. ASSUME NEW b \in Byte, Len(queue) < QueueLen, queue' = Append(queue, b)
          PROVE  queue' \in Seq(Byte) /\ Len(queue') = Len(queue) + 1
      BY <3>2, <3>3, AppendProperties
    <3> QED
      BY <1>3, <3>1, <3>2, <3>3, StoreFacts, DmaRxAssumption
  <2>2. rdyIndex' \in 0..BufLen
    BY <1>3, StoreFacts, DmaRxAssumption DEF uart_cb_rx_byte
  <2>3. UNCHANGED <<dma_buf, buf_index, counter, active, offered, pos, reported, received, rdyLen, last>>
    BY <1>3 DEF uart_cb_rx_byte
  <2> QED
    BY <2>1, <2>2, <2>3 DEF DmaTypeOK
<1>4. CASE uart_cb_buf_request
  BY <1>4, DmaRxAssumption DEF uart_cb_buf_request, DmaTypeOK
<1>5. CASE TakeByte
  <2>1. Head(queue) \in Byte /\ Tail(queue) \in Seq(Byte) /\ Len(Tail(queue)) = Len(queue) - 1
    BY <1>5, HeadTailProperties DEF TakeByte, DmaTypeOK
  <2>2. Len(queue) \in Nat
    BY LenProperties DEF DmaTypeOK
  <2>3. queue' \in Seq(Byte) /\ Len(queue') <= QueueLen /\ last' \in 0..MaxBytes
    BY <1>5, <2>1, <2>2, DmaRxAssumption DEF TakeByte, DmaTypeOK, Byte
  <2>4. counter' \in 0..(BufLen - 1)
    BY <1>5, DmaRxAssumption DEF TakeByte, DmaTypeOK
  <2> QED
    BY <1>5, <2>3, <2>4 DEF TakeByte, DmaTypeOK
<1>6. CASE Exhausted \/ UNCHANGED dmaVars
  BY <1>6 DEF Exhausted, dmaVars, DmaTypeOK
<1> QED
  BY <1>1, <1>2, <1>3, <1>4, <1>5, <1>6 DEF DmaNext

\* The active buffer holds the bytes received last, in order, and the loop is within it.
Filled ==
  /\ pos <= received
  /\ \A j \in 0..(pos - 1) : dma_buf[active][j].n = received - pos + 1 + j
  /\ InLoop => rdyLen <= reported

\* How far the callback has come.
Reached == received - pos + (IF InLoop THEN rdyIndex ELSE reported)

\* What waits in the queue is newer than what main took, in order, and was looked at.
Ascending ==
  /\ last <= Reached
  /\ \A j \in 1..Len(queue) : last < queue[j].n /\ queue[j].n <= Reached
  /\ \A j, m \in 1..Len(queue) : j < m => queue[j].n < queue[m].n

\* No step of the DMA or of the callback goes back behind what was looked at.
LEMMA ReachedGrows ==
  ASSUME DmaTypeOK, Filled, DmaNext
  PROVE  Filled' /\ Reached \in Nat /\ Reached' \in Nat /\ Reached <= Reached'
<1> USE DmaRxAssumption
<1>0. /\ received \in Nat /\ pos \in 0..BufLen /\ reported \in 0..pos /\ received - pos \in Nat
      /\ rdyIndex \in Nat /\ rdyLen \in Nat /\ active \in 0..1
      /\ BufLen \in Nat /\ Reached \in Nat
  BY DEF DmaTypeOK, Filled, Reached
<1>1. CASE DmaByteArrives
  <2>1. PICK kind \in Kinds :
          dma_buf' = [dma_buf EXCEPT ![active][pos] = [n |-> received + 1, kind |-> kind]]
    BY <1>1 DEF DmaByteArrives
  <2>2. pos' = pos + 1 /\ received' = received + 1 /\ active' = active
    BY <1>1 DEF DmaByteArrives
  <2>3. /\ dma_buf'[active][pos].n = received + 1
        /\ \A j \in 0..(pos - 1) : dma_buf'[active][j] = dma_buf[active][j]
    BY <1>0, <1>1, <2>1 DEF DmaByteArrives, DmaTypeOK
  <2>4. \A j \in 0..(pos' - 1) : dma_buf'[active'][j].n = received' - pos' + 1 + j
    BY <1>0, <2>2, <2>3 DEF Filled
  <2> QED
    BY <1>0, <1>1, <2>2, <2>4 DEF DmaByteArrives, Filled, Reached, InLoop
<1>2. CASE uart_cb_rx_rdy
  BY <1>0, <1>2 DEF uart_cb_rx_rdy, FirstIndex, Filled, Reached, InLoop
<1>3. CASE uart_cb_rx_byte
  BY <1>0, <1>3 DEF uart_cb_rx_byte, Filled, Reached, InLoop
<1>4. CASE uart_cb_buf_request
  BY <1>0, <1>4 DEF uart_cb_buf_request, Filled, Reached, InLoop
<1>5. CASE TakeByte
  BY <1>0, <1>5 DEF TakeByte, Filled, Reached, InLoop
<1>6. CASE Exhausted
  BY <1>0, <1>6 DEF Exhausted, dmaVars, Filled, Reached, InLoop
<1> QED
  BY <1>0, <1>1, <1>2, <1>3, <1>4, <1>5, <1>6 DEF DmaNext

\* The order of the queue survives each step.
LEMMA AscendingNext ==
  ASSUME DmaTypeOK, Filled, Ascending, DmaNext
  PROVE  Ascending'
<1>0. /\ queue \in Seq(Byte) /\ Len(queue) \in Nat /\ last \in Nat
      /\ \A j \in 1..Len(queue) : queue[j] \in Byte /\ queue[j].n \in Nat
      /\ Reached \in Nat /\ Reached' \in Nat /\ Reached <= Reached'
  <2>1. queue \in Seq(Byte) /\ Len(queue) \in Nat /\ \A j \in 1..Len(queue) : queue[j] \in Byte
    BY LenProperties, ElementOfSeq DEF DmaTypeOK
  <2>2. last \in Nat /\ \A b \in Byte : b.n \in Nat
    BY DmaRxAssumption DEF DmaTypeOK, Byte
  <2>3. Reached \in Nat /\ Reached' \in Nat /\ Reached <= Reached'
    BY ReachedGrows
  <2> QED
    BY <2>1, <2>2, <2>3
<1>1. CASE UNCHANGED <<queue, last>>
  BY <1>0, <1>1 DEF Ascending
<1>2. CASE uart_cb_rx_byte /\ queue' # queue
  <2> DEFINE b == dma_buf[active][rdyIndex]
  <2>1. b \in Byte /\ queue' = Append(queue, b) /\ last' = last
    BY <1>2, StoreFacts DEF uart_cb_rx_byte
  <2>2. /\ Len(queue') = Len(queue) + 1 /\ queue'[Len(queue) + 1] = b
        /\ \A j \in 1..Len(queue) : queue'[j] = queue[j]
    BY <1>0, <2>1, AppendProperties
  <2>3. b.n = Reached + 1 /\ Reached' >= Reached + 1
    BY <1>2, DmaRxAssumption DEF uart_cb_rx_byte, Filled, Reached, InLoop, DmaTypeOK
  <2>4. \A j \in 1..Len(queue') :
          last' < queue'[j].n /\ queue'[j].n <= Reached'
    BY <1>0, <2>1, <2>2, <2>3 DEF Ascending
  <2>5. \A j, m \in 1..Len(queue') : j < m => queue'[j].n < queue'[m].n
    <3> SUFFICES ASSUME NEW j \in 1..Len(queue'), NEW m \in 1..Len(queue'), j < m
                 PROVE  queue'[j].n < queue'[m].n
      OBVIOUS
    <3>1. j \in 1..Len(queue) /\ queue'[j] = queue[j]
      BY <1>0, <2>2
    <3>2. CASE m \in 1..Len(queue)
      BY <2>2, <3>1, <3>2 DEF Ascending
    <3>3. CASE m = Len(queue) + 1
      BY <1>0, <2>2, <2>3, <3>1, <3>3 DEF Ascending
    <3> QED
      BY <1>0, <2>2, <3>2, <3>3
  <2> QED
    BY <1>0, <2>1, <2>4, <2>5 DEF Ascending
<1>3. CASE TakeByte
  <2>1. /\ queue # <<>> /\ queue' = Tail(queue) /\ last' = queue[1].n
    BY <1>0, <1>3 DEF TakeByte
  <2>2. /\ Len(queue) >= 1 /\ Len(queue') = Len(queue) - 1
        /\ \A j \in 1..Len(queue') : queue'[j] = queue[j + 1]
    BY <1>0, <2>1, HeadTailProperties, EmptySeq
  <2>3. last' <= Reached'
    BY <1>0, <2>1, <2>2 DEF Ascending
  <2>4. \A j \in 1..Len(queue') : j + 1 \in 1..Len(queue) /\ 1 \in 1..Len(queue) /\ 1 < j + 1
    BY <1>0, <2>2
  <2>5. ASSUME NEW j \in 1..Len(queue')
        PROVE  last' < queue'[j].n /\ queue'[j].n <= Reached'
    <3>1. queue[j + 1].n <= Reached /\ queue[1].n < queue[j + 1].n
      BY <2>4 DEF Ascending
    <3> QED
      BY <1>0, <2>1, <2>2, <2>4, <3>1
  <2>6. ASSUME NEW j \in 1..Len(queue'), NEW m \in 1..Len(queue'), j < m
        PROVE  queue'[j].n < queue'[m].n
    <3>1. j + 1 < m + 1
      BY <1>0, <2>2, <2>6
    <3> QED
      BY <2>2, <2>4, <3>1 DEF Ascending
  <2> QED
    BY <2>3, <2>5, <2>6 DEF Ascending
<1> QED
  BY <1>1, <1>2, <1>3
  DEF DmaNext, DmaByteArrives, uart_cb_rx_rdy, uart_cb_rx_byte, uart_cb_buf_request,
      Exhausted, dmaVars

DmaInv == DmaTypeOK /\ Filled /\ Ascending

\* The invariant holds at the start.
LEMMA DmaInitInv == DmaInit => DmaInv
<1> SUFFICES ASSUME DmaInit PROVE Filled /\ Ascending
  BY DmaInitType DEF DmaInv
<1> QED
  BY DEF DmaInit, Filled, Ascending, Reached, InLoop

\* The invariant is inductive.
LEMMA DmaNextInv == DmaInv /\ [DmaNext]_dmaVars => DmaInv'
<1>1. DmaInv /\ DmaNext => DmaInv'
  BY DmaNextType, ReachedGrows, AscendingNext DEF DmaInv
<1>2. DmaInv /\ UNCHANGED dmaVars => DmaInv'
  BY DEF dmaVars, DmaInv, DmaTypeOK, Filled, Ascending, Reached, InLoop
<1> QED
  BY <1>1, <1>2

\* Then what main takes next is newer than what it took last.
LEMMA TakesNewer == DmaInv /\ TakeByte => Head(queue).n > last
<1> SUFFICES ASSUME DmaInv, TakeByte PROVE Head(queue).n > last
  OBVIOUS
<1>1. queue \in Seq(Byte) /\ queue # <<>> /\ Len(queue) \in Nat \ {0}
  BY EmptySeq DEF TakeByte, DmaInv, DmaTypeOK
<1>2. last < queue[1].n
  BY <1>1 DEF DmaInv, Ascending
<1>3. last \in Nat /\ queue[1].n \in Nat
  <2>1. queue[1] \in Byte
    BY <1>1, ElementOfSeq
  <2> QED
    BY <2>1, DmaRxAssumption DEF DmaInv, DmaTypeOK, Byte
<1> QED
  BY <1>1, <1>2, <1>3

\* What it takes was received.
LEMMA TakesReceived == DmaInv /\ TakeByte => Head(queue).n \in (last + 1)..received
<1> SUFFICES ASSUME DmaInv, TakeByte PROVE Head(queue).n \in (last + 1)..received
  OBVIOUS
<1>1. queue \in Seq(Byte) /\ queue # <<>> /\ Len(queue) \in Nat \ {0}
  BY EmptySeq DEF TakeByte, DmaInv, DmaTypeOK
<1>2. queue[1].n <= Reached /\ queue[1].n > last
  BY <1>1, TakesNewer DEF DmaInv, Ascending
<1>3. last \in Nat /\ received \in Nat /\ queue[1].n \in Nat
  <2>1. queue[1] \in Byte
    BY <1>1, ElementOfSeq
  <2> QED
    BY <2>1, DmaRxAssumption DEF DmaInv, DmaTypeOK, Byte
<1>4. Reached \in Nat /\ Reached <= received
  BY DmaRxAssumption DEF DmaInv, DmaTypeOK, Filled, Reached, InLoop
<1> QED
  BY <1>1, <1>2, <1>3, <1>4

\* A byte that arrives is sent, one that main takes is taken, and the callback is not seen.
LEMMA DmaDelivers ==
  /\ DmaInit => Bytes!Init
  /\ DmaInv /\ [DmaNext]_dmaVars => [Bytes!Next]_(Bytes!deliveryVars)
<1>1. DmaInit => Bytes!Init
  BY DEF DmaInit, Bytes!Init
<1>2. ASSUME DmaInv, [DmaNext]_dmaVars PROVE [Bytes!Next]_(Bytes!deliveryVars)
  <2>1. CASE DmaByteArrives
    <3>1. received' = received + 1 /\ last' = last
      BY <2>1 DEF DmaByteArrives
    <3>2. Bytes!Send({"line"})
      BY <3>1 DEF Bytes!Send
    <3> QED
      BY <3>2 DEF Bytes!Next
  <2>2. CASE TakeByte
    <3>1. received' = received /\ last' \in (last + 1)..received
      BY <1>2, <2>2, TakesReceived DEF TakeByte
    <3>2. Bytes!Take("line")
      BY <3>1 DEF Bytes!Take
    <3> QED
      BY <3>2 DEF Bytes!Next
  <2>3. CASE UNCHANGED <<received, last>>
    BY <2>3 DEF Bytes!deliveryVars
  <2> QED
    BY <1>2, <2>1, <2>2, <2>3
    DEF DmaNext, dmaVars, uart_cb_rx_rdy, uart_cb_rx_byte, uart_cb_buf_request, Exhausted
<1> QED
  BY <1>1, <1>2

\* Whatever the sizes of the buffers and of the queue, wherever RX_RDY cuts the stream and
\* however often the buffer in use is offered again, main takes each byte at most once and in
\* the order of reception, and no other; what the full queue drops leaves a gap and no more.
THEOREM TakenInOrder == DmaSpec => InOrderOnce
  BY DmaDelivers, DmaInitInv, DmaNextInv, PTL DEF DmaSpec, InOrderOnce, Bytes!Spec
-----------------------------------------------------------------------------
\* What is proved of the sender with the semaphore, for the one that only waits a second.
DelayProofs == INSTANCE UartTxProofs WITH Sync <- FALSE

\* The two instances of the sender without it are the same.
LEMMA SameDelay ==
  /\ DelayTx!TxInit => DelayProofs!TxInit
  /\ DelayTx!TxNext => DelayProofs!TxNext
<1>1. DelayTx!TxInit => DelayProofs!TxInit
  BY DEF DelayTx!TxInit, DelayProofs!TxInit
<1>2. DelayTx!TxNext => DelayProofs!TxNext
  BY DEF DelayTx!TxNext, DelayTx!TxMain, DelayTx!TakeTxDone, DelayTx!LoadCount, DelayTx!EnableTx,
         DelayTx!TxSleepOver, DelayTx!uart_cb_tx, DelayTx!Positions, DelayTx!SignalDone, DelayTx!ShiftOut,
         DelayProofs!TxNext, DelayProofs!TxMain, DelayProofs!TakeTxDone, DelayProofs!LoadCount,
         DelayProofs!EnableTx, DelayProofs!TxSleepOver, DelayProofs!uart_cb_tx, DelayProofs!Positions,
         DelayProofs!SignalDone, DelayProofs!ShiftOut
<1> QED
  BY <1>1, <1>2

\* The sender without the semaphore keeps its invariant.
LEMMA DelayHolds ==
  /\ DelayTx!TxInit => DelayProofs!TxInv
  /\ DelayProofs!TxInv /\ DelayTx!TxNext => DelayProofs!TxInv'
  /\ DelayProofs!TxInv /\ UNCHANGED txVars => DelayProofs!TxInv'
  /\ DelayProofs!TxInv => TxTypeOK
  /\ DelayProofs!TxInv /\ ShiftOut => txWire' = After(txWire)
<1>1. DelayProofs!TxInit => DelayProofs!TxInv
  BY DelayProofs!TxInitInv, IrqTxAssumption, NetBufTxAssumption
<1>2. DelayProofs!TxInv /\ (DelayProofs!TxNext \/ UNCHANGED txVars) => DelayProofs!TxInv'
  BY DelayProofs!TxNextInv, IrqTxAssumption, NetBufTxAssumption DEF DelayProofs!txVars, txVars
<1>3. DelayProofs!TxInv => TxTypeOK
  BY DEF DelayProofs!TxInv, DelayProofs!TxTypeOK, TxTypeOK
<1>4. DelayProofs!TxInv /\ ShiftOut => txWire' = After(txWire)
  <2>1. DelayProofs!TxInv /\ DelayProofs!ShiftOut => txWire' = DelayProofs!After(txWire)
    BY DelayProofs!ShiftKeeps, IrqTxAssumption, NetBufTxAssumption
  <2> QED
    BY <2>1 DEF DelayProofs!ShiftOut, ShiftOut, DelayProofs!After, After
<1> QED
  BY <1>1, <1>2, <1>3, <1>4, SameDelay

\* The semaphore of the DMA sample is zero or one.
LEMMA DtxNextType == DtxTypeOK /\ DtxNext => DtxTypeOK'
<1> SUFFICES ASSUME DtxTypeOK, DtxNext PROVE DtxTypeOK'
  OBVIOUS
<1>1. transfer' \in BOOLEAN
  BY Zenon DEF DtxTypeOK, DtxNext, main_07, uart_cb_07
<1>2. dtxPc' \in {"take", "send", "sleep"} /\ dtx_sem' \in 0..1
  BY DEF DtxTypeOK, DtxNext, main_07, uart_cb_07
<1> QED
  BY <1>1, <1>2 DEF DtxTypeOK

\* The semaphore is taken while main prepares a transfer and while one runs.
DtxInv ==
  /\ dtxPc \in {"take", "send", "sleep"}
  /\ dtx_sem = 1 => ~transfer /\ dtxPc # "send"
  /\ dtxPc = "send" => ~transfer
  /\ dtxPc \in {"take", "sleep"} => dtx_sem = 1 \/ transfer

\* The invariant is inductive.
LEMMA DtxNextInv == DtxInv /\ [DtxNext]_dtxVars => DtxInv'
  BY DEF DtxInv, DtxNext, main_07, uart_cb_07, dtxVars

\* main of the DMA sample is never refused a transfer, because the semaphore says that the last
\* is done; and it never waits for the end of a transfer when none is running.
THEOREM DmaNeverRefused == DtxSpec => [](NeverRefused /\ DtxWoken)
<1>1. DtxInit => DtxInv
  BY DEF DtxInit, DtxInv
<1>2. DtxInv => NeverRefused /\ DtxWoken
  BY DEF DtxInv, NeverRefused, DtxWoken
<1> QED
  BY <1>1, <1>2, DtxNextInv, PTL DEF DtxSpec
-----------------------------------------------------------------------------
(* The samples together *)

\* Every program keeps its own invariant, whichever of them runs.
UartInv ==
  /\ IF program = "_03" THEN DelayProofs!TxInv ELSE TxInv
  /\ DtxTypeOK /\ DtxInv /\ NetInv /\ RxTypeOK /\ DmaInv
  /\ RxFifo = 1 => LineInv /\ LineFlagged

\* The invariant holds at the start of each program.
LEMMA UartInitInv == Init => UartInv
<1> SUFFICES ASSUME Init PROVE UartInv
  OBVIOUS
<1>1. IF program = "_03" THEN DelayProofs!TxInv ELSE TxInv
  BY TxInitInv, DelayHolds DEF Init
<1>2. DtxTypeOK /\ DtxInv
  <2>1. transfer \in BOOLEAN
    BY Zenon DEF Init, DtxInit
  <2> QED
    BY <2>1 DEF Init, DtxInit, DtxTypeOK, DtxInv
<1>3. LineInv /\ LineFlagged
  BY DEF Init, RxInit, LineInv, InHandler, LineFlagged
<1> QED
  BY <1>1, <1>2, <1>3, NetInitInv, RxInitType, DmaInitInv DEF Init, UartInv

\* A step of one program leaves the variables of the others alone.
LEMMA OneUartRuns ==
  ASSUME [Next]_<<program, txVars, dtxVars, netVars, rxVars, dmaVars>>
  PROVE  /\ program' = program
         /\ [DtxNext]_dtxVars /\ [NetNext]_netVars /\ [RxNext]_rxVars /\ [DmaNext]_dmaVars
         /\ IF program = "_03" THEN DelayTx!TxNext \/ UNCHANGED txVars ELSE [TxNext]_txVars
  BY DEF Next

\* So the invariant is kept.
LEMMA UartNextInv ==
  UartInv /\ [Next]_<<program, txVars, dtxVars, netVars, rxVars, dmaVars>> => UartInv'
<1> SUFFICES ASSUME UartInv, [Next]_<<program, txVars, dtxVars, netVars, rxVars, dmaVars>>
             PROVE  UartInv'
  OBVIOUS
<1>1. IF program' = "_03" THEN DelayProofs!TxInv' ELSE TxInv'
  BY OneUartRuns, TxNextInv, DelayHolds DEF UartInv
<1>2. DtxTypeOK' /\ DtxInv'
  <2>1. DtxNext => DtxTypeOK' /\ DtxInv'
    BY DtxNextType, DtxNextInv DEF UartInv
  <2>2. UNCHANGED dtxVars => DtxTypeOK' /\ DtxInv'
    BY DEF dtxVars, UartInv, DtxTypeOK, DtxInv
  <2> QED
    BY <2>1, <2>2, OneUartRuns
<1>3. NetInv' /\ RxTypeOK' /\ DmaInv'
  BY OneUartRuns, NetNextInv, RxNextType, DmaNextInv DEF UartInv
<1>4. RxFifo = 1 => LineInv' /\ LineFlagged'
  BY OneUartRuns, LineNext, FlagNext DEF UartInv
<1> QED
  BY <1>1, <1>2, <1>3, <1>4 DEF UartInv

\* Type correctness of all UART samples, for every value of the constants: counters, lengths
\* and semaphores stay inside their limits, whichever program runs.  The interrupt receiver
\* writes nothing behind rx_buf where its FIFO holds one byte; a deeper one may.
THEOREM UartTypesCorrect == Spec => [](TypesOK /\ (RxFifo = 1 => ~overrun))
<1>1. UartInv => TypesOK /\ (RxFifo = 1 => ~overrun)
  BY DelayHolds DEF UartInv, TxInv, NetInv, DmaInv, LineInv, TypesOK
<1> QED
  BY <1>1, UartInitInv, UartNextInv, PTL DEF Spec

\* No sender waits in vain, whichever of them runs: an interrupt, a transfer or a chain of
\* transfers is under way that gives its semaphore.
THEOREM SendersAreWoken == Spec => []SendersWoken
<1>1. UartInv => SendersWoken
  <2>1. UartInv /\ program = "_04" => TxWoken
    BY DEF UartInv, TxInv, Handshake, TxWoken
  <2> QED
    BY <2>1, ChainGoesOn DEF UartInv, DtxInv, DtxWoken, SendersWoken
<1> QED
  BY <1>1, UartInitInv, UartNextInv, PTL DEF Spec

\* The samples as MCUart runs them: no transfer is refused and no allocation fails; whole
\* messages leave, with the semaphore and without; the chain of net buffers keeps its order;
\* received bytes are taken once and in order; and without a FIFO a line is complete and
\* flagged until it is printed.
THEOREM UartHolds ==
  Spec => /\ [](AllocSucceeds /\ NeverRefused)
          /\ WholeMessages /\ MessagesInOrder /\ InOrderOnce
          /\ RxFifo = 1 => LineCompleted /\ []LineFlagged
<1>1. UartInv => AllocSucceeds /\ NeverRefused
  BY PoolSuffices DEF UartInv, DtxInv, NeverRefused
<1>2. UartInv => [ShiftOut => txWire' = After(txWire)]_txVars
  BY ShiftKeeps, DelayHolds DEF UartInv
<1>3. UartInv => [uart_cb_net => netWire' = AfterMessage(netWire)]_netVars
  BY ChainOrdered DEF UartInv
<1>4. /\ Init => Bytes!Init
      /\ UartInv /\ [Next]_<<program, txVars, dtxVars, netVars, rxVars, dmaVars>>
           => [Bytes!Next]_(Bytes!deliveryVars)
  BY DmaDelivers, OneUartRuns DEF Init, UartInv
<1>5. Spec => [](AllocSucceeds /\ NeverRefused) /\ WholeMessages /\ MessagesInOrder /\ InOrderOnce
  BY <1>1, <1>2, <1>3, <1>4, UartInitInv, UartNextInv, PTL
  DEF Spec, WholeMessages, MessagesInOrder, InOrderOnce, Bytes!Spec
<1>6. RxFifo = 1 => (Spec => LineCompleted /\ []LineFlagged)
  <2> SUFFICES ASSUME RxFifo = 1 PROVE Spec => LineCompleted /\ []LineFlagged
    OBVIOUS
  <2>1. UartInv => [(uart_cb_byte /\ got = <<"cr">>) =>
                      /\ rx_flag'
                      /\ rx_buf'[Len(line)] = "nul"
                      /\ \A j \in 1..Len(line) : rx_buf'[j - 1] = line[j]]_rxVars
    BY LineStands DEF UartInv
  <2>2. UartInv => LineFlagged
    BY DEF UartInv
  <2> QED
    BY <2>1, <2>2, UartInitInv, UartNextInv, PTL DEF Spec, LineCompleted
<1> QED
  BY <1>5, <1>6, PTL
=============================================================================
