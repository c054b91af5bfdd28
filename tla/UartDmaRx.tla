------------------------------ MODULE UartDmaRx ------------------------------
(***************************************************************************)
(* hal_drivers/UART/_08_rx_messages_with_dma: the DMA fills two buffers in *)
(* turn, the UART callback copies what RX_RDY reports into a message queue *)
(* and main takes the bytes out one at a time.  A byte carries the number  *)
(* of its reception; at most MaxBytes bytes are received.                  *)
(***************************************************************************)
EXTENDS Naturals, Sequences, SequencesExt

CONSTANTS BufLen,     \* sizeof(dma_buf[0]) and sizeof(buffer) of main
          QueueLen,   \* of rx_buffer.queue
          MaxBytes    \* bound of the model on the bytes received

ASSUME DmaRxAssumption == BufLen \in Nat \ {0} /\ QueueLen \in Nat \ {0} /\ MaxBytes \in Nat

VARIABLES
  queue, dma_buf, buf_index, counter,
  active, offered,    \* the buffer the DMA fills, and the one it goes on with
  pos, reported,      \* bytes in the active buffer, and those RX_RDY reported already
  received,           \* number of bytes received
  rdyIndex, rdyLen,   \* the callback's i and evt->data.rx.len
  last                \* observer: number of the last byte main took

dmaVars == <<queue, dma_buf, buf_index, counter, active, offered, pos, reported, received,
             rdyIndex, rdyLen, last>>

Kinds == {"text", "cr", "ctrl"}     \* ctrl: neither printable ASCII nor '\r'
Byte  == [n : 0..MaxBytes, kind : Kinds]

\* uart_rx_enable has started with dma_buf[0], and the UART_RX_BUF_REQUEST it raises was
\* answered with buf_index 0, the same buffer.
DmaInit ==
  /\ queue = <<>> /\ counter = 0 /\ buf_index = 1
  /\ dma_buf = [b \in 0..1 |-> [i \in 0..(BufLen - 1) |-> [n |-> 0, kind |-> "ctrl"]]]
  /\ active = 0 /\ offered = 0 /\ pos = 0 /\ reported = 0 /\ received = 0 /\ last = 0
  /\ rdyIndex = 0 /\ rdyLen = 0

\* The callback is in its loop: main does not run, the DMA goes on.
InLoop == rdyIndex < rdyLen

\* The DMA stores a byte.
DmaByteArrives ==
  /\ pos < BufLen /\ received < MaxBytes
  /\ \E kind \in Kinds :
       dma_buf' = [dma_buf EXCEPT ![active][pos] = [n |-> received + 1, kind |-> kind]]
  /\ pos' = pos + 1 /\ received' = received + 1
  /\ UNCHANGED <<queue, buf_index, counter, active, offered, reported, rdyIndex, rdyLen, last>>

\* The loop runs from rx.offset up to rx.len, the number of new bytes; variant: from 0.
FirstIndex_zero == 0
FirstIndex      == reported

\* UART_RX_RDY, after 10 ms of silence or when the buffer is full: the loop starts.
uart_cb_rx_rdy ==
  /\ ~InLoop /\ reported < pos
  /\ rdyIndex' = FirstIndex /\ rdyLen' = pos - reported
  /\ reported' = pos
  /\ UNCHANGED <<queue, dma_buf, buf_index, counter, active, offered, pos, received, last>>

Valid(b) == b.kind # "ctrl"

\* k_msgq_put with K_NO_WAIT: what does not fit is dropped.
k_msgq_put_no_wait(b) == queue' = IF Len(queue) < QueueLen THEN Append(queue, b) ELSE queue

\* The body of the loop.
uart_cb_rx_byte ==
  /\ InLoop
  /\ LET b == dma_buf[active][rdyIndex] IN
     IF Valid(b) THEN k_msgq_put_no_wait(b) ELSE UNCHANGED queue
  /\ rdyIndex' = rdyIndex + 1
  /\ UNCHANGED <<dma_buf, buf_index, counter, active, offered, pos, reported, received, rdyLen, last>>

\* The DMA goes on with the other buffer, and UART_RX_BUF_REQUEST asks for the next.
uart_cb_buf_request ==
  /\ ~InLoop /\ pos = BufLen /\ reported = pos
  /\ active' = offered /\ pos' = 0 /\ reported' = 0
  /\ offered' = buf_index
  /\ buf_index' = 1 - buf_index
  /\ UNCHANGED <<queue, dma_buf, counter, received, rdyIndex, rdyLen, last>>

\* main takes a byte and assembles its line; a '\r' prints it.
TakeByte ==
  /\ ~InLoop /\ queue # <<>>
  /\ queue' = Tail(queue)
  /\ last' = Head(queue).n
  /\ counter' = IF Head(queue).kind = "cr" \/ counter + 1 >= BufLen THEN 0 ELSE counter + 1
  /\ UNCHANGED <<dma_buf, buf_index, active, offered, pos, reported, received, rdyIndex, rdyLen>>

\* The bound of the model is reached and everything was taken out.
Exhausted ==
  received = MaxBytes /\ ~InLoop /\ reported = pos /\ queue = <<>> /\ UNCHANGED dmaVars

DmaNext ==
  \/ DmaByteArrives \/ uart_cb_rx_rdy \/ uart_cb_rx_byte \/ uart_cb_buf_request
  \/ TakeByte \/ Exhausted
DmaSpec == DmaInit /\ [][DmaNext]_dmaVars
-----------------------------------------------------------------------------
\* Type correctness.
DmaTypeOK ==
  /\ queue \in Seq(Byte) /\ Len(queue) <= QueueLen
  /\ dma_buf \in [0..1 -> [0..(BufLen - 1) -> Byte]]
  /\ buf_index \in 0..1 /\ active \in 0..1 /\ offered \in 0..1
  /\ counter \in 0..(BufLen - 1) /\ pos \in 0..BufLen /\ reported \in 0..pos
  /\ received \in 0..MaxBytes /\ last \in 0..MaxBytes
  /\ rdyIndex \in 0..BufLen /\ rdyLen \in 0..BufLen

\* main gets the bytes in the order of their reception, none of them twice and none that was
\* not received, although the callback looks at a buffer several times while it fills and the
\* buffers are reused: the line is a lossy source of Delivery.
Bytes == INSTANCE Delivery WITH
           Sources <- {"line"}, sent <- [s \in {"line"} |-> received],
           taken <- [s \in {"line"} |-> last], lossy <- {"line"}
InOrderOnce == Bytes!Spec

\* main.c:84-86, "we simply need to process the data received simply by going trough the
\* data received and store each byte into a queue": the loop comes to every valid byte that is
\* new.
NewBytesStored ==
  [][uart_cb_rx_rdy =>
        \A i \in reported..(pos - 1) :
          Valid(dma_buf[active][i]) => i \in rdyIndex'..(rdyLen' - 1)]_dmaVars
=============================================================================
