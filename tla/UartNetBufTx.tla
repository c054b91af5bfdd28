---------------------------- MODULE UartNetBufTx ----------------------------
(***************************************************************************)
(* hal_drivers/UART/_09_tx_messages_net_buffers: main fills three buffers  *)
(* of a pool, queues two and sends the first by DMA; the UART callback     *)
(* frees the buffer that was sent, starts the next queued one and gives    *)
(* the semaphore when the queue is empty.  The transfers have no timeout   *)
(* and are not aborted, so UART_TX_DONE is the only event.                 *)
(***************************************************************************)
EXTENDS Naturals, Sequences

CONSTANTS Pool,     \* tx_net_pool; MAX_BUFFERS is 3
          NoBuf     \* NULL

ASSUME NetBufTxAssumption ==
  /\ \E a, b, c \in Pool : a # b /\ b # c /\ a # c
  /\ NoBuf \notin Pool

VARIABLES
  netPc, k,              \* main, and the buffer (1..3) it is at
  holds,                  \* the message each buffer was filled with; 0: in the pool
  tx_buf, tx_queue, ref_buff, tx_sem,
  dma,                    \* the buffer the DMA sends
  netWire                    \* the last message sent

netVars == <<netPc, k, holds, tx_buf, tx_queue, ref_buff, tx_sem, dma, netWire>>

Messages == 1..3
Free     == {b \in Pool : holds[b] = 0}

NetInit ==
  /\ netPc = "take" /\ k = 1 /\ tx_sem = 1
  /\ holds = [b \in Pool |-> 0] /\ tx_buf = [m \in Messages |-> NoBuf]
  /\ tx_queue = <<>> /\ ref_buff = NoBuf /\ dma = NoBuf /\ netWire = 3

TakeTxSem ==
  /\ netPc = "take" /\ tx_sem = 1
  /\ tx_sem' = 0 /\ netPc' = "alloc" /\ k' = 1
  /\ UNCHANGED <<holds, tx_buf, tx_queue, ref_buff, dma, netWire>>

\* net_buf_alloc with K_NO_WAIT and the copy, for each message; the result is not checked.
AllocAndFill ==
  /\ netPc = "alloc"
  /\ \E b \in Free :
       /\ holds' = [holds EXCEPT ![b] = k]
       /\ tx_buf' = [tx_buf EXCEPT ![k] = b]
  /\ IF k < 3 THEN k' = k + 1 /\ UNCHANGED netPc ELSE k' = 2 /\ netPc' = "put"
  /\ UNCHANGED <<tx_queue, ref_buff, tx_sem, dma, netWire>>

\* k_fifo_put of the second and the third buffer.
PutFifo ==
  /\ netPc = "put"
  /\ tx_queue' = Append(tx_queue, tx_buf[k])
  /\ IF k < 3 THEN k' = k + 1 /\ UNCHANGED netPc ELSE k' = 1 /\ netPc' = "send"
  /\ UNCHANGED <<holds, tx_buf, ref_buff, tx_sem, dma, netWire>>

\* uart_tx returns -EBUSY while a transfer is running, and nobody looks.
uart_tx(busy, b) == dma' = IF busy THEN dma ELSE b

SendFirst ==
  /\ netPc = "send"
  /\ ref_buff' = tx_buf[1]
  /\ uart_tx(dma # NoBuf, tx_buf[1])
  /\ netPc' = "sleep"
  /\ UNCHANGED <<k, holds, tx_buf, tx_queue, tx_sem, netWire>>

NetSleepOver ==
  /\ netPc = "sleep"
  /\ netPc' = "take"
  /\ UNCHANGED <<k, holds, tx_buf, tx_queue, ref_buff, tx_sem, dma, netWire>>

\* Variants: the semaphore is given with every event; the next buffer is fetched before
\* ref_buff is freed.
GiveTxSem_eachEvent == tx_sem' = 1
GiveTxSem           == tx_sem' = IF tx_queue = <<>> THEN 1 ELSE tx_sem
Unref_afterGet ==
  holds' = IF tx_queue = <<>> THEN holds ELSE [holds EXCEPT ![Head(tx_queue)] = 0]
Unref == holds' = [holds EXCEPT ![ref_buff] = 0]

uart_cb_net ==
  /\ dma # NoBuf
  /\ netWire' = holds[dma]
  /\ Unref
  /\ IF tx_queue = <<>>
     THEN ref_buff' = NoBuf /\ dma' = NoBuf /\ UNCHANGED tx_queue
     ELSE ref_buff' = Head(tx_queue) /\ uart_tx(FALSE, ref_buff') /\ tx_queue' = Tail(tx_queue)
  /\ GiveTxSem
  /\ UNCHANGED <<netPc, k, tx_buf>>

NetMain == TakeTxSem \/ AllocAndFill \/ PutFifo \/ SendFirst \/ NetSleepOver
NetNext == NetMain \/ uart_cb_net

\* main sleeps one second and every transfer ends.
NetFairness == WF_netVars(NetMain) /\ WF_netVars(uart_cb_net)
NetSpec == NetInit /\ [][NetNext]_netVars /\ NetFairness
-----------------------------------------------------------------------------
\* Type correctness.
NetTypeOK ==
  /\ netPc \in {"take", "alloc", "put", "send", "sleep"} /\ k \in Messages
  /\ holds \in [Pool -> Messages \cup {0}] /\ tx_buf \in [Messages -> Pool \cup {NoBuf}]
  /\ tx_queue \in Seq(Pool) /\ ref_buff \in Pool \cup {NoBuf} /\ tx_sem \in 0..1
  /\ dma \in Pool \cup {NoBuf} /\ netWire \in Messages \cup {0}

\* The unchecked allocations never fail: when main gets the semaphore all buffers are back.
AllocSucceeds == netPc = "alloc" => Free # {}

\* What is sent is First, Second, Third, First, ...: no transfer is refused because another
\* one runs, and no buffer is freed or refilled while the DMA still reads it.
AfterMessage(m) == IF m = 3 THEN 1 ELSE m + 1
MessagesInOrder == [][uart_cb_net => netWire' = AfterMessage(netWire)]_netVars

\* A main that waits for its semaphore waits for a chain of transfers that goes on.
NetWoken == netPc = "take" => tx_sem = 1 \/ dma # NoBuf

\* The messages are sent again and again: the callback chain always gives the semaphore.
NetKeepsSending == []<>(netPc = "send")
=============================================================================
