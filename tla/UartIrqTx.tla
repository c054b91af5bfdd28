------------------------------ MODULE UartIrqTx ------------------------------
(***************************************************************************)
(* hal_drivers/UART/_03_tx_one_message_interrupts (Sync = FALSE) and       *)
(* _04_sync_tx_with_semap (Sync = TRUE): main arms a message once a second *)
(* and the transmit interrupt feeds it to the hardware FIFO.  The message  *)
(* is the sequence of its byte positions.                                  *)
(***************************************************************************)
EXTENDS Integers, Sequences

CONSTANTS Sync,     \* main waits for tx_done before it arms the message again
          TxLen,    \* tx_len: strlen(message)
          TxFifo    \* depth of the UART's transmit FIFO

ASSUME IrqTxAssumption == TxLen \in Nat \ {0, 1} /\ TxFifo \in Nat \ {0}

VARIABLES txPc, tx_count, tx_done, txIrq,
          fifo,       \* positions of the bytes in the hardware FIFO
          txWire        \* position of the last byte shifted out

txVars == <<txPc, tx_count, tx_done, txIrq, fifo, txWire>>

TxInit ==
  /\ txPc = "take" /\ tx_count = TxLen /\ txIrq = FALSE
  /\ tx_done = IF Sync THEN 1 ELSE 0
  /\ fifo = <<>> /\ txWire = TxLen - 1

\* Variant: the UART is not asked whether it is free.
TakeTxDone_noWait ==
  /\ txPc = "take"
  /\ txPc' = "load"
  /\ UNCHANGED <<tx_count, tx_done, txIrq, fifo, txWire>>

\* k_sem_take; _03 goes straight on.
TakeTxDone ==
  /\ txPc = "take"
  /\ Sync => tx_done = 1
  /\ tx_done' = 0
  /\ txPc' = "load"
  /\ UNCHANGED <<tx_count, txIrq, fifo, txWire>>

LoadCount ==
  /\ txPc = "load"
  /\ tx_count' = TxLen
  /\ txPc' = "enable"
  /\ UNCHANGED <<tx_done, txIrq, fifo, txWire>>

EnableTx ==
  /\ txPc = "enable"
  /\ txIrq' = TRUE
  /\ txPc' = "sleep"
  /\ UNCHANGED <<tx_count, tx_done, fifo, txWire>>

\* _03 relies on its second being longer than the message takes; _04 does not.
TxSleepOver ==
  /\ txPc = "sleep"
  /\ Sync \/ ~txIrq
  /\ txPc' = "take"
  /\ UNCHANGED <<tx_count, tx_done, txIrq, fifo, txWire>>

Positions(first, n) == [i \in 1..n |-> first + i - 1]

\* Variant: the semaphore is not given.
SignalDone_missing == UNCHANGED tx_done
SignalDone         == tx_done' = IF Sync THEN 1 ELSE 0

\* The transmit interrupt, raised while the FIFO has room; uart_fifo_fill takes a part.
uart_cb_tx ==
  /\ txIrq /\ Len(fifo) < TxFifo
  /\ \E n \in 0..TxFifo - Len(fifo) :
       /\ n <= tx_count /\ (n = 0 => tx_count = 0)
       /\ fifo' = fifo \o Positions(TxLen - tx_count, n)
       /\ tx_count' = tx_count - n
  /\ IF tx_count' = 0 THEN txIrq' = FALSE /\ SignalDone ELSE UNCHANGED <<txIrq, tx_done>>
  /\ UNCHANGED <<txPc, txWire>>

\* The hardware sends a byte.
ShiftOut ==
  /\ fifo # <<>>
  /\ txWire' = Head(fifo)
  /\ fifo' = Tail(fifo)
  /\ UNCHANGED <<txPc, tx_count, tx_done, txIrq>>

TxMain == TakeTxDone \/ LoadCount \/ EnableTx \/ TxSleepOver
TxNext == TxMain \/ uart_cb_tx \/ ShiftOut

\* main sleeps a bounded time, interrupts are served and the UART sends.
TxFairness == WF_txVars(TxMain) /\ WF_txVars(uart_cb_tx) /\ WF_txVars(ShiftOut)
TxSpec == TxInit /\ [][TxNext]_txVars /\ TxFairness
-----------------------------------------------------------------------------
\* Type correctness.
TxTypeOK ==
  /\ txPc \in {"take", "load", "enable", "sleep"}
  /\ tx_count \in 0..TxLen /\ tx_done \in 0..1 /\ txIrq \in BOOLEAN
  /\ fifo \in Seq(0..(TxLen - 1)) /\ txWire \in 0..(TxLen - 1)

\* The line carries whole messages: after each byte comes the next one of the message, and
\* a message starts only behind the end of the one before, wherever the interrupt finds main.
After(p) == IF p = TxLen - 1 THEN 0 ELSE p + 1
WholeMessages == [][ShiftOut => txWire' = After(txWire)]_txVars

\* A main that waits for tx_done waits for an interrupt that is still to come, or tx_done is
\* given already: no order of the interrupt and main loses it.
TxWoken == Sync /\ txPc = "take" => tx_done = 1 \/ txIrq

\* main comes round to arm the message again and again: tx_done is never lost.
TxKeepsSending == []<>(txPc = "load")
=============================================================================
