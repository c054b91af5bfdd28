------------------------------- MODULE MCUart -------------------------------
(* Finite instances of the UART samples.  They are separate programs: one of them is *)
(* chosen at the start, and only that one runs.  The two interrupt-driven            *)
(* transmitters differ in Sync only and share their variables.                       *)
EXTENDS UartIrqTx, UartDmaTx, UartNetBufTx, UartIrqRx, UartDmaRx

VARIABLE program

MCText == {"a", "b"}

\* UartIrqTx is _04, with the semaphore; this is _03, with the delay.
DelayTx == INSTANCE UartIrqTx WITH Sync <- FALSE

Init ==
  /\ program \in {"_03", "_04", "_05", "_07", "_08", "_09"}
  /\ IF program = "_03" THEN DelayTx!TxInit ELSE TxInit
  /\ DtxInit /\ NetInit /\ DmaInit
  /\ RxInit /\ (program # "_05" => \A i \in Slots : rx_buf[i] = "cr")

Next ==
  \/ program = "_03" /\ DelayTx!TxNext /\ UNCHANGED <<program, dtxVars, netVars, rxVars, dmaVars>>
  \/ program = "_04" /\ TxNext /\ UNCHANGED <<program, dtxVars, netVars, rxVars, dmaVars>>
  \/ program = "_05" /\ RxNext /\ UNCHANGED <<program, dtxVars, txVars, netVars, dmaVars>>
  \/ program = "_07" /\ DtxNext /\ UNCHANGED <<program, txVars, netVars, rxVars, dmaVars>>
  \/ program = "_08" /\ DmaNext /\ UNCHANGED <<program, dtxVars, txVars, netVars, rxVars>>
  \/ program = "_09" /\ NetNext /\ UNCHANGED <<program, dtxVars, txVars, rxVars, dmaVars>>

Fairness ==
  \/ program = "_03" /\ DelayTx!TxFairness
  \/ program = "_04" /\ TxFairness
  \/ program = "_05" /\ RxFairness
  \/ program = "_07" /\ DtxFairness
  \/ program = "_08"
  \/ program = "_09" /\ NetFairness

Spec == Init /\ [][Next]_<<program, txVars, dtxVars, netVars, rxVars, dmaVars>> /\ Fairness
-----------------------------------------------------------------------------
\* Type correctness of every component.
TypesOK == TxTypeOK /\ DtxTypeOK /\ NetTypeOK /\ RxTypeOK /\ DmaTypeOK

\* Who waits to send is woken: in each sender that has a semaphore, whoever gives it is at work
\* while main waits for it.
SendersWoken == (program = "_04" => TxWoken) /\ DtxWoken /\ NetWoken

\* The sender that runs comes round to its next message again and again.
KeepsSending ==
  /\ program \in {"_03", "_04"} => TxKeepsSending
  /\ program = "_07" => DtxKeepsSending
  /\ program = "_09" => NetKeepsSending
=============================================================================
