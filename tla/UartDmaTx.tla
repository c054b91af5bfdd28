----------------------------- MODULE UartDmaTx -----------------------------
(***************************************************************************)
(* hal_drivers/UART/_07_tx_messages_with_dma: main sends one buffer by DMA *)
(* again and again; a semaphore tells it that the transfer before is done. *)
(* The transfers have no timeout and nobody aborts them, so UART_TX_DONE   *)
(* is the only event.                                                      *)
(***************************************************************************)
EXTENDS Naturals

VARIABLES
  dtxPc,
  dtx_sem,       \* tx_sem, with a limit of 1
  transfer       \* a transfer is running

dtxVars == <<dtxPc, dtx_sem, transfer>>

DtxInit == dtxPc = "take" /\ dtx_sem = 1 /\ transfer = FALSE

\* k_sem_take; uart_tx, which is refused while a transfer is running; k_msleep.
main_07 ==
  \/ /\ dtxPc = "take" /\ dtx_sem = 1
     /\ dtxPc' = "send" /\ dtx_sem' = 0 /\ UNCHANGED transfer
  \/ /\ dtxPc = "send"
     /\ dtxPc' = "sleep" /\ transfer' = TRUE /\ UNCHANGED dtx_sem
  \/ /\ dtxPc = "sleep"
     /\ dtxPc' = "take" /\ UNCHANGED <<dtx_sem, transfer>>

uart_cb_07 ==
  /\ transfer
  /\ transfer' = FALSE /\ dtx_sem' = 1
  /\ UNCHANGED dtxPc

DtxNext == main_07 \/ uart_cb_07

\* main sleeps one second and every transfer ends.
DtxFairness == WF_dtxVars(main_07) /\ WF_dtxVars(uart_cb_07)
DtxSpec == DtxInit /\ [][DtxNext]_dtxVars /\ DtxFairness
-----------------------------------------------------------------------------
\* Type correctness.
DtxTypeOK ==
  dtxPc \in {"take", "send", "sleep"} /\ dtx_sem \in 0..1 /\ transfer \in BOOLEAN

\* main starts a transfer only when none is running: a refused uart_tx would have no event, and
\* without it the semaphore is never given again.
NeverRefused == dtxPc = "send" => ~transfer

\* A main that waits for its semaphore waits for the end of a transfer that runs.
DtxWoken == dtxPc = "take" => dtx_sem = 1 \/ transfer

\* main sends again and again, and is never refused.
DtxKeepsSending == []<>(dtxPc = "send") /\ []NeverRefused
=============================================================================
