------------------------------ MODULE UartIrqRx ------------------------------
(***************************************************************************)
(* hal_drivers/UART/_05_reception_with_int and _06_tx_rx_with_interrupts   *)
(* (the same code): the receive interrupt assembles a line in rx_buf and   *)
(* raises rx_flag at a carriage return; main polls the flag and prints the *)
(* buffer.  A FIFO read takes up to rx_len bytes wherever in rx_buf it      *)
(* starts, so that it may write behind rx_buf, onto rx_count, rx_len and   *)
(* rx_flag: "overrun" records it, and nothing after it is modelled.        *)
(***************************************************************************)
EXTENDS Naturals, Sequences, SequencesExt

CONSTANTS Text,     \* the bytes other than "cr"
          RxLen,    \* rx_len: sizeof(rx_buf)
          RxFifo    \* depth of the UART's receive FIFO

ASSUME IrqRxAssumption ==
  RxLen \in Nat \ {0} /\ RxFifo \in Nat \ {0} /\ Text \cap {"cr", "nul"} = {}

VARIABLES
  rxPc, rx_buf, rx_count, rx_flag,
  arrived,    \* bytes in the receive FIFO
  got,        \* what the interrupt read and goes through: rx_bytes is its length
  rx_i,       \* of the interrupt's loop
  overrun,    \* observer: the interrupt has written behind rx_buf
  line,       \* observer: bytes received since the last end of a line or of the buffer
  unseen      \* observer: a line was completed since the last print

rxVars == <<rxPc, rx_buf, rx_count, rx_flag, arrived, got, rx_i, overrun, line, unseen>>

Received == Text \cup {"cr"}
Slots    == 0..(RxLen - 1)

\* rx_buf is on the stack and not initialised.
RxInit ==
  /\ rxPc = "poll" /\ rx_count = 0 /\ rx_flag = FALSE /\ arrived = <<>>
  /\ got = <<>> /\ rx_i = 0 /\ overrun = FALSE
  /\ rx_buf \in [Slots -> Received]
  /\ line = <<>> /\ unseen = FALSE

\* Variant: the flag is cleared after the message was printed.
AfterStep_printFirst(pc) == CASE pc = "poll" -> "print" [] pc = "print" -> "clear" [] pc = "clear" -> "poll"
AfterStep(pc)            == CASE pc = "poll" -> "clear" [] pc = "clear" -> "print" [] pc = "print" -> "poll"

\* Main is interrupted while the handler runs.
InHandler == rx_i < Len(got)

PollFlag ==
  /\ rxPc = "poll" /\ rx_flag
  /\ rxPc' = AfterStep("poll")
  /\ UNCHANGED <<rx_flag, unseen>>

ClearFlag ==
  /\ rxPc = "clear"
  /\ rx_flag' = FALSE
  /\ rxPc' = AfterStep("clear")
  /\ UNCHANGED unseen

PrintMessage ==
  /\ rxPc = "print"
  /\ unseen' = FALSE
  /\ rxPc' = AfterStep("print")
  /\ UNCHANGED rx_flag

RxMain ==
  /\ ~InHandler /\ ~overrun
  /\ PollFlag \/ ClearFlag \/ PrintMessage
  /\ UNCHANGED <<rx_buf, rx_count, arrived, got, rx_i, overrun, line>>

ByteArrives ==
  /\ Len(arrived) < RxFifo
  /\ \E b \in Received : arrived' = Append(arrived, b)
  /\ UNCHANGED <<rxPc, rx_buf, rx_count, rx_flag, got, rx_i, overrun, line, unseen>>

\* uart_fifo_read of up to rx_len bytes, to the places from rx_buf[rx_count] on.
ReadCount == IF Len(arrived) < RxLen THEN Len(arrived) ELSE RxLen
ReadInto  == [j \in Slots |-> IF j \in rx_count..(rx_count + ReadCount - 1)
                               THEN arrived[j - rx_count + 1] ELSE rx_buf[j]]

uart_cb_read ==
  /\ ~InHandler /\ ~overrun /\ arrived # <<>>
  /\ rx_buf' = ReadInto
  /\ overrun' = (rx_count + ReadCount > RxLen)
  /\ got' = SubSeq(arrived, 1, ReadCount) /\ rx_i' = 0
  /\ arrived' = SubSeq(arrived, ReadCount + 1, Len(arrived))
  /\ UNCHANGED <<rxPc, rx_count, rx_flag, line, unseen>>

\* Variants: rx_count is not reset at the end of a line; it is not kept inside rx_buf.
CountAfterCr_kept(c)   == c
CountAfterCr(c)        == 0
NextCount_unchecked(c) == c + 1
NextCount(c)           == IF c + 1 >= RxLen THEN 0 ELSE c + 1

\* The body of the loop: it looks at rx_buf[rx_count + rx_i] and moves rx_count as well.  What
\* stands behind rx_buf may be a '\r' or not.
SeesCr(j) == IF j \in Slots THEN {rx_buf[j] = "cr"} ELSE BOOLEAN
LookAt ==
  \E cr \in SeesCr(rx_count + rx_i) :
    IF cr
    THEN /\ rx_flag' = TRUE
         /\ rx_buf' = [rx_buf EXCEPT ![rx_count + rx_i] = "nul"]
         /\ overrun' = (rx_count + rx_i >= RxLen)
         /\ rx_count' = CountAfterCr(rx_count)
    ELSE rx_count' = NextCount(rx_count) /\ UNCHANGED <<rx_flag, rx_buf, overrun>>

\* The observer's view of one byte.
Extend(l, b) == IF b = "cr" \/ Len(l) + 1 >= RxLen THEN <<>> ELSE Append(l, b)

uart_cb_byte ==
  /\ InHandler /\ ~overrun
  /\ LookAt
  /\ rx_i' = rx_i + 1
  /\ line' = Extend(line, got[rx_i + 1])
  /\ unseen' = (unseen \/ got[rx_i + 1] = "cr")
  /\ UNCHANGED <<rxPc, arrived, got>>

RxNext == RxMain \/ ByteArrives \/ uart_cb_read \/ uart_cb_byte

\* main's sleep of 50 ms ends, and main gets on between two interrupts; these are served.
RxFairness == SF_rxVars(RxMain) /\ WF_rxVars(uart_cb_read \/ uart_cb_byte)
RxSpec == RxInit /\ [][RxNext]_rxVars /\ RxFairness
-----------------------------------------------------------------------------
\* Type correctness.
RxTypeOK ==
  /\ rxPc \in {"poll", "clear", "print"}
  /\ rx_buf \in [Slots -> Received \cup {"nul"}] /\ rx_count \in Slots
  /\ rx_flag \in BOOLEAN /\ arrived \in Seq(Received) /\ line \in Seq(Text)
  /\ got \in Seq(Received) /\ rx_i \in 0..Len(got)
  /\ overrun \in BOOLEAN /\ unseen \in BOOLEAN

\* With a FIFO of one byte the line that a '\r' ends stands in rx_buf from its first byte
\* to the terminator, and main is told.
LineCompleted ==
  [][(uart_cb_byte /\ got = <<"cr">>) =>
        /\ rx_flag'
        /\ rx_buf'[Len(line)] = "nul"
        /\ \A j \in 1..Len(line) : rx_buf'[j - 1] = line[j]]_rxVars

\* With a FIFO of one byte, a line that main has not printed is flagged, or main has seen the
\* flag and is about to print: clearing the flag never takes a line that came meanwhile with it.
LineFlagged == unseen => rx_flag \/ rxPc \in {"clear", "print"}

\* A line completed while main looks at the flag, clears it or prints is printed later.
LineNoticed == unseen ~> ~unseen

\* main.c:77, "process the received bytes one by one and check if the '\r' character was
\* received": when all bytes that were read are processed, a '\r' among them raised the flag.
CrNoticed ==
  [][(uart_cb_byte /\ rx_i' = Len(got) /\ Contains(got, "cr")) => rx_flag']_rxVars
=============================================================================
