----------------------------- MODULE WorkItems -----------------------------
(***************************************************************************)
(* kernel/WQUEUES: main submits one work item again and again and sleeps   *)
(* in between; the handler runs in the thread of a work queue and reads    *)
(* what main has left beside the item.  _02 and _04 pass a number that     *)
(* way; here every submission has one.  _03 and _04 submit with a delay,   *)
(* _05 to a queue of its own, _06 from an interrupt.  One of them runs.    *)
(***************************************************************************)
EXTENDS Naturals

CONSTANT MaxSubmits       \* bound: submissions

ASSUME MaxSubmitsAssumption == MaxSubmits \in Nat

VARIABLES
  wqProgram,
  wqMainPc,
  submitted,       \* the number main has written beside the item
  work_to_queue,   \* the flags of the item: "delayed", "queued", "running"
  printed          \* the number the handler has read last

wqVars == <<wqProgram, wqMainPc, submitted, work_to_queue, printed>>

WqPrograms == {"_01", "_02", "_03", "_04", "_05", "_06"}

WqInit ==
  /\ wqProgram \in WqPrograms
  /\ wqMainPc = "run" /\ submitted = 0 /\ work_to_queue = {} /\ printed = 0

\* k_work_submit: an item that waits already is not queued a second time.
k_work_submit   == work_to_queue' = work_to_queue \cup {"queued"}
\* k_work_schedule: nor is one that waits or is delayed scheduled again.
k_work_schedule ==
  work_to_queue' = IF work_to_queue \subseteq {"running"} THEN work_to_queue \cup {"delayed"}
                                                         ELSE work_to_queue

\* The system work queue has a higher priority than main: an item that is due is run before
\* main goes on.  The work queue of _05 has a lower one, it gets the processor when main sleeps.
ItemDue   == work_to_queue \cap {"queued", "running"} # {}
MainGoes  == wqProgram = "_05" \/ ~ItemDue

\* A sleep of 2000 ms does not end before a delay of 500 ms.  Variant: the delay is longer.
SleepOver_short == TRUE
SleepOver       == "delayed" \notin work_to_queue

SubmitAndSleep(submit) ==
  /\ MainGoes /\ wqMainPc = "run" /\ submitted < MaxSubmits
  /\ submitted' = submitted + 1
  /\ submit
  /\ wqMainPc' = "sleep"
  /\ UNCHANGED <<wqProgram, printed>>

WakeMain ==
  /\ MainGoes /\ wqMainPc = "sleep" /\ SleepOver
  /\ wqMainPc' = "run"
  /\ UNCHANGED <<wqProgram, submitted, work_to_queue, printed>>

main_wq01 == wqProgram = "_01" /\ (SubmitAndSleep(k_work_submit) \/ WakeMain)
main_wq02 == wqProgram = "_02" /\ (SubmitAndSleep(k_work_submit) \/ WakeMain)
main_wq03 == wqProgram = "_03" /\ (SubmitAndSleep(k_work_schedule) \/ WakeMain)
main_wq04 == wqProgram = "_04" /\ (SubmitAndSleep(k_work_schedule) \/ WakeMain)
main_wq05 == wqProgram = "_05" /\ (SubmitAndSleep(k_work_submit) \/ WakeMain)

\* main sets the interrupt pending, which is taken at once, and sleeps after it.
main_wq06 ==
  /\ wqProgram = "_06"
  /\ \/ /\ MainGoes /\ wqMainPc = "run" /\ submitted < MaxSubmits
        /\ submitted' = submitted + 1
        /\ wqMainPc' = "interrupt"
        /\ UNCHANGED <<wqProgram, work_to_queue, printed>>
     \/ WakeMain

my_own_isr_wq06 ==
  /\ wqProgram = "_06" /\ wqMainPc = "interrupt"
  /\ k_work_submit
  /\ wqMainPc' = "sleep"
  /\ UNCHANGED <<wqProgram, submitted, printed>>
-----------------------------------------------------------------------------
DelayOver ==
  /\ "delayed" \in work_to_queue
  /\ work_to_queue' = (work_to_queue \ {"delayed"}) \cup {"queued"}
  /\ UNCHANGED <<wqProgram, wqMainPc, submitted, printed>>

\* The work queue takes the item, which can be submitted again from then on, and calls the
\* handler.
TakeItem ==
  /\ "queued" \in work_to_queue /\ "running" \notin work_to_queue
  /\ wqProgram = "_05" => wqMainPc = "sleep"
  /\ work_to_queue' = (work_to_queue \ {"queued"}) \cup {"running"}
  /\ UNCHANGED <<wqProgram, wqMainPc, submitted, printed>>

\* printk.
WorkHandler ==
  /\ "running" \in work_to_queue
  /\ wqProgram = "_05" => wqMainPc = "sleep"
  /\ printed' = submitted
  /\ work_to_queue' = work_to_queue \ {"running"}
  /\ UNCHANGED <<wqProgram, wqMainPc, submitted>>

work_handler_wq01 == wqProgram = "_01" /\ WorkHandler
work_handler_wq02 == wqProgram = "_02" /\ WorkHandler
work_handler_wq03 == wqProgram = "_03" /\ WorkHandler
work_handler_wq04 == wqProgram = "_04" /\ WorkHandler
work_handler_wq05 == wqProgram = "_05" /\ WorkHandler
work_handler_wq06 == wqProgram = "_06" /\ WorkHandler

WqMain == main_wq01 \/ main_wq02 \/ main_wq03 \/ main_wq04 \/ main_wq05 \/ main_wq06
WqHandlers == work_handler_wq01 \/ work_handler_wq02 \/ work_handler_wq03
                \/ work_handler_wq04 \/ work_handler_wq05 \/ work_handler_wq06
WqNext == WqMain \/ my_own_isr_wq06 \/ DelayOver \/ TakeItem \/ WqHandlers
WqSpec == WqInit /\ [][WqNext]_wqVars
-----------------------------------------------------------------------------
\* Type correctness.
WqTypeOK ==
  /\ wqProgram \in WqPrograms /\ wqMainPc \in {"run", "interrupt", "sleep"}
  /\ submitted \in 0..MaxSubmits /\ printed \in 0..MaxSubmits
  /\ work_to_queue \subseteq {"delayed", "queued", "running"}

\* Although there is one item and one place for the number, every submission is handled once,
\* in order, and with the number it was made with.  Only the thread of _05 can fall behind.
Items == INSTANCE Delivery WITH
           Sources <- {"main"}, sent <- [s \in {"main"} |-> submitted], taken <- [s \in {"main"} |-> printed],
           lossy <- IF wqProgram = "_05" THEN {"main"} ELSE {}
ItemsSeen == Items!Spec
=============================================================================
