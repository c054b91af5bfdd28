------------------------------- MODULE Timers -------------------------------
(***************************************************************************)
(* kernel/TIMERS: main starts one or two timers and returns; their         *)
(* callbacks run in the clock interrupt and print how often they expired.  *)
(* The timer of _03 has no callback: main polls it and starts it again.    *)
(* _02 starts its timer again from the callback until it has expired five  *)
(* times, and in _06 the second timer stops the first.  One of them runs.  *)
(***************************************************************************)
EXTENDS Naturals

VARIABLES
  tiProgram,
  tiPc,         \* main: "first" and "second" before it starts a timer, then "done";
                \* in _03 "poll" and "restart"
  running,      \* the timers that run
  expiries,     \* how often each timer expired, modulo Wrap
  count,        \* how often the program has printed that it did, modulo Wrap
  stopped       \* the calls of stop_callback

tiVars == <<tiProgram, tiPc, running, expiries, count, stopped>>

TiPrograms == {"_01", "_02", "_03", "_04", "_05", "_06", "_07"}
TwoTimers  == {"_04", "_06"}
Wrap       == 6        \* bound: _02 counts to 5

TiInit ==
  /\ tiProgram \in TiPrograms
  /\ tiPc = "first" /\ running = {} /\ stopped = 0
  /\ expiries = [t \in 1..2 |-> 0] /\ count = [t \in 1..2 |-> 0]

Counted(f, t) == [f EXCEPT ![t] = (@ + 1) % Wrap]

k_timer_start(t) == running' = running \cup {t}

StartTimer(from, t, to) ==
  /\ tiPc = from
  /\ k_timer_start(t)
  /\ tiPc' = to
  /\ UNCHANGED <<tiProgram, expiries, count, stopped>>

main_ti01 == tiProgram = "_01" /\ StartTimer("first", 1, "done")
main_ti02 == tiProgram = "_02" /\ StartTimer("first", 1, "done")
main_ti04 == tiProgram = "_04" /\ (StartTimer("first", 1, "second") \/ StartTimer("second", 2, "done"))
main_ti05 == tiProgram = "_05" /\ StartTimer("first", 1, "done")
main_ti06 == tiProgram = "_06" /\ (StartTimer("first", 1, "second") \/ StartTimer("second", 2, "done"))
main_ti07 == tiProgram = "_07" /\ StartTimer("first", 1, "done")

\* k_timer_remaining_get returns 0 for a timer that does not run.
PollTimer ==
  /\ tiPc = "poll" /\ 1 \notin running
  /\ count' = Counted(count, 1)
  /\ tiPc' = "restart"
  /\ UNCHANGED <<tiProgram, running, expiries, stopped>>

\* Variant: the timer is not started again.
RestartTimer_not == tiPc = "restart" /\ tiPc' = "poll" /\ UNCHANGED <<tiProgram, running, expiries, count, stopped>>
RestartTimer     == StartTimer("restart", 1, "poll")

main_ti03 == tiProgram = "_03" /\ (StartTimer("first", 1, "poll") \/ PollTimer \/ RestartTimer)
-----------------------------------------------------------------------------
(* The clock interrupt *)

\* A periodic timer runs on; the others run again only if they are started again.
Periodic   == running
OneShot(t) == running \ {t}

Expires(t, left) ==
  /\ t \in running
  /\ expiries' = Counted(expiries, t)
  /\ running' = left
  /\ UNCHANGED <<tiProgram, tiPc>>

Prints(t) == count' = Counted(count, t) /\ UNCHANGED stopped

expiry_callback_ti01 == tiProgram = "_01" /\ Expires(1, Periodic) /\ Prints(1)
expiry_callback_ti02 == tiProgram = "_02" /\ Expires(1, IF count[1] + 1 >= 5 THEN OneShot(1) ELSE Periodic) /\ Prints(1)
Expires_ti03         == tiProgram = "_03" /\ Expires(1, OneShot(1)) /\ UNCHANGED <<count, stopped>>
expiry_callback_ti04(t) == tiProgram = "_04" /\ Expires(t, Periodic) /\ Prints(t)
expiry_callback_ti05 == tiProgram = "_05" /\ Expires(1, OneShot(1)) /\ Prints(1)
timer1_callback      == tiProgram = "_06" /\ Expires(1, Periodic) /\ Prints(1)
expiry_callback_ti07 == tiProgram = "_07" /\ Expires(1, Periodic) /\ Prints(1)

\* The expiry of timer 2: k_timer_stop calls stop_callback if timer 1 runs.
StopsOther(t) ==
  /\ Expires(2, OneShot(2) \ {t})
  /\ stopped' = IF t \in running THEN stopped + 1 ELSE stopped

timer2_callback == tiProgram = "_06" /\ StopsOther(1) /\ count' = Counted(count, 2)

TiMain   == main_ti01 \/ main_ti02 \/ main_ti03 \/ main_ti04 \/ main_ti05 \/ main_ti06 \/ main_ti07
TiTimer1 == \/ expiry_callback_ti01 \/ expiry_callback_ti02 \/ Expires_ti03
            \/ expiry_callback_ti04(1) \/ expiry_callback_ti05 \/ timer1_callback \/ expiry_callback_ti07
TiTimer2 == expiry_callback_ti04(2) \/ timer2_callback
TiNext   == TiMain \/ TiTimer1 \/ TiTimer2

\* main runs, and every timer that runs expires.
TiFairness == WF_tiVars(TiMain) /\ WF_tiVars(TiTimer1) /\ WF_tiVars(TiTimer2)
TiSpec == TiInit /\ [][TiNext]_tiVars /\ TiFairness
-----------------------------------------------------------------------------
\* Type correctness.
TiTypeOK ==
  /\ tiProgram \in TiPrograms /\ tiPc \in {"first", "second", "done", "poll", "restart"}
  /\ running \subseteq 1..2 /\ stopped \in 0..1
  /\ expiries \in [1..2 -> 0..(Wrap - 1)] /\ count \in [1..2 -> 0..(Wrap - 1)]

\* Every expiry is printed once: the polling main of _03 never takes an expiry it has seen
\* for a new one.  The five times of _02 are neither four nor six, and a timer that was
\* stopped in _06 does not expire again.
ExpiriesCounted ==
  /\ expiries = IF tiProgram = "_03" /\ tiPc = "poll" /\ running = {} THEN Counted(count, 1) ELSE count
  /\ tiProgram = "_02" /\ tiPc = "done" => (running = {} <=> count[1] = 5)
  /\ tiProgram = "_06" /\ tiPc = "done" => (running = {} <=> stopped = 1)

\* The programs with a periodic or polled timer go on for ever; the others come to an end.
TimersGoOn ==
  IF tiProgram \in {"_02", "_05", "_06"} THEN <>[](tiPc = "done" /\ running = {})
  ELSE \A t \in 1..2 : t = 1 \/ tiProgram = "_04" => []<>(count[t] = 0) /\ []<>(count[t] = 1)
=============================================================================
