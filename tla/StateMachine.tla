---------------------------- MODULE StateMachine ----------------------------
(***************************************************************************)
(* middleware/SMF: a machine with a few states.  _01 to _04 run it every   *)
(* second; _03 passes it an event, _04 has a parent of two of its states.  *)
(* _05 runs it when a timer has set an event, _06 when a timer has put a   *)
(* number, 0 and 1 in turn, into a queue.  One of them runs.               *)
(***************************************************************************)
EXTENDS Naturals, Sequences

CONSTANT MachineDepth       \* _06: my_msgq has room for 5

ASSUME MachineDepthAssumption == MachineDepth \in Nat \ {0}

VARIABLES
  smProgram,
  smPc,            \* main: "call" before it waits, "wait", "run"
  current,         \* the state of the machine
  entered,         \* the states that were entered and not left again
  sm_event,        \* event of _03, the dummy event of _05, dummy_msg of _06
  sm_msgq,         \* my_msgq of _06
  sm_data,         \* _06: what the machine is run with
  due              \* how often the machine was to change its state, modulo 6

smVars == <<smProgram, smPc, current, entered, sm_event, sm_msgq, sm_data, due>>

SmPrograms == {"_01", "_02", "_03", "_04", "_05", "_06"}
States     == {"parent", "state1", "state2", "state3"}

\* state_table: the state and the states that contain it.
Chain(s) == {s} \cup (IF smProgram = "_04" /\ s # "state3" THEN {"parent"} ELSE {})

SmInit ==
  /\ smProgram \in SmPrograms
  /\ smPc = "call" /\ current = "state1" /\ entered = Chain("state1")
  /\ sm_event = 0 /\ sm_msgq = <<>> /\ sm_data = 0 /\ due = 0

\* Exit actions up to the first state that contains both, then entry actions.
smf_set_state(s) ==
  LET common == Chain(current) \cap Chain(s) IN
  /\ entered' = (entered \ (Chain(current) \ common)) \cup (Chain(s) \ common)
  /\ current' = s

Move(from, to) == current = from /\ smf_set_state(to)
-----------------------------------------------------------------------------
(* The run functions of each sample *)
runs_01 == (Move("state1", "state2") \/ Move("state2", "state1")) /\ UNCHANGED sm_event
runs_02 == (Move("state1", "state2") \/ Move("state2", "state1")) /\ UNCHANGED sm_event
runs_05 == (Move("state1", "state2") \/ Move("state2", "state1")) /\ UNCHANGED sm_event

\* The event tells each state that it is its turn.
runs_03 ==
  IF sm_event = (IF current = "state1" THEN 0 ELSE 1)
  THEN (Move("state1", "state2") \/ Move("state2", "state1")) /\ sm_event' = 1 - sm_event
  ELSE UNCHANGED <<current, entered, sm_event>>

runs_04 ==
  /\ Move("state1", "state2") \/ Move("state2", "state3") \/ Move("state3", "state1")
  /\ UNCHANGED sm_event

\* Whether _06 changes its state.  Variant: whatever was received.
MovesOn_any(data) == TRUE
MovesOn(data)     == data = 1

runs_06 ==
  /\ IF MovesOn(sm_data) THEN Move("state1", "state2") \/ Move("state2", "state1")
                         ELSE UNCHANGED <<current, entered>>
  /\ UNCHANGED sm_event

smf_run_state(runs) ==
  /\ smPc = "run" /\ runs
  /\ smPc' = "call"
  /\ UNCHANGED <<smProgram, sm_msgq, sm_data, due>>
-----------------------------------------------------------------------------
(* main and the timers *)
DueAgain == due' = (due + 1) % 6

\* _01 to _04: a second of sleep.
SleepBetween ==
  /\ smPc = "call" /\ smPc' = "run" /\ DueAgain
  /\ UNCHANGED <<smProgram, current, entered, sm_event, sm_msgq, sm_data>>

main_sm01 == smProgram = "_01" /\ (SleepBetween \/ smf_run_state(runs_01))
main_sm02 == smProgram = "_02" /\ (SleepBetween \/ smf_run_state(runs_02))
main_sm03 == smProgram = "_03" /\ (SleepBetween \/ smf_run_state(runs_03))
main_sm04 == smProgram = "_04" /\ (SleepBetween \/ smf_run_state(runs_04))

\* k_event_wait clears what was set before it waits.
WaitEvent ==
  \/ /\ smPc = "call"
     /\ smPc' = "wait" /\ sm_event' = 0
     /\ UNCHANGED <<smProgram, current, entered, sm_msgq, sm_data, due>>
  \/ /\ smPc = "wait" /\ sm_event = 1
     /\ smPc' = "run" /\ DueAgain
     /\ UNCHANGED <<smProgram, current, entered, sm_event, sm_msgq, sm_data>>
main_sm05 == smProgram = "_05" /\ (WaitEvent \/ smf_run_state(runs_05))

WaitMessage ==
  /\ smPc = "call" /\ sm_msgq # <<>>
  /\ sm_data' = Head(sm_msgq) /\ sm_msgq' = Tail(sm_msgq)
  /\ smPc' = "run"
  /\ IF sm_data' = 1 THEN DueAgain ELSE UNCHANGED due
  /\ UNCHANGED <<smProgram, current, entered, sm_event>>
main_sm06 == smProgram = "_06" /\ (WaitMessage \/ smf_run_state(runs_06))

expiry_callback_05 ==
  /\ smProgram = "_05"
  /\ sm_event' = 1
  /\ UNCHANGED <<smProgram, smPc, current, entered, sm_msgq, sm_data, due>>

\* A full queue refuses the number, and the next one follows all the same.
expiry_callback_06 ==
  /\ smProgram = "_06"
  /\ sm_msgq' = IF Len(sm_msgq) < MachineDepth THEN Append(sm_msgq, sm_event) ELSE sm_msgq
  /\ sm_event' = 1 - sm_event
  /\ UNCHANGED <<smProgram, smPc, current, entered, sm_data, due>>

SmMain == main_sm01 \/ main_sm02 \/ main_sm03 \/ main_sm04 \/ main_sm05 \/ main_sm06
SmTimer == expiry_callback_05 \/ expiry_callback_06
SmNext == SmMain \/ SmTimer

\* main runs when it has something to do, and the timer is periodic.
SmFairness == WF_smVars(SmMain) /\ WF_smVars(SmTimer)
SmSpec == SmInit /\ [][SmNext]_smVars /\ SmFairness
-----------------------------------------------------------------------------
\* Type correctness.
SmTypeOK ==
  /\ smProgram \in SmPrograms /\ smPc \in {"call", "wait", "run"}
  /\ current \in States \ {"parent"} /\ entered \subseteq States
  /\ sm_event \in 0..1 /\ sm_msgq \in Seq(0..1) /\ Len(sm_msgq) <= MachineDepth
  /\ sm_data \in 0..1 /\ due \in 0..5

\* Between two runs the machine is in the state that all the sleeps, events and messages it
\* was given so far lead to: none is acted on twice and none is forgotten once it was received,
\* whenever the timer fires.  The states it has entered and not left are that state and its
\* parents.
StateFollows ==
  smPc # "run" =>
    /\ current = IF smProgram = "_04" THEN <<"state1", "state2", "state3">>[(due % 3) + 1]
                                      ELSE <<"state1", "state2">>[(due % 2) + 1]
    /\ entered = {current} \cup (IF smProgram = "_04" /\ current # "state3" THEN {"parent"} ELSE {})

\* The machine is always run again.
MachineRuns == []<>(smPc = "run")
=============================================================================
