----------------------------- MODULE MCKernel -----------------------------
(* Finite instances of the samples of the kernel's objects, of the state machine framework   *)
(* and of the fading LED.  They are separate programs: one is chosen at the start, and only  *)
(* that one runs.                                                                            *)
EXTENDS MsgQueues, Events, NodeQueues, Zbus, WorkItems, StateMachine, Timers,
        LedFade

VARIABLE sample

Init ==
  /\ sample \in {"msgq", "events", "queues", "zbus", "work", "smf", "timers", "led"}
  /\ MqInit /\ (sample # "msgq" => mqProgram = "_01" /\ active = {CHOOSE s \in Sources : TRUE})
  /\ EvInit /\ (sample # "events" => evProgram = "_01")
  /\ NqInit /\ (sample # "queues" => nqProgram = "_01")
  /\ ZbInit /\ (sample # "zbus" => zbProgram = "_02")
  /\ WqInit /\ (sample # "work" => wqProgram = "_01")
  /\ SmInit /\ (sample # "smf" => smProgram = "_01")
  /\ TiInit /\ (sample # "timers" => tiProgram = "_01")
  /\ LedInit

Others == /\ UNCHANGED sample
          /\ sample # "msgq"   => UNCHANGED mqVars
          /\ sample # "events" => UNCHANGED evVars
          /\ sample # "queues" => UNCHANGED nqVars
          /\ sample # "zbus"   => UNCHANGED zbVars
          /\ sample # "work"   => UNCHANGED wqVars
          /\ sample # "smf"    => UNCHANGED smVars
          /\ sample # "timers" => UNCHANGED tiVars
          /\ sample # "led"    => UNCHANGED ledVars

Next ==
  \/ sample = "msgq" /\ MqNext /\ Others
  \/ sample = "events" /\ EvNext /\ Others
  \/ sample = "queues" /\ NqNext /\ Others
  \/ sample = "zbus" /\ ZbNext /\ Others
  \/ sample = "work" /\ WqNext /\ Others
  \/ sample = "smf" /\ SmNext /\ Others
  \/ sample = "timers" /\ TiNext /\ Others
  \/ sample = "led" /\ main_led /\ Others

Fairness ==
  \/ sample = "events" /\ EvFairness
  \/ sample = "queues" /\ NqFairness
  \/ sample = "zbus" /\ ZbFairness
  \/ sample = "smf" /\ SmFairness
  \/ sample = "timers" /\ TiFairness
  \/ sample \in {"msgq", "work", "led"}

vars == <<sample, mqVars, evVars, nqVars, zbVars, wqVars, smVars, tiVars, ledVars>>
Spec == Init /\ [][Next]_vars /\ Fairness
-----------------------------------------------------------------------------
\* Type correctness of the program that runs.
TypesOK == MqTypeOK /\ EvTypeOK /\ NqTypeOK /\ ZbTypeOK /\ WqTypeOK /\ SmTypeOK /\ TiTypeOK /\ LedTypeOK

\* Whoever waits for events, nodes, messages or a timer is always served again.
\* A program of timers goes on, or ends, as it should.
KeepsReceiving ==
  /\ sample = "events" => EventsReceived
  /\ sample = "queues" => NodesReceived
  /\ sample = "zbus"   => MessagesReceived
  /\ sample = "smf"    => MachineRuns
  /\ sample = "timers" => TimersGoOn
=============================================================================
