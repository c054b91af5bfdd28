----------------------------- MODULE MqttProofs -----------------------------
(***************************************************************************)
(* Proofs about MqttApp, for every board, every width of the message id    *)
(* and every choice of packet ids.  PublishArmed and SocketNotLeaked hold  *)
(* on every board; the flag, the LED and the session protocol are right on *)
(* the boards whose publish handler does not block in a sensor read.       *)
(***************************************************************************)
EXTENDS MqttApp, TLAPS

RunOnly     == {"subscribe", "loop", "live", "hup", "ack", "read", "disconnect"}
ConnectOnly == {"mqtt_connect", "abort_check", "abort", "connect_loop", "reschedule"}
Opening     == {"prepare", "check", "enter", "poll", "sleep", "input", "abort_check",
                "abort"}

\* Which loop main is in, by its control point.
CallerInv ==
  /\ caller = "run" => mainPc \notin ConnectOnly \cup BootPcs
  /\ caller = "connect" => mainPc \notin RunOnly

\* What a pending event says of the client.
EventInv ==
  /\ cb \in {"connack", "led_on"} => mainPc = "abort_check" /\ lib # "tcp"
  /\ cb = "disconnect" => lib = "idle"

\* How far the client can be at each control point of the connect loop.
ClientInv ==
  /\ lib = "tcp" => caller = "connect" /\ mainPc \in Opening /\ ~mqtt_connected
  /\ lib = "connected" /\ caller = "connect"
       => mainPc \in {"abort_check", "abort", "connect_loop", "reschedule"}
  /\ mainPc \in BootPcs \cup {"connect", "mqtt_connect"} => lib = "idle"
  /\ mainPc = "connect_loop" => lib = "idle" \/ mqtt_connected
  /\ mainPc = "mqtt_connect" => ~mqtt_connected

ControlInv == CallerInv /\ EventInv /\ ClientInv

\* A session the client has is known to the flag, or about to be.
SessionFlagged == lib = "connected" => mqtt_connected \/ cb = "connack"
SessionProbed ==
  caller = "run" /\ lib = "connected"
    => mqtt_connected /\ (work = "scheduled" \/ wqPc # "idle")

\* Without a blocking sensor read the handler is out of the way, and the flag down, from
\* the moment main holds the client's mutex for mqtt_connect until CONNACK is announced.
MutexInv ==
  /\ wqPc = "send" <=> mutex = "wq"
  /\ mutex = "main" => mainPc \in LibCalls
QuietInv ==
  /\ wqPc # "sample"
  /\ mainPc = "mqtt_connect" /\ mutex = "main" => wqPc = "idle"
  /\ lib = "tcp" \/ cb = "connack" => wqPc = "idle" /\ ~mqtt_connected
  /\ cb = "connack" => lib = "connected"

FlagInv == MutexInv /\ QuietInv /\ FlagTruthful

\* main leaves app_mqtt_connect with the LED out or the flag up: it has just read the flag,
\* and only the work queue thread, which puts both out, runs before the publish is armed.
LedInv ==
  /\ NetLedTracksFlag
  /\ cb = "led_off" => ~mqtt_connected
  /\ mainPc = "reschedule" => cb = "none" /\ (ledNet => mqtt_connected)

-----------------------------------------------------------------------------
(* Types.                                                                  *)

\* The Boolean variables keep their type.
LEMMA FlagStep == FlagTypes /\ MainTypes /\ [Next]_vars => FlagTypes'
<1> SUFFICES ASSUME FlagTypes, MainTypes, [Next]_vars PROVE FlagTypes'
  OBVIOUS
<1> USE DEF FlagTypes, bootVars, mainVars, wqVars, netFlags, libVars
<1>1. CASE Boot
  BY <1>1, Zenon DEF Boot, At, Local, MainMayRun
<1>2. CASE CheckAddress
  BY <1>2, Zenon DEF CheckAddress, At, Local, MainMayRun
<1>3. CASE TakeNetConnSem
  BY <1>3, Zenon DEF TakeNetConnSem, At, MainMayRun
<1>4. CASE app_mqtt_init
  BY <1>4, Zenon DEF app_mqtt_init, At, Local, MainMayRun
<1>5. CASE ConnectStart
  BY <1>5, Zenon DEF ConnectStart, At, Local, MainMayRun
<1>6. CASE MqttConnect
  BY <1>6, Zenon DEF MqttConnect, InCall, Return, ClientReset
<1>7. CASE AbortCheck
  BY <1>7, Zenon DEF AbortCheck, At, Local, MainMayRun
<1>8. CASE MqttAbort
  BY <1>8, Zenon DEF MqttAbort, InCall, Return, NoEvent, Closed, ClientReset
<1>9. CASE ConnectLoop
  BY <1>9, Zenon DEF ConnectLoop, At, Local, MainMayRun
<1>10. CASE Reschedule
  BY <1>10, Zenon DEF Reschedule, At, Local, ArmPublish, MainMayRun
<1>11. CASE prepare_fds
  BY <1>11, Zenon DEF prepare_fds, At, Local, MainMayRun
<1>12. CASE CheckFds
  BY <1>12, Zenon DEF CheckFds, At, Local, AfterPoll, MainMayRun
<1>13. CASE EnterPoll
  BY <1>13, Zenon DEF EnterPoll, At, Local, MainMayRun
<1>14. CASE SleepReturn
  BY <1>14, Zenon DEF SleepReturn, At, Local, AfterPoll, MainMayRun
<1>15. CASE PollReturn
  BY <1>15, Zenon DEF PollReturn, At, Local, AfterPoll, MainMayRun
<1>16. CASE InputRefused
  BY <1>16, Zenon DEF InputRefused, InCall, Return, NoEvent, InputFailed
<1>17. CASE InputError
  BY <1>17, Zenon DEF InputError, InCall, Return, Closed, InputFailed, ClientReset
<1>18. CASE InputConnack
  BY <1>18, Zenon DEF InputConnack, InCall, Return
<1>19. CASE InputOther
  BY <1>19, Zenon DEF InputOther, InCall, Return, NoEvent, InputDone
<1>20. CASE InputPuback
  BY <1>20, Zenon DEF InputPuback, InCall, Return
<1>21. CASE InputPublish
  BY <1>21, Zenon DEF InputPublish, InCall, Return, NoEvent
<1>22. CASE MqttPublishQos1Ack
  BY <1>22, Zenon DEF MqttPublishQos1Ack, InCall, Return, SendFromMain, NoEvent, Closed, ClientReset
<1>23. CASE on_mqtt_publish
  BY <1>23, Zenon DEF on_mqtt_publish, InCall, Return, NoEvent, Closed, device_command_handler, TopicMatches, ClientReset, device_commands
<1>24. CASE CheckHup
  BY <1>24, Zenon DEF CheckHup, At, Local, MainMayRun
<1>25. CASE mqtt_event_handler
  BY <1>25, Zenon DEF mqtt_event_handler, MainMayRun, on_mqtt_connect, on_mqtt_disconnect, LowerFlag, SwitchLed
<1>26. CASE app_mqtt_subscribe
  BY <1>26, Zenon DEF app_mqtt_subscribe, InCall, Return, SendFromMain, NoEvent, Closed, ClientReset
<1>27. CASE RunLoop
  BY <1>27, Zenon DEF RunLoop, At, Local, MainMayRun
<1>28. CASE MqttLive
  BY <1>28, Zenon DEF MqttLive, InCall, Return, NoEvent, SendFromMain, Closed, ClientReset
<1>29. CASE MqttDisconnect
  BY <1>29, Zenon DEF MqttDisconnect, InCall, Return, NoEvent, Closed, ClientReset
<1>30. CASE MainLock
  BY <1>30, Zenon DEF MainLock
<1>31. CASE WqStart
  BY <1>31, Zenon DEF WqStart, FirstStep
<1>32. CASE get_mqtt_payload
  BY <1>32, Zenon DEF get_mqtt_payload
<1>33. CASE WqLock
  BY <1>33, Zenon DEF WqLock
<1>34. CASE app_mqtt_publish
  BY <1>34, Zenon DEF app_mqtt_publish, ClientReset, LowerFlag, NextId, Rearm
<1>35. CASE net_event_handler
  BY <1>35, Zenon DEF net_event_handler, Registered
<1>36. CASE SocketDies
  BY <1>36, Zenon DEF SocketDies
<1>37. CASE Returned
  BY <1>37, Zenon DEF Returned, vars
<1>38. CASE UNCHANGED vars
  BY <1>38, Zenon DEF vars
<1> QED
  BY <1>1, <1>2, <1>3, <1>4, <1>5, <1>6, <1>7, <1>8, <1>9, <1>10, <1>11, <1>12, <1>13, <1>14, <1>15, <1>16, <1>17, <1>18, <1>19, <1>20, <1>21, <1>22, <1>23, <1>24, <1>25, <1>26, <1>27, <1>28, <1>29, <1>30, <1>31, <1>32, <1>33, <1>34, <1>35, <1>36, <1>37, <1>38
  DEF Next, Main, MainStep, BootStep, WqStep

\* The main thread's own variables keep their types; the poll result needs no case of its own.
LEMMA MainStepTypes == MainTypes /\ [Next]_vars => MainTypes'
<1> SUFFICES ASSUME MainTypes, [Next]_vars PROVE MainTypes'
  OBVIOUS
<1> USE DEF MainTypes, MainPcs, LibCalls, Packets, Commands, Revents, NoPacket, bootVars, mainVars, wqVars, netFlags, libVars
<1>1. CASE Boot
  BY <1>1 DEF Boot, At, Local, MainMayRun
<1>2. CASE CheckAddress
  BY <1>2 DEF CheckAddress, At, Local, MainMayRun
<1>3. CASE TakeNetConnSem
  BY <1>3 DEF TakeNetConnSem, At, MainMayRun
<1>4. CASE app_mqtt_init
  BY <1>4 DEF app_mqtt_init, At, Local, MainMayRun
<1>5. CASE ConnectStart
  BY <1>5 DEF ConnectStart, At, Local, MainMayRun
<1>6. CASE MqttConnect
  BY <1>6 DEF MqttConnect, InCall, Return, ClientReset
<1>7. CASE AbortCheck
  BY <1>7 DEF AbortCheck, At, Local, MainMayRun
<1>8. CASE MqttAbort
  BY <1>8 DEF MqttAbort, InCall, Return, NoEvent, Closed, ClientReset
<1>9. CASE ConnectLoop
  BY <1>9 DEF ConnectLoop, At, Local, MainMayRun
<1>10. CASE Reschedule
  BY <1>10 DEF Reschedule, At, Local, ArmPublish, MainMayRun
<1>11. CASE prepare_fds
  BY <1>11 DEF prepare_fds, At, Local, MainMayRun
<1>12. CASE CheckFds
  BY <1>12 DEF CheckFds, At, Local, AfterPoll, MainMayRun
<1>13. CASE EnterPoll
  BY <1>13 DEF EnterPoll, At, Local, MainMayRun
<1>14. CASE SleepReturn
  BY <1>14 DEF SleepReturn, At, Local, AfterPoll, MainMayRun
<1>15. CASE PollReturn
  BY <1>15 DEF PollReturn, At, Local, AfterPoll, MainMayRun
<1>16. CASE InputRefused
  BY <1>16 DEF InputRefused, InCall, Return, NoEvent, InputFailed
<1>17. CASE InputError
  BY <1>17 DEF InputError, InCall, Return, Closed, InputFailed, ClientReset
<1>18. CASE InputConnack
  BY <1>18 DEF InputConnack, InCall, Return
<1>19. CASE InputOther
  BY <1>19 DEF InputOther, InCall, Return, NoEvent, InputDone
<1>20. CASE InputPuback
  BY <1>20 DEF InputPuback, InCall, Return
<1>21. CASE InputPublish
  BY <1>21 DEF InputPublish, InCall, Return, NoEvent
<1>22. CASE MqttPublishQos1Ack
  BY <1>22 DEF MqttPublishQos1Ack, InCall, Return, SendFromMain, NoEvent, Closed, ClientReset
<1>23. CASE on_mqtt_publish
  BY <1>23 DEF on_mqtt_publish, InCall, Return, NoEvent, Closed, device_command_handler, TopicMatches, ClientReset, device_commands
<1>24. CASE CheckHup
  BY <1>24 DEF CheckHup, At, Local, MainMayRun
<1>25. CASE mqtt_event_handler
  BY <1>25 DEF mqtt_event_handler, MainMayRun, on_mqtt_connect, on_mqtt_disconnect, LowerFlag, SwitchLed
<1>26. CASE app_mqtt_subscribe
  BY <1>26 DEF app_mqtt_subscribe, InCall, Return, SendFromMain, NoEvent, Closed, ClientReset
<1>27. CASE RunLoop
  BY <1>27 DEF RunLoop, At, Local, MainMayRun
<1>28. CASE MqttLive
  BY <1>28 DEF MqttLive, InCall, Return, NoEvent, SendFromMain, Closed, ClientReset
<1>29. CASE MqttDisconnect
  BY <1>29 DEF MqttDisconnect, InCall, Return, NoEvent, Closed, ClientReset
<1>30. CASE MainLock
  BY <1>30 DEF MainLock
<1>31. CASE WqStart
  BY <1>31 DEF WqStart, FirstStep
<1>32. CASE get_mqtt_payload
  BY <1>32 DEF get_mqtt_payload
<1>33. CASE WqLock
  BY <1>33 DEF WqLock
<1>34. CASE app_mqtt_publish
  BY <1>34 DEF app_mqtt_publish, ClientReset, LowerFlag, NextId, Rearm
<1>35. CASE net_event_handler
  BY <1>35 DEF net_event_handler, Registered
<1>36. CASE SocketDies
  BY <1>36 DEF SocketDies
<1>37. CASE Returned
  BY <1>37 DEF Returned, vars
<1>38. CASE UNCHANGED vars
  BY <1>38 DEF vars
<1> QED
  BY <1>1, <1>2, <1>3, <1>4, <1>5, <1>6, <1>7, <1>8, <1>9, <1>10, <1>11, <1>12, <1>13, <1>14, <1>15, <1>16, <1>17, <1>18, <1>19, <1>20, <1>21, <1>22, <1>23, <1>24, <1>25, <1>26, <1>27, <1>28, <1>29, <1>30, <1>31, <1>32, <1>33, <1>34, <1>35, <1>36, <1>37, <1>38
  DEF Next, Main, MainStep, BootStep, WqStep

\* The work queue thread's and the client's variables keep their types.
LEMMA SharedStep == SharedTypes /\ [Next]_vars => SharedTypes'
<1> SUFFICES ASSUME SharedTypes, [Next]_vars PROVE SharedTypes'
  OBVIOUS
<1> USE MqttAssumption DEF SharedTypes, Unacked, bootVars, mainVars, wqVars, netFlags, libVars
<1>1. CASE Boot
  BY <1>1 DEF Boot, At, Local, MainMayRun
<1>2. CASE CheckAddress
  BY <1>2 DEF CheckAddress, At, Local, MainMayRun
<1>3. CASE TakeNetConnSem
  BY <1>3 DEF TakeNetConnSem, At, MainMayRun
<1>4. CASE app_mqtt_init
  BY <1>4 DEF app_mqtt_init, At, Local, MainMayRun
<1>5. CASE ConnectStart
  BY <1>5 DEF ConnectStart, At, Local, MainMayRun
<1>6. CASE MqttConnect
  BY <1>6 DEF MqttConnect, InCall, Return, ClientReset
<1>7. CASE AbortCheck
  BY <1>7 DEF AbortCheck, At, Local, MainMayRun
<1>8. CASE MqttAbort
  BY <1>8 DEF MqttAbort, InCall, Return, NoEvent, Closed, ClientReset
<1>9. CASE ConnectLoop
  BY <1>9 DEF ConnectLoop, At, Local, MainMayRun
<1>10. CASE Reschedule
  BY <1>10 DEF Reschedule, At, Local, ArmPublish, MainMayRun
<1>11. CASE prepare_fds
  BY <1>11 DEF prepare_fds, At, Local, MainMayRun
<1>12. CASE CheckFds
  BY <1>12 DEF CheckFds, At, Local, AfterPoll, MainMayRun
<1>13. CASE EnterPoll
  BY <1>13 DEF EnterPoll, At, Local, MainMayRun
<1>14. CASE SleepReturn
  BY <1>14 DEF SleepReturn, At, Local, AfterPoll, MainMayRun
<1>15. CASE PollReturn
  BY <1>15 DEF PollReturn, At, Local, AfterPoll, MainMayRun
<1>16. CASE InputRefused
  BY <1>16 DEF InputRefused, InCall, Return, NoEvent, InputFailed
<1>17. CASE InputError
  BY <1>17 DEF InputError, InCall, Return, Closed, InputFailed, ClientReset
<1>18. CASE InputConnack
  BY <1>18 DEF InputConnack, InCall, Return
<1>19. CASE InputOther
  BY <1>19 DEF InputOther, InCall, Return, NoEvent, InputDone
<1>20. CASE InputPuback
  BY <1>20 DEF InputPuback, InCall, Return
<1>21. CASE InputPublish
  BY <1>21 DEF InputPublish, InCall, Return, NoEvent
<1>22. CASE MqttPublishQos1Ack
  BY <1>22 DEF MqttPublishQos1Ack, InCall, Return, SendFromMain, NoEvent, Closed, ClientReset
<1>23. CASE on_mqtt_publish
  BY <1>23 DEF on_mqtt_publish, InCall, Return, NoEvent, Closed, device_command_handler, TopicMatches, ClientReset, device_commands
<1>24. CASE CheckHup
  BY <1>24 DEF CheckHup, At, Local, MainMayRun
<1>25. CASE mqtt_event_handler
  BY <1>25 DEF mqtt_event_handler, MainMayRun, on_mqtt_connect, on_mqtt_disconnect, LowerFlag, SwitchLed
<1>26. CASE app_mqtt_subscribe
  BY <1>26 DEF app_mqtt_subscribe, InCall, Return, SendFromMain, NoEvent, Closed, ClientReset
<1>27. CASE RunLoop
  BY <1>27 DEF RunLoop, At, Local, MainMayRun
<1>28. CASE MqttLive
  BY <1>28 DEF MqttLive, InCall, Return, NoEvent, SendFromMain, Closed, ClientReset
<1>29. CASE MqttDisconnect
  BY <1>29 DEF MqttDisconnect, InCall, Return, NoEvent, Closed, ClientReset
<1>30. CASE MainLock
  BY <1>30 DEF MainLock
<1>31. CASE WqStart
  BY <1>31 DEF WqStart, FirstStep
<1>32. CASE get_mqtt_payload
  BY <1>32 DEF get_mqtt_payload
<1>33. CASE WqLock
  BY <1>33 DEF WqLock
<1>34. CASE app_mqtt_publish
  <2>1. msgId' \in 0..(IdMod - 1)
    BY <1>34 DEF app_mqtt_publish, NextId
  <2>2. inflight' \subseteq Unacked
    BY <1>34 DEF app_mqtt_publish, ClientReset
  <2> QED
    BY <1>34, <2>1, <2>2 DEF app_mqtt_publish, ClientReset, LowerFlag, Rearm
<1>35. CASE net_event_handler
  BY <1>35 DEF net_event_handler, Registered
<1>36. CASE SocketDies
  BY <1>36 DEF SocketDies
<1>37. CASE Returned
  BY <1>37 DEF Returned, vars
<1>38. CASE UNCHANGED vars
  BY <1>38 DEF vars
<1> QED
  BY <1>1, <1>2, <1>3, <1>4, <1>5, <1>6, <1>7, <1>8, <1>9, <1>10, <1>11, <1>12, <1>13, <1>14, <1>15, <1>16, <1>17, <1>18, <1>19, <1>20, <1>21, <1>22, <1>23, <1>24, <1>25, <1>26, <1>27, <1>28, <1>29, <1>30, <1>31, <1>32, <1>33, <1>34, <1>35, <1>36, <1>37, <1>38
  DEF Next, Main, MainStep, BootStep, WqStep

\* TypeOK: every variable of both threads, the client and the socket has its type.
THEOREM TypeCorrect == Spec => []TypeOK
<1>1. Init => FlagTypes
  BY Zenon DEF Init, FlagTypes
<1>2. Init => MainTypes
  BY DEF Init, MainTypes, MainPcs, LibCalls, Packets, Commands, Revents, NoPacket
<1>3. Init => SharedTypes
  BY MqttAssumption DEF Init, SharedTypes, Unacked
<1>4. TypeOK /\ [Next]_vars => TypeOK'
  BY FlagStep, MainStepTypes, SharedStep DEF TypeOK
<1> QED
  BY <1>1, <1>2, <1>3, <1>4, PTL DEF Spec, TypeOK

-----------------------------------------------------------------------------
(* The invariant that holds on every board.                                *)

\* Where main stands determines who called, who may hold an event and what the client's
\* state can be; every step of either thread keeps that.
LEMMA ControlStep == TypeOK /\ ControlInv /\ [Next]_vars => ControlInv'
<1> SUFFICES ASSUME TypeOK, ControlInv, [Next]_vars PROVE ControlInv'
  OBVIOUS
<1> USE DEF ControlInv, CallerInv, EventInv, ClientInv, TypeOK, FlagTypes, MainTypes, SharedTypes,
        RunOnly, ConnectOnly, Opening, BootPcs, LibCalls, bootVars, mainVars, wqVars, netFlags, libVars
<1>1. CASE Boot
  BY <1>1 DEF Boot, At, Local, MainMayRun
<1>2. CASE CheckAddress
  BY <1>2 DEF CheckAddress, At, Local, MainMayRun
<1>3. CASE TakeNetConnSem
  BY <1>3 DEF TakeNetConnSem, At, MainMayRun
<1>4. CASE app_mqtt_init
  BY <1>4 DEF app_mqtt_init, At, Local, MainMayRun
<1>5. CASE ConnectStart
  BY <1>5 DEF ConnectStart, At, Local, MainMayRun
<1>6. CASE MqttConnect
  BY <1>6 DEF MqttConnect, InCall, Return, ClientReset
<1>7. CASE AbortCheck
  BY <1>7 DEF AbortCheck, At, Local, MainMayRun
<1>8. CASE MqttAbort
  BY <1>8 DEF MqttAbort, InCall, Return, NoEvent, Closed, ClientReset
<1>9. CASE ConnectLoop
  BY <1>9 DEF ConnectLoop, At, Local, MainMayRun
<1>10. CASE Reschedule
  BY <1>10 DEF Reschedule, At, Local, ArmPublish, MainMayRun
<1>11. CASE prepare_fds
  BY <1>11 DEF prepare_fds, At, Local, MainMayRun
<1>12. CASE CheckFds
  BY <1>12 DEF CheckFds, At, Local, AfterPoll, MainMayRun
<1>13. CASE EnterPoll
  BY <1>13 DEF EnterPoll, At, Local, MainMayRun
<1>14. CASE SleepReturn
  BY <1>14 DEF SleepReturn, At, Local, AfterPoll, MainMayRun
<1>15. CASE PollReturn
  BY <1>15 DEF PollReturn, At, Local, AfterPoll, MainMayRun
<1>16. CASE InputRefused
  BY <1>16 DEF InputRefused, InCall, Return, NoEvent, InputFailed
<1>17. CASE InputError
  BY <1>17 DEF InputError, InCall, Return, Closed, InputFailed, ClientReset
<1>18. CASE InputConnack
  BY <1>18 DEF InputConnack, InCall, Return
<1>19. CASE InputOther
  BY <1>19 DEF InputOther, InCall, Return, NoEvent, InputDone
<1>20. CASE InputPuback
  BY <1>20 DEF InputPuback, InCall, Return
<1>21. CASE InputPublish
  BY <1>21 DEF InputPublish, InCall, Return, NoEvent
<1>22. CASE MqttPublishQos1Ack
  BY <1>22 DEF MqttPublishQos1Ack, InCall, Return, SendFromMain, NoEvent, Closed, ClientReset
<1>23. CASE on_mqtt_publish
  BY <1>23 DEF on_mqtt_publish, InCall, Return, NoEvent, Closed, device_command_handler, TopicMatches, ClientReset, device_commands
<1>24. CASE CheckHup
  BY <1>24 DEF CheckHup, At, Local, MainMayRun
<1>25. CASE mqtt_event_handler
  BY <1>25 DEF mqtt_event_handler, MainMayRun, on_mqtt_connect, on_mqtt_disconnect, LowerFlag, SwitchLed
<1>26. CASE app_mqtt_subscribe
  BY <1>26 DEF app_mqtt_subscribe, InCall, Return, SendFromMain, NoEvent, Closed, ClientReset
<1>27. CASE RunLoop
  BY <1>27 DEF RunLoop, At, Local, MainMayRun
<1>28. CASE MqttLive
  BY <1>28 DEF MqttLive, InCall, Return, NoEvent, SendFromMain, Closed, ClientReset
<1>29. CASE MqttDisconnect
  BY <1>29 DEF MqttDisconnect, InCall, Return, NoEvent, Closed, ClientReset
<1>30. CASE MainLock
  BY <1>30 DEF MainLock
<1>31. CASE WqStart
  BY <1>31 DEF WqStart, FirstStep
<1>32. CASE get_mqtt_payload
  BY <1>32 DEF get_mqtt_payload
<1>33. CASE WqLock
  BY <1>33 DEF WqLock
<1>34. CASE app_mqtt_publish
  BY <1>34 DEF app_mqtt_publish, ClientReset, LowerFlag, NextId, Rearm
<1>35. CASE net_event_handler
  BY <1>35 DEF net_event_handler, Registered
<1>36. CASE SocketDies
  BY <1>36 DEF SocketDies
<1>37. CASE Returned
  BY <1>37 DEF Returned, vars
<1>38. CASE UNCHANGED vars
  BY <1>38 DEF vars
<1> QED
  BY <1>1, <1>2, <1>3, <1>4, <1>5, <1>6, <1>7, <1>8, <1>9, <1>10, <1>11, <1>12, <1>13, <1>14, <1>15, <1>16, <1>17, <1>18, <1>19, <1>20, <1>21, <1>22, <1>23, <1>24, <1>25, <1>26, <1>27, <1>28, <1>29, <1>30, <1>31, <1>32, <1>33, <1>34, <1>35, <1>36, <1>37, <1>38
  DEF Next, Main, MainStep, BootStep, WqStep

\* No step of either thread leaves a served connection without a scheduled publish.
LEMMA ArmedStep == ControlInv /\ SharedTypes /\ PublishArmed /\ [Next]_vars => PublishArmed'
<1> SUFFICES ASSUME ControlInv, SharedTypes, PublishArmed, [Next]_vars PROVE PublishArmed'
  OBVIOUS
<1> USE DEF PublishArmed, ControlInv, CallerInv, EventInv, SharedTypes, ConnectOnly, bootVars, mainVars, wqVars, netFlags, libVars
<1>1. CASE Boot
  BY <1>1 DEF Boot, At, Local, MainMayRun
<1>2. CASE CheckAddress
  BY <1>2 DEF CheckAddress, At, Local, MainMayRun
<1>3. CASE TakeNetConnSem
  BY <1>3 DEF TakeNetConnSem, At, MainMayRun
<1>4. CASE app_mqtt_init
  BY <1>4 DEF app_mqtt_init, At, Local, MainMayRun
<1>5. CASE ConnectStart
  BY <1>5 DEF ConnectStart, At, Local, MainMayRun
<1>6. CASE MqttConnect
  BY <1>6 DEF MqttConnect, InCall, Return, ClientReset
<1>7. CASE AbortCheck
  BY <1>7 DEF AbortCheck, At, Local, MainMayRun
<1>8. CASE MqttAbort
  BY <1>8 DEF MqttAbort, InCall, Return, NoEvent, Closed, ClientReset
<1>9. CASE ConnectLoop
  BY <1>9 DEF ConnectLoop, At, Local, MainMayRun
<1>10. CASE Reschedule
  BY <1>10 DEF Reschedule, At, Local, ArmPublish, MainMayRun
<1>11. CASE prepare_fds
  BY <1>11 DEF prepare_fds, At, Local, MainMayRun
<1>12. CASE CheckFds
  BY <1>12 DEF CheckFds, At, Local, AfterPoll, MainMayRun
<1>13. CASE EnterPoll
  BY <1>13 DEF EnterPoll, At, Local, MainMayRun
<1>14. CASE SleepReturn
  BY <1>14 DEF SleepReturn, At, Local, AfterPoll, MainMayRun
<1>15. CASE PollReturn
  BY <1>15 DEF PollReturn, At, Local, AfterPoll, MainMayRun
<1>16. CASE InputRefused
  BY <1>16 DEF InputRefused, InCall, Return, NoEvent, InputFailed
<1>17. CASE InputError
  BY <1>17 DEF InputError, InCall, Return, Closed, InputFailed, ClientReset
<1>18. CASE InputConnack
  BY <1>18 DEF InputConnack, InCall, Return
<1>19. CASE InputOther
  BY <1>19 DEF InputOther, InCall, Return, NoEvent, InputDone
<1>20. CASE InputPuback
  BY <1>20 DEF InputPuback, InCall, Return
<1>21. CASE InputPublish
  BY <1>21 DEF InputPublish, InCall, Return, NoEvent
<1>22. CASE MqttPublishQos1Ack
  BY <1>22 DEF MqttPublishQos1Ack, InCall, Return, SendFromMain, NoEvent, Closed, ClientReset
<1>23. CASE on_mqtt_publish
  BY <1>23 DEF on_mqtt_publish, InCall, Return, NoEvent, Closed, device_command_handler, TopicMatches, ClientReset, device_commands
<1>24. CASE CheckHup
  BY <1>24 DEF CheckHup, At, Local, MainMayRun
<1>25. CASE mqtt_event_handler
  BY <1>25 DEF mqtt_event_handler, MainMayRun, on_mqtt_connect, on_mqtt_disconnect, LowerFlag, SwitchLed
<1>26. CASE app_mqtt_subscribe
  BY <1>26 DEF app_mqtt_subscribe, InCall, Return, SendFromMain, NoEvent, Closed, ClientReset
<1>27. CASE RunLoop
  BY <1>27 DEF RunLoop, At, Local, MainMayRun
<1>28. CASE MqttLive
  BY <1>28 DEF MqttLive, InCall, Return, NoEvent, SendFromMain, Closed, ClientReset
<1>29. CASE MqttDisconnect
  BY <1>29 DEF MqttDisconnect, InCall, Return, NoEvent, Closed, ClientReset
<1>30. CASE MainLock
  BY <1>30 DEF MainLock
<1>31. CASE WqStart
  BY <1>31 DEF WqStart, FirstStep
<1>32. CASE get_mqtt_payload
  BY <1>32 DEF get_mqtt_payload
<1>33. CASE WqLock
  BY <1>33 DEF WqLock
<1>34. CASE app_mqtt_publish
  BY <1>34 DEF app_mqtt_publish, ClientReset, LowerFlag, NextId, Rearm
<1>35. CASE net_event_handler
  BY <1>35 DEF net_event_handler, Registered
<1>36. CASE SocketDies
  BY <1>36 DEF SocketDies
<1>37. CASE Returned
  BY <1>37 DEF Returned, vars
<1>38. CASE UNCHANGED vars
  BY <1>38 DEF vars
<1> QED
  BY <1>1, <1>2, <1>3, <1>4, <1>5, <1>6, <1>7, <1>8, <1>9, <1>10, <1>11, <1>12, <1>13, <1>14, <1>15, <1>16, <1>17, <1>18, <1>19, <1>20, <1>21, <1>22, <1>23, <1>24, <1>25, <1>26, <1>27, <1>28, <1>29, <1>30, <1>31, <1>32, <1>33, <1>34, <1>35, <1>36, <1>37, <1>38
  DEF Next, Main, MainStep, BootStep, WqStep

\* PublishArmed: while main serves a connection and the flag is up, the publish item is on
\* the timer or being handled, on every board.
THEOREM PublishStaysArmed == Spec => []PublishArmed
<1>1. Init => ControlInv /\ PublishArmed
  BY DEF Init, ControlInv, CallerInv, EventInv, ClientInv, PublishArmed, RunOnly,
         ConnectOnly, BootPcs, Opening
<1>2. ControlInv /\ TypeOK /\ [Next]_vars => ControlInv'
  BY ControlStep
<1>3. ControlInv /\ TypeOK /\ PublishArmed /\ [Next]_vars => PublishArmed'
  BY ArmedStep DEF TypeOK
<1> QED
  BY <1>1, <1>2, <1>3, TypeCorrect, PTL DEF Spec

\* No step of either thread leaves a session that the flag, or the CONNACK event on its way
\* to the flag, does not know of.
LEMMA SessionFlaggedStep ==
  TypeOK /\ ControlInv /\ SessionFlagged /\ [Next]_vars => SessionFlagged'
<1> SUFFICES ASSUME TypeOK, ControlInv, SessionFlagged, [Next]_vars PROVE SessionFlagged'
  OBVIOUS
<1> USE DEF SessionFlagged, ControlInv, EventInv, ClientInv, TypeOK, FlagTypes, SharedTypes,
        BootPcs, bootVars, mainVars, wqVars, netFlags, libVars
<1>1. CASE Boot
  BY <1>1 DEF Boot, At, Local, MainMayRun
<1>2. CASE CheckAddress
  BY <1>2 DEF CheckAddress, At, Local, MainMayRun
<1>3. CASE TakeNetConnSem
  BY <1>3 DEF TakeNetConnSem, At, MainMayRun
<1>4. CASE app_mqtt_init
  BY <1>4 DEF app_mqtt_init, At, Local, MainMayRun
<1>5. CASE ConnectStart
  BY <1>5 DEF ConnectStart, At, Local, MainMayRun
<1>6. CASE MqttConnect
  BY <1>6 DEF MqttConnect, InCall, Return, ClientReset
<1>7. CASE AbortCheck
  BY <1>7 DEF AbortCheck, At, Local, MainMayRun
<1>8. CASE MqttAbort
  BY <1>8 DEF MqttAbort, InCall, Return, NoEvent, Closed, ClientReset
<1>9. CASE ConnectLoop
  BY <1>9 DEF ConnectLoop, At, Local, MainMayRun
<1>10. CASE Reschedule
  BY <1>10 DEF Reschedule, At, Local, ArmPublish, MainMayRun
<1>11. CASE prepare_fds
  BY <1>11 DEF prepare_fds, At, Local, MainMayRun
<1>12. CASE CheckFds
  BY <1>12 DEF CheckFds, At, Local, AfterPoll, MainMayRun
<1>13. CASE EnterPoll
  BY <1>13 DEF EnterPoll, At, Local, MainMayRun
<1>14. CASE SleepReturn
  BY <1>14 DEF SleepReturn, At, Local, AfterPoll, MainMayRun
<1>15. CASE PollReturn
  BY <1>15 DEF PollReturn, At, Local, AfterPoll, MainMayRun
<1>16. CASE InputRefused
  BY <1>16 DEF InputRefused, InCall, Return, NoEvent, InputFailed
<1>17. CASE InputError
  BY <1>17 DEF InputError, InCall, Return, Closed, InputFailed, ClientReset
<1>18. CASE InputConnack
  BY <1>18 DEF InputConnack, InCall, Return
<1>19. CASE InputOther
  BY <1>19 DEF InputOther, InCall, Return, NoEvent, InputDone
<1>20. CASE InputPuback
  BY <1>20 DEF InputPuback, InCall, Return
<1>21. CASE InputPublish
  BY <1>21 DEF InputPublish, InCall, Return, NoEvent
<1>22. CASE MqttPublishQos1Ack
  BY <1>22 DEF MqttPublishQos1Ack, InCall, Return, SendFromMain, NoEvent, Closed, ClientReset
<1>23. CASE on_mqtt_publish
  BY <1>23 DEF on_mqtt_publish, InCall, Return, NoEvent, Closed, device_command_handler, TopicMatches, ClientReset, device_commands
<1>24. CASE CheckHup
  BY <1>24 DEF CheckHup, At, Local, MainMayRun
<1>25. CASE mqtt_event_handler
  BY <1>25 DEF MainTypes, mqtt_event_handler, MainMayRun, on_mqtt_connect, on_mqtt_disconnect, LowerFlag, SwitchLed
<1>26. CASE app_mqtt_subscribe
  BY <1>26 DEF app_mqtt_subscribe, InCall, Return, SendFromMain, NoEvent, Closed, ClientReset
<1>27. CASE RunLoop
  BY <1>27 DEF RunLoop, At, Local, MainMayRun
<1>28. CASE MqttLive
  BY <1>28 DEF MqttLive, InCall, Return, NoEvent, SendFromMain, Closed, ClientReset
<1>29. CASE MqttDisconnect
  BY <1>29 DEF MqttDisconnect, InCall, Return, NoEvent, Closed, ClientReset
<1>30. CASE MainLock
  BY <1>30 DEF MainLock
<1>31. CASE WqStart
  BY <1>31 DEF WqStart, FirstStep
<1>32. CASE get_mqtt_payload
  BY <1>32 DEF get_mqtt_payload
<1>33. CASE WqLock
  BY <1>33 DEF WqLock
<1>34. CASE app_mqtt_publish
  BY <1>34 DEF app_mqtt_publish, ClientReset, LowerFlag, NextId, Rearm
<1>35. CASE net_event_handler
  BY <1>35 DEF net_event_handler, Registered
<1>36. CASE SocketDies
  BY <1>36 DEF SocketDies
<1>37. CASE Returned
  BY <1>37 DEF Returned, vars
<1>38. CASE UNCHANGED vars
  BY <1>38 DEF vars
<1> QED
  BY <1>1, <1>2, <1>3, <1>4, <1>5, <1>6, <1>7, <1>8, <1>9, <1>10, <1>11, <1>12, <1>13, <1>14, <1>15, <1>16, <1>17, <1>18, <1>19, <1>20, <1>21, <1>22, <1>23, <1>24, <1>25, <1>26, <1>27, <1>28, <1>29, <1>30, <1>31, <1>32, <1>33, <1>34, <1>35, <1>36, <1>37, <1>38
  DEF Next, Main, MainStep, BootStep, WqStep

\* The part of DeadSocketClosed that needs no fairness: while main serves a session the flag
\* is up and a publish is scheduled or under way, on every board, so that a connection that
\* died without an event is always going to be written to, which closes it.
THEOREM SessionIsProbed == Spec => []SessionProbed
<1>1. Init => ControlInv /\ PublishArmed /\ SessionFlagged
  BY DEF Init, ControlInv, CallerInv, EventInv, ClientInv, PublishArmed, SessionFlagged,
         RunOnly, ConnectOnly, BootPcs, Opening
<1>2. ControlInv /\ TypeOK /\ [Next]_vars => ControlInv'
  BY ControlStep
<1>3. ControlInv /\ TypeOK /\ PublishArmed /\ [Next]_vars => PublishArmed'
  BY ArmedStep DEF TypeOK
<1>4. ControlInv /\ TypeOK /\ SessionFlagged /\ [Next]_vars => SessionFlagged'
  BY SessionFlaggedStep
<1>5. ControlInv /\ PublishArmed /\ SessionFlagged => SessionProbed
  BY DEF ControlInv, CallerInv, EventInv, PublishArmed, SessionFlagged, SessionProbed, ConnectOnly
<1> QED
  BY <1>1, <1>2, <1>3, <1>4, <1>5, TypeCorrect, PTL DEF Spec

\* What the steps do with main's wait for the address: all others leave address and semaphore
\* alone, and do not lead into the wait.
LEMMA WaitStep ==
  ASSUME Next
  PROVE  \/ CheckAddress \/ TakeNetConnSem \/ net_event_handler
         \/ UNCHANGED <<ip, sem>> /\ (mainPc' = mainPc \/ mainPc' # "wait_ip")
<1> USE DEF bootVars, mainVars
<1>1. CASE \/ Boot \/ app_mqtt_init \/ ConnectStart \/ AbortCheck \/ ConnectLoop \/ Reschedule
           \/ prepare_fds \/ EnterPoll \/ CheckHup \/ RunLoop
  BY <1>1 DEF Boot, app_mqtt_init, ConnectStart, AbortCheck, ConnectLoop, Reschedule, prepare_fds,
              EnterPoll, CheckHup, RunLoop, Local
<1>2. CASE CheckFds \/ SleepReturn \/ PollReturn
  BY <1>2 DEF CheckFds, SleepReturn, PollReturn, Local, AfterPoll
<1>3. CASE \/ MqttConnect \/ MqttAbort \/ app_mqtt_subscribe \/ MqttLive \/ MqttDisconnect
           \/ MqttPublishQos1Ack \/ on_mqtt_publish
  BY <1>3 DEF MqttConnect, MqttAbort, app_mqtt_subscribe, MqttLive, MqttDisconnect,
              MqttPublishQos1Ack, on_mqtt_publish, Return
<1>4. CASE InputRefused \/ InputError \/ InputConnack \/ InputOther \/ InputPuback \/ InputPublish
  BY <1>4 DEF InputRefused, InputError, InputConnack, InputOther, InputPuback, InputPublish,
              InputFailed, InputDone, Return
<1>5. CASE mqtt_event_handler \/ MainLock \/ WqStep \/ SocketDies \/ Returned
  BY <1>5 DEF mqtt_event_handler, MainLock, WqStep, WqStart, get_mqtt_payload, WqLock,
              app_mqtt_publish, SocketDies, Returned, vars
<1> QED
  BY <1>1, <1>2, <1>3, <1>4, <1>5 DEF Next, Main, MainStep, BootStep

\* AddressHeard: whenever the address is assigned, main either sees it when it looks, or the
\* event finds the handler registered and gives the semaphore main waits for.
THEOREM AddressIsHeard == Spec => []AddressHeard
<1>1. Init => AddressHeard
  BY DEF Init, AddressHeard
<1>2. AddressHeard /\ Next => AddressHeard'
  BY WaitStep
  DEF AddressHeard, CheckAddress, TakeNetConnSem, net_event_handler, Registered, Local, bootVars,
      mainVars
<1>3. AddressHeard /\ UNCHANGED vars => AddressHeard'
  BY DEF AddressHeard, vars, bootVars, mainVars
<1> QED
  BY <1>1, <1>2, <1>3, PTL DEF Spec

\* SocketNotLeaked: mqtt_connect is only reached after the previous socket was closed.
THEOREM NoSocketLeak == Spec => []SocketNotLeaked
<1>1. Init => ControlInv
  BY DEF Init, ControlInv, CallerInv, EventInv, ClientInv, RunOnly, ConnectOnly, BootPcs,
         Opening
<1>2. ControlInv /\ TypeOK /\ [Next]_vars => ControlInv'
  BY ControlStep
<1>3. ControlInv => SocketNotLeaked
  BY DEF ControlInv, ClientInv, SocketNotLeaked
<1> QED
  BY <1>1, <1>2, <1>3, TypeCorrect, PTL DEF Spec

-----------------------------------------------------------------------------
(* Boards without a blocking sensor read.                                  *)

\* Without a blocking sensor read the holder of the mutex is known, and the handler is idle
\* during a connection attempt.
LEMMA QuietStep ==
  ~HasSensor /\ TypeOK /\ ControlInv /\ MutexInv /\ QuietInv /\ [Next]_vars
    => MutexInv' /\ QuietInv'
<1> SUFFICES ASSUME ~HasSensor, TypeOK, ControlInv, MutexInv, QuietInv, [Next]_vars
             PROVE MutexInv' /\ QuietInv'
  OBVIOUS
<1> USE DEF MutexInv, QuietInv, ControlInv, EventInv, ClientInv, TypeOK, FlagTypes,
        MainTypes, SharedTypes, LibCalls, BootPcs, bootVars, mainVars, wqVars, netFlags, libVars
<1>1. CASE Boot
  BY <1>1 DEF Boot, At, Local, MainMayRun
<1>2. CASE CheckAddress
  BY <1>2 DEF CheckAddress, At, Local, MainMayRun
<1>3. CASE TakeNetConnSem
  BY <1>3 DEF TakeNetConnSem, At, MainMayRun
<1>4. CASE app_mqtt_init
  BY <1>4 DEF app_mqtt_init, At, Local, MainMayRun
<1>5. CASE ConnectStart
  BY <1>5 DEF ConnectStart, At, Local, MainMayRun
<1>6. CASE MqttConnect
  BY <1>6 DEF MqttConnect, InCall, Return, ClientReset
<1>7. CASE AbortCheck
  BY <1>7 DEF AbortCheck, At, Local, MainMayRun
<1>8. CASE MqttAbort
  BY <1>8 DEF MqttAbort, InCall, Return, NoEvent, Closed, ClientReset
<1>9. CASE ConnectLoop
  BY <1>9 DEF ConnectLoop, At, Local, MainMayRun
<1>10. CASE Reschedule
  BY <1>10 DEF Reschedule, At, Local, ArmPublish, MainMayRun
<1>11. CASE prepare_fds
  BY <1>11 DEF prepare_fds, At, Local, MainMayRun
<1>12. CASE CheckFds
  BY <1>12 DEF CheckFds, At, Local, AfterPoll, MainMayRun
<1>13. CASE EnterPoll
  BY <1>13 DEF EnterPoll, At, Local, MainMayRun
<1>14. CASE SleepReturn
  BY <1>14 DEF SleepReturn, At, Local, AfterPoll, MainMayRun
<1>15. CASE PollReturn
  BY <1>15 DEF PollReturn, At, Local, AfterPoll, MainMayRun
<1>16. CASE InputRefused
  BY <1>16 DEF InputRefused, InCall, Return, NoEvent, InputFailed
<1>17. CASE InputError
  BY <1>17 DEF InputError, InCall, Return, Closed, InputFailed, ClientReset
<1>18. CASE InputConnack
  BY <1>18 DEF InputConnack, InCall, Return
<1>19. CASE InputOther
  BY <1>19 DEF InputOther, InCall, Return, NoEvent, InputDone
<1>20. CASE InputPuback
  BY <1>20 DEF InputPuback, InCall, Return
<1>21. CASE InputPublish
  BY <1>21 DEF InputPublish, InCall, Return, NoEvent
<1>22. CASE MqttPublishQos1Ack
  BY <1>22 DEF MqttPublishQos1Ack, InCall, Return, SendFromMain, NoEvent, Closed, ClientReset
<1>23. CASE on_mqtt_publish
  BY <1>23 DEF on_mqtt_publish, InCall, Return, NoEvent, Closed, device_command_handler, TopicMatches, ClientReset, device_commands
<1>24. CASE CheckHup
  BY <1>24 DEF CheckHup, At, Local, MainMayRun
<1>25. CASE mqtt_event_handler
  BY <1>25 DEF mqtt_event_handler, MainMayRun, on_mqtt_connect, on_mqtt_disconnect, LowerFlag, SwitchLed
<1>26. CASE app_mqtt_subscribe
  BY <1>26 DEF app_mqtt_subscribe, InCall, Return, SendFromMain, NoEvent, Closed, ClientReset
<1>27. CASE RunLoop
  BY <1>27 DEF RunLoop, At, Local, MainMayRun
<1>28. CASE MqttLive
  BY <1>28 DEF MqttLive, InCall, Return, NoEvent, SendFromMain, Closed, ClientReset
<1>29. CASE MqttDisconnect
  BY <1>29 DEF MqttDisconnect, InCall, Return, NoEvent, Closed, ClientReset
<1>30. CASE MainLock
  BY <1>30 DEF MainLock
<1>31. CASE WqStart
  BY <1>31 DEF WqStart, FirstStep
<1>32. CASE get_mqtt_payload
  BY <1>32 DEF get_mqtt_payload
<1>33. CASE WqLock
  BY <1>33 DEF WqLock
<1>34. CASE app_mqtt_publish
  BY <1>34 DEF app_mqtt_publish, ClientReset, LowerFlag, NextId, Rearm
<1>35. CASE net_event_handler
  BY <1>35 DEF net_event_handler, Registered
<1>36. CASE SocketDies
  BY <1>36 DEF SocketDies
<1>37. CASE Returned
  BY <1>37 DEF Returned, vars
<1>38. CASE UNCHANGED vars
  BY <1>38 DEF vars
<1> QED
  BY <1>1, <1>2, <1>3, <1>4, <1>5, <1>6, <1>7, <1>8, <1>9, <1>10, <1>11, <1>12, <1>13, <1>14, <1>15, <1>16, <1>17, <1>18, <1>19, <1>20, <1>21, <1>22, <1>23, <1>24, <1>25, <1>26, <1>27, <1>28, <1>29, <1>30, <1>31, <1>32, <1>33, <1>34, <1>35, <1>36, <1>37, <1>38
  DEF Next, Main, MainStep, BootStep, WqStep

\* On those boards no step raises the flag without a session or ends one unannounced.
LEMMA FlagTruthStep ==
  TypeOK /\ ControlInv /\ QuietInv /\ FlagTruthful /\ [Next]_vars => FlagTruthful'
<1> SUFFICES ASSUME TypeOK, ControlInv, QuietInv, FlagTruthful, [Next]_vars
             PROVE FlagTruthful'
  OBVIOUS
<1> USE DEF FlagTruthful, QuietInv, ControlInv, EventInv, ClientInv, TypeOK, FlagTypes,
        MainTypes, SharedTypes, BootPcs, bootVars, mainVars, wqVars, netFlags, libVars
<1>1. CASE Boot
  BY <1>1 DEF Boot, At, Local, MainMayRun
<1>2. CASE CheckAddress
  BY <1>2 DEF CheckAddress, At, Local, MainMayRun
<1>3. CASE TakeNetConnSem
  BY <1>3 DEF TakeNetConnSem, At, MainMayRun
<1>4. CASE app_mqtt_init
  BY <1>4 DEF app_mqtt_init, At, Local, MainMayRun
<1>5. CASE ConnectStart
  BY <1>5 DEF ConnectStart, At, Local, MainMayRun
<1>6. CASE MqttConnect
  BY <1>6 DEF MqttConnect, InCall, Return, ClientReset
<1>7. CASE AbortCheck
  BY <1>7 DEF AbortCheck, At, Local, MainMayRun
<1>8. CASE MqttAbort
  BY <1>8 DEF MqttAbort, InCall, Return, NoEvent, Closed, ClientReset
<1>9. CASE ConnectLoop
  BY <1>9 DEF ConnectLoop, At, Local, MainMayRun
<1>10. CASE Reschedule
  BY <1>10 DEF Reschedule, At, Local, ArmPublish, MainMayRun
<1>11. CASE prepare_fds
  BY <1>11 DEF prepare_fds, At, Local, MainMayRun
<1>12. CASE CheckFds
  BY <1>12 DEF CheckFds, At, Local, AfterPoll, MainMayRun
<1>13. CASE EnterPoll
  BY <1>13 DEF EnterPoll, At, Local, MainMayRun
<1>14. CASE SleepReturn
  BY <1>14 DEF SleepReturn, At, Local, AfterPoll, MainMayRun
<1>15. CASE PollReturn
  BY <1>15 DEF PollReturn, At, Local, AfterPoll, MainMayRun
<1>16. CASE InputRefused
  BY <1>16 DEF InputRefused, InCall, Return, NoEvent, InputFailed
<1>17. CASE InputError
  BY <1>17 DEF InputError, InCall, Return, Closed, InputFailed, ClientReset
<1>18. CASE InputConnack
  BY <1>18 DEF InputConnack, InCall, Return
<1>19. CASE InputOther
  BY <1>19 DEF InputOther, InCall, Return, NoEvent, InputDone
<1>20. CASE InputPuback
  BY <1>20 DEF InputPuback, InCall, Return
<1>21. CASE InputPublish
  BY <1>21 DEF InputPublish, InCall, Return, NoEvent
<1>22. CASE MqttPublishQos1Ack
  BY <1>22 DEF MqttPublishQos1Ack, InCall, Return, SendFromMain, NoEvent, Closed, ClientReset
<1>23. CASE on_mqtt_publish
  BY <1>23 DEF on_mqtt_publish, InCall, Return, NoEvent, Closed, device_command_handler, TopicMatches, ClientReset, device_commands
<1>24. CASE CheckHup
  BY <1>24 DEF CheckHup, At, Local, MainMayRun
<1>25. CASE mqtt_event_handler
  BY <1>25 DEF mqtt_event_handler, MainMayRun, on_mqtt_connect, on_mqtt_disconnect, LowerFlag, SwitchLed
<1>26. CASE app_mqtt_subscribe
  BY <1>26 DEF app_mqtt_subscribe, InCall, Return, SendFromMain, NoEvent, Closed, ClientReset
<1>27. CASE RunLoop
  BY <1>27 DEF RunLoop, At, Local, MainMayRun
<1>28. CASE MqttLive
  BY <1>28 DEF MqttLive, InCall, Return, NoEvent, SendFromMain, Closed, ClientReset
<1>29. CASE MqttDisconnect
  BY <1>29 DEF MqttDisconnect, InCall, Return, NoEvent, Closed, ClientReset
<1>30. CASE MainLock
  BY <1>30 DEF MainLock
<1>31. CASE WqStart
  BY <1>31 DEF WqStart, FirstStep
<1>32. CASE get_mqtt_payload
  BY <1>32 DEF get_mqtt_payload
<1>33. CASE WqLock
  BY <1>33 DEF WqLock
<1>34. CASE app_mqtt_publish
  BY <1>34 DEF app_mqtt_publish, ClientReset, LowerFlag, NextId, Rearm
<1>35. CASE net_event_handler
  BY <1>35 DEF net_event_handler, Registered
<1>36. CASE SocketDies
  BY <1>36 DEF SocketDies
<1>37. CASE Returned
  BY <1>37 DEF Returned, vars
<1>38. CASE UNCHANGED vars
  BY <1>38 DEF vars
<1> QED
  BY <1>1, <1>2, <1>3, <1>4, <1>5, <1>6, <1>7, <1>8, <1>9, <1>10, <1>11, <1>12, <1>13, <1>14, <1>15, <1>16, <1>17, <1>18, <1>19, <1>20, <1>21, <1>22, <1>23, <1>24, <1>25, <1>26, <1>27, <1>28, <1>29, <1>30, <1>31, <1>32, <1>33, <1>34, <1>35, <1>36, <1>37, <1>38
  DEF Next, Main, MainStep, BootStep, WqStep

\* Neither callback leaves the LED lit behind a lowered flag while main serves a connection.
LEMMA LedStep == MainTypes /\ ControlInv /\ LedInv /\ [Next]_vars => LedInv'
<1> SUFFICES ASSUME MainTypes, ControlInv, LedInv, [Next]_vars PROVE LedInv'
  OBVIOUS
<1> USE DEF LedInv, NetLedTracksFlag, LedFollows, ControlInv, CallerInv, EventInv,
        RunOnly, ConnectOnly, BootPcs, bootVars, mainVars, wqVars, netFlags, libVars
<1>1. CASE Boot
  BY <1>1 DEF Boot, At, Local, MainMayRun
<1>2. CASE CheckAddress
  BY <1>2 DEF CheckAddress, At, Local, MainMayRun
<1>3. CASE TakeNetConnSem
  BY <1>3 DEF TakeNetConnSem, At, MainMayRun
<1>4. CASE app_mqtt_init
  BY <1>4 DEF app_mqtt_init, At, Local, MainMayRun
<1>5. CASE ConnectStart
  BY <1>5 DEF ConnectStart, At, Local, MainMayRun
<1>6. CASE MqttConnect
  BY <1>6 DEF MqttConnect, InCall, Return, ClientReset
<1>7. CASE AbortCheck
  BY <1>7 DEF AbortCheck, At, Local, MainMayRun
<1>8. CASE MqttAbort
  BY <1>8 DEF MqttAbort, InCall, Return, NoEvent, Closed, ClientReset
<1>9. CASE ConnectLoop
  BY <1>9 DEF ConnectLoop, At, Local, MainMayRun
<1>10. CASE Reschedule
  BY <1>10 DEF Reschedule, At, Local, ArmPublish, MainMayRun
<1>11. CASE prepare_fds
  BY <1>11 DEF prepare_fds, At, Local, MainMayRun
<1>12. CASE CheckFds
  BY <1>12 DEF CheckFds, At, Local, AfterPoll, MainMayRun
<1>13. CASE EnterPoll
  BY <1>13 DEF EnterPoll, At, Local, MainMayRun
<1>14. CASE SleepReturn
  BY <1>14 DEF SleepReturn, At, Local, AfterPoll, MainMayRun
<1>15. CASE PollReturn
  BY <1>15 DEF PollReturn, At, Local, AfterPoll, MainMayRun
<1>16. CASE InputRefused
  BY <1>16 DEF InputRefused, InCall, Return, NoEvent, InputFailed
<1>17. CASE InputError
  BY <1>17 DEF InputError, InCall, Return, Closed, InputFailed, ClientReset
<1>18. CASE InputConnack
  BY <1>18 DEF InputConnack, InCall, Return
<1>19. CASE InputOther
  BY <1>19 DEF InputOther, InCall, Return, NoEvent, InputDone
<1>20. CASE InputPuback
  BY <1>20 DEF InputPuback, InCall, Return
<1>21. CASE InputPublish
  BY <1>21 DEF InputPublish, InCall, Return, NoEvent
<1>22. CASE MqttPublishQos1Ack
  BY <1>22 DEF MqttPublishQos1Ack, InCall, Return, SendFromMain, NoEvent, Closed, ClientReset
<1>23. CASE on_mqtt_publish
  BY <1>23 DEF on_mqtt_publish, InCall, Return, NoEvent, Closed, device_command_handler, TopicMatches, ClientReset, device_commands
<1>24. CASE CheckHup
  BY <1>24 DEF CheckHup, At, Local, MainMayRun
<1>25. CASE mqtt_event_handler
  <2>1. CASE cb = "connack" /\ on_mqtt_connect
    BY <1>25, <2>1 DEF mqtt_event_handler, on_mqtt_connect
  <2>2. CASE cb = "disconnect" /\ on_mqtt_disconnect
    BY <1>25, <2>2 DEF mqtt_event_handler, on_mqtt_disconnect, LowerFlag
  <2>3. CASE cb = "led_on" /\ SwitchLed
    <3>1. caller = "connect"
      BY <2>3 DEF MainTypes
    <3> QED
      BY <1>25, <2>3, <3>1 DEF mqtt_event_handler, SwitchLed
  <2>4. CASE cb = "led_off" /\ SwitchLed
    BY <1>25, <2>4 DEF mqtt_event_handler, SwitchLed
  <2> QED
    BY <1>25, <2>1, <2>2, <2>3, <2>4 DEF mqtt_event_handler
<1>26. CASE app_mqtt_subscribe
  BY <1>26 DEF app_mqtt_subscribe, InCall, Return, SendFromMain, NoEvent, Closed, ClientReset
<1>27. CASE RunLoop
  BY <1>27 DEF RunLoop, At, Local, MainMayRun
<1>28. CASE MqttLive
  BY <1>28 DEF MqttLive, InCall, Return, NoEvent, SendFromMain, Closed, ClientReset
<1>29. CASE MqttDisconnect
  BY <1>29 DEF MqttDisconnect, InCall, Return, NoEvent, Closed, ClientReset
<1>30. CASE MainLock
  BY <1>30 DEF MainLock
<1>31. CASE WqStart
  BY <1>31 DEF WqStart, FirstStep
<1>32. CASE get_mqtt_payload
  BY <1>32 DEF get_mqtt_payload
<1>33. CASE WqLock
  BY <1>33 DEF WqLock
<1>34. CASE app_mqtt_publish
  BY <1>34 DEF app_mqtt_publish, ClientReset, LowerFlag, NextId, Rearm
<1>35. CASE net_event_handler
  BY <1>35 DEF net_event_handler, Registered
<1>36. CASE SocketDies
  BY <1>36 DEF SocketDies
<1>37. CASE Returned
  BY <1>37 DEF Returned, vars
<1>38. CASE UNCHANGED vars
  BY <1>38 DEF vars
<1> QED
  BY <1>1, <1>2, <1>3, <1>4, <1>5, <1>6, <1>7, <1>8, <1>9, <1>10, <1>11, <1>12, <1>13, <1>14, <1>15, <1>16, <1>17, <1>18, <1>19, <1>20, <1>21, <1>22, <1>23, <1>24, <1>25, <1>26, <1>27, <1>28, <1>29, <1>30, <1>31, <1>32, <1>33, <1>34, <1>35, <1>36, <1>37, <1>38
  DEF Next, Main, MainStep, BootStep, WqStep

\* The flag's strengthening is invariant on boards without a blocking sensor read.
LEMMA FlagInvariant == ~HasSensor /\ Spec => [](TypeOK /\ ControlInv /\ FlagInv)
<1>1. Init => ControlInv /\ FlagInv
  BY DEF Init, ControlInv, CallerInv, EventInv, ClientInv, RunOnly, ConnectOnly, BootPcs,
         Opening, FlagInv, MutexInv, QuietInv, FlagTruthful
<1>2. ControlInv /\ TypeOK /\ [Next]_vars => ControlInv'
  BY ControlStep
<1>3. ~HasSensor /\ ControlInv /\ TypeOK /\ FlagInv /\ [Next]_vars => FlagInv'
  BY QuietStep, FlagTruthStep DEF FlagInv
<1>4. CASE HasSensor
  BY <1>4
<1>5. CASE ~HasSensor
  <2>1. ControlInv /\ TypeOK /\ FlagInv /\ [Next]_vars => FlagInv'
    BY <1>3, <1>5
  <2> QED
    BY <1>1, <1>2, <2>1, TypeCorrect, PTL DEF Spec
<1> QED
  BY <1>4, <1>5

\* FlagTruthful: where the publish handler does not block before it takes the mutex,
\* mqtt_connected is up only while the session is, or its lowering is under way.
THEOREM FlagIsTruthful == ~HasSensor /\ Spec => []FlagTruthful
<1>1. FlagInv => FlagTruthful
  BY DEF FlagInv
<1> QED
  BY <1>1, FlagInvariant, PTL

\* NetLedTracksFlag, on every board: a flag that is up has its LED lit or about to be, and
\* a lit LED without the flag stays inside app_mqtt_connect.
THEOREM LedIsTruthful == Spec => []NetLedTracksFlag
<1>1. Init => ControlInv /\ LedInv
  BY DEF Init, ControlInv, CallerInv, EventInv, ClientInv, RunOnly, ConnectOnly, BootPcs,
         Opening, LedInv, NetLedTracksFlag, LedFollows
<1>2. ControlInv /\ TypeOK /\ [Next]_vars => ControlInv'
  BY ControlStep
<1>3. ControlInv /\ TypeOK /\ LedInv /\ [Next]_vars => LedInv'
  BY LedStep DEF TypeOK
<1>4. LedInv => NetLedTracksFlag
  BY DEF LedInv
<1> QED
  BY <1>1, <1>2, <1>3, <1>4, TypeCorrect, PTL DEF Spec

\* A step that changes neither the client's state nor the flag is a stutter of the session.
LEMMA SessionStep ==
  TypeOK /\ ControlInv /\ FlagInv /\ [Next]_vars => [Session!Next]_(Session!sessionVars)
<1> SUFFICES ASSUME TypeOK, ControlInv, FlagInv, [Next]_vars
             PROVE [Session!Next]_(Session!sessionVars)
  OBVIOUS
<1> USE DEF FlagInv, FlagTruthful, QuietInv, ControlInv, EventInv, ClientInv, BootPcs,
        TypeOK, FlagTypes, MainTypes, SharedTypes, Session!Next, Session!Open,
        Session!Accept, Session!Announce, Session!Drop, Session!Withdraw,
        Session!sessionVars, SessionLink, bootVars, mainVars, wqVars, netFlags, libVars
<1>1. CASE Boot
  BY <1>1 DEF Boot, At, Local, MainMayRun
<1>2. CASE CheckAddress
  BY <1>2 DEF CheckAddress, At, Local, MainMayRun
<1>3. CASE TakeNetConnSem
  BY <1>3 DEF TakeNetConnSem, At, MainMayRun
<1>4. CASE app_mqtt_init
  BY <1>4 DEF app_mqtt_init, At, Local, MainMayRun
<1>5. CASE ConnectStart
  BY <1>5 DEF ConnectStart, At, Local, MainMayRun
<1>6. CASE MqttConnect
  BY <1>6 DEF MqttConnect, InCall, Return, ClientReset
<1>7. CASE AbortCheck
  BY <1>7 DEF AbortCheck, At, Local, MainMayRun
<1>8. CASE MqttAbort
  BY <1>8 DEF MqttAbort, InCall, Return, NoEvent, Closed, ClientReset
<1>9. CASE ConnectLoop
  BY <1>9 DEF ConnectLoop, At, Local, MainMayRun
<1>10. CASE Reschedule
  BY <1>10 DEF Reschedule, At, Local, ArmPublish, MainMayRun
<1>11. CASE prepare_fds
  BY <1>11 DEF prepare_fds, At, Local, MainMayRun
<1>12. CASE CheckFds
  BY <1>12 DEF CheckFds, At, Local, AfterPoll, MainMayRun
<1>13. CASE EnterPoll
  BY <1>13 DEF EnterPoll, At, Local, MainMayRun
<1>14. CASE SleepReturn
  BY <1>14 DEF SleepReturn, At, Local, AfterPoll, MainMayRun
<1>15. CASE PollReturn
  BY <1>15 DEF PollReturn, At, Local, AfterPoll, MainMayRun
<1>16. CASE InputRefused
  BY <1>16 DEF InputRefused, InCall, Return, NoEvent, InputFailed
<1>17. CASE InputError
  BY <1>17 DEF InputError, InCall, Return, Closed, InputFailed, ClientReset
<1>18. CASE InputConnack
  BY <1>18 DEF InputConnack, InCall, Return
<1>19. CASE InputOther
  BY <1>19 DEF InputOther, InCall, Return, NoEvent, InputDone
<1>20. CASE InputPuback
  BY <1>20 DEF InputPuback, InCall, Return
<1>21. CASE InputPublish
  BY <1>21 DEF InputPublish, InCall, Return, NoEvent
<1>22. CASE MqttPublishQos1Ack
  BY <1>22 DEF MqttPublishQos1Ack, InCall, Return, SendFromMain, NoEvent, Closed, ClientReset
<1>23. CASE on_mqtt_publish
  BY <1>23 DEF on_mqtt_publish, InCall, Return, NoEvent, Closed, device_command_handler, TopicMatches, ClientReset, device_commands
<1>24. CASE CheckHup
  BY <1>24 DEF CheckHup, At, Local, MainMayRun
<1>25. CASE mqtt_event_handler
  BY <1>25 DEF mqtt_event_handler, MainMayRun, on_mqtt_connect, on_mqtt_disconnect, LowerFlag, SwitchLed
<1>26. CASE app_mqtt_subscribe
  BY <1>26 DEF app_mqtt_subscribe, InCall, Return, SendFromMain, NoEvent, Closed, ClientReset
<1>27. CASE RunLoop
  BY <1>27 DEF RunLoop, At, Local, MainMayRun
<1>28. CASE MqttLive
  BY <1>28 DEF MqttLive, InCall, Return, NoEvent, SendFromMain, Closed, ClientReset
<1>29. CASE MqttDisconnect
  BY <1>29 DEF MqttDisconnect, InCall, Return, NoEvent, Closed, ClientReset
<1>30. CASE MainLock
  BY <1>30 DEF MainLock
<1>31. CASE WqStart
  BY <1>31 DEF WqStart, FirstStep
<1>32. CASE get_mqtt_payload
  BY <1>32 DEF get_mqtt_payload
<1>33. CASE WqLock
  BY <1>33 DEF WqLock
<1>34. CASE app_mqtt_publish
  BY <1>34 DEF app_mqtt_publish, ClientReset, LowerFlag, NextId, Rearm
<1>35. CASE net_event_handler
  BY <1>35 DEF net_event_handler, Registered
<1>36. CASE SocketDies
  BY <1>36 DEF SocketDies
<1>37. CASE Returned
  BY <1>37 DEF Returned, vars
<1>38. CASE UNCHANGED vars
  BY <1>38 DEF vars
<1> QED
  BY <1>1, <1>2, <1>3, <1>4, <1>5, <1>6, <1>7, <1>8, <1>9, <1>10, <1>11, <1>12, <1>13, <1>14, <1>15, <1>16, <1>17, <1>18, <1>19, <1>20, <1>21, <1>22, <1>23, <1>24, <1>25, <1>26, <1>27, <1>28, <1>29, <1>30, <1>31, <1>32, <1>33, <1>34, <1>35, <1>36, <1>37, <1>38
  DEF Next, Main, MainStep, BootStep, WqStep

\* SessionSpec: on the same boards both threads together implement MqttSession.
THEOREM SessionImplemented == ~HasSensor /\ Spec => SessionSpec
<1>1. Init => Session!Init
  BY DEF Init, Session!Init, SessionLink
<1> QED
  BY <1>1, SessionStep, FlagInvariant, PTL DEF Spec, SessionSpec, Session!Spec

=============================================================================
