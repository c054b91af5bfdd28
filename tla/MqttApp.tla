------------------------------- MODULE MqttApp -------------------------------
(***************************************************************************)
(* networking/ETHERNET/_13_mqtt: the main thread (boot, connect, poll      *)
(* loop), the system work queue thread that publishes every three seconds, *)
(* and the event callbacks that both threads run inside the MQTT library.  *)
(*                                                                         *)
(* A control point of the main thread is named after the call it is about  *)
(* to make.  The library (Zephyr's MQTT client) is external: a call takes  *)
(* its mutex, changes the client's state and, when it raises an event,     *)
(* releases the mutex before the callback runs ("cb" is the event still to *)
(* be delivered).  The work queue thread is cooperative and outranks main: *)
(* main runs only while that thread is idle or blocked.  Time is not       *)
(* modelled; a timeout or a timer may fire at any moment.                  *)
(***************************************************************************)
EXTENDS Naturals

CONSTANTS HasSensor,  \* the board has an ambient-temp0 alias (fixed by the build)
          IdMod,      \* 2^16: the message id of app_mqtt_publish is a uint16_t
          IdByte,     \* 2^8: ids from here on have a non-zero high byte
          PacketIds   \* ids the broker gives its QoS 1 PUBLISH packets

ASSUME MqttAssumption ==
  /\ HasSensor \in BOOLEAN
  /\ IdMod \in Nat /\ IdMod > 1
  /\ IdByte \in Nat \ {0}
  /\ PacketIds \subseteq Nat \ {0}

VARIABLES
  ip, sem,                                  \* address assigned; net_conn_sem
  mainPc, caller, cb, revents, pkt,         \* main thread; fds[0].revents
  wqPc, work, msgId,                        \* work queue thread; mqtt_publish_work
  mqtt_connected, nfds, ledNet, ledUser,    \* shared flags of the application
  lib, alive, leftover, inflight, mutex,    \* library client and its socket
  fresh                                     \* sent since the keepalive was computed

bootVars == <<ip, sem>>
mainVars == <<mainPc, caller, cb, revents, pkt>>
wqVars   == <<wqPc, work, msgId>>
netFlags == <<mqtt_connected, nfds, ledNet>>
libVars  == <<lib, alive, leftover, inflight>>
vars == <<bootVars, mainVars, wqVars, netFlags, ledUser, libVars, mutex, fresh>>

Commands  == {"led_on", "led_off", "other"}
NoPacket  == [id |-> 0, cmd |-> "other"]
Packets   == [id : PacketIds \cup {0}, cmd : Commands]      \* id 0: QoS 0
Unacked   == 0..(IdMod - 1)                                 \* ids of its own QoS 1 packets
Revents   == {{}, {"IN"}, {"ERR"}, {"IN", "ERR"}}    \* ERR: POLLERR, POLLHUP, POLLNVAL

LibCalls == {"mqtt_connect", "input", "ack", "read", "abort", "subscribe",
             "live", "disconnect"}
MainPcs  == LibCalls \cup
            {"boot", "check_ip", "wait_ip", "init", "returned", "connect", "prepare",
             "check", "enter", "poll", "sleep", "abort_check", "connect_loop",
             "reschedule", "loop", "hup"}

Init ==
  /\ ip \in BOOLEAN /\ sem = 0
  /\ mainPc = "boot" /\ caller = "connect" /\ cb = "none"
  /\ revents = {} /\ pkt = NoPacket
  /\ wqPc = "idle" /\ work = "idle" /\ msgId = 1
  /\ mqtt_connected = FALSE /\ nfds = 0 /\ ledNet = FALSE /\ ledUser = FALSE
  /\ lib = "idle" /\ alive = FALSE /\ leftover = FALSE /\ inflight = {}
  /\ mutex = "free" /\ fresh = FALSE

-----------------------------------------------------------------------------
(* Scheduling and the library's building blocks.                           *)

\* A work queue thread that only waits for a free mutex is ready, and runs first.
MainMayRun == ~(wqPc = "lock" /\ mutex # "main")

At(pc)     == mainPc = pc /\ cb = "none" /\ MainMayRun
InCall(pc) == mainPc = pc /\ cb = "none" /\ mutex = "main"

\* A step of main's own code, and the end of a library call main made.
Local(pc)  == /\ mainPc' = pc
              /\ UNCHANGED <<cb, bootVars, wqPc, msgId, ledUser, libVars, mutex>>
Return(pc) == /\ mainPc' = pc
              /\ mutex' = "free"
              /\ UNCHANGED <<caller, revents, bootVars, wqVars, netFlags, fresh>>

\* The client is reset and its socket closed; the clean session forgets what was unacked.
ClientReset == /\ lib' = "idle" /\ alive' = FALSE
               /\ leftover' = FALSE /\ inflight' = {}

NoEvent   == cb' = "none" /\ UNCHANGED libVars
Closed    == cb' = "disconnect" /\ ClientReset
\* A write on a dead socket fails; one on a live socket may.
SendFromMain == \/ lib # "connected" /\ NoEvent
                \/ lib = "connected" /\ alive /\ NoEvent
                \/ lib = "connected" /\ Closed

\* The callbacks: the flag, then the LED, which "cb" keeps for SwitchLed where the callback
\* may be preempted.  clear_fds goes with the flag: only main reads nfds.
on_mqtt_connect == mqtt_connected' = TRUE /\ cb' = "led_on" /\ UNCHANGED <<nfds, ledNet>>
\* Variant: the flag stays up.
LowerFlag_kept     == UNCHANGED mqtt_connected /\ nfds' = 0
LowerFlag          == mqtt_connected' = FALSE /\ nfds' = 0
on_mqtt_disconnect == LowerFlag /\ cb' = "led_off" /\ UNCHANGED ledNet
SwitchLed          == ledNet' = (cb = "led_on") /\ cb' = "none" /\ UNCHANGED <<mqtt_connected, nfds>>

-----------------------------------------------------------------------------
(* Boot.                                                                   *)

\* devices_ready, the interface lookup and the registration of net_event_handler.
Boot ==
  /\ At("boot")
  /\ \E pc \in {"check_ip", "returned"} : Local(pc)
  /\ UNCHANGED <<caller, revents, pkt, work, netFlags, fresh>>

CheckAddress ==
  /\ At("check_ip")
  /\ Local(IF ip THEN "init" ELSE "wait_ip")
  /\ UNCHANGED <<caller, revents, pkt, work, netFlags, fresh>>

TakeNetConnSem ==
  /\ At("wait_ip") /\ sem = 1
  /\ sem' = 0
  /\ mainPc' = "init"
  /\ UNCHANGED <<ip, caller, cb, revents, pkt, wqVars, netFlags, ledUser, libVars,
                 mutex, fresh>>

\* Name resolution or the TLS credentials may fail: main returns for good.
app_mqtt_init ==
  /\ At("init")
  /\ \E pc \in {"connect", "returned"} : Local(pc)
  /\ UNCHANGED <<caller, revents, pkt, work, netFlags, fresh>>

\* Variant: the callback is initialised but not added.
Registered_never == FALSE
Registered       == mainPc # "boot"

\* NET_EVENT_IPV4_ADDR_ADD; before registration nobody hears it.
net_event_handler ==
  /\ ~ip
  /\ ip' = TRUE
  /\ sem' = IF Registered THEN 1 ELSE sem
  /\ UNCHANGED <<mainVars, wqVars, netFlags, ledUser, libVars, mutex, fresh>>

-----------------------------------------------------------------------------
(* app_mqtt_connect.                                                       *)

ConnectStart ==
  /\ At("connect")
  /\ mqtt_connected' = FALSE
  /\ caller' = "connect"
  /\ Local("mqtt_connect")
  /\ UNCHANGED <<revents, pkt, work, nfds, ledNet, fresh>>

\* On failure main sleeps MSECS_WAIT_RECONNECT and tries again.
MqttConnect ==
  /\ InCall("mqtt_connect")
  /\ cb' = "none"
  /\ \/ /\ Return("prepare")
        /\ lib' = "tcp" /\ alive' = TRUE /\ inflight' = {}
        /\ UNCHANGED leftover
     \/ /\ Return("mqtt_connect")
        /\ ClientReset
  /\ UNCHANGED <<pkt, ledUser>>

\* Variant: the attempt is not aborted.
AbortCheck_skipped ==
  /\ At("abort_check")
  /\ Local("connect_loop")
  /\ UNCHANGED <<caller, revents, pkt, work, netFlags, fresh>>

AbortCheck ==
  /\ At("abort_check")
  /\ Local(IF mqtt_connected THEN "connect_loop" ELSE "abort")
  /\ UNCHANGED <<caller, revents, pkt, work, netFlags, fresh>>

MqttAbort ==
  /\ InCall("abort")
  /\ IF lib = "idle" THEN NoEvent ELSE Closed
  /\ Return("connect_loop")
  /\ UNCHANGED <<pkt, ledUser>>

\* Variant: the loop is not repeated when the session is gone again.
ConnectLoop_once ==
  /\ At("connect_loop")
  /\ Local("reschedule")
  /\ UNCHANGED <<caller, revents, pkt, work, netFlags, fresh>>

ConnectLoop ==
  /\ At("connect_loop")
  /\ Local(IF mqtt_connected THEN "reschedule" ELSE "mqtt_connect")
  /\ UNCHANGED <<caller, revents, pkt, work, netFlags, fresh>>

\* Variant: the first publish is left to an item that may have cancelled itself.
ArmPublish_missing == UNCHANGED work
ArmPublish         == work' = "scheduled"

Reschedule ==
  /\ At("reschedule")
  /\ ArmPublish
  /\ caller' = "run"
  /\ Local("subscribe")
  /\ UNCHANGED <<revents, pkt, netFlags, fresh>>

-----------------------------------------------------------------------------
(* poll_mqtt_socket, shared by app_mqtt_connect and app_mqtt_process.      *)

\* app_mqtt_process evaluates mqtt_keepalive_time_left first.
prepare_fds ==
  /\ At("prepare")
  /\ nfds' = 1
  /\ fresh' = (fresh /\ caller = "connect")
  /\ Local("check")
  /\ UNCHANGED <<caller, revents, pkt, work, mqtt_connected, ledNet>>

\* Where the result of poll_mqtt_socket leads; a failure keeps the old revents.
AfterPoll(result, ev) ==
  CASE caller = "connect" -> IF result = "ready" THEN "input" ELSE "abort_check"
    [] caller = "run" /\ result = "timeout" -> "live"
    [] OTHER -> IF "IN" \in ev THEN "input" ELSE "loop"

CheckFds ==
  /\ At("check")
  /\ Local(IF nfds = 0 THEN AfterPoll("error", revents) ELSE "enter")
  /\ UNCHANGED <<caller, revents, pkt, work, netFlags, fresh>>

\* poll reads nfds again: the work queue thread may have cleared it since the check.
EnterPoll ==
  /\ At("enter")
  /\ Local(IF nfds = 0 THEN "sleep" ELSE "poll")
  /\ UNCHANGED <<caller, revents, pkt, work, netFlags, fresh>>

\* A poll without descriptors only times out.
SleepReturn ==
  /\ At("sleep")
  /\ Local(AfterPoll("timeout", revents))
  /\ UNCHANGED <<caller, revents, pkt, work, netFlags, fresh>>

PollReturn ==
  /\ At("poll")
  /\ \/ /\ revents' = {}
        /\ Local(AfterPoll("timeout", {}))
     \/ \E ev \in Revents \ {{}} :
          /\ "ERR" \in ev => ~alive
          /\ revents' = ev
          /\ Local(AfterPoll("ready", ev))
     \/ /\ UNCHANGED revents
        /\ Local(AfterPoll("error", revents))
  /\ UNCHANGED <<caller, pkt, work, netFlags, fresh>>

-----------------------------------------------------------------------------
(* mqtt_input and the callbacks it raises.                                 *)

InputFailed == IF caller = "connect" THEN "abort_check" ELSE "disconnect"
InputDone   == IF caller = "connect" THEN "abort_check" ELSE "hup"

\* -ENOTCONN without a connection, -EBUSY while a payload is still unread.
InputRefused ==
  /\ InCall("input")
  /\ lib = "idle" \/ leftover
  /\ NoEvent
  /\ Return(InputFailed)
  /\ UNCHANGED <<pkt, ledUser>>

\* A read error, the peer's close, or a CONNACK that refuses the connection.
InputError ==
  /\ InCall("input")
  /\ lib # "idle" /\ ~leftover
  /\ Closed
  /\ Return(InputFailed)
  /\ UNCHANGED <<pkt, ledUser>>

InputConnack ==
  /\ InCall("input")
  /\ lib = "tcp" /\ ~leftover
  /\ lib' = "connected" /\ cb' = "connack"
  /\ Return("abort_check")
  /\ UNCHANGED <<pkt, ledUser, alive, leftover, inflight>>

\* An incomplete packet, or one that only prints: SUBACK, PINGRESP.
InputOther ==
  /\ InCall("input")
  /\ lib # "idle" /\ ~leftover
  /\ NoEvent
  /\ Return(InputDone)
  /\ UNCHANGED <<pkt, ledUser>>

InputPuback ==
  /\ InCall("input")
  /\ lib = "connected" /\ ~leftover
  /\ \E m \in inflight : inflight' = inflight \ {m}
  /\ cb' = "none"
  /\ Return("hup")
  /\ UNCHANGED <<pkt, ledUser, lib, alive, leftover>>

InputPublish ==
  /\ InCall("input")
  /\ lib = "connected" /\ ~leftover
  /\ pkt' \in Packets
  /\ NoEvent
  /\ Return(IF pkt'.id = 0 THEN "read" ELSE "ack")
  /\ UNCHANGED ledUser

MqttPublishQos1Ack ==
  /\ InCall("ack")
  /\ SendFromMain
  /\ Return("read")
  /\ UNCHANGED <<pkt, ledUser>>

\* device_command_handler: the command table, and no effect for an unknown command.
device_commands == [c \in {"led_on", "led_off"} |-> c = "led_on"]
device_command_handler(cmd) ==
  ledUser' = IF cmd \in DOMAIN device_commands THEN device_commands[cmd] ELSE ledUser

\* strcmp runs past the topic, which is not terminated: after it in rx_buffer stands the
\* high byte of the packet id, or for QoS 0 whatever byte was there before.
TopicMatches(p) == IF p.id = 0 THEN BOOLEAN ELSE {p.id \div IdByte = 0}

\* mqtt_read_publish_payload does not wait: it may return -EAGAIN or a part of the
\* payload, and the rest stays unread.  After a lost connection it returns 0.
on_mqtt_publish ==
  /\ InCall("read")
  /\ Return("hup")
  /\ pkt' = NoPacket
  /\ \/ /\ lib # "connected"
        /\ NoEvent
        /\ UNCHANGED ledUser
     \/ /\ lib = "connected"
        /\ NoEvent
        /\ \E match \in TopicMatches(pkt) :
             IF match THEN device_command_handler(pkt.cmd) ELSE UNCHANGED ledUser
     \/ /\ lib = "connected"
        /\ leftover' = TRUE
        /\ cb' = "none"
        /\ UNCHANGED <<lib, alive, inflight, ledUser>>
     \/ /\ lib = "connected"
        /\ Closed
        /\ UNCHANGED ledUser

CheckHup ==
  /\ At("hup")
  /\ Local(IF "ERR" \in revents THEN "disconnect" ELSE "loop")
  /\ UNCHANGED <<caller, revents, pkt, work, netFlags, fresh>>

\* The event callback that main runs, with the mutex released.  The work queue thread may
\* run a disconnect callback of its own between the two steps of main's.
mqtt_event_handler ==
  /\ MainMayRun
  /\ \/ cb = "connack" /\ on_mqtt_connect
     \/ cb = "disconnect" /\ on_mqtt_disconnect
     \/ cb \in {"led_on", "led_off"} /\ SwitchLed
  /\ UNCHANGED <<mainPc, caller, revents, pkt, bootVars, wqVars, ledUser, libVars,
                 mutex, fresh>>

-----------------------------------------------------------------------------
(* app_mqtt_run.                                                           *)

app_mqtt_subscribe ==
  /\ InCall("subscribe")
  /\ SendFromMain
  /\ Return("loop")
  /\ UNCHANGED <<pkt, ledUser>>

RunLoop ==
  /\ At("loop")
  /\ Local(IF mqtt_connected THEN "prepare" ELSE "disconnect")
  /\ UNCHANGED <<caller, revents, pkt, work, netFlags, fresh>>

\* -EAGAIN when a publish moved the keepalive deadline during the poll, otherwise a ping.
MqttLive ==
  /\ InCall("live")
  /\ \/ /\ lib # "connected" \/ fresh
        /\ NoEvent
        /\ Return("disconnect")
     \/ /\ lib = "connected" /\ ~fresh
        /\ SendFromMain
        /\ Return(IF cb' = "none" THEN "loop" ELSE "disconnect")
  /\ UNCHANGED <<pkt, ledUser>>

MqttDisconnect ==
  /\ InCall("disconnect")
  /\ IF lib = "connected" THEN Closed ELSE NoEvent
  /\ Return("connect")
  /\ UNCHANGED <<pkt, ledUser>>

\* Any library call starts by taking the client's mutex.
MainLock ==
  /\ mainPc \in LibCalls /\ cb = "none"
  /\ mutex = "free" /\ wqPc # "lock"
  /\ mutex' = "main"
  /\ UNCHANGED <<mainVars, bootVars, wqVars, netFlags, ledUser, libVars, fresh>>

-----------------------------------------------------------------------------
(* The work queue thread: publish_work_handler.                            *)

\* Variant: the handler blocks in a sensor read on every board.
FirstStep_alwaysBlocks == "sample"
FirstStep              == IF HasSensor THEN "sample" ELSE "lock"

\* Without a connection the item cancels itself; it is already off the queue.
WqStart ==
  /\ wqPc = "idle" /\ work = "scheduled"
  /\ work' = "idle"
  /\ wqPc' = IF mqtt_connected THEN FirstStep ELSE "idle"
  /\ UNCHANGED <<msgId, bootVars, mainVars, netFlags, ledUser, libVars, mutex,
                 fresh>>

\* What the sensor read returns is not modelled: the payload is sent whether it failed or not.
get_mqtt_payload ==
  /\ wqPc = "sample"
  /\ wqPc' = "lock"
  /\ UNCHANGED <<work, msgId, bootVars, mainVars, netFlags, ledUser, libVars, mutex,
                 fresh>>

WqLock ==
  /\ wqPc = "lock" /\ mutex = "free"
  /\ mutex' = "wq"
  /\ wqPc' = "send"
  /\ UNCHANGED <<work, msgId, bootVars, mainVars, netFlags, ledUser, libVars,
                 fresh>>

\* msg_id++ on a uint16_t; variant: a counter that does not wrap.
NextId_unbounded(id) == id + 1
NextId(id)           == (id + 1) % IdMod

\* The handler rearms itself whatever mqtt_publish returned; variant: only on success.
Rearm_onSuccess(sent) == IF sent THEN "scheduled" ELSE work
Rearm(sent)           == "scheduled"

\* mqtt_publish: -ENOTCONN, -EINVAL for id 0, sent, or a write error that closes the
\* connection and runs the disconnect callback, which main cannot preempt.
app_mqtt_publish ==
  /\ wqPc = "send"
  /\ wqPc' = "idle"
  /\ msgId' = NextId(msgId)
  /\ mutex' = "free"
  /\ \/ /\ lib # "connected" \/ msgId = 0
        /\ work' = Rearm(FALSE)
        /\ UNCHANGED <<libVars, netFlags, fresh>>
     \/ /\ lib = "connected" /\ msgId # 0 /\ alive
        /\ inflight' = inflight \cup {msgId}
        /\ fresh' = TRUE
        /\ work' = Rearm(TRUE)
        /\ UNCHANGED <<lib, alive, leftover, netFlags>>
     \/ /\ lib = "connected" /\ msgId # 0
        /\ ClientReset
        /\ LowerFlag /\ ledNet' = FALSE
        /\ work' = Rearm(FALSE)
        /\ UNCHANGED fresh
  /\ UNCHANGED <<bootVars, mainVars, ledUser>>

-----------------------------------------------------------------------------
(* The network, and the system.                                            *)

SocketDies ==
  /\ alive
  /\ alive' = FALSE
  /\ UNCHANGED <<bootVars, mainVars, wqVars, netFlags, ledUser, lib, leftover, inflight,
                 mutex, fresh>>

BootStep == Boot \/ CheckAddress \/ TakeNetConnSem \/ app_mqtt_init
MainStep ==
  \/ BootStep
  \/ ConnectStart \/ MqttConnect \/ AbortCheck \/ MqttAbort \/ ConnectLoop \/ Reschedule
  \/ prepare_fds \/ CheckFds \/ EnterPoll \/ SleepReturn \/ PollReturn
  \/ InputRefused \/ InputError \/ InputConnack \/ InputOther \/ InputPuback
  \/ InputPublish \/ MqttPublishQos1Ack \/ on_mqtt_publish \/ CheckHup
  \/ mqtt_event_handler
  \/ app_mqtt_subscribe \/ RunLoop \/ MqttLive \/ MqttDisconnect
Main     == MainStep \/ MainLock
WqStep   == WqStart \/ get_mqtt_payload \/ WqLock \/ app_mqtt_publish
Returned == mainPc = "returned" /\ UNCHANGED vars

Next == Main \/ WqStep \/ net_event_handler \/ SocketDies \/ Returned

\* The work item sleeps three seconds between two runs and k_mutex hands the mutex to the
\* thread that waits, so main, which is preempted again and again, is not starved; timers
\* fire, and polls, sends and sensor reads end.
Fairness == SF_vars(Main) /\ WF_vars(WqStep)
Spec == Init /\ [][Next]_vars /\ Fairness
-----------------------------------------------------------------------------
(* Properties.                                                             *)

\* Type correctness of every variable of the two threads, the library and the socket.
FlagTypes ==
  /\ ip \in BOOLEAN /\ alive \in BOOLEAN /\ leftover \in BOOLEAN /\ fresh \in BOOLEAN
  /\ mqtt_connected \in BOOLEAN /\ ledNet \in BOOLEAN /\ ledUser \in BOOLEAN
MainTypes ==
  /\ mainPc \in MainPcs /\ caller \in {"connect", "run"}
  /\ cb \in {"none", "connack", "disconnect", "led_on", "led_off"}
  /\ revents \in Revents /\ pkt \in Packets /\ sem \in 0..1 /\ nfds \in 0..1
SharedTypes ==
  /\ wqPc \in {"idle", "sample", "lock", "send"} /\ work \in {"idle", "scheduled"}
  /\ msgId \in 0..(IdMod - 1)
  /\ lib \in {"idle", "tcp", "connected"} /\ inflight \subseteq Unacked
  /\ mutex \in {"free", "main", "wq"}
TypeOK == FlagTypes /\ MainTypes /\ SharedTypes

\* While main serves a connection (from its k_work_reschedule on) and the flag is up, the
\* publish item is on the timer or being handled: the handler's check of the flag and its
\* cancel never undo the reschedule main made for a newer connection.
PublishArmed ==
  caller = "run" /\ mqtt_connected => work = "scheduled" \/ wqPc # "idle"

\* mqtt_connect overwrites the client's socket: it is only called once the previous
\* socket was closed, whichever thread lost the previous connection.
SocketNotLeaked == mainPc = "mqtt_connect" => lib = "idle"

\* "MQTT connectivity status flag" (mqtt_client.c:42): it is up only while the session
\* is up, or while the callback that lowers it is about to run.
FlagTruthful == mqtt_connected => lib = "connected" \/ cb = "disconnect"

\* The network LED and the flag, set by two threads in two steps: while main serves a
\* connection a lit LED means that the flag is up.  Only inside app_mqtt_connect may the LED
\* be lit without it, when main goes on after a publish has ended the session in between.
LedFollows == caller = "run" /\ ledNet => mqtt_connected \/ cb = "led_off"
NetLedTracksFlag == LedFollows /\ (mqtt_connected => ledNet \/ cb = "led_on")

\* The two threads together keep the session protocol: opened only from the closed state
\* and after the previous end was announced, announced only while up.
SessionLink ==
  CASE lib = "idle" -> "down" [] lib = "tcp" -> "opening" [] lib = "connected" -> "up"
Session == INSTANCE MqttSession WITH link <- SessionLink, announced <- mqtt_connected
SessionSpec == Session!Spec

\* A connection whose socket died is closed, although app_mqtt_process ignores POLLERR
\* and POLLHUP without POLLIN: then a failing publish is what ends it.
DeadSocketClosed == (lib = "connected" /\ ~alive) ~> (lib = "idle")

\* Whenever there is no connection the main thread gets back to mqtt_connect.
BootPcs == {"boot", "check_ip", "wait_ip", "init", "returned"}
Reconnects == (lib = "idle" /\ mainPc \notin BootPcs) ~> (mainPc = "mqtt_connect")

\* main never waits for an address that is there already: between its look at the interface and
\* its wait the event gives the semaphore.
AddressHeard == mainPc = "wait_ip" /\ ip => sem = 1

\* An address assigned before, while or after main looks for one gets main out of its wait.
AddressNoticed == ip ~> mainPc \notin {"boot", "check_ip", "wait_ip"}

\* README:20, "Publishes sensor data every 3 seconds": while main serves a connection the
\* handler comes round to mqtt_publish again and again.
KeepsPublishing == (caller = "run" /\ mqtt_connected) ~> (wqPc = "send" \/ ~mqtt_connected)

\* README:84, "QoS 1 - At Least Once: Waits for PUBACK": a published message is given up
\* only because its PUBACK arrived, that is on a connection that is still up.
UnackedKept == [][inflight \subseteq inflight' \/ lib' = "connected"]_vars

\* README:21, "Receives and executes commands": a QoS 1 command whose payload was
\* read completely is executed.
ReadCommandExecuted ==
  [][(mainPc = "read" /\ mainPc' = "hup" /\ lib' = "connected" /\ ~leftover' /\ pkt.id # 0)
       => (pkt.cmd \in DOMAIN device_commands => ledUser' = device_commands[pkt.cmd])]_vars
=============================================================================
