------------------------------- MODULE Zbus -------------------------------
(***************************************************************************)
(* kernel/ZBUS: main publishes numbered messages on a channel, in _07 on   *)
(* two, and sleeps for two seconds; observers see them.  _02 and _08 have  *)
(* a listener, _03 an asynchronous listener, _04 a subscriber, _05 a       *)
(* message subscriber, _06 the last two kinds together, _07 one subscriber *)
(* of both channels.  One of them runs.                                    *)
(***************************************************************************)
EXTENDS Naturals, Sequences

CONSTANTS SubscriberSize,    \* ZBUS_SUBSCRIBER_DEFINE(subscriber_listener, 5)
          MaxMinor           \* bound: messages on each channel

ASSUME ZbusAssumption == SubscriberSize \in Nat \ {0} /\ MaxMinor \in Nat

VARIABLES
  zbProgram,
  zbMainPc,
  minor,        \* the number main gave its last message on each channel
  channel,      \* the message in each channel
  pending,      \* messages for the asynchronous listener, on the system work queue
  fifo,         \* messages for the message subscriber
  refs,         \* the queue of the subscriber: the channels that have changed
  taskPc,       \* the thread that reads
  chan,         \* the channel it reads
  seen          \* the last message of each channel each kind of observer has printed

zbVars == <<zbProgram, zbMainPc, minor, channel, pending, fifo, refs, taskPc, chan, seen>>

ZbPrograms == {"_02", "_03", "_04", "_05", "_06", "_07", "_08"}
Channels   == {"channel_1", "channel_2"}
Observers  == {"listener", "async", "task"} \X Channels

ZbInit ==
  /\ zbProgram \in ZbPrograms
  /\ zbMainPc = "channel_1" /\ taskPc = "wait" /\ chan = "channel_1"
  /\ minor = [c \in Channels |-> 0] /\ channel = [c \in Channels |-> 0]
  /\ pending = <<>> /\ fifo = <<>> /\ refs = <<>>
  /\ seen = [o \in Observers |-> 0]

Sees(o, n) == seen' = [seen EXCEPT ![o] = n]

\* The callback runs on the system work queue, which has a higher priority than main; the
\* threads that read have a lower one.
MainGoesOn == pending = <<>>
TaskRuns   == MainGoesOn /\ zbMainPc = "sleep"

\* What publishing leaves for the observers of the program.  A full queue of a subscriber
\* refuses the channel, and nobody looks at the result.
Notify(c, m) ==
  /\ pending' = IF zbProgram \in {"_03", "_06"} THEN Append(pending, m) ELSE pending
  /\ fifo' = IF zbProgram \in {"_05", "_06"} THEN Append(fifo, m) ELSE fifo
  /\ refs' = IF zbProgram \in {"_04", "_07"} /\ Len(refs) < SubscriberSize
             THEN Append(refs, c) ELSE refs

\* zbus_chan_pub with K_NO_WAIT: while a thread that was interrupted in zbus_chan_read holds
\* the channel, the message is lost.
zbus_chan_pub(c, m) ==
  IF taskPc = "locked" /\ chan = c
  THEN UNCHANGED <<channel, pending, fifo, refs>>
  ELSE channel' = [channel EXCEPT ![c] = m] /\ Notify(c, m)

PublishOn(c, to) ==
  /\ MainGoesOn /\ zbMainPc = c /\ minor[c] < MaxMinor
  /\ minor' = [minor EXCEPT ![c] = @ + 1]
  /\ zbus_chan_pub(c, minor[c] + 1)
  /\ zbMainPc' = to
  /\ UNCHANGED <<zbProgram, taskPc, chan, seen>>

WakeZb ==
  /\ MainGoesOn /\ zbMainPc = "sleep" /\ minor["channel_1"] < MaxMinor
  /\ zbMainPc' = "channel_1"
  /\ UNCHANGED <<zbProgram, minor, channel, pending, fifo, refs, taskPc, chan, seen>>

\* A listener is called in the thread of the publisher, before zbus_chan_pub returns.
ListenerCallback ==
  /\ zbMainPc = "listener"
  /\ Sees(<<"listener", "channel_1">>, channel["channel_1"])
  /\ zbMainPc' = "sleep"
  /\ UNCHANGED <<zbProgram, minor, channel, pending, fifo, refs, taskPc, chan>>

main_zb02 == zbProgram = "_02" /\ (PublishOn("channel_1", "listener") \/ WakeZb)
main_zb03 == zbProgram = "_03" /\ (PublishOn("channel_1", "sleep") \/ WakeZb)
main_zb04 == zbProgram = "_04" /\ (PublishOn("channel_1", "sleep") \/ WakeZb)
main_zb05 == zbProgram = "_05" /\ (PublishOn("channel_1", "sleep") \/ WakeZb)
main_zb06 == zbProgram = "_06" /\ (PublishOn("channel_1", "sleep") \/ WakeZb)
main_zb07 ==
  zbProgram = "_07" /\ (PublishOn("channel_1", "channel_2") \/ PublishOn("channel_2", "sleep") \/ WakeZb)
main_zb08 == zbProgram = "_08" /\ (PublishOn("channel_1", "listener") \/ WakeZb)

listener_callback_02 == zbProgram = "_02" /\ ListenerCallback
listener_callback_08 == zbProgram = "_08" /\ ListenerCallback

AsyncCallback ==
  /\ pending # <<>>
  /\ Sees(<<"async", "channel_1">>, Head(pending))
  /\ pending' = Tail(pending)
  /\ UNCHANGED <<zbProgram, zbMainPc, minor, channel, fifo, refs, taskPc, chan>>

async_listener_callback_03 == zbProgram = "_03" /\ AsyncCallback
async_listener_callback_06 == zbProgram = "_06" /\ AsyncCallback
-----------------------------------------------------------------------------
(* The threads that read *)

\* The message a message subscriber is given is the one that was published, first come first.
\* Variant: it reads what the channel holds by then, as the subscriber of _04 does.
zbus_sub_wait_msg_read == channel["channel_1"]
zbus_sub_wait_msg      == Head(fifo)

TakeMessage ==
  /\ TaskRuns /\ fifo # <<>>
  /\ Sees(<<"task", "channel_1">>, zbus_sub_wait_msg)
  /\ fifo' = Tail(fifo)
  /\ UNCHANGED <<zbProgram, zbMainPc, minor, channel, pending, refs, taskPc, chan>>

msg_subscriber_task_05 == zbProgram = "_05" /\ TakeMessage
msg_subscriber_task_06 == zbProgram = "_06" /\ TakeMessage

TaskMoves(from, to) == TaskRuns /\ taskPc = from /\ taskPc' = to

\* zbus_chan_read holds the channel while it copies the message there is.
LockChannel ==
  /\ TaskMoves("read", "locked")
  /\ UNCHANGED <<zbProgram, zbMainPc, minor, channel, pending, fifo, refs, chan, seen>>
CopyMessage ==
  /\ TaskMoves("locked", "wait")
  /\ Sees(<<"task", chan>>, channel[chan])
  /\ UNCHANGED <<zbProgram, zbMainPc, minor, channel, pending, fifo, refs, chan>>

\* _04 does not wait for its queue, from which nothing is ever taken.
subscriber_task_04 ==
  /\ zbProgram = "_04"
  /\ \/ /\ TaskMoves("wait", "read")
        /\ UNCHANGED <<zbProgram, zbMainPc, minor, channel, pending, fifo, refs, chan, seen>>
     \/ LockChannel \/ CopyMessage

\* zbus_sub_wait tells which channel has changed.
zbus_sub_wait ==
  /\ TaskMoves("wait", "read")
  /\ refs # <<>>
  /\ chan' = Head(refs) /\ refs' = Tail(refs)
  /\ UNCHANGED <<zbProgram, zbMainPc, minor, channel, pending, fifo, seen>>

subscriber_task_07 == zbProgram = "_07" /\ (zbus_sub_wait \/ LockChannel \/ CopyMessage)

ZbMain == main_zb02 \/ main_zb03 \/ main_zb04 \/ main_zb05 \/ main_zb06 \/ main_zb07 \/ main_zb08
ZbObservers ==
  \/ listener_callback_02 \/ listener_callback_08
  \/ async_listener_callback_03 \/ async_listener_callback_06
  \/ msg_subscriber_task_05 \/ msg_subscriber_task_06
  \/ subscriber_task_04 \/ subscriber_task_07
ZbNext == ZbMain \/ ZbObservers

\* main's sleeps end, and are long enough for the threads to get on.
ZbFairness == WF_zbVars(ZbMain) /\ SF_zbVars(ZbObservers)
ZbSpec == ZbInit /\ [][ZbNext]_zbVars /\ ZbFairness
-----------------------------------------------------------------------------
\* Type correctness.
ZbTypeOK ==
  /\ zbProgram \in ZbPrograms /\ zbMainPc \in Channels \cup {"listener", "sleep"}
  /\ minor \in [Channels -> 0..MaxMinor] /\ channel \in [Channels -> 0..MaxMinor]
  /\ pending \in Seq(1..MaxMinor) /\ fifo \in Seq(1..MaxMinor)
  /\ refs \in Seq(Channels) /\ Len(refs) <= SubscriberSize
  /\ taskPc \in {"wait", "read", "locked"} /\ chan \in Channels
  /\ seen \in [Observers -> 0..MaxMinor]

\* Each observer is given every message of its channel once and in order; a subscriber, which
\* reads what the channel holds by then, may skip messages but never goes back.
Messages == INSTANCE Delivery WITH
              Sources <- Observers, sent <- [o \in Observers |-> minor[o[2]]], taken <- seen,
              lossy <- {o \in Observers : o[1] = "task" /\ zbProgram \in {"_04", "_07"}}
ObserversSee == Messages!Spec

\* The comment of _04 says that its thread reads "like if it was send in a message queue":
\* what it reads is a message it has not read before.
ReadOnce ==
  [][zbProgram = "_04" /\ taskPc = "locked" /\ taskPc' = "wait" =>
       seen' # seen]_zbVars

\* What has been published reaches the message subscriber in the end.
MessagesReceived == zbProgram \in {"_05", "_06"} => []<>(fifo = <<>>)
=============================================================================
