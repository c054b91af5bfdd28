# Verification of the Zephyr samples

The repository is a collection of small, separate Zephyr programs. Each is one `main.c` (the
MQTT sample has three C files) built on Zephyr's kernel, drivers and libraries. This
directory models the ones that have concurrent actors, failure paths or a protocol to keep,
checks them with TLC and proves their most important properties with TLAPS.

## Inventory

| Part (under `src/`) | State it keeps | Operations and actors | What is hard | What makes it correct |
|---|---|---|---|---|
| `networking/ETHERNET/_13_mqtt` | `mqtt_connected`, `fds`/`nfds`, `net_conn_sem`, `mqtt_publish_work`, `msg_id`, the library's client and its socket, two LEDs | main thread (boot, connect, poll), system work queue (publish every 3 s), event callbacks on both | both threads lose the session, callbacks run outside the library's mutex, reconnects, timeouts, failed sends | flag truthful and followed by the LED, no leaked socket, publishing never stops, always reconnects |
| `networking/ETHERNET/_06` | listening and client socket, `recv_buffer` | server loop, address event, clients | failing calls, partial sends, stale bytes in the buffer, clients that vanish | sockets balanced, echo in order, next client served |
| `networking/ETHERNET/_05`, `_07`, `_08` | one socket | TCP client, UDP sender and receiver, address event | any call fails, the static socket variable outlives its descriptor | socket closed once, address announced |
| `networking/ETHERNET/_09`, `_10` | socket, `network_connected` semaphore | request loop, library callback, network event | event before the wait, timeouts, late answers | answer belongs to its request, no endless wait |
| `networking/ETHERNET/_12` | credentials, the response | handlers called chunk by chunk for several clients | interleaved requests, aborted ones | a complete echo is the whole body |
| `networking/ETHERNET/_01` - `_04` | link state, address | polling main, PHY callback on the driver's thread and on main, DHCP client, event handler | fast changes of the link, two callbacks at once | settles on the truth |
| `hal_drivers/UART/_03`, `_04` | `tx_count`, `tx_done` | main, transmit interrupt | main reloads what the interrupt counts down | whole messages, no stall |
| `hal_drivers/UART/_05`, `_06` | `rx_buf`, `rx_count`, `rx_flag` | main polling, receive interrupt | several bytes per interrupt, flag polled | lines complete, each noticed |
| `hal_drivers/UART/_07` | `tx_sem` | main, DMA callback | semaphore from the callback | no stall, no refused transfer |
| `hal_drivers/UART/_08` | two DMA buffers, message queue | main, DMA callback | partial buffers, buffer switch, full queue | bytes once, in order |
| `hal_drivers/UART/_09` | pool of three net buffers, FIFO, `ref_buff` | main, DMA callback | chain of transfers, exhausted pool | no failed allocation, order |
| `kernel/EVENTS` | event object | setter and waiter threads | set or post, any or all, who clears | nothing received twice, always served again |
| `kernel/MQUEUES` | message queue | one or two senders or an interrupt, a receiver | full queue, results not looked at | each message once and in order |
| `kernel/QUEUES` | queue, pool or heap of nodes | sender and receiver | a node is linked through itself | never linked twice, nor changed while queued |
| `kernel/WQUEUES` | work item, a number beside it | main or an interrupt, handler | resubmission, delay, one place for the number | each submission handled with its own number |
| `kernel/TIMERS` | timers, counters | expiry and stop callbacks, polling main | poll against expiry, a timer stopped by another | each expiry counted once |
| `kernel/ZBUS` | channels, observers' queues | publisher, listeners, subscribers | a subscriber reads later than it is told | what each kind of observer sees |
| `middleware/SMF` | state, event or queue | main and timer | order of exit and entry, lost events | follows its inputs |
| `middleware/LEDS/_04` | brightness, direction | main | a byte that turns only at exactly 0 and 100 | turns at both ends |
| other `middleware/LEDS`, `INPUTS`, `SHELL`, `hal_drivers/GPIOS`, UART `_01`, `_02`, `kernel/THREADS`, `utils` | little or none | straight-line loops and callbacks that print | - | - |

The samples do not call each other. Inside a sample the actors meet in shared variables, in
kernel objects (semaphores, queues, work items) and in callbacks from an interrupt or a
library. `PROJECT.json` lists every component, and every hazard at its line.

## Modules

| Module | What it is |
|---|---|
| `MqttSession` | abstract: one broker session that is opened, accepted, announced, dropped, withdrawn |
| `MqttApp`, `MCMqtt`, `MqttProofs` | the MQTT sample: main, the work queue thread, the callbacks, the library's client; its instances; its theorems |
| `SocketTable`, `StaticAddress` | what the networking samples share: the descriptors, and the interface's address with its event |
| `TcpServer`, `TcpClient`, `UdpSamples`, `EthernetLink` | `_06`; `_05`; `_07` and `_08`; `_01` - `_04` |
| `HttpClient`, `HttpServer` | `_09` and, with `Tls`, `_10`; `_12` |
| `MCSockets`, `SocketProofs`, `HttpProofs` | extends the six networking modules; theorems about all of them, each by itself and as `MCSockets` runs them |
| `UartIrqTx`, `UartDmaTx`, `UartNetBufTx` | `_03` and `_04` (constant `Sync`); `_07`; `_09` |
| `UartIrqRx`, `UartDmaRx` | `_05` and `_06`, whose code is the same; `_08` |
| `MCUart`, `UartTxProofs`, `UartProofs` | extends the five UART modules; theorems about the two transmitters that need most, then about the receivers, the DMA sender and all five together |
| `Delivery` | abstract: numbered messages of several sources, taken once and in order; implemented by the three modules of the next row and by `UartDmaRx` |
| `MsgQueues`, `WorkItems`, `Zbus` | the samples of message queues, work queues and Zbus, each with its mapping to `Delivery` |
| `Events`, `NodeQueues`, `Timers` | the samples of events, of queue/FIFO/LIFO and of timers |
| `StateMachine`, `LedFade` | the state machine framework; the fading LED |
| `MCKernel`, `KernelProofs`, `NodeQueuesProofs`, `DeliveryProofs` | extends the eight modules above; theorems about all of them, each by itself and as `MCKernel` runs them |

A family's MC module extends modules that model separate programs, whose names are therefore
distinct: `program` (or `sample`) picks the one that runs. A module of several samples has a
variable of its own for that, and `main_wq03` is `main` of `kernel/WQUEUES/_03`.

An operator whose name ends in `_` and a lower-case word (`AbortCheck_skipped`) is a variant
of the definition that follows it with one plausible mistake in it. No specification uses
it; putting it in the place of the definition must break the property it is listed with in
`PROJECT.json`, which shows that the property depends on that code.

### MqttApp

A control point of main (`mainPc`) is named after the call it is about to make; `caller`
says whether `poll_mqtt_socket` and `mqtt_input` were called from `app_mqtt_connect` or from
`app_mqtt_process`. The work queue thread (`wqPc`) starts `publish_work_handler` when the
item (`work`) expires, may block in the sensor read, waits for the client's mutex, and
sends. Each library call is three steps: take the mutex, do the work and release it, run the
event callback (`cb`) if there is one. Zephyr's client really releases its mutex around the
callback, so the other thread can get in between; this is where the hard interleavings are.
On main the callback is two steps, the flag and then the LED (`led_on`, `led_off`), because
`mqtt_client.c:106` and `:107` are two statements and the other thread may run between them. A
failed send on the work queue thread runs the whole disconnect callback in the same step,
since that thread is cooperative and its callback does not block.

The work queue thread outranks main and is not preempted by it, so main moves only while the
other is idle or blocked (`MainMayRun`). `HasSensor` is a constant because the build decides
it: with an `ambient-temp0` alias the handler blocks in the sensor read between its look at
the flag and the mutex, and without it does not block before the mutex.

Time is abstract: any timeout and any timer may expire at any moment, so the intervals of
3 s or 100 ms are not assumed. `fresh` records that a publish went out after the keepalive
was computed, on which the result of `mqtt_live` depends. The address is only ever assigned
(`ip`), as the code never looks at its removal. Packets other than those a QoS 1 client
meets (PUBREC, PUBREL, PUBCOMP) are left out, and so is what a payload contains.

`strcmp` on the received topic is modelled by what it does: the library hands out a pointer
into `rx_buffer` without a terminator, behind it stands the high byte of the packet id
(`TopicMatches`), or, for QoS 0, whatever the buffer held before.

### Networking

`SocketTable` hands descriptors out lowest first, as the library does, so a descriptor that
was closed is soon another socket: this is what makes a stale number dangerous. Every call on
a descriptor that is not open is remembered in `misused`; no guard reads it. `Create`
may fail for want of a descriptor or of memory. `MaxFds` stands for what other users of the
table leave.

`StaticAddress` is the address of the interface and `NET_EVENT_IPV4_ADDR_ADD`: the stack
drops an event nobody has registered for, and calls the handler for the others in the thread
of `net_mgmt`, so main goes on meanwhile. Handlers that look at the address again (`_03` -
`_06`) and those that print without looking (`_07`, `_08`) differ. Adding an address that is
there already raises no event.

In `EthernetLink` the PHY driver watches the link from boot on and calls the callback of
`_02` and `_03` once it is set, in a cooperative thread. `phy_link_callback_set` calls it too,
on main, one call of the callback's body at a time (`TestState`, `PrintState`, `AssignState`):
main reads the state, and the driver may report another one before main has printed it or,
in `_03`, acted on it. `overtaken` remembers that the driver's last report came there, and no guard
reads it.

In every program each call that can fail has a failing branch, taken as the code takes it.
`TcpServer` keeps `recv_buffer` between the receptions with what stands in it: the code
terminates what it received and nothing clears the rest. The clients number their bytes
(`byte`, `first`), which is how `EchoedInOrder` tells one client's bytes from another's. They
come, send, close or break off at any time. `HttpClient` keeps the requests the server has
still to answer on the connection (`asked`), so that an answer can come after the timeout.
`HttpServer` models the handlers and how the library calls them: chunk by chunk, with the
clients interleaved, and with `ABORTED` at any time. Libraries, clients, servers, the cable
and the DHCP server are external.

### UART

An interrupt or a callback preempts main between two of main's statements and is not preempted
by main. In the transmitters it is one action. In the receivers it is a loop over the bytes
received, and the loop is one action per byte: the hardware goes on beside it, while main
stands still (`InHandler`, `InLoop`). Hardware (FIFO, DMA, line) is external and modelled from
how the code uses the driver. In `UartIrqTx` a message is the sequence of its byte positions;
`TxSleepOver` assumes for `_03`, as that sample's comment does, that a message is out within the
second, and assumes nothing for `_04`. In `UartNetBufTx` and `UartDmaTx` the transfers have no
timeout and nobody aborts them, so `UART_TX_ABORTED` does not occur. `UartIrqRx` and
`UartDmaRx` carry observers (`line`, `unseen`; `last`), which no guard reads. A FIFO read takes up to
`rx_len` bytes wherever in `rx_buf` it starts, as the code has it. With a FIFO of more than one
byte it may write behind the buffer, onto `rx_count`, `rx_len` and `rx_flag`: `overrun` records
that, and the model stops there, since what follows depends on the memory layout.

### Kernel objects

Much of what these samples do right they do by priorities, so the models have the scheduling
the priorities give and no more. In `MsgQueues` a sender waits while a receiver of higher
priority has something to do (`SenderWaits`); the interrupt of `_05` waits for nobody.
In `Events` and `Zbus` main has a higher priority than the threads that read, which run only
while it sleeps (`MainAsleep`, `TaskRuns`); in `WorkItems` the system work queue outranks
main and the queue of `_05` does not (`MainGoes`). In `NodeQueues` both threads have the same
priority and no time slices, so a thread runs until it sleeps: `ready` and `asleep` are the
lists of the scheduler. Both sleep one second, so the first to sleep is the first to wake.

Time is abstract here too, except where a sample rests on one time being longer than another:
main's 2000 ms are not over before the delay of 500 ms of `WorkItems` (`SleepOver`). In
`Timers` a timer that runs may expire at any moment; counters are kept modulo `Wrap` = 6,
which is enough to tell five expiries from four and six. The only counter the code reads is
that of `_02`, which ends at five.

A message is its source and its number. The code of a queue sample sends the one or the
other; with both, `Delivery` can say that nothing is lost, doubled or overtaken. In
`WorkItems` the number beside the item is real in `_02` and `_04` and an observer in the
other samples. `due` in `StateMachine` counts the changes of state the inputs ask for, modulo
6, and is read by no guard. In `LedFade` the brightness is a byte (`% 256`).

## Runs

| Run | Bounds | What it shows |
|---|---|---|
| `mqtt_dummy` | no sensor; ids wrap at 3; two packet ids, one with a zero high byte | flag truthful, the LED follows it outside the connect loop, `MqttSession` implemented, reconnects, address heard and noticed |
| `mqtt_sensor` | blocking sensor read; one packet id (the command path plays no part here) | publish stays armed, no socket leak, dead sockets closed, publishing goes on |
| `mqtt_flag` | sensor | violated: the flag is raised for a session that is gone |
| `mqtt_qos1` | sensor | violated: an unacknowledged message is forgotten |
| `mqtt_command` | sensor | violated: a command depends on its packet id |
| `sockets` | 3 descriptors; server buffer of 4 and 6 bytes sent; client buffer of 3 and answers up to 4; 3 packets; datagram buffer of 3 and datagrams up to 4; 2 HTTP clients, 2 chunks before the last | sockets balanced, echo in order and whole, answers match, who waits has an event to come, link settles unless the driver overtook main, events noticed, next client served |
| `link_address` | none | violated: with the cable out the interface keeps its address |
| `uart` | message of 5 bytes over a FIFO of 2, three buffers, lines in 3 bytes, receive FIFO of 1, DMA buffers of 3, queue of 2, 7 received bytes | whole messages, order, no failed allocation, complete lines, flagged until they are printed, nothing twice, who waits is woken, no stall |
| `uart_rx_irq` | the same, receive FIFO of 2 | violated: a carriage return is overlooked |
| `uart_rx_dma` | as `uart` | violated: new bytes are not stored |
| `kernel` | 2 senders, queues, pool and heap of 5 as in the code, 7 messages, publications or submissions, fade step of 2 | delivery, no event or node twice, expiries counted, machine follows, everybody served again |
| `zbus_subscriber` | as `kernel` | violated: the subscriber reads a message again |

The bounds are enough for the cases that matter. In the MQTT instances there is one client,
one socket and one work item, as in the code; three message ids reach the wrap to 0, which
`mqtt_publish` refuses, and the packet ids of the code matter only through their high byte.
In the UART instance a message needs several interrupts and ends in a partly filled FIFO; a
line reaches the end of its buffer; seven bytes fill the first DMA buffer twice and go over
to the second, with every way to report a part of them; a queue of two gets full.

No program of the `sockets` run needs more than two descriptors, so three leave one that is
free and the table can still run out after a leak. The server can receive 3 bytes at once;
6 bytes are a long message, a short one that leaves stale bytes behind it, and a part for the
next client. An answer and a datagram can be longer than the buffer that takes them. Two
clients of the HTTP server are enough for any interleaving of two handlers' calls, since a
handler looks at one request.

In the `kernel` run seven messages overflow a queue of five, and the pool of five is filled
more than once, because `NodeQueues` has no bound on time. `MaxData`, `MaxMinor`,
`MaxSubmits`, `MaxBytes`, `MaxAnswer`, `MaxDatagram` and `MaxChunks` are the only bounds that
are not in the code. `MsgQueues`, `Zbus`, `WorkItems`, `TcpServer` and `UartDmaRx` stop doing
what their bound counts when it is reached.

`sockets`, `kernel` and `zbus_subscriber` do not check for deadlock: main of most networking
samples returns or sleeps for ever, the one-shot timers and a failed LED end their program,
and `MsgQueues`, `Zbus` and `WorkItems` come to the end of their bounds. That the programs
which should go on do go on is what the liveness properties say.

### Fairness

`MqttApp`: weak fairness of the work queue thread, which the scheduler runs when it is
ready, and strong fairness of main. Main needs the strong form because the other thread
takes the mutex again and again; the work item sleeps three seconds between two runs, so
main does get its turn, and `k_mutex` hands the mutex to the waiting thread. Fairness of
main as a whole never forces a particular outcome of a call: a peer may refuse for ever.
`DeadSocketClosed`, `Reconnects`, `KeepsPublishing` and `AddressNoticed` are phrased so that
they hold under all outcomes.

Networking: weak fairness of the thread of `net_mgmt` everywhere, since it runs what is
queued for it. The main threads of `TcpServer`, `EthernetLink` and `HttpClient` are fair, and
`RequestFails` is fair by itself, because the request has a timeout of three seconds. The TCP
client and the UDP samples may wait for their peers for ever and have no fairness of main.
The PHY driver's polling is fair; the cable, the clients and the DHCP server need not do
anything. `HttpServer` has only safety properties and no fairness.

UART: weak fairness of main, of the interrupt and of the transmitter. Main of `UartIrqRx` has
the strong form: it stands still while the handler runs, which ends, and gets on between two
interrupts. `UartDmaRx` has only safety properties and no fairness.

Kernel: weak fairness of main and its sleeps. The consumers of `Events` and the observers of
`Zbus` have strong fairness: they run only while main sleeps, which it does again and again,
and its sleeps are seconds long where a step of theirs takes no time. In `NodeQueues` the
processor runs a thread that can run and sleeps end. Every running timer expires. `MsgQueues`,
`WorkItems` and `LedFade` have only safety properties and no fairness.

The MC modules state the fairness of the program that runs; the others do not move.

## Proofs

| Theorem | For every | Argument |
|---|---|---|
| `TypeCorrect` | board, id width, set of packet ids | types, one lemma per group of variables |
| `AddressIsHeard` | the same | inductive |
| `PublishStaysArmed`, `NoSocketLeak` | the same | `ControlInv` |
| `LedIsTruthful` | the same | `ControlInv` and `LedInv` |
| `SessionIsProbed` | the same | `ControlInv`, `PublishArmed` and `SessionFlagged` |
| `FlagIsTruthful`, `SessionImplemented` | the same with `~HasSensor` | `ControlInv` and `FlagInv` |
| `SrvTypeCorrect`, `ServerBalanced`, `EchoInOrder` | table and buffer size, number of bytes | `SocketInv`, `BufferInv`, `EchoInv` |
| `TcpClientBalanced`, `UdpSocketBalanced` | table size, number of packets | `CliInv`, `UdpInv` |
| `LinkIsShown` | each of the four samples | `LinkRead` |
| `AnswerMatches`, `ClientBalanced`, `NetworkHeard` | table size, with and without TLS | `HttpInv`, `NetWaitInv` |
| `EchoIsWhole` | set of clients, number of chunks | `ChunksEchoed(c)` of each client |
| `SocketTypesCorrect`, `AllBalanced`, `WaitersAreWoken`, `SocketsHold` | networking sample and all its constants | `SamplesInv` |
| `AllocationsSucceed`, `SentInOrder`, `ChainEnds` | pool of three buffers or more | `Held` |
| `WholeMessagesSent`, `DoneIsGiven` | message length of two or more, FIFO depth, `Sync` | `Chain` and `Handshake` |
| `DmaNeverRefused` | - | `DtxInv` |
| `LinesComplete`, `LinesFlagged` | size of the line buffer, bytes, with a FIFO of one | `LineInv` |
| `TakenInOrder` | size of the DMA buffers and of the queue, number of bytes | `Filled` and `Ascending`; a refinement |
| `UartTypesCorrect`, `SendersAreWoken`, `UartHolds` | UART sample and all its constants | `UartInv` |
| `NoPostTwice` | each of the four samples | `EventsKnown` |
| `NoEventOverlooked` | the same | inductive |
| `QueueDelivers` | depth of the queue, set of senders, number of messages | `Ordered` and `Complete` |
| `NodesLinkedOnce` | size of the pool or heap | `TurnInv` |
| `ItemsDelivered` | number of submissions | `WqInv` |
| `ObserversServed` | number of publications, depth of a subscriber's queue | `ListenerInv`, `QueuesInv`, `ReaderInv` |
| `MachineFollows` | depth of the queue | `SmInv` |
| `EveryExpiryCounted` | each of the seven samples | `TiControl` |
| `LedFadesBothWays` | step that divides 100 | `OnStep(n)` |
| `KernelTypesCorrect`, `KernelHolds` | kernel sample and all its constants | `KernelInv` |

Every safety property that a passing run checks is stated by a theorem, under the very
specification that the run checks. Of them only `AddressHeard` and the types of single modules
are inductive; the others need the invariants named above.

**One sample runs.** The MC modules choose a program and leave the variables of the others
alone. `SamplesInv`, `UartInv` and `KernelInv` are the conjunctions of the samples' own
invariants; a step of the family is a step of one sample and a stutter for each other
(`OneUartRuns`, `OneRuns`), so that the samples' lemmas carry over. `_10` and `_03` are
instances with another constant. For `_03` the lemmas of `UartTxProofs` are instantiated as well
(`DelayProofs`, with `Sync` FALSE); `_10` differs from `_09` in one step (`HttpsSteps`). The
networking samples share the table and the address, so there an invariant of a sample also says
what the sample leaves of them while another one runs.

**No lost wakeup.** `AddressHeard`, `EventsPending` and `SendersWoken` say that whoever waits has
somebody at work who will wake it, or the wakeup waits already; `LineFlagged` says the same of a
flag that is polled. They are the part of `AddressNoticed`, `EventsNotMissed`, `KeepsSending` and
`LineNoticed` that a wrong order of two actors would break, and it is proved for every value of
the constants. The fairness that is left is that the one at work goes on.

Three liveness properties have such a part that no run checks by itself. `SessionProbed`: while
main serves a session, a publish is scheduled or under way, so that a connection that died
without an event is written to (`DeadSocketClosed`). `LinkShown`: when main of `_02` and `_03` sleeps, the
link reported last is shown and the address goes with it, unless that report came inside main's
callback; then the address follows what main had read (`LinkSettles`). `EventsAwaited`: a
consumer waits only while nothing it waits for is set (`KeepsReceiving`).

`MqttProofs`: `ControlInv` ties main's control point to
the caller, to the pending event and to the client's state (a client in the middle of
connecting belongs to main, before the connect loop is left). A session is known to the flag
or its CONNACK event is still to run, which it does before main is in `app_mqtt_process`
(`SessionFlagged`). `FlagInv` adds what the boards
without a blocking sensor read guarantee: from the moment main connects until the CONNACK is
announced the handler is idle, because it saw the flag down. That is the fact which fails
with a sensor, and `mqtt_flag` shows how. `LedInv` needs no such fact: main leaves the
connect loop only with the flag up and the LED switched, and from there a disconnect lowers
both, whichever thread runs it. `SessionImplemented` maps the client's three
states to `link` and the flag to `announced`, and shows every step to be a step of
`MqttSession` or a stutter.

`SocketProofs`: `SocketInv` says that the two sockets are open descriptors and distinct,
so that closing the one leaves the other. `BufferInv` says that between `recv` and `send` the
first `received` places of the buffer hold the bytes received last; `EchoInv` that what was
echoed before lies below them. A partial send then only leaves a gap. While the TCP client or a
UDP sample has a socket, that socket is a descriptor and the only open one, and none is open
otherwise (`CliInv`, `UdpInv`); `PacketsNumbered` bounds the packet a UDP sample is at by its
control point. `LinkRead` says what main knows of the link while it goes through the
callback: what the driver reported last, if that was not meanwhile. `AddressPending` needs that each program registers its handler before it can
assign an address (`LinkHears` for those that watch the link).

`HttpProofs`: on a connection at most one request is under way and it is the present one
(`AskedInv`), because each request has a connection of its own. Main waits for the network
only with its handler registered, so the event that follows cable and address is not
dropped (`NetWaitInv`). The answer of `/echo` is at any time what has arrived, for each client by
itself.

`UartTxProofs`: `Held(lo, hi)` says that exactly the messages lo..hi occupy buffers,
each the one `tx_buf` names. Main extends it upwards, the callback shrinks it from below,
and the semaphore is given when it is empty. Of three distinct buffers one is then free for
each allocation. `Chain` says that the wire, the FIFO and the rest of the
message follow each other byte by byte, `Handshake` that main reloads the counter only
between two messages.

`UartProofs`: with a FIFO of one byte the loop index is 0 whenever a byte is looked at, so
`rx_count` is the length of the observer's `line` and the bytes of the line stand below it
(`LineInv`), and no read passes its end (`~overrun`). With a deeper FIFO both are false, the first
being the finding `uart_rx_irq`; the theorems say so in their hypothesis `RxFifo = 1`. What
`UartTypesCorrect` says for every depth is that counters, lengths and semaphores keep to their
limits up to such a read. For the DMA receiver `Filled` says that the places of
the active buffer that the DMA has filled carry the last `pos` numbers in order; everything
queued is below the place the loop has come to (`Reached`), and the queue ascends from what main
took last (`Ascending`). What main takes is therefore newer than what it took before and was
received (`TakesReceived`), which makes each step a step of `Delivery` (`DmaDelivers`). That some bytes are never looked at (`uart_rx_dma`) breaks no order.
`DtxInv`: semaphore, transfer and main between `take` and `send` exclude each other.

`KernelProofs`: what is set and not cleared in `_03` and `_04` has not been received, except
between the print and the clearing (`EventsKnown`). The machine is one change behind `due`
while it is being run (`SmInv`, with `SmRest` for the types of queue and timer). A polled timer
has one expiry more than were counted exactly
between its expiry and the poll (`ExpiriesCounted` with `TiControl`). The brightness is a whole
number of steps of which some number leads to 100 (`OnStep`).

`NodeQueuesProofs`: the sender never links a node it linked before, because the two threads
take turns: whichever of the lists they are in, their order is the same (`TurnInv`), so
between two turns of the sender the receiver has emptied the queue. The nodes in the queue are
different members of the pool, so there are at most as many as it has (`NqTypeInv`).

`DeliveryProofs` shows that three modules do what `Delivery` says (a fourth, `UartDmaRx`, is in
`UartProofs`). `MsgQueues`: the queue holds
each sender's messages in order (`Ordered`) and, where the receiver goes first or the sender
looks for room, all that were sent and not received (`Complete`). `WorkItems`: outside `_05`
main submits an item only while it is idle, so that at most one submission is not handled
(`WqInv`). `Zbus`: a listener is one publication behind only between the publication and its
call (`ListenerInv`); the queues of asynchronous listeners and message subscribers hold exactly the
numbers these have not seen, in order (`QueuesInv`); and what a subscriber reads from the
channel is never older than what it read before (`ReaderInv`).

The proofs assume what the modules assume of their constants and nothing else:
`MqttAssumption`, `MaxFdsAssumption`, `TcpServerAssumption`, `TcpClientAssumption`,
`UdpAssumption`, `HttpServerAssumption`,
`NetBufTxAssumption`, `IrqTxAssumption`, `IrqRxAssumption`, `DmaRxAssumption`,
`MsgQueuesAssumption`, `PoolSizeAssumption`,
`MaxSubmitsAssumption`, `ZbusAssumption`, `MachineDepthAssumption` and `FadeAssumption`, which
TLC evaluates in the runs. `RECV_BUF_SIZE` has to be two at least: with one, `recv` has no
room, returns 0, and each client is dropped.

Only model-checked are the liveness properties (`Reconnects`, `AddressNoticed`,
`DeadSocketClosed`, `KeepsPublishing`, `KeepsSending`, `LineNoticed`, `LinkSettles`,
`EventsNotMissed`, `ServesNextClient`, `KeepsReceiving`), since liveness under fairness and
ENABLED are beyond the prover. Of `KeepsSending` the conjunct that no transfer of `_07` is refused
is a safety property and is proved (`DmaNeverRefused`).

No module uses RECURSIVE operators.

## Disagreements found

1. `mqtt_flag`: on a board with a sensor, the publish handler passes its test of
   `mqtt_connected` and blocks in the sensor read while main loses the connection and opens
   a new one. The handler then sends on the new connection before main has run
   `on_mqtt_connect`; if that send fails, its disconnect callback comes first and
   `on_mqtt_connect` afterwards raises the flag for a session that is gone.
2. `mqtt_qos1`: the README of the sample promises that QoS 1 waits for PUBACK; nothing does,
   and a message is lost with its connection.
3. `mqtt_command`: the topic is compared with `strcmp` although it has no terminator.
4. `link_address`: `ETHERNET/_03` runs its PHY callback on main when it registers it. If the
   driver reports the cable out between main's test of the state and its assignment, the
   address is added after it was removed and stays, until the link goes up and down again.
5. `uart_rx_irq`: the loop index and `rx_count` both advance, so with a FIFO every second
   byte escapes the look for `'\r'`.
6. `uart_rx_dma`: `rx.len` is the number of new bytes, the loop takes it for their end.
7. `zbus_subscriber`: the thread of `ZBUS/_04` never calls `zbus_sub_wait`; it reads what the
   channel holds, again and again, while its queue fills up.

Met but without a run:
- After a failed `get_mqtt_payload`, `app_mqtt_publish` (`mqtt_client.c:326`) publishes the
  uninitialised struct.
- In `app_mqtt_connect` the "Network status LED" (`device.h:18`) can be lit without a connection:
  a publish left over from the previous session fails between lines 106 and 107 of
  `mqtt_client.c`. It stays lit until the next connection.
- `UART/_05` says "avoid buffer overflow" at line 88, but the read of `rx_len` bytes at line 76
  has passed the end of the buffer by then if the FIFO held more than the room left.
- The first buffer request of UART `_08` is answered with the buffer in use, and its comment
  says a full queue overwrites old data where `k_msgq_put` drops the new.
- `EVENTS/_03` says at lines 53 and 54 that both events are known to be received. Main posts
  them one after the other, and a consumer that waits already gets the first one alone.
- `TIMERS/_02` says "five times more" and starts its timer again four times; it and others
  print `count++`, so that the first expiry is number 0.
- `GPIOS/_06` writes "the first 5 bits" with the mask `0x0F`, which has four.
- `ETHERNET/_11` defines `device_info_resource_detail` at lines 110 and 150 and does not
  compile.

## Not modelled

- HTTP server `_11`, which is no program (see above); its handlers are those of `_12`.
- The samples that keep no state from one step to the next or share none: threads that print
  and sleep, inputs and GPIO callbacks that print, shell commands, pin writes, the other LED
  samples, the UART samples that configure and poll, random numbers and floating point.
- Memory layout (the terminator behind a payload of exactly 128 bytes, what a write behind
  `rx_buf` leads to, main printing a line the interrupt is writing), wording and formats, JSON, TLS and
  its certificates, the Python tools.
- Signed or unsigned overflow of counters that run for years (`minor`, `data`, `count`).
- What libraries do inside: MQTT, HTTP, sockets, drivers and kernel objects are modelled as
  the code uses them and marked external.

## Plan

Done: MQTT with its abstract session; the networking samples; UART `_03` - `_09`; the kernel's
objects with `Delivery`; the state machine framework; the fading LED.

Left to prove: the safety cores of `ServesNextClient` and of the other conjuncts of
`KeepsReceiving`, and `_10` by instantiating the lemmas of `HttpProofs`, as `DelayProofs` does for
UART `_03`, in the place of `HttpsSteps`.
