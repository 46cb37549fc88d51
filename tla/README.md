# Verification of the wind-turbine monitor (`fan_project`)

The repository holds two programs that do the same job on two boards: poll three
Modbus slaves over a half-duplex RS-485 line and upload their registers over TCP.

* **ARM gateway** (`src/arm部分程序/fengji_v0.5`): a Linux process with POSIX threads.
* **STM32 firmware** (`src/tcp_客户端ucosii+lwip+modbus好用`): uC/OS-II tasks and
  interrupt handlers, lwIP 1.4.1 with a port of its own, an ENC28J60 over SPI.

Below, `arm/` and `stm/` stand for these two directories.

## 1. Inventory

### ARM gateway

| Part | State | Operations | Talks to |
|---|---|---|---|
| start-up (`fengji.c`) | the mutex `mut`, thread ids | `main`, `start_thread_func` | creates spi, modbus, tcp |
| Modbus (`modbus_demo.c`, `modbus_private.c`, `gpio.c`) | `msg`, `nread`, `tmp`, `msg_length`, `modbus_data_change`, `dataBuf`, the direction pin | `read_port`, `com_send`, `proc_data`, `modbus_rtu_check_integrity`, `rtu_data_anlys` | three threads over shared globals; the slaves |
| TCP (`tcp_client.c`) | `sockfd` | `tcp_client_thread` | reads `dataBuf` under `mut`; the server |
| SPI heartbeat (`spi_heart.c`) | – | `spi_heart_thread`, `transfer`, `pabort` | can end the process |

Hard here: `mut` is initialised twice, by `main` and by `modbus_rtu_thread`,
while the tcp thread already uses it; `msg_length` and `modbus_data_change` are
stored outside the lock; a message is completed by a second read after the lock
was given up; answers come cut, late or not at all; the network fails with the
lock held. Correct means: uploads are never half-copied, a slave's segment holds
only that slave's data, no announced answer is forgotten, every path unlocks,
and the upload goes on after any network failure.

### STM32 firmware

| Part | State | Operations | Talks to |
|---|---|---|---|
| Modbus master (`HARDWARE/MASTER/master.c`, `modbus_task` in `USER/main.c`) | `slaveraddr` (0 at first, `main.c:82`), `value`, `tcp_client_sendbuf` | `modbus_rtu`, `rtu_read_hldreg`, `rtu_data_anlys` | USART2's buffers, in a critical section |
| USART2 (`SYSTEM/usart/usart.c`) | `receBuf`, `receCount`, `sendBuf`, `sendCount`, `sendPosi`, PA1 | `beginSend`, `USART2_IRQHandler` | the line |
| memory pool (`MALLOC/malloc.c`) | `memmap`, `memrdy` | `mymalloc`, `myfree` (no lock) | `sys_mbox_new`, `low_level_output`, `low_level_input` (in an interrupt) |
| kernel (uC/OS-II, `UCOSII/CORE`) | `OSRdyTbl`, `OSTCBPrioTbl`, task and event control blocks, delays, nesting | mailboxes, queues, semaphores, delays, suspension, deletion, tick, `OS_Sched` | every task and interrupt handler |
| lwIP port (`LWIP/arch/sys_arch.c`) | mailboxes on OS queues, semaphores | `sys_mbox_*`, `sys_arch_*` | kernel, pool |
| lwIP timeouts (`core/timers.c`) | `next_timeout` | `sys_timeout`, `sys_timeouts_mbox_fetch` | `sys_arch_mbox_fetch` |
| lwIP TCP (`core/tcp*.c`) | control blocks: queues, windows, timers | `tcp_connect`, `tcp_write`, `tcp_recved`, `tcp_close`, `tcp_input`, `tcp_output`, `tcp_slowtmr`, `tcp_fasttmr` | the netconn's callbacks; the network |
| netconn API (`api/api_lib.c`, `api_msg.c`, `tcpip.c`) | a `netconn`, its `recvmbox`, `op_completed` | `netconn_*` in the client, `do_*` and the callbacks in the tcpip thread | kernel, TCP |
| TCP client (`lwip_app/tcp_client_demo`) | `tcp_clientconn`, `tcp_client_sendbuf` | `tcp_client_thread` | `mybox`, netconn API, the tasks that write the buffer |
| ENC28J60 (`HARDWARE/ENC28J60`, `netif/ethernetif.c`) | chip registers and ring, `NextPacketPtr`, EXTI latch | send and receive of a packet, EXTI handler | pool, tcpip mailbox |
| start-up and small tasks (`USER/main.c`, `lwip_comm.c`) | the tasks, watchdog, `mybox` | `main`, `start_task`, `led_task`, `adc_task`, `iwdg_task` | everything |
| drivers, vendor libraries, rest of lwIP | third-party | – | – |

Hard here: parsing whatever is in `receBuf` every 100 ms, new or old; late
answers that meet the next command; interrupts masked longer than a byte; an
allocator without any lock called from two threads and an interrupt; tick
arithmetic modulo 2^32; a list of time differences cut short by messages; a post
between a timeout and the run of the task that timed out; a client's call that a
callback, a timer, a reset and a failed allocation may all want to answer;
queues, pool blocks and connections that a failed call must give back; an
edge-triggered interrupt of a chip that works on while it is handled; and TCP:
lost, doubled and overtaken packets, zero windows, and a block that is given back
inside its own input.

Correct means: no item is lost or doubled between tasks and the highest ready
task runs; each call is answered exactly once; what was opened is given back;
the peer gets the stream whole; no packet waits for the next one to be seen;
interrupts never stay off; and nothing that was started waits for ever.

`PROJECT.json` lists every component with what is and is not modelled, and under
`hazards` every place we found hard to test, with the properties that cover it.

## 2. Modules

| Module | What it models |
|---|---|
| `ArmGateway` | the whole ARM process: seven threads, the mutex, the line, the upload |
| `ArmGatewayProofs` | its theorems |
| `SampleStore` | abstract: one sample per slave, only ever replaced by a later one |
| `ModbusMaster` | `modbus_task`, `USART2_IRQHandler`, the USART, the line, the slaves; implements `SampleStore` |
| `ModbusMasterProofs` | its theorems |
| `Malloc` | the pool under nested preemption |
| `MallocProofs` | its theorems |
| `SysTimers` | lwIP's timeout list over `sys_arch_mbox_fetch` and its tick arithmetic |
| `SysTimersProofs` | its theorems |
| `MsgChannel` | abstract: what each call on an event does with items, and with the tasks that ask for them |
| `OsKernel` | uC/OS-II's scheduling, mailboxes, queues, semaphores, delays, interrupts; implements `MsgChannel` |
| `OsKernelProofs` | its theorems |
| `Uplink` | the STM32's TCP client, the netconn API, the tcpip thread's callbacks, the tasks that share its buffer |
| `UplinkProofs` | its theorems |
| `Enc28j60` | the Ethernet chip, its interrupt handler and the sending thread |
| `Enc28j60Proofs` | its theorems |
| `TcpSegments` | segments and queues of segments: cutting, merging, in-order insertion |
| `TcpPcb` | the calls of TCP on one control block, as operators |
| `TcpConnection` | a connection: control block, netconn, peer, a network that disturbs packets |
| `TcpConnectionProofs` | its theorems |
| `MC*` | the instances TLC checks |

The layers meet at interfaces rather than in one state space: `Uplink` sees TCP
as events of its callbacks (`TcpConnection` says which can come), the kernel as
blocking calls (`OsKernel`), and `SampleStore`'s samples as what the tasks write;
`SysTimers` is what drives the slow and fast timer of `TcpConnection`.

**ArmGateway.** One action per atomic step of a thread; the names of the control
points are in `PointsOf`. A step ends at every lock, unlock, read, write or store
that another thread can see. `main` and `modbus` create threads (`StartThread`,
whose failure ends the process as `start_thread_func` does) and write an unlocked
mutex (`MutexInit`) - at both places where the code does. `com_read` is
`Select, Lock, ReadFirst, Classify`, then for a short message
`Lock, ReadSecond, UnlockSecond`, then `StoreLength` and `StoreFlag` without the
lock. These two stores race with `proc_data`, which is undefined in C, so with
`WeakStores` they become visible in either order; the history variable `early`
remembers that the flag did so first. `com_send` turns the
transceiver round with `WriteCommand` and `TurnAround`; `LineDelivers` puts bytes
of an answer, a chunk at a time, into the port's buffer or loses them.
`proc_data` copies first and last byte of a segment separately, which is enough
to see a torn copy. `tcp` reconnects as the code does. A byte is the pair of the
command it answers and its position; only the byte count (index 2), which the
code compares before any check, has a value, and where that position holds some
other byte the value is chosen freely. The CRC is right only for one whole
answer: collisions are not modelled. `tainted` is a history variable: `mut` was
initialised again while some thread was inside.

**ModbusMaster.** `modbus_rtu` runs with interrupts off and is one action.
`slaveraddr` has no initialiser (`main.c:82`), so it starts at 0 and the first run
takes the last branch (`master.c:190`): the commands go to slaves 3, 1, 2, 3, 1, ...
(`Polled`). The
handler is two actions, receive before transmit as in the code, one per
interrupt. `Served` says a byte (260 us) is longer than the handler; `Mask` is
another task's long critical section (`ENC28J60_Packet_Send` masks them for the
time of a packet) and suspends that. The slaves may answer at any time after the
whole command was heard, also when the next command is already out. Frame
lengths are parameters; the run uses 7 and 6 byte answers where the code has 21
and 11, and a receive limit one larger than the longer answer (the code: 25
against 21). `Rest` only stops the run at its bound.

**Malloc.** One action per round of the two loops of `malloc.c`, three nested
contexts (client thread, tcpip thread, Ethernet interrupt). A context interrupts
those below it at any step and runs until it is idle, except that the client
keeps mailbox blocks.

**SysTimers.** The list is the code's list of differences; arithmetic is modulo
`M` (2^32 in the code). `Boot` lists the timers `sys_timeouts_init` arms, in its
order, each through `sys_timeout`. A timer's handler may re-arm itself; the tcp timer is
re-armed while there is a connection and armed by a message. Ticks pass while the
thread waits; the thread has the highest priority, and its own run is shorter
than a tick.

**OsKernel.** A critical section is one step, as it is on the board. What a call
still does after it is in `at`: call `OS_Sched` ("sched"), block, and finish the
pend once awake ("wake"); an interrupt, a tick and any other task may come
between, which is where the code is delicate. Tasks call every service at any
time, interrupts only those an interrupt may call. The test of an event's type is
outside the critical section in the code; it is atomic with it here, which
matters only against a concurrent deletion of the event. `OSSchedLock` nests one
level. `OSTaskChangePrio` has two oddities (section 3, remarks): a history variable
`stray` says that the first has happened, and the model ends where the second
leaves the kernel (`Astray`). The history variable `served` holds the last call
that posts, takes, asks, returns, or makes, flushes, sets or removes something,
with what it was given or gave; no action reads it, but each such call turns its
bit, so that two calls in a row are never taken for none.

`MsgChannel` says call by call what may happen: an item posted goes to the end its
service names, or to a task (a broadcast: to every task) that asks at this event,
and is refused only when nobody asks and there is no room; the item taken is the
first and is what the call returns; a pend that blocks found nothing; a task comes
back with what it was handed, or with nothing; a queue is emptied only by a flush
or a removal. No other step may change the items, what is handed to a task, who
asks, or the room: an item that is swallowed, doubled, put at the wrong end or taken
by a call that does not return it is a step `MsgChannel` does not have.

**Uplink.** Priorities make the steps atomic (tcpip thread 5, `adc_task` 6,
`modbus_task` 7, client 8, `led_task` 10): a netconn call and its handler are one
step, unless the handler leaves the call waiting; then packets, timers, resets
and `poll_tcp` go on until one of them answers it. An upload is four cells, two
samples of two bytes, so that a copy in two parts may be torn. The tcpip thread
makes the copy and nothing preempts it; `adc_task` can only come between the two parts
of a write that waited for room. The client follows
`tcp_client_thread` line by line, with `err` never reset between calls. A queue
and a block of the pool are counted. Facts of this build that shape the model:
`LWIP_ASSERT` and `LWIP_ERROR` only print (`cc.h:76`); there are fewer messages
for the tcpip thread (8) than entries in its mailbox (20), which thus never
fills; a full `recvmbox` counts as invalid (`sys_arch.c:163`), so that
`netconn_recv` fails as long as it is full and `netconn_drain` skips it, which
loses a queue and a block of the pool with the connection. After enough of that no
connection can be made and the client goes round without sleeping, which starves
the watchdog's feeder; `FreedWhole` and `NotStarving` say exactly when. Before
`led_task` has created `mybox`, `OSMboxPend` on the null pointer returns at once.

**Enc28j60.** The chip stores packets while the handler runs, so `PKTIF`, `INT`
and the count change between any two steps of it. `INT` going low latches an edge
(`pend`) even while the handler runs; `ENC28J60_Packet_Send` masks interrupts
until the transmitter is done. The handler's priority (1) is above USART2's (3).
`PKTIF` is taken as "`EPKTCNT` is above zero" and a decrement at zero as without
effect, as in the chip's data sheet. Positions are counted in packets, except the
creep of the read pointer behind a count that was decremented without a read. When
that has let the chip write over an unread header (`wild`), the driver reads
garbage and the model ends.

**TcpSegments, TcpPcb, TcpConnection.** A unit is what one `tcp_write` brings;
numbers are integers (no wrap), `rcv_wnd` has its 16 bits. The board's `lwipopts.h` makes the send buffer
and the receive window two segments, so that the congestion window matters only
as 1, one or two segments, and `ssthresh` not at all. `TcpPcb` keeps whether a
timer runs, `TcpConnection` when it may expire: at any time that nothing is under
way, and otherwise as a fault, which covers every wrong estimate of the
round-trip time. Other faults are a packet lost, doubled or overtaken, an
allocation that fails, a reset by the peer; a plan bounds them together with the
units. `tcp_input` is one action with the callbacks it makes and the output that
follows, and goes on after a callback as the code does: `used` records what it
reads of a block that was given back meanwhile. The peer is an ordinary TCP
that accepts data in order, answers each segment, reads when it likes, probes
and retransmits. `refused_data` is never used (`recv_tcp` does not refuse), and
the mailbox that is full is `Uplink`'s business; here it appears as a `Close` that
does not drain.

## 3. Runs

Every property has a mutant in `PROJECT.json`: a wrong variant of one definition
(kept beside it, "Wrong variant") with which TLC finds the property violated.

| Run | Question | Result |
|---|---|---|
| `arm_safety` | With three polls, cut and lost answers, stray second reads and either order of the racing stores: `TypeOK` (no message overruns `msg[40]`), `ExclusionUnlessReinit`, `WholeUploads`, `Attribution`, `AnswerNotForgotten` (unless the flag became visible before the length) | hold |
| `arm_live` | `AnswerUploaded`, `ReaderServed`: no error path keeps the mutex or gives up | hold under `FairSpec` |
| `arm_reinit` | plain `MutualExclusion` | **violated** (finding 1) |
| `master` | `TypeOK`, `CommandWhole` (transceiver turned after exactly the last byte), `Attribution`, `IntactPublished` (an answer that came whole in time is uploaded), `ImplementsStore` (refinement of `SampleStore`: never another slave's sample, never an older one), `LineReleased` | hold with any two disturbances |
| `malloc` | `TableSound` (blocks in use are disjoint and marked with their length), `NothingLeaks`, `FailsOnlyWhenFull` | hold for nested contexts |
| `timers` | `TimersKept`, `ListSound` (no timer is due later than its own period), `NotStarved` | hold |
| `kernel` | `KernelSound` (types, waiting lists), `ReadyIffRunnable`, `NoneWaitsInVain`, `HighestRuns`, `ImplementsChannel` (refinement of `MsgChannel`: each call does with items, askers and room what its service promises) | hold |
| `uplink` | `OneAnswer` (a call is answered once, and while somebody waits), `CallsSound` (types, each call starts clean), `FreedWhole`, `WindowReturned`, `SamplesWhole`, `LossNoticed`, `NotStarving` | hold, with the provisos their comments name |
| `enc` | `EdgeKept`, `InStep`, `MasksEnd`, `PacketsTaken` | hold |
| `tcp` | `ReceivedWhole` (what the application gets), `SentSound` (what the peer gets, what counts as acknowledged, the queues), `PcbSound` (types, both windows), `FreedOnlyByFin`, `NeverStuck` | hold |
| `tcp_freed` | `FreedInTimer`, the comment of `tcp_close` (`tcp.c:277`) | **violated** (finding 2) |
| `tcp_sent` | `SentArrived`, what `rawapi.txt:217` says of `tcp_sent` | **violated** (finding 3) |

`TableSound`, `ListSound`, `KernelSound`, `CallsSound`, `SentSound` and `PcbSound` are
conjunctions of named parts, the type invariant among them.

### Findings

1. `modbus_demo.c:202` initialises `mut` a second time, after `main` did
   (`fengji.c:131`). If tcp has connected by then it may be inside its critical
   section; `com_read` or `proc_data` then enters beside it and an upload may be
   half-copied. `arm_reinit` shows the interleaving. The other safety
   properties hold as long as that did not happen (`~tainted`); this proviso is
   the exact gap.
2. `tcp_close` on unread data sends a reset and gives the control block back at
   once (`tcp.c:193`). Its comment says this happens in `tcp_slowtmr` (`tcp.c:277`),
   and `tcp_input` relies on it. When a close that had no memory for its FIN is
   tried again by `sent_tcp`, and the segment at hand carries the peer's FIN too,
   the number of that FIN, not yet returned to the window, is taken for unread
   data: the block is given back and `tcp_input` reads and writes it. `FreedOnlyByFin`
   shows that no other segment can do it.
3. `tcp_rexmit` puts the first unacknowledged segment back on `unsent`. If the
   peer's window has become too small for it, `tcp_output` leaves it there, alone,
   with its successors still on `unacked`. `tcp_write` then takes it for the end of
   the stream (`tcp_out.c:408`) and appends new data to it, which go out under the
   numbers of the successors. The peer keeps whichever comes first; what it
   acknowledges, `sent_tcp` reports as received, though some of it never came, and
   other data stand in its place. `tcp_sent` reaches this with two faults: the two
   acknowledgements that would close the window are lost, the segments sent on run
   into the closed window, and the answers to them and to a probe are the three
   duplicates. In the plans of `tcp` it does not happen, and `SentSound` holds there:
   five units are too few. The peer's stream is thus not safe in general, and no
   theorem says so.

Remarks, seen while modelling, without a run of their own:

* With `WeakStores`, `proc_data` may see the flag before the new length, check the
  message with the old length and drop it. One poll of one slave is lost;
  `AnswerNotForgotten` excepts it through `early`.
* `sys_arch_mbox_fetch` compares the two tick counts with `>` (`sys_arch.c:137`),
  where `sys_arch_sem_wait` uses `>=` (line 207). A message that is there within
  the same tick makes it compute (2^32-1)*1000 mod 2^32 / 200 + 1 = 21474832 ms,
  although `sys_arch.c:112` says that it returns the time waited.
  `sys_timeouts_mbox_fetch` then sets the next timeout's rest to 0: it runs
  early. `timers` shows what this spares: no timer is lost, late or starved.
* TCP, `SmallWindow`: when the peer's window is above zero but too small for the
  first segment and nothing is unacknowledged, neither the persist timer nor the
  retransmission timer runs. Only a window update of the peer goes on; one that is
  lost stops the connection. `NeverStuck` excepts this state.
* TCP: `tcp_slowtmr` compares the count of retransmissions with its limit by `==`
  (`tcp.c:827`), and a fast retransmission counts too. Three retransmissions in one
  interval step over the limit; the connection is then never given up and
  `tcp_backoff` is read beyond its 13 entries. TLC reaches a count above the limit
  with three faults.
* TCP: a segment that comes early while `ooseq` is empty is queued as it is
  (`tcp_in.c:1373`). When its data end at the edge of the window and it carries a FIN,
  that FIN takes one number more than `rcv_wnd` has once the gap is filled:
  `rcv_wnd` wraps to 65535 against the assertion before it (`tcp_in.c:1334`, which
  only prints), 65535 is announced, and `tcp_in.c:372` brings `rcv_wnd` back to 0.
  The peer has nothing left to send, so no stream suffers; the first part of
  `WindowHeld` holds until the end of the stream is told. The `tcp` run reaches it.
* TCP: when Nagle's algorithm holds the only unsent segment, an `ACK_NOW` is not
  sent (`tcp_out.c:928`) until `tcp_fasttmr` clears it.
* TCP: in `LAST_ACK` an acknowledgement of all that was sent ends the connection
  (`tcp_in.c:781`) even when data and FIN are still unsent.
* ENC28J60: after `RXERIF` the handler decrements the packet count without reading
  a packet (`enc28j60.c:491`): packets are then one behind until the ring runs over
  again. And a `TXERIF` of an earlier packet that was not cleared aborts the new one
  (`enc28j60.c:416`).
* Kernel: `OSTaskChangePrio` puts a task whose event was already posted on the
  waiting list again (`os_task.c:126`), and with the scheduler locked leaves
  `OSPrioCur` behind. The firmware calls neither.

### Bounds

* ARM: `MaxPolls = 3` polls every slave once, so that messages of all three
  lengths and slaves mix in `msg`; the third answer can overwrite the second
  while the first is processed. `Chunks = {16, 21}` gives a whole answer, one that
  the second read completes, and ones that it cannot. `DataBytes` = {0, 11, 200}
  stand for a stray byte count that makes a message look too long, exactly right,
  or too short. `MaxFaults` is 1 in the liveness run, where the fault may hit any
  of the three network calls; `arm_live` polls once, since its question is about
  one answer's way. With `MaxFaults = 0` the failing path of tcp is left out of
  the safety runs, but the proofs cover it.
* Master: five polls, of slaves 3, 1, 2, 3 and 1, so that two slaves are asked
  twice, a stale answer can meet the new one, and the run of `modbus_rtu` that publishes the new one is reached;
  two disturbances out of lost byte, stray byte, answer overtaken by the next
  command, masked interrupts. Frames are shortened as said above.
* Pool: 6 blocks, requests of 1, 2 and 3 blocks on, above and below a block
  boundary, up to three mailboxes kept; enough for fragmentation and exhaustion.
* Timers: ticks of 5 ms as in the code, tick counter modulo 128 so that it
  wraps, three timers whose periods are no multiples of each other.
* Kernel: two tasks and three priorities, so that priorities can be exchanged and
  both tasks wait for one event, which may become any of the three kinds; two
  messages, queue of two (wraps, fills), semaphore limit one, delays and
  timeouts of one tick (a longer one only counts down before it is over; the
  proofs cover any), two nested interrupts; tasks symmetric, messages symmetric. `VIEW` leaves
  `served` out: no action reads it but to turn its bit, and no property is about it
  but `ImplementsChannel`, which looks at a step's own call and at whether the bit
  turned; TLC checks that on every step from a state of the view, the steps to a
  state already seen included.
* Uplink: two queues, so that the loss of one and of the last are different;
  mailbox of two entries, filled by fewer segments than the window has (three);
  send buffer of one upload and a half, so that a write waits; one failed
  allocation.
* ENC28J60: a ring of three packets of length three, so that three errors creep
  over a header; ten packets, three rings and one.
* TCP: two units to a segment, a peer with room for four; retransmission limits 2
  and 1 where the code has 12 and 6. The plans are in `MCTcp`: five units with two
  faults reach zero windows, lost window updates, fast retransmission and the
  limit; three with one fault and closing, one each way; five inwards fill the
  receive window, and four with the peer's FIN put that beyond it. `tcp_sent` writes
  eight units, and keeps to behaviours (`Narrowed`) in which the reads that do not
  matter are left out: a constraint can hide a violation, never make one.

### Fairness

* ARM: weak fairness of every thread (a thread that can run does). Strong
  fairness of `Lock`: a POSIX mutex is not fair, but every other thread sleeps or
  blocks between unlock and lock (1 or 10 ms in `proc_data`, 500 ms or a new
  connection in `tcp_client_thread`; `com_read` locks only when `select` reports
  bytes of a slow line), so that a waiter meets a free mutex. Nothing is assumed of the line, the slaves and the heartbeat. `send` is
  taken to return: one that blocks for ever keeps the mutex for ever.
* Master: the USART shifts out its byte, an interrupt that is pending and not
  masked is taken, and a task that masks interrupts unmasks them. The early return
  of `ENC28J60_Packet_Receive` (`enc28j60.c:430`), which does not unmask, is proved
  unreachable (`SectionsClosed`); that the wait for the transmitter ends is `MasksEnd`.
* Timers: the tcpip thread has the highest priority of the tasks, and time
  passes. Messages are under no fairness and may flood.
* Uplink: strong fairness of the client and of `led_task`, which run whenever the
  tasks above them sleep, again and again; weak fairness of `adc_task`, of
  acknowledgements and answers that the network owes, and of the poll timer.
  Nothing of resets, packets and failing allocations.
* ENC28J60: strong fairness of the handler (the hardware takes an unmasked pending
  interrupt at once), weak fairness of the sender; the chip ends every transmission.
* TCP: packets that are left under way arrive, in both directions; the peer's
  application reads; the slow timer, if again and again it has an effect to have
  and nothing is under way, has it. This is strong fairness with its `ENABLED`
  written out (`Due`). The application promises nothing: it need not close.

## 4. Proofs

Eight modules prove what follows for every value of the constants. The
assumptions are the named ones of the modelled modules: that the constants have
their types and sizes, which the code's constants have, and for `SysTimers` that
a period times 1000 fits in a `u32_t` and that no timer is armed twice at start.
Each proof has the same shape. `IInv` is the inductive invariant, a conjunction
of named parts; TLC checked it on the run's instance before it was proved; there is one lemma per
action that says the action keeps it; and the properties follow from it.

**ArmGatewayProofs** (any polls, faults, chunks and byte values, both settings
of `WeakStores`).

* `TypeCorrect` (`TypeOK`). It says something of the code only where it bounds a
  read: `nread <= 21`, a second read of at most 5, so no message reaches past
  byte 26 of `msg[40]`.
* `Exclusion` (`ExclusionUnlessReinit`). Two threads are kept apart only if the
  mutex names the one inside: `OwnerInside`. It needs `CreatedInOrder`, since a
  thread that was created twice could restart inside its critical section.
* `UploadsWhole`, `SegmentsAttributed`: from `DataInv`, the two properties with
  `WholeSegments` (only the segment being copied may be half new) and
  `CopiesAnswer` (while it is copied, `msg` is one whole answer of `target`).
  `OwnerInside` excludes a read into `msg` or a send during a copy.
* `AnswersKept` (`AnswerNotForgotten`): with `LengthInv`, which says what
  `msg_length` is at each point of `com_read`, and `Kept`, the property from the
  moment the lock is given up. The proof showed an earlier form of the property
  to be false from six polls on: a message that `com_read` drops because it is too long leaves the
  length of an older one behind. `Announced` now asks for the length that was read.

**ModbusMasterProofs** (any lengths of frames, any polls and disturbances).

* `TypeCorrect` (`TypeOK`) bounds `receCount` and `sendPosi`.
* `CommandsWhole`: from `TransmitInv`, the bytes heard follow `sendPosi` between
  two interrupts, whatever the delay of the second.
* `SegmentsAttributed`: from `LineInv`, bytes and answers belong to commands that
  were sent, to their slave.
* `IntactAnswersPublished` (an action property): from `IntactInv`, which
  follows an undisturbed answer byte by byte into `receBuf`.
* `StoreImplemented`: the refinement of `SampleStore`. `OrderInv` says that what is
  uploaded is never newer than what lies in `receBuf` or is on its way there.

**MallocProofs** (any pool, block size, requests and number of mailboxes kept;
three contexts, as in the code). `MapInv` and `DisjointInv` say who holds each
entry; `PlanInv` says that what a call found free stays free, since whoever
interrupts it gives back all it took; `SearchInv` that the search has passed no
run long enough.

* `PoolSound` (`TableSound`), `PoolKeepsNothing` (`NothingLeaks`),
  `MallocFailsOnlyWhenFull` (`FailsOnlyWhenFull`, an action property).

**SysTimersProofs** (any timers, periods, tick rate and width of the counter).
`Insert`, `Tail` and `Cut` of a sound list are sound (`InsertSound`, `TailSound`,
`CutSound`): no timer twice, none due later than its period. `WaitInv` says that
the thread only waits with a timeout in the list.

* `NoTimerLost` (`TimersKept`), `DifferencesSound` (`ListSound`). The proof asked for the
  `% M` that stands for the width of `Elapsed`'s result.
* `Due` and `AtBoot` are recursive functions. What they compute for every list is
  proved without an induction theorem: `LeastNat`, that a set of numbers has a
  least one, follows from the library's well-foundedness of finite sets, and a least
  counterexample does the rest (`DueDefined`, `DueUnique`, `DueMonotone`,
  `BootSound`).

**OsKernelProofs** (any tasks, priorities, events, messages, queue size, limits
of semaphores, delays and nesting). `PrioInv` and `ListInv` tie the tables to the
control blocks; `PendInv` says what a control block holds at each point of a
pend; `WaitInv` who is on a waiting list, task by task; `RunInv` who may have the
processor; `RingInv` where a queue's pointers are.

* `TablesSound` (`KernelSound`), `ReadyTableExact` (`ReadyIffRunnable`),
  `NoWaitInVain` (`NoneWaitsInVain`), `HighestHasProcessor` (`HighestRuns`).
  None is inductive alone; all are conjuncts of `IInv` or follow from it.
* `ChannelImplemented`: the refinement of `MsgChannel`. Each call is shown to be
  the channel's action of that name, every other step a stutter. `AskersWoken`, from
  `WaitInv`, says that the tasks that ask at an event are exactly those its waiting
  list names, those whose timeout is over but who did not run yet included; so a
  post that finds the list empty passes nobody by. `FirstIsHead`, from `RingInv`,
  says that a take returns the oldest item, wherever the ring wraps.

**UplinkProofs** (any queues, mailbox, window, send buffer, failing allocations).
`PlaceInv` says for each point of the client whether there is a connection and a
call; `ConnectInv`, `QueueInv`, `LateInv` and `DeleteInv` say what connecting,
writing and deleting may find.

* `AnsweredOnce` (`OneAnswer`), `CallsStartClean` (`CallsSound`), `FreedWithoutPcb`
  (`FreedWhole`), `WindowAccounted` (`WindowReturned`), `SampleOfOneRound` (`SamplesWhole`).

**Enc28j60Proofs** (any ring, packet length and number of packets).

* `NoLostEdge` (`EdgeKept`): inductive with `EdgeInv`, which says it from the
  handler's last look at `INT` on, since `INTIE` off and on makes a new edge.
* `ReceiverInStep` (`InStep`): it needs `ErrorsOnlyAfterOverrun` (only then does
  the handler decrement without a read) and `RingBound`.
* `SectionsClosed` (`Balanced`): interrupts are off only while a packet is being
  sent. `PacketSeen`, the handler never looks for a packet that is not there,
  excludes the early return that would leave them off.

**TcpConnectionProofs** (any segment size that fits twice into 16 bits, any peer's buffer
of at least two units, any limits of retransmission, any plans: units, faults,
ends). `IInv` ties four things together, none of which is inductive alone:

* `BoardOK`, the control block with its netconn: `RcvOK` (what waits on `ooseq` is
  pieces of the peer's stream that do not overlap, in front of the window's right
  edge; `rcv_wnd` and what was announced), `SndOK` (the numbers of `lastack`,
  `snd_nxt`, `snd_lbb` and of both queues, and the room in the send buffer),
  `StreamOK` (what was given to the application), `CallOK` (what a waiting call and
  a closed pcb may find);
* `PeerOK` and `PacketsSound`, that every packet to the board carries a piece of
  what the peer has sent, however often it is lost, doubled or overtaken;
* `EdgeOK`, that the peer may send only up to the edge the board has announced, in
  what it has received and in what is under way. It is what bounds the segment
  that is queued early, and so `rcv_wnd`;
* `Fresh`, that a board without a connection still has an untouched peer.

`tcp_input` is several calls. The proof goes along with it: `Mid` is what holds
between `tcp_receive` and the callbacks, with data that are not yet handed on and a
FIN whose number the window still lacks; `Good` is what a handler leaves behind. A
close that waits has `RXCLOSED`, so that by `Mid` without a FIN the window is whole
and `tcp_close` does not free the block: that is `FreedOnlyByFin`. Loops over queues
(`Run`, `Placed`, the data of several segments) are proved about without induction,
by a least counterexample as in `SysTimersProofs`. Nothing is assumed of the network.

* `TcpInvariant` (`IInv`), `PcbHolds` (`PcbSound`: types, `WindowHeld`, `RoomHeld`),
  `WholeReceived` (`ReceivedWhole`), `FreedByFinOnly` (`FreedOnlyByFin`).

Model-checked only:

* liveness (`AnswerUploaded`, `ReaderServed`, `LineReleased`, `NotStarved`,
  `LossNoticed`, `NotStarving`, `MasksEnd`, `PacketsTaken`, `NeverStuck`): the
  prover has no `ENABLED`;
* `SentSound` (TCP): what the peer gets. It is false beyond the bounds of its run
  (finding 3), so that there is nothing to prove for every plan; the run says that
  it takes that much to break it;
* the three properties the code violates.

## 5. Not modelled, and why

* CRC collisions; the arithmetic of `crc16`; the formatting of debug output.
* `gpio.c`: a failing `ioctl` only prints. `select` leaves a zero `timeout`, so
  that `com_read` polls without sleeping after its first wait: load, no state.
* `send` with a partial count, and a `send` that never returns.
* A null pointer from the pool: `low_level_output` and `sys_mbox_new` write
  through it. `Malloc` shows when the pool is exhausted, `Enc28j60` that the
  handler then goes round for ever (`Spinning`); memory is outside the models.
* `myrealloc`, `sys_untimeout`, the UDP demo: no caller in this build.
* The u16 the port truncates tick counts to: every period used fits.
* Kernel: mutexes, flags, memory partitions, software timers (unused or switched
  off), the queries, `OSTimeDlyHMSM`, `OSTaskDelReq`, `OS_OPT_POST_NO_SCHED`.
* TCP: listening and `SYN_RCVD`, options, estimation of the round-trip time,
  keepalive (off), wrap of sequence numbers, the limit on queued pbufs.
* IP, ARP, pbuf and memp; lwIP's start-up; UDP, raw, DHCP and DNS.
* Drivers, the LCD, the vendor's peripheral library, PPP, SNMP, sockets, the
  kernel's configuration headers: register programming, code that is not built or
  not called, and declarations. They are by far the larger part of the
  repository's lines, so that the modelled lines are a small share of it although
  the program's own logic is nearly covered.

## 6. Plan

Done: `ArmGateway`, `ModbusMaster`, `Malloc`, `SysTimers`, `OsKernel`, `Uplink`,
`Enc28j60` and `TcpConnection` with `TcpSegments` and `TcpPcb`, all checked and
proved, with the abstract `SampleStore` and `MsgChannel`. What would come next:

1. `SentSound` for a `tcp_write` that looks for the end of the stream on `unacked`
   too: the change finding 3 asks for, and the invariant that it would make provable.
2. pbuf and ARP: reference counts, a queued packet whose address never comes.
3. lwIP's start-up: creation of tasks and `mybox`, retries of `lwip_comm_init`.
