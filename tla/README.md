# Carbon: TLA+ specifications

Carbon is firmware for the dual-core STM32H747 (Cortex-M7 and Cortex-M4): FreeRTOS,
lwIP, FatFs and MicroPython on the M7, a bare loop on the M4, and memory both cores
share. This directory holds TLA+ modules of its concurrent parts, the TLC configurations
that check them on small instances, and TLAPS proofs of every invariant, action property and
refinement that a passing run checks.

`PROJECT.json` lists components, runs, mutants (how each property can be broken), the
source lines behind each definition, findings, hazards and theorems.

## 1. The system

| Component | State | Operations | Talks to |
|---|---|---|---|
| FIFO (`common/include/carbon/fifo.hpp`) | indices, ready bitmap, buffer | `push`, `ContextPush`, `pop`, `ContextPull` | any thread or interrupt of both cores; a hardware-semaphore lock |
| Diagnostics (`diag.cpp`) | the diagnostic FIFO | `carbon_diag_push`, `carbon_diag_pull` | FIFO, UART |
| Trace (`freeRTOSTrace.cpp`, `trace.cpp`) | the trace FIFO | `pullEvent` | FIFO, TCP |
| Locks (`hsem.hpp`, `irq.hpp`) | semaphore owner, PRIMASK, nesting counter | `get`, `release` | both cores |
| Boot (`low_level_init.cpp` x 2, startup files, `shared_memory.cpp`) | sync flag, HSEM notification, clock of the M4's domain | the handshake | both cores |
| System time (`systime.cpp`) | 64-bit base, last count, compare register | `systimeUs`, `delayUs`, `HAL_Delay`, the compare interrupt | everybody who waits |
| Ethernet receive (`ethernetif.c`) | descriptor ring, `rx_pool`, semaphore, mutex | interrupt, `carbon_lwip_input`, `pbuf_free_custom` | DMA, lwIP threads |
| Ethernet transmit and link thread | descriptor ring, `tx_Buff`, semaphore, mutex, `gState`, `txState` | `carbon_lwip_output`, `carbon_lwip_link_thread` | DMA, PHY |
| DHCP (`app_ethernet.c`; `dhcp.c` and `autoip.c` of lwIP) | `DHCP_state`; state, tries, lease and address of the clients | `DHCP_Thread`, link callback, timers and answers of the clients | link thread, tcpip thread, servers |
| SD card (`sd_card.cpp`, `sd_diskio.c`, `sd_thread.cpp`) | `detectPinStatus`, timer, three binary semaphores, the HAL handle | EXTI, timer and SDMMC interrupts, `SDThread::run`, block transfers | slot, FatFs and its users |
| FTP server (`lib/FTP/src`) | client pool, per session: login, path, connections, file | one task per client, one function per command | lwIP, FatFs |
| MicroPython port (`mp_thread.c`, `mp_port/mpthreadport.c`) | thread list, GIL, console connection and netbuf | thread creation, collection, REPL console | interpreter, lwIP |
| Matrix display, Modbus, pins, clocks, UART | | | section 6 |

Hard to test are: two cores and interrupts inside one lock; slots reserved in one order
and finished in another; bitmap arithmetic at word and ring ends; buffers handed back in
any order while the DMA runs; a timeout and the late completion it races; state read
before and written after another thread has changed it (`DHCP_state`, `linkchanged`); one
binary token that stands for several events; a boot handshake over memory that a reset
does not clear; a counter that wraps between two readers; a card that is changed under a
transfer, or fails while it is initialised; an address that goes while nobody looks; commands that fail half way and clients that vanish; a task that runs before its
creator has put it in the list the collector walks. They are the hazards of `PROJECT.json`.

What makes each component correct: the FIFO neither loses, duplicates nor reorders and
never shows an unwritten object; a lock excludes across cores and interrupts and no core
spins for ever; the M4 starts after the M7 is done and both start; every wrap of the clock
is counted once and no delay is short; a received buffer has one owner and no frame is
forgotten; ERR_OK means sent, and link changes end in a working transmitter; the interface
gets an address, whatever the server does; a card in the slot is mounted, and a transfer reported as done was done;
an FTP session gives back what it took and stays in its working directory; the collector
frees nothing a suspended task needs.

## 2. Modules

| Module | Models | Notes |
|---|---|---|
| `Fifo` | the ring with its producers and `pop` | one action per locked region and per unlocked buffer access; the k-th object reserved is the number k |
| `FifoAbs` | the promise: a bounded queue whose entries become ready in any order and leave in order | implemented by `Fifo` (`MCFifo!ImplementsQueue`) |
| `FifoPull` | extends `Fifo`: the consumer uses `ContextPull` | `getElementReady`, as the trace server calls it |
| `FifoProofs`, `CoresProofs`, `EthRxProofs`, `EthTxProofs`, `DhcpLinkProofs`, `SdCardProofs`, `FtpProofs`, `ServicesProofs` | TLAPS proofs about the module they are named after and what it extends | section 5 |
| `HsemLock` | lock and nesting on two cores, thread and interrupt on each | `Nestable` is what the callers do: Diag inside Trace |
| `BootSync` | boot of both cores | shared memory starts with arbitrary contents |
| `Cores` | composes `HsemLock` and `BootSync` | from reset to running code: a booting M7 already takes the Diag lock, a timeout ends in `Error_Handler` |
| `EthRx` | receive ring, DMA, interrupt, input thread, link thread, threads that free pbufs | the k-th frame received is the number k |
| `EthTx` | senders, DMA, interrupts, link thread | the hardware may be slow, fail or stop |
| `DhcpClient` | the functions of lwIP's DHCP and AutoIP clients, on one record | a failed allocation is a parameter |
| `DhcpLink` | extends `DhcpClient`: `DHCP_Thread`, link thread, and the timers and answers of the clients | one action per access to `DHCP_state` |
| `SdDetect` | slot, EXTI, timer, their set-up at boot, and where the SD thread waits for them | |
| `SdCard` | extends `SdDetect`: initialisation, mount, a user of the volume, transfers | the mount asks for transfers as a user does |
| `Ftp` | server, sessions, commands | what the file system and the network answer is a choice |
| `Systime` | clock, its interrupt, readers, delays | |
| `MpPort` | Python tasks, GIL, thread list, console | |
| `Services` | `Systime` and `MpPort` in one run | they share no state, so that one of them moves |

`MCFifo` adds the refinement mapping to `FifoAbs`, which `FifoProofs` uses too; the other modules
are checked directly.
Operators with a suffix that names a mistake (`isFullFor_exact_room`) are plausible
mistakes used as mutants; no specification uses them.

How state and actions correspond to the code, where it is not plain from the names:

* `pc`, `spc`, `lpc`, `ipc`, `fpc`, `tpc`, `dpc`, `cpc` say where a thread is. A step ends
  where another actor can see or change what follows.
* `Fifo`: `tail_ready` is the set of bits set, `Marked` what `~ContextPush` makes of it,
  word by word, with the code's case split. The lock itself is `HsemLock`'s subject.
* `EthRx`: `MayRun` is the scheduling the code relies on: the input thread has
  `osPriorityRealtime`, so the stack's threads run only while it is blocked. The
  register order of `low_level_input` (descriptor and length before OWN) is kept.
  Lengths are abstracted to the number of the frame that was measured. `link` follows the
  link thread through `carbon_hw_ethernet_start` (`stopped`, `started`, `cleared`, `up`) and `_stop`
  (`masked`, `stopped`); `erased` (history) records that the start cleared a pending RI that
  nobody had seen, since the input thread last woke up. `why` says how the last drain ended.
* `EthTx`: `timeouts`, `ok`, `transmitted`, `corrupted` are history. A call that finds the
  transmitter closed, or whose frame is too long, changes nothing and is no action.
  `LinkStartClear` erases a pending TI by the same write that erases an RI.
  `phy = "down"` stands for a read error of the PHY too, which the link thread treats alike.
* `BootSync`: `Cm7Periphery` is the whole set-up of clocks, LEDs, memory and UART after the wake-up.
* `DhcpClient`: one record holds what both clients keep and the interface's address. `refused`
  and `failed` are history: the last answer was a NAK; the last start had no memory. An
  infinite lease leaves the timer of an earlier finite one running, as `dhcp_bind` does.
* `DhcpLink`: `lost` records that `DHCP_Thread` overwrote a value it had not read. Before a
  client was ever started the code dereferences a null `dhcp`; any number of tries may be read.
  `polled` is an assumption on time: a client's timer runs for at least half a second, and
  `DHCP_Thread` makes a pass every tenth, so there is a pass between two timers. Each
  `dhcp_` function is one step, also where `DHCP_Thread` calls it without lwIP's core lock.
* `SdDetect`: `calm` records that the card was moved only when the driver had settled and
  chattered only during the stability check. The update flag of TIM6 is set by
  `HAL_TIM_Base_Init` and cleared by nobody before the first use, so the first period ends at once.
  The boot is one action per line of `BSP_SD_DetectITConfig` that an edge can fall between:
  before `HAL_EXTI_GetHandle` the handler clears another line's flag and returns for ever
  (`GetHandle` waits for `~exti`), before the callback is registered an edge is lost, and before
  the timer is set up it starts nothing (`DetectEarly`, recorded in `early`).
* `SdCard`: a request (`req`) is one block transfer of `SD_read` or `SD_write`; `ok` is what
  it will return, `done` (history) that the DMA completed for it. `clean` records that no transfer
  has timed out or lost its card since the last initialisation with nobody inside, `faulty`
  that a transfer, or the initialisation, failed with the card present. `InitHal` may fail with a
  card in the slot; the thread is then parked for ever. FatFs lets one user at a time into a volume.
* `Systime`: `now` is the true time, the counter is `now` modulo its period. A wrap is worth
  `SYSTIME_TIM_PERIOD`, one less than the modulus, as in the code. The timer runs: before its
  initialisation `HAL_Delay` returns at once (`systime.cpp:187`), which only an `Error_Handler` during the boot meets.
* `Ftp`: a session is a record with the fields of `ftp_data_t` that decide anything. `cwd` is
  the directory of the last CWD or CDUP answered with 250, and `moved` that a command since then may have left
  the session elsewhere; `pasvFailed` and `silent` are history too. A path is a
  sequence of components; a parameter names the root, the parent, an entry, an entry of a
  subdirectory (`below`) or an absolute path, and `path_up_a_level` takes back one component, as in
  the code. A path that is too long stays in the buffer and is not followed any further: the next command
  would write behind the buffer's end. `mbox` holds the connections that lwIP
  has accepted and nobody has taken out of the mailbox of a listener. `Ending` forgets the fields nobody reads
  after the last command. `Files` is the table of open objects FatFs keeps
  (`_FS_LOCK` is 50 in `ffconf.h`), and `listed` the entries of directories, which nobody closes.
* `MpPort`: `gil` is the GIL; `recv` and `accept` keep it, as the code does. `Scanned` and
  `Nodes` are what a collection would keep, in the state where a task could start one.

## 3. Runs

| Run | Instance | Shows |
|---|---|---|
| `fifo_pop` | 4 elements, words of 2 bits, 3 producers, batches to 4, 8 objects | order, completeness, capacity, exact ready bits, overflow only when full, the inductive invariant, refinement of `FifoAbs`; every reserved object is consumed |
| `fifo_pull` | 1 producer, 12 objects | block-wise pull returns the objects in order and all of them in the end |
| `fifo_pull_many` | 2 producers | violated: section 4 |
| `eth_rx` | 3 descriptors, pool of 3, 2 freeing threads, 4 frames | one owner for each buffer, intact frames, no stale length, none of the driver's "critical errors"; a wake-up is lost, and a frame not taken, only in one of the three ways of section 4 |
| `eth_tx` | 2 descriptors, 2 senders, 2 modes, 3 frames | ERR_OK means sent while nothing has timed out; transmitter and link agree; sends return; a stable link comes up |
| `eth_tx_token` | 1 mode, 2 frames | violated: section 4 |
| `cores` | 2 cores, 2 semaphores, nesting 2 | exclusion with ownership, interrupt mask, no core spins for ever; the M4 enters `main` last, FIFOs are not wiped, both cores arrive |
| `dhcp_link` | 4 tries, as in the code | static address only with the client stopped; an address again and again, through expired leases, NAKs and silent servers, unless an update was overwritten or the code gave up (section 4) |
| `dhcp_link_lost` | 4 tries | violated: section 4 |
| `sd_card` | 3 edges, SD thread and one user | mask, timer and state go together always; a reported transfer is its own while `clean`; in calm use the volume follows a card that can be initialised, and every request ends once such a card stays |
| `ftp` | 2 sessions, 3 connections, mailboxes of 1, 2 entries of FatFs, paths to 2 | no connection, file or entry is lost but the ones of listed directories; a passive session listens unless its PASV failed before; the working directory survives every command on a plainly named entry; a vanished client is dropped unless it was sending a file |
| `services` | period 5, latency 1, delays to 3 (6 for `HAL_Delay`), 13 microseconds; 3 tasks, netbufs to 2 | wraps are counted once, delays are never short; roots of all suspended tasks are kept, and the console is not closed under its reader |

**Bounds.** Four elements in words of two bits give a ring of five slots with three
words, so that a batch lies inside a word, spans two, spans three and wraps; 8 objects go
round the ring more than once. Three descriptors let the stack hold some and return them in
the wrong order, and 4 frames make every index of the ring wrap. Three pbufs are fewer than
the buffers that can be out and the threads that free need (`PoolSuffices`), so that the pool runs out.
Four tries are `MAX_DHCP_TRIES` and `LWIP_DHCP_AUTOIP_COOP_TRIES`; the client's counter stops at 7
instead of 255, above every number it is compared with. Three edges of the card are an
insertion, a removal and an insertion, or a move with chatter. Three connections are fewer
than two sessions can ask for (control, listener, mailbox and data each), so that either may find none (the invariants
were also checked with four: 2.2 million states), and two entries of FatFs
fill up. Thirteen microseconds wrap a counter of six values twice, with delays that span a wrap.
Three tasks let one be created while another waits for the GIL.
`MaxItems`, `MaxFrames`, `MaxSends`, `MaxDepth`, `MaxEdges`, `MaxTime`, `MaxDelay`, `MaxSize`
bound a behaviour or an input and stand in the guards. Deadlock checking is off where the
bound, the end of boot or a parked thread is a proper end.

**Fairness.** A thread inside an operation is scheduled again, an enabled interrupt is
taken, and nothing forces a user, a client, a sender, the stack, a card or a cable to act. In
`EthTx` nothing is assumed of DMA, PHY or interrupts: the timeout of
`osSemaphoreWait` is what makes sends return; the link thread gets the mutex because
FreeRTOS hands it to a waiter (strong fairness). `Cores` needs strong fairness of the
read that ends the spin, as the semaphore does not queue, and of the end of critical
sections and of the boot's next step, which nested locks and interrupts disable now and then.
`SdCard` assumes that contacts settle before a timer period is over, that a transfer ends in
one way or another while the controller is on, and that a written card finishes programming.
`DhcpLink` assumes that the two threads run and that the timers of the clients expire; of servers
nothing, except that they do not refuse for ever (`Refusal`: NAKs, ARP conflicts, offers that are
never acknowledged), which is a premise of the property. In `Ftp` the tasks run and lwIP's
timers report a dead connection to whoever sends. In `EthRx` the stack's threads are
scheduled only as far as they hold the mutex the input thread may wait for, and the link thread as far as it
finishes a start or a stop it has begun, both strongly, as the input thread preempts them; nothing forces the
cable to come back.

## 4. Where code and words disagree

* `fifo_pull_many`: "one(many) producer(s)" does not hold for `ContextPull`;
  `getElementReady` leaves its first loop at the wrap without looking at the last slot.
  The deployed trace FIFO has one producer.
* `eth_tx_token`: after a timeout, the late token makes the next send return ERR_OK early.
* `dhcp_link_lost`: `DHCP_state = DHCP_OFF` can overwrite the `DHCP_START` of a link that
  has just come up.

More behaviours of the code show in the models. Where nothing in the repository says what
should happen, they are hazards, or conditions of the properties:

* A batch that wraps into the bitmap word it began in is marked wrongly (at 4091 objects or
  more for the diagnostic FIFO); `WordsFit` excludes it.
* `linkchanged` is never reset, so that a poll that finds no negotiated mode ("no
  configuration found") starts the MAC in the mode of the previous link (`EthTx`, `LinkPollUp`).
* `carbon_hw_ethernet_start` erases receive interrupts: `DMACSR |= (TPS | RPS)` (`ethernetif.c:914`) writes
  1 to every flag that is set. A frame received while the interrupts were disabled is left in the ring
  until the next one arrives (`erased`). The same happens to frames behind a discarded descriptor, and to
  frames for which there was no pbuf; with 9 descriptors and 10 pbufs the latter takes three threads that free at once.
* In ADDRESS_ASSIGNED `DHCP_Thread` does not look at the client any more. When a lease expires the
  client restarts by itself, and after four tries AutoIP gives the interface a link-local address; there is
  no static one. After a NAK the renewal and rebinding timers of the old lease may carry the client
  on with a zero address, and the link-local address goes while the cooperation counts as on: the interface
  may stay without an address (`GivenUp`). It also may when `dhcp_start`, whose result `app_ethernet.c:84` ignores,
  or AutoIP finds no memory (`failed`).
* `dhcp_start` clears its structure and forgets that AutoIP is running; AutoIP may then replace a static
  address by a link-local one. `StaticMeansClientStopped` is about the DHCP client only.
* A card whose initialisation fails parks the SD thread for ever (`sd_thread.cpp:50-55`), as does a card
  that is gone when it is looked for: no card is mounted any more (`faulty`).
* The EXTI interrupt of the slot is enabled before its callback and its timer are set up (`early`).
* FTP: a failed CWD stays in the directory that does not exist, a MKD goes into the new one, a name of
  several components moves the session as it is cut back by one, and a path that is too long is not cut back (`moved`).
* Insertions and removals share one binary semaphore and the stability check does not read
  the pin again: outside calm use tokens collapse, the thread takes removals for insertions or is
  parked, and a card that stays in its slot is not mounted (`SdCard` without `calm`).
* After a timeout, or when the card is changed under a transfer, a token is left behind or
  taken by the wrong request, and a read is reported that did not happen (`SdCard` without `clean`).
* A request whose card was removed polls until there is a card again that can be initialised (`Finish`);
  `RequestsEnd` presupposes one, although `sd_diskio.c:50-55` wants control given back to the application.
* A listener that could not be bound passes for a good one at the next PASV (`pasvFailed`);
  listed directories stay open (`listed`); a file is received without a timeout (`StorEnds`).
* The clock loses a microsecond with every wrap, 72 minutes (`usCounterAdjust`).
* A print that fails leaves the REPL without a connection and without a way to accept
  another (`mp_carbon_stdout`).

## 5. Proofs

Each theorem holds for every value of the constants that the assumptions of its module
allow: sizes of rings and pools, sets of threads, sessions and semaphores, depth of nesting, period and
latency of the clock. The bounds of the runs (`MaxFrames`, `MaxItems`, ...) are constants like any
other. The theorems are about the specifications without fairness, which those of the runs imply.
An invariant that a proof needs was first checked by TLC on the instance of the run (the
strengthened ones below are no properties of a run, `FifoInv` excepted).

| Module | Theorems | Inductive invariant |
|---|---|---|
| `FifoProofs` | `FifoInvariant`, `FifoTypeCorrect`, `FifoInOrder`, `FifoReadyBits`, `FifoCapacity`, `FifoNeverRefused`, `FifoOverflowOnlyWhenFull` (an action property), `FifoImplementsQueue` (the refinement of `FifoAbs`), `PullsInOrder` | `FifoInv`, `PullInv` |
| `EthRxProofs` | `RxTypes`, `TailStaysBehind`, `FramesStayIntact`, `BuffersHaveOneOwner`, `LengthsAreTheirOwn`, `PbufsSuffice`, `NoWakeUpIsLost` | `RxInv`, `WakeInv` |
| `EthTxProofs` | `TxTypes`, `OkIsSent`, `LinkMatches` | `SendInv`, `LinkInv` |
| `CoresProofs` | `Cm4Last`, `FifosKept` (an action property), `LockTypes`, `Mutex`, `IrqsMasked` | `BootInv`, `LockInv` |
| `DhcpLinkProofs` | `StaticAddressSafe` | `StaticInv` |
| `SdCardProofs` | `DetectionStaysArmed`, `SuccessIsDone` | `ArmedInv`; `XferInv` |
| `FtpProofs` | `PassiveDoesListen`, `DirectoryIsKept`, `NothingIsLeaked` | `SessionInv`, `MboxInv`, `CountInv` |
| `ServicesProofs` | `EveryWrapCounted`, `DelaysAreLongEnough`, `RootsAreKept`, `ConsoleKept` | `WrapInv`, `DelayInv`, `MpInv`, `ConsoleInv` |

**FIFO.** Under `FifoAssumption` and `WordsFit` (the bitmap's words divide the ring, and
no batch wraps into its own first word, without which `ReadyExactlyCommitted` is false).
`ConsumerInOrder` alone is not inductive: that `pop` reads the right object depends on the
ready bit at `head_`, thus on every reservation being marked exactly (`ReadyExactlyCommitted`),
on reservations being disjoint (`Disjoint`), on each producer's locals naming its own slots
(`ProducerInv`), on written slots staying as they are (`DataInPlace`) and on the number of
queued objects (`WithinCapacity`). `RingInv` is their conjunction, whoever consumes; `FifoInv` adds
that the consumer is in `pop`. The proof has a lemma
for each kind of step (`ReserveStep`, `WriteStep`, `ReadyStep`, `ReturnStep`, `OverflowStep`,
`PopStep`) over lemmas on slots (`SlotFacts`, `IncrementBySlot`, `RoomTest`) and on the
bitmap (`MarkedIsSpan`: the case split over words marks exactly the slots from start to
end, around the wrap; `SpanIsSlots`: these are the slots of the reservation).

*Refinement.* By `RingInv` the queue that `MCFifo` reads off the ring is determined by `consumed`,
`reserved` and the set of objects nobody works on (`QueueIs`). Reserving leaves that set alone and
lengthens the queue (`MakeRoom`), returning from a push adds the producer's own consecutive objects
(`Publish`), `pop` copies the oldest one (`Take`) and removes it (`Drop`); every other
step is a stuttering step (`StepOfQueue`). Lemmas `QueueGrows`, `QueuePublishes` and `QueueShrinks` say what
these do to a sequence.

*ContextPull.* `PullsInOrder` assumes one producer (`OneProducer`), without which it is false
(`fifo_pull_many`). Its reservation is then the newest, so the ready slots are a run from `head_`
on (`ReadyPrefix`), the loops of `getElementReady` have one gap to find (`GapIs`), and what they
count is that run, split at the end of the ring (`CountsReady`), also where the first loop leaves for the
second at a last slot that is not ready. `PullInv` adds to `RingInv` that what was counted
stays the oldest, ready part of the ring while the producer goes on. `~ContextPull` and
`pop` give objects back by the same lemma (`AdvanceStep`).

**Ethernet receive.** The three indices are the counters `received`, `processed` and `recycled` modulo
`N` (`RingInv`), the window between input thread and tail holds what the DMA wrote (`FilledInv`), and
what the input thread read from a descriptor is still there when it tests it (`ReadInv`), which needs
its priority: no other thread writes a descriptor between the two. That the tail never catches up
is a counting argument: the buffers in the stack, with the input thread and with the holder of the
mutex are different ones (`PlaceInv`), and there are `processed - recycled` of them (`CountInv`).
`Kinds` reduces every step to one of four that the ring can tell apart (receive, take, return,
none), and `BufferInv` is kept by each kind. The pool does not underflow, as every pbuf is
accounted for (`PoolInv`). `NoWakeUpIsLost` holds for every pool: `WakeInv` says that a frame in the
ring with nothing on its way to wake the input thread was left behind in one of the three ways of section 4
(a discard, no pbuf, an interrupt erased by the start of the link). The second needs a small pool: with `N - 1` pbufs and one more for each freeing thread (`PoolSuffices`; a buffer is back in
the ring before its pbuf is back in the pool) the input thread always finds one (`PbufsSuffice`).
The firmware's 9 descriptors and 10 pbufs cover two freeing threads.

**Ethernet transmit.** While nothing has timed out, the semaphore's token, the descriptors the DMA
owns and the interrupt that is pending all belong to the sender that holds the mutex (`TokenInv`,
`OwnedInv`, `MutexInv`). `LinkInv` follows the link thread through start and stop.

**Cores.** `BootInv` says where the M4 can be at each step of the M7, and that a flag the M4
finds once it waits for it was set by an M7 that is done, not left behind in the shared memory.
`LockInv`: of the two contexts of a core the one that does not run holds nothing, so that the
nesting counter is the number of locks the other is inside of, and what the outermost lock
saved of PRIMASK is what was there before; a semaphore is held once, for its core.

**System time.** `WrapsCounted` is not inductive: `WrapInv` adds that the next compare match is at
most half a period after the last reading that was accounted for, and that readings which are still
in the hands of a thread or of the interrupt are not older than that. With `SystimeAssumption` (half
a period and twice the latency of the interrupt fit into a period; the period is 2^32 - 1
microseconds) a reading comes in time for each wrap.
Lemmas on quotient and remainder (`DivMod`, `ModDiff`) carry the arithmetic.

**SD card, FTP, MicroPython, DHCP.** `ArmedInv` adds to `DetectionArmed` that nothing runs before the
interrupt is enabled. `XferInv` says whose token is in the semaphores while `clean`. `SessionInv`
states for each session what its program counter says of listener, path, data connection and
file; `CountInv` relates the global counters to the numbers of sessions, with the assumption that there are
finitely many (`IsFiniteSet(Slots)`); `MboxInv` says that connections wait only for sessions with a listener. `MpInv` relates the thread list, the GIL and the state
of each task. `StaticInv`: only `DHCP_Thread` starts a stopped client, after it has cleared the
address, and nobody does between its stop and the static address; a lemma for each function of `DhcpClient` says
that it never brings the static address (`Keeps`), and none but `dhcp_start` starts a stopped client.

Only model-checked:

* liveness (`EventuallyConsumed`, `EventuallyTaken`, `SendReturns`, `LinkComesUp`, `SpinEnds`, `BootCompletes`,
  `AddressUnlessLost`, `MountFollowsCard`, `RequestsEnd`, `VanishedClientDropped`): fairness and
  `ENABLED` are outside the prover's reach.

Every safety invariant, action property and refinement that a passing run checks has a theorem.

## 6. Not modelled

* `Fifo::reset` (only a test calls it, with nobody inside); batches of length zero or above
  `NElements`, which the room test lets through.
* The matrix display: one thread, one transfer, one token with a timeout, the pattern of
  `EthTx` and `SdCard` with nobody to interfere. The Modbus master: nothing in the firmware creates one.
* The TCP side of the trace server, which drops what it cannot send.
* Of the SD driver, the polling, interrupt, erase and abort functions, which nobody calls.
* FTP commands that only answer, the contents of files and listings; of MicroPython, the stack limit, the loading of `main.py`
  and the modules that wrap hardware.
* Formatting, UART, MAC filters, pins, clocks and register set-up; the interior of lwIP (but for
  its DHCP and AutoIP clients), FatFs, FreeRTOS, the HAL and the interpreter, which make up nearly all of the repository's lines;
  the cache, beyond the order of accesses.

## 7. Plan

What is left is proof:

1. Type correctness of the modules whose invariants were proved without it (`DhcpLink`, `SdDetect`
   and `SdCard`, `Ftp`, `Systime`, `MpPort`) for all values of their constants.
2. The safety half of the liveness properties: what a waiting thread may rely on, such as a
   token, a pending interrupt or a timeout that is still to come.
