# Verification of the woa-rk3576 drivers

The repository holds Windows drivers for the Rockchip RK3576: Ethernet, DMA, SPI, I2C,
GPIO, two SD hosts, audio and the glue between them. Each driver is a state machine
between three parties that do not wait for each other: a framework of Windows that calls
it, a device that interrupts it, and its own callbacks on other processors. The TLA+
modules here model those state machines, TLC checks them on small instances, and TLAPS
proves the most important facts for instances of every size.

Paths below are relative to the repository (`drivers/...`); `PROJECT.json` maps every
definition to the lines it models.

Contents: [1 the system](#1-the-system), [2 modules](#2-modules-and-code),
[3 runs](#3-runs), [4 fairness and assumptions](#4-fairness-and-assumptions),
[5 proofs](#5-proofs), [6 findings and observations](#6-findings-and-observations),
[7 what is not modelled](#7-what-is-not-modelled), [8 plan](#8-plan).

## 1. The system

### 1.1 dwc_eqos: Ethernet (`drivers/net/dwc_eqos`)

A NetAdapterCx client driver for the DesignWare Ethernet QoS controller.

| Part | State | Operations |
|---|---|---|
| transmit queue (`txqueue.cpp`) | packet ring and fragment ring shared with NetAdapterCx, descriptor ring shared with the DMA engine, `lastMss`, `lastVlanTag` | `TxQueueStart`, `TxQueueAdvance`, `TxQueueSetNotificationEnabled`, `TxQueueCancel`, `TxQueueStop` |
| receive queue (`rxqueue.cpp`) | the same three rings, in the other direction | `RxQueueStart`, `RxQueueAdvance`, `RxQueueCancel`, `RxQueueStop` |
| interrupts and power (`device.cpp`) | registers, `interruptsWanted`, `interruptStatus`, `rxQueue`/`txQueue`, link state, work item | `DeviceD0Entry`, `DeviceD0Exit`, `DeviceInterruptIsr`, `DeviceInterruptDpc`, `DeviceLinkStateWorkItem`, `DeviceSetNotification...Queue` |
| setup (`device.cpp`) | the MAC addresses, the receive filter, the configuration and what is derived from it | `DevicePrepareHardware`, `DeviceReleaseHardware`, `DeviceSetReceiveFilter`, `DeviceReset` |
| counters (`device.cpp`, `driver.cpp`) | `g_devices`, `g_devicesLock`, counter sets | `DeviceDriverInitialize`, `DeviceDriverCleanup`, `DeviceContextCleanup`, `PerfCallback` |

NetAdapterCx calls the queue callbacks one at a time per queue; the DMA engine runs on its
own and communicates through the Own bit of each descriptor and through the tail pointer.
Queues ask the device for a notification; ISR, DPC, work item and the calls of the queues
meet on different processors under two locks (`queueLock` and the interrupt lock).

Hard: ring arithmetic with a hole, context descriptors that mirror a register of the
device, cancelling while the engine owns descriptors, frames that the engine has taken
but not finished, stalls, lost notifications, lost link changes, leftovers of an earlier
power-up, a preparation that fails at any step, limits derived from one setting at seven
places. Correct means: every packet and buffer goes back exactly once and never while the
engine may use it; what is sent is what was asked for; only good frames are indicated; a
queue that waits is notified; NetAdapterCx learns of the last link state; the address the
firmware has set survives the driver; what the filter was asked to let in comes in.

### 1.2 acpiutil (`drivers/shared/acpiutil.cpp`)

Evaluates an ACPI method twice, first to learn the size of the answer, and walks the
arguments it returns. The Ethernet driver and the SD driver read their properties with it.
Hard: an answer that changes between the two calls, packages within packages, buffers
that three functions allocate and free. Correct means: each buffer is freed once; a
property has the value the table gives it, or the default.

### 1.3 pl330dma: DMA controller (`drivers/dma/pl330dma`)

The driver writes microcode for the PL330 (`insn.c`, `opcodes.h`), starts and kills
channels through one pair of debug registers (`dmacontroller.c`), and hands channels to
clients (`threads.c`). State: `Free`, `ReqRunning`, the microcode buffer of every channel,
`INTEN`, the list of notification callbacks. Its only client is the audio stream
(`csaudiork3x/Source/Utilities/hw.cpp`: `rk3x_program_dma`, `rk3x_play`, `rk3x_stop`).

Hard: loop counts and jumps that are bytes; no lock around the debug registers and INTEN;
waits without a limit at raised IRQL; instructions that the controller executes later or,
after a timeout, not at all. Correct means: the program moves the buffer, raises one
event per period and starts over; a stopped stream gives its channel back; microcode is
never rewritten under a channel that runs it; an active stream interrupts.

### 1.4 rk3xspi: SPI controller (`drivers/spi/rk3xspi`)

SpbCx client driver. One request at a time, carried out by polling: `Rk3xSpiSelect`,
`Rk3xSpiSetFormat`, chunks through two FIFOs, `Rk3xSpiDisable`. State: the registers, the
FIFOs, the position in the request. Hard: keeping sending and receiving in step with FIFOs
of a limited depth, timeouts in the middle of a frame, short buffers. Correct means: bytes
come from and go to the right places, the receive FIFO never overflows, nothing survives a
request, every request ends.

### 1.5 dwcmshc and dwcsdhc: SD hosts (`drivers/sd`)

Miniports of sdport, for the card and for the eMMC. sdport issues a request; the driver
sends the command, moves the data by DMA or by hand, collects events in an ISR that
returns them to sdport, whose DPC gives them back, and completes the request, in dwcmshc
if necessary through a work item that waits for the card to be ready or after a Stop
command of its own with a local DPC. State: `OutstandingRequest`, `RequiredEvents`,
`CurrentEvents`, `CurrentErrors`, the interrupt masks, `LocalRequestPending`.

Between requests sdport sets clock, voltage, width, speed mode and phase. dwcmshc takes a
divider over only by a command to its own clock unit; `rockchip_ops.cpp` and
`rk_sip_sdmmc_lib` set rates and phases by firmware calls and choose the sampling phase
from those that work. dwcsdhc sets a divider of the SoC and a DLL. Both fill descriptor
tables from scatter/gather lists over what an earlier request left there.

Hard: events that come in any order and between phases, errors in any phase, resets,
timeouts against late events, two requests at once, a card that goes away; a step of a
bus operation that fails; ranges of phases that wrap around; leftovers in a table.
Correct means: a request completes once, with success only if the card did it, and leaves
a free bus; the card is never clocked faster than asked, nor while the rate or the divider
of its clock change; the sampling phase is in the middle of the widest good range; the engine moves
exactly the list.

### 1.6 rk3xi2c: I2C controller (`drivers/i2c/rk3xi2c`)

SpbCx client driver. `i2c_xfer` holds a wait lock, programs the divider
(`rk3x_i2c_v1_calc_timings`) and runs the transfers of a request one by one; for each it
starts the controller and waits for an event with a time limit, while the ISR walks
`STATE_START`, `STATE_WRITE` or `STATE_READ`, `STATE_STOP`, `STATE_IDLE`, and a DPC sets
the event. State: `state`, `mode`, `isLastMsg`, `processed`, `transactionStatus`,
`currentDescriptor`, `waitEvent`. Hard: a late interrupt or DPC after the time limit, which
belongs to the next transfer for all the driver knows; NAKs; interrupts that find a state
they do not expect; transfers longer than the buffer; six roundings on the way to the
divider. Correct means: a transfer that succeeds has moved all its bytes and is followed by
a STOP; a wait that nothing can end is not entered; every minimum and maximum of the I2C
specification is kept.

### 1.7 rk3xgpio (`drivers/gpio/rk3xgpio`)

GpioClx client driver: per bank, direction, level, and interrupt enable, mask, type,
polarity, both-edge and status registers, and a context saved over power states. Two
register layouts; in the newer a register is written in two halves. GpioClx calls from two
sides: input, output and power calls, which it serialises, and interrupt callbacks at
DIRQL. Correct means: every line is set up as asked whatever its neighbours do and after
every power state; no output shows a level nobody asked for; no edge is lost or invented.

### 1.8 es8323 codec (`drivers/audio/codecs/es8323`)

Writes the start-up sequence of the codec over I2C on every power-up, and the reverse on
every power-down. Transfers fail; a boot stops at the first failure. State: the registers
of the codec, the objects `SPB_CONTEXT` points to. Correct means: a boot that succeeds
leaves the same registers whatever happened before; no transfer uses an object that has been
deleted, and none is left behind.

### 1.9 Audio: csaudiork3x and rk3xi2sbus (`drivers/audio`)

csaudiork3x is the PortCls sample with this hardware behind it. Its adapter is started,
installs up to two endpoints of two subdevices each, changes power states and goes
(`adapter.cpp`, `common.cpp`); it keeps the bus device of rk3xi2sbus from idling. Its
miniports make streams (`minwavert.cpp`), which PortCls starts, pauses, stops, asks for
positions and closes (`minwavertstream.cpp`) and which drive the I2S controller and the
DMA channel (`hw.cpp`).

Hard: a start that fails at any of twenty steps, statuses that overwrite each other,
references in circles, a pause without the lock that a stop takes, a DMA channel that
cannot be had or does not accept its program, DRM mixes that fail halfway. Correct means:
an endpoint is there whole or gone; the bus device is awake and programmed while the
adapter is in D0; the counts of streams agree with the streams; a channel never moves a
buffer that has been freed, and a running stream plays its own.

### 1.10 The rest

`lib/arm_smc_lib` is one firmware call; `storage_fix` and `whea_shutdown_fix` are registry
files; `tools`, `build` and `docs` are scripts, projects and text.

## 2. Modules and code

| Module | Models | Variables and what they stand for |
|---|---|---|
| `EqosTxQueue` | `txqueue.cpp`, ring helpers of `queue_common` | rings of NetAdapterCx (`pkt*`, `frag*`), descriptor ring (`desc*`), `lastMss`, `lastVlanTag`; `pc` and locals of `TxQueueAdvance` and `TxQueueCancel`; `hw*`: the DMA engine |
| `EqosRxQueue` | `rxqueue.cpp` | as above; `wrote`: what the engine put into a buffer; `hwStalled` |
| `EqosDevice` | power callbacks, ISR, DPC, work item, notifications of `device.cpp` | `power`: which callback comes next; `enabled`, `status`: the registers; `wanted`, `interruptStatus`, `notify`, `workBusy`: fields of the context; `isrNew`, `dpc`, `dpcNew`, `call`, `work`: the running callbacks |
| `EqosAdapter` | prepare, release, reset, receive filter, bus mode and frame limits of `device.cpp` | the context's addresses and configuration; the address, filter and mode registers; `asked`: what NetAdapterCx asked for |
| `EqosCounters` | the counter sets and `g_devices` | list, lock, life of each device, the place of each callback |
| `AcpiUtil`, `AcpiEvaluate` | `acpiutil.cpp` and how its callers use it | the walk through an answer, as operators; the buffers and the steps of an evaluation |
| `Pl330Program` | `insn.c`, `opcodes.h`, the request of `SubmitAudioDMA` | the program as a sequence of instructions with their sizes in bytes, and a channel that executes it |
| `Pl330Channel` | `_start`, `_trigger`, `_stop`, `_execute_DBGINSN`, `GetHandle`, `FreeHandle`, and `rk3x_program_dma`, `rk3x_play`, `rk3x_stop` | channel states, `INTEN`, the debug registers; `free`, `running`; `dmaThread`, `isActive`; one thread per stream |
| `Rk3xSpi` | `spb.c`, `hw.c` | target settings, the request, the buffers of a sequence, FIFOs and shift register |
| `DwcMshc`, `DwcSdhc` | request handling of the SD hosts | `outstanding`, `required`, `status`, `current*`; the interrupt registers; the bus, the FIFO and the card; what sdport does (`port`) |
| `DwcMshcBus`, `DwcSdhcBus` | clock, signaling, voltage, width, reset, tuning | the clock and phase registers and what the controller has taken over of them; `op`: the running bus operation |
| `SdTables` | both descriptor tables and the engines that read them | the memory of the table, the list, what has been moved |
| `SdRequest` | what sdport relies on | abstract: whose turn it is, parts left, the bus |
| `SdHosts` | sdport above either host; shows that both implement `SdRequest` | the union of `DwcMshc` and `DwcSdhc` |
| `Rk3xI2c` | `rockchipi2c.c`, `rk3xi2c.c`, `clocks.c`, `mdlchain.c` | the fields of the context; registers, buffers and bus of the controller |
| `Rk3xGpio` | `rk3xgpio.c` | registers, saved context, the running callback of each side; `use`, `driven`, `masked`: what GpioClx asked for |
| `Es8323` | `es8323.c`, `spb.c` of the codec | the transfers left, the registers, the objects |
| `AudioConstants` | | the parameters of the next two |
| `AudioStream` | streams of csaudiork3x | stream objects, counts, table and DRM mix of the miniports; `hw`, `chan`, `i2s`; the calls in progress and the lock |
| `AudioAdapter` | adapter of csaudiork3x, power of rk3xi2sbus | `pc`, `todo`, `ep`: where the start is; what is made, registered, cached, connected, referenced; power of adapter and bus |
| `EqosSetup`, `SdBuses`, `I2cDevices` | | unions of modules without common state (see below) |
| `EqosTxSetupProofs`, `EqosRxQueueProofs`, `EqosDeviceProofs`, `DmaSpiProofs`, `SdHostsProofs`, `AudioProofs`, `LowSpeedProofs`, `RecursionLemmas` | | the theorems of section 5 |
| `MC*` | | instances for TLC: packets, requests, targets, bounds |

What composes what: `Pl330Channel` joins the DMA driver with the audio driver that calls
it through an interface; `AudioStream` stands above it and knows a channel by the buffer it
moves, and `Es8323` stands above `Rk3xI2c` and knows a request by its outcome, which is what
the properties of the module below say of it. `AudioAdapter` joins csaudiork3x with the bus
driver whose power it holds. `AcpiEvaluate` joins `acpiutil.cpp` with two of its callers.
`SdHosts` puts sdport above either host. What joins other drivers is a framework of Windows
(SpbCx, sdport, NetAdapterCx, PortCls), which each module models from how its driver uses it.

Unions. A few modules (`EqosSetup`, `SdBuses`, `I2cDevices`, `MCEqosTxSetup`, `MCEqosRings`,
`MCDmaSpi`, `MCDevices`, `MCLowSpeed`, `MCSd`, `MCSdAudio`) hold components that share no state:
an initial choice (`part`, `which`, `host`) says which of them is there, only its actions are
taken, and the variables of the others keep the values they begin with. What is checked of a component is
therefore what a run of its own would check; interleaving it with strangers would add states
and no behaviour.

Where a callback runs while the device or another callback does, it is cut into steps at
each access to what they share: `TxQueueAdvance` takes a step per descriptor, the
DPC one per lock it takes and per register it reads, a GPIO callback one per register
access. What nobody can see in between is one step. Every error path is an alternative of
its action.

Abstractions:

- A packet is its fragment lengths, segment size and tag; a received frame is good or bad.
- A register is the set of its bits that matter; a descriptor, its owner and meaning.
- Time limits are actions that may happen at any time or, in `DwcMshc` and `DwcSdhc`, when
  nothing else can happen (`Quiet`): sdport waits for seconds, the card answers in milliseconds.
- Time does not pass. A poll loop of 100 tries may give up after any try.
- An ACPI answer is a sequence of arguments; a codec register holds what was written or a
  value nobody knows.
- Subdevices are a port and its miniport together; a DRM content is the set of contents it
  was mixed from.

## 3. Runs

| Run | Checks | Bounds, and why they do |
|---|---|---|
| `tx_setup` | transmit queue: the engine finds its own descriptors; each packet is sent with its segment size and tag; nothing is returned while in use; the driver does not write what the engine owns. Setup: the address survives; the filter and the frame limits let in what they should; counter callbacks find what they look at; ACPI answers are read and freed | 4 descriptors, 3 packet places: a packet with a context descriptor fills the ring but for the hole, and two packets are in flight. 3 address registers: a filter with two groups fills them beside the own address, one more does not fit. `*JumboPacket` around its limits, FIFOs of 1 KB and 32 KB. 2 devices and both counter sets: the list is walked while the other device goes |
| `tx_cancel` | *violation* of `NT_ASSERT(descBegin == descEnd)` | one packet suffices |
| `rings` | receive queue: no buffer in two hands; only good frames; a stall ends and cancelling returns every packet, and every buffer unless the packets ran out first. Transmit queue: every packet is returned | receive: 4 descriptors and fragments, 3 packet places: three buffers with the engine, one of them taken; frames of several fragments and of one; packets run out before fragments and the other way round; all indices wrap. Transmit: 8 descriptors, the least with which a packet may have two fragments, each split over several descriptors; it fills the ring but for the hole |
| `setup_flow` | *violation*: the pause threshold of a FIFO of 64 KB | one FIFO size |
| `devices` | Ethernet device: no request for a notification and no change of the link is lost; both are served. Channels: no channel lost; active streams execute; every call returns. Microcode: jumps land, one event per period, the words of the buffer are moved, the program fits. SPI: transfers as asked, with the settings of the target and nothing left over; requests end | a queue and the link; two processors, two work item threads: the least with which a work item is skipped. Two streams, calls one at a time, a prompt controller: what two callers at once do is `dma_overlap`'s, what a slow controller does is in section 6. Periods of 1, 256, 257 and 515 bursts, with no rest, with words left, and with a half word left; 1, 257 and 515 periods: all carries of the two nested loops. SPI chunks of 4 frames and FIFOs of 2: a request of 6 bytes takes two chunks, a chunk fills the FIFOs twice |
| `dma_overlap` | *violation*: an active stream without interrupts | two streams, calls at once |
| `low_speed` | I2C: transfers as asked unless an earlier one has timed out; waits end; timings. Codec: boots come out alike, no object is used after it is gone nor left behind. GPIO: lines as asked, no glitch, each edge once, no line unmasked before its modes are back | I2C buffer of 3 bytes: transfers of none, shorter, as long and longer; `MaxLate` = 1 timeout whose callbacks come late; base clocks of 24 and 200 MHz at three speeds. `MaxFailures` = 1 failed transfer per power-down and per boot, at any register; preparations fail at any object, or for want of a connection, as often as they like. GPIO: two lines, one in each half of a register: level and emulated pairs of edges on one, single edges on the other |
| `gpio_race` | *violation*: a direction bit is written back | two lines of one bank |
| `gpio_restore` | *violation*: an interrupt for an edge of the wrong direction | one line |
| `sd_audio` | SD requests of either host: both implement `SdRequest`; no event is waited for in vain; the FIFO is ready. Bus operations: no clock too fast; the clock is gated around what section 5 lists; the phase in the middle. Tables: the engine follows the list. Audio streams: counts, table and references; the DRM mix; a channel moves what it should; positions. Adapter: whole or gone; awake in D0 | FIFOs of two blocks or chunks, transfers of up to three: one can be ahead of sdport. 6 phases, 2 skipped after a bad one, instead of 360 and 20: ranges that wrap, touch and are skipped into. Descriptors of at most 3 bytes, 6 of them: elements that need a whole, two, and a bit. Two stream objects on two miniports with pins of one instance, as the endpoints have them: one stream beside the other, and a second that is refused; two contents. `MaxIdle` = 3 `StopIdle` calls outstanding: the one that is due, one too many, and one more |
| `sd_early` | *violation*: a request times out because its event came early | one programmed read |
| `sd_late` | *violation*: a request completes a second time because its event came early | one programmed read |

Deadlock is checked in every run.

Real sizes are larger: rings of 256 or more descriptors, FIFOs of 64 frames, chunks of 65535.
Everything the modules do with them is counting to a limit and wrapping, so that what
matters is the order of positions and which limits are reached at once. For both
rings, the device, its setup and counters, the microcode, the SD requests and descriptor tables,
the SPI and I2C transfers, the lines of a GPIO bank, the boots of the codec, the streams and the adapter the proofs
replace this argument.

**Refinement.** `SdRequest` is what sdport relies on: a request goes on part by part, ends once,
ends well only if the bus has done all of it without an error, and finds a free bus.
In a host, completing a request that sdport does not wait for, or that is not outstanding, is a `fault`,
which has no counterpart in `SdRequest`: `Turn` becomes a value no step of it allows. The one
exception is the fault of finding 7 (`Between`): what sdport makes of a request that ends while it is about
to go on with it cannot be known here, so that the model ends with it; `CompletedOnce` in run `sd_late` is about that case.
`HostsImplementSdRequest` is `SdRequest`'s specification under a mapping (`Turn`, `PartsLeft`,
`BusState` in each host): every step of an ISR, a DPC, a work item, a Stop command, a reset or a
card is a step of the abstract request or none. In dwcmshc a programmed read has one chunk,
because the driver announces a limit of 64 bytes for it (`dwcmshc.cpp:442`), which is no more
than the FIFO threshold.

Every property has a mutant in the module that breaks it: the definition beside the real
one, named for the mistake, e.g. `StopDoneStillRunning` or `TailWriteNeededIfNew`.

## 4. Fairness and assumptions

Fairness is assumed of what the code or the system schedules, never of what a user asks:

- `EqosTxQueue`, `EqosRxQueue` (in `MCEqosRings`): weak fairness of
  `TxQueueAdvance`/`RxQueueAdvance` (NetAdapterCx calls again while it is notified or polls),
  of the loop of `TxQueueCancel`, and of the engine for descriptors it owns.
- `EqosDevice` (in `MCDevices`): weak fairness of ISR, DPC and work item; strong fairness of the steps that
  wait for the interrupt lock, because it is free again and again and its queue is fair.
- `Pl330Channel` (in `MCDevices`): weak fairness of each thread and of the controller.
- `Rk3xSpi` (in `MCDevices`): weak fairness of the driver, strong fairness of the time limit: a
  poll loop that goes round for ever exceeds it.

All other modules are checked for safety only. That an I2C wait or an SD request ends is
there a safety property: a state in which the driver waits always has something pending that
will end the wait (`WaitIsServed`, `EventsComeOnceOnEither`), and the time limit ends it in
any case.

Assumed of code outside the repository:

- NetAdapterCx serialises the callbacks of a queue. WDF waits for the DPC when it
  disconnects an interrupt, but may start a work item again while it runs.
- The Ethernet engine moves its current-descriptor register when it takes a descriptor and
  clears Own when it is done; once TX debug status says drained, no packet is in progress. The
  filter, address and bus-mode registers, written only by prepare and by the filter callback,
  keep their values in D3.
- Disabling the SPI controller empties its FIFOs.
- A PL330 channel accepts KILL while it is completing a fault.
- sdport has one request outstanding, has run its DPC before it issues another, never asks
  about a request it has given up, masks interrupts around `MshcResetHost` of the command
  line and unmasks before that of the data line (`dwcmshc.cpp:1360-1367`). Its DPC may run at any
  moment of a request, also while sdport has yet to go on with it. A reset revives a card that hangs.
- The memory for descriptor tables that sdport allocates has room for those of its lists.
- In `DwcMshc` and `DwcSdhc` ISR, DPC and `SlotIssueRequest` are single steps.
- GpioClx serialises all that is not an interrupt callback and holds the interrupt lock around
  those. The GPIO registers are lost in D3 and kept in F1.
- The I2C controller loses its registers in D3. No request asks it to read no bytes (section 6). The codec's registers after its reset are left open.
- The audio engine asks for DMA buffers of two bursts (64 bytes) at least. The driver does not check
  it (`minwavertstream.cpp:305-310`; section 6).
- PortCls makes one request of a stream or of the adapter at a time, but may ask for a position
  at any moment; it stops a stream and frees its buffer before it closes it; what it undoes
  succeeds; it lets go of the adapter in the end.
- The power manager keeps the bus device awake as long as more `StopIdle` than `ResumeIdle`
  calls are outstanding, and promises D1 or D2 of it for some sleep states (`buspdo.cpp:305-318`).

## 5. Proofs

| Theorem | Says | Holds for |
|---|---|---|
| `EqosTxSetupProofs!TypeCorrect`, `RingOrdered`, `DeviceFindsOwn`, `DriverLeaves`, `KeepsPacketsInUse`, `CompletionsFollowPackets`, `PacketsTransmittedAsAsked` | `TypeOK`, `RingOrder`, `DeviceFindsOwnDescriptors`, `DriverLeavesDeviceDescriptors`, `NoReturnWhileInUse`, `DescriptorsFollowPackets`, `TransmitsAsAsked` | rings of every size, packets the driver's assertions admit |
| `EqosRxQueueProofs!KeepsBuffersInUse`, `ReturnsGoodFrames`, `RingsKeepBuffersInUse`, `RingsReturnGoodFrames` | `NoBufferReturnedWhileInUse`, `OnlyGoodFrames`; `RxKeepsBuffersInUse`, `RxOnlyGoodFrames`, which are the same of the two queues in run `rings` | rings of every size |
| `EqosTxSetupProofs!AddressIsKept`, `AdapterReceivesAsAsked`, `CountersFindDevices` | `AddressKept`, `ReceivesAsAskedAndWhole`, `CallbackFindsDevices` | any number of address registers, filters that fit them, jumbo packet and FIFO sizes; any devices and counter sets |
| `EqosTxSetupProofs!MethodsAlwaysReadAndFreed` | `MethodsReadAndFreed` | every set of methods: any number of entries, of any form and length; any keys |
| `EqosDeviceProofs!TypeCorrect`, `RequestsKept`, `MaskedForDpc`, `AssertionsHold`, `LinkChangesKept` | `DeviceTypeOK`, `ArmedNotLost`, `MaskedOnlyForDpc`, `LifecycleAsserts`, `NoLinkChangeLost` | any number of processors and of work item threads (`DeviceAssumption`: which queues and interrupts there may be) |
| `DmaSpiProofs!TypeCorrect` | `TypeOK` | any number of streams |
| `DmaSpiProofs!MicrocodeMovesPeriods` | `PeriodsMoved`: `JumpsLand`, `EventPerPeriod`, `BufferCovered`, `ProgramFits` | every buffer of whole periods, each of a burst at least, of whole words or not, whose last jump fits its byte (`RequestsAssumption`) |
| `DmaSpiProofs!SpiServesAsAsked` | `SpiTransfersAsAsked` | every set of requests (any number of segments of any lengths), of targets, every chunk size and FIFO depth |
| `LowSpeedProofs!TransfersAlwaysAsAsked`, `WaitsAlwaysServed` | `TransfersAsAskedInTime`, `WaitIsServed` | every set of requests (any number of transfers of any lengths), every buffer size, any base clocks, any number of late requests |
| `LowSpeedProofs!NeverGlitches`, `EdgesAlwaysServedOnce` | `NoGlitch`, `EdgesServedOnce` | banks of any number of lines, halved anywhere, any configurations; `ReconfigureInterrupt` not during a change of directions (`Overlap` = FALSE; finding 4) |
| `LowSpeedProofs!CodecAlwaysComesBack` | `CodecComesBack` | any number of failures at any transfer, whatever the registers held first (`Garbage`) |
| `SdHostsProofs!ImplementsSdRequest`, `RequestsCompleteOnce`, `PioAlwaysFindsBlock`, `EventsAlwaysComeOnce` | `Spec => AsRequest!Spec` (the refinement of `SdRequest`), `CompletedOnce`, `PioFindsBlock`, `EventsComeOnce` | every set of requests; a DPC between two phases is a step like any other, and the last one (finding 7) |
| `SdHostsProofs!HostsImplement`, `PioAlwaysFindsPart`, `EventsAlwaysComeOnEither`, `HostsCompleteOnce` | `HostsImplementSdRequest`, `PioFindsPart`, `EventsComeOnceOnEither`, and `CompletedOnce` of either host | for dwcsdhc the same; for dwcmshc every set of requests within its limit for programmed transfers, every FIFO |
| `SdHostsProofs!ChangesGated` | `BusChangesGated` | every base clock, every rate asked for, any number of phases |
| `SdHostsProofs!EngineAlwaysFollowsList` | `EngineFollowsList` | lists of any number of elements, any length of a descriptor, memory with room for the descriptors (`TableAssumption`) |
| `AudioProofs!AdapterTypesCorrect`, `WholeOrGone`, `ReadyWheneverInD0` | `AdapterTypeOK`, `AllOrNothing`, `ReadyInD0` | every topology, any bound of `StopIdle` calls |
| `AudioProofs!StreamTypesCorrect`, `StreamsAlwaysAccounted`, `PositionsFromOwnChannel` | `StreamTypeOK`, `StreamsAccounted`, `PositionOfOwnChannel` | any number of stream objects, contents and instances per pin |
| `AudioProofs!MixedContentsKept` | `MixKept`, `MixCurrent`: what of `MixOwned` holds for any number of instances | any number of stream objects, contents and instances per pin |
| `AudioProofs!TransfersAlwaysOwnBuffer`, `MixAlwaysOwned` | `TransfersOwnBuffer`, `MixOwned` | any number of stream objects, one instance per pin, as the endpoints have it |

Each rests on the assumptions of its module (named `ASSUME`s on the constants) and on what
section 4 says of code outside the repository.

**Transmit ring.** `DeviceFindsOwnDescriptors` is not inductive: that the engine's
positions lie inside the ring part in use depends on what `TxQueueAdvance` has computed
but not yet stored. The invariant `RingOrder` orders all positions by their distance from
`descBegin` (`hwDone`, `hwNext`, `descEnd`, `descIndex`), says that everything from
`hwDone` to the tail is owned by the engine, and says which phases each state of the
queue allows. The lemmas before it are the arithmetic of a ring: what `DescDist` and
`DescFwd` are, that distances add until they wrap, that they are injective. That the
driver never writes a descriptor of the engine then follows from the place of the
descriptors `QueuePacket` fills: behind the tail, and, by `PacketFits`, before the hole.
`TxQueueAdvance` never looks up which packet a completed descriptor belongs to; it walks
descriptors and packets side by side. That they agree is `PacketInv`: fragments lie one packet
after the other (`FragsInv`), descriptors are in the order of their packets and none is for an
ignored one (`FilledInv`), every other packet up to the last one filled in still has its last
descriptor (`LastInv`), and the first loop stands at the packet of the next descriptor
(`ReapInv`). Without `LastInv` the loop could run past a packet, and return the next one too
early. `UseInv` adds that the engine has nothing to read outside the queue's use. All positions
are distances from where a ring's used part begins, so that returning packets only moves them.

`TransmitsAsAsked` compares what a packet asks for with what the engine has in its registers
when it gets to the packet: the driver writes a context descriptor only if the segment size or
the tag differs from `lastMss` and `lastVlanTag`. `ContextInv` says of every descriptor in use
what the engine will know when it gets there, which is what the last context descriptor before
it sets, or else what is in its registers; and that `lastMss` and `lastVlanTag` are what it will
know behind the last one.

**Receive ring.** `NoBufferReturnedWhileInUse` speaks of descriptors and fragments, which are
two rings of different sizes; nothing in the state links them. `LockstepInv` does: the k-th
descriptor from `descBegin` on is that of the k-th fragment from the first one handed over.
`OrderInv` orders the positions of driver and engine around the descriptor ring, as `RingOrder`
does for the transmit queue, and `LifeInv` says that a queue that is not in use has an engine
that does not run. `FrameInv` follows a frame from the engine's write to the return of its
fragment: a descriptor the engine has given back says of its buffer what was written to it.
A cancelled queue has nothing left in the engine, so that its buffers can go back at once.
The two queues of run `rings` share no variable, so that the invariant carries over.

**Setup.** `AddressKept` depends on which steps of `DevicePrepareHardware` have been taken
when one fails: `AddressInv` says that until the reset the device still has the firmware's
address, and that an address which has been read is that one. `FilterInv` says that from the
reset on the registers are those of the last filter that was asked for, and that none outlives a
release; `SizeInv` that from `PrepareSettings` on the frame size is between 1514 and 9014 and that
what NetAdapterCx was told and what `DeviceD0Entry` has written are both computed from it. The
rest is arithmetic over those sizes. That no filter has more groups than there are registers
beside the first is assumed of NetAdapterCx (`AdapterAssumption`), which is told that number
(`device.cpp:1293`).

**Counters.** A callback that has the lock keeps it, so the list is that whose length it has
read (`CallbackInv`); a device in the list has not been cleaned up (`ListInv`), because
`WdfCollectionRemove` takes the only entry of a device - each is added once - before its
context goes. The pointer to the list is read without the lock; that it is still there is
due to the counter sets, which are unregistered first (`UnloadInv`).

**ACPI.** For each step of an evaluation `BlocksInv` says which blocks are allocated and to whom they
belong, `ContentInv` that what is handed over is the whole method. That reading it gives what the table
says is about data of any length: the entries lie one after the other behind the two arguments of a
_DSD (`Laid`), so that the walk stands at one entry after the other (`NextEntry`), for as long as
these are pairs with another key (`LoopEnds`). It comes to an end because it only moves forward
(`MovesForward`), which is also why the recursive definition of the loop has a value (`Downward`). What
the firmware returns must be well formed (`AcpiAssumption`): a package knows its length, and an
argument outside a package is not an empty one.

**Device.** `IInv` adds to the properties where requests can be found: a queue has a call
or a request only while it exists (`QueueInv`), nothing of ISR and DPC is left while the
interrupt is not connected (`QuietInv`), `wanted` holds `InterruptsState` exactly from
`DeviceD0Entry` to `DeviceD0Exit` (`WantedInv`; without it `DpcEnable` would not unmask),
and the busy flag stands for one thread (`WorkInv`). `LinkInv` strengthens
`NoLinkChangeLost` by what a thread that has read the link, but not yet reported it, must
leave behind if the link has changed since.

**Channels.** Run `devices` checks the channels with calls one at a time and a prompt controller.
For any number of streams `DmaSpiProofs` proves the same under these two assumptions
(`ChannelsKept`, `ActiveStreamsExecute`, `MicrocodeWrittenAtRest`): the invariant says for each place of a
thread what its stream holds and what its channel does or will do when the controller gets to the pending
instruction (`Started`, `Halted`), and `KeptByOne` reduces every step to its own stream, because the debug
registers are used only when no instruction is pending. As the code guarantees neither assumption, these are
conditional facts: they say where the trouble comes from - finding 3, and the timeout of
`_execute_DBGINSN` (section 6) - and are not counted as properties of the driver. `LinesAlwaysAsAsked` of
`LowSpeedProofs` is such a fact as well (finding 4).

**SPI.** Bytes are in order because the controller is a chain of two FIFOs around a shift
register: `Flow` says that what lies in `txFifo` continues what is on the wire, and that the k-th
answer is the k-th frame's; `Counts` adds up what is sent, under way and received, from which it
follows that `rxFifo` holds at most `txi - rxi` answers, which the driver keeps within
`FIFO_DEPTH`. `Stages` says that the FIFOs are empty outside a chunk, also after a timeout: the
frames it leaves are still sent and answered until the controller is disabled, and are never read.
`Target` is about the divider. From all bytes on the wire to *the request has been served as
asked* it is a matter of data: that what `Gather` has put together from the segments lies where
`Offset` looks for it (`GatherInPlace`). That is an induction over the segments; as the library's
rules of induction take an operator, it is done with the set of the numbers for which the claim
holds (`UpFromZero`), and the recursive functions `Total` and `FlattenSeq` are unfolded with a
recursion theorem proved the same way (`RecursionLemmas`: `Recursion`, `FlattenStepwise`).

**I2C.** START, the address, the bytes by their index and STOP are consecutive numbers, so that what is
on the bus is a beginning of that sequence behind what the transfers before have put there
(`Parts`, unfolded with `RecursionLemmas`). `Starting`, `Writing`, `Reading` and `Stopping` say for
each phase how long a beginning it is, what the two buffers hold, and which interrupt is
enabled, pending or still to be raised; `Ended` that the DPC or the event is on its way to
the thread, and `Resting` that nothing is left between two waits: no bit of REG_IPD that the next
START could take for its own. That is `Timely`. It holds until a wait times out; a late routine then works on
whatever transfer is there, and only a power cycle restores it, which is why `BusInv` asks
for it only while `late` is 0.

**GPIO.** What a callback has still to do is in the state: a list of register accesses. `GpioInv`
says what the list looks like whatever of it is done (`Listed`: it stores only what it has loaded or
overwrites, in an order of its own), that what has been loaded is still what the register holds, but for
the half that is stored already (`Agree`), and of every line that each bit is, or will be when both
sides have done what is left of their lists, what GpioClx asked for (`ModeOf`, `MaskOf`; `Settled`,
`Holds`). `Agree` is where two callbacks could disturb each other: a register loaded by one side is
not stored by the other before the first has stored it, because both hold the interrupt lock or
work on different registers (`Disjoint`). For that `ReconfigureInterrupt`, which stores directions,
must not run next to `ConnectIoPins` and `DisconnectIoPins`, which do so without the
lock (`LockInv`). `EdgeOf` says that an edge is pending if it is latched, unless the line
is being enabled and EOI is still to come (`Dirty`), or the bank starts; such a line is masked.
`SavedInv` carries the lines over D3 and F1, `StartInv` says that a start leaves the mask as it was.
That a step keeps all that is one lemma for the accesses (`AccessKept`), whichever callback makes them,
and one for the beginning and the end of each callback.

**Microcode.** What an instruction has to do depends on where it stands in a program that is put
together at run time. `Layout` says where the parts of the program lie: four instructions
that set up, `p` copies of the period, the end of loop 0, the copies of the periods that are
left, DMALPFE. `PeriodAt` says the same of the parts of one copy: a loop around bursts, a second
one for the rest, the words that are left as a short burst, the event. Both are concatenations of
as many pieces as a request needs, and follow from `RecursionLemmas`. The invariant `ProgramInv`
goes by the place of the channel. In copy `k` of the period, in turn `q` of loop 0, `q * p + k`
events have been raised and as many periods moved - of each the whole words, `WholeWords` - and `period` more; within a copy `PeriodPos`
says what `period` and the counter of loop 1 are (in the loop, the turns that are gone times
the bursts of a turn). So every event comes at the end of the words of a period, and at DMALPFE the turns and
the copies behind the loop add up to `NumPeriods`. That a jump lands where the loop begins needs the
sizes: places in bytes grow strictly, so only one instruction lies so many bytes back
(`Target`), and the number is less than 256, so that its byte does not wrap. That last part is an
assumption for DMALPFE, which jumps farthest, in `RequestsAssumption`; it makes the shorter jumps
fit. The other one is that a period has a burst at least. The driver checks neither. Its one caller asks for
two periods of half the buffer (`hw.cpp:318-336`), which is a number of whole frames of 4 bytes
(`minwavertstream.cpp:310`), so that half of it may end with half a word.

**Codec.** Two boots come out alike because each leaves behind what its own transfers say. `SetUp`
says that each register that is written by one of the first k transfers of a boot holds what the last
of these puts into it (`LastWrite`, `Value`): a value of the list or, for the three registers that are
written back, one made of what this boot has read (`Remembers`), which it had written itself before.
That holds from the first transfer on, whatever the registers held before, and only the first one is a
reset (`ResetOnce`); after all 61 every register that `BootIsReproducible` speaks of is among them
(`TouchedWritten`). `ObjectsInTime` is about the pointers in `SPB_CONTEXT`, which nothing clears: a device that
is prepared has made all three objects anew, whatever was deleted before.

**SD host.** That `DwcSdhc` implements `SdRequest` needs to know, at every completion, that all
parts of the request have happened or that an error has: completion depends on events that were
collected in any order, in `CurrentEvents`, in the DPC's copy or still in the interrupt status
register. `OnceInv` says that each event a request waits for is in exactly one of these places
or has not come yet, `SeenInv` that an event handed to the DPC was not overtaken by an error of
the same request, `PacedInv` that the blocks in the FIFO, those moved and those still to come add
up to the request. A DPC that comes between two phases is a step like any other; if it completes the request
(finding 7) the behaviour ends there, which `RequestsCompleteOnce` and `HostsCompleteOnce` say of this step and no
other. Any other request that ends twice would have no image. The mapping takes each step to one of
`SdRequest` or to none.

In dwcmshc a third party completes requests, the busy work item, and the driver issues one of
its own, the Stop command; and a DPC for one request may bring events of an earlier one. `OwnerInv`
says for each state of sdport who may own `OutstandingRequest` and that a DPC which is still
queued then finds nothing to complete; `WorkerInv` that the work item is queued only when all
that is left is the busy signal. `WireInv` orders command, data and busy on the bus, and
`PlaceInv` says, as `OnceInv` does, that each event is in one place and that no data request
overtakes the response. `TruthInv` is why a completion is true: an error is visible to whoever
reads the event it belongs to. `FifoInv` adds up the chunks. That events of a DPC between two phases
are dropped (`RequestDpc` returns early when nothing is required) makes nothing untrue, because a
programmed read has one chunk, and the room for a written one does not go away; this is where
`MshcAssumption` is needed, which the limit of 64 bytes justifies (`dwcmshc.cpp:442`). What
is lost is time: a request that waits for such an event ends with a timeout (finding 5).

That nothing is waited for in vain is a second invariant, beside the first. For dwcsdhc `ComingInv`
says that until an error comes each event a request requires is in the status register, in the
DPC's copy or still to be made by the command, the data or the busy signal, and that a data
request which is missing is one for which there is no block or room now. For dwcmshc that is `HeldInv`, which is not
inductive alone: a timeout does not end a request at once, because CMD or DTO still comes
(`TimeoutNotOver`), so that event must still be required when it does, and the two timeouts may
not be pending together. `BehindInv` says that no error but a timeout of the command itself
overtakes the response; hence a request that fails has had it, the response does not come after the
reset of the command line (`FailedInv`), and the CMD that ends the Stop is the Stop's own
(`StopInv`). `StopInv` also says why the Stop is not held up by a data timeout that was read
with its response: the Stop ends the data transfer, and DTO comes with it. dwcmshc's programmed
transfers are left out (`~Pio`), because of finding 5.

Bus operations: `BusChangesGated` says that the card is not clocked while, in dwcmshc, the rate of the parent
clock or the divider changes, and, in dwcsdhc, the divider of the SoC, the UHS mode or the
signaling do. It follows from what is off in the middle of an operation
(`GatedInv`): both clocks in dwcmshc's, the card clock in dwcsdhc's. Speed mode and voltage of dwcmshc
(`dwcmshc.cpp:1671-1707`, `1783-1789`) and the high-speed bit of dwcsdhc change with the clock on, and nothing is said of
them. `NeitherTooFast` takes the rate that a failed `SdSetClock` of dwcsdhc has programmed for one that was asked for,
and says nothing while the clock registers of the SoC are not mapped.

Descriptor tables: `BuildInv` says that the bytes of the descriptors written so far, followed by
what is left of the element, are the bytes of the elements so far (`First(l)[i]`). Both are
concatenations of as many pieces as there are, so they are not expressions but functions `G`,
each value of which is the one before and a piece more (`Piled`); the engine has moved a value of
that function (`EngineInv`). The driver counts no descriptors: that it stays in its memory is
the assumption that sdport's memory has room for the first `i` elements in `n[i]`
descriptors, and `BuildInv` that no more than that have been used.

**Adapter.** `AllOrNothing` says what is there once an endpoint has been dealt with;
nothing of it can be concluded from one step to the next without knowing what an
installation has got to. `FilterInv` says, for each step of `InstallEndpointFilters`, which
of the two subdevices are made, cached and registered by then, `AheadInv` that nothing is
known of endpoints still to come, `MadeInv` what of the adapter's common object exists at
each step of `StartDevice`. `ReadyInv` is the power half: in D0 the bus device is awake,
programmed and kept from idling by a `StopIdle` call of this adapter.

**Streams.** For each place of a call, the invariant says what the stream and the miniport
have (`ObjectInv`, `CallInv`), that a `GetPosition` under way holds the lock and can lose
its channel only to a pause, which does not take it (`QueryInv`), and what the hardware
object has at each step of `rk3x_play` and `rk3x_stop` (`ThreadInv`).
`StreamsAccounted` needs that `NewStream`, which has checked the count, finds a free place in
the table: `FreePlace` is the pigeonhole principle, from the injection of the streams of a
miniport into its table (`AccountInv`). `TransfersOwnBuffer` needs in addition that there is
at most one stream per miniport (`OneInv`): `dmaThread` is one field for each direction, and
with two running render streams it would not be true. The mixed content is remade by
`UpdateDrmRights` when a stream goes or changes its content, but not when one is opened
(`StreamCreated`): with several instances it lacks the content 0 of streams that were opened since
and never set one (`MixCurrent`), and with one instance it cannot, which is `MixAlwaysOwned`.

**Only model-checked**: liveness (`EveryPacketReturned`, `RxGoesOn`, `QueuesAndLinkServed`,
`WaitsEnd`), which is beyond the proof system; the I2C timings, which
are products and quotients of variables, beyond the solvers' linear arithmetic; `NeitherTooFast`
and `TunedInTheMiddle`, which are about numbers: a divider that is rounded is best for the rates of
this chip, not for every rate, and tuning skips phases after a bad one.

## 6. Findings and observations

Shown by runs that expect a violation:

1. `tx_cancel`: `TxQueueCancel` calls `TxQueueAdvance`, which fills new descriptors for
   packets that wait, although the engine has stopped: the assertion at
   `txqueue.cpp:528` fails.
2. `setup_flow`: for a receive FIFO of 64 KB the threshold to end a pause, 94, is written
   into six bits, which hold 30 (`device.cpp:651`), less than the 62 that begin one: a sender
   is told to go on with less than 16 KB left, not 48 KB as the comment at line 638 says.
3. `dma_overlap`: INTEN is read and written back without a lock
   (`dmacontroller.c:302`); when two streams start at once, one has no interrupts.
4. `gpio_race`: `ConnectIoPins` and `DisconnectIoPins` read, change and write the direction
   without the interrupt lock (`rk3xgpio.c:2052`), under which `ReconfigureInterrupt` does
   the same; the comment at 1887 demands the lock.
5. `sd_early`: an event that arrives while a request requires none is dropped by the early
   return at `dwcmshc.cpp:1143`, against the comment at line 1159.
6. `gpio_restore`: restoring writes the types of the interrupts before their polarities
   (`rk3xgpio.c:2453-2457`) and after the EOI of the start (1073); an edge of the wrong direction, latched in
   between, is an interrupt as soon as the line is unmasked, which the comment at 2466-2469 says its order avoids.
7. `sd_late`: a DPC of sdport that brings the next phase's event between two phases of a data request completes the
   request again (`dwcsdhc.cpp:903-911`), against the comments at 865 and 878: `OutstandingRequest` is still set and
   nothing is required of it.

Met while modelling. Where a model takes note of one, the variable or constant that does is
named; the properties hold in spite of it or say what they leave out.

- dwc_eqos: `DeviceReset` counts `retry` down from 0, so that it polls up to 2^32 - 1000
  times, and its `STATUS_TIMEOUT` is a success code (137). `DeviceReleaseHardware` does not
  clear the interrupt pointer: the assertion of `DevicePrepareHardware` (832) fails when
  resources are rebalanced, and the check for a missing interrupt (919) passes on the old
  pointer. If preparation fails before the address has been read, release writes zeros
  back (1423; `spoiled`). A link change is lost if a second work item finds the first one
  busy after it has read the register (453; `missed`). `PerfCallback` reads registers that
  may not be mapped. A receive queue that is cancelled when its packets have run out looks at no descriptor any
  more (`rxqueue.cpp:115`): the fragments of the frames received since stay with it (`LeftBehind`).
  The receive filter is not updated atomically. Limits wrap or
  underflow for a FIFO of 128 bytes, a pbl of 0 and a burst length of 0.
- acpiutil: `AcpiDevicePropertiesQueryIntegerArrayValue`, which nothing calls, compares the
  length of an element in bytes with the number of elements. The retry allows for one larger
  answer.
- pl330dma: the ISR overwrites `irqLastEvents` before the DPC has read it
  (`dmacontroller.c:69`); a controller slower than 5 ms leaves a channel taken to run that
  does not (136); two threads in `_execute_DBGINSN` mix their instructions; `FreeResources`
  stops the first channel once for each (`threads.c:82`). The microcode moves words: of a period of 2 more
  bytes than a multiple of 4, which half of a buffer may be (`minwavertstream.cpp:310`, `hw.cpp:324-336`), it moves 2
  bytes less (`WholeWords`), so that the second period begins 2 bytes early and the last 4 bytes of the buffer are never moved. With less than a burst to a period,
  32 bytes, DMALP gets a count of 0, which the controller takes for 256. `pl330.h:217` says a program for
  2.5 MB takes 256 bytes; it takes more than 800, and its buffer has 512. Audio buffers stay
  far below.
- rk3xspi: chip select drops between two chunks of a request of more than 65535 frames
  (`hw.c:125`), against the comment at line 14; the divider is clipped below 200 MHz / 65534;
  IMR and DMACR are not written again after D3 (`driver.c:77`); lengths are added in 32 bits
  (`spb.c:202`).
- dwcmshc: with reads of several chunks, which the driver does not announce, a data timeout in the
  window of finding 5 would let a read succeed without its data and a stale `BUFFER_FULL` would let `MshcStartPioTransfer` read an
  empty FIFO; reads complete on DTO without waiting for the DMA controller. A Stop that fails
  leaves `OutstandingRequest` at a request that is gone (844-847); a request that is carried
  out synchronously may leave `LocalRequestPending` set (2747); a reset can complete a clock
  change that failed. `MshcSetVoltage` computes Pwren and does not write it (1484-1518);
  switching to 1.8 V is refused on Rockchip with the voltage bit already set and the clock off;
  the condition for HS200 is inverted (472); the fallback clock of 24 MHz / 64 exceeds rates
  below 187.5 kHz; INTMASK is read, changed and written without a lock (2489).
- dwcsdhc: `ExecuteTuning` leaves `EXECUTE_TUNING` set so that its assertion (1912)
  fails the second time; the assertion of `SetPresetValue` (2027) is inverted; turning the
  voltage off ends with `BUS_POWER` set; the clock is enabled after a clock change that has
  failed; the divider of the SoC is written before the PHY has refused the rate; normal and
  high speed leave the UHS mode bits; `SetBlockGapControl` writes nothing; 416-426 and
  446-460 have no effect and `CalcClockFrequency` (3238-3330) has no caller.
- rk3xi2c: `isLastMsg` is set whenever a transfer is complete, so that every transfer of a
  sequence ends with a STOP instead of a repeated start; after a NAK of an unfinished message
  there is none. The limit called 1000 ms is 100 ms (`rockchipi2c.c:397`). After a timeout the
  old ISR and DPC may belong to the next transfer, or store into a request that is gone
  (`late`). A read of no bytes raises no interrupt, and a request for one ends with the time limit.
  A byte that cannot be stored does not end a read. SDA hold time underflows below
  27 kHz.
- rk3xgpio: the enables are not in the saved context.
- es8323: powering up ignores a boot that failed; a failure of `SpbTargetInitialize` deletes its
  objects, and the release that follows deletes them again, as does the release of a device that was not even given a
  connection (568-572) after an earlier one (`deletedTwice`, `prepareFailed`); the target is not closed although
  it was opened without sharing.
- audio streams: `rk3x_stop` waits under a spin lock; a pause takes no lock (`paused`); after
  `SubmitAudioDMA` has failed the next run is silent until a stop (`unsent`); the position of a
  stream that is not active is uninitialised memory, returned with success; the positions
  saved by a pause are not used; the last mix is not destroyed with its miniport, and a
  miniport whose streams are closed keeps the old one; `SetContentId` restores nothing where its
  comment says so; `IsFormatSupported` compares the pin's own size.
- audio adapter: `CacheSubdevice`'s failure is masked, so that a subdevice can be registered but
  not cached; an endpoint without its topology filter succeeds; `StartDevice` can fail with
  everything installed; `DisconnectTopologies` announces the first error and returns none.
  A wake-up from D1 or D2 calls `StopIdle` once more than it is undone, a destructor in D3 calls
  `ResumeIdle` once more. Adapter, ETW helper and miniport hold each other. rk3xi2sbus leaves
  `m_MMIO` and `rkTplg` pointing at what it has released.

## 7. What is not modelled

- dwc_eqos: what the capabilities announce, the text of properties, the counters' values.
- pl330dma: ISR, DPC, notification list, `FreeResources`: planned. Linear transfers have no caller.
- SD hosts: dwcmshc's voltage and width registers, crash dumps, initialisation from ACPI, tracing.
- Resources, ACPI properties and power of rk3xspi; resources of rk3xi2c and rk3xgpio; reads of GPIO
  pins, which change no state.
- csaudiork3x: topology filters and tables of the sample, formats and modes, property handlers,
  `KSSTATE_ACQUIRE`, register values of the I2S controller, `GetFilters`, `RemoveEndpointFilters`.
- rk3xi2sbus: the topology's bytes; its interrupt, which nothing enables.
- arm_smc_lib, registry files, tools, build: no state of their own.
- Memory and register ordering: accesses take effect in program order.

## 8. Plan

1. `Pl330Channel`: ISR, DPC and callbacks, and the release of the resources.
2. `EqosDevice` together with the two queues: a notification that is asked for while a queue
   advances, and an abstract queue that both rings implement.
