# A TLA+ model of the M-core firmware

The repository holds the Zephyr firmware of the microcontroller core (Cortex-M4
of an i.MX8M Mini, Cortex-M7 of an i.MX8M Plus) in a vehicle data logger. The
core owns a CAN controller and an ADC, and talks to Linux, on the other cores of
the same chip, over rpmsg. The repository has no unit tests; what is hard in the
firmware is in its orders of events, on two cores and several threads, and that
is what these modules are about.

1. [Inventory](#1-inventory)
2. [Modules and how they correspond to the code](#2-modules-and-how-they-correspond-to-the-code)
3. [Runs](#3-runs)
4. [Bounds](#4-bounds)
5. [Fairness](#5-fairness)
6. [Proofs](#6-proofs)
7. [Where code and comments disagree](#7-where-code-and-comments-disagree)
8. [Not modelled](#8-not-modelled)
9. [Plan](#9-plan)

`tlc -config <X>.cfg <Module>` repeats a run, `tlapm <Module>Proofs.tla` a proof.
`PROJECT.json` maps every definition to the lines it translates. A definition
marked `mutant` is not part of the model: it is a plausible mistake in the
definition after it, kept to show that the property named beside it in
`PROJECT.json` notices the mistake.

## 1. Inventory

### The product: `apps/main-app`

| part | state | operations | thread or context |
|---|---|---|---|
| start-up and console, `main.c` | `tee_pos`, `tee_uart` | `main`, `console_tee_out` | main, then whoever prints |
| platform, `rpmsg_platform.c` | resource table, vdev, `rpdev`, `ready_sem`, the mailbox | `rpmsg_mng_task`, `mailbox_notify`, `rpmsg_platform_wait` | mng, cooperative priority 8; `wait` in the services' threads |
| keepalive, `keepalive.c` | `ka_peer`, `seq`, `next`, `test_paused` | `ka_task`, `ka_recv_cb` | its own, cooperative 7; the callback in mng |
| CAN gateway, `can_gw.c` | `can_rx_q`, `peer_addr`, `can_started`, `pending_state`, `state_sem`, six counters | `can_rx_cb`, `can_gw_tx_task`, `can_state_change_cb`, `can_gw_ctl_task`, `rpmsg_recv_can_callback` | driver context; tx, cooperative 7; ctl, preemptible 1; the endpoint callback in mng |

How they interact: the platform brings rpmsg up together with Linux and then
gives `ready_sem`; every service takes it and gives it back, so one binary
semaphore wakes them all. After that the mng thread polls the mailbox and vring 1
every millisecond and runs **both** endpoint callbacks, one message after the
other. Both services send on vring 0, which has eight buffers, with
`rpmsg_trysendto`: a full ring loses the message. Frames go CAN → `can_rx_cb` →
`can_rx_q` → tx → vring 0 → Linux, and Linux → vring 1 → callback → `can_send`.

What is hard, and what makes it correct:

* *Platform.* Two cores fill in one resource table, in an order that depends on
  who was started first; kicks go through one mailbox register that drops or
  blocks; the M core never takes a mailbox interrupt. Correct means: the M core
  uses the vrings Linux has allocated; `NO_NOTIFY` ends the kicks; no
  announcement is forgotten although a kick is; every service gets the same
  answer, also when the platform fails.
* *Gateway.* Four contexts share unprotected variables; the Linux driver can be
  reloaded at any time with another address; queues fill up at two places; each
  call of the CAN driver can fail. Correct means: frames keep their order and
  every loss is counted; replies go to the driver that is there; the controller
  runs with the settings Linux asked for last; the last state change gets there.
* *Keepalive.* Its numbers are what Linux sees of the M core's health: they must
  run neither ahead of time nor show a loss that was none, and the destination
  has to follow a module that is put in again, although the callback runs in the
  thread the gateway may hold up.

### The ADC, `apps/can-gw` and `zephyr-modules/ads868x`

| part | state | operations |
|---|---|---|
| ADC task of `can-gw` (`main.c` 278-460) | the scan `v`, the position of the converter's automatic sequence, the controller's one transmit buffer | `adc_task`, `ads8688_init`, `adc_can_tx_cb`, beside the gateway |
| ADS868x driver (`adc_ads868x.c`) | `adc_context` (lock, timer, sequence), buffer pointers, `range[]`, and in the device the selected channel and the range registers | `channel_setup`, `read`, `read_async`, the acquisition thread |

A transfer does not say which channel its sample is of: in the task it is the
next of an automatic sequence, in the driver the one the frame *before* has
selected. A transfer that fails may or may not have reached the device. Correct
means that a sample is in its own channel's place and has the sign of its own
range, that a reader is told when its buffer is not whole, and that neither a
silent CAN bus nor a failed transfer stops anyone for good.

### The other programs with rpmsg

| part | state | operations | thread or context |
|---|---|---|---|
| the rest of `can-gw` (`main.c`) | main-app's gateway state, `rpdev_ready_sem`, and the ADC frames in the same `can_rx_q` | `main`, which becomes the control loop, `can_gw_task`, `rpmsg_mng_task`, `rpmsg_recv_can_callback`, `adc_task` | main; gw, mng and adc cooperative |
| `rpmsg-echo` (`main_remote.c`) | `sc_msg`, `tty_msg`, three binary semaphores | `rpmsg_mng_task` with the two endpoint callbacks, `app_rpmsg_client_sample`, `app_rpmsg_tty` | three threads, and the mailbox interrupt |

In `can-gw` the queue of received frames has a second producer, the transmit
buffer a second user, and a platform that fails tells nobody. Correct means that
frames still reach Linux in order, that no controller runs without a thread to
empty its queue, and that the converter's frames never hold up Linux's messages.
`rpmsg-echo` hands single records from a callback to a thread, through semaphores
that also say "the platform is up"; correct means that each message is answered
all the same, none sleeps in the vring, and buffers that are held come back.

### The rest

| part | what it is | here |
|---|---|---|
| `patches/zephyr` | two fixes of the ECSPI driver, explained in `docs/ecspi-multi-device.md` | [not modelled](#8-not-modelled) |
| `adc-test`, `adc-dt`, `can-sniff`, `int-diag`, `gpio-mu-test`, `hello-world` | one thread each, which prints | not modelled |
| `scripts`, `west-container.sh`, `Dockerfile` | building and loading by hand | not modelled |

The hazards found in all of these, with their lines and the properties that
cover them, are listed in `PROJECT.json`.

## 2. Modules and how they correspond to the code

    ReadyLatch  <-- implemented by --  RpmsgPlatform
    LossyFifo   <-- implemented by --  CanGateway, CanGwApp
                                       CanGwApp       (CanGateway and what only can-gw has)
                                       Keepalive      (beside what it sees of the gateway)
                                       AdcGateway     (beside what it sees of the gateway)
                                       Ads868x  <--  MCAds868x (requests for TLC)
                                       RpmsgEcho

A *cooperative* thread gives the core away only where it blocks, so what it does
between two blocking calls is one action; a *preemptible* one has an action for
each access to shared state. Priorities are not used: any thread that could run
may run. Linux runs on another core, and may take a step between any two.

**`RpmsgPlatform`** is the bring-up, on both boot paths (`boot`: Linux loads the
M core, or attaches to one that is running) and both chips (`acksMu`: only the
8MP build reads the mailbox). `mngPc` walks through `platform_init`
(`MngCheckTable`, `MngPublish`), `platform_create_rpmsg_vdev` (`MngCreateVdev`,
`MngWaitRemote`, `MngInitVdev`), the two `NO_NOTIFY` flags (`MngNoNotify`),
`rpdev` and `ready_sem` (`MngSetDev`, `MngGive`) and then turns round in the poll
loop (`MngAckMu`, `MngNotified`). `MngFail` is every error path. `ServiceWait`,
`ServiceCreate` and `ServiceKick` are the first steps of a feature; its thread also
returns (`svcPc = "ended"`) when the endpoint cannot be created. Linux
(`LinuxAttach` to `LinuxWorkDone`) is external: imx_rproc and virtio_rpmsg_bus as
the comments and the code rely on them, where a kick is decided (`Prepared`) and
made (`LinuxNotify`) in two steps. An announcement makes a device (`LinuxAnnounced`,
which adds to `channels`); whether a driver binds to it (`LinuxBind`) is another
matter, since the module may not be there.

**`ReadyLatch`** is what the platform promises: it comes up or fails once, and
then tells everybody the same.

**`CanGateway`** has four groups of actions, one for each context. `CanRx` is
`can_rx_cb`; `TxWait`, `TxCreate`, `TxGet`, `TxSend` are `can_gw_tx_task`;
`StateChange` and `CtlTake`, `CtlLoadState`, `CtlLoadPeer`, `CtlSend` are the
state callback and `can_gw_ctl_task`, one access at a time; `MngRecv`, `MngSend`,
`MngStop`, `MngClear`, `MngApply`, `MngStart` are the endpoint callback with
`rpmsg_can_handle_ctrl`, split at the driver's calls, which may block. A message
stays at the head of vring 1 until the callback returns. A CAN frame is its
number in the order of reception: its identifier and data are never looked at.
`running` and `config` are the controller's own state, next to `canStarted`,
which is what the code believes of it. `linuxGot`, `linuxState` and `asked` are
what Linux has received and wants.

**`LossyFifo`** is what the gateway promises for frames: it may lose any, but
never invents, repeats or reorders one.

**`CanGwApp`** is all of `can-gw`. It extends `CanGateway`, from which it takes
the steps that are the same code (`Shared`), and adds what is not: `main` before
it is the control loop (`MainBoot`, `MainNoDevice`), `platform_init` and the vdev,
each of which may fail (`PlatformInit`, `PlatformVdev`), and `adc_task`'s two frames
(`AdcPut`, `AdcSend`, `AdcGivesUp`); `ofAdc` remembers which frames those were. `txBuf` says whose frame is in the one
transmit buffer of the MCP2515: the callback's `can_send` is given no time and
drops its frame where it finds one of `adc_task` (`CbSend`), and stopping the
controller empties it (`CbStop`). The M7's FlexCAN has more buffers, so there
the refusal is rarer. A frame of `adc_task` gets its number where it is put in
`can_rx_q`, like one of the bus.

**`Keepalive`** has `ka_task` (`KaStart`, `KaWake`, `KaSend`; the send is apart
because it may wait for the device's lock), `ka_recv_cb` (`MngKeepalive`), and of
the gateway what the keepalive can notice: `MngCan`, which may hold up the mng
thread until `CanTxDone`, and `GatewaySend`, which takes buffers. `Tick` lets time
pass at any moment, so a thread can be late by any amount. The test pause of the
debug configuration is modelled.

**`AdcGateway`** has `adc_task`: `AdcInit` and its failures, one
`AdcTransfer`/`AdcTransferFails` for each slot of the scan, and `AdcPut`,
`AdcSend`, `AdcGivesUp` for the two frames. A sample is the channel it is of;
`chip` is the channel the converter will return next, `enabled` the channels of its
automatic sequence: all of them, or any others when the write of `AUTO_SEQ_EN`,
whose result `ads8688_init` does not look at, was lost (`AutoSequences`). `txBuf` is
the transmit buffer of the MCP2515, which the callback's `can_send` occupies until
the bus acknowledges.

**`Ads868x`** has `channel_setup` (`SetupLock` to `SetupRemember`), `read`
(`ReadLock` to `ReadWait`), and the acquisition thread (`AcqTake` to `AcqGoOn`),
one action for each SPI frame. Zephyr's `adc_context.h` is not in the repository;
its lock, timer, completion and sampling rules are modelled as the driver uses
them and marked external. A sample is its channel, and whether the driver takes
it for signed or unsigned as the device does.

**`RpmsgEcho`** has `rpmsg_mng_task` with `receive_message` (`MngTake`, `MngDone`) and
the two callbacks (`MngClient`, `MngTty`), the threads (`ClientStart` to
`ClientSend`, `TtyStart` to `TtySend`), and as environment Linux's sample client,
its rpmsg tty and the mailbox. A message is its number. `rpmsg_send`, unlike the
gateway's `rpmsg_trysendto`, waits for a buffer; the callback may then put another
line in the record the thread is about to release. A message without
a byte has the callback hold its buffer too, but the thread, which goes by
`tty_msg.len`, neither answers nor releases it (`HasLength` in `TtyTake`).
`overlaps`, `empties` and `gaveUp` record these two, and the 15 s after which
`rpmsg_send` gives up.

## 3. Runs

| run | states | what it shows |
|---|---|---|
| `platform` | 4.6 k | Bring-up on both paths and both chips, any call failing: `VringsOfLinux`, `KicksStop`, `NoLostKick`, `LatchSpec`, and under fairness `EveryoneAnswered`, `KickAnswered` and `EveryoneBound` (Linux makes a device for each service whose endpoint could be created, and the "hi" of a driver that binds is heard). |
| `gateway` | 3.6 M | Data and event paths; the Linux driver binds twice, driver calls fail, queue and rings are full. `FramesAccounted` (each frame received is on its way or in exactly one counter), `PeerCurrent`, `PeerBeforeFrames` (the branch that discards frames for want of a peer is dead), `StartedMeansRunning`, and the refinement `FifoSpec`. |
| `gateway_control` | 353 k | Control and event paths with driver calls that succeed: `RunsAsAsked`, `NoLostWakeup`, and under fairness `MessagesHandled`, `StateReported`. |
| `keepalive` | 355 k | A late thread, full rings, the test pause, a module that leaves and returns: `NeverAhead`, `GapsAreLosses`, `FollowsModule`. |
| `adc` | 2.8 M | Failing transfers, a set-up whose writes are lost, retries, a bus that acknowledges or not: `SoundIsAligned`, `KeepsScanning`. |
| `ads868x` | 635 k | Two threads on one device, failing transfers, a timer that overruns, a callback that repeats or finishes, requests to be refused: `WriteOutOfRead`, `InPlace`, `DecodedRight`, `ReadIsWhole`, `ReadReturns`. |
| `can_gw` | 511 k | The whole of can-gw, a start-up that may fail, a full queue, a bus that need not acknowledge: `ServedWhenRunning`, `FifoSpec` with two producers, `OnlyAdcLost` (a frame that goes uncounted, or is discarded for want of a peer, is itself one of the converter), `HandledUnlessUnacked`. |
| `echo` | 43 k | Three messages of the sample client beside three lines of the tty, empty ones too, with two buffers: `BuffersAccounted`, `NoMissedKick`, `EchoesAll`. |
| `gateway_stop_fails`, `gateway_no_ack`, `gateway_state_lost`, `ads868x_async` | | Violations: see [section 7](#7-where-code-and-comments-disagree). |

Each passing run also checks its module's `TypeOK` (`AppTypeOK` in `CanGwApp`), except `gateway_control`,
which has the same module as `gateway`. Where a configuration has
`CHECK_DEADLOCK FALSE`, the bounds on what Linux and the bus send let the system
come to rest, as the real one does when nothing arrives. `adc` and the two runs
of `Ads868x` check for deadlock.

Some properties hold with a condition worth knowing. `SoundIsAligned` says that a
scan without 0xFFFF has the enabled channels in their order, from the first on,
*unless the scan before ended in 0xFFFF*: if the rewinding transfer fails, the
next scan is shifted with nothing in it to show that. Each sample is in its own
place only if the sequence has all channels; with one that was lost at set-up
(`main.c:346`) every scan is wrong in the same way, and nothing tells. `RunsAsAsked`
and `AppliedWhileStopped` need driver calls that succeed (`DriverMayFail = FALSE`);
the first is checked so by `gateway_control`, the second, which the first one needs,
is proved, and run `gateway_stop_fails` shows what a failing call does to it.
`HandledUnlessUnacked` leaves out exactly the case of finding 2: a frame of the
callback itself that nobody acknowledges. `BuffersAccounted` says what the tty's
single record costs: exactly the lines that come before the last one was
answered, and the messages without a byte, each lose one buffer for good.
`EchoesAll` therefore speaks of runs in which those losses leave a buffer, and
without a send that waited 15 s in vain.

## 4. Bounds

Every bound is a constant whose name begins with `Max`, or a capacity.

* `NumBufs` (8 in the code), `QCap` (64) and `NumCh` (8) are small in the runs.
  Of the capacities only "there is room" and "there is none" matter to the code,
  and both happen; four channels give two frames with two samples each, so first,
  inner and last slots differ. The proofs hold for every value.
* `MaxFrames = 4` with `QCap = NumBufs = 2` fills the queue and the ring and
  overflows both; in `gateway_control` no frames are needed and four buffers leave
  room for every event, since the loss of one is run `gateway_state_lost`.
* `MaxMsgs` 3 or 4 allows a setting before, during and after a start, followed by
  a stop; two binds (`MaxBinds`) leave a message of the first driver in the ring
  with the second one there, and the addresses {1, 2} may be equal or not.
* `MaxChanges = 2` lets a second state change overwrite the first at each of the
  ctl task's four steps.
* `MaxTime = 8` with `PERIOD = 2` is four rounds: before, in and after a test pause of one
  round, and two rounds that a late thread catches up on.
* `MaxRequested = 3` lets the interval timer overrun by two; `MaxRepeats = 1` has
  a sampling repeated and then gone on from.
* In `can_gw`, `MaxFrames`, `MaxScans`, `QCap` and `NumBufs` of 3, 1, 2 and 2 let each of
  two producers find a queue of two filled by the other, or by both; `MaxMsgs = 2`
  allows a start and then a frame, a setting or a stop. The control path with
  several messages is `gateway_control`'s.
* In `echo`, `COUNT = 3` and `MaxLines = 3` give a first, an inner and a last message, and
  enough lines to lose both buffers.
* In `MCAds868x`, the requests are one channel, both at once, both on an interval,
  both with a callback, one channel too many and one sample too little.

## 5. Fairness

* A thread of the M core that can run does in the end: `WF` of `TxTask`,
  `CtlTask`, `MngTask`, `KaTask`, `Adc`, `Mng`, `ServiceTask`, `Acquisition`, in `CanGwApp`
  `GwTask`, `MainLoop`, `AdcTask`, `Callback`, in `RpmsgEcho` `ClientTask`, `TtyTask`. The
  scheduler has priorities, but each of these threads spends its time blocked or
  asleep, so that the lower ones get the core.
* Linux consumes what is put in vring 0 (`LinuxRecv`), and its mailbox and queue
  handlers run (`LinuxKick`, and `LinuxQueues`, which makes a device of each
  announcement). Nothing is assumed of whether Linux comes up, binds a driver to a
  device (`LinuxBind`), sends or leaves; only the sample client of `rpmsg-echo`
  sends its next message once the last was answered (`LinuxPing`). Nobody need
  write a line to the tty.
* A started interval timer expires. A caller inside the driver goes on; no caller
  has to call.
* Of the CAN bus **nothing** is assumed, except in the specifications called
  `SpecAcked`, which add that a transmission ends: the bus has another node.
  `KeepsScanning` and `HandledUnlessUnacked` hold without that assumption,
  `MessagesHandled` and `FollowsModule` do not.
* `LinuxNotified` has a guard instead of a fairness condition: a core that reads
  the mailbox every millisecond is not given up on after 100 ms.

## 6. Proofs

The proof modules hold for every number of buffers, services, channels, callers
and messages. No theorem has an assumption beyond those the modules state about
their constants, other than two conditions:

* `~DriverMayFail`, for the two properties of the control path: the CAN driver's
  calls succeed. Without it they are false (`gateway_stop_fails`).
* `AsyncAlone`, for the theorems about the ADC driver: it is built without
  `CONFIG_ADC_ASYNC`, as in every application here, or with it and a single thread
  uses the device. With two threads and asynchronous reads the lock is
  given away, and already `WriteOutOfRead` is false (`ads868x_async`).

| module | proved | inductive invariant |
|---|---|---|
| `RpmsgPlatformProofs` | `TypeOK`, `VringsOfLinux`, `KicksStop`, `NoLostKick`, `LatchSpec`, `NoneForgotten` | `TableInv` ties the table's author and contents to how far both sides are, which gives the vrings; `KickInv` says that a kick which comes late was decided on before the flag; `LinkInv` and `LatchInv` tie `rpdev`, `ready_sem`, the flags and the services' places to where the management task is. `PathInv` follows each service to its driver: once it has been told of the device its announcement is in exactly one place until Linux has made a device of it, unless its endpoint could not be created; and a driver's "hi" is in vring 1 until it is heard. |
| `CanGatewayProofs` | `TypeOK`, `FramesAccounted`, `NoLostWakeup`, `PeerCurrent`, `PeerBeforeFrames`, `StartedMeansRunning`, `FifoSpec`, `Latch!Spec`; and if driver calls succeed `AppliedWhileStopped` and `RunsAsAsked` | The first ones are inductive with `TypeOK`. `FramesInv` adds that frames exist only after the controller was started, hence after a message. `ControlInv` follows a message through stop, clear and apply, with `asked` and `config` one setting apart. `OrderInv`, for `FifoSpec` and with it that Linux gets frames in reception order: the frames in the ring, in the tx task's hand and in the queue are ordered along that way, and each step is an `Offer`, `Lose`, `Deliver` or stutter. `AnsweredInv`, for `Latch!Spec`: the tx task waits until the platform is up or has failed, so that what it has been told is what was decided. |
| `CanGwAppProofs` | `AppTypeOK`, `ServedWhenRunning`, `FifoSpec`, `NoLostWakeup`, `PeerCurrent`, `StartedMeansRunning`, `OnlyAdcLost`; and if driver calls succeed `AppliedWhileStopped` and `RunsAsAsked` | `AppStep`: each step of can-gw is a step of `CanGateway`, a stutter of it, or `AdcPut`, so the gateway's invariants carry over with one more case. `ServedInv` adds the chain from a running controller back to the channel that was announced by the thread that serves it. `FramesAccounted` and `PeerBeforeFrames` are false here: a frame of `adc_task` is put without a look at the result, and before Linux is there. `OnlyAdcLost` says which frames that concerns, by `OriginInv`: until Linux is known, each frame in the queue is one of `ofAdc`, since by `ServedInv` the controller does not run before. |
| `LossyFifoProofs` | the abstract channel delivers in order | what is on its way is newer than what is out |
| `KeepaliveProofs` | `TypeOK`, `NeverAhead`, `GapsAreLosses`, `ModuleKnown` | `ScheduleInv`: `next` is at least the schedule of `seq` plus the pause rounds used; `NumbersInv`: the numbers in the ring are in order, and exactly those from the next one Linux can expect (`heard + 1 + lost`) to the next one to be sent. `HeldInv`, for `ModuleKnown`: the message the management thread waits with is a frame, so that giving its buffer back never takes a "hi" away. |
| `AdcGatewayProofs` | `TypeOK`, `SoundIsAligned` | `ScanInv`: unless a transfer of this scan, or the last of the one before, has failed, the slots so far hold the enabled channels in their order and `chip` is the one that follows (`InOrder`, `Due`); a rewind that succeeded leaves `chip` at the lowest enabled channel whatever failed before it. With all channels enabled that order is the slots' own (`FullSequence`). |
| `Ads868xProofs` | `TypeOK`, `WriteOutOfRead`, `DecodedRight`, `InPlace`, `ReadIsWhole`, `NeverStranded`, if `AsyncAlone` | `LockInv`: at most one caller is inside; while the lock is up none is but one on its way out of an asynchronous read; and while anything is read that caller waits, or has left the read behind and done nothing since. `HeldInv`: such a caller has the lock to leave to the read, or the read has given it already. `SamplingInv` and `TodoInv`: one sampling at a time, with a channel left at every place that takes one. `SelectedInv`, `RangesInv`, `WrittenInv`: the device converts the channel the driver thinks of, and the two agree on the range of every channel whose set-up has not failed, up to the write under way. `PlaceInv`: the thread takes the channels upwards, so that the buffer pointer is `PerSampling * index` plus the place of the channel being read, a repetition goes back to `PerSampling * index`, and the caller is told of a success only when the pointer is a whole sampling further. |
| `RpmsgEchoProofs` | `TypeOK`, `BuffersAccounted`, `NoMissedKick`, `EchoedInOrder`, `NoneLost` | `SignalInv`: a thread takes the signal that the platform is up before its endpoint exists, hence before any message's. `LinesInv`: the lines in the vring are in order and younger than those whose buffers are held, so that a line's buffer is never held already, and each buffer held but not in the record is one of an overlap or of an empty line. `NoMissedKick` is inductive alone. `PlaceInv` and `NumberInv`, for the last two: the client's message is in exactly one of vring, record, thread and vring back, and has the number of the last one sent, so the one record and the semaphore that counts to one are enough. |

`TypeOK` is part of each invariant: the arithmetic on the counters and the
sequence operations need the types. The temporal theorems combine initial state
and step by `PTL`.

What carries over from one module to another is proved as such. `RpmsgPlatform`
implements the latch (`PlatformIsLatch`), and `CanGateway` behaves as one of its
services (`WaitsForLatch`), so that what the gateway's module assumes of the
platform is no more than the platform's module grants. Each step of can-gw is a step
of the gateway, a stutter of it or a put of the converter (`AppStep`), so that the
gateway's lemmas serve there too.

Checked by TLC only: the liveness properties, which need fairness and `ENABLED`. Of
six of them the part that is a safety property is proved, namely that what is waited for
is always on its way and never forgotten; TLC adds that the way comes to its end.

| liveness (TLC) | safety part (proved) |
|---|---|
| `StateReported` | `NoLostWakeup`: a state not yet reported has the semaphore given or the ctl task at work |
| `EveryoneAnswered`, `EveryoneBound` | `NoneForgotten`: a service that was not refused its endpoint has its token, its thread or Linux to act for it until there is a device, and a "hi" has the poll |
| `FollowsModule` | `ModuleKnown`: the module's address is the destination, or the last "hi" in the vring is its own |
| `ReadReturns` | `NeverStranded`: a waiting caller waits for something under way or done, and the lock has a holder |
| `EchoesAll` | `NoneLost` and `EchoedInOrder`: a message not come back is on its way with a thread to take it on |

`MessagesHandled`, `HandledUnlessUnacked`, `KeepsScanning` and `KickAnswered` have no
such part: they are about a thread that gets to run. TLC alone also checks the driver
with `CONFIG_ADC_ASYNC` and two threads. Every invariant and refinement that a
passing run checks has its theorem. The inductive invariants were checked by
TLC on small instances before they were proved.

## 7. Where code and comments disagree

1. **A failed `can_stop` is forgotten** (`gateway_stop_fails`). The result is
   ignored and `can_started` cleared (`can_gw.c:228`), so the setting is applied to
   a running controller, contrary to the comment at line 154; START is then
   answered with "already running" and STOP does nothing any more.
2. **`can_send` does hold up the vring** (`gateway_no_ack`). The comment at
   `can_gw.c:305` wants a frame dropped so that the vring goes on being handled;
   `can_send` without a callback waits for the end of the transmission, and on a
   bus without another node no message is handled again.
   `docs/ecspi-multi-device.md` knows of this for the periodic ADC frames. The
   keepalive, meant to be apart from the CAN feature, depends on the bus for the
   same reason: its callback runs in the thread that waits, and does not learn
   the address of a module that is put in again (`FollowsModule` needs
   `SpecAcked`).
3. **A state change can be lost** (`gateway_state_lost`). `EVT_STATE` is sent once,
   and a full ring drops it (`can_gw.c:399`); Linux keeps showing the old state,
   bus-off included, until the next change.
4. **An asynchronous read can give away a lock it no longer has**
   (`ads868x_async`). With `CONFIG_ADC_ASYNC`, which no application sets,
   `adc_context_release` after a read that is already over decides by the mode of
   whoever has the lock by then. The driver's `channel_setup` may then run beside a
   read.

## 8. Not modelled

* **The ECSPI patches**: two patches of about ten lines each against a driver
  of Zephyr that is not in the repository. What they guard (a transfer that times
  out while its interrupt is on its way, a channel chosen per device) is a
  matter of that driver's other code, and a model of it would be external almost
  throughout. To the ADC code a transfer that times out is one that fails, which
  `AdcGateway` and `Ads868x` have.
* The RAM console of `main-app` and `can-gw`, and its tee to the UART.
* In `rpmsg-echo`, the optional shell, the texts and the prompt; that a line with
  its prompt may be too long for a buffer is modelled (`TooLong`).
* Registers: clocks, pins, RDC, the INT-line diagnostics of `can_gw.c`. Pure I/O.
* Printing and the statistics line itself; the counters are modelled.
* The fields of CAN frames and rpmsg messages, and their conversion.
* The wrap of `seq`, `uptime_ms` and the counters at 2^32; the first is after 49
  days.
* The numeric values of samples beyond channel and sign; so too the range writes of
  `can-gw`'s `ads8688_init` (`main.c:344`), whose loss would scale a channel wrongly.
* A resource table left over from an earlier run of the chip, which the version
  test cannot tell from Linux's: memory's contents after a reset are unknown.
* Thread priorities: the model allows more orders than the scheduler does.
* A failed `ads868x_init`: the device is then not ready and no call reaches it.
* Failures of `can_add_rx_filter` at start-up, which leave a gateway without CAN
  reception until the next boot.
* The boards, the boot loader and the Linux drivers, other than as environment.

## 9. Plan

Done: the product's core first (`CanGateway` with its abstract channel, then
`RpmsgPlatform`, `Keepalive`), the ADC next (`AdcGateway`, `Ads868x`), then the other
two programs with rpmsg (`CanGwApp`, `RpmsgEcho`), each with its proofs. To come:

1. **`ConsoleTee`**: the position of the RAM console with several threads that print.
2. **`CanWire`**: the conversion of frames between `struct can_frame` and the rpmsg
   format, against a reference definition of both.
3. Abstract specifications of the ADC driver (a device that one caller at a time has to
   itself) and of the echo (an answer to each message, in order), and the
   refinements that join the invariants already proved.
