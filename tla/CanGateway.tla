----------------------------- MODULE CanGateway -----------------------------
(***************************************************************************)
(* The CAN gateway of the product firmware: apps/main-app/src/can_gw.c.    *)
(*                                                                         *)
(* Four contexts of the M core run it:                                     *)
(*   rx   can_rx_cb, the driver's receive callback: CAN frame -> msgq;     *)
(*   tx   can_gw_tx_task (cooperative): msgq -> rpmsg -> Linux;            *)
(*   ctl  can_gw_ctl_task (preemptible): controller state -> EVT_STATE;    *)
(*   mng  rpmsg_mng_task of rpmsg_platform.c, in whose context the         *)
(*        endpoint callback handles what Linux sends.                      *)
(* Linux, the CAN controller driver and the two vrings are the             *)
(* environment, modelled from how this code uses them.                     *)
(*                                                                         *)
(* A cooperative thread gives up the core only where it blocks, so what it *)
(* does between two blocking calls is one action; the ctl thread is        *)
(* preemptible, so each of its accesses to shared state is one.  A frame   *)
(* is its number in the order of reception; the conversion of its fields   *)
(* between struct can_frame and the rpmsg format is left out.              *)
(***************************************************************************)
EXTENDS Integers, Sequences

CONSTANTS
    Addr,           \* rpmsg addresses the Linux driver can have
    CanStates,      \* values of enum can_state
    Bitrates,       \* bitrates SET_BITRATE may carry
    DefaultBitrate, \* the bitrate the controller boots with
    FlagSets,       \* flag bytes SET_MODE may carry, as sets of flags
    Kinds,          \* kinds of messages Linux sends after its "hi"
    QCap,           \* capacity of can_rx_q (64 in the code)
    NumBufs,        \* buffers of each vring (8 in the code)
    DriverMayFail,  \* can the CAN driver calls return an error?
    MaxFrames,      \* bound: CAN frames received
    MaxMsgs,        \* bound: messages Linux sends after its "hi"
    MaxChanges,     \* bound: state changes of the controller
    MaxBinds        \* bound: times the Linux driver binds

KnownFlags == {"LISTENONLY", "LOOPBACK"}
CtrlKinds == {"bitrate", "mode", "start", "stop"}
AllKinds == {"hi", "frame"} \cup CtrlKinds

ASSUME AddrAssumption == Addr \subseteq Nat
ASSUME StatesAssumption == CanStates \subseteq Nat
ASSUME KindsAssumption == Kinds \subseteq AllKinds
ASSUME BitrateAssumption == DefaultBitrate \in Bitrates
ASSUME CapacityAssumption == QCap \in Nat \ {0} /\ NumBufs \in Nat \ {0}
ASSUME FailAssumption == DriverMayFail \in BOOLEAN
ASSUME BoundAssumption ==
    /\ MaxFrames \in Nat /\ MaxMsgs \in Nat
    /\ MaxChanges \in Nat /\ MaxBinds \in Nat

NoAddr == -1    \* peer_addr before anything was received
NoState == -1   \* pending_state before the first state change

VARIABLES
    \* CAN -> Linux
    received,       \* frames the controller has handed to can_rx_cb (ghost)
    canRxQ,         \* can_rx_q, the message queue of frames
    statCanRxDrop,  \* stat_can_rx_drop
    rpReady,        \* what rpmsg_platform_wait returns: "no" while it blocks
    ept,            \* has rpmsg_create_ept(can_ept) succeeded?
    txPc,           \* where can_gw_tx_task is
    txFrame,        \* its local frame
    txPeer,         \* its local peer
    statCanRx,      \* stat_can_rx
    statRpmsgDrop,  \* stat_rpmsg_drop
    noPeer,         \* frames discarded because Linux is not there (ghost)
    \* controller state -> Linux
    pendingState,   \* pending_state
    stateSem,       \* state_sem
    ctlPc,          \* where can_gw_ctl_task is
    ctlState,       \* its local st, kept between rounds
    ctlPeer,        \* its local peer
    changes,        \* number of state changes so far (bound)
    \* Linux -> M core
    mngPc,          \* where the mng thread is inside the endpoint callback
    peer,           \* peer_addr
    canStarted,     \* can_started
    statCanTx,      \* stat_can_tx
    statCanTxDrop,  \* stat_can_tx_drop
    asked,          \* the settings Linux asked for last (ghost)
    \* environment
    running,        \* is the CAN controller started?
    config,         \* the settings the controller has
    toMcore,        \* vring 1, Linux -> M core: messages not yet released
    toLinux,        \* vring 0, M core -> Linux: messages not yet consumed
    linuxAddr,      \* address of the Linux driver's endpoint
    linuxGot,       \* frames delivered to the Linux driver
    linuxState,     \* the last EVT_STATE the Linux driver got
    sent,           \* messages Linux sent after its "hi" (bound)
    binds           \* times the Linux driver has bound (bound)

rxVars  == <<received, canRxQ, statCanRxDrop>>
txVars  == <<rpReady, ept, txPc, txFrame, txPeer, statCanRx, statRpmsgDrop,
             noPeer>>
ctlVars == <<pendingState, stateSem, ctlPc, ctlState, ctlPeer, changes>>
mngVars == <<mngPc, peer, canStarted, statCanTx, statCanTxDrop, asked>>
canVars == <<running, config>>
lnxVars == <<linuxAddr, linuxGot, linuxState, sent, binds>>
vars == <<rxVars, txVars, ctlVars, mngVars, canVars, toMcore, toLinux, lnxVars>>

-----------------------------------------------------------------------------
(* Messages and the vrings.                                                *)

Frames == 1 .. MaxFrames
BootConfig == [bitrate |-> DefaultBitrate, mode |-> {}]
Configs == [bitrate : Bitrates, mode : SUBSET KnownFlags]

\* What a message of kind k may carry: its bitrate or flags, nothing else.
Payloads(k) == CASE k = "bitrate" -> Bitrates
                 [] k = "mode"    -> FlagSets
                 [] OTHER         -> {0}

McoreMsg(k, a, v) == [kind |-> k, src |-> a, val |-> v]
LinuxMsg(k, a, v) == [kind |-> k, dst |-> a, val |-> v]

HasRoom(ring) == Len(ring) < NumBufs

\* rpmsg_trysendto: it takes a free buffer, or fails without waiting.
TrySend(msg) == /\ HasRoom(toLinux)
                /\ toLinux' = Append(toLinux, msg)
TrySendFails == /\ ~HasRoom(toLinux)
                /\ UNCHANGED toLinux

-----------------------------------------------------------------------------
Init ==
    /\ received = 0 /\ canRxQ = <<>> /\ statCanRxDrop = 0
    /\ rpReady = "no" /\ ept = FALSE
    /\ txPc = "wait" /\ txFrame = 0 /\ txPeer = NoAddr
    /\ statCanRx = 0 /\ statRpmsgDrop = 0 /\ noPeer = 0
    /\ pendingState = NoState /\ stateSem = 0
    /\ ctlPc = "take" /\ ctlState = NoState /\ ctlPeer = NoAddr /\ changes = 0
    /\ mngPc = "poll" /\ peer = NoAddr /\ canStarted = FALSE
    /\ statCanTx = 0 /\ statCanTxDrop = 0 /\ asked = BootConfig
    /\ running = FALSE /\ config = BootConfig
    /\ toMcore = <<>> /\ toLinux = <<>>
    /\ linuxAddr = NoAddr /\ linuxGot = <<>> /\ linuxState = NoState
    /\ sent = 0 /\ binds = 0

-----------------------------------------------------------------------------
(* rx: the driver's receive callback.                                      *)

\* k_msgq_put with K_NO_WAIT finds a free entry.
QueueHasRoomOffByOne == Len(canRxQ) <= QCap     \* mutant
QueueHasRoom == Len(canRxQ) < QCap

\* A frame arrives on the bus; can_rx_cb queues it or counts the drop.
CanRx ==
    /\ running
    /\ received < MaxFrames
    /\ received' = received + 1
    /\ \/ /\ QueueHasRoom
          /\ canRxQ' = Append(canRxQ, received + 1)
          /\ UNCHANGED statCanRxDrop
       \/ /\ ~QueueHasRoom
          /\ statCanRxDrop' = statCanRxDrop + 1
          /\ UNCHANGED canRxQ
    /\ UNCHANGED <<txVars, ctlVars, mngVars, canVars, toMcore, toLinux, lnxVars>>

-----------------------------------------------------------------------------
(* tx: can_gw_tx_task.                                                     *)

\* The platform thread has finished its initialisation, well or not.
PlatformReady ==
    /\ rpReady = "no"
    /\ rpReady' \in {"ok", "failed"}
    /\ UNCHANGED <<ept, txPc, txFrame, txPeer, statCanRx, statRpmsgDrop, noPeer>>
    /\ UNCHANGED <<rxVars, ctlVars, mngVars, canVars, toMcore, toLinux, lnxVars>>

\* rpmsg_platform_wait returns; the task ends if there is no rpmsg device.
TxWait ==
    /\ txPc = "wait"
    /\ rpReady # "no"
    /\ txPc' = IF rpReady = "ok" THEN "create" ELSE "exit"
    /\ UNCHANGED <<rpReady, ept, txFrame, txPeer, statCanRx, statRpmsgDrop, noPeer>>
    /\ UNCHANGED <<rxVars, ctlVars, mngVars, canVars, toMcore, toLinux, lnxVars>>

\* rpmsg_create_ept announces the channel; the task ends if it fails.
TxCreate ==
    /\ txPc = "create"
    /\ \/ ept' = TRUE /\ txPc' = "get"
       \/ ept' = FALSE /\ txPc' = "exit"
    /\ UNCHANGED <<rpReady, txFrame, txPeer, statCanRx, statRpmsgDrop, noPeer>>
    /\ UNCHANGED <<rxVars, ctlVars, mngVars, canVars, toMcore, toLinux, lnxVars>>

\* k_msgq_get and the load of peer_addr; with no peer the frame is discarded.
\* The send is a step of its own: rpmsg's lock may make the task wait there.
TxGet ==
    /\ txPc = "get"
    /\ canRxQ # <<>>
    /\ canRxQ' = Tail(canRxQ)
    /\ txFrame' = Head(canRxQ)
    /\ txPeer' = peer
    /\ txPc' = IF peer = NoAddr THEN "get" ELSE "send"
    /\ noPeer' = IF peer = NoAddr THEN noPeer + 1 ELSE noPeer
    /\ UNCHANGED <<received, statCanRxDrop, rpReady, ept, statCanRx, statRpmsgDrop>>
    /\ UNCHANGED <<ctlVars, mngVars, canVars, toMcore, toLinux, lnxVars>>

\* rpmsg_trysendto: the frame goes to Linux ...
TxSent ==
    /\ TrySend(LinuxMsg("frame", txPeer, txFrame))
    /\ statCanRx' = statCanRx + 1
    /\ UNCHANGED <<rxVars, statRpmsgDrop>>

\* ... or, with no free buffer, it is dropped and the drop is counted.
TxDroppedUncounted ==                               \* mutant
    /\ TrySendFails
    /\ UNCHANGED <<rxVars, statCanRx, statRpmsgDrop>>
TxDroppedRequeued ==                                \* mutant
    /\ TrySendFails
    /\ QueueHasRoom
    /\ canRxQ' = Append(canRxQ, txFrame)
    /\ UNCHANGED <<received, statCanRxDrop, statCanRx, statRpmsgDrop>>
TxDropped ==
    /\ TrySendFails
    /\ statRpmsgDrop' = statRpmsgDrop + 1
    /\ UNCHANGED <<rxVars, statCanRx>>

TxSend ==
    /\ txPc = "send"
    /\ txPc' = "get"
    /\ TxSent \/ TxDropped
    /\ UNCHANGED <<rpReady, ept, txFrame, txPeer, noPeer>>
    /\ UNCHANGED <<ctlVars, mngVars, canVars, toMcore, lnxVars>>

-----------------------------------------------------------------------------
(* ctl: the controller's state changes and can_gw_ctl_task.                *)

\* k_sem_give on a semaphore whose limit is 1.
SemGivenOnFirst == IF pendingState = NoState THEN 1 ELSE stateSem   \* mutant
SemGiven == 1

\* can_state_change_cb, in interrupt or driver context: atomic for ctl.
StateChange(s) ==
    /\ running
    /\ changes < MaxChanges
    /\ changes' = changes + 1
    /\ pendingState' = s
    /\ stateSem' = SemGiven
    /\ UNCHANGED <<ctlPc, ctlState, ctlPeer>>
    /\ UNCHANGED <<rxVars, txVars, mngVars, canVars, toMcore, toLinux, lnxVars>>

\* k_sem_take; its timeout only prints the statistics and is left out.
CtlTake ==
    /\ ctlPc = "take"
    /\ stateSem = 1
    /\ stateSem' = 0
    /\ ctlPc' = "state"
    /\ UNCHANGED <<pendingState, ctlState, ctlPeer, changes>>
    /\ UNCHANGED <<rxVars, txVars, mngVars, canVars, toMcore, toLinux, lnxVars>>

CtlLoadState ==
    /\ ctlPc = "state"
    /\ ctlState' = pendingState
    /\ ctlPc' = "peer"
    /\ UNCHANGED <<pendingState, stateSem, ctlPeer, changes>>
    /\ UNCHANGED <<rxVars, txVars, mngVars, canVars, toMcore, toLinux, lnxVars>>

\* The test of line 392: there is a state to report, and somebody to tell.
ReportableSkipsZero == ctlState > 0 /\ peer # NoAddr                \* mutant
Reportable == ctlState # NoState /\ peer # NoAddr

\* The load of peer_addr and the test.
CtlLoadPeer ==
    /\ ctlPc = "peer"
    /\ ctlPeer' = peer
    /\ ctlPc' = IF Reportable THEN "send" ELSE "take"
    /\ UNCHANGED <<pendingState, stateSem, ctlState, changes>>
    /\ UNCHANGED <<rxVars, txVars, mngVars, canVars, toMcore, toLinux, lnxVars>>

\* EVT_STATE is sent once; the result of rpmsg_trysendto is not looked at.
CtlSend ==
    /\ ctlPc = "send"
    /\ ctlPc' = "take"
    /\ \/ TrySend(LinuxMsg("state", ctlPeer, ctlState))
       \/ TrySendFails
    /\ UNCHANGED <<pendingState, stateSem, ctlState, ctlPeer, changes>>
    /\ UNCHANGED <<rxVars, txVars, mngVars, canVars, toMcore, lnxVars>>

-----------------------------------------------------------------------------
(* mng: rpmsg_recv_can_callback, called by the vring poll.  The message    *)
(* stays at the head of vring 1 until the callback returns.                *)

msg == Head(toMcore)
Release == toMcore' = Tail(toMcore)

\* atomic_set(&peer_addr): every message of any length is learnt from.
LearntPeerOnce == IF peer = NoAddr THEN msg.src ELSE peer           \* mutant
LearntPeerFromFrames == IF msg.kind = "frame" THEN msg.src ELSE peer \* mutant
LearntPeer == msg.src

\* What the callback does once it has stored the sender's address.
Dispatch ==
    CASE msg.kind = "frame"           -> "send"
      [] msg.kind \in {"bitrate", "mode"} -> IF canStarted THEN "stop" ELSE "apply"
      [] msg.kind = "stop" /\ canStarted  -> "stop"
      [] msg.kind = "start" /\ ~canStarted -> "start"
      [] OTHER                        -> "poll"   \* "hi", or nothing to do

\* Settings c with the one this message carries; unknown flags are ignored.
WithSetting(c) ==
    CASE msg.kind = "bitrate" -> [c EXCEPT !.bitrate = msg.val]
      [] msg.kind = "mode"    -> [c EXCEPT !.mode = msg.val \cap KnownFlags]
      [] OTHER                -> c

MngRecv ==
    /\ mngPc = "poll"
    /\ toMcore # <<>>
    /\ peer' = LearntPeer
    /\ mngPc' = Dispatch
    /\ asked' = WithSetting(asked)
    /\ IF Dispatch = "poll" THEN Release ELSE UNCHANGED toMcore
    /\ UNCHANGED <<canStarted, statCanTx, statCanTxDrop>>
    /\ UNCHANGED <<rxVars, txVars, ctlVars, canVars, toLinux, lnxVars>>

\* can_send without a callback: an accepted frame makes the thread wait for
\* the end of its transmission; the controller may refuse it at once.
MngSendWaits ==                                                     \* mutant
    /\ mngPc = "send"
    /\ running
    /\ mngPc' = "txwait"
    /\ UNCHANGED <<peer, canStarted, statCanTx, statCanTxDrop, asked>>
    /\ UNCHANGED <<rxVars, txVars, ctlVars, canVars, toMcore, toLinux, lnxVars>>
MngSend ==
    /\ mngPc = "send"
    /\ \/ /\ running
          /\ mngPc' = "txwait"
          /\ UNCHANGED <<statCanTxDrop, toMcore>>
       \/ /\ mngPc' = "poll"
          /\ statCanTxDrop' = statCanTxDrop + 1
          /\ Release
    /\ UNCHANGED <<peer, canStarted, statCanTx, asked>>
    /\ UNCHANGED <<rxVars, txVars, ctlVars, canVars, toLinux, lnxVars>>

\* The transmission ends, well or in an error, and can_send returns.  On a
\* bus where nobody acknowledges the frame this never happens.
CanTxDone ==
    /\ mngPc = "txwait"
    /\ mngPc' = "poll"
    /\ \/ statCanTx' = statCanTx + 1 /\ UNCHANGED statCanTxDrop
       \/ statCanTxDrop' = statCanTxDrop + 1 /\ UNCHANGED statCanTx
    /\ Release
    /\ UNCHANGED <<peer, canStarted, asked>>
    /\ UNCHANGED <<rxVars, txVars, ctlVars, canVars, toLinux, lnxVars>>

\* can_stop: its result is not looked at.
MngStop ==
    /\ mngPc = "stop"
    /\ mngPc' = "clear"
    /\ \/ running' = FALSE
       \/ DriverMayFail /\ UNCHANGED running
    /\ UNCHANGED <<peer, canStarted, statCanTx, statCanTxDrop, asked, config>>
    /\ UNCHANGED <<rxVars, txVars, ctlVars, toMcore, toLinux, lnxVars>>

\* can_started = false; STOP is done, a setting goes on to be applied.
MngClear ==
    /\ mngPc = "clear"
    /\ canStarted' = FALSE
    /\ \/ msg.kind = "stop" /\ mngPc' = "poll" /\ Release
       \/ msg.kind # "stop" /\ mngPc' = "apply" /\ UNCHANGED toMcore
    /\ UNCHANGED <<peer, statCanTx, statCanTxDrop, asked>>
    /\ UNCHANGED <<rxVars, txVars, ctlVars, canVars, toLinux, lnxVars>>

\* The controller's settings after can_set_bitrate or can_set_mode.
AppliedOntoOldMode ==                                               \* mutant
    IF msg.kind = "mode"
    THEN [config EXCEPT !.mode = @ \cup (msg.val \cap KnownFlags)]
    ELSE WithSetting(config)
Applied == WithSetting(config)

\* can_set_bitrate / can_set_mode: a running controller refuses them, and
\* the result is only printed.
MngApply ==
    /\ mngPc = "apply"
    /\ mngPc' = "poll"
    /\ \/ ~running /\ config' = Applied
       \/ (running \/ DriverMayFail) /\ UNCHANGED config
    /\ Release
    /\ UNCHANGED <<peer, canStarted, statCanTx, statCanTxDrop, asked, running>>
    /\ UNCHANGED <<rxVars, txVars, ctlVars, toLinux, lnxVars>>

\* can_started = (ret == 0), for a can_start that failed.
StartFailedIgnored == canStarted' = TRUE /\ UNCHANGED running      \* mutant
StartFailed == canStarted' = FALSE /\ UNCHANGED running

\* can_start: it refuses a controller that is already running.
MngStart ==
    /\ mngPc = "start"
    /\ mngPc' = "poll"
    /\ \/ ~running /\ running' = TRUE /\ canStarted' = TRUE
       \/ (running \/ DriverMayFail) /\ StartFailed
    /\ Release
    /\ UNCHANGED <<peer, statCanTx, statCanTxDrop, asked, config>>
    /\ UNCHANGED <<rxVars, txVars, ctlVars, toLinux, lnxVars>>

-----------------------------------------------------------------------------
(* Linux: the rpmsg-can driver, which is not in this repository.           *)

\* The announced channel is probed, or the module is loaded again: the
\* driver gets an endpoint and says "hi".
LinuxBind(a) ==
    /\ ept
    /\ binds < MaxBinds
    /\ HasRoom(toMcore)
    /\ linuxAddr' = a
    /\ toMcore' = Append(toMcore, McoreMsg("hi", a, 0))
    /\ binds' = binds + 1
    /\ UNCHANGED <<linuxGot, linuxState, sent>>
    /\ UNCHANGED <<rxVars, txVars, ctlVars, mngVars, canVars, toLinux>>

\* A CAN frame, a setting, or ip link up / down.
LinuxSend(k) ==
    /\ linuxAddr # NoAddr
    /\ sent < MaxMsgs
    /\ HasRoom(toMcore)
    /\ \E v \in Payloads(k) :
          toMcore' = Append(toMcore, McoreMsg(k, linuxAddr, v))
    /\ sent' = sent + 1
    /\ UNCHANGED <<linuxAddr, linuxGot, linuxState, binds>>
    /\ UNCHANGED <<rxVars, txVars, ctlVars, mngVars, canVars, toLinux>>

\* Linux consumes a message and gives its buffer back; one that is addressed
\* to an endpoint that is gone reaches nobody.
LinuxRecv ==
    /\ toLinux # <<>>
    /\ toLinux' = Tail(toLinux)
    /\ LET m == Head(toLinux)
       IN /\ linuxGot' = IF m.kind = "frame" /\ m.dst = linuxAddr
                         THEN Append(linuxGot, m.val) ELSE linuxGot
          /\ linuxState' = IF m.kind = "state" /\ m.dst = linuxAddr
                           THEN m.val ELSE linuxState
    /\ UNCHANGED <<linuxAddr, sent, binds>>
    /\ UNCHANGED <<rxVars, txVars, ctlVars, mngVars, canVars, toMcore>>

-----------------------------------------------------------------------------
TxTask == TxWait \/ TxCreate \/ TxGet \/ TxSend
CtlTask == CtlTake \/ CtlLoadState \/ CtlLoadPeer \/ CtlSend
MngTask == MngRecv \/ MngSend \/ MngStop \/ MngClear \/ MngApply \/ MngStart
Driver == CanRx \/ CanTxDone \/ \E s \in CanStates : StateChange(s)
Linux == \/ \E a \in Addr : LinuxBind(a)
         \/ \E k \in Kinds : LinuxSend(k)
         \/ LinuxRecv

Next == PlatformReady \/ TxTask \/ CtlTask \/ MngTask \/ Driver \/ Linux

Spec == Init /\ [][Next]_vars

\* Every thread that can go on does, and Linux consumes what it is sent.
\* Nothing is promised of the bus, nor of what Linux chooses to send.
FairSpec == /\ Spec
            /\ WF_vars(TxTask)
            /\ WF_vars(CtlTask)
            /\ WF_vars(MngTask)
            /\ WF_vars(LinuxRecv)

\* The bus has another node: every transmission ends.
SpecAcked == FairSpec /\ WF_vars(CanTxDone)

-----------------------------------------------------------------------------
(* Properties.                                                             *)

MngPcs == {"poll", "send", "txwait", "stop", "clear", "apply", "start"}
McoreMsgs == [kind : AllKinds \ {"bitrate", "mode"}, src : Addr, val : {0}]
             \cup [kind : {"bitrate"}, src : Addr, val : Bitrates]
             \cup [kind : {"mode"}, src : Addr, val : FlagSets]
LinuxMsgs == [kind : {"frame"}, dst : Addr, val : Nat]
             \cup [kind : {"state"}, dst : Addr, val : CanStates]

RxTypeOK ==
    /\ received \in Nat /\ statCanRxDrop \in Nat
    /\ canRxQ \in Seq(Nat) /\ Len(canRxQ) <= QCap

TxTypeOK ==
    /\ rpReady \in {"no", "ok", "failed"} /\ ept \in BOOLEAN
    /\ txPc \in {"wait", "create", "get", "send", "exit"}
    /\ txFrame \in Nat /\ txPeer \in Addr \cup {NoAddr}
    /\ statCanRx \in Nat /\ statRpmsgDrop \in Nat /\ noPeer \in Nat
    /\ txPc = "send" => txPeer \in Addr

CtlTypeOK ==
    /\ pendingState \in CanStates \cup {NoState} /\ stateSem \in {0, 1}
    /\ ctlPc \in {"take", "state", "peer", "send"}
    /\ ctlState \in CanStates \cup {NoState}
    /\ ctlPeer \in Addr \cup {NoAddr}
    /\ changes \in Nat
    /\ ctlPc = "send" => ctlPeer \in Addr /\ ctlState \in CanStates

MngTypeOK ==
    /\ mngPc \in MngPcs /\ peer \in Addr \cup {NoAddr}
    /\ canStarted \in BOOLEAN /\ statCanTx \in Nat /\ statCanTxDrop \in Nat
    /\ asked \in Configs

CanTypeOK == running \in BOOLEAN /\ config \in Configs

RingTypeOK ==
    /\ toMcore \in Seq(McoreMsgs) /\ Len(toMcore) <= NumBufs
    /\ toLinux \in Seq(LinuxMsgs) /\ Len(toLinux) <= NumBufs
    /\ mngPc # "poll" => toMcore # <<>>

LinuxTypeOK ==
    /\ linuxAddr \in Addr \cup {NoAddr}
    /\ linuxGot \in Seq(Nat)
    /\ linuxState \in CanStates \cup {NoState}
    /\ sent \in Nat /\ binds \in Nat

\* Every variable keeps its type; no queue of the M core outgrows its storage
\* (can_rx_q of line 151 and the two vrings); neither sending thread is about
\* to send before it has learnt where to (lines 347 and 392); and a callback
\* that is under way still owns the message it works on.
TypeOK == /\ RxTypeOK /\ TxTypeOK /\ CtlTypeOK /\ MngTypeOK
          /\ CanTypeOK /\ RingTypeOK /\ LinuxTypeOK

InHand == IF txPc = "send" THEN 1 ELSE 0

\* The frames the statistics have a word of, or that may still get one; and
\* those that are in no counter and not on their way either.
Counted == statCanRxDrop + Len(canRxQ) + noPeer + InHand + statCanRx + statRpmsgDrop
Uncounted == received - Counted

\* Every frame the controller handed over is either on its way or in exactly
\* one counter: the statistics line of can_gw_ctl_task hides no loss.
FramesAccounted == received = Counted

\* A state change is never forgotten between can_state_change_cb and the
\* ctl task: as long as the task has not loaded the latest state, the
\* semaphore is up or the task is about to load it.
NoLostWakeup == pendingState # ctlState => stateSem = 1 \/ ctlPc = "state"

\* The reply address follows the Linux driver: it is the sender of the
\* message being handled; the newest message on vring 1 is from the driver
\* bound now; and once all are handled so is the address (lines 216, 277).
PeerCurrent ==
    /\ mngPc # "poll" => peer = msg.src
    /\ toMcore # <<>> => toMcore[Len(toMcore)].src = linuxAddr
    /\ toMcore = <<>> => peer = linuxAddr

\* While the controller runs the peer is known, so the branch of lines
\* 347-349 that discards frames "until Linux is there" is never taken.
PeerBeforeFrames == /\ running => peer # NoAddr
                    /\ noPeer = 0

\* can_started is never TRUE for a controller that is stopped, except
\* between can_stop and the assignment that follows it.
StartedMeansRunning == canStarted => running \/ mngPc = "clear"

\* A setting is applied to a stopped controller (comment of lines 153-154).
AppliedWhileStopped == mngPc = "apply" => ~running

\* When the driver's calls succeed, a running controller has, between two
\* messages, the bitrate and mode Linux asked for last.
RunsAsAsked == running /\ mngPc = "poll" => config = asked

\* Frames of can_rx_cb that are on their way to Linux.
Queued(q) == {q[i] : i \in 1 .. Len(q)}
Held == {n \in {txFrame} : txPc = "send"}
InRing(r) == {r[i].val : i \in {j \in 1 .. Len(r) : r[j].kind = "frame"}}
Transit == InRing(toLinux) \cup Held \cup Queued(canRxQ)

\* The gateway is a lossy first-in first-out channel: it never invents,
\* repeats or reorders a CAN frame, whatever is dropped on the way and
\* however often the Linux driver comes back.
Fifo == INSTANCE LossyFifo WITH last <- received, pipe <- Transit, out <- linuxGot
FifoSpec == Fifo!Spec

\* What Linux sends is handled: vring 1 is emptied again and again.
MessagesHandled == []<>(toMcore = <<>>)

\* The last state change reaches Linux (header, line 18).
StateReported == <>[](linuxState = pendingState)
=============================================================================
