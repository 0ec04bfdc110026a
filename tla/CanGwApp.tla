------------------------------ MODULE CanGwApp ------------------------------
(***************************************************************************)
(* The whole of apps/can-gw/src/main.c: the gateway of CanGateway, which   *)
(* main-app inherited from it, together with what only can-gw has.         *)
(*                                                                         *)
(*   main   registers the filter, creates the threads and becomes the      *)
(*          control loop (CanGateway's ctl);                               *)
(*   mng    brings rpmsg up, then polls vring 1.  When it fails it returns *)
(*          before the semaphore is given, so that gw waits for ever;      *)
(*   gw     can_gw_task (CanGateway's tx);                                 *)
(*   adc    adc_task: two frames a scan, through the same can_rx_q and out *)
(*          of the same controller.  AdcGateway has the scan itself.       *)
(*                                                                         *)
(* The MCP2515 driver uses one transmit buffer.  adc's frames leave it     *)
(* when the bus acknowledges them or the controller is stopped; the        *)
(* endpoint callback drops its frame when it finds the buffer taken.       *)
(*                                                                         *)
(* Frames of adc are numbered with those of the bus, in the order in which *)
(* they come to can_rx_q.                                                  *)
(***************************************************************************)
EXTENDS CanGateway

CONSTANT MaxScans   \* bound: scans of the converter

ASSUME ScansAssumption == MaxScans \in Nat

VARIABLES
    mainPc,     \* where main is: before the threads exist, or in its loop
    platPc,     \* how far rpmsg_mng_task has brought rpmsg up
    adcPc,      \* where adc_task is
    half,       \* its local f: 0 for CAN id 0x700, 1 for 0x701
    scans,      \* scans so far (bound)
    ofAdc,      \* the numbers of adc's frames (ghost); the others are the bus's
    txBuf       \* whose frame is in the controller's transmit buffer

bootVars == <<mainPc, platPc>>
adcVars == <<adcPc, half, scans, ofAdc>>
appVars == <<vars, bootVars, adcVars, txBuf>>

AppInit ==
    /\ Init
    /\ mainPc = "init" /\ platPc = "none"
    /\ adcPc = "none" /\ half = 0 /\ scans = 0 /\ ofAdc = {}
    /\ txBuf = "free"

\* A step the other gateway has too.
Shared(A) == A /\ UNCHANGED <<bootVars, adcVars, txBuf>>

-----------------------------------------------------------------------------
(* main and the bring-up of rpmsg.                                         *)

MainBootStarts ==                                                   \* mutant
    /\ mainPc = "init" /\ mainPc' = "loop"
    /\ platPc' = "init" /\ adcPc' \in {"sleep", "ended"}
    /\ running' = TRUE /\ canStarted' = TRUE
    /\ UNCHANGED <<mngPc, peer, statCanTx, statCanTxDrop, asked, config>>
    /\ UNCHANGED <<rxVars, txVars, ctlVars, toMcore, toLinux, lnxVars>>
    /\ UNCHANGED <<half, scans, ofAdc, txBuf>>

\* The filter, the callback and the threads; the controller is left stopped
\* until Linux asks for it.  adc ends at once if it finds no converter.
MainBoot ==
    /\ mainPc = "init" /\ mainPc' = "loop"
    /\ platPc' = "init" /\ adcPc' \in {"sleep", "ended"}
    /\ UNCHANGED <<vars, half, scans, ofAdc, txBuf>>

\* Without a CAN device main returns and there are no threads.
MainNoDevice ==
    /\ mainPc = "init" /\ mainPc' = "ended"
    /\ UNCHANGED <<vars, platPc, adcVars, txBuf>>

\* platform_init: metal, the resource table, the mailbox.
PlatformInit ==
    /\ platPc = "init" /\ platPc' \in {"vdev", "ended"}
    /\ UNCHANGED <<vars, mainPc, adcVars, txBuf>>

\* platform_create_rpmsg_vdev, which first waits for Linux; only when it
\* succeeds is rpdev_ready_sem given.
PlatformVdev ==
    /\ platPc = "vdev"
    /\ \/ platPc' = "poll" /\ PlatformReady /\ rpReady' = "ok"
       \/ platPc' = "ended" /\ UNCHANGED vars
    /\ UNCHANGED <<mainPc, adcVars, txBuf>>

-----------------------------------------------------------------------------
(* gw and the control loop: CanGateway's tx and ctl.                       *)

\* k_sem_take(&rpdev_ready_sem, K_FOREVER); there is no result to look at.
GwWait == Shared(TxWait)
GwCreate == Shared(TxCreate)
GwGet == Shared(TxGet)
GwSend == Shared(TxSend)

LoopTake == Shared(CtlTake)
LoopLoadState == Shared(CtlLoadState)
LoopLoadPeer == Shared(CtlLoadPeer)
LoopSend == Shared(CtlSend)

-----------------------------------------------------------------------------
(* adc: adc_task from the end of a scan on.                                *)

\* The sleep is over and the eight channels are read.
AdcScan ==
    /\ adcPc = "sleep" /\ adcPc' = "put"
    /\ scans < MaxScans /\ scans' = scans + 1
    /\ UNCHANGED <<vars, bootVars, half, ofAdc, txBuf>>

\* The second frame of the scan, or the sleep until the next scan.
AdcNext ==
    /\ adcPc' = (IF half = 0 THEN "put" ELSE "sleep")
    /\ half' = 1 - half

AdcQueuedAlways == Append(canRxQ, received + 1)                     \* mutant
AdcQueuedFirst ==                                                   \* mutant
    IF QueueHasRoom THEN <<received + 1>> \o canRxQ ELSE canRxQ

\* k_msgq_put with K_NO_WAIT, whose result is not looked at.
AdcQueued == IF QueueHasRoom THEN Append(canRxQ, received + 1) ELSE canRxQ

AdcPut ==
    /\ adcPc = "put"
    /\ received' = received + 1
    /\ canRxQ' = AdcQueued
    /\ ofAdc' = ofAdc \cup {received + 1}
    /\ IF canStarted THEN adcPc' = "send" /\ UNCHANGED half ELSE AdcNext
    /\ UNCHANGED <<statCanRxDrop, scans, bootVars, txBuf>>
    /\ UNCHANGED <<txVars, ctlVars, mngVars, canVars, toMcore, toLinux, lnxVars>>

\* can_send with a callback: it returns once the frame has the buffer, which
\* a controller stopped meanwhile keeps for later ...
AdcSend ==
    /\ adcPc = "send" /\ AdcNext
    /\ txBuf = "free" /\ txBuf' = "adc"
    /\ UNCHANGED <<vars, scans, ofAdc, bootVars>>

\* ... or after 5 ms without it, or at once on a stopped controller.
AdcGivesUp ==
    /\ adcPc = "send" /\ AdcNext
    /\ txBuf # "free" \/ ~running
    /\ UNCHANGED <<vars, scans, ofAdc, bootVars, txBuf>>

-----------------------------------------------------------------------------
(* mng: the endpoint callback.                                             *)

CbRecv == Shared(MngRecv)
CbClear == Shared(MngClear)
CbApply == Shared(MngApply)
CbStart == Shared(MngStart)

\* can_send with K_NO_WAIT and no callback: refused while the buffer is
\* taken, else the thread waits for the end of the transmission.
CbSendWaits ==                                                      \* mutant
    /\ MngSend
    /\ txBuf = "free"
    /\ txBuf' = (IF mngPc' = "txwait" THEN "mng" ELSE txBuf)
    /\ UNCHANGED <<bootVars, adcVars>>
CbSend ==
    /\ MngSend
    /\ IF mngPc' = "txwait" THEN txBuf = "free" /\ txBuf' = "mng"
                            ELSE UNCHANGED txBuf
    /\ UNCHANGED <<bootVars, adcVars>>

\* can_stop: a controller that stops gives back what it has not sent.
CbStop ==
    /\ MngStop
    /\ txBuf' = (IF running' THEN txBuf ELSE "free")
    /\ UNCHANGED <<bootVars, adcVars>>

-----------------------------------------------------------------------------
(* The controller and Linux.                                               *)

AppCanRxUncounted ==                                                \* mutant
    \/ QueueHasRoom /\ Shared(CanRx)
    \/ /\ ~QueueHasRoom /\ running
       /\ received < MaxFrames /\ received' = received + 1
       /\ UNCHANGED <<canRxQ, statCanRxDrop, bootVars, adcVars, txBuf>>
       /\ UNCHANGED <<txVars, ctlVars, mngVars, canVars, toMcore, toLinux, lnxVars>>
AppCanRx == Shared(CanRx)
AppStateChange(s) == Shared(StateChange(s))

\* A transmission ends: can_send returns in mng, or adc_can_tx_cb is called,
\* which does nothing.
TxDone ==
    /\ \/ txBuf = "mng" /\ CanTxDone
       \/ txBuf = "adc" /\ running /\ UNCHANGED vars
    /\ txBuf' = "free"
    /\ UNCHANGED <<bootVars, adcVars>>

AppLinuxBind(a) == Shared(LinuxBind(a))
AppLinuxSend(k) == Shared(LinuxSend(k))
AppLinuxRecv == Shared(LinuxRecv)

-----------------------------------------------------------------------------
GwTask == GwWait \/ GwCreate \/ GwGet \/ GwSend
MainLoop == LoopTake \/ LoopLoadState \/ LoopLoadPeer \/ LoopSend
AdcTask == AdcScan \/ AdcPut \/ AdcSend \/ AdcGivesUp
Callback == CbRecv \/ CbSend \/ CbStop \/ CbClear \/ CbApply \/ CbStart
StartUp == MainBoot \/ MainNoDevice \/ PlatformInit \/ PlatformVdev
Controller == AppCanRx \/ TxDone \/ \E s \in CanStates : AppStateChange(s)
LinuxSide == \/ \E a \in Addr : AppLinuxBind(a)
             \/ \E k \in Kinds : AppLinuxSend(k)
             \/ AppLinuxRecv

AppNext == StartUp \/ GwTask \/ MainLoop \/ AdcTask \/ Callback
           \/ Controller \/ LinuxSide

AppSpec == AppInit /\ [][AppNext]_appVars

\* Every thread that can go on does, and Linux consumes what it is sent; no
\* promise that the bus acknowledges anything.
AppFairSpec == /\ AppSpec
               /\ WF_appVars(GwTask)
               /\ WF_appVars(MainLoop)
               /\ WF_appVars(AdcTask)
               /\ WF_appVars(Callback)
               /\ WF_appVars(AppLinuxRecv)

-----------------------------------------------------------------------------
(* Properties.                                                             *)

BootTypeOK == /\ mainPc \in {"init", "loop", "ended"}
              /\ platPc \in {"none", "init", "vdev", "poll", "ended"}
AdcTypeOK == /\ adcPc \in {"none", "sleep", "put", "send", "ended"}
             /\ half \in {0, 1} /\ scans \in Nat
             /\ ofAdc \subseteq 1 .. received

\* Every variable keeps its type; no queue outgrows its storage, though adc
\* and can_rx_cb both fill can_rx_q (lines 192 and 416); and the transmit
\* buffer holds a frame of the callback exactly while the callback waits.
AppTypeOK ==
    /\ TypeOK /\ BootTypeOK /\ AdcTypeOK
    /\ txBuf \in {"free", "adc", "mng"}
    /\ txBuf = "mng" <=> mngPc = "txwait"

\* Frames come from the bus only while somebody takes them out of can_rx_q
\* and knows where to send them.  A platform that fails wakes nobody (lines
\* 747 to 757) and main goes on without it, so this hangs on the controller
\* being started by Linux alone (comment of line 839).
ServedWhenRunning == running => txPc \in {"get", "send"} /\ peer # NoAddr

\* adc looks neither at the result of its k_msgq_put (line 416) nor at whether
\* Linux is there, so that FramesAccounted and PeerBeforeFrames, which hold of
\* main-app's gateway, do not hold here.  But it is the converter's frames
\* that pay for it: a frame that drops out of the statistics is one of adc,
\* at the moment it comes, and so is each frame that gw takes out of the queue
\* and discards for want of a peer (lines 796 to 798).  Of a frame of the bus
\* the statistics say what became of it.
OnlyAdcLost ==
    [][ /\ Uncounted' # Uncounted =>
              /\ Uncounted' = Uncounted + 1
              /\ received' = received + 1 /\ received' \in ofAdc'
        /\ noPeer' # noPeer => Head(canRxQ) \in ofAdc ]_appVars

\* What Linux sends is handled again and again, unless the callback waits
\* for the bus to acknowledge its own frame: a frame of adc that nobody
\* acknowledges holds up nothing but the frames of Linux, which are dropped.
HandledUnlessUnacked == []<>(toMcore = <<>>) \/ <>[](mngPc = "txwait")
=============================================================================
