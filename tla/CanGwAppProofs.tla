--------------------------- MODULE CanGwAppProofs ---------------------------
(***************************************************************************)
(* Proofs about CanGwApp, for every value of its constants.  Each of its   *)
(* steps is one of CanGateway's, or puts a frame of adc in can_rx_q: what  *)
(* was proved of the gateway's steps is used again.                        *)
(***************************************************************************)
EXTENDS CanGwApp, CanGatewayProofs

\* A step of can-gw is a step of the gateway or a frame of adc.
LEMMA AppStep == [AppNext]_appVars => [Next]_vars \/ AdcPut
<1>. SUFFICES ASSUME [AppNext]_appVars PROVE [Next]_vars \/ AdcPut
  OBVIOUS
<1>1. CASE StartUp
  <2>1. PlatformVdev => PlatformReady \/ UNCHANGED vars
    BY DEF PlatformVdev
  <2>. QED  BY <1>1, <2>1 DEF StartUp, MainBoot, MainNoDevice, PlatformInit, Next
<1>2. CASE GwTask
  BY <1>2 DEF GwTask, GwWait, GwCreate, GwGet, GwSend, Shared, Next, TxTask
<1>3. CASE MainLoop
  BY <1>3 DEF MainLoop, LoopTake, LoopLoadState, LoopLoadPeer, LoopSend, Shared,
              Next, CtlTask
<1>4. CASE AdcTask
  BY <1>4 DEF AdcTask, AdcScan, AdcSend, AdcGivesUp
<1>5. CASE Callback
  BY <1>5 DEF Callback, CbRecv, CbSend, CbStop, CbClear, CbApply, CbStart, Shared,
              Next, MngTask
<1>6. CASE Controller
  BY <1>6 DEF Controller, AppCanRx, TxDone, AppStateChange, Shared, Next, Driver
<1>7. CASE LinuxSide
  BY <1>7 DEF LinuxSide, AppLinuxBind, AppLinuxSend, AppLinuxRecv, Shared, Next, Linux
<1>8. CASE UNCHANGED appVars
  BY <1>8 DEF appVars
<1>. QED  BY <1>1, <1>2, <1>3, <1>4, <1>5, <1>6, <1>7, <1>8 DEF AppNext

-----------------------------------------------------------------------------
(* Type correctness.                                                       *)

\* A frame of adc enters can_rx_q only where there is room.
LEMMA TypeAdcPut == TypeOK /\ AdcPut => TypeOK'
<1>. SUFFICES ASSUME TypeOK, AdcPut PROVE TypeOK'
  OBVIOUS
<1>1. /\ received \in Nat /\ canRxQ \in Seq(Nat) /\ Len(canRxQ) <= QCap
      /\ received' = received + 1 /\ statCanRxDrop' = statCanRxDrop
      /\ statCanRxDrop \in Nat
  BY DEF TypeOK, RxTypeOK, AdcPut
<1>2. canRxQ' \in Seq(Nat) /\ Len(canRxQ') <= QCap
  <2>1. CASE QueueHasRoom
    <3>1. /\ Append(canRxQ, received + 1) \in Seq(Nat)
          /\ Len(Append(canRxQ, received + 1)) = Len(canRxQ) + 1
          /\ Len(canRxQ) \in Nat
      BY <1>1, AppendProperties, LenProperties
    <3>2. canRxQ' = Append(canRxQ, received + 1)
      BY <2>1 DEF AdcPut, AdcQueued
    <3>. QED  BY <2>1, <3>1, <3>2, CapacityAssumption DEF QueueHasRoom
  <2>2. CASE ~QueueHasRoom
    BY <1>1, <2>2 DEF AdcPut, AdcQueued
  <2>. QED  BY <2>1, <2>2
<1>3. RxTypeOK'
  BY <1>1, <1>2 DEF RxTypeOK
<1>4. UNCHANGED <<txVars, ctlVars, mngVars, canVars, toMcore, toLinux, lnxVars, mngPc>>
  BY DEF AdcPut, mngVars
<1>. QED  BY <1>3, <1>4, TypeFrame DEF TypeOK

LEMMA AppTypeStep == TypeOK /\ [AppNext]_appVars => TypeOK'
BY AppStep, TypeStep, TypeAdcPut

\* Only AdcPut says of a frame that it is adc's.
LEMMA OriginFrame == [AppNext]_appVars => AdcPut \/ ofAdc' = ofAdc
<1>. USE DEF adcVars
<1>1. StartUp \/ AdcTask => AdcPut \/ ofAdc' = ofAdc
  BY DEF StartUp, MainBoot, MainNoDevice, PlatformInit, PlatformVdev, AdcTask,
         AdcScan, AdcSend, AdcGivesUp
<1>2. Callback \/ Controller => ofAdc' = ofAdc
  BY DEF Callback, CbRecv, CbSend, CbStop, CbClear, CbApply, CbStart, Shared,
         Controller, AppCanRx, TxDone, AppStateChange
<1>3. GwTask \/ MainLoop \/ LinuxSide \/ UNCHANGED appVars => ofAdc' = ofAdc
  BY DEF GwTask, GwWait, GwCreate, GwGet, GwSend, MainLoop, LoopTake,
         LoopLoadState, LoopLoadPeer, LoopSend, LinuxSide, AppLinuxBind,
         AppLinuxSend, AppLinuxRecv, Shared, appVars
<1>. QED  BY <1>1, <1>2, <1>3 DEF AppNext

\* Only the bus, through can_rx_cb, and adc put a frame in the queue, and
\* only the tx task takes one out.
LEMMA QueueStep ==
    ASSUME [Next]_vars, ~CanRx
    PROVE  received' = received /\ (canRxQ' = canRxQ \/ TxGet)
BY DEF Next, PlatformReady, TxTask, TxWait, TxCreate, TxSend, TxGet, TxSent,
       TxDropped, CtlTask, CtlTake, CtlLoadState, CtlLoadPeer, CtlSend, MngTask,
       MngRecv, MngSend, MngStop, MngClear, MngApply, MngStart, Driver, CanTxDone,
       StateChange, Linux, LinuxBind, LinuxSend, LinuxRecv, vars, rxVars

\* No step takes a frame's number back.
LEMMA ReceivedGrows == TypeOK /\ [AppNext]_appVars => received' >= received
<1>. SUFFICES ASSUME TypeOK, [AppNext]_appVars PROVE received' >= received
  OBVIOUS
<1>. received \in Nat
  BY DEF TypeOK, RxTypeOK
<1>1. CASE AdcPut
  BY <1>1 DEF AdcPut
<1>2. CASE CanRx
  BY <1>2 DEF CanRx
<1>. QED  BY <1>1, <1>2, AppStep, QueueStep

\* A frame of adc has come.
LEMMA OriginType ==
    ASSUME TypeOK, ofAdc \subseteq 1 .. received, [AppNext]_appVars
    PROVE  ofAdc' \subseteq 1 .. received'
<1>. received \in Nat /\ received' \in Nat /\ received' >= received
  BY ReceivedGrows, AppTypeStep DEF TypeOK, RxTypeOK
<1>1. CASE AdcPut
  BY <1>1 DEF AdcPut
<1>2. CASE ofAdc' = ofAdc
  BY <1>2
<1>. QED  BY <1>1, <1>2, OriginFrame

\* The part of AppTypeOK that CanGateway does not have.
OwnTypeOK == /\ BootTypeOK /\ AdcTypeOK
             /\ txBuf \in {"free", "adc", "mng"}
             /\ txBuf = "mng" <=> mngPc = "txwait"

LEMMA OwnTypeStep == TypeOK /\ OwnTypeOK /\ [AppNext]_appVars => OwnTypeOK'
<1>. SUFFICES ASSUME TypeOK, OwnTypeOK, [AppNext]_appVars PROVE OwnTypeOK'
  OBVIOUS
<1>. USE DEF OwnTypeOK, bootVars, adcVars
<1>0. ofAdc' \subseteq 1 .. received'
  BY OriginType DEF AdcTypeOK
<1>1. CASE StartUp
  <2>1. BootTypeOK' /\ AdcTypeOK'
    BY <1>0, <1>1 DEF StartUp, MainBoot, MainNoDevice, PlatformInit, PlatformVdev,
                BootTypeOK, AdcTypeOK
  <2>2. UNCHANGED <<txBuf, mngPc>>
    BY <1>1 DEF StartUp, MainBoot, MainNoDevice, PlatformInit, PlatformVdev,
                PlatformReady, vars, mngVars
  <2>. QED  BY <2>1, <2>2
<1>2. CASE AdcTask
  <2>1. BootTypeOK' /\ AdcTypeOK'
    BY <1>0, <1>2 DEF AdcTask, AdcScan, AdcPut, AdcSend, AdcGivesUp, AdcNext,
                BootTypeOK, AdcTypeOK
  <2>2. UNCHANGED mngPc /\ (UNCHANGED txBuf \/ (txBuf = "free" /\ txBuf' = "adc"))
    BY <1>2 DEF AdcTask, AdcScan, AdcPut, AdcSend, AdcGivesUp, vars, mngVars
  <2>. QED  BY <2>1, <2>2
<1>3. CASE Callback
  <2>1. BootTypeOK' /\ AdcTypeOK'
    BY <1>0, <1>3 DEF Callback, CbRecv, CbSend, CbStop, CbClear, CbApply, CbStart, Shared,
                BootTypeOK, AdcTypeOK
  <2>2. mngPc # "txwait"
    BY <1>3 DEF Callback, CbRecv, CbSend, CbStop, CbClear, CbApply, CbStart, Shared,
                MngRecv, MngSend, MngStop, MngClear, MngApply, MngStart
  <2>3. CASE CbSend
    BY <2>1, <2>2, <2>3 DEF CbSend
  <2>4. CASE CbStop
    BY <2>1, <2>2, <2>4 DEF CbStop, MngStop
  <2>5. CASE CbRecv \/ CbClear \/ CbApply \/ CbStart
    <3>1. mngPc' # "txwait" /\ UNCHANGED txBuf
      BY <2>5 DEF CbRecv, CbClear, CbApply, CbStart, Shared, MngRecv, Dispatch,
                  MngClear, MngApply, MngStart
    <3>. QED  BY <2>1, <2>2, <3>1
  <2>. QED  BY <1>3, <2>3, <2>4, <2>5 DEF Callback
<1>4. CASE TxDone
  BY <1>0, <1>4 DEF TxDone, CanTxDone, vars, mngVars, BootTypeOK, AdcTypeOK
<1>5. CASE UNCHANGED <<bootVars, adcVars, txBuf, mngPc>>
  BY <1>0, <1>5 DEF BootTypeOK, AdcTypeOK
<1>6. GwTask \/ MainLoop \/ AppCanRx \/ (\E s \in CanStates : AppStateChange(s))
        \/ LinuxSide \/ UNCHANGED appVars
      => UNCHANGED <<bootVars, adcVars, txBuf, mngPc>>
  BY DEF GwTask, GwWait, GwCreate, GwGet, GwSend, TxWait, TxCreate, TxGet, TxSend,
         MainLoop, LoopTake, LoopLoadState, LoopLoadPeer, LoopSend, CtlTake,
         CtlLoadState, CtlLoadPeer, CtlSend, AppCanRx, CanRx, AppStateChange,
         StateChange, LinuxSide, AppLinuxBind, AppLinuxSend, AppLinuxRecv, LinuxBind,
         LinuxSend, LinuxRecv, Shared, appVars, vars, mngVars
<1>. QED  BY <1>1, <1>2, <1>3, <1>4, <1>5, <1>6 DEF AppNext, Controller

\* The types of can-gw's variables, the capacities, and who has the transmit
\* buffer (AppTypeOK), for all constants.
THEOREM AppTypeCorrect == AppSpec => []AppTypeOK
<1>1. AppInit => TypeOK /\ OwnTypeOK
  BY TypeInit DEF AppInit, Init, OwnTypeOK, BootTypeOK, AdcTypeOK
<1>2. TypeOK /\ OwnTypeOK <=> AppTypeOK
  BY DEF OwnTypeOK, AppTypeOK
<1>. QED  BY <1>1, <1>2, AppTypeStep, OwnTypeStep, PTL DEF AppSpec

-----------------------------------------------------------------------------
(* A running controller is served.                                         *)

\* Linux can say something only once gw has announced the channel, and the
\* controller is started only by what Linux says.
ServedInv ==
    /\ ept => txPc \in {"get", "send"}
    /\ linuxAddr # NoAddr \/ toMcore # <<>> \/ running => ept
    /\ running \/ mngPc # "poll" => peer # NoAddr

LEMMA ServedStep == TypeOK /\ ServedInv /\ [Next]_vars => ServedInv'
<1>. SUFFICES ASSUME TypeOK, ServedInv, [Next]_vars PROVE ServedInv'
  OBVIOUS
<1>. USE DEF ServedInv
<1>1. CASE TxTask
  BY <1>1 DEF TxTask, TxWait, TxCreate, TxGet, TxSend, mngVars, canVars, lnxVars
<1>2. CASE MngTask \/ CanTxDone
  <2>1. toMcore # <<>> /\ ept
    BY <1>2 DEF MngTask, MngRecv, MngSend, MngStop, MngClear, MngApply, MngStart,
                CanTxDone, TypeOK, RingTypeOK
  <2>2. ept' /\ txPc' \in {"get", "send"}
    BY <1>2, <2>1 DEF MngTask, MngRecv, MngSend, MngStop, MngClear, MngApply,
                      MngStart, CanTxDone, txVars
  <2>3. peer' # NoAddr
    <3>1. CASE MngRecv
      <4>1. msg.src \in Addr
        BY <2>1, RingTail DEF msg, McoreMsgs, TypeOK, RingTypeOK
      <4>. QED  BY <3>1, <4>1, AddrAssumption DEF MngRecv, LearntPeer, NoAddr
    <3>2. CASE ~MngRecv
      BY <1>2, <3>2 DEF MngTask, MngSend, MngStop, MngClear, MngApply, MngStart,
                        CanTxDone
    <3>. QED  BY <3>1, <3>2
  <2>. QED  BY <2>2, <2>3
<1>3. CASE Linux
  <2>1. UNCHANGED <<ept, txPc, running, mngPc, peer>>
    BY <1>3 DEF Linux, LinuxBind, LinuxSend, LinuxRecv, txVars, mngVars, canVars
  <2>2. ept \/ UNCHANGED <<linuxAddr, toMcore>>
    BY <1>3 DEF Linux, LinuxBind, LinuxSend, LinuxRecv
  <2>. QED  BY <2>1, <2>2
<1>4. CASE UNCHANGED <<ept, txPc, running, mngPc, peer, linuxAddr, toMcore>>
  BY <1>4
<1>5. PlatformReady \/ CtlTask \/ CanRx \/ (\E s \in CanStates : StateChange(s))
        \/ UNCHANGED vars
      => UNCHANGED <<ept, txPc, running, mngPc, peer, linuxAddr, toMcore>>
  BY DEF PlatformReady, CtlTask, CtlTake, CtlLoadState, CtlLoadPeer, CtlSend, CanRx,
         StateChange, vars, txVars, mngVars, canVars, lnxVars
<1>. QED  BY <1>1, <1>2, <1>3, <1>4, <1>5 DEF Next, Driver

LEMMA ServedInit == AppInit => ServedInv
BY DEF AppInit, Init, ServedInv, NoAddr

LEMMA AppServedStep == TypeOK /\ ServedInv /\ [AppNext]_appVars => ServedInv'
<1>1. ServedInv /\ AdcPut => ServedInv'
  BY DEF AdcPut, ServedInv, txVars, mngVars, canVars, lnxVars
<1>. QED  BY <1>1, AppStep, ServedStep

\* The controller runs only while gw empties the queue and knows where to
\* send (ServedWhenRunning), though a platform that fails never wakes gw.
THEOREM ServedCorrect == AppSpec => []ServedWhenRunning
<1>1. AppInit => TypeOK
  BY TypeInit DEF AppInit
<1>2. ServedInv => ServedWhenRunning
  BY DEF ServedInv, ServedWhenRunning
<1>. QED  BY <1>1, <1>2, ServedInit, AppServedStep, AppTypeStep, PTL DEF AppSpec

-----------------------------------------------------------------------------
(* The channel.                                                            *)

\* A frame of adc is offered to the channel like one of the bus.
LEMMA OrderAdcPut == TypeOK /\ OrderInv /\ AdcPut => OrderInv' /\ Fifo!Offer
BY OrderOffer DEF AdcPut, AdcQueued, txVars, lnxVars

\* The frames of the bus and of the converter together make one lossy FIFO
\* channel to Linux (FifoSpec).
THEOREM AppRefinesFifo == AppSpec => FifoSpec
<1>1. AppInit => TypeOK /\ OrderInv /\ Fifo!Init
  BY TypeInit DEF AppInit, Init, OrderInv, Transit, Queued, Held, InRing, Fifo!Init
<1>2. TypeOK /\ OrderInv /\ [AppNext]_appVars
        => OrderInv' /\ [Fifo!Next]_(Fifo!vars)
  BY AppStep, OrderStep, OrderAdcPut DEF Fifo!Next
<1>. QED  BY <1>1, <1>2, AppTypeStep, PTL DEF AppSpec, FifoSpec, Fifo!Spec

-----------------------------------------------------------------------------
(* What CanGateway's own theorems say holds in can-gw too.                 *)

\* A frame of adc touches nothing of the callback, of the ctl task or of the
\* controller.
LEMMA AdcPutFrame ==
    AdcPut => /\ UNCHANGED <<ctlVars, mngVars, canVars, toMcore, lnxVars>>
              /\ msg' = msg
BY DEF AdcPut, msg

\* No state change is forgotten on its way to the control loop
\* (NoLostWakeup), nor by the loop that main becomes.
THEOREM AppWakeupCorrect == AppSpec => []NoLostWakeup
<1>1. AppInit => NoLostWakeup
  BY DEF AppInit, Init, NoLostWakeup
<1>2. NoLostWakeup /\ AdcPut => NoLostWakeup'
  BY AdcPutFrame DEF ctlVars, NoLostWakeup
<1>3. NoLostWakeup /\ [AppNext]_appVars => NoLostWakeup'
  BY <1>2, AppStep, WakeupStep
<1>. QED  BY <1>1, <1>3, PTL DEF AppSpec

\* The reply address follows the Linux driver (PeerCurrent) whatever comes
\* from the converter.
THEOREM AppPeerCorrect == AppSpec => []PeerCurrent
<1>1. AppInit => TypeOK /\ PeerCurrent
  BY TypeInit DEF AppInit, Init, PeerCurrent
<1>2. PeerCurrent /\ AdcPut => PeerCurrent'
  BY AdcPutFrame DEF mngVars, lnxVars, PeerCurrent
<1>3. TypeOK /\ PeerCurrent /\ [AppNext]_appVars => PeerCurrent'
  BY <1>2, AppStep, PeerStep
<1>. QED  BY <1>1, <1>3, AppTypeStep, PTL DEF AppSpec

\* can_started, by which adc decides whether to send, never claims a
\* controller that is stopped (StartedMeansRunning).
THEOREM AppStartedCorrect == AppSpec => []StartedMeansRunning
<1>1. AppInit => TypeOK /\ StartedMeansRunning
  BY TypeInit DEF AppInit, Init, StartedMeansRunning
<1>2. StartedMeansRunning /\ AdcPut => StartedMeansRunning'
  BY AdcPutFrame DEF mngVars, canVars, StartedMeansRunning
<1>3. TypeOK /\ StartedMeansRunning /\ [AppNext]_appVars => StartedMeansRunning'
  BY <1>2, AppStep, StartedStep
<1>. QED  BY <1>1, <1>3, AppTypeStep, PTL DEF AppSpec

\* When the driver's calls succeed, can-gw too applies settings to a stopped
\* controller (AppliedWhileStopped) and runs it as Linux asked last
\* (RunsAsAsked).
THEOREM AppControlCorrect ==
    ASSUME ~DriverMayFail PROVE AppSpec => [](AppliedWhileStopped /\ RunsAsAsked)
<1>1. AppInit => TypeOK /\ ControlInv
  BY TypeInit, ControlInit DEF AppInit
<1>2. ControlInv /\ AdcPut => ControlInv'
  <2>. SUFFICES ASSUME ControlInv, AdcPut PROVE ControlInv'
    OBVIOUS
  <2>1. UNCHANGED <<mngPc, canStarted, running, config, asked>> /\ msg' = msg
    BY AdcPutFrame DEF mngVars, canVars
  <2>2. WithSetting(config)' = WithSetting(config)
    BY <2>1 DEF WithSetting
  <2>. QED  BY <2>1, <2>2 DEF ControlInv
<1>3. TypeOK /\ ControlInv /\ [AppNext]_appVars => ControlInv'
  BY <1>2, AppStep, ControlStep
<1>4. ControlInv => AppliedWhileStopped /\ RunsAsAsked
  BY DEF ControlInv, AppliedWhileStopped, RunsAsAsked
<1>. QED  BY <1>1, <1>3, <1>4, AppTypeStep, PTL DEF AppSpec

-----------------------------------------------------------------------------
(***************************************************************************)
(* The statistics of can-gw.  adc looks neither at the result of k_msgq_put*)
(* nor at whether Linux is there, so FramesAccounted and PeerBeforeFrames, *)
(* which hold of main-app's gateway, do not hold here.  What they leave    *)
(* uncounted or discarded are frames of the converter and no others.       *)
(***************************************************************************)

\* Until Linux is known every frame in the queue is adc's.
OriginInv == peer = NoAddr => Queued(canRxQ) \subseteq ofAdc

\* Only the tx task discards a frame, and only while Linux is unknown.
LEMMA DiscardStep ==
    ASSUME [Next]_vars
    PROVE  \/ noPeer' = noPeer
           \/ canRxQ # <<>> /\ peer = NoAddr
<1>1. CASE TxTask
  BY <1>1 DEF TxTask, TxWait, TxCreate, TxGet, TxSend
<1>2. CASE ~TxTask
  BY <1>2 DEF Next, PlatformReady, CtlTask, CtlTake, CtlLoadState, CtlLoadPeer,
              CtlSend, MngTask, MngRecv, MngSend, MngStop, MngClear, MngApply,
              MngStart, Driver, CanRx, CanTxDone, StateChange, Linux, LinuxBind,
              LinuxSend, LinuxRecv, vars, txVars
<1>. QED  BY <1>1, <1>2

\* Once Linux is known it stays so.
LEMMA UnknownStep ==
    ASSUME TypeOK, [Next]_vars, peer' = NoAddr
    PROVE  peer = NoAddr
<1>1. CASE MngRecv
  <2>1. msg.src \in Addr
    BY <1>1, RingTail DEF MngRecv, msg, McoreMsgs, TypeOK, RingTypeOK
  <2>. QED  BY <1>1, <2>1, AddrAssumption DEF MngRecv, LearntPeer, NoAddr
<1>2. CASE ~MngRecv
  BY <1>2 DEF Next, PlatformReady, TxTask, TxWait, TxCreate, TxGet, TxSend, CtlTask,
              CtlTake, CtlLoadState, CtlLoadPeer, CtlSend, MngTask, MngSend,
              MngStop, MngClear, MngApply, MngStart, Driver, CanRx, CanTxDone,
              StateChange, Linux, LinuxBind, LinuxSend, LinuxRecv, vars, mngVars
<1>. QED  BY <1>1, <1>2

\* While Linux is unknown nothing comes from the bus, so that the queue fills
\* with frames of adc alone.
LEMMA OriginStep ==
    ASSUME TypeOK, ServedInv, OriginInv, [AppNext]_appVars
    PROVE  OriginInv'
<1>. SUFFICES ASSUME peer' = NoAddr PROVE Queued(canRxQ') \subseteq ofAdc'
  BY DEF OriginInv
<1>. canRxQ \in Seq(Nat) /\ received \in Nat
  BY DEF TypeOK, RxTypeOK
<1>1. CASE AdcPut
  <2>1. Queued(canRxQ) \subseteq ofAdc /\ ofAdc' = ofAdc \cup {received + 1}
    BY <1>1 DEF AdcPut, mngVars, OriginInv
  <2>2. Queued(Append(canRxQ, received + 1)) = Queued(canRxQ) \cup {received + 1}
    BY QueuedAppend
  <2>. QED  BY <1>1, <2>1, <2>2 DEF AdcPut, AdcQueued
<1>2. CASE ~AdcPut
  <2>1. [Next]_vars
    BY <1>2, AppStep
  <2>2. peer = NoAddr /\ Queued(canRxQ) \subseteq ofAdc
    BY <2>1, UnknownStep DEF OriginInv
  <2>3. ~CanRx
    BY <2>2 DEF CanRx, ServedInv
  <2>4. Queued(canRxQ') \subseteq Queued(canRxQ)
    <3>1. CASE canRxQ' = canRxQ
      BY <3>1
    <3>2. CASE TxGet
      BY <3>2, QueuedTail DEF TxGet
    <3>. QED  BY <2>1, <2>3, <3>1, <3>2, QueueStep
  <2>5. ofAdc' = ofAdc
    BY <1>2, OriginFrame
  <2>. QED  BY <2>2, <2>4, <2>5
<1>. QED  BY <1>1, <1>2

\* What leaves the statistics, and what is discarded.
LEMMA LossStep ==
    ASSUME TypeOK, OriginInv, [AppNext]_appVars
    PROVE  /\ Uncounted' # Uncounted =>
                 /\ Uncounted' = Uncounted + 1
                 /\ received' = received + 1 /\ received' \in ofAdc'
           /\ noPeer' # noPeer => Head(canRxQ) \in ofAdc
<1>. /\ received \in Nat /\ noPeer \in Nat /\ Len(canRxQ) \in Nat
     /\ Counted \in Nat /\ Uncounted \in Int /\ canRxQ \in Seq(Nat)
  BY CountedType DEF TypeOK, RxTypeOK
<1>1. CASE AdcPut
  <2>1. /\ received' = received + 1 /\ received' \in ofAdc'
        /\ UNCHANGED <<noPeer, statCanRxDrop, statCanRx, statRpmsgDrop>>
        /\ InHand' = InHand
    BY <1>1 DEF AdcPut, InHand, txVars
  <2>2. Len(canRxQ') \in {Len(canRxQ), Len(canRxQ) + 1}
    <3>1. Len(Append(canRxQ, received + 1)) = Len(canRxQ) + 1
      BY AppendProperties
    <3>. QED  BY <1>1, <3>1 DEF AdcPut, AdcQueued
  <2>3. Counted' = Counted \/ Counted' = Counted + 1
    <3>. /\ statCanRxDrop \in Nat /\ statCanRx \in Nat /\ statRpmsgDrop \in Nat
         /\ InHand \in {0, 1}
      BY CountedType
    <3>1. CASE Len(canRxQ') = Len(canRxQ)
      BY <2>1, <3>1 DEF Counted
    <3>2. CASE Len(canRxQ') = Len(canRxQ) + 1
      BY <2>1, <3>2 DEF Counted
    <3>. QED  BY <2>2, <3>1, <3>2
  <2>4. Uncounted' = Uncounted \/ Uncounted' = Uncounted + 1
    BY <2>1, <2>3 DEF Uncounted
  <2>. QED  BY <2>1, <2>4
<1>2. CASE ~AdcPut
  <2>1. [Next]_vars
    BY <1>2, AppStep
  <2>2. Uncounted' = Uncounted
    BY <2>1, AccountingStep
  <2>3. ASSUME noPeer' # noPeer PROVE Head(canRxQ) \in ofAdc
    <3>1. canRxQ # <<>> /\ Queued(canRxQ) \subseteq ofAdc
      BY <2>1, <2>3, DiscardStep DEF OriginInv
    <3>. QED  BY <3>1, QueuedTail
  <2>. QED  BY <2>2, <2>3
<1>. QED  BY <1>1, <1>2

\* Each frame that can-gw leaves out of its statistics, when it finds
\* can_rx_q full, and each that it discards before Linux is known is one of
\* the converter (OnlyAdcLost): of every frame of the bus the statistics say
\* what became of it.
THEOREM LossesAreAdc == AppSpec => OnlyAdcLost
<1>1. AppInit => TypeOK /\ ServedInv /\ OriginInv
  <2>1. AppInit => OriginInv
    BY DEF AppInit, Init, OriginInv, Queued
  <2>. QED  BY <2>1, TypeInit, ServedInit DEF AppInit
<1>2. TypeOK /\ ServedInv /\ OriginInv /\ [AppNext]_appVars
        => (TypeOK /\ ServedInv /\ OriginInv)'
  BY AppTypeStep, AppServedStep, OriginStep
<1>3. TypeOK /\ ServedInv /\ OriginInv /\ [AppNext]_appVars
        => [ /\ Uncounted' # Uncounted =>
                   /\ Uncounted' = Uncounted + 1
                   /\ received' = received + 1 /\ received' \in ofAdc'
             /\ noPeer' # noPeer => Head(canRxQ) \in ofAdc ]_appVars
  BY LossStep
<1>. QED  BY <1>1, <1>2, <1>3, PTL DEF AppSpec, OnlyAdcLost
=============================================================================
