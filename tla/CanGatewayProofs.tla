-------------------------- MODULE CanGatewayProofs --------------------------
(***************************************************************************)
(* Proofs about CanGateway, for every value of its constants: any queue    *)
(* and vring capacities, any number of frames, messages, state changes and *)
(* driver bindings.                                                        *)
(***************************************************************************)
EXTENDS CanGateway, SequenceTheorems, TLAPS

-----------------------------------------------------------------------------
(* Facts about the helpers the actions are built from.                     *)

\* A callback always goes to a step of the mng thread.
LEMMA DispatchType == Dispatch \in MngPcs
BY DEF Dispatch, MngPcs

\* The settings a message asks for are settings.
LEMMA WithSettingType ==
    ASSUME RingTypeOK, toMcore # <<>>, NEW c \in Configs
    PROVE  WithSetting(c) \in Configs
<1>1. msg \in McoreMsgs
  BY HeadTailProperties DEF RingTypeOK, msg
<1>2. CASE msg.kind = "bitrate"
  BY <1>1, <1>2 DEF McoreMsgs, AllKinds, CtrlKinds, WithSetting, Configs
<1>3. CASE msg.kind = "mode"
  BY <1>1, <1>3 DEF McoreMsgs, AllKinds, CtrlKinds, WithSetting, Configs
<1>4. CASE msg.kind \notin {"bitrate", "mode"}
  BY <1>4 DEF WithSetting
<1>. QED  BY <1>2, <1>3, <1>4

\* What Linux may send is a message to the M core.
LEMMA McoreMsgType ==
    ASSUME NEW k \in AllKinds, NEW a \in Addr, NEW v \in Payloads(k)
    PROVE  McoreMsg(k, a, v) \in McoreMsgs
BY DEF McoreMsg, McoreMsgs, Payloads, AllKinds, CtrlKinds

\* Appending to a ring with room keeps its type and its size.
LEMMA RingAppend ==
    ASSUME NEW S, NEW r \in Seq(S), HasRoom(r), NEW e \in S
    PROVE  /\ Append(r, e) \in Seq(S)
           /\ Len(Append(r, e)) <= NumBufs
           /\ Append(r, e) # <<>>
           /\ Append(r, e)[Len(Append(r, e))] = e
<1>. Len(r) \in Nat
  BY LenProperties
<1>. QED  BY AppendProperties, CapacityAssumption DEF HasRoom

\* Releasing the head of a ring keeps its type, its size and its last entry.
LEMMA RingTail ==
    ASSUME NEW S, NEW r \in Seq(S), r # <<>>
    PROVE  /\ Head(r) \in S
           /\ Tail(r) \in Seq(S)
           /\ Len(Tail(r)) = Len(r) - 1
           /\ Tail(r) # <<>> => Tail(r)[Len(Tail(r))] = r[Len(r)]
           /\ Tail(r) = <<>> => Head(r) = r[Len(r)]
<1>1. Len(r) \in Nat \ {0}
  BY EmptySeq, LenProperties
<1>2. /\ Head(r) \in S /\ Tail(r) \in Seq(S)
      /\ Len(Tail(r)) = Len(r) - 1
      /\ \A i \in 1 .. Len(Tail(r)) : Tail(r)[i] = r[i + 1]
  BY HeadTailProperties
<1>3. Tail(r) # <<>> => Tail(r)[Len(Tail(r))] = r[Len(r)]
  <2>. SUFFICES ASSUME Tail(r) # <<>>
                PROVE  Tail(r)[Len(Tail(r))] = r[Len(r)]
    OBVIOUS
  <2>1. Len(Tail(r)) \in Nat \ {0}
    BY <1>2, EmptySeq
  <2>. QED  BY <1>1, <1>2, <2>1
<1>4. Tail(r) = <<>> => Head(r) = r[Len(r)]
  <2>1. Head(r) = r[1]
    OBVIOUS
  <2>2. Tail(r) = <<>> => Len(Tail(r)) = 0
    BY EmptySeq
  <2>. QED  BY <1>1, <1>2, <2>1, <2>2
<1>. QED  BY <1>2, <1>3, <1>4

-----------------------------------------------------------------------------
(* Type correctness.                                                       *)

LEMMA TypeInit == Init => TypeOK
<1>. SUFFICES ASSUME Init PROVE TypeOK
  OBVIOUS
<1>. USE CapacityAssumption, BitrateAssumption DEF Init, NoAddr, NoState
<1>1. BootConfig \in Configs
  BY DEF BootConfig, Configs
<1>2. RxTypeOK
  BY DEF RxTypeOK
<1>3. TxTypeOK
  BY DEF TxTypeOK
<1>4. CtlTypeOK
  BY DEF CtlTypeOK
<1>5. MngTypeOK /\ CanTypeOK
  BY <1>1 DEF MngTypeOK, CanTypeOK, MngPcs
<1>6. RingTypeOK
  BY DEF RingTypeOK
<1>7. LinuxTypeOK
  BY DEF LinuxTypeOK
<1>. QED  BY <1>2, <1>3, <1>4, <1>5, <1>6, <1>7 DEF TypeOK

\* A part of the type invariant survives a step that leaves its variables.
LEMMA TypeFrame ==
    /\ RxTypeOK /\ UNCHANGED rxVars => RxTypeOK'
    /\ TxTypeOK /\ UNCHANGED txVars => TxTypeOK'
    /\ CtlTypeOK /\ UNCHANGED ctlVars => CtlTypeOK'
    /\ MngTypeOK /\ UNCHANGED mngVars => MngTypeOK'
    /\ CanTypeOK /\ UNCHANGED canVars => CanTypeOK'
    /\ RingTypeOK /\ UNCHANGED <<toMcore, toLinux, mngPc>> => RingTypeOK'
    /\ LinuxTypeOK /\ UNCHANGED lnxVars => LinuxTypeOK'
<1>1. RxTypeOK /\ UNCHANGED rxVars => RxTypeOK'
  BY DEF RxTypeOK, rxVars
<1>2. TxTypeOK /\ UNCHANGED txVars => TxTypeOK'
  BY DEF TxTypeOK, txVars
<1>3. CtlTypeOK /\ UNCHANGED ctlVars => CtlTypeOK'
  BY DEF CtlTypeOK, ctlVars
<1>4. MngTypeOK /\ UNCHANGED mngVars => MngTypeOK'
  BY DEF MngTypeOK, mngVars
<1>5. CanTypeOK /\ UNCHANGED canVars => CanTypeOK'
  BY DEF CanTypeOK, canVars
<1>6. RingTypeOK /\ UNCHANGED <<toMcore, toLinux, mngPc>> => RingTypeOK'
  BY DEF RingTypeOK
<1>7. LinuxTypeOK /\ UNCHANGED lnxVars => LinuxTypeOK'
  BY DEF LinuxTypeOK, lnxVars
<1>. QED  BY <1>1, <1>2, <1>3, <1>4, <1>5, <1>6, <1>7

LEMMA TypeRx == TypeOK /\ CanRx => TypeOK'
<1>. SUFFICES ASSUME TypeOK, CanRx PROVE TypeOK'
  OBVIOUS
<1>1. /\ Append(canRxQ, received + 1) \in Seq(Nat)
      /\ Len(Append(canRxQ, received + 1)) = Len(canRxQ) + 1
      /\ Len(canRxQ) \in Nat
  BY AppendProperties, LenProperties DEF TypeOK, RxTypeOK
<1>2. RxTypeOK'
  <2>1. CASE QueueHasRoom
    <3>1. Len(canRxQ) + 1 <= QCap
      BY <1>1, <2>1, CapacityAssumption DEF QueueHasRoom
    <3>2. /\ canRxQ' = Append(canRxQ, received + 1)
          /\ received' = received + 1 /\ UNCHANGED statCanRxDrop
      BY <2>1 DEF CanRx
    <3>. QED  BY <1>1, <3>1, <3>2 DEF TypeOK, RxTypeOK
  <2>2. CASE ~QueueHasRoom
    BY <2>2 DEF TypeOK, RxTypeOK, CanRx
  <2>. QED  BY <2>1, <2>2
<1>3. UNCHANGED mngPc
  BY DEF CanRx, mngVars
<1>. QED  BY <1>2, <1>3, TypeFrame DEF TypeOK, CanRx

LEMMA TypeTx == TypeOK /\ (PlatformReady \/ TxTask) => TypeOK'
<1>. SUFFICES ASSUME TypeOK, PlatformReady \/ TxTask PROVE TypeOK'
  OBVIOUS
<1>1. UNCHANGED <<ctlVars, mngVars, mngPc, canVars, toMcore, lnxVars>>
  BY DEF PlatformReady, TxTask, TxWait, TxCreate, TxGet, TxSend, mngVars
<1>2. CASE PlatformReady \/ TxWait \/ TxCreate
  <2>1. TxTypeOK'
    BY <1>2 DEF TypeOK, TxTypeOK, PlatformReady, TxWait, TxCreate
  <2>. QED  BY <1>1, <1>2, <2>1, TypeFrame DEF TypeOK, PlatformReady, TxWait, TxCreate
<1>3. CASE TxGet
  <2>1. /\ Head(canRxQ) \in Nat /\ Tail(canRxQ) \in Seq(Nat)
        /\ Len(Tail(canRxQ)) = Len(canRxQ) - 1
        /\ Len(canRxQ) \in Nat
    BY <1>3, RingTail, LenProperties DEF TxGet, TypeOK, RxTypeOK
  <2>2. RxTypeOK'
    BY <1>3, <2>1, CapacityAssumption DEF TxGet, TypeOK, RxTypeOK
  <2>3. TxTypeOK'
    BY <1>3, <2>1 DEF TxGet, TypeOK, TxTypeOK, MngTypeOK
  <2>. QED  BY <1>1, <1>3, <2>2, <2>3, TypeFrame DEF TypeOK, TxGet
<1>4. CASE TxSend
  <2>1. LinuxMsg("frame", txPeer, txFrame) \in LinuxMsgs
    BY <1>4 DEF TxSend, LinuxMsg, LinuxMsgs, TypeOK, TxTypeOK
  <2>2. toLinux' \in Seq(LinuxMsgs) /\ Len(toLinux') <= NumBufs
    BY <1>4, <2>1, RingAppend
       DEF TxSend, TxSent, TxDropped, TrySend, TrySendFails, TypeOK, RingTypeOK
  <2>3. RingTypeOK'
    BY <1>1, <2>2 DEF TypeOK, RingTypeOK
  <2>4. TxTypeOK' /\ UNCHANGED rxVars
    BY <1>4 DEF TxSend, TxSent, TxDropped, TypeOK, TxTypeOK
  <2>. QED  BY <1>1, <2>3, <2>4, TypeFrame DEF TypeOK
<1>. QED  BY <1>2, <1>3, <1>4 DEF TxTask

LEMMA TypeCtl ==
    TypeOK /\ (CtlTask \/ \E s \in CanStates : StateChange(s)) => TypeOK'
<1>. SUFFICES ASSUME TypeOK, CtlTask \/ \E s \in CanStates : StateChange(s)
              PROVE  TypeOK'
  OBVIOUS
<1>1. UNCHANGED <<rxVars, txVars, mngVars, mngPc, canVars, toMcore, lnxVars>>
  BY DEF CtlTask, CtlTake, CtlLoadState, CtlLoadPeer, CtlSend, StateChange, mngVars
<1>2. CtlTypeOK'
  BY DEF CtlTask, CtlTake, CtlLoadState, CtlLoadPeer, CtlSend, StateChange,
         SemGiven, Reportable, TypeOK, CtlTypeOK, MngTypeOK
<1>3. RingTypeOK'
  <2>1. CASE CtlSend
    <3>1. LinuxMsg("state", ctlPeer, ctlState) \in LinuxMsgs
      BY <2>1 DEF CtlSend, LinuxMsg, LinuxMsgs, TypeOK, CtlTypeOK
    <3>2. toLinux' \in Seq(LinuxMsgs) /\ Len(toLinux') <= NumBufs
      BY <2>1, <3>1, RingAppend
         DEF CtlSend, TrySend, TrySendFails, TypeOK, RingTypeOK
    <3>. QED  BY <1>1, <3>2 DEF TypeOK, RingTypeOK
  <2>2. CASE ~CtlSend
    <3>1. UNCHANGED toLinux
      BY <2>2 DEF CtlTask, CtlTake, CtlLoadState, CtlLoadPeer, StateChange
    <3>. QED  BY <1>1, <3>1, TypeFrame DEF TypeOK
  <2>. QED  BY <2>1, <2>2
<1>. QED  BY <1>1, <1>2, <1>3, TypeFrame DEF TypeOK

LEMMA TypeMng == TypeOK /\ (MngTask \/ CanTxDone) => TypeOK'
<1>. SUFFICES ASSUME TypeOK, MngTask \/ CanTxDone PROVE TypeOK'
  OBVIOUS
<1>1. UNCHANGED <<rxVars, txVars, ctlVars, toLinux, lnxVars>>
  BY DEF MngTask, MngRecv, MngSend, MngStop, MngClear, MngApply, MngStart, CanTxDone
<1>2. /\ toMcore # <<>> /\ msg \in McoreMsgs
      /\ Tail(toMcore) \in Seq(McoreMsgs)
      /\ Len(Tail(toMcore)) <= NumBufs
  <2>1. toMcore # <<>>
    BY DEF MngTask, MngRecv, MngSend, MngStop, MngClear, MngApply, MngStart,
           CanTxDone, TypeOK, RingTypeOK
  <2>2. Len(toMcore) \in Nat
    BY LenProperties DEF TypeOK, RingTypeOK
  <2>. QED  BY <2>1, <2>2, RingTail, CapacityAssumption DEF msg, TypeOK, RingTypeOK
<1>3. msg.src \in Addr
  BY <1>2 DEF McoreMsgs
<1>4. WithSetting(asked) \in Configs /\ WithSetting(config) \in Configs
  BY <1>2, WithSettingType DEF TypeOK, MngTypeOK, CanTypeOK
<1>5. MngTypeOK'
  <2>1. CASE MngRecv
    BY <1>3, <1>4, <2>1, DispatchType DEF MngRecv, LearntPeer, TypeOK, MngTypeOK
  <2>2. CASE MngSend \/ CanTxDone
    BY <2>2 DEF MngSend, CanTxDone, TypeOK, MngTypeOK, MngPcs
  <2>3. CASE MngStop \/ MngClear \/ MngApply \/ MngStart
    BY <2>3 DEF MngStop, MngClear, MngApply, MngStart, StartFailed, canVars,
                TypeOK, MngTypeOK, MngPcs
  <2>. QED  BY <2>1, <2>2, <2>3 DEF MngTask
<1>6. CanTypeOK'
  BY <1>4 DEF MngTask, MngRecv, MngSend, MngStop, MngClear, MngApply, MngStart,
              CanTxDone, Applied, StartFailed, canVars, TypeOK, CanTypeOK
<1>7. RingTypeOK'
  <2>1. CASE mngPc' = "poll" /\ Release
    BY <1>1, <1>2, <2>1 DEF Release, TypeOK, RingTypeOK
  <2>2. CASE UNCHANGED toMcore
    BY <1>1, <1>2, <2>2 DEF TypeOK, RingTypeOK
  <2>3. (mngPc' = "poll" /\ Release) \/ UNCHANGED toMcore
    BY DEF MngTask, MngRecv, MngSend, MngStop, MngClear, MngApply, MngStart, CanTxDone
  <2>. QED  BY <2>1, <2>2, <2>3
<1>. QED  BY <1>1, <1>5, <1>6, <1>7, TypeFrame DEF TypeOK

LEMMA TypeLinux == TypeOK /\ Linux => TypeOK'
<1>. SUFFICES ASSUME TypeOK, Linux PROVE TypeOK'
  OBVIOUS
<1>1. UNCHANGED <<rxVars, txVars, ctlVars, mngVars, mngPc, canVars>>
  BY DEF Linux, LinuxBind, LinuxSend, LinuxRecv, mngVars
<1>2. ASSUME NEW a \in Addr, LinuxBind(a) PROVE LinuxTypeOK' /\ RingTypeOK'
  <2>1. McoreMsg("hi", a, 0) \in McoreMsgs
    BY McoreMsgType DEF AllKinds, CtrlKinds, Payloads
  <2>2. LinuxTypeOK'
    BY <1>2 DEF LinuxBind, TypeOK, LinuxTypeOK
  <2>. QED  BY <1>1, <1>2, <2>1, <2>2, RingAppend DEF LinuxBind, TypeOK, RingTypeOK
<1>3. ASSUME NEW k \in Kinds, LinuxSend(k) PROVE LinuxTypeOK' /\ RingTypeOK'
  <2>1. PICK v \in Payloads(k) :
            toMcore' = Append(toMcore, McoreMsg(k, linuxAddr, v))
    BY <1>3 DEF LinuxSend
  <2>2. McoreMsg(k, linuxAddr, v) \in McoreMsgs
    BY <1>3, McoreMsgType, KindsAssumption DEF LinuxSend, TypeOK, LinuxTypeOK
  <2>3. LinuxTypeOK'
    BY <1>3 DEF LinuxSend, TypeOK, LinuxTypeOK
  <2>. QED  BY <1>1, <1>3, <2>1, <2>2, <2>3, RingAppend DEF LinuxSend, TypeOK, RingTypeOK
<1>4. ASSUME LinuxRecv PROVE LinuxTypeOK' /\ RingTypeOK'
  <2>1. /\ Head(toLinux) \in LinuxMsgs
        /\ Tail(toLinux) \in Seq(LinuxMsgs)
        /\ Len(Tail(toLinux)) = Len(toLinux) - 1
        /\ Len(toLinux) \in Nat
    BY <1>4, RingTail, LenProperties DEF LinuxRecv, TypeOK, RingTypeOK
  <2>2. RingTypeOK'
    BY <1>1, <1>4, <2>1, CapacityAssumption DEF LinuxRecv, TypeOK, RingTypeOK
  <2>3. LinuxTypeOK'
    <3>1. CASE Head(toLinux).kind = "frame"
      <4>1. Append(linuxGot, Head(toLinux).val) \in Seq(Nat)
        BY <2>1, <3>1, AppendProperties DEF LinuxMsgs, TypeOK, LinuxTypeOK
      <4>. QED  BY <1>4, <3>1, <4>1 DEF LinuxRecv, TypeOK, LinuxTypeOK
    <3>2. CASE Head(toLinux).kind # "frame"
      BY <1>4, <2>1, <3>2 DEF LinuxRecv, LinuxMsgs, TypeOK, LinuxTypeOK
    <3>. QED  BY <3>1, <3>2
  <2>. QED  BY <2>2, <2>3
<1>5. LinuxTypeOK' /\ RingTypeOK'
  BY <1>2, <1>3, <1>4 DEF Linux
<1>. QED  BY <1>1, <1>5, TypeFrame DEF TypeOK

LEMMA TypeStep == TypeOK /\ [Next]_vars => TypeOK'
<1>1. TypeOK /\ UNCHANGED vars => TypeOK'
  BY TypeFrame DEF TypeOK, vars, mngVars
<1>. QED  BY <1>1, TypeRx, TypeTx, TypeCtl, TypeMng, TypeLinux DEF Next, Driver

\* The type invariant holds for every value of the constants (TypeOK of
\* CanGateway): queues never outgrow their storage, no thread sends to -1.
THEOREM TypeCorrect == Spec => []TypeOK
BY TypeInit, TypeStep, PTL DEF Spec

-----------------------------------------------------------------------------
(* No loss is hidden, and no state change is forgotten.                    *)

\* What is counted are numbers.
LEMMA CountedType ==
    ASSUME TypeOK
    PROVE  /\ received \in Nat /\ statCanRxDrop \in Nat /\ noPeer \in Nat
           /\ statCanRx \in Nat /\ statRpmsgDrop \in Nat /\ Len(canRxQ) \in Nat
           /\ InHand \in {0, 1}
           /\ Counted \in Nat /\ Uncounted \in Int
<1>1. /\ received \in Nat /\ statCanRxDrop \in Nat /\ noPeer \in Nat
      /\ statCanRx \in Nat /\ statRpmsgDrop \in Nat /\ Len(canRxQ) \in Nat
      /\ InHand \in {0, 1}
  BY LenProperties DEF TypeOK, RxTypeOK, TxTypeOK, InHand
<1>. QED  BY <1>1 DEF Counted, Uncounted

\* No step of the gateway takes a frame out of the statistics, or counts one
\* twice.
LEMMA AccountingStep == TypeOK /\ [Next]_vars => Uncounted' = Uncounted
<1>. SUFFICES ASSUME TypeOK, [Next]_vars PROVE Uncounted' = Uncounted
  OBVIOUS
<1>. /\ received \in Nat /\ statCanRxDrop \in Nat /\ noPeer \in Nat
     /\ statCanRx \in Nat /\ statRpmsgDrop \in Nat /\ Len(canRxQ) \in Nat
     /\ InHand \in {0, 1}
  BY CountedType
<1>1. CASE CanRx
  <2>1. Len(Append(canRxQ, received + 1)) = Len(canRxQ) + 1
    BY AppendProperties DEF TypeOK, RxTypeOK
  <2>2. InHand' = InHand
    BY <1>1 DEF CanRx, txVars, InHand
  <2>3. UNCHANGED <<noPeer, statCanRx, statRpmsgDrop>> /\ received' = received + 1
    BY <1>1 DEF CanRx, txVars
  <2>4. \/ Len(canRxQ') = Len(canRxQ) + 1 /\ statCanRxDrop' = statCanRxDrop
        \/ Len(canRxQ') = Len(canRxQ) /\ statCanRxDrop' = statCanRxDrop + 1
    BY <1>1, <2>1 DEF CanRx
  <2>. QED  BY <2>2, <2>3, <2>4 DEF Uncounted, Counted
<1>2. CASE TxGet
  <2>1. Len(Tail(canRxQ)) = Len(canRxQ) - 1
    BY <1>2, RingTail DEF TxGet, TypeOK, RxTypeOK
  <2>. QED  BY <1>2, <2>1 DEF TxGet, Uncounted, Counted, InHand
<1>3. CASE TxSend
  BY <1>3 DEF TxSend, TxSent, TxDropped, rxVars, Uncounted, Counted, InHand
<1>4. CASE PlatformReady \/ TxWait \/ TxCreate
  BY <1>4 DEF PlatformReady, TxWait, TxCreate, rxVars, Uncounted, Counted, InHand
<1>5. CASE UNCHANGED <<rxVars, txVars>>
  BY <1>5 DEF rxVars, txVars, Uncounted, Counted, InHand
<1>6. CtlTask \/ MngTask \/ CanTxDone \/ Linux
        \/ (\E s \in CanStates : StateChange(s)) \/ UNCHANGED vars
      => UNCHANGED <<rxVars, txVars>>
  BY DEF CtlTask, CtlTake, CtlLoadState, CtlLoadPeer, CtlSend, StateChange,
         MngTask, MngRecv, MngSend, MngStop, MngClear, MngApply, MngStart,
         CanTxDone, Linux, LinuxBind, LinuxSend, LinuxRecv, vars
<1>. QED  BY <1>1, <1>2, <1>3, <1>4, <1>5, <1>6 DEF Next, TxTask, Driver

LEMMA UncountedInit == Init => Uncounted = 0
<1>. SUFFICES ASSUME Init PROVE Uncounted = 0
  OBVIOUS
<1>1. /\ Len(canRxQ) = 0 /\ InHand = 0 /\ received = 0 /\ statCanRxDrop = 0
      /\ noPeer = 0 /\ statCanRx = 0 /\ statRpmsgDrop = 0
  BY DEF Init, InHand
<1>2. Counted = 0
  BY <1>1 DEF Counted
<1>. QED  BY <1>1, <1>2 DEF Uncounted

\* The statistics account for every CAN frame (FramesAccounted), for any
\* queue and vring capacity.
THEOREM AccountingCorrect == Spec => []FramesAccounted
<1>1. TypeOK /\ Uncounted = 0 /\ [Next]_vars => (Uncounted = 0)'
  BY AccountingStep
<1>2. TypeOK /\ Uncounted = 0 => FramesAccounted
  BY CountedType DEF Uncounted, Counted, FramesAccounted
<1>. QED  BY TypeCorrect, UncountedInit, <1>1, <1>2, PTL DEF Spec

LEMMA WakeupStep == NoLostWakeup /\ [Next]_vars => NoLostWakeup'
<1>. SUFFICES ASSUME NoLostWakeup, [Next]_vars PROVE NoLostWakeup'
  OBVIOUS
<1>1. CASE CtlTask
  BY <1>1 DEF CtlTask, CtlTake, CtlLoadState, CtlLoadPeer, CtlSend, NoLostWakeup
<1>2. CASE \E s \in CanStates : StateChange(s)
  BY <1>2 DEF StateChange, SemGiven, NoLostWakeup
<1>3. CASE UNCHANGED ctlVars
  BY <1>3 DEF ctlVars, NoLostWakeup
<1>4. PlatformReady \/ TxTask \/ MngTask \/ CanRx \/ CanTxDone \/ Linux
        \/ UNCHANGED vars
      => UNCHANGED ctlVars
  BY DEF PlatformReady, TxTask, TxWait, TxCreate, TxGet, TxSend, CanRx, MngTask,
         MngRecv, MngSend, MngStop, MngClear, MngApply, MngStart, CanTxDone,
         Linux, LinuxBind, LinuxSend, LinuxRecv, vars
<1>. QED  BY <1>1, <1>2, <1>3, <1>4 DEF Next, Driver

\* can_state_change_cb and the ctl task never lose the latest state between
\* them (NoLostWakeup), although the callback only overwrites one variable
\* and the semaphore counts to one.
THEOREM WakeupCorrect == Spec => []NoLostWakeup
<1>1. Init => NoLostWakeup
  BY DEF Init, NoLostWakeup
<1>. QED  BY <1>1, WakeupStep, PTL DEF Spec

-----------------------------------------------------------------------------
(* The platform, as the gateway sees it.                                   *)

\* What rpmsg_platform_wait returns to the gateway's one thread that calls it,
\* in the terms of ReadyLatch.
PlatformOutcome == CASE rpReady = "no" -> "none"
                     [] rpReady = "ok" -> "dev"
                     [] rpReady = "failed" -> "null"
TxAnswer == [s \in {"can_gw"} |-> IF txPc = "wait" THEN "none" ELSE PlatformOutcome]

Latch == INSTANCE ReadyLatch
             WITH Service <- {"can_gw"}, outcome <- PlatformOutcome, answer <- TxAnswer

\* The tx task goes on only once the platform has come up or failed.
AnsweredInv == txPc # "wait" => rpReady # "no"

\* Only three steps have to do with the platform.
LEMMA LatchFrame ==
    TxCreate \/ TxGet \/ TxSend \/ CtlTask \/ MngTask \/ Driver \/ Linux
      \/ UNCHANGED vars
    => rpReady' = rpReady /\ (txPc' = "wait" <=> txPc = "wait")
BY DEF TxCreate, TxGet, TxSend, CtlTask, CtlTake, CtlLoadState, CtlLoadPeer,
       CtlSend, MngTask, MngRecv, MngSend, MngStop, MngClear, MngApply, MngStart,
       Driver, CanRx, CanTxDone, StateChange, Linux, LinuxBind, LinuxSend,
       LinuxRecv, vars, txVars

LEMMA LatchStep ==
    TypeOK /\ AnsweredInv /\ [Next]_vars
      => AnsweredInv' /\ [Latch!Next]_(Latch!vars)
<1>. SUFFICES ASSUME TypeOK, AnsweredInv, [Next]_vars
              PROVE  AnsweredInv' /\ [Latch!Next]_(Latch!vars)
  OBVIOUS
<1>1. CASE PlatformReady
  <2>1. /\ rpReady = "no" /\ rpReady' \in {"ok", "failed"}
        /\ txPc = "wait" /\ txPc' = "wait"
    BY <1>1 DEF PlatformReady, AnsweredInv
  <2>2. TxAnswer' = TxAnswer
    BY <2>1 DEF TxAnswer
  <2>3. PlatformOutcome = "none" /\ PlatformOutcome' \in {"dev", "null"}
    BY <2>1 DEF PlatformOutcome
  <2>. QED  BY <2>1, <2>2, <2>3
            DEF AnsweredInv, Latch!Next, Latch!Decide, Latch!Outcomes
<1>2. CASE TxWait
  <2>1. /\ rpReady # "no" /\ rpReady' = rpReady /\ txPc = "wait" /\ txPc' # "wait"
        /\ rpReady \in {"no", "ok", "failed"}
    BY <1>2 DEF TxWait, TypeOK, TxTypeOK
  <2>2. PlatformOutcome # "none" /\ PlatformOutcome' = PlatformOutcome
    BY <2>1 DEF PlatformOutcome
  <2>3. TxAnswer' = [TxAnswer EXCEPT !["can_gw"] = PlatformOutcome]
        /\ TxAnswer["can_gw"] = "none"
    BY <2>1, <2>2 DEF TxAnswer
  <2>. QED  BY <2>1, <2>2, <2>3 DEF AnsweredInv, Latch!Next, Latch!Tell
<1>3. CASE rpReady' = rpReady /\ (txPc' = "wait" <=> txPc = "wait")
  <2>1. PlatformOutcome' = PlatformOutcome
    BY <1>3 DEF PlatformOutcome
  <2>2. TxAnswer' = TxAnswer
    BY <1>3, <2>1, Zenon DEF TxAnswer
  <2>. QED  BY <1>3, <2>1, <2>2 DEF AnsweredInv, Latch!vars
<1>. QED  BY <1>1, <1>2, <1>3, LatchFrame DEF Next, TxTask

\* The gateway takes the platform for the latch RpmsgPlatform implements: the
\* tx task is answered once, not before the platform has come up or failed,
\* and never told anything else.
THEOREM WaitsForLatch == Spec => Latch!Spec
<1>1. Init => AnsweredInv /\ Latch!Init
  BY DEF Init, AnsweredInv, PlatformOutcome, TxAnswer, Latch!Init
<1>. QED  BY TypeCorrect, <1>1, LatchStep, PTL DEF Spec, Latch!Spec

-----------------------------------------------------------------------------
(* The reply address.                                                      *)

LEMMA PeerStep == TypeOK /\ PeerCurrent /\ [Next]_vars => PeerCurrent'
<1>. SUFFICES ASSUME TypeOK, PeerCurrent, [Next]_vars PROVE PeerCurrent'
  OBVIOUS
<1>. USE DEF PeerCurrent
<1>1. CASE MngTask \/ CanTxDone
  <2>1. UNCHANGED linuxAddr
    BY <1>1 DEF MngTask, MngRecv, MngSend, MngStop, MngClear, MngApply, MngStart,
                CanTxDone, lnxVars
  <2>2. toMcore # <<>> /\ peer' = msg.src
    BY <1>1 DEF MngTask, MngRecv, MngSend, MngStop, MngClear, MngApply, MngStart,
                CanTxDone, LearntPeer, TypeOK, RingTypeOK
  <2>3. /\ Tail(toMcore) # <<>> =>
              Tail(toMcore)[Len(Tail(toMcore))] = toMcore[Len(toMcore)]
        /\ Tail(toMcore) = <<>> => msg = toMcore[Len(toMcore)]
    BY <2>2, RingTail DEF msg, TypeOK, RingTypeOK
  <2>4. CASE mngPc' = "poll" /\ Release
    BY <2>1, <2>2, <2>3, <2>4 DEF Release
  <2>5. CASE UNCHANGED toMcore
    BY <2>1, <2>2, <2>5 DEF msg
  <2>6. (mngPc' = "poll" /\ Release) \/ UNCHANGED toMcore
    BY <1>1 DEF MngTask, MngRecv, MngSend, MngStop, MngClear, MngApply, MngStart,
                CanTxDone
  <2>. QED  BY <2>4, <2>5, <2>6
<1>2. ASSUME NEW m \in McoreMsgs, HasRoom(toMcore), toMcore' = Append(toMcore, m),
             m.src = linuxAddr', UNCHANGED mngVars
      PROVE  PeerCurrent'
  <2>1. /\ toMcore' # <<>>
        /\ toMcore'[Len(toMcore')] = m
    BY <1>2, RingAppend DEF TypeOK, RingTypeOK
  <2>2. toMcore # <<>> => toMcore'[1] = toMcore[1]
    BY <1>2, AppendProperties, EmptySeq, LenProperties DEF TypeOK, RingTypeOK
  <2>3. mngPc # "poll" => toMcore # <<>>
    BY DEF TypeOK, RingTypeOK
  <2>4. mngPc' # "poll" => peer' = msg'.src
    BY <1>2, <2>1, <2>2, <2>3 DEF msg, mngVars
  <2>. QED  BY <1>2, <2>1, <2>4
<1>3. ASSUME NEW a \in Addr, LinuxBind(a) PROVE PeerCurrent'
  <2>1. McoreMsg("hi", a, 0) \in McoreMsgs
    BY McoreMsgType DEF AllKinds, CtrlKinds, Payloads
  <2>2. McoreMsg("hi", a, 0).src = linuxAddr'
    BY <1>3 DEF LinuxBind, McoreMsg
  <2>. QED  BY <1>2, <1>3, <2>1, <2>2 DEF LinuxBind
<1>4. ASSUME NEW k \in Kinds, LinuxSend(k) PROVE PeerCurrent'
  <2>1. PICK v \in Payloads(k) :
            toMcore' = Append(toMcore, McoreMsg(k, linuxAddr, v))
    BY <1>4 DEF LinuxSend
  <2>2. McoreMsg(k, linuxAddr, v) \in McoreMsgs
    BY <1>4, McoreMsgType, KindsAssumption DEF LinuxSend, TypeOK, LinuxTypeOK
  <2>3. McoreMsg(k, linuxAddr, v).src = linuxAddr'
    BY <1>4 DEF LinuxSend, McoreMsg
  <2>. QED  BY <1>2, <1>4, <2>1, <2>2, <2>3 DEF LinuxSend
<1>5. CASE UNCHANGED <<mngPc, peer, toMcore, linuxAddr>>
  BY <1>5 DEF msg
<1>6. PlatformReady \/ TxTask \/ CtlTask \/ CanRx \/ LinuxRecv
        \/ (\E s \in CanStates : StateChange(s)) \/ UNCHANGED vars
      => UNCHANGED <<mngPc, peer, toMcore, linuxAddr>>
  BY DEF PlatformReady, TxTask, TxWait, TxCreate, TxGet, TxSend, CanRx, CtlTask,
         CtlTake, CtlLoadState, CtlLoadPeer, CtlSend, StateChange, LinuxRecv,
         vars, mngVars, lnxVars
<1>. QED  BY <1>1, <1>3, <1>4, <1>5, <1>6 DEF Next, Driver, Linux

\* The reply address follows the Linux driver however often it is reloaded
\* (PeerCurrent): what comes last on vring 1 comes from the bound driver.
THEOREM PeerCorrect == Spec => []PeerCurrent
<1>1. Init => PeerCurrent
  BY DEF Init, PeerCurrent
<1>. QED  BY TypeCorrect, <1>1, PeerStep, PTL DEF Spec

-----------------------------------------------------------------------------
(* The controller and what the code knows of it.                           *)

\* No frame meets an unknown peer: frames are received only after a START
\* from Linux, and its sender was learnt before START was obeyed.
FramesInv ==
    /\ running \/ canRxQ # <<>> \/ mngPc # "poll" => peer # NoAddr
    /\ noPeer = 0

\* The branch that discards frames while Linux is unknown is dead code
\* (PeerBeforeFrames).
THEOREM NoFrameDiscarded == Spec => []PeerBeforeFrames
<1>1. Init => FramesInv
  BY DEF Init, FramesInv
<1>2. TypeOK /\ FramesInv /\ [Next]_vars => FramesInv'
  <2>. SUFFICES ASSUME TypeOK, FramesInv, [Next]_vars PROVE FramesInv'
    OBVIOUS
  <2>. USE DEF FramesInv
  <2>1. CASE CanRx
    BY <2>1 DEF CanRx, txVars, mngVars, canVars
  <2>2. CASE TxGet
    BY <2>2 DEF TxGet, mngVars, canVars
  <2>3. CASE MngRecv
    <3>1. msg.src \in Addr
      BY <2>3, RingTail DEF MngRecv, msg, McoreMsgs, TypeOK, RingTypeOK
    <3>2. peer' # NoAddr
      BY <2>3, <3>1, AddrAssumption DEF MngRecv, LearntPeer, NoAddr
    <3>. QED  BY <2>3, <3>2 DEF MngRecv, txVars
  <2>4. CASE MngSend \/ MngStop \/ MngClear \/ MngApply \/ MngStart \/ CanTxDone
    BY <2>4 DEF MngSend, MngStop, MngClear, MngApply, MngStart, CanTxDone,
                rxVars, txVars, canVars
  <2>5. CASE UNCHANGED <<running, canRxQ, mngPc, peer, noPeer>>
    BY <2>5
  <2>6. PlatformReady \/ TxWait \/ TxCreate \/ TxSend \/ CtlTask \/ Linux
          \/ (\E s \in CanStates : StateChange(s)) \/ UNCHANGED vars
        => UNCHANGED <<running, canRxQ, mngPc, peer, noPeer>>
    BY DEF PlatformReady, TxWait, TxCreate, TxSend, TxSent, TxDropped, CtlTask,
           CtlTake, CtlLoadState, CtlLoadPeer, CtlSend, StateChange, Linux,
           LinuxBind, LinuxSend, LinuxRecv, vars, rxVars, txVars, mngVars, canVars
  <2>. QED  BY <2>1, <2>2, <2>3, <2>4, <2>5, <2>6 DEF Next, TxTask, MngTask, Driver
<1>3. FramesInv => PeerBeforeFrames
  BY DEF FramesInv, PeerBeforeFrames
<1>. QED  BY TypeCorrect, <1>1, <1>2, <1>3, PTL DEF Spec

\* Only the mng thread touches can_started, the controller and the settings.
LEMMA ControlFrame ==
    PlatformReady \/ TxTask \/ CtlTask \/ CanRx
      \/ (\E s \in CanStates : StateChange(s)) \/ UNCHANGED vars
    => UNCHANGED <<mngPc, canStarted, asked, running, config, toMcore>>
BY DEF PlatformReady, TxTask, TxWait, TxCreate, TxGet, TxSend, CtlTask,
       CtlTake, CtlLoadState, CtlLoadPeer, CtlSend, CanRx, StateChange,
       vars, mngVars, canVars

\* Linux only adds to vring 1: the message being handled stays its head.
LEMMA LinuxFrame ==
    TypeOK /\ Linux => /\ UNCHANGED <<mngPc, canStarted, asked, running, config>>
                       /\ mngPc # "poll" => msg' = msg
<1>. SUFFICES ASSUME TypeOK, Linux
              PROVE  /\ UNCHANGED <<mngPc, canStarted, asked, running, config>>
                     /\ mngPc # "poll" => msg' = msg
  OBVIOUS
<1>1. UNCHANGED <<mngPc, canStarted, asked, running, config>>
  BY DEF Linux, LinuxBind, LinuxSend, LinuxRecv, mngVars, canVars
<1>2. ASSUME NEW m \in McoreMsgs, toMcore' = Append(toMcore, m), mngPc # "poll"
      PROVE  msg' = msg
  <2>1. toMcore # <<>>
    BY <1>2 DEF TypeOK, RingTypeOK
  <2>. QED  BY <1>2, <2>1, AppendProperties, EmptySeq, LenProperties
            DEF msg, TypeOK, RingTypeOK
<1>3. ASSUME NEW a \in Addr, LinuxBind(a), mngPc # "poll" PROVE msg' = msg
  BY <1>2, <1>3, McoreMsgType DEF LinuxBind, AllKinds, CtrlKinds, Payloads
<1>4. ASSUME NEW k \in Kinds, LinuxSend(k), mngPc # "poll" PROVE msg' = msg
  <2>1. PICK v \in Payloads(k) :
            toMcore' = Append(toMcore, McoreMsg(k, linuxAddr, v))
    BY <1>4 DEF LinuxSend
  <2>2. McoreMsg(k, linuxAddr, v) \in McoreMsgs
    BY <1>4, McoreMsgType, KindsAssumption DEF LinuxSend, TypeOK, LinuxTypeOK
  <2>. QED  BY <1>2, <1>4, <2>1, <2>2
<1>5. LinuxRecv => msg' = msg
  BY DEF LinuxRecv, msg
<1>. QED  BY <1>1, <1>3, <1>4, <1>5 DEF Linux

LEMMA StartedStep ==
    TypeOK /\ StartedMeansRunning /\ [Next]_vars => StartedMeansRunning'
<1>. SUFFICES ASSUME TypeOK, StartedMeansRunning, [Next]_vars
              PROVE  StartedMeansRunning'
  OBVIOUS
<1>1. CASE MngTask \/ CanTxDone
  BY <1>1 DEF MngTask, MngRecv, MngSend, MngStop, MngClear, MngApply, MngStart,
              CanTxDone, StartFailed, canVars, Dispatch, StartedMeansRunning,
              TypeOK, MngTypeOK
<1>2. CASE UNCHANGED <<mngPc, canStarted, running>>
  BY <1>2 DEF StartedMeansRunning
<1>. QED  BY <1>1, <1>2, ControlFrame, LinuxFrame DEF Next, Driver

\* can_started never claims a controller that is stopped, even when driver
\* calls fail (StartedMeansRunning).
THEOREM StartedCorrect == Spec => []StartedMeansRunning
<1>1. Init => StartedMeansRunning
  BY DEF Init, StartedMeansRunning
<1>. QED  BY TypeCorrect, <1>1, StartedStep, PTL DEF Spec

\* With driver calls that succeed, can_started is exact except between
\* can_stop and its assignment; a setting is applied to a stopped controller;
\* and the controller has what Linux asked for whenever no setting is pending.
ControlInv ==
    /\ mngPc # "clear" => canStarted = running
    /\ mngPc \in {"clear", "apply"} => ~running
    /\ mngPc = "stop" => running
    /\ mngPc = "start" => ~running
    /\ mngPc \notin {"stop", "clear", "apply"} => config = asked
    /\ mngPc \in {"stop", "clear", "apply"} => WithSetting(config) = asked
    /\ mngPc = "apply" => msg.kind \in {"bitrate", "mode"}
    /\ mngPc \in {"stop", "clear"} => msg.kind \in {"bitrate", "mode", "stop"}

LEMMA ControlStep ==
    ASSUME ~DriverMayFail PROVE TypeOK /\ ControlInv /\ [Next]_vars => ControlInv'
<1>. SUFFICES ASSUME TypeOK, ControlInv, [Next]_vars PROVE ControlInv'
  OBVIOUS
<1>. USE DEF ControlInv
<1>. mngPc \in MngPcs /\ running \in BOOLEAN /\ canStarted \in BOOLEAN
  BY DEF TypeOK, MngTypeOK, CanTypeOK
<1>1. CASE MngRecv
  <2>1. UNCHANGED <<running, config, canStarted>> /\ config = asked /\ canStarted = running
    BY <1>1 DEF MngRecv, canVars
  <2>2. mngPc' = Dispatch /\ asked' = WithSetting(config)
    BY <1>1, <2>1 DEF MngRecv
  <2>3. CASE Dispatch = "poll"
    <3>1. msg.kind \notin {"bitrate", "mode"}
      BY <2>3 DEF Dispatch
    <3>. QED  BY <2>1, <2>2, <2>3, <3>1 DEF WithSetting
  <2>4. CASE Dispatch # "poll"
    <3>1. msg' = msg
      BY <1>1, <2>4 DEF MngRecv, msg
    <3>2. WithSetting(config)' = WithSetting(config)
      BY <2>1, <3>1 DEF WithSetting
    <3>. QED  BY <2>1, <2>2, <2>4, <3>1, <3>2 DEF Dispatch, WithSetting
  <2>. QED  BY <2>3, <2>4
<1>2. CASE MngSend \/ CanTxDone
  BY <1>2 DEF MngSend, CanTxDone, canVars
<1>3. CASE MngStop
  <2>1. msg' = msg /\ UNCHANGED <<config, asked>>
    BY <1>3 DEF MngStop, msg
  <2>2. WithSetting(config)' = WithSetting(config)
    BY <2>1 DEF WithSetting
  <2>. QED  BY <1>3, <2>1, <2>2 DEF MngStop
<1>4. CASE MngClear
  <2>1. CASE msg.kind = "stop"
    BY <1>4, <2>1 DEF MngClear, WithSetting, canVars
  <2>2. CASE msg.kind # "stop"
    <3>1. msg' = msg /\ UNCHANGED <<config, asked, running>>
      BY <1>4, <2>2 DEF MngClear, msg, canVars
    <3>2. WithSetting(config)' = WithSetting(config)
      BY <3>1 DEF WithSetting
    <3>. QED  BY <1>4, <2>2, <3>1, <3>2 DEF MngClear
  <2>. QED  BY <2>1, <2>2
<1>5. CASE MngApply
  BY <1>5 DEF MngApply, Applied
<1>6. CASE MngStart
  BY <1>6 DEF MngStart, StartFailed
<1>7. CASE /\ UNCHANGED <<mngPc, canStarted, asked, running, config>>
           /\ mngPc # "poll" => msg' = msg
  <2>1. mngPc # "poll" => WithSetting(config)' = WithSetting(config)
    BY <1>7 DEF WithSetting
  <2>. QED  BY <1>7, <2>1
<1>8. UNCHANGED toMcore => msg' = msg
  BY DEF msg
<1>. QED  BY <1>1, <1>2, <1>3, <1>4, <1>5, <1>6, <1>7, <1>8, ControlFrame, LinuxFrame
          DEF Next, MngTask, Driver

LEMMA ControlInit == Init => ControlInv
BY DEF Init, ControlInv

LEMMA ControlInvariance ==
    ASSUME ~DriverMayFail PROVE Spec => []ControlInv
<1>1. TypeOK /\ ControlInv /\ [Next]_vars => ControlInv'
  BY ControlStep
<1>. QED  BY TypeCorrect, ControlInit, <1>1, PTL DEF Spec

\* When the driver's calls succeed, settings are applied to a stopped
\* controller, as can_set_mode and can_set_bitrate require.
THEOREM AppliedCorrect ==
    ASSUME ~DriverMayFail PROVE Spec => []AppliedWhileStopped
<1>1. ControlInv => AppliedWhileStopped
  BY DEF ControlInv, AppliedWhileStopped
<1>. QED  BY <1>1, ControlInvariance, PTL

\* When the driver's calls succeed, a controller that runs does so with what
\* Linux asked for last, whatever it asked before and in which order.
THEOREM AskedCorrect ==
    ASSUME ~DriverMayFail PROVE Spec => []RunsAsAsked
<1>1. ControlInv => RunsAsAsked
  BY DEF ControlInv, RunsAsAsked
<1>. QED  BY <1>1, ControlInvariance, PTL

-----------------------------------------------------------------------------
(***************************************************************************)
(* CanGateway implements LossyFifo: whatever is dropped, and however often *)
(* the Linux driver is bound again, CAN frames reach it in the order of    *)
(* their reception, none invented and none twice.                          *)
(***************************************************************************)

\* Frames are ordered along their way: vring 0, the tx task's hand, msgq.
OrderInv ==
    /\ Transit \subseteq 1 .. received
    /\ \A i, j \in 1 .. Len(canRxQ) : i < j => canRxQ[i] < canRxQ[j]
    /\ \A i, j \in 1 .. Len(toLinux) :
          /\ toLinux[i].kind = "frame" /\ toLinux[j].kind = "frame"
          /\ i < j
          => toLinux[i].val < toLinux[j].val
    /\ \A m \in InRing(toLinux) : \A n \in Held \cup Queued(canRxQ) : m < n
    /\ \A m \in Held : \A n \in Queued(canRxQ) : m < n

-----------------------------------------------------------------------------
(* Sequences as sets of frames.                                            *)

LEMMA QueuedAppend ==
    ASSUME NEW q \in Seq(Nat), NEW e \in Nat
    PROVE  Queued(Append(q, e)) = Queued(q) \cup {e}
<1>1. Len(q) \in Nat
  BY LenProperties
<1>. QED  BY <1>1, AppendProperties DEF Queued

LEMMA QueuedTail ==
    ASSUME NEW q \in Seq(Nat), q # <<>>
    PROVE  /\ Queued(q) = {Head(q)} \cup Queued(Tail(q))
           /\ Head(q) = q[1]
           /\ 1 \in 1 .. Len(q)
<1>1. Len(q) \in Nat \ {0}
  BY EmptySeq
<1>2. Head(q) = q[1]
  OBVIOUS
<1>3. /\ Len(Tail(q)) = Len(q) - 1
      /\ \A i \in 1 .. Len(Tail(q)) : Tail(q)[i] = q[i + 1]
  BY HeadTailProperties
<1>4. Queued(Tail(q)) \subseteq Queued(q)
  BY <1>1, <1>3 DEF Queued
<1>5. ASSUME NEW i \in 1 .. Len(q), i # 1 PROVE q[i] \in Queued(Tail(q))
  <2>1. i - 1 \in 1 .. Len(Tail(q)) /\ Tail(q)[i - 1] = q[i]
    BY <1>1, <1>3, <1>5
  <2>. QED  BY <2>1 DEF Queued
<1>6. 1 \in 1 .. Len(q)
  BY <1>1
<1>. QED  BY <1>2, <1>4, <1>5, <1>6 DEF Queued

LEMMA InRingAppend ==
    ASSUME NEW r \in Seq(LinuxMsgs), NEW e \in LinuxMsgs
    PROVE  InRing(Append(r, e)) = InRing(r) \cup {v \in {e.val} : e.kind = "frame"}
<1>1. Len(r) \in Nat
  BY LenProperties
<1>. QED  BY <1>1, AppendProperties DEF InRing

LEMMA InRingTail ==
    ASSUME NEW r \in Seq(LinuxMsgs), r # <<>>
    PROVE  /\ InRing(r) = InRing(Tail(r))
                           \cup {v \in {Head(r).val} : Head(r).kind = "frame"}
           /\ Head(r) = r[1]
           /\ 1 \in 1 .. Len(r)
<1>1. Len(r) \in Nat \ {0}
  BY EmptySeq
<1>2. Head(r) = r[1]
  OBVIOUS
<1>3. /\ Len(Tail(r)) = Len(r) - 1
      /\ \A i \in 1 .. Len(Tail(r)) : Tail(r)[i] = r[i + 1]
  BY HeadTailProperties
<1>4. InRing(Tail(r)) \subseteq InRing(r)
  BY <1>1, <1>3 DEF InRing
<1>5. ASSUME NEW i \in 1 .. Len(r), i # 1, r[i].kind = "frame"
      PROVE  r[i].val \in InRing(Tail(r))
  <2>1. i - 1 \in 1 .. Len(Tail(r)) /\ Tail(r)[i - 1] = r[i]
    BY <1>1, <1>3, <1>5
  <2>. QED  BY <1>5, <2>1 DEF InRing
<1>6. 1 \in 1 .. Len(r)
  BY <1>1
<1>. QED  BY <1>2, <1>4, <1>5, <1>6 DEF InRing

-----------------------------------------------------------------------------
(* The order invariant.                                                    *)

\* Every frame on its way has a number.
LEMMA TransitType ==
    ASSUME TypeOK
    PROVE  /\ Queued(canRxQ) \subseteq Nat /\ Held \subseteq Nat
           /\ InRing(toLinux) \subseteq Nat
<1>1. Queued(canRxQ) \subseteq Nat
  BY ElementOfSeq DEF Queued, TypeOK, RxTypeOK
<1>2. Held \subseteq Nat
  BY DEF Held, TypeOK, TxTypeOK
<1>3. \A i \in 1 .. Len(toLinux) : toLinux[i] \in LinuxMsgs
  BY ElementOfSeq DEF TypeOK, RingTypeOK
<1>4. InRing(toLinux) \subseteq Nat
  BY <1>3 DEF InRing, LinuxMsgs
<1>. QED  BY <1>1, <1>2, <1>4

\* A new frame is younger than every other, whether it is queued or not.
LEMMA OrderOffer ==
    ASSUME TypeOK, OrderInv, received' = received + 1,
           canRxQ' = Append(canRxQ, received + 1) \/ canRxQ' = canRxQ,
           UNCHANGED <<txPc, txFrame, toLinux, linuxGot>>
    PROVE  OrderInv' /\ Fifo!Offer
<1>1. received \in Nat /\ received' = received + 1
  BY DEF TypeOK, RxTypeOK
<1>2. /\ UNCHANGED <<toLinux, linuxGot>>
      /\ Held' = Held /\ InRing(toLinux)' = InRing(toLinux)
  BY DEF Held
<1>3. Transit \subseteq 1 .. received' /\ received + 1 \in 1 .. received'
  BY <1>1 DEF OrderInv
<1>4. CASE canRxQ' = Append(canRxQ, received + 1)
  <2>1. canRxQ' = Append(canRxQ, received + 1) /\ canRxQ \in Seq(Nat)
    BY <1>4 DEF TypeOK, RxTypeOK
  <2>2. Queued(canRxQ)' = Queued(canRxQ) \cup {received + 1}
    BY <1>1, <2>1, QueuedAppend
  <2>3. Transit' = Transit \cup {received + 1}
    BY <1>2, <2>2 DEF Transit
  <2>4. \A n \in Transit : n < received + 1
    BY <1>1 DEF OrderInv
  <2>5. \A i, j \in 1 .. Len(canRxQ') : i < j => canRxQ'[i] < canRxQ'[j]
    <3>1. /\ Len(canRxQ') = Len(canRxQ) + 1 /\ Len(canRxQ) \in Nat
          /\ \A i \in 1 .. Len(canRxQ) : canRxQ'[i] = canRxQ[i]
          /\ canRxQ'[Len(canRxQ) + 1] = received + 1
      BY <1>1, <2>1, AppendProperties, LenProperties
    <3>2. \A i \in 1 .. Len(canRxQ) : canRxQ[i] < received + 1
      BY <2>4 DEF Transit, Queued
    <3>3. \A i, j \in 1 .. Len(canRxQ) : i < j => canRxQ[i] < canRxQ[j]
      BY DEF OrderInv
    <3>. QED  BY ONLY <3>1, <3>2, <3>3
  <2>6. /\ \A m \in InRing(toLinux)' : \A n \in (Held \cup Queued(canRxQ))' : m < n
        /\ \A m \in Held' : \A n \in Queued(canRxQ)' : m < n
    BY <1>2, <2>2, <2>4 DEF OrderInv, Transit
  <2>7. OrderInv'
    BY <1>2, <1>3, <2>3, <2>5, <2>6 DEF OrderInv
  <2>. QED  BY <1>1, <1>2, <2>3, <2>7 DEF Fifo!Offer
<1>5. CASE canRxQ' = canRxQ
  <2>1. Transit' = Transit /\ Queued(canRxQ)' = Queued(canRxQ)
    BY <1>2, <1>5 DEF Transit
  <2>. QED  BY <1>1, <1>2, <1>3, <1>5, <2>1 DEF OrderInv, Fifo!Offer
<1>. QED  BY <1>4, <1>5

\* can_rx_cb offers a frame.
LEMMA OrderRx == TypeOK /\ OrderInv /\ CanRx => OrderInv' /\ Fifo!Offer
BY OrderOffer DEF CanRx, txVars, lnxVars

\* k_msgq_get: the oldest queued frame goes into the task's hand, or is lost.
LEMMA OrderGet ==
    TypeOK /\ OrderInv /\ TxGet
      => OrderInv' /\ (Fifo!Lose \/ UNCHANGED Fifo!vars)
<1>. SUFFICES ASSUME TypeOK, OrderInv, TxGet
              PROVE  OrderInv' /\ (Fifo!Lose \/ UNCHANGED Fifo!vars)
  OBVIOUS
<1>1. /\ canRxQ \in Seq(Nat) /\ canRxQ # <<>> /\ canRxQ' = Tail(canRxQ)
      /\ txPc = "get" /\ txFrame' = Head(canRxQ)
  BY DEF TxGet, TypeOK, RxTypeOK
<1>2. UNCHANGED <<received, toLinux, linuxGot>> /\ InRing(toLinux)' = InRing(toLinux)
  BY DEF TxGet, lnxVars
<1>3. /\ Queued(canRxQ) = {Head(canRxQ)} \cup Queued(canRxQ)'
      /\ Head(canRxQ) = canRxQ[1] /\ 1 \in 1 .. Len(canRxQ)
  BY <1>1, QueuedTail
<1>4. Held = {} /\ (Held' = {Head(canRxQ)} \/ Held' = {})
  BY <1>1 DEF Held
<1>5. /\ Len(canRxQ') = Len(canRxQ) - 1 /\ Len(canRxQ) \in Nat
      /\ \A i \in 1 .. Len(canRxQ') : canRxQ'[i] = canRxQ[i + 1]
  BY <1>1, HeadTailProperties, LenProperties
<1>6. \A i, j \in 1 .. Len(canRxQ) : i < j => canRxQ[i] < canRxQ[j]
  BY DEF OrderInv
<1>7. \A i, j \in 1 .. Len(canRxQ') : i < j => canRxQ'[i] < canRxQ'[j]
  BY ONLY <1>5, <1>6
<1>8. \A n \in Queued(canRxQ)' : Head(canRxQ) < n
  <2>1. \A i \in 1 .. Len(canRxQ') : canRxQ[1] < canRxQ'[i]
    BY ONLY <1>5, <1>6
  <2>. QED  BY <1>3, <2>1 DEF Queued
<1>9. OrderInv'
  BY <1>2, <1>3, <1>4, <1>7, <1>8 DEF OrderInv, Transit
<1>10. Head(canRxQ) \notin Queued(canRxQ)'
  BY <1>8, TransitType, <1>3
<1>11. Head(canRxQ) \notin InRing(toLinux)
  <2>1. Head(canRxQ) \in Queued(canRxQ)
    BY <1>3
  <2>2. Head(canRxQ) \in Nat
    BY <2>1, TransitType
  <2>3. \A m \in InRing(toLinux) : m < Head(canRxQ)
    BY <2>1 DEF OrderInv
  <2>. QED  BY <2>2, <2>3
<1>12. Transit' = Transit \/ Transit' = Transit \ {Head(canRxQ)}
  BY <1>2, <1>3, <1>4, <1>10, <1>11 DEF Transit
<1>13. Head(canRxQ) \in Transit
  BY <1>3 DEF Transit
<1>. QED  BY <1>2, <1>9, <1>12, <1>13 DEF Fifo!Lose, Fifo!vars

\* rpmsg_trysendto: the frame in hand goes onto vring 0, or is lost.
LEMMA OrderSend ==
    TypeOK /\ OrderInv /\ TxSend
      => OrderInv' /\ (Fifo!Lose \/ UNCHANGED Fifo!vars)
<1>. SUFFICES ASSUME TypeOK, OrderInv, TxSend
              PROVE  OrderInv' /\ (Fifo!Lose \/ UNCHANGED Fifo!vars)
  OBVIOUS
<1>1. /\ UNCHANGED <<received, canRxQ, linuxGot>>
      /\ Queued(canRxQ)' = Queued(canRxQ)
  BY DEF TxSend, TxSent, TxDropped, rxVars, lnxVars
<1>2. Held = {txFrame} /\ Held' = {}
  BY DEF TxSend, Held
<1>3. CASE TxSent
  <2>1. LinuxMsg("frame", txPeer, txFrame) \in LinuxMsgs
    BY DEF TxSend, LinuxMsg, LinuxMsgs, TypeOK, TxTypeOK
  <2>2. /\ toLinux \in Seq(LinuxMsgs)
        /\ toLinux' = Append(toLinux, LinuxMsg("frame", txPeer, txFrame))
    BY <1>3 DEF TxSent, TrySend, TypeOK, RingTypeOK
  <2>3. InRing(toLinux)' = InRing(toLinux) \cup {txFrame}
    BY <2>1, <2>2, InRingAppend DEF LinuxMsg
  <2>4. /\ Len(toLinux') = Len(toLinux) + 1 /\ Len(toLinux) \in Nat
        /\ \A i \in 1 .. Len(toLinux) : toLinux'[i] = toLinux[i]
        /\ toLinux'[Len(toLinux) + 1].val = txFrame
    BY <2>1, <2>2, AppendProperties, LenProperties DEF LinuxMsg
  <2>5. \A i \in 1 .. Len(toLinux) :
            toLinux[i].kind = "frame" => toLinux[i].val < txFrame
    BY <1>2 DEF OrderInv, InRing
  <2>6. \A i, j \in 1 .. Len(toLinux) :
            /\ toLinux[i].kind = "frame" /\ toLinux[j].kind = "frame" /\ i < j
            => toLinux[i].val < toLinux[j].val
    BY DEF OrderInv
  <2>7. \A i, j \in 1 .. Len(toLinux') :
            /\ toLinux'[i].kind = "frame" /\ toLinux'[j].kind = "frame" /\ i < j
            => toLinux'[i].val < toLinux'[j].val
    BY ONLY <2>4, <2>5, <2>6
  <2>8. Transit' = Transit
    BY <1>1, <1>2, <2>3 DEF Transit
  <2>9. OrderInv'
    BY <1>1, <1>2, <2>3, <2>7, <2>8 DEF OrderInv
  <2>. QED  BY <1>1, <2>8, <2>9 DEF Fifo!vars
<1>4. CASE TxDropped
  <2>1. toLinux' = toLinux /\ InRing(toLinux)' = InRing(toLinux)
    BY <1>4 DEF TxDropped, TrySendFails
  <2>2. txFrame \in Nat
    BY DEF TypeOK, TxTypeOK
  <2>3. txFrame \notin InRing(toLinux) /\ txFrame \notin Queued(canRxQ)
    BY <1>2, <2>2 DEF OrderInv
  <2>4. Transit' = Transit \ {txFrame} /\ txFrame \in Transit
    BY <1>1, <1>2, <2>1, <2>3 DEF Transit
  <2>5. OrderInv'
    BY <1>1, <1>2, <2>1, <2>4 DEF OrderInv
  <2>. QED  BY <1>1, <2>4, <2>5 DEF Fifo!Lose
<1>. QED  BY <1>3, <1>4 DEF TxSend

\* EVT_STATE takes a place on vring 0 but carries no frame.
LEMMA OrderState ==
    TypeOK /\ OrderInv /\ CtlSend => OrderInv' /\ UNCHANGED Fifo!vars
<1>. SUFFICES ASSUME TypeOK, OrderInv, CtlSend
              PROVE  OrderInv' /\ UNCHANGED Fifo!vars
  OBVIOUS
<1>1. /\ UNCHANGED <<received, canRxQ, linuxGot>>
      /\ Held' = Held /\ Queued(canRxQ)' = Queued(canRxQ)
  BY DEF CtlSend, rxVars, txVars, lnxVars, Held
<1>2. CASE TrySend(LinuxMsg("state", ctlPeer, ctlState))
  <2>1. LinuxMsg("state", ctlPeer, ctlState) \in LinuxMsgs
    BY DEF CtlSend, LinuxMsg, LinuxMsgs, TypeOK, CtlTypeOK
  <2>2. /\ toLinux \in Seq(LinuxMsgs)
        /\ toLinux' = Append(toLinux, LinuxMsg("state", ctlPeer, ctlState))
    BY <1>2 DEF TrySend, TypeOK, RingTypeOK
  <2>3. InRing(toLinux)' = InRing(toLinux)
    <3>1. LinuxMsg("state", ctlPeer, ctlState).kind # "frame"
      BY DEF LinuxMsg
    <3>. QED  BY <2>1, <2>2, <3>1, InRingAppend
  <2>4. /\ Len(toLinux') = Len(toLinux) + 1 /\ Len(toLinux) \in Nat
        /\ \A i \in 1 .. Len(toLinux) : toLinux'[i] = toLinux[i]
        /\ toLinux'[Len(toLinux) + 1].kind = "state"
    BY <2>1, <2>2, AppendProperties, LenProperties DEF LinuxMsg
  <2>5. \A i, j \in 1 .. Len(toLinux) :
            /\ toLinux[i].kind = "frame" /\ toLinux[j].kind = "frame" /\ i < j
            => toLinux[i].val < toLinux[j].val
    BY DEF OrderInv
  <2>6. \A i, j \in 1 .. Len(toLinux') :
            /\ toLinux'[i].kind = "frame" /\ toLinux'[j].kind = "frame" /\ i < j
            => toLinux'[i].val < toLinux'[j].val
    BY ONLY <2>4, <2>5
  <2>7. Transit' = Transit
    BY <1>1, <2>3 DEF Transit
  <2>8. OrderInv'
    BY <1>1, <2>3, <2>6, <2>7 DEF OrderInv
  <2>. QED  BY <1>1, <2>7, <2>8 DEF Fifo!vars
<1>3. CASE TrySendFails
  <2>1. toLinux' = toLinux /\ InRing(toLinux)' = InRing(toLinux)
    BY <1>3 DEF TrySendFails
  <2>2. Transit' = Transit
    BY <1>1, <2>1 DEF Transit
  <2>. QED  BY <1>1, <2>1, <2>2 DEF OrderInv, Fifo!vars
<1>. QED  BY <1>2, <1>3 DEF CtlSend

\* Linux consumes the oldest message: a frame for the driver bound now is
\* delivered, one for an earlier driver is lost.
LEMMA OrderRecv ==
    TypeOK /\ OrderInv /\ LinuxRecv
      => OrderInv' /\ (Fifo!Deliver \/ Fifo!Lose \/ UNCHANGED Fifo!vars)
<1>. SUFFICES ASSUME TypeOK, OrderInv, LinuxRecv
              PROVE  OrderInv' /\ (Fifo!Deliver \/ Fifo!Lose \/ UNCHANGED Fifo!vars)
  OBVIOUS
<1>. DEFINE m == Head(toLinux)
<1>1. /\ toLinux \in Seq(LinuxMsgs) /\ toLinux # <<>> /\ toLinux' = Tail(toLinux)
      /\ m \in LinuxMsgs
  BY RingTail DEF LinuxRecv, TypeOK, RingTypeOK
<1>2. /\ UNCHANGED <<received, canRxQ>>
      /\ Held' = Held /\ Queued(canRxQ)' = Queued(canRxQ)
  BY DEF LinuxRecv, rxVars, txVars, Held
<1>3. /\ InRing(toLinux) = InRing(toLinux)' \cup {v \in {m.val} : m.kind = "frame"}
      /\ m = toLinux[1] /\ 1 \in 1 .. Len(toLinux)
  BY <1>1, InRingTail
<1>4. /\ Len(toLinux') = Len(toLinux) - 1 /\ Len(toLinux) \in Nat
      /\ \A i \in 1 .. Len(toLinux') : toLinux'[i] = toLinux[i + 1]
  BY <1>1, HeadTailProperties, LenProperties
<1>5. \A i, j \in 1 .. Len(toLinux) :
          /\ toLinux[i].kind = "frame" /\ toLinux[j].kind = "frame" /\ i < j
          => toLinux[i].val < toLinux[j].val
  BY DEF OrderInv
<1>6. \A i, j \in 1 .. Len(toLinux') :
          /\ toLinux'[i].kind = "frame" /\ toLinux'[j].kind = "frame" /\ i < j
          => toLinux'[i].val < toLinux'[j].val
  BY ONLY <1>4, <1>5
<1>7. Transit' \subseteq Transit
  BY <1>2, <1>3 DEF Transit
<1>8. OrderInv'
  BY <1>2, <1>3, <1>6, <1>7 DEF OrderInv
<1>9. CASE m.kind = "frame"
  <2>1. \A n \in InRing(toLinux)' : m.val < n
    <3>1. \A i \in 1 .. Len(toLinux') :
              toLinux'[i].kind = "frame" => toLinux[1].val < toLinux'[i].val
      <4>1. toLinux[1].kind = "frame"
        BY <1>3, <1>9
      <4>. QED  BY ONLY <1>4, <1>5, <4>1
    <3>. QED  BY <1>3, <3>1 DEF InRing
  <2>2. m.val \in InRing(toLinux)
    BY <1>3, <1>9
  <2>3. \A n \in Held \cup Queued(canRxQ) : m.val < n
    BY <2>2 DEF OrderInv
  <2>4. m.val \in Nat
    BY <2>2, TransitType
  <2>5. /\ Transit' = Transit \ {m.val} /\ m.val \in Transit
    BY <1>2, <1>3, <1>9, <2>1, <2>3, <2>4 DEF Transit
  <2>6. \A n \in Transit : m.val <= n
    <3>1. Transit \subseteq Nat
      BY TransitType DEF Transit
    <3>. QED  BY <1>3, <1>9, <2>1, <2>3, <2>4, <3>1 DEF Transit
  <2>7. linuxGot' = Append(linuxGot, m.val) \/ linuxGot' = linuxGot
    BY <1>9 DEF LinuxRecv
  <2>. QED  BY <1>2, <1>8, <2>5, <2>6, <2>7 DEF Fifo!Deliver, Fifo!Lose
<1>10. CASE m.kind # "frame"
  <2>1. Transit' = Transit
    BY <1>2, <1>3, <1>10 DEF Transit
  <2>2. linuxGot' = linuxGot
    BY <1>10 DEF LinuxRecv
  <2>. QED  BY <1>2, <1>8, <2>1, <2>2 DEF Fifo!vars
<1>. QED  BY <1>9, <1>10

\* Every other step leaves the frames alone.
LEMMA OrderFrame ==
    OrderInv /\ UNCHANGED <<received, canRxQ, txPc, txFrame, toLinux, linuxGot>>
      => OrderInv' /\ UNCHANGED Fifo!vars
BY DEF OrderInv, Transit, Held, Queued, InRing, Fifo!vars

-----------------------------------------------------------------------------
LEMMA OrderStep ==
    TypeOK /\ OrderInv /\ [Next]_vars => OrderInv' /\ [Fifo!Next]_(Fifo!vars)
<1>. SUFFICES ASSUME TypeOK, OrderInv, [Next]_vars
              PROVE  OrderInv' /\ [Fifo!Next]_(Fifo!vars)
  OBVIOUS
<1>. USE DEF Fifo!Next
<1>1. CASE CanRx
  BY <1>1, OrderRx
<1>2. CASE TxGet
  BY <1>2, OrderGet
<1>3. CASE TxSend
  BY <1>3, OrderSend
<1>4. CASE CtlSend
  BY <1>4, OrderState
<1>5. CASE LinuxRecv
  BY <1>5, OrderRecv
<1>6. CASE TxWait \/ TxCreate
  <2>1. Held = {} /\ Held' = {}
    BY <1>6 DEF TxWait, TxCreate, Held
  <2>2. UNCHANGED <<received, canRxQ, toLinux, linuxGot>>
    BY <1>6 DEF TxWait, TxCreate, rxVars, lnxVars
  <2>. QED  BY <2>1, <2>2 DEF OrderInv, Transit, Queued, InRing, Fifo!vars
<1>7. CASE UNCHANGED <<received, canRxQ, txPc, txFrame, toLinux, linuxGot>>
  BY <1>7, OrderFrame
<1>8. PlatformReady \/ CtlTake \/ CtlLoadState \/ CtlLoadPeer \/ MngTask \/ CanTxDone
        \/ (\E s \in CanStates : StateChange(s)) \/ (\E a \in Addr : LinuxBind(a))
        \/ (\E k \in Kinds : LinuxSend(k)) \/ UNCHANGED vars
      => UNCHANGED <<received, canRxQ, txPc, txFrame, toLinux, linuxGot>>
  BY DEF PlatformReady, CtlTake, CtlLoadState, CtlLoadPeer, StateChange, MngTask,
         MngRecv, MngSend, MngStop, MngClear, MngApply, MngStart, CanTxDone,
         LinuxBind, LinuxSend, vars, rxVars, txVars, lnxVars
<1>. QED  BY <1>1, <1>2, <1>3, <1>4, <1>5, <1>6, <1>7, <1>8
          DEF Next, TxTask, CtlTask, Driver, Linux

\* The gateway implements the lossy FIFO channel (FifoSpec), whatever the
\* capacities, the failures and the number of times Linux binds.
THEOREM GatewayRefinesFifo == Spec => FifoSpec
<1>1. Init => OrderInv /\ Fifo!Init
  BY DEF Init, OrderInv, Transit, Queued, Held, InRing, Fifo!Init
<1>. QED  BY TypeCorrect, <1>1, OrderStep, PTL DEF Spec, FifoSpec, Fifo!Spec

Channel == INSTANCE LossyFifoProofs
               WITH last <- received, pipe <- Transit, out <- linuxGot

\* Linux gets CAN frames in the order of their reception, none invented and
\* none twice: every delivered frame is younger than those before it.
THEOREM DeliveredInOrder == Spec => []Channel!InOrder
<1>1. FifoSpec => Channel!Spec
  BY PTL DEF FifoSpec, Fifo!Spec, Fifo!Init, Fifo!Next, Fifo!Offer, Fifo!Lose,
         Fifo!Deliver, Fifo!vars, Channel!Spec, Channel!Init, Channel!Next,
         Channel!Offer, Channel!Lose, Channel!Deliver, Channel!vars
<1>. QED  BY <1>1, GatewayRefinesFifo, Channel!ChannelInOrder, PTL
=============================================================================
