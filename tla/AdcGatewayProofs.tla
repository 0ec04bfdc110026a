------------------------- MODULE AdcGatewayProofs -------------------------
(***************************************************************************)
(* Proofs about AdcGateway: its types, and that the samples of a scan      *)
(* without a failed transfer, and not after one that ended in a failed     *)
(* transfer, are of the converter's sequence of channels, from its start.  *)
(***************************************************************************)
EXTENDS AdcGateway, TLAPS

USE DEF Channels, Last, Bad

\* Half of the channels is a number of them, and two halves are all.
LEMMA HalfFact == Half \in Nat \ {0} /\ NumCh = 2 * Half
BY ChannelsAssumption DEF Half

\* A frame has its identifier, and samples of channels that exist.
LEMMA PackedType ==
    ASSUME TypeOK
    PROVE  Packed \in Frames
<1>1. \A i \in 1 .. Half : First(f) + i - 1 \in Channels
  BY HalfFact DEF First, TypeOK
<1>2. \A i \in 1 .. Half : v[First(f) + i - 1] \in Samples
  BY <1>1 DEF TypeOK
<1>3. Sound \in BOOLEAN
  BY DEF Sound
<1> QED  BY <1>2, <1>3 DEF Packed, Frames, TypeOK

LEMMA BusFrameType == BusFrame \in Frames
BY DEF BusFrame, Frames, Samples

\* The first n samples of a scan w are the sequence S from its start.
InOrder(S, w, n) ==
    /\ n > 0 => w[0] \in Lowest(S)
    /\ \A c \in 0 .. n - 2 : w[c + 1] \in Following(S, w[c])
    /\ S = Channels => \A c \in 0 .. n - 1 : w[c] = c

\* What the converter returns next once n samples of a scan w were in order.
Due(S, w, n) == IF n = 0 THEN Lowest(S) ELSE Following(S, w[n - 1])

\* What the scan keeps true: as long as no transfer since the last rewind has
\* failed the converter is where the scan is, and a scan that ended well has
\* left it at the first channel.
ScanInv ==
    /\ adcPc = "scan" /\ ~lastBad /\ (\A c \in 0 .. ch - 1 : v[c] # Bad) =>
           InOrder(enabled, v, ch) /\ chip \in Due(enabled, v, ch)
    /\ adcPc \in {"put", "send", "next"} /\ Sound => InOrder(enabled, v, NumCh)
    /\ adcPc \in {"put", "send", "next", "sleep"} /\ v[Last] # Bad =>
           chip \in Lowest(enabled)
    /\ adcPc = "init" => \A k \in DOMAIN canRxQ : ~canRxQ[k].sound

IInv == TypeOK /\ ScanInv /\ SoundIsAligned

-----------------------------------------------------------------------------
(* Types.                                                                  *)

LEMMA AppendType ==
    ASSUME TypeOK, NEW e \in Frames, Len(canRxQ) < QCap
    PROVE  /\ Append(canRxQ, e) \in Seq(Frames)
           /\ Len(Append(canRxQ, e)) <= QCap
BY QueueAssumption DEF TypeOK

LEMMA TypeInit == Init => TypeOK
<1>1. 0 \in 0 .. Retries /\ <<>> \in Seq(Frames) /\ Len(<<>>) <= QCap
  BY RetriesAssumption, QueueAssumption
<1>2. 0 \in Channels
  BY ChannelsAssumption
<1> QED  BY <1>1, <1>2 DEF Init, TypeOK, Samples

LEMMA LowestType == \A S \in SUBSET Channels : Lowest(S) \subseteq Channels
BY DEF Lowest

LEMMA FollowingType ==
    \A S \in SUBSET Channels, c \in Channels :
        Following(S, c) \subseteq Channels
BY DEF Following, Lowest

\* adc_task's own steps up to the frames: only the queue is left alone.
LEMMA ScanTypes ==
    ASSUME TypeOK,
           AdcInit \/ AdcInitFails \/ AdcNoBus \/ AdcTransfer \/ AdcTransferFails
           \/ AdcWake
    PROVE  TypeOK'
<1>0. 0 \in Channels /\ (ch # Last => ch + 1 \in Channels)
      /\ (retry < Retries => retry + 1 \in 0 .. Retries)
  BY ChannelsAssumption, RetriesAssumption DEF TypeOK
<1>1. CASE AdcInit \/ AdcNoBus \/ AdcWake
  BY <1>0, <1>1, LowestType
     DEF AdcInit, AdcNoBus, AdcWake, AdcGoto, scanVars, TypeOK, AutoSequences
<1>2. CASE AdcInitFails
  BY <1>0, <1>2 DEF AdcInitFails, AdcGoto, TypeOK
<1>3. CASE AdcTransfer \/ AdcTransferFails
  <2>1. adcPc' \in {"scan", "put"} /\ ch' \in Channels /\ chip' \in Channels
    BY <1>0, <1>3, LowestType, FollowingType
       DEF AdcTransfer, AdcTransferFails, AfterTransfer, Rewound, TypeOK,
           AutoSequences
  <2>2. v' \in [Channels -> Samples]
    BY <1>3 DEF AdcTransfer, AdcTransferFails, MarkedBad, TypeOK, Samples
  <2> QED  BY <1>3, <2>1, <2>2 DEF AdcTransfer, AdcTransferFails, TypeOK
<1> QED  BY <1>1, <1>2, <1>3

LEMMA TypeStep == TypeOK /\ [Next]_vars => TypeOK'
<1> SUFFICES ASSUME TypeOK, [Next]_vars PROVE TypeOK'
  OBVIOUS
<1>1. CASE AdcInit \/ AdcInitFails \/ AdcNoBus \/ AdcTransfer \/ AdcTransferFails
           \/ AdcWake
  BY <1>1, ScanTypes
<1>2. CASE AdcPut
  <2>1. canRxQ' \in Seq(Frames) /\ Len(canRxQ') <= QCap
    BY <1>2, PackedType, AppendType DEF AdcPut, TypeOK
  <2> QED  BY <1>2, <2>1 DEF AdcPut, scanVars, TypeOK
<1>3. CASE AdcSend \/ AdcGivesUp \/ AdcNext
  BY <1>3 DEF AdcSend, AdcGivesUp, AdcNext, AdcGoto, scanVars, TypeOK
<1>4. CASE CanRx
  <2>1. canRxQ' \in Seq(Frames) /\ Len(canRxQ') <= QCap
    BY <1>4, BusFrameType, AppendType DEF CanRx
  <2> QED  BY <1>4, <2>1 DEF CanRx, scanVars, TypeOK
<1>5. CASE GwGet
  <2>1. canRxQ' \in Seq(Frames) /\ Len(canRxQ') <= QCap
    BY <1>5, QueueAssumption DEF GwGet, TypeOK
  <2> QED  BY <1>5, <2>1 DEF GwGet, scanVars, TypeOK
<1>6. CASE TxDone \/ MngSend \/ MngStart \/ MngStop
  BY <1>6 DEF TxDone, MngSend, MngStart, MngStop, scanVars, TypeOK
<1>7. CASE UNCHANGED vars
  BY <1>7 DEF vars, scanVars, TypeOK
<1> QED  BY <1>1, <1>2, <1>3, <1>4, <1>5, <1>6, <1>7 DEF Next, Adc

\* The types of the variables, for every number of channels and retries and
\* every capacity of the queue.
THEOREM TypeCorrect == Spec => []TypeOK
BY TypeInit, TypeStep, PTL DEF Spec

-----------------------------------------------------------------------------
(* The scan.                                                               *)

LEMMA ScanInit == Init => ScanInv /\ SoundIsAligned
BY DEF Init, ScanInv, SoundIsAligned

\* With all the channels enabled the sequence is the channels in order.
LEMMA FullSequence ==
    /\ \A d \in Lowest(Channels) : d = 0
    /\ \A c \in Channels : c # Last => \A d \in Following(Channels, c) : d = c + 1
<1>1. 0 \in Channels /\ \A c \in Channels : c # Last => c + 1 \in Channels
  BY ChannelsAssumption
<1>2. ASSUME NEW d \in Lowest(Channels) PROVE d = 0
  <2>1. d \in Channels /\ d <= 0
    BY <1>1, <1>2 DEF Lowest
  <2> QED  BY <2>1, ChannelsAssumption
<1>3. ASSUME NEW c \in Channels, c # Last, NEW d \in Following(Channels, c)
      PROVE  d = c + 1
  <2>1. c + 1 \in {e \in Channels : e > c}
    BY <1>1, <1>3, ChannelsAssumption
  <2>2. d \in Lowest({e \in Channels : e > c})
    BY <2>1, <1>3 DEF Following
  <2>3. d \in Channels /\ d > c /\ d <= c + 1
    BY <2>1, <2>2 DEF Lowest
  <2> QED  BY <2>3, <1>3, ChannelsAssumption
<1> QED  BY <1>2, <1>3

\* A sample that was due continues the order.
LEMMA OrderGrows ==
    ASSUME NEW S, NEW w, NEW n \in Channels, InOrder(S, w, n),
           w[n] \in Due(S, w, n)
    PROVE  InOrder(S, w, n + 1)
<1>1. n \in Nat /\ (n + 1) - 2 = n - 1 /\ (n + 1) - 1 = n
  BY ChannelsAssumption
<1>2. w[0] \in Lowest(S)
  BY <1>1 DEF InOrder, Due
<1>3. ASSUME NEW c \in 0 .. n - 1 PROVE w[c + 1] \in Following(S, w[c])
  <2>1. CASE c = n - 1
    <3>1. c + 1 = n /\ n # 0
      BY <2>1, <1>1, <1>3
    <3> QED  BY <3>1, <2>1 DEF Due
  <2>2. CASE c # n - 1
    <3>1. c \in 0 .. n - 2
      BY <2>2, <1>1, <1>3
    <3> QED  BY <3>1 DEF InOrder
  <2> QED  BY <2>1, <2>2
<1>4. ASSUME S = Channels PROVE \A c \in 0 .. n : w[c] = c
  <2>1. \A c \in 0 .. n - 1 : w[c] = c
    BY <1>4 DEF InOrder
  <2>2. CASE n = 0
    BY <2>2, <1>2, <1>4, FullSequence
  <2>3. CASE n # 0
    <3>1. n - 1 \in Channels /\ n - 1 # Last /\ w[n - 1] = n - 1
      BY <2>1, <2>3, <1>1, ChannelsAssumption
    <3>2. w[n] = (n - 1) + 1
      BY <3>1, <2>3, <1>4, FullSequence DEF Due
    <3> QED  BY <2>1, <3>2, <1>1
  <2> QED  BY <2>2, <2>3
<1> QED  BY <1>1, <1>2, <1>3, <1>4 DEF InOrder

\* A transfer that reaches the converter takes it and the scan on together;
\* one that fails leaves 0xFFFF where it can be seen.
LEMMA TransferInv ==
    ASSUME TypeOK, ScanInv, AdcTransfer \/ AdcTransferFails
    PROVE  ScanInv'
<1> DEFINE Clean(s) == ~lastBad /\ \A c \in s : v'[c] # Bad
<1>1. /\ ch \in Channels /\ ch \in Nat /\ NumCh \in Nat
      /\ lastBad' = lastBad /\ enabled' = enabled
      /\ \A c \in Channels : c # ch => v'[c] = v[c]
      /\ \A c \in 0 .. ch - 1 : c \in Channels /\ c # ch
  BY ChannelsAssumption
     DEF AdcTransfer, AdcTransferFails, MarkedBad, TypeOK, AutoSequences
<1>2. AdcTransfer => v'[ch] = chip /\ chip' \in Rewound(chip)
  BY <1>1 DEF AdcTransfer, TypeOK
<1>3. AdcTransferFails => v'[ch] = Bad
  BY <1>1 DEF AdcTransferFails, MarkedBad, TypeOK
<1>4. ASSUME Clean(0 .. ch)
      PROVE  AdcTransfer /\ InOrder(enabled, v', ch + 1)
  <2>1. AdcTransfer
    BY <1>1, <1>3, <1>4
  <2>2. \A c \in 0 .. ch - 1 : v[c] # Bad /\ v'[c] = v[c]
    BY <1>1, <1>4
  <2>3. InOrder(enabled, v, ch) /\ chip \in Due(enabled, v, ch)
    BY <1>4, <2>2 DEF ScanInv, AdcTransfer, AdcTransferFails
  <2>4. \A c \in 0 .. ch - 2 : c \in 0 .. ch - 1 /\ c + 1 \in 0 .. ch - 1
    BY <1>1
  <2>5. ch # 0 => 0 \in 0 .. ch - 1 /\ ch - 1 \in 0 .. ch - 1
    BY <1>1
  <2>6. InOrder(enabled, v', ch)
    BY <1>1, <2>2, <2>3, <2>4, <2>5 DEF InOrder
  <2>7. v'[ch] \in Due(enabled, v', ch)
    BY <1>2, <2>1, <2>2, <2>3, <2>5 DEF Due
  <2> QED  BY <1>1, <2>1, <2>6, <2>7, OrderGrows
<1>5. CASE ch = Last
  <2>1. adcPc' = "put" /\ 0 .. ch = Channels /\ ch + 1 = NumCh
    BY <1>1, <1>5 DEF AdcTransfer, AdcTransferFails, AfterTransfer
  <2>2. Sound' => InOrder(enabled', v', NumCh)
    BY <1>1, <1>4, <2>1 DEF Sound
  <2>3. v'[Last] # Bad => chip' \in Lowest(enabled')
    BY <1>1, <1>2, <1>3, <1>5 DEF Rewound
  <2> QED  BY <2>1, <2>2, <2>3 DEF ScanInv
<1>6. CASE ch # Last
  <2>1. /\ adcPc' = "scan" /\ ch' = ch + 1 /\ 0 .. ch' - 1 = 0 .. ch
        /\ ch' # 0 /\ ch' - 1 = ch
    BY <1>1, <1>6 DEF AdcTransfer, AdcTransferFails, AfterTransfer
  <2>2. AdcTransfer => chip' \in Due(enabled, v', ch')
    BY <1>2, <1>6, <2>1 DEF Rewound, Due
  <2> QED  BY <1>1, <1>4, <2>1, <2>2 DEF ScanInv
<1> QED  BY <1>5, <1>6

LEMMA ScanStep == TypeOK /\ ScanInv /\ [Next]_vars => ScanInv'
<1> SUFFICES ASSUME TypeOK, ScanInv, [Next]_vars PROVE ScanInv'
  OBVIOUS
<1>1. CASE AdcInit
  <2>1. /\ adcPc' = "scan" /\ ch' = 0 /\ chip' \in Lowest(enabled')
        /\ \A c : c \notin 0 .. 0 - 2 /\ c \notin 0 .. 0 - 1
    BY <1>1 DEF AdcInit, AdcGoto
  <2> QED  BY <2>1 DEF ScanInv, InOrder, Due
<1>7. CASE AdcInitFails \/ AdcNoBus
  BY <1>7 DEF AdcInitFails, AdcNoBus, AdcGoto, ScanInv
<1>2. CASE AdcTransfer \/ AdcTransferFails
  BY <1>2, TransferInv
<1>3. CASE AdcPut \/ AdcSend \/ AdcGivesUp \/ AdcNext
  BY <1>3 DEF AdcPut, AdcSend, AdcGivesUp, AdcNext, AdcGoto, scanVars, ScanInv, Sound
<1>4. CASE AdcWake
  <2>1. adcPc = "sleep" /\ adcPc' = "scan" /\ ch' = 0 /\ chip' = chip
    BY <1>4 DEF AdcWake, AdcGoto
  <2>2. ~lastBad' => v[Last] # Bad
    BY <1>4, Zenon DEF AdcWake
  <2>3. \A c : c \notin 0 .. ch' - 2 /\ c \notin 0 .. ch' - 1
    BY <2>1
  <2>4. enabled' = enabled
    BY <1>4 DEF AdcWake
  <2>5. ~lastBad' => chip' \in Due(enabled', v', ch')
    BY <2>1, <2>2, <2>4 DEF Due, ScanInv
  <2> QED  BY <2>1, <2>3, <2>5 DEF ScanInv, InOrder
<1>5. CASE CanRx \/ GwGet
  <2>1. UNCHANGED <<adcPc, ch, v, chip, enabled, lastBad>>
    BY <1>5 DEF CanRx, GwGet, scanVars
  <2>2. (\A k \in DOMAIN canRxQ : ~canRxQ[k].sound) =>
            \A k \in DOMAIN canRxQ' : ~canRxQ'[k].sound
    <3>1. canRxQ \in Seq(Frames) /\ BusFrame \in Frames /\ ~BusFrame.sound
      BY BusFrameType DEF BusFrame, TypeOK
    <3>2. CASE CanRx
      BY <3>1, <3>2 DEF CanRx
    <3>3. CASE GwGet
      BY <3>1, <3>3 DEF GwGet
    <3> QED  BY <1>5, <3>2, <3>3
  <2> QED  BY <2>1, <2>2 DEF ScanInv, Sound
<1>8. CASE TxDone \/ MngSend \/ MngStart \/ MngStop
  BY <1>8 DEF TxDone, MngSend, MngStart, MngStop, scanVars, ScanInv, Sound
<1>6. CASE UNCHANGED vars
  BY <1>6 DEF vars, scanVars, ScanInv, Sound
<1> QED  BY <1>1, <1>2, <1>3, <1>4, <1>5, <1>6, <1>7, <1>8
         DEF Next, Adc

-----------------------------------------------------------------------------
(* The frames in the queue.                                                *)

Aligned(e) == e.sound => InSequence(e)

LEMMA PackedAligned ==
    ASSUME TypeOK, ScanInv, adcPc = "put"
    PROVE  Aligned(Packed)
<1> SUFFICES ASSUME Sound PROVE InSequence(Packed)
  BY DEF Aligned, Packed
<1>1. /\ \A i \in 1 .. Half : First(f) + i - 1 \in 0 .. NumCh - 1
      /\ \A i \in 1 .. Half - 1 : /\ i \in 1 .. Half /\ i + 1 \in 1 .. Half
                                  /\ First(f) + i - 1 \in 0 .. NumCh - 2
                                  /\ First(f) + (i + 1) - 1 = (First(f) + i - 1) + 1
      /\ 1 \in 1 .. Half /\ NumCh > 0 /\ (f = 0 => First(f) + 1 - 1 = 0)
  BY HalfFact DEF First, TypeOK
<1>2. InOrder(enabled, v, NumCh)
  BY DEF ScanInv
<1>3. /\ Packed.id = f
      /\ \A i \in 1 .. Half : Packed.val[i] = v[First(f) + i - 1]
  BY DEF Packed
<1>4. f = 0 => Packed.val[1] \in Lowest(enabled)
  BY <1>1, <1>2, <1>3 DEF InOrder
<1>5. ASSUME NEW i \in 1 .. Half - 1
      PROVE  Packed.val[i + 1] \in Following(enabled, Packed.val[i])
  BY <1>1, <1>2, <1>3, <1>5 DEF InOrder
<1>6. enabled = Channels => \A i \in 1 .. Half : Packed.val[i] = First(f) + i - 1
  BY <1>1, <1>2, <1>3 DEF InOrder
<1> QED  BY <1>3, <1>4, <1>5, <1>6 DEF InSequence

\* The sequence is not written again once a scan has been sent.
LEMMA SequenceStands ==
    ASSUME ScanInv, [Next]_vars
    PROVE  \/ enabled' = enabled
           \/ canRxQ' = canRxQ /\ \A k \in DOMAIN canRxQ : ~canRxQ[k].sound
<1>1. CASE AdcInit
  BY <1>1 DEF AdcInit, AdcGoto, ScanInv
<1>2. CASE ~AdcInit
  BY <1>2 DEF Next, Adc, AdcInitFails, AdcNoBus, AdcTransfer, AdcTransferFails,
              AdcPut, AdcSend, AdcGivesUp, AdcNext, AdcWake, CanRx, GwGet, TxDone,
              MngSend, MngStart, MngStop, scanVars, vars
<1> QED  BY <1>1, <1>2

LEMMA AlignedStep ==
    TypeOK /\ ScanInv /\ SoundIsAligned /\ [Next]_vars => SoundIsAligned'
<1> SUFFICES ASSUME TypeOK, ScanInv, SoundIsAligned, [Next]_vars
             PROVE  SoundIsAligned'
  OBVIOUS
<1>1. \A k \in DOMAIN canRxQ : Aligned(canRxQ[k])
  BY DEF SoundIsAligned, Aligned
<1>2. CASE enabled' # enabled
  <2>1. \A k \in DOMAIN canRxQ' : ~canRxQ'[k].sound
    BY <1>2, SequenceStands
  <2> QED  BY <2>1 DEF SoundIsAligned
<1>3. CASE enabled' = enabled
  <2>1. SUFFICES \A k \in DOMAIN canRxQ' : Aligned(canRxQ'[k])
    BY <1>3 DEF SoundIsAligned, Aligned, InSequence
  <2>2. canRxQ \in Seq(Frames)
    BY DEF TypeOK
  <2>3. ASSUME NEW e \in Frames, Aligned(e), canRxQ' = Append(canRxQ, e)
        PROVE  \A k \in DOMAIN canRxQ' : Aligned(canRxQ'[k])
    BY <1>1, <2>2, <2>3
  <2>4. CASE AdcPut
    <3>1. Aligned(Packed) /\ Packed \in Frames
      BY <2>4, PackedAligned, PackedType DEF AdcPut
    <3> QED  BY <1>1, <2>3, <2>4, <3>1 DEF AdcPut
  <2>5. CASE CanRx
    BY <2>3, <2>5, BusFrameType DEF CanRx, Aligned, BusFrame
  <2>6. CASE GwGet
    BY <1>1, <2>2, <2>6 DEF GwGet
  <2>7. CASE UNCHANGED canRxQ
    BY <1>1, <2>7
  <2> QED  BY <2>4, <2>5, <2>6, <2>7
              DEF Next, Adc, AdcInit, AdcInitFails, AdcNoBus, AdcTransfer,
                  AdcTransferFails, AdcSend, AdcGivesUp, AdcNext, AdcWake,
                  TxDone, MngSend, MngStart, MngStop, vars
<1> QED  BY <1>2, <1>3

\* Whatever transfers fail, init's ignored writes among them, and wherever they
\* leave the converter, the samples of a scan without 0xFFFF are of the channels
\* of its sequence from the first on, hence of the channels their places say
\* when init's write of the sequence has arrived, unless the scan before it
\* ended in 0xFFFF.
THEOREM AlignmentCorrect == Spec => []SoundIsAligned
<1>1. Init => IInv
  BY TypeInit, ScanInit DEF IInv
<1>2. IInv /\ [Next]_vars => IInv'
  BY TypeStep, ScanStep, AlignedStep DEF IInv
<1>3. IInv => SoundIsAligned
  BY DEF IInv
<1> QED  BY <1>1, <1>2, <1>3, PTL DEF Spec
=============================================================================
