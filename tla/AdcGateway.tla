---------------------------- MODULE AdcGateway ----------------------------
(***************************************************************************)
(* The ADC side of apps/can-gw/src/main.c: adc_task scans the ADS8688 over *)
(* SPI and sends the samples twice, through can_rx_q to Linux and as CAN   *)
(* frames to the bus.                                                      *)
(*                                                                         *)
(* The scan relies on the converter's automatic sequence: what a transfer  *)
(* returns is not named, it is the next channel of those enabled, and      *)
(* AUTO_RST at the end of a scan goes back to the first of them.  A        *)
(* transfer that fails may or may not have reached the converter; nor does *)
(* anybody look whether the write that enables the channels did.           *)
(*                                                                         *)
(* The CAN controller (MCP2515) has one transmit buffer.  adc_task shares  *)
(* it with the endpoint callback, which drops its frame when the buffer is *)
(* taken and else waits in can_send until the frame is acknowledged;       *)
(* adc_task waits 5 ms for the buffer and never for the acknowledgement.   *)
(* The rest of the gateway is as in CanGateway.                            *)
(***************************************************************************)
EXTENDS Integers, Sequences

CONSTANTS
    NumCh,      \* channels of the converter (8 in the code), an even number
    Retries,    \* attempts at ads8688_init after the first (5 in the code)
    QCap        \* capacity of can_rx_q (64 in the code)

ASSUME ChannelsAssumption == NumCh \in Nat /\ NumCh >= 2 /\ NumCh % 2 = 0
ASSUME RetriesAssumption == Retries \in Nat
ASSUME QueueAssumption == QCap \in Nat \ {0}

Channels == 0 .. NumCh - 1
Last == NumCh - 1
Bad == -1       \* 0xFFFF in place of a sample

VARIABLES
    adcPc,      \* where adc_task is
    retry,      \* its local retry
    ch,         \* its local ch
    v,          \* its local v: the channel each sample is of
    f,          \* its local f: 0 for CAN id 0x700, 1 for 0x701
    chip,       \* the channel the converter returns in the next transfer
    enabled,    \* the channels of its automatic sequence, AUTO_SEQ_EN
    lastBad,    \* was the last transfer of the scan before Bad? (ghost)
    canRxQ,     \* can_rx_q
    canStarted, \* can_started
    txBuf,      \* who has the controller's transmit buffer
    mngPc       \* where the endpoint callback is in can_send

scanVars == <<retry, ch, v, chip, enabled, lastBad>>
vars == <<adcPc, scanVars, f, canRxQ, canStarted, txBuf, mngPc>>

AutoSequences == (SUBSET Channels) \ {{}}
Half == NumCh \div 2
First(i) == IF i = 0 THEN 0 ELSE Half

\* A frame from the bus, whose identifier is neither 0x700 nor 0x701.
BusFrame == [id |-> 2, sound |-> FALSE, val |-> [i \in 1 .. Half |-> Bad]]

Init ==
    /\ adcPc = "init" /\ retry = 0
    /\ ch = 0 /\ v = [c \in Channels |-> Bad] /\ f = 0
    /\ chip \in Channels /\ enabled \in AutoSequences /\ lastBad = FALSE
    /\ canRxQ = <<>> /\ canStarted = FALSE /\ txBuf = "free" /\ mngPc = "poll"

-----------------------------------------------------------------------------
(* adc_task: the scan.                                                     *)

AdcGoto(from, to) == adcPc = from /\ adcPc' = to

\* The lowest channel of a set, as a set of at most one.
Lowest(S) == {d \in S : \A e \in S : d <= e}

\* ads8688_init: RST, the ranges, all channels in the sequence, AUTO_RST.  The
\* results of the register writes are ignored: after a lost one AUTO_SEQ_EN
\* holds whatever was in it (a lost range only scales the values).
AdcInit ==
    /\ AdcGoto("init", "scan")
    /\ enabled' \in AutoSequences
    /\ chip' \in Lowest(enabled')
    /\ ch' = 0 /\ lastBad' = FALSE
    /\ UNCHANGED <<retry, v, f, canRxQ, canStarted, txBuf, mngPc>>

\* Reset or AUTO_RST has failed; after the last retry there is no ADC.
AdcInitFails ==
    /\ AdcGoto("init", IF retry < Retries THEN "init" ELSE "off")
    /\ retry' = IF retry < Retries THEN retry + 1 ELSE retry
    /\ chip' \in Channels
    /\ UNCHANGED <<ch, v, enabled, lastBad, f, canRxQ, canStarted,
                   txBuf, mngPc>>

\* The SPI bus is not ready.
AdcNoBus ==
    /\ AdcGoto("init", "off") /\ retry = 0
    /\ UNCHANGED <<scanVars, f, canRxQ, canStarted, txBuf, mngPc>>

\* The channel after c in the sequence S, which begins again at its end.
Following(S, c) ==
    LET above == {e \in S : e > c}
    IN  Lowest(IF above = {} THEN S ELSE above)

NoRewind(c) == Following(enabled, c)    \* mutant

\* What the converter returns after a transfer of the scan has returned c.
Rewound(c) == IF ch = Last THEN Lowest(enabled) ELSE Following(enabled, c)

PastLast ==    \* mutant
    IF ch > Last THEN adcPc' = "put" /\ UNCHANGED ch
                 ELSE ch' = ch + 1 /\ UNCHANGED adcPc

AfterTransfer ==
    IF ch = Last THEN adcPc' = "put" /\ UNCHANGED ch
                 ELSE ch' = ch + 1 /\ UNCHANGED adcPc

AdcTransfer ==
    /\ adcPc = "scan" /\ AfterTransfer
    /\ v' = [v EXCEPT ![ch] = chip]
    /\ chip' \in Rewound(chip)
    /\ UNCHANGED <<retry, enabled, lastBad, f, canRxQ, canStarted,
                   txBuf, mngPc>>

\* A failed transfer leaves 0xFFFF in its slot.
MarkedBad == [v EXCEPT ![ch] = Bad]

AdcTransferFails ==
    /\ adcPc = "scan" /\ AfterTransfer
    /\ v' = MarkedBad
    /\ chip' \in {chip} \cup Rewound(chip)
    /\ UNCHANGED <<retry, enabled, lastBad, f, canRxQ, canStarted,
                   txBuf, mngPc>>

-----------------------------------------------------------------------------
(* adc_task: the two frames.                                               *)

\* No sample of the scan is Bad, nor the last one of the scan before.
Sound == ~lastBad /\ \A c \in Channels : v[c] # Bad

Packed == [id |-> f, sound |-> Sound,
           val |-> [i \in 1 .. Half |-> v[First(f) + i - 1]]]

\* k_msgq_put, whose result is ignored, before the controller is tried.
AdcPut ==
    /\ adcPc = "put"
    /\ canRxQ' = IF Len(canRxQ) < QCap THEN Append(canRxQ, Packed) ELSE canRxQ
    /\ adcPc' = IF canStarted THEN "send" ELSE "next"
    /\ UNCHANGED <<scanVars, f, canStarted, txBuf, mngPc>>

\* can_send with a callback: it returns once the frame has the buffer ...
AdcSend ==
    /\ AdcGoto("send", "next")
    /\ txBuf = "free" /\ txBuf' = "adc"
    /\ UNCHANGED <<scanVars, f, canRxQ, canStarted, mngPc>>

NeverGivesUp == FALSE    \* mutant

\* ... or after 5 ms without it, or at once on a stopped controller.
GivesUp == txBuf # "free" \/ ~canStarted

AdcGivesUp ==
    /\ AdcGoto("send", "next")
    /\ GivesUp
    /\ UNCHANGED <<scanVars, f, canRxQ, canStarted, txBuf, mngPc>>

\* The other frame of the scan, or the sleep until the next scan.
AdcNext ==
    /\ adcPc = "next"
    /\ IF f = 0 THEN adcPc' = "put" /\ f' = 1 ELSE adcPc' = "sleep" /\ f' = 0
    /\ UNCHANGED <<scanVars, canRxQ, canStarted, txBuf, mngPc>>

AdcWake ==
    /\ AdcGoto("sleep", "scan")
    /\ ch' = 0 /\ lastBad' = (v[Last] = Bad)
    /\ UNCHANGED <<retry, v, chip, enabled, f, canRxQ, canStarted,
                   txBuf, mngPc>>

-----------------------------------------------------------------------------
(* The rest of the gateway and the controller.                             *)

\* can_rx_cb, and can_gw_task, which takes a frame whether or not Linux is
\* there.  A frame can_rx_cb finds no room for is only counted.
CanRx == /\ Len(canRxQ) < QCap /\ canRxQ' = Append(canRxQ, BusFrame)
         /\ UNCHANGED <<adcPc, scanVars, f, canStarted, txBuf, mngPc>>

GwGet == /\ canRxQ # <<>> /\ canRxQ' = Tail(canRxQ)
         /\ UNCHANGED <<adcPc, scanVars, f, canStarted, txBuf, mngPc>>

\* A frame of Linux: can_send without a callback returns when the bus has the
\* frame; the buffer itself is not waited for, and a frame without is dropped.
MngSend == /\ mngPc = "poll" /\ canStarted /\ txBuf = "free"
           /\ mngPc' = "sent" /\ txBuf' = "mng"
           /\ UNCHANGED <<adcPc, scanVars, f, canRxQ, canStarted>>

\* START; and STOP, SET_BITRATE or SET_MODE, which stop the controller: a
\* frame in the buffer is given up.
MngStart == /\ mngPc = "poll" /\ ~canStarted /\ canStarted' = TRUE
            /\ UNCHANGED <<adcPc, scanVars, f, canRxQ, txBuf, mngPc>>

MngStop == /\ mngPc = "poll" /\ canStarted /\ canStarted' = FALSE
           /\ txBuf' = "free"
           /\ UNCHANGED <<adcPc, scanVars, f, canRxQ, mngPc>>

\* The bus has acknowledged the frame in the buffer.
TxDone == /\ txBuf # "free" /\ txBuf' = "free"
          /\ mngPc' = IF txBuf = "mng" THEN "poll" ELSE mngPc
          /\ UNCHANGED <<adcPc, scanVars, f, canRxQ, canStarted>>

-----------------------------------------------------------------------------
Adc == \/ AdcInit \/ AdcInitFails \/ AdcNoBus
       \/ AdcTransfer \/ AdcTransferFails
       \/ AdcPut \/ AdcSend \/ AdcGivesUp \/ AdcNext \/ AdcWake

Next == \/ Adc \/ CanRx \/ GwGet \/ TxDone
        \/ MngSend \/ MngStart \/ MngStop

\* adc_task runs when it can.  Of the bus and of can_gw_task nothing is
\* assumed: a frame may stay in the buffer, and the queue full, for ever.
Spec == Init /\ [][Next]_vars /\ WF_vars(Adc)

-----------------------------------------------------------------------------
(* Properties.                                                             *)

Samples == Channels \cup {Bad}
Frames == [id : 0 .. 2, sound : BOOLEAN, val : [1 .. Half -> Samples]]

\* The types of the variables.
TypeOK ==
    /\ adcPc \in {"init", "scan", "put", "send", "next", "sleep", "off"}
    /\ retry \in 0 .. Retries /\ ch \in Channels /\ v \in [Channels -> Samples]
    /\ f \in {0, 1} /\ chip \in Channels /\ enabled \in AutoSequences
    /\ lastBad \in BOOLEAN
    /\ canRxQ \in Seq(Frames) /\ Len(canRxQ) <= QCap
    /\ canStarted \in BOOLEAN /\ txBuf \in {"free", "adc", "mng"}
    /\ mngPc \in {"poll", "sent"}

\* Every value Linux and the bus get is of the channel its place in the frame
\* says if init's write of the sequence has arrived; if not, the channels of a
\* frame still follow one another in the sequence there is, from its first one
\* in 0x700.  Provided that the scan has no 0xFFFF and that the one before did
\* not end in one: the rewind at the end of each scan undoes every shift a
\* failed transfer has caused (main.c, lines 282 and 283).
InSequence(e) ==
    /\ e.id = 0 => e.val[1] \in Lowest(enabled)
    /\ \A i \in 1 .. Half - 1 : e.val[i + 1] \in Following(enabled, e.val[i])
    /\ enabled = Channels =>
           \A i \in 1 .. Half : e.val[i] = First(e.id) + i - 1

SoundIsAligned ==
    \A k \in DOMAIN canRxQ : canRxQ[k].sound => InSequence(canRxQ[k])

\* adc_task goes on scanning, or has given the ADC up at the start, though no
\* frame of it or of Linux is ever acknowledged (main.c, lines 413 to 423).
KeepsScanning == []<>(adcPc = "sleep") \/ <>[](adcPc = "off")
=============================================================================
