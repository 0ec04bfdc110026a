------------------------------ MODULE Ads868x ------------------------------
(***************************************************************************)
(* The ADS8684/ADS8688 driver, zephyr-modules/ads868x/drivers/adc/         *)
(* adc_ads868x.c: channel_setup and read, called from any thread, and the  *)
(* acquisition thread.                                                     *)
(*                                                                         *)
(* The lock, the interval timer and the course of a sequence are those of  *)
(* Zephyr's adc_context.h, which the driver instantiates; they are modelled*)
(* as the driver uses them.  A frame of the converter returns the result   *)
(* of the channel the frame before has selected.                           *)
(*                                                                         *)
(* Samples are abstracted to the channel they are of and to whether the    *)
(* driver takes them for what they are, offset or straight binary.         *)
(***************************************************************************)
EXTENDS Integers, Sequences, FiniteSets

CONSTANTS
    Callers,        \* threads that use the device
    NumCh,          \* channels of the device (nchannels)
    Gains,          \* gains channel_setup is called with: "2/5", "4/5"
    Requests,       \* sequences read is called with
    Modes,          \* may a read be asynchronous: {FALSE} or BOOLEAN
    MaxRequested,   \* bound: expiries of the timer not yet served
    MaxRepeats      \* bound: repetitions the callback asks of one read

Channels == 0 .. NumCh - 1

\* resolution, oversampling and calibrate are not told apart from channels the
\* device does not have; size is that of the buffer, in samples.
ASSUME DeviceAssumption ==
    /\ NumCh \in Nat \ {0}
    /\ Gains \subseteq {"2/5", "4/5"}
    /\ Modes \subseteq BOOLEAN /\ MaxRequested \in Nat /\ MaxRepeats \in Nat
    /\ \A r \in Requests :
         /\ r.channels \in SUBSET (0 .. NumCh) /\ IsFiniteSet(r.channels)
         /\ r.extra \in Nat /\ r.size \in Nat
         /\ r.timed \in BOOLEAN /\ r.callback \in BOOLEAN

VARIABLES
    pc,             \* where each caller is
    st,             \* the status its call is about to return
    written,        \* the channel and range its set-up has written
    lock, sync,     \* ctx.lock and ctx.sync
    asynchronous,   \* ctx.asynchronous
    status,         \* ctx.status
    sequence,       \* ctx.sequence and ctx.options
    index,          \* ctx.sampling_index
    requested,      \* ctx.sampling_requested
    timerOn,        \* is ctx.timer started?
    sem,            \* data->sem
    out,            \* the samples in the buffer
    ptr, repeatPtr, \* data->buffer and data->repeat_buffer, as places in it
    range,          \* data->range
    acqPc,          \* where the acquisition thread is
    todo, cur,      \* its locals channels and channel
    repeats,        \* repetitions asked of the read so far (bound)
    devSel,         \* the channel the device has been told to convert
    devRange,       \* its range registers
    trusted         \* channels whose last set-up has not failed (ghost)

callers == <<pc, st, written>>
ctxLock == <<lock, sync, asynchronous, status>>
ctxSeq == <<sequence, index, requested, timerOn, repeats>>
buffer == <<out, ptr, repeatPtr>>
acq == <<acqPc, todo, cur>>
device == <<devSel, devRange, range, trusted>>
vars == <<callers, ctxLock, ctxSeq, buffer, acq, sem, device>>

\* The smallest member of a set of channels (find_lsb_set).
Lowest(S) == CHOOSE c \in S : \A d \in S : c <= d

\* The range register value of a channel_cfg.
RangeOf(gain, differential) ==
    CASE gain = "2/5" /\ differential  -> 0
      [] gain = "2/5" /\ ~differential -> 5
      [] gain = "4/5" /\ differential  -> 1
      [] gain = "4/5" /\ ~differential -> 6

Ranges == {RangeOf(g, d) : g \in Gains, d \in BOOLEAN}

\* Bit 2 of a range value: straight binary, no sign to convert.
Unipolar(r) == (r \div 4) % 2 = 1

NoSetup == [channel |-> 0, range |-> 0]
NoRequest == [channels |-> {0}, extra |-> 0, size |-> 1, timed |-> FALSE, callback |-> FALSE]

\* As ads868x_init leaves the device: reset, every range the default.
Init ==
    /\ pc = [c \in Callers |-> "idle"] /\ st = [c \in Callers |-> "ok"]
    /\ written = [c \in Callers |-> NoSetup]
    /\ lock = 1 /\ sync = 0 /\ asynchronous = FALSE /\ status = "ok"
    /\ sequence = NoRequest /\ index = 0 /\ requested = 0 /\ timerOn = FALSE
    /\ repeats = 0 /\ sem = 0 /\ out = <<>> /\ ptr = 0 /\ repeatPtr = 0
    /\ range = [c \in Channels |-> 0] /\ devRange = [c \in Channels |-> 0]
    /\ trusted = Channels /\ devSel \in Channels
    /\ acqPc = "idle" /\ todo = {} /\ cur = 0

-----------------------------------------------------------------------------
(* adc_context.h.                                                          *)

\* adc_context_complete: the caller of a read is woken, or, when the read is
\* asynchronous, the lock given in its stead.
Complete(s) ==
    IF asynchronous
    THEN lock' = 1 /\ UNCHANGED <<sync, status>>
    ELSE sync' = 1 /\ status' = (IF s # "ok" THEN s ELSE status) /\ UNCHANGED lock

-----------------------------------------------------------------------------
(* channel_setup.                                                          *)

SetupUnguarded == TRUE    \* mutant
SetupGuard == lock = 1

\* A supported configuration, and adc_context_lock; the others return at once.
SetupLock(c) ==
    /\ pc[c] = "idle" /\ SetupGuard
    /\ lock' = 0 /\ asynchronous' = FALSE
    /\ pc' = [pc EXCEPT ![c] = "write"]
    /\ UNCHANGED <<st, written, sync, status, ctxSeq, buffer, acq, sem, device>>

Forgotten(ch, r) == range    \* mutant
Remembered(ch, r) == [range EXCEPT ![ch] = r]

\* The register is written and its echo is right ...
SetupWrite(c) ==
    /\ pc[c] = "write" /\ pc' = [pc EXCEPT ![c] = "written"]
    /\ \E ch \in Channels, r \in Ranges :
         /\ devRange' = [devRange EXCEPT ![ch] = r]
         /\ written' = [written EXCEPT ![c] = [channel |-> ch, range |-> r]]
    /\ UNCHANGED <<st, ctxLock, ctxSeq, buffer, acq, sem, devSel, range, trusted>>

\* ... and the range noted for the conversions.
SetupRemember(c) ==
    /\ pc[c] = "written" /\ pc' = [pc EXCEPT ![c] = "setupDone"]
    /\ range' = Remembered(written[c].channel, written[c].range)
    /\ trusted' = trusted \cup {written[c].channel}
    /\ written' = [written EXCEPT ![c] = NoSetup]
    /\ UNCHANGED <<st, ctxLock, ctxSeq, buffer, acq, sem, devSel, devRange>>

\* The transfer has failed or the echo is another: the device may have taken
\* the value or not.
SetupWriteFails(c) ==
    /\ pc[c] = "write"
    /\ \E ch \in Channels, r \in Ranges :
         /\ devRange' \in {devRange, [devRange EXCEPT ![ch] = r]}
         /\ trusted' = trusted \ {ch}
    /\ st' = [st EXCEPT ![c] = "err"] /\ pc' = [pc EXCEPT ![c] = "setupDone"]
    /\ UNCHANGED <<written, ctxLock, ctxSeq, buffer, acq, sem, devSel, range>>

\* adc_context_release: an asynchronous read that has begun keeps the lock.
Release(c) ==
    /\ pc[c] \in {"setupDone", "readDone"}
    /\ pc' = [pc EXCEPT ![c] = "idle"] /\ st' = [st EXCEPT ![c] = "ok"]
    /\ lock' = IF asynchronous /\ st[c] = "ok" THEN lock ELSE 1
    /\ UNCHANGED <<written, sync, asynchronous, status>>
    /\ UNCHANGED <<ctxSeq, buffer, acq, sem, device>>

-----------------------------------------------------------------------------
(* read and read_async.                                                    *)

ReadLock(c) ==
    /\ pc[c] = "idle" /\ lock = 1
    /\ lock' = 0 /\ asynchronous' \in Modes
    /\ pc' = [pc EXCEPT ![c] = "start"]
    /\ UNCHANGED <<st, written, sync, status, ctxSeq, buffer, acq, sem, device>>

SupportedOffByOne(r) == r.channels # {} /\ r.channels \subseteq 0 .. NumCh    \* mutant

\* The checks of ads868x_start_read on what is asked for ...
Supported(r) == r.channels # {} /\ r.channels \subseteq Channels

\* ... and on the size of the buffer.
BufferFits(r) == r.size >= Cardinality(r.channels) * (1 + r.extra)

ReadRefused(c) ==
    /\ pc[c] = "start"
    /\ \E r \in Requests : ~(Supported(r) /\ BufferFits(r))
    /\ st' = [st EXCEPT ![c] = "err"] /\ pc' = [pc EXCEPT ![c] = "readDone"]
    /\ UNCHANGED <<written, ctxLock, ctxSeq, buffer, acq, sem, device>>

\* adc_context_start_read: the first sampling begins at once, or with the
\* first expiry of the timer.
ReadStart(c) ==
    /\ pc[c] = "start"
    /\ \E r \in Requests : Supported(r) /\ BufferFits(r) /\ sequence' = r
    /\ index' = 0 /\ repeats' = 0
    /\ status' = "ok" /\ out' = <<>> /\ ptr' = 0
    /\ IF sequence'.timed
       THEN requested' = 0 /\ timerOn' = TRUE /\ UNCHANGED <<sem, repeatPtr>>
       ELSE sem' = 1 /\ repeatPtr' = 0 /\ UNCHANGED <<requested, timerOn>>
    /\ pc' = [pc EXCEPT ![c] = "wait"]
    /\ UNCHANGED <<st, written, lock, sync, asynchronous, acq, device>>

\* adc_context_wait_for_completion: an asynchronous read waits for nothing.
ReadWait(c) ==
    /\ pc[c] = "wait" /\ (asynchronous \/ sync = 1)
    /\ sync' = IF asynchronous THEN sync ELSE 0
    /\ st' = [st EXCEPT ![c] = IF asynchronous THEN "ok" ELSE status]
    /\ pc' = [pc EXCEPT ![c] = "readDone"]
    /\ UNCHANGED <<written, lock, asynchronous, status>>
    /\ UNCHANGED <<ctxSeq, buffer, acq, sem, device>>

-----------------------------------------------------------------------------
(* The interval timer and the acquisition thread.                          *)

\* adc_context_on_timer_expired: a sampling is started, or, if one is under
\* way, left for later and the caller told.
TimerExpired ==
    /\ timerOn /\ requested < MaxRequested
    /\ requested' = requested + 1
    /\ IF requested = 0
       THEN sem' = 1 /\ repeatPtr' = ptr /\ UNCHANGED status
       ELSE status' = "busy" /\ UNCHANGED <<sem, repeatPtr>>
    /\ UNCHANGED <<callers, lock, sync, asynchronous, sequence, index, timerOn,
                   repeats, out, ptr, acq, device>>

AcqTake ==
    /\ acqPc = "idle" /\ sem = 1 /\ sem' = 0
    /\ acqPc' = "first" /\ todo' = sequence.channels
    /\ UNCHANGED <<cur, callers, ctxLock, ctxSeq, buffer, device>>

Rest(S) == IF S = {} THEN "last" ELSE "next"

\* The first channel is selected; what the frame returns is of no use.
AcqFirst ==
    /\ acqPc = "first"
    /\ cur' = Lowest(todo) /\ todo' = todo \ {cur'} /\ devSel' = cur'
    /\ acqPc' = Rest(todo')
    /\ UNCHANGED <<callers, ctxLock, ctxSeq, buffer, sem, devRange, range, trusted>>

\* What the device returns, and whether the driver knows the sign of it.
Sample == [of |-> devSel, trusted |-> cur \in trusted,
           right |-> Unipolar(range[cur]) = Unipolar(devRange[devSel])]

Store == out' = Append(SubSeq(out, 1, ptr), Sample) /\ ptr' = ptr + 1

\* The next channel is selected while the result of the last one is collected.
AcqNext ==
    /\ acqPc = "next" /\ Store
    /\ cur' = Lowest(todo) /\ todo' = todo \ {cur'} /\ devSel' = cur'
    /\ acqPc' = Rest(todo')
    /\ UNCHANGED <<callers, ctxLock, ctxSeq, repeatPtr, sem, devRange, range, trusted>>

\* NO_OP collects the last result.
AcqLast ==
    /\ acqPc = "last" /\ Store
    /\ acqPc' = "done"
    /\ UNCHANGED <<todo, cur, callers, ctxLock, ctxSeq, repeatPtr, sem, device>>

\* A transfer fails, whether the device has seen it or not.
AcqTransferFails ==
    /\ acqPc \in {"first", "next", "last"} /\ acqPc' = "failed"
    /\ devSel' \in {devSel} \cup (IF todo = {} THEN {} ELSE {Lowest(todo)})
    /\ UNCHANGED <<todo, cur, callers, ctxLock, ctxSeq, buffer, sem, devRange, range, trusted>>

TriedAgain == sem' = 1 /\ UNCHANGED <<lock, sync, status>>    \* mutant
ReportedAsDone == Complete("ok") /\ UNCHANGED sem    \* mutant
Reported == Complete("err") /\ UNCHANGED sem

AcqFail ==
    /\ acqPc = "failed" /\ acqPc' = "idle"
    /\ timerOn' = FALSE /\ Reported
    /\ UNCHANGED <<todo, cur, callers, asynchronous, sequence, index, requested,
                   repeats, buffer, device>>

\* What the callback, if there is one, says of the sampling just done.
Verdicts == IF sequence.callback
            THEN {"continue", "finish"} \cup (IF repeats < MaxRepeats THEN {"repeat"} ELSE {})
            ELSE {"continue"}

NoRewind(again) == ptr    \* mutant

\* adc_context_update_buffer_pointer.
Rewound(again) == IF again THEN repeatPtr ELSE ptr

\* adc_context_on_sampling_done: the last sampling ...
AcqFinish ==
    /\ acqPc = "done" /\ acqPc' = "idle"
    /\ \E v \in Verdicts : v = "finish" \/ (v = "continue" /\ index >= sequence.extra)
    /\ timerOn' = FALSE /\ Complete("ok")
    /\ UNCHANGED <<todo, cur, callers, asynchronous, sequence, index, requested,
                   repeats, buffer, sem, device>>

\* ... or one of those before, or to be repeated: the next one starts at once
\* when there is no interval or the timer has expired meanwhile.
AcqGoOn ==
    /\ acqPc = "done" /\ acqPc' = "idle"
    /\ \E v \in Verdicts :
         /\ v # "finish" /\ (v = "continue" => index < sequence.extra)
         /\ index' = IF v = "continue" THEN index + 1 ELSE index
         /\ repeats' = IF v = "repeat" THEN repeats + 1 ELSE repeats
         /\ ptr' = Rewound(v = "repeat")
    /\ requested' = IF sequence.timed THEN requested - 1 ELSE requested
    /\ IF ~sequence.timed \/ requested > 1
       THEN sem' = 1 /\ repeatPtr' = ptr'
       ELSE UNCHANGED <<sem, repeatPtr>>
    /\ UNCHANGED <<todo, cur, callers, ctxLock, sequence, timerOn, out, device>>

-----------------------------------------------------------------------------
Setup(c) == SetupLock(c) \/ SetupWrite(c) \/ SetupRemember(c) \/ SetupWriteFails(c)
Read(c) == ReadLock(c) \/ ReadRefused(c) \/ ReadStart(c) \/ ReadWait(c)

Acquisition == AcqTake \/ AcqFirst \/ AcqNext \/ AcqLast \/ AcqTransferFails
               \/ AcqFail \/ AcqFinish \/ AcqGoOn

Next == \/ Acquisition \/ TimerExpired
        \/ \E c \in Callers : Setup(c) \/ Read(c) \/ Release(c)

\* The acquisition thread runs when it can, a timer that is started expires,
\* and a caller that is in the driver goes on.
Spec == /\ Init /\ [][Next]_vars
        /\ WF_vars(Acquisition) /\ WF_vars(TimerExpired)
        /\ \A c \in Callers : WF_vars(ReadWait(c) \/ Release(c))

-----------------------------------------------------------------------------
(* Properties.                                                             *)

Samples == [of : Channels, trusted : BOOLEAN, right : BOOLEAN]
Statuses == {"ok", "busy", "err"}

\* The types of the variables.
TypeOK ==
    /\ pc \in [Callers -> {"idle", "write", "written", "setupDone",
                        "start", "wait", "readDone"}]
    /\ st \in [Callers -> Statuses]
    /\ written \in [Callers -> [channel : Channels, range : Ranges \cup {0}]]
    /\ lock \in {0, 1} /\ sync \in {0, 1} /\ sem \in {0, 1}
    /\ asynchronous \in BOOLEAN /\ status \in Statuses
    /\ sequence \in Requests \cup {NoRequest} /\ sequence.channels \subseteq Channels
    /\ index \in 0 .. sequence.extra /\ requested \in 0 .. MaxRequested
    /\ timerOn \in BOOLEAN /\ repeats \in 0 .. MaxRepeats
    /\ out \in Seq(Samples) /\ ptr \in 0 .. Len(out) /\ repeatPtr \in Nat
    /\ range \in [Channels -> Ranges \cup {0}]
    /\ devRange \in [Channels -> Ranges \cup {0}]
    /\ devSel \in Channels /\ cur \in Channels /\ trusted \subseteq Channels
    /\ todo \subseteq Channels
    /\ acqPc \in {"idle", "first", "next", "last", "done", "failed"}

Reading == acqPc # "idle" \/ sem = 1 \/ timerOn

\* A range is changed, in the device and in the driver, only while nothing is
\* being read (adc_ads868x.c, line 170).
WriteOutOfRead == \A c \in Callers : pc[c] \in {"write", "written"} => ~Reading

\* The place of a channel in each sampling: they are read in order.
Place(c) == Cardinality({d \in sequence.channels : d < c})

\* Every sample in the buffer is of the channel its place says, sampling after
\* sampling, also after a repeated one, and none is past the buffer's end.
InPlace ==
    /\ Len(out) <= sequence.size
    /\ \A p \in 1 .. ptr : /\ out[p].of \in sequence.channels
                           /\ Place(out[p].of) = (p - 1) % Cardinality(sequence.channels)

\* A sample is given the sign of the range it was converted in, unless the
\* last set-up of its channel has failed.
DecodedRight == \A p \in 1 .. ptr : out[p].trusted => out[p].right

\* A read that does not report an error has left all its samplings in the
\* buffer, or those up to the one its callback finished with.
ReadIsWhole ==
    \A c \in Callers : pc[c] = "readDone" /\ st[c] # "err" /\ ~asynchronous =>
        /\ ptr = Cardinality(sequence.channels) * (index + 1)
        /\ ~sequence.callback => index = sequence.extra

\* A read that was not refused returns, whatever transfers fail.
ReadReturns == \A c \in Callers : (pc[c] = "wait") ~> (pc[c] = "readDone")
=============================================================================
