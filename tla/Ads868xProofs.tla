--------------------------- MODULE Ads868xProofs ---------------------------
(***************************************************************************)
(* Proofs about Ads868x: types, the exclusion of set-ups and reads, the    *)
(* sign and the place of the samples, and what a caller may rely on.       *)
(*                                                                         *)
(* They hold of a driver built without CONFIG_ADC_ASYNC, whoever calls it, *)
(* and of one built with it that a single thread uses (AsyncAlone); the    *)
(* run ads868x_async shows that two threads and read_async are too many.   *)
(***************************************************************************)
EXTENDS Ads868x, WellFoundedInduction, FiniteSetTheorems, TLAPS

\* Reads are asynchronous only where one thread uses the device.
AsyncAlone == Modes = {FALSE} \/ \A c, d \in Callers : c = d

Inside(c) == pc[c] # "idle"

\* A caller that has begun an asynchronous read and is on its way out.
Leaving(c) == asynchronous /\ pc[c] \in {"wait", "readDone"}

\* The lock is given to one caller at a time, and is free only when nothing is
\* read.  While something is read the caller waits, or leaves an asynchronous
\* read behind without an error, for otherwise it would give the lock away;
\* sync is given when a read that is waited for is over.
LockInv ==
    /\ Modes = {FALSE} => ~asynchronous
    /\ lock = 1 => ~Reading /\ \A c \in Callers : Inside(c) => Leaving(c)
    /\ \A c, d \in Callers : Inside(c) /\ Inside(d) => c = d
    /\ Reading => /\ sync = 0
                  /\ \A c \in Callers : Inside(c) => pc[c] = "wait" \/ Leaving(c)
                  /\ \A c \in Callers : pc[c] = "readDone" => st[c] = "ok"
                  /\ ~asynchronous => \E c \in Callers : pc[c] = "wait"
    /\ sync = 1 => ~asynchronous /\ \E c \in Callers : pc[c] = "wait"

\* One sampling at a time: none is asked for while one is under way, and with
\* an interval the expiries not served count the one under way.
SamplingInv ==
    /\ acqPc # "idle" => sem = 0
    /\ timerOn => sequence.timed
    /\ timerOn /\ requested = 0 => acqPc = "idle" /\ sem = 0
    /\ (acqPc # "idle" \/ sem = 1) /\ sequence.timed => timerOn /\ requested > 0
    /\ acqPc # "idle" \/ sem = 1 => repeatPtr <= ptr

\* The thread takes the channels of the sequence one by one: there is one to
\* take when it takes one.
TodoInv ==
    /\ sequence.channels # {}
    /\ acqPc \in {"first", "next"} => todo # {}

\* The result of a frame is of the channel the driver stores it for.
SelectedInv == acqPc \in {"next", "last"} => devSel = cur

\* Outside a set-up the driver knows the range of every trusted channel.
RangesInv ==
    \A ch \in trusted :
        range[ch] # devRange[ch] =>
            \E c \in Callers : pc[c] = "written" /\ written[c].channel = ch
WrittenInv ==
    \A c \in Callers : pc[c] = "written" =>
        devRange[written[c].channel] = written[c].range

IInv == /\ TypeOK /\ LockInv /\ SamplingInv /\ TodoInv
        /\ SelectedInv /\ RangesInv /\ WrittenInv /\ DecodedRight

-----------------------------------------------------------------------------
(* The smallest member of a set, and the groups of variables.              *)

\* A set of numbers that is not empty has a smallest member.
LEMMA LowestFact ==
    ASSUME NEW S \in SUBSET Nat, S # {}
    PROVE  Lowest(S) \in S /\ \A d \in S : Lowest(S) <= d
<1>1. \E x \in S : \A y \in S : ~(<<y, x>> \in OpToRel(<, Nat))
  BY NatLessThanWellFounded, WFMin, Zenon
<1>2. PICK x \in S : \A y \in S : ~(y < x)
  <2>1. ASSUME NEW x \in S, NEW y \in S, y < x
        PROVE  <<y, x>> \in OpToRel(<, Nat)
    BY <2>1, Zenon DEF OpToRel
  <2> QED  BY <1>1, <2>1, Zenon
<1>3. \E c \in S : \A d \in S : c <= d
  BY <1>2
<1> QED  BY <1>3 DEF Lowest

\* What a thread that selects a channel takes is a channel.
LEMMA LowestChannel ==
    ASSUME TypeOK, todo # {}
    PROVE  Lowest(todo) \in Channels
<1>1. todo \in SUBSET Nat
  BY DeviceAssumption DEF TypeOK, Channels
<1> QED  BY <1>1, LowestFact DEF TypeOK

LEMMA NoRequestFact ==
    /\ NoRequest.channels = {0} /\ NoRequest.extra = 0 /\ NoRequest.timed = FALSE
    /\ NoRequest.size = 1 /\ NoRequest.callback = FALSE
    /\ 0 \in Channels
BY DeviceAssumption DEF NoRequest, Channels

\* A sequence the driver accepts.
LEMMA RequestFact ==
    ASSUME NEW r \in Requests \cup {NoRequest}
    PROVE  r.extra \in Nat /\ r.timed \in BOOLEAN /\ r.callback \in BOOLEAN
<1>1. CASE r \in Requests
  BY <1>1, DeviceAssumption
<1>2. CASE r = NoRequest
  BY <1>2 DEF NoRequest
<1> QED  BY <1>1, <1>2

-----------------------------------------------------------------------------
(* Types.                                                                  *)

LEMMA TypeInit == Init => TypeOK
<1> SUFFICES ASSUME Init PROVE TypeOK
  OBVIOUS
<1>1. 0 \in Channels /\ NoSetup \in [channel : Channels, range : Ranges \cup {0}]
  BY NoRequestFact DEF NoSetup
<1>2. out \in Seq(Samples) /\ Len(out) = 0
  BY DEF Init
<1>3. /\ sequence \in Requests \cup {NoRequest} /\ sequence.channels \subseteq Channels
      /\ index \in 0 .. sequence.extra
  BY NoRequestFact DEF Init
<1>4. requested \in 0 .. MaxRequested /\ repeats \in 0 .. MaxRepeats
  BY DeviceAssumption DEF Init
<1>5. /\ pc \in [Callers -> {"idle"}] /\ st \in [Callers -> {"ok"}]
      /\ written \in [Callers -> [channel : Channels, range : Ranges \cup {0}]]
      /\ range \in [Channels -> {0}] /\ devRange \in [Channels -> {0}]
  BY <1>1 DEF Init
<1>a. asynchronous \in BOOLEAN /\ timerOn \in BOOLEAN
  BY Zenon DEF Init
<1>6. /\ status \in Statuses
      /\ lock \in {0, 1} /\ sync \in {0, 1} /\ sem \in {0, 1}
      /\ ptr \in 0 .. Len(out) /\ repeatPtr \in Nat
      /\ devSel \in Channels /\ cur \in Channels /\ trusted \subseteq Channels
      /\ todo \subseteq Channels /\ acqPc = "idle"
  BY <1>1, <1>2 DEF Init, Statuses
<1>7. /\ pc \in [Callers -> {"idle", "write", "written", "setupDone",
                             "start", "wait", "readDone"}]
      /\ st \in [Callers -> Statuses]
      /\ range \in [Channels -> Ranges \cup {0}]
      /\ devRange \in [Channels -> Ranges \cup {0}]
  BY <1>5 DEF Statuses
<1> QED  BY <1>2, <1>3, <1>4, <1>5, <1>6, <1>7, <1>a DEF TypeOK

\* The steps of the callers.
LEMMA SetupTypes ==
    ASSUME TypeOK, NEW c \in Callers, Setup(c) \/ Release(c)
    PROVE  TypeOK'
<1>1. CASE SetupLock(c)
  BY <1>1 DEF SetupLock, TypeOK, ctxSeq, buffer, acq, device
<1>2. CASE SetupWrite(c)
  BY <1>2 DEF SetupWrite, TypeOK, ctxLock, ctxSeq, buffer, acq
<1>3. CASE SetupRemember(c)
  <2>1. NoSetup \in [channel : Channels, range : Ranges \cup {0}]
    BY NoRequestFact DEF NoSetup
  <2>2. /\ range' \in [Channels -> Ranges \cup {0}] /\ trusted' \subseteq Channels
        /\ written' \in [Callers -> [channel : Channels, range : Ranges \cup {0}]]
    BY <1>3, <2>1 DEF SetupRemember, Remembered, TypeOK
  <2> QED  BY <1>3, <2>2 DEF SetupRemember, TypeOK, ctxLock, ctxSeq, buffer, acq
<1>4. CASE SetupWriteFails(c)
  BY <1>4 DEF SetupWriteFails, TypeOK, Statuses, ctxLock, ctxSeq, buffer, acq
<1>5. CASE Release(c)
  BY <1>5 DEF Release, TypeOK, Statuses, ctxSeq, buffer, acq, device
<1> QED  BY <1>1, <1>2, <1>3, <1>4, <1>5 DEF Setup

LEMMA ReadTypes ==
    ASSUME TypeOK, NEW c \in Callers, Read(c)
    PROVE  TypeOK'
<1>1. CASE ReadLock(c)
  BY <1>1, DeviceAssumption DEF ReadLock, TypeOK, ctxSeq, buffer, acq, device
<1>2. CASE ReadRefused(c)
  BY <1>2 DEF ReadRefused, TypeOK, Statuses, ctxLock, ctxSeq, buffer, acq, device
<1>3. CASE ReadStart(c)
  <2>1. /\ sequence' \in Requests \cup {NoRequest} /\ sequence'.channels \subseteq Channels
        /\ index' \in 0 .. sequence'.extra
    BY <1>3, RequestFact DEF ReadStart, Supported
  <2>0. 0 \in 0 .. MaxRequested /\ 0 \in 0 .. MaxRepeats
    BY DeviceAssumption
  <2>2. /\ requested' \in 0 .. MaxRequested /\ repeats' \in 0 .. MaxRepeats
        /\ sem' \in {0, 1} /\ repeatPtr' \in Nat
    BY <1>3, <2>0 DEF ReadStart, TypeOK
  <2>4. timerOn' \in BOOLEAN
    BY <1>3, Zenon DEF ReadStart, TypeOK
  <2>3. out' \in Seq(Samples) /\ ptr' \in 0 .. Len(out')
    BY <1>3 DEF ReadStart
  <2> QED  BY <1>3, <2>1, <2>2, <2>3, <2>4 DEF ReadStart, TypeOK, Statuses, acq, device
<1>4. CASE ReadWait(c)
  BY <1>4 DEF ReadWait, TypeOK, Statuses, ctxSeq, buffer, acq, device
<1> QED  BY <1>1, <1>2, <1>3, <1>4 DEF Read

LEMMA CompleteTypes ==
    ASSUME TypeOK, NEW s \in Statuses, Complete(s)
    PROVE  lock' \in {0, 1} /\ sync' \in {0, 1} /\ status' \in Statuses
BY DEF Complete, TypeOK

LEMMA StoreTypes ==
    ASSUME TypeOK, Store
    PROVE  /\ out' \in Seq(Samples) /\ ptr' \in 0 .. Len(out')
           /\ Len(out') = ptr + 1 /\ ptr' = ptr + 1
           /\ \A p \in 1 .. ptr : out'[p] = out[p]
           /\ out'[ptr + 1] = Sample
<1> DEFINE q == SubSeq(out, 1, ptr)
<1>1. Sample \in Samples
  BY DEF Sample, Samples, TypeOK
<1>2. /\ q \in Seq(Samples) /\ Len(q) = ptr /\ ptr \in Nat
      /\ \A p \in 1 .. ptr : q[p] = out[p]
  BY DEF TypeOK
<1> HIDE DEF q
<1>3. out' = Append(q, Sample) /\ ptr' = ptr + 1
  BY DEF Store, q
<1> QED  BY <1>1, <1>2, <1>3

LEMMA AcqTypes ==
    ASSUME TypeOK, SamplingInv, TodoInv, Acquisition
    PROVE  TypeOK'
<1>1. CASE AcqTake
  BY <1>1 DEF AcqTake, TypeOK, callers, ctxLock, ctxSeq, buffer, device
<1>2. CASE AcqFirst \/ AcqNext
  <2>1. /\ cur' \in Channels /\ devSel' \in Channels /\ todo' \subseteq Channels
        /\ acqPc' \in {"next", "last"}
    BY <1>2, LowestChannel DEF AcqFirst, AcqNext, Rest, TodoInv, TypeOK
  <2>2. out' \in Seq(Samples) /\ ptr' \in 0 .. Len(out') /\ repeatPtr' \in Nat
    BY <1>2, StoreTypes DEF AcqFirst, AcqNext, TypeOK, buffer
  <2> QED  BY <1>2, <2>1, <2>2
              DEF AcqFirst, AcqNext, TypeOK, callers, ctxLock, ctxSeq
<1>3. CASE AcqLast
  BY <1>3, StoreTypes DEF AcqLast, TypeOK, callers, ctxLock, ctxSeq, device
<1>4. CASE AcqTransferFails
  <2>1. devSel' \in Channels
    BY <1>4, LowestChannel DEF AcqTransferFails, TypeOK
  <2> QED  BY <1>4, <2>1 DEF AcqTransferFails, TypeOK, callers, ctxLock, ctxSeq, buffer
<1>5. CASE AcqFail
  <2>1. lock' \in {0, 1} /\ sync' \in {0, 1} /\ status' \in Statuses
    BY <1>5, CompleteTypes DEF AcqFail, Reported, Statuses
  <2> QED  BY <1>5, <2>1 DEF AcqFail, Reported, TypeOK, callers, buffer, device
<1>6. CASE AcqFinish
  <2>1. lock' \in {0, 1} /\ sync' \in {0, 1} /\ status' \in Statuses
    BY <1>6, CompleteTypes DEF AcqFinish, Statuses
  <2> QED  BY <1>6, <2>1 DEF AcqFinish, TypeOK, callers, buffer, device
<1>7. CASE AcqGoOn
  <2> DEFINE E == sequence.extra
  <2>0. E \in Nat /\ index \in 0 .. E
    BY RequestFact DEF TypeOK
  <2>1. index' \in 0 .. E
    <3>1. index' = index \/ (index < E /\ index' = index + 1)
      BY <1>7 DEF AcqGoOn
    <3> HIDE DEF E
    <3> QED  BY <2>0, <3>1
  <2>2. repeats' \in 0 .. MaxRepeats
    BY <1>7, DeviceAssumption DEF AcqGoOn, Verdicts, TypeOK
  <2>3. requested' \in 0 .. MaxRequested
    BY <1>7, DeviceAssumption DEF AcqGoOn, SamplingInv, TypeOK
  <2>4. ptr' \in 0 .. Len(out) /\ repeatPtr' \in Nat /\ sem' \in {0, 1}
    <3>1. repeatPtr \in 0 .. Len(out)
      BY <1>7 DEF AcqGoOn, SamplingInv, TypeOK
    <3>2. ptr' \in 0 .. Len(out)
      BY <1>7, <3>1 DEF AcqGoOn, Rewound, TypeOK
    <3> QED  BY <1>7, <3>2 DEF AcqGoOn, TypeOK
  <2> QED  BY <1>7, <2>1, <2>2, <2>3, <2>4 DEF AcqGoOn, TypeOK, callers, ctxLock, device
<1> QED  BY <1>1, <1>2, <1>3, <1>4, <1>5, <1>6, <1>7 DEF Acquisition

LEMMA TimerTypes ==
    ASSUME TypeOK, TimerExpired
    PROVE  TypeOK'
<1>1. requested' \in 0 .. MaxRequested /\ sem' \in {0, 1} /\ repeatPtr' \in Nat
  BY DeviceAssumption DEF TimerExpired, TypeOK
<1> QED  BY <1>1 DEF TimerExpired, TypeOK, Statuses, callers, acq, device

LEMMA TypeStep ==
    ASSUME TypeOK, SamplingInv, TodoInv, [Next]_vars
    PROVE  TypeOK'
<1>1. CASE Acquisition
  BY <1>1, AcqTypes
<1>2. CASE TimerExpired
  BY <1>2, TimerTypes
<1>3. CASE \E c \in Callers : Setup(c) \/ Read(c) \/ Release(c)
  BY <1>3, SetupTypes, ReadTypes
<1>4. CASE UNCHANGED vars
  BY <1>4 DEF vars, callers, ctxLock, ctxSeq, buffer, acq, device, TypeOK
<1> QED  BY <1>1, <1>2, <1>3, <1>4 DEF Next

-----------------------------------------------------------------------------
(* One sampling at a time.                                                 *)

LEMMA SamplingInit == Init => SamplingInv /\ TodoInv
<1> SUFFICES ASSUME Init PROVE SamplingInv /\ TodoInv
  OBVIOUS
<1>1. acqPc = "idle" /\ sem = 0 /\ ~timerOn /\ sequence.channels # {}
  BY NoRequestFact DEF Init
<1> QED  BY <1>1 DEF SamplingInv, TodoInv

\* A read starts from nothing under way, for only the caller with the lock
\* starts one.
LEMMA StartAlone ==
    ASSUME LockInv, NEW c \in Callers, Inside(c), pc[c] \notin {"wait", "readDone"}
    PROVE  ~Reading /\ sync # 1 /\ lock # 1
BY DEF LockInv, Inside, Leaving

LEMMA SamplingStep ==
    ASSUME TypeOK, LockInv, SamplingInv, TodoInv, [Next]_vars
    PROVE  SamplingInv' /\ TodoInv'
<1>1. CASE AcqTake
  BY <1>1 DEF AcqTake, SamplingInv, TodoInv, ctxSeq, buffer
<1>2. CASE AcqFirst \/ AcqNext \/ AcqLast
  <2>1. ptr' \in Int /\ ptr \in Int /\ repeatPtr \in Int /\ ptr' >= ptr
    BY <1>2 DEF AcqFirst, AcqNext, AcqLast, Store, buffer, TypeOK
  <2> QED  BY <1>2, <2>1
           DEF AcqFirst, AcqNext, AcqLast, Rest, SamplingInv, TodoInv, ctxSeq, buffer
<1>3. CASE AcqTransferFails
  BY <1>3 DEF AcqTransferFails, SamplingInv, TodoInv, ctxSeq, buffer
<1>4. CASE AcqFail \/ AcqFinish
  <2>1. acqPc' = "idle" /\ sem' = 0 /\ timerOn' = FALSE /\ sequence' = sequence
    BY <1>4 DEF AcqFail, AcqFinish, Reported, SamplingInv
  <2> QED  BY <2>1 DEF SamplingInv, TodoInv
<1>5. CASE AcqGoOn
  <2>1. sem = 0 /\ acqPc' = "idle" /\ sequence' = sequence /\ timerOn' = timerOn
    BY <1>5 DEF AcqGoOn, SamplingInv
  <2>2. requested \in Nat /\ ptr' \in Int /\ (sequence.timed => timerOn /\ requested > 0)
    BY <1>5 DEF AcqGoOn, Rewound, SamplingInv, TypeOK
  <2>3. CASE ~sequence.timed
    <3>1. sem' = 1 /\ repeatPtr' = ptr' /\ ~timerOn'
      BY <1>5, <2>1, <2>3 DEF AcqGoOn, SamplingInv
    <3> QED  BY <2>1, <2>2, <2>3, <3>1 DEF SamplingInv, TodoInv
  <2>4. CASE sequence.timed /\ requested > 1
    <3>1. requested' = requested - 1 /\ sem' = 1 /\ repeatPtr' = ptr'
      BY <1>5, <2>4 DEF AcqGoOn
    <3>2. requested' > 0
      BY <2>2, <2>4, <3>1
    <3> QED  BY <2>1, <2>2, <2>4, <3>1, <3>2 DEF SamplingInv, TodoInv
  <2>5. CASE sequence.timed /\ ~(requested > 1)
    <3>1. requested' = requested - 1 /\ sem' = 0
      BY <1>5, <2>1, <2>5 DEF AcqGoOn
    <3> QED  BY <2>1, <2>2, <2>5, <3>1 DEF SamplingInv, TodoInv
  <2> QED  BY <2>3, <2>4, <2>5
<1>6. CASE TimerExpired
  <2>1. requested \in Nat /\ requested' = requested + 1 /\ ptr \in Int
    BY <1>6 DEF TimerExpired, TypeOK
  <2> QED  BY <1>6, <2>1 DEF TimerExpired, SamplingInv, TodoInv, acq
<1>7. ASSUME NEW c \in Callers, Setup(c) \/ Release(c) \/ ReadLock(c)
                                \/ ReadRefused(c) \/ ReadWait(c)
      PROVE  SamplingInv' /\ TodoInv'
  BY <1>7 DEF Setup, SetupLock, SetupWrite, SetupRemember, SetupWriteFails, Release,
              ReadLock, ReadRefused, ReadWait, SamplingInv, TodoInv, ctxSeq, buffer, acq
<1>8. ASSUME NEW c \in Callers, ReadStart(c)
      PROVE  SamplingInv' /\ TodoInv'
  <2>1. acqPc = "idle" /\ sem = 0 /\ ~timerOn
    BY <1>8, StartAlone DEF ReadStart, Reading, Inside, TypeOK
  <2>2. acqPc' = "idle" /\ sequence'.channels # {} /\ ptr' = 0
    BY <1>8, <2>1 DEF ReadStart, Supported, acq
  <2>3. CASE sequence'.timed
    BY <1>8, <2>1, <2>2, <2>3 DEF ReadStart, SamplingInv, TodoInv
  <2>4. CASE ~sequence'.timed
    BY <1>8, <2>1, <2>2, <2>4 DEF ReadStart, SamplingInv, TodoInv
  <2> QED  BY <2>3, <2>4
<1>9. CASE UNCHANGED vars
  BY <1>9 DEF vars, ctxSeq, buffer, acq, SamplingInv, TodoInv
<1> QED  BY <1>1, <1>2, <1>3, <1>4, <1>5, <1>6, <1>7, <1>8, <1>9
         DEF Next, Acquisition, Read

-----------------------------------------------------------------------------
(* The lock.                                                               *)

LEMMA LockInit == Init => LockInv
<1> SUFFICES ASSUME Init PROVE LockInv
  OBVIOUS
<1>1. /\ \A c \in Callers : pc[c] = "idle"
      /\ ~Reading /\ sync # 1
  BY DEF Init, Reading
<1>2. ~asynchronous
  BY DEF Init
<1> QED  BY <1>1, <1>2, Zenon DEF LockInv, Inside

\* Whoever comes for the lock and finds it free finds nobody inside.
LEMMA NobodyInside ==
    ASSUME AsyncAlone, LockInv, lock = 1, NEW c \in Callers, ~Inside(c)
    PROVE  \A d \in Callers : ~Inside(d)
BY DEF AsyncAlone, LockInv, Leaving

LEMMA LockTaken ==
    ASSUME AsyncAlone, TypeOK, LockInv, NEW c \in Callers, SetupLock(c) \/ ReadLock(c)
    PROVE  LockInv'
<1>0. lock = 1 /\ ~Inside(c)
  BY DEF SetupLock, SetupGuard, ReadLock, Inside
<1>1. /\ \A d \in Callers : ~Inside(d) /\ (d # c => pc'[d] = pc[d])
      /\ pc'[c] \in {"write", "start"}
      /\ lock' # 1 /\ sync' = sync
  BY <1>0, NobodyInside DEF SetupLock, ReadLock, TypeOK
<1>2. Modes = {FALSE} => ~asynchronous'
  BY DEF SetupLock, ReadLock
<1>3. ~Reading /\ sync # 1
  BY <1>0, <1>1 DEF LockInv, Inside
<1>4. ~Reading'
  <2>1. UNCHANGED <<acqPc, sem, timerOn>>
    BY DEF SetupLock, ReadLock, ctxSeq, acq
  <2> QED  BY <1>3, <2>1, Zenon DEF Reading
<1>5. \A d, e \in Callers : Inside(d)' /\ Inside(e)' => d = e
  BY <1>1 DEF Inside
<1> QED  BY <1>1, <1>2, <1>3, <1>4, <1>5, Zenon DEF LockInv

\* The caller with the lock goes on, still inside and not yet reading.
LEMMA LockKept ==
    ASSUME TypeOK, LockInv, NEW c \in Callers,
           \/ SetupWrite(c) \/ SetupRemember(c) \/ SetupWriteFails(c)
           \/ ReadRefused(c)
    PROVE  LockInv'
<1>1. /\ \A d \in Callers : d # c => pc'[d] = pc[d]
      /\ Inside(c) /\ pc[c] \notin {"wait", "readDone"}
      /\ pc'[c] \in {"written", "setupDone", "readDone"}
      /\ lock' = lock /\ sync' = sync /\ asynchronous' = asynchronous
  BY DEF SetupWrite, SetupRemember, SetupWriteFails, ReadRefused, Inside, TypeOK, ctxLock
<1>2. Reading' = Reading
  <2>1. UNCHANGED <<acqPc, sem, timerOn>>
    BY DEF SetupWrite, SetupRemember, SetupWriteFails, ReadRefused, ctxSeq, acq
  <2> QED  BY <2>1, Zenon DEF Reading
<1>3. ~Reading /\ sync # 1 /\ lock # 1
  BY <1>1, StartAlone
<1>4. \A d \in Callers : Inside(d)' <=> Inside(d)
  BY <1>1 DEF Inside
<1> QED  BY <1>1, <1>2, <1>3, <1>4 DEF LockInv

\* The caller begins a read, waits for its end or does not, and leaves.
LEMMA LockRead ==
    ASSUME TypeOK, LockInv, NEW c \in Callers, ReadStart(c) \/ ReadWait(c) \/ Release(c)
    PROVE  LockInv'
<1>0. /\ \A d \in Callers : d # c => pc'[d] = pc[d] /\ st'[d] = st[d]
      /\ Inside(c) /\ asynchronous' = asynchronous
      /\ \A d \in Callers : d # c => pc[d] = "idle"
  BY DEF ReadStart, ReadWait, Release, LockInv, Inside, TypeOK
<1>1. CASE ReadStart(c)
  <2>1. /\ pc[c] \notin {"wait", "readDone"} /\ pc'[c] = "wait"
        /\ lock' = lock /\ sync' = sync
    BY <1>1 DEF ReadStart, TypeOK
  <2>2. sync = 0 /\ lock # 1
    BY <1>0, <2>1, StartAlone DEF TypeOK
  <2> QED  BY <1>0, <2>1, <2>2 DEF LockInv, Inside
<1>2. CASE ReadWait(c)
  <2>1. /\ pc[c] = "wait" /\ pc'[c] = "readDone" /\ lock' = lock
        /\ asynchronous \/ sync = 1
        /\ sync' = IF asynchronous THEN sync ELSE 0
        /\ asynchronous => st'[c] = "ok"
    BY <1>2 DEF ReadWait, TypeOK
  <2>2. Reading' = Reading
    BY <1>2 DEF ReadWait, Reading, ctxSeq, acq
  <2>3. asynchronous => sync = 0
    BY DEF LockInv, TypeOK
  <2>4. ~asynchronous => ~Reading /\ lock # 1
    BY <1>0, <2>1 DEF LockInv, Leaving
  <2>5. sync' # 1
    BY <2>1, <2>3
  <2>6. \A d \in Callers : Inside(d)' => d = c
    BY <1>0, <2>1 DEF Inside
  <2>7. lock' = 1 => ~Reading' /\ asynchronous'
    BY <1>0, <2>1, <2>2, <2>4 DEF LockInv
  <2>8. Reading' => /\ sync' = 0 /\ asynchronous' /\ st'[c] = "ok"
    BY <1>0, <2>1, <2>2, <2>3, <2>4
  <2>9. Modes = {FALSE} => ~asynchronous'
    BY <1>0 DEF LockInv
  <2> QED  BY <2>1, <2>5, <2>6, <2>7, <2>8, <2>9 DEF LockInv, Inside, Leaving
<1>3. CASE Release(c)
  <2>1. /\ pc[c] \in {"setupDone", "readDone"} /\ pc'[c] = "idle" /\ sync' = sync
        /\ lock' = IF asynchronous /\ st[c] = "ok" THEN lock ELSE 1
    BY <1>3 DEF Release, TypeOK
  <2>2. Reading' = Reading
    BY <1>3 DEF Release, Reading, ctxSeq, acq
  <2>3. sync # 1 /\ (Reading => asynchronous /\ st[c] = "ok")
    BY <1>0, <2>1 DEF LockInv, Leaving, Inside
  <2>4. \A d \in Callers : pc'[d] = "idle"
    BY <1>0, <2>1
  <2> QED  BY <1>0, <2>1, <2>2, <2>3, <2>4 DEF LockInv, Inside, Leaving
<1> QED  BY <1>1, <1>2, <1>3

\* The thread and the timer.
LEMMA LockAcq ==
    ASSUME TypeOK, LockInv, SamplingInv, Acquisition \/ TimerExpired
    PROVE  LockInv'
<1>1. CASE AcqTake \/ AcqFirst \/ AcqNext \/ AcqLast \/ AcqTransferFails \/ AcqGoOn
           \/ TimerExpired
  <2>1. /\ UNCHANGED <<pc, st, lock, sync, asynchronous>> /\ Reading
    BY <1>1 DEF AcqTake, AcqFirst, AcqNext, AcqLast, AcqTransferFails, AcqGoOn,
                TimerExpired, callers, ctxLock, Reading
  <2> QED  BY <2>1 DEF LockInv, Inside, Leaving
<1>2. CASE AcqFail \/ AcqFinish
  <2>1. UNCHANGED <<pc, st, asynchronous>> /\ Reading
    BY <1>2 DEF AcqFail, AcqFinish, callers, Reading
  <2>2. \/ asynchronous /\ lock' = 1 /\ sync' = sync
        \/ ~asynchronous /\ lock' = lock /\ sync' = 1
    BY <1>2 DEF AcqFail, AcqFinish, Reported, Complete
  <2>3. ~Reading'
    <3>1. acqPc' = "idle" /\ sem' = 0
      BY <1>2 DEF AcqFail, AcqFinish, Reported, SamplingInv
    <3>2. ~timerOn'
      BY <1>2 DEF AcqFail, AcqFinish
    <3> QED  BY <3>1, <3>2 DEF Reading
  <2>4. \A c \in Callers : Inside(c) /\ asynchronous => Leaving(c)
    BY <2>1 DEF LockInv, Leaving
  <2> QED  BY <2>1, <2>2, <2>3, <2>4 DEF LockInv, Inside, Leaving
<1> QED  BY <1>1, <1>2 DEF Acquisition

LEMMA LockStep ==
    ASSUME AsyncAlone, TypeOK, LockInv, SamplingInv, [Next]_vars
    PROVE  LockInv'
<1>1. ASSUME NEW c \in Callers, Setup(c) \/ Read(c) \/ Release(c)
      PROVE  LockInv'
  BY <1>1, LockTaken, LockKept, LockRead DEF Setup, Read
<1>2. CASE UNCHANGED vars
  BY <1>2 DEF vars, callers, ctxLock, ctxSeq, acq, LockInv, Inside, Leaving, Reading
<1> QED  BY <1>1, <1>2, LockAcq DEF Next

\* No caller is setting up a channel while a read is under way.
LEMMA Exclusion == ASSUME LockInv PROVE WriteOutOfRead
BY DEF LockInv, WriteOutOfRead, Inside, Leaving

-----------------------------------------------------------------------------
(* Ranges and samples.                                                     *)

RangeInv == SelectedInv /\ RangesInv /\ WrittenInv /\ DecodedRight

LEMMA RangeInit == Init => RangeInv
<1> SUFFICES ASSUME Init PROVE RangeInv
  OBVIOUS
<1>1. /\ \A ch \in Channels : range[ch] = devRange[ch]
      /\ trusted = Channels /\ acqPc = "idle" /\ ptr = 0
      /\ \A c \in Callers : pc[c] = "idle"
  BY DEF Init
<1> QED  BY <1>1 DEF RangeInv, SelectedInv, RangesInv, WrittenInv, DecodedRight

LEMMA SetupRanges ==
    ASSUME TypeOK, LockInv, RangeInv, NEW c \in Callers, Setup(c) \/ Release(c)
    PROVE  RangeInv'
<1>1. SelectedInv' /\ DecodedRight'
  BY DEF Setup, SetupLock, SetupWrite, SetupRemember, SetupWriteFails, Release,
         RangeInv, SelectedInv, DecodedRight, acq, device, buffer
<1>2. /\ Inside(c)' \/ pc'[c] = "idle"
      /\ \A d \in Callers : d # c => pc'[d] = pc[d] /\ written'[d] = written[d]
  BY DEF Setup, SetupLock, SetupWrite, SetupRemember, SetupWriteFails, Release, Inside, TypeOK
<1>3. \A d \in Callers : d # c => pc[d] # "written"
  BY DEF Setup, SetupLock, SetupGuard, SetupWrite, SetupRemember, SetupWriteFails,
         Release, LockInv, Inside, Leaving
<1>4. CASE SetupLock(c) \/ Release(c)
  <2>1. pc[c] # "written" /\ pc'[c] # "written"
    BY <1>4 DEF SetupLock, Release, TypeOK
  <2>2. UNCHANGED device
    BY <1>4 DEF SetupLock, Release
  <2> QED  BY <1>1, <1>2, <1>3, <2>1, <2>2 DEF RangeInv, RangesInv, WrittenInv, device
<1>5. CASE SetupWrite(c)
  <2>1. PICK ch \in Channels, r \in Ranges :
            /\ devRange' = [devRange EXCEPT ![ch] = r]
            /\ written' = [written EXCEPT ![c] = [channel |-> ch, range |-> r]]
    BY <1>5 DEF SetupWrite
  <2>2. /\ pc[c] = "write" /\ pc'[c] = "written" /\ range' = range /\ trusted' = trusted
        /\ written'[c].channel = ch /\ written'[c].range = r
        /\ devRange'[ch] = r /\ \A e \in Channels : e # ch => devRange'[e] = devRange[e]
    BY <1>5, <2>1 DEF SetupWrite, TypeOK
  <2>3. \A e \in trusted : range[e] = devRange[e]
    BY <1>3, <2>2 DEF RangeInv, RangesInv
  <2>4. RangesInv'
    BY <2>2, <2>3 DEF RangesInv, TypeOK
  <2>5. WrittenInv'
    BY <1>2, <1>3, <2>2 DEF WrittenInv
  <2> QED  BY <1>1, <2>4, <2>5 DEF RangeInv
<1>6. CASE SetupRemember(c)
  <2> DEFINE ch == written[c].channel
  <2>1. /\ pc[c] = "written" /\ pc'[c] = "setupDone" /\ devRange' = devRange
        /\ ch \in Channels /\ range' = [range EXCEPT ![ch] = written[c].range]
        /\ trusted' = trusted \cup {ch}
    BY <1>6 DEF SetupRemember, Remembered, TypeOK
  <2>2. range'[ch] = devRange[ch]
    BY <2>1 DEF RangeInv, WrittenInv, TypeOK
  <2>3. \A e \in trusted : e # ch => range'[e] = range[e] /\ range[e] = devRange[e]
    BY <1>3, <2>1 DEF RangeInv, RangesInv, TypeOK
  <2>4. RangesInv'
    BY <2>1, <2>2, <2>3 DEF RangesInv
  <2>5. WrittenInv'
    BY <1>2, <1>3, <2>1 DEF WrittenInv
  <2> QED  BY <1>1, <2>4, <2>5 DEF RangeInv
<1>7. CASE SetupWriteFails(c)
  <2>1. PICK ch \in Channels, r \in Ranges :
            /\ devRange' \in {devRange, [devRange EXCEPT ![ch] = r]}
            /\ trusted' = trusted \ {ch}
    BY <1>7 DEF SetupWriteFails
  <2>2. /\ pc[c] = "write" /\ pc'[c] = "setupDone" /\ range' = range
        /\ \A e \in Channels : e # ch => devRange'[e] = devRange[e]
    BY <1>7, <2>1 DEF SetupWriteFails, TypeOK
  <2>3. \A e \in trusted : range[e] = devRange[e]
    BY <1>3, <2>2 DEF RangeInv, RangesInv
  <2>4. RangesInv'
    BY <2>1, <2>2, <2>3 DEF RangesInv, TypeOK
  <2>5. WrittenInv'
    BY <1>2, <1>3, <2>2 DEF WrittenInv
  <2> QED  BY <1>1, <2>4, <2>5 DEF RangeInv
<1> QED  BY <1>4, <1>5, <1>6, <1>7 DEF Setup

\* Reads and the thread leave the ranges alone, and no set-up is under way
\* when a sample is taken.
LEMMA ReadRanges ==
    ASSUME TypeOK, RangeInv, NEW c \in Callers, Read(c)
    PROVE  RangeInv'
<1>1. /\ pc[c] # "written" /\ pc'[c] # "written"
      /\ \A d \in Callers : d # c => pc'[d] = pc[d]
      /\ UNCHANGED <<written, acq, device>>
  BY DEF Read, ReadLock, ReadRefused, ReadStart, ReadWait, TypeOK
<1>2. UNCHANGED <<out, ptr>> \/ ptr' = 0
  BY DEF Read, ReadLock, ReadRefused, ReadStart, ReadWait, buffer
<1> QED  BY <1>1, <1>2
         DEF RangeInv, SelectedInv, RangesInv, WrittenInv, DecodedRight, acq, device

LEMMA SampleRight ==
    ASSUME LockInv, RangeInv, acqPc \in {"next", "last"}, Sample.trusted
    PROVE  Sample.right
<1>1. Sample.trusted = (cur \in trusted)
      /\ Sample.right = (Unipolar(range[cur]) = Unipolar(devRange[devSel]))
  BY DEF Sample
<1>2. cur \in trusted /\ devSel = cur
  BY <1>1 DEF RangeInv, SelectedInv
<1>3. \A c \in Callers : pc[c] # "written"
  BY Exclusion DEF WriteOutOfRead, Reading
<1>4. range[cur] = devRange[cur]
  BY <1>2, <1>3 DEF RangeInv, RangesInv
<1>5. Unipolar(range[cur]) = Unipolar(devRange[devSel])
  BY <1>2, <1>4
<1> QED  BY <1>1, <1>5

LEMMA AcqRanges ==
    ASSUME TypeOK, LockInv, SamplingInv, RangeInv, Acquisition \/ TimerExpired
    PROVE  RangeInv'
<1>1. UNCHANGED <<pc, written, range, devRange, trusted>>
  BY DEF Acquisition, AcqTake, AcqFirst, AcqNext, AcqLast, AcqTransferFails, AcqFail,
         AcqFinish, AcqGoOn, TimerExpired, callers, device
<1>2. RangesInv' /\ WrittenInv'
  BY <1>1 DEF RangeInv, RangesInv, WrittenInv
<1>3. SelectedInv'
  BY DEF Acquisition, AcqTake, AcqFirst, AcqNext, AcqLast, AcqTransferFails, AcqFail,
         AcqFinish, AcqGoOn, TimerExpired, RangeInv, SelectedInv, device, acq
<1>4. DecodedRight'
  <2>1. CASE AcqNext \/ AcqLast
    <3>1. Store /\ acqPc \in {"next", "last"}
      BY <2>1 DEF AcqNext, AcqLast
    <3>2. /\ ptr' = ptr + 1 /\ ptr \in Nat
          /\ \A p \in 1 .. ptr : out'[p] = out[p]
          /\ out'[ptr + 1] = Sample
      BY <3>1, StoreTypes DEF TypeOK
    <3>3. Sample.trusted => Sample.right
      BY <3>1, SampleRight
    <3> QED  BY <3>2, <3>3 DEF RangeInv, DecodedRight
  <2>2. CASE AcqGoOn
    <3>1. out' = out /\ ptr' \in Int /\ ptr' <= ptr /\ ptr \in Int
      BY <2>2 DEF AcqGoOn, Rewound, SamplingInv, TypeOK
    <3> QED  BY <3>1 DEF RangeInv, DecodedRight
  <2>3. CASE UNCHANGED <<out, ptr>>
    BY <2>3 DEF RangeInv, DecodedRight
  <2> QED  BY <2>1, <2>2, <2>3
           DEF Acquisition, AcqTake, AcqFirst, AcqTransferFails, AcqFail, AcqFinish,
               TimerExpired, buffer
<1> QED  BY <1>2, <1>3, <1>4 DEF RangeInv

LEMMA RangeStep ==
    ASSUME TypeOK, LockInv, SamplingInv, RangeInv, [Next]_vars
    PROVE  RangeInv'
<1>1. CASE Acquisition \/ TimerExpired
  BY <1>1, AcqRanges
<1>2. CASE \E c \in Callers : Setup(c) \/ Read(c) \/ Release(c)
  BY <1>2, SetupRanges, ReadRanges
<1>3. CASE UNCHANGED vars
  BY <1>3 DEF vars, callers, buffer, acq, device, RangeInv, SelectedInv, RangesInv,
              WrittenInv, DecodedRight
<1> QED  BY <1>1, <1>2, <1>3 DEF Next

-----------------------------------------------------------------------------
LEMMA Invariance ==
    ASSUME AsyncAlone
    PROVE  /\ Init => IInv
           /\ IInv /\ [Next]_vars => IInv'
<1>1. Init => IInv
  BY TypeInit, LockInit, SamplingInit, RangeInit DEF IInv, RangeInv
<1>2. IInv /\ [Next]_vars => IInv'
  BY TypeStep, LockStep, SamplingStep, RangeStep DEF IInv, RangeInv
<1> QED  BY <1>1, <1>2

\* The types of the driver's variables, for every set of callers, channels,
\* ranges and sequences.
THEOREM TypeCorrect == ASSUME AsyncAlone PROVE Spec => []TypeOK
<1>1. IInv => TypeOK
  BY DEF IInv
<1> QED  BY <1>1, Invariance, PTL DEF Spec

\* Set-ups and reads exclude each other, whoever calls and whatever transfers
\* fail (adc_ads868x.c, line 170).
THEOREM ExclusionCorrect == ASSUME AsyncAlone PROVE Spec => []WriteOutOfRead
<1>1. IInv => WriteOutOfRead
  BY Exclusion DEF IInv
<1> QED  BY <1>1, Invariance, PTL DEF Spec

\* Samples of channels whose last set-up did not fail are given the sign of
\* the range they were converted in.
THEOREM DecodingCorrect == ASSUME AsyncAlone PROVE Spec => []DecodedRight
<1>1. IInv => DecodedRight
  BY DEF IInv
<1> QED  BY <1>1, Invariance, PTL DEF Spec

-----------------------------------------------------------------------------
(* Where the samples are.                                                  *)

PerSampling == Cardinality(sequence.channels)

\* The thread goes through the channels of the sequence upwards.
OrderedInv ==
    /\ BufferFits(sequence)
    /\ acqPc = "first" => todo = sequence.channels
    /\ acqPc \in {"next", "last"} =>
         cur \in sequence.channels /\ todo = {d \in sequence.channels : d > cur}
    /\ acqPc = "last" => todo = {}

\* The buffer pointer is where the samplings done so far end, with the channels
\* of the present one that have been stored; a repetition goes back to its
\* first channel.
PointerInv ==
    /\ (acqPc = "idle" /\ (sem = 1 \/ timerOn)) \/ acqPc = "first" =>
         ptr = PerSampling * index
    /\ acqPc \in {"next", "last"} => ptr = PerSampling * index + Place(cur)
    /\ acqPc = "done" => ptr = PerSampling * index + PerSampling
    /\ sem = 1 \/ acqPc \in {"first", "next", "last", "done"} =>
         repeatPtr = PerSampling * index

\* No sample is stored past the last sampling, and each is in its place.
SamplesInv ==
    /\ Len(out) <= PerSampling * (1 + sequence.extra)
    /\ \A p \in 1 .. ptr :
         /\ out[p].of \in sequence.channels
         /\ \E k \in Nat : p - 1 = PerSampling * k + Place(out[p].of)

\* What the caller is told, and from when on; of an asynchronous read nobody
\* is told when its caller returns.
Whole == /\ ptr = PerSampling * index + PerSampling
         /\ ~sequence.callback => index = sequence.extra
WholeInv ==
    /\ sync = 1 /\ status # "err" => Whole
    /\ \A c \in Callers : pc[c] = "readDone" /\ st[c] # "err" /\ ~asynchronous => Whole

PlaceInv == OrderedInv /\ PointerInv /\ SamplesInv /\ WholeInv

LEMMA ProductGrows ==
    ASSUME NEW n \in Nat, NEW a \in Nat, NEW b \in Nat, a <= b
    PROVE  n * a <= n * b
<1>1. n * (b - a) >= 0 /\ n * (b - a) = n * b - n * a
  OBVIOUS
<1> QED  BY <1>1

LEMMA Remainder ==
    ASSUME NEW n \in Nat \ {0}, NEW k \in Nat, NEW r \in 0 .. n - 1
    PROVE  (n * k + r) % n = r
OBVIOUS

\* The channels of a sequence are finitely many, those below one of them
\* fewer.
LEMMA PlaceFact ==
    ASSUME TypeOK, NEW c \in sequence.channels
    PROVE  /\ IsFiniteSet(sequence.channels) /\ PerSampling \in Nat \ {0}
           /\ IsFiniteSet({d \in sequence.channels : d < c})
           /\ Place(c) \in Nat /\ Place(c) \in 0 .. PerSampling - 1
<1> DEFINE S == sequence.channels
           B == {d \in S : d < c}
<1>1. S \subseteq 0 .. NumCh - 1 /\ NumCh \in Nat /\ c \in Int
  BY DeviceAssumption DEF TypeOK, Channels
<1>2. IsFiniteSet(0 .. NumCh - 1)
  BY <1>1, FS_Interval
<1>3. IsFiniteSet(S)
  BY <1>1, <1>2, FS_Subset
<1>4. IsFiniteSet(S \ {c}) /\ Cardinality(S \ {c}) = Cardinality(S) - 1
  BY <1>3, FS_RemoveElement
<1>5. B \subseteq S \ {c}
  BY <1>1
<1>6. IsFiniteSet(B) /\ Cardinality(B) <= Cardinality(S) - 1
  BY <1>4, <1>5, FS_Subset
<1>7. Cardinality(B) \in Nat /\ Cardinality(S) \in Nat
  BY <1>3, <1>6, FS_CardinalityType
<1> QED  BY <1>3, <1>6, <1>7 DEF PerSampling, Place

\* Taking the lowest channel leaves those above it; nothing is below it.
LEMMA FirstPlace ==
    ASSUME TypeOK, TodoInv, NEW c, c = Lowest(sequence.channels)
    PROVE  /\ c \in sequence.channels /\ Place(c) = 0
           /\ sequence.channels \ {c} = {d \in sequence.channels : d > c}
<1> DEFINE S == sequence.channels
<1>1. S \in SUBSET Nat /\ S # {}
  BY DeviceAssumption DEF TypeOK, TodoInv, Channels
<1>2. c \in S /\ \A d \in S : c <= d
  BY <1>1, LowestFact
<1>3. {d \in S : d < c} = {}
  BY <1>1, <1>2
<1>4. S \ {c} = {d \in S : d > c}
  BY <1>1, <1>2
<1> QED  BY <1>2, <1>3, <1>4, FS_EmptySet DEF Place

\* The next channel's place is the next place.
LEMMA NextPlace ==
    ASSUME TypeOK, NEW b \in sequence.channels, NEW T,
           T = {d \in sequence.channels : d > b}, T # {},
           NEW c, c = Lowest(T)
    PROVE  /\ c \in sequence.channels /\ Place(c) = Place(b) + 1
           /\ T \ {c} = {d \in sequence.channels : d > c}
<1> DEFINE S == sequence.channels
           B == {d \in S : d < b}
<1>1. S \in SUBSET Nat /\ T \in SUBSET Nat
  BY DeviceAssumption DEF TypeOK, Channels
<1>2. c \in T /\ \A d \in T : c <= d
  BY <1>1, LowestFact
<1>3. {d \in S : d < c} = B \cup {b}
  BY <1>1, <1>2
<1>4. b \notin B
  BY <1>1
<1>5. Cardinality(B \cup {b}) = Cardinality(B) + 1
  BY <1>4, PlaceFact, FS_AddElement
<1>6. T \ {c} = {d \in S : d > c}
  BY <1>1, <1>2
<1> QED  BY <1>2, <1>3, <1>5, <1>6 DEF Place

\* Above the last channel there is none: its place is the last.
LEMMA LastPlace ==
    ASSUME TypeOK, NEW b \in sequence.channels,
           {d \in sequence.channels : d > b} = {}
    PROVE  Place(b) + 1 = PerSampling
<1> DEFINE S == sequence.channels
           B == {d \in S : d < b}
<1>1. S \in SUBSET Nat
  BY DeviceAssumption DEF TypeOK, Channels
<1>2. S = B \cup {b} /\ b \notin B
  BY <1>1
<1>3. Cardinality(B \cup {b}) = Cardinality(B) + 1
  BY <1>2, PlaceFact, FS_AddElement
<1> QED  BY <1>2, <1>3 DEF Place, PerSampling

\* A sequence has at least one sample in each sampling.
LEMMA SequenceFact ==
    ASSUME TypeOK, TodoInv
    PROVE  /\ PerSampling \in Nat \ {0} /\ index \in Nat /\ ptr \in Nat
           /\ sequence.extra \in Nat /\ index <= sequence.extra
           /\ PerSampling * index \in Nat
           /\ PerSampling * index + PerSampling <= PerSampling * (1 + sequence.extra)
<1>1. PICK c \in sequence.channels : TRUE
  BY DEF TodoInv
<1>2. PerSampling \in Nat \ {0}
  BY <1>1, PlaceFact
<1>3. sequence.extra \in Nat /\ index \in 0 .. sequence.extra /\ ptr \in Nat
  BY RequestFact DEF TypeOK
<1>4. PerSampling * (index + 1) <= PerSampling * (1 + sequence.extra)
  BY <1>2, <1>3, ProductGrows
<1>5. PerSampling * (index + 1) = PerSampling * index + PerSampling
      /\ PerSampling * index \in Nat
  BY <1>2, <1>3
<1> QED  BY <1>2, <1>3, <1>4, <1>5

LEMMA PlaceInit == Init => PlaceInv
<1> SUFFICES ASSUME Init PROVE PlaceInv
  OBVIOUS
<1>1. /\ sequence = NoRequest /\ acqPc = "idle" /\ sem = 0 /\ ~timerOn
      /\ sync # 1 /\ ptr = 0 /\ Len(out) = 0
      /\ \A c \in Callers : pc[c] # "readDone"
  BY DEF Init
<1>2. Cardinality({0}) = 1
  BY FS_Singleton
<1>3. BufferFits(sequence) /\ PerSampling = 1 /\ sequence.extra = 0
  BY <1>1, <1>2, NoRequestFact DEF BufferFits, PerSampling
<1> QED  BY <1>1, <1>3
         DEF PlaceInv, OrderedInv, PointerInv, SamplesInv, WholeInv

\* A sample goes to the next place of the buffer and none before it changes.
LEMMA StorePlace ==
    ASSUME IInv, PlaceInv, acqPc \in {"next", "last"}, Store, sequence' = sequence
    PROVE  SamplesInv'
<1>1. /\ out' \in Seq(Samples) /\ Len(out') = ptr + 1 /\ ptr' = ptr + 1
      /\ \A p \in 1 .. ptr : out'[p] = out[p]
      /\ out'[ptr + 1] = Sample
  BY StoreTypes DEF IInv
<1>2. /\ Sample.of = cur /\ cur \in sequence.channels
      /\ ptr = PerSampling * index + Place(cur)
  BY DEF Sample, IInv, SelectedInv, PlaceInv, OrderedInv, PointerInv
<1>3. Place(cur) \in 0 .. PerSampling - 1
  BY <1>2, PlaceFact DEF IInv
<1>4. Len(out') <= PerSampling * (1 + sequence.extra)
  <2>. DEFINE A == PerSampling * index
              B == PerSampling * (1 + sequence.extra)
  <2>1. A \in Nat /\ B \in Int /\ A + PerSampling <= B /\ PerSampling \in Nat
    BY SequenceFact DEF IInv
  <2>2. Len(out') = A + Place(cur) + 1
    BY <1>1, <1>2
  <2>. HIDE DEF A, B
  <2>3. Len(out') <= B
    BY <1>3, <2>1, <2>2
  <2>. QED  BY <2>3 DEF B
<1>5. PerSampling' = PerSampling /\ \A c : Place(c)' = Place(c)
  BY DEF PerSampling, Place
<1>6. ASSUME NEW p \in 1 .. ptr'
      PROVE  /\ out'[p].of \in sequence.channels
             /\ \E k \in Nat : p - 1 = PerSampling * k + Place(out'[p].of)
  <2>1. ptr \in Nat /\ index \in Nat
    BY SequenceFact DEF IInv
  <2>2. CASE p \in 1 .. ptr
    BY <1>1, <2>2 DEF PlaceInv, SamplesInv
  <2>3. CASE p = ptr + 1
    <3>1. out'[p].of = cur /\ p - 1 = PerSampling * index + Place(cur)
      BY <1>1, <1>2, <2>1, <2>3
    <3>. QED  BY <1>2, <2>1, <3>1
  <2>. QED  BY <1>1, <2>1, <2>2, <2>3
<1>7. Len(out)' <= PerSampling * (1 + sequence'.extra)
  BY <1>4
<1> QED  BY <1>5, <1>6, <1>7 DEF SamplesInv

\* The expressions of PlaceInv are those of the sequence.
LEMMA SequenceFrame ==
    ASSUME sequence' = sequence
    PROVE  /\ PerSampling' = PerSampling /\ \A c : Place(c)' = Place(c)
           /\ BufferFits(sequence)' = BufferFits(sequence)
BY DEF PerSampling, Place, BufferFits

\* While something is read nobody has been told that it is over.
LEMMA NotYetWhole ==
    ASSUME IInv, Reading
    PROVE  sync = 0 /\ \A c \in Callers : pc[c] = "readDone" => asynchronous
BY DEF IInv, LockInv, Inside, Leaving

\* One frame of the acquisition thread.
LEMMA FramePlaces ==
    ASSUME IInv, PlaceInv, AcqTake \/ AcqFirst \/ AcqNext \/ AcqLast \/ AcqTransferFails
    PROVE  PlaceInv'
<1>1. sequence' = sequence /\ index' = index
      /\ UNCHANGED <<sync, asynchronous, pc, repeatPtr>>
  BY DEF AcqTake, AcqFirst, AcqNext, AcqLast, AcqTransferFails, ctxSeq, ctxLock,
         callers, buffer
<1>2. Reading
  BY DEF AcqTake, AcqFirst, AcqNext, AcqLast, AcqTransferFails, Reading
<1>3. WholeInv'
  BY <1>1, <1>2, NotYetWhole DEF WholeInv
<1>4. CASE AcqTake
  <2>1. UNCHANGED <<ptr, repeatPtr, out>> /\ acqPc = "idle" /\ sem = 1 /\ acqPc' = "first"
        /\ sem' = 0 /\ todo' = sequence.channels
    BY <1>4 DEF AcqTake, buffer
  <2>. QED  BY <1>1, <1>3, <2>1, SequenceFrame
            DEF PlaceInv, OrderedInv, PointerInv, SamplesInv
<1>5. CASE AcqFirst
  <2>1. /\ UNCHANGED <<ptr, repeatPtr, out, sem>> /\ acqPc = "first"
        /\ cur' = Lowest(todo) /\ todo' = todo \ {cur'}
        /\ acqPc' = IF todo' = {} THEN "last" ELSE "next"
    BY <1>5 DEF AcqFirst, Rest, buffer
  <2>2. todo = sequence.channels
    BY <2>1 DEF PlaceInv, OrderedInv
  <2>3. /\ cur' \in sequence.channels /\ Place(cur') = 0
        /\ todo' = {d \in sequence.channels : d > cur'}
    BY <2>1, <2>2, FirstPlace DEF IInv
  <2>4. Place(cur)' = 0
    BY <1>1, <2>3 DEF Place
  <2>5. OrderedInv'
    BY <1>1, <2>1, <2>3, SequenceFrame DEF PlaceInv, OrderedInv
  <2>6. PointerInv'
    <3>1. PerSampling * index \in Nat /\ ptr = PerSampling * index
          /\ repeatPtr = PerSampling * index /\ sem = 0
      BY <2>1, SequenceFact DEF PlaceInv, PointerInv, IInv, SamplingInv, TypeOK
    <3>. QED  BY <1>1, <2>1, <2>4, <3>1, SequenceFrame DEF PointerInv
  <2>7. SamplesInv'
    BY <1>1, <2>1, SequenceFrame DEF PlaceInv, SamplesInv
  <2>. QED  BY <1>3, <2>5, <2>6, <2>7 DEF PlaceInv
<1>6. CASE AcqNext
  <2>1. /\ UNCHANGED <<repeatPtr, sem>> /\ acqPc = "next" /\ Store
        /\ cur' = Lowest(todo) /\ todo' = todo \ {cur'}
        /\ acqPc' = IF todo' = {} THEN "last" ELSE "next"
    BY <1>6 DEF AcqNext, Rest
  <2>2. cur \in sequence.channels /\ todo # {} /\ todo = {d \in sequence.channels : d > cur}
    BY <2>1 DEF PlaceInv, OrderedInv, IInv, TodoInv
  <2>3. /\ cur' \in sequence.channels /\ Place(cur') = Place(cur) + 1
        /\ todo' = {d \in sequence.channels : d > cur'}
    BY <2>1, <2>2, NextPlace DEF IInv
  <2>4. Place(cur)' = Place(cur) + 1
    BY <1>1, <2>3 DEF Place
  <2>5. OrderedInv'
    BY <1>1, <2>1, <2>3, SequenceFrame DEF PlaceInv, OrderedInv
  <2>6. PointerInv'
    <3>1. PerSampling * index \in Nat /\ ptr = PerSampling * index + Place(cur)
          /\ ptr' = ptr + 1 /\ repeatPtr = PerSampling * index /\ sem = 0
      BY <2>1, SequenceFact DEF PlaceInv, PointerInv, IInv, SamplingInv, Store, TypeOK
    <3>2. Place(cur) \in Nat
      BY <2>2, PlaceFact DEF IInv
    <3>3. ptr' = PerSampling * index + Place(cur)'
      <4>. DEFINE A == PerSampling * index
      <4>1. A \in Nat /\ ptr = A + Place(cur)
        BY <3>1
      <4>. HIDE DEF A
      <4>2. ptr' = A + Place(cur)'
        BY <2>4, <3>1, <3>2, <4>1
      <4>. QED  BY <4>2 DEF A
    <3>4. (PerSampling * index)' = PerSampling * index
      BY <1>1, SequenceFrame
    <3>. QED  BY <2>1, <3>1, <3>3, <3>4 DEF PointerInv
  <2>7. SamplesInv'
    BY <1>1, <2>1, StorePlace
  <2>. QED  BY <1>3, <2>5, <2>6, <2>7 DEF PlaceInv
<1>7. CASE AcqLast
  <2>1. /\ UNCHANGED <<repeatPtr, sem>> /\ acqPc = "last" /\ Store /\ acqPc' = "done"
    BY <1>7 DEF AcqLast
  <2>2. cur \in sequence.channels /\ {d \in sequence.channels : d > cur} = {}
    BY <2>1 DEF PlaceInv, OrderedInv
  <2>0. Place(cur) \in Nat /\ PerSampling \in Nat \ {0}
    BY <2>2, PlaceFact DEF IInv
  <2>3. Place(cur) + 1 = PerSampling
    BY <2>2, LastPlace DEF IInv
  <2>4. OrderedInv'
    BY <1>1, <2>1, SequenceFrame DEF PlaceInv, OrderedInv
  <2>5. PointerInv'
    <3>. DEFINE A == PerSampling * index
    <3>1. A \in Nat /\ ptr = A + Place(cur)
          /\ ptr' = ptr + 1 /\ repeatPtr = A /\ sem = 0
      BY <2>1, SequenceFact DEF PlaceInv, PointerInv, IInv, SamplingInv, Store, TypeOK
    <3>2. A' = A /\ PerSampling' = PerSampling
      BY <1>1, SequenceFrame
    <3>3. PointerInv' <=>
            /\ (acqPc' = "idle" /\ (sem' = 1 \/ timerOn')) \/ acqPc' = "first" => ptr' = A'
            /\ acqPc' \in {"next", "last"} => ptr' = A' + Place(cur)'
            /\ acqPc' = "done" => ptr' = A' + PerSampling'
            /\ sem' = 1 \/ acqPc' \in {"first", "next", "last", "done"} => repeatPtr' = A'
      BY DEF PointerInv
    <3>. HIDE DEF A
    <3>4. ptr' = A + PerSampling
      BY <2>0, <2>3, <3>1
    <3>. QED  BY <1>1, <2>1, <3>1, <3>2, <3>3, <3>4
  <2>6. SamplesInv'
    BY <1>1, <2>1, StorePlace
  <2>. QED  BY <1>3, <2>4, <2>5, <2>6 DEF PlaceInv
<1>8. CASE AcqTransferFails
  <2>1. UNCHANGED <<ptr, repeatPtr, out>> /\ acqPc' = "failed" /\ sem' = 0
    BY <1>8 DEF AcqTransferFails, buffer, IInv, SamplingInv
  <2>. QED  BY <1>1, <1>3, <2>1, SequenceFrame
            DEF PlaceInv, OrderedInv, PointerInv, SamplesInv
<1>. QED  BY <1>4, <1>5, <1>6, <1>7, <1>8

\* The end of a read, or of one of its samplings.
LEMMA EndPlaces ==
    ASSUME IInv, PlaceInv, AcqFail \/ AcqFinish \/ AcqGoOn
    PROVE  PlaceInv'
<1>1. /\ sequence' = sequence /\ out' = out /\ pc' = pc /\ st' = st /\ acqPc' = "idle"
      /\ asynchronous' = asynchronous
  BY DEF AcqFail, AcqFinish, AcqGoOn, callers, buffer, ctxLock
<1>2. acqPc # "idle" /\ sem = 0
  BY DEF AcqFail, AcqFinish, AcqGoOn, IInv, SamplingInv
<1>3. sync = 0 /\ \A c \in Callers : pc[c] = "readDone" => asynchronous
  BY <1>2, NotYetWhole DEF Reading
<1>4. OrderedInv'
  BY <1>1, SequenceFrame DEF PlaceInv, OrderedInv
<1>5. CASE AcqFail
  <2>1. sem' = 0 /\ ~timerOn' /\ ptr' = ptr /\ (sync' = sync \/ status' = "err")
    BY <1>2, <1>5 DEF AcqFail, Reported, Complete, buffer
  <2>2. SamplesInv'
    BY <1>1, <2>1, SequenceFrame DEF PlaceInv, SamplesInv
  <2>3. PointerInv' /\ WholeInv'
    BY <1>1, <1>3, <2>1 DEF PointerInv, WholeInv
  <2>. QED  BY <1>4, <2>2, <2>3 DEF PlaceInv
<1>6. CASE AcqFinish
  <2>1. sem' = 0 /\ ~timerOn' /\ ptr' = ptr /\ index' = index /\ acqPc = "done"
    BY <1>2, <1>6 DEF AcqFinish, buffer
  <2>2. SamplesInv'
    BY <1>1, <2>1, SequenceFrame DEF PlaceInv, SamplesInv
  <2>3. ptr = PerSampling * index + PerSampling
    BY <2>1 DEF PlaceInv, PointerInv
  <2>4. ~sequence.callback => index = sequence.extra
    <3>1. ~sequence.callback => index >= sequence.extra
      BY <1>6 DEF AcqFinish, Verdicts
    <3>. QED  BY <3>1, SequenceFact DEF IInv
  <2>5. Whole'
    BY <1>1, <2>1, <2>3, <2>4, SequenceFrame DEF Whole
  <2>6. PointerInv' /\ WholeInv'
    BY <1>1, <2>1, <2>5 DEF PointerInv, WholeInv
  <2>. QED  BY <1>4, <2>2, <2>6 DEF PlaceInv
<1>7. CASE AcqGoOn
  <2>1. sync' = sync /\ acqPc = "done"
    BY <1>7 DEF AcqGoOn, ctxLock
  <2>2. WholeInv'
    BY <1>1, <1>3, <2>1 DEF WholeInv
  <2>3. PICK v \in Verdicts :
          /\ v # "finish" /\ (v = "continue" => index < sequence.extra)
          /\ index' = IF v = "continue" THEN index + 1 ELSE index
          /\ ptr' = Rewound(v = "repeat")
    BY <1>7 DEF AcqGoOn
  <2>4. /\ ptr = PerSampling * index + PerSampling /\ repeatPtr = PerSampling * index
        /\ v \in {"continue", "repeat"}
    BY <2>1, <2>3 DEF PlaceInv, PointerInv, Verdicts
  <2>5. /\ PerSampling \in Nat \ {0} /\ index \in Nat
        /\ PerSampling * index \in Nat
    BY SequenceFact DEF IInv
  <2>6. ptr' = PerSampling * index' /\ ptr' \in Nat /\ ptr' <= ptr /\ ptr \in Nat
    <3>1. CASE v = "continue"
      <4>1. index' = index + 1 /\ ptr' = ptr
        BY <2>3, <3>1 DEF Rewound
      <4>2. PerSampling * (index + 1) = PerSampling * index + PerSampling
        BY <2>5
      <4>. QED  BY <2>4, <2>5, <4>1, <4>2
    <3>2. CASE v = "repeat"
      <4>1. index' = index /\ ptr' = repeatPtr
        BY <2>3, <3>2 DEF Rewound
      <4>. QED  BY <2>4, <2>5, <4>1
    <3>. QED  BY <2>4, <3>1, <3>2
  <2>7. PointerInv'
    <3>1. sem' = 1 => repeatPtr' = ptr'
      BY <1>2, <1>7 DEF AcqGoOn
    <3>. QED  BY <1>1, <2>6, <3>1, SequenceFrame DEF PointerInv
  <2>8. SamplesInv'
    <3>1. \A p \in 1 .. ptr' : p \in 1 .. ptr
      BY <2>6
    <3>. QED  BY <1>1, <3>1, SequenceFrame DEF PlaceInv, SamplesInv
  <2>. QED  BY <1>4, <2>2, <2>7, <2>8 DEF PlaceInv
<1>. QED  BY <1>5, <1>6, <1>7

\* An expiry of the timer begins a sampling only where the last one ended.
LEMMA TimerPlaces ==
    ASSUME IInv, PlaceInv, TimerExpired
    PROVE  PlaceInv'
<1>1. /\ UNCHANGED <<sequence, index, out, ptr, acqPc, todo, cur, pc, sync, timerOn,
                    asynchronous>>
      /\ Reading
  BY DEF TimerExpired, acq, callers, Reading
<1>2. WholeInv'
  BY <1>1, NotYetWhole DEF WholeInv
<1>3. OrderedInv' /\ SamplesInv'
  BY <1>1, SequenceFrame DEF PlaceInv, OrderedInv, SamplesInv
<1>4. PointerInv'
  <2>1. CASE requested = 0
    <3>1. timerOn /\ acqPc = "idle" /\ repeatPtr' = ptr
      BY <2>1 DEF TimerExpired, IInv, SamplingInv
    <3>2. ptr = PerSampling * index
      BY <3>1 DEF PlaceInv, PointerInv
    <3>. QED  BY <1>1, <3>1, <3>2, SequenceFrame DEF PointerInv
  <2>2. CASE requested # 0
    <3>1. UNCHANGED <<sem, repeatPtr>>
      BY <2>2 DEF TimerExpired
    <3>2. (PerSampling * index)' = PerSampling * index /\ Place(cur)' = Place(cur)
          /\ PerSampling' = PerSampling
      BY <1>1, SequenceFrame DEF Place
    <3>. QED  BY <1>1, <3>1, <3>2 DEF PlaceInv, PointerInv
  <2>. QED  BY <2>1, <2>2
<1>. QED  BY <1>2, <1>3, <1>4 DEF PlaceInv

\* A read begins with an empty buffer ...
LEMMA StartPlaces ==
    ASSUME IInv, NEW c \in Callers, ReadStart(c)
    PROVE  PlaceInv'
<1>1. ~Reading /\ sync # 1 /\ \A d \in Callers : d # c => pc[d] = "idle"
  BY StartAlone DEF ReadStart, Inside, IInv, LockInv
<1>2. /\ \A d \in Callers : pc'[d] # "readDone"
      /\ sync' = sync /\ acqPc' = "idle" /\ out' = <<>> /\ ptr' = 0 /\ index' = 0
      /\ sem' = 1 => repeatPtr' = 0
  BY <1>1 DEF ReadStart, Reading, acq, IInv, TypeOK
<1>3. sequence' \in Requests /\ BufferFits(sequence')
  BY DEF ReadStart
<1>4. Cardinality(sequence'.channels) \in Nat /\ sequence'.extra \in Nat
  <2>1. IsFiniteSet(sequence'.channels) /\ sequence'.extra \in Nat
    BY <1>3, DeviceAssumption
  <2>. QED  BY <2>1, FS_CardinalityType
<1>5. OrderedInv' /\ WholeInv'
  BY <1>1, <1>2, <1>3 DEF OrderedInv, WholeInv, BufferFits
<1>6. PointerInv'
  <2>1. PerSampling' * index' = 0
    BY <1>2, <1>4 DEF PerSampling
  <2>. QED  BY <1>2, <2>1 DEF PointerInv
<1>7. SamplesInv'
  <2>1. Cardinality(sequence'.channels) * (1 + sequence'.extra) >= 0
    BY <1>4
  <2>2. Len(out') = 0
    BY <1>2
  <2>. QED  BY <1>2, <2>1, <2>2 DEF SamplesInv, PerSampling
<1>. QED  BY <1>5, <1>6, <1>7 DEF PlaceInv

\* ... and the other steps of the callers leave the read alone.
LEMMA CallerPlaces ==
    ASSUME AsyncAlone, IInv, PlaceInv, NEW c \in Callers,
           Setup(c) \/ ReadLock(c) \/ ReadRefused(c) \/ ReadWait(c) \/ Release(c)
    PROVE  PlaceInv'
<1>1. UNCHANGED <<ctxSeq, buffer, acq, sem>>
  BY DEF Setup, SetupLock, SetupWrite, SetupRemember, SetupWriteFails, ReadLock,
         ReadRefused, ReadWait, Release
<1>2. Place(cur)' = Place(cur) /\ PerSampling' = PerSampling
      /\ BufferFits(sequence)' = BufferFits(sequence)
  BY <1>1 DEF ctxSeq, acq, Place, PerSampling, BufferFits
<1>3. OrderedInv' /\ PointerInv'
  BY <1>1, <1>2 DEF ctxSeq, buffer, acq, PlaceInv, OrderedInv, PointerInv
<1>4. SamplesInv'
  BY <1>1, SequenceFrame DEF ctxSeq, buffer, PlaceInv, SamplesInv
<1>5. Whole' = Whole
  BY <1>1, <1>2 DEF ctxSeq, buffer, Whole
<1>6. WholeInv'
  <2>1. CASE ReadWait(c)
    <3>0. asynchronous => sync # 1
      BY DEF IInv, LockInv
    <3>1. /\ asynchronous' = asynchronous /\ sync' # 1
          /\ ~asynchronous => sync = 1 /\ st' = [st EXCEPT ![c] = status]
          /\ pc' = [pc EXCEPT ![c] = "readDone"]
      <4>1. CASE asynchronous
        BY <2>1, <3>0, <4>1 DEF ReadWait
      <4>2. CASE ~asynchronous
        BY <2>1, <4>2 DEF ReadWait
      <4>. QED  BY <4>1, <4>2
    <3>2. ~asynchronous =>
            /\ st'[c] = status
            /\ \A d \in Callers : d # c => st'[d] = st[d] /\ pc'[d] = pc[d]
      BY <3>1 DEF IInv, TypeOK
    <3>. QED  BY <1>5, <3>1, <3>2 DEF PlaceInv, WholeInv
  <2>2. CASE Setup(c) \/ ReadLock(c) \/ ReadRefused(c) \/ Release(c)
    <3>1. UNCHANGED <<sync, status>>
      BY <2>2 DEF Setup, SetupLock, SetupWrite, SetupRemember, SetupWriteFails,
                  ReadLock, ReadRefused, Release, ctxLock
    <3>2. /\ pc'[c] = "readDone" => st'[c] = "err"
          /\ \A d \in Callers : d # c => st'[d] = st[d] /\ pc'[d] = pc[d]
      BY <2>2 DEF Setup, SetupLock, SetupWrite, SetupRemember, SetupWriteFails,
                  ReadLock, ReadRefused, Release, IInv, TypeOK
    <3>3. CASE SetupLock(c) \/ ReadLock(c)
      <4>1. \A d \in Callers : pc[d] = "idle"
        BY <3>3, NobodyInside DEF SetupLock, SetupGuard, ReadLock, Inside, IInv
      <4>. QED  BY <1>5, <3>1, <3>2, <4>1 DEF PlaceInv, WholeInv
    <3>4. CASE ~(SetupLock(c) \/ ReadLock(c))
      <4>1. asynchronous' = asynchronous
        BY <2>2, <3>4 DEF Setup, SetupWrite, SetupRemember, SetupWriteFails,
                          ReadRefused, Release, ctxLock
      <4>. QED  BY <1>5, <3>1, <3>2, <4>1 DEF PlaceInv, WholeInv
    <3>. QED  BY <3>3, <3>4
  <2>. QED  BY <2>1, <2>2
<1>. QED  BY <1>3, <1>4, <1>6 DEF PlaceInv

LEMMA PlaceStep ==
    ASSUME AsyncAlone, IInv, PlaceInv, [Next]_vars
    PROVE  PlaceInv'
<1>1. CASE Acquisition
  BY <1>1, FramePlaces, EndPlaces DEF Acquisition
<1>2. CASE TimerExpired
  BY <1>2, TimerPlaces
<1>3. CASE \E c \in Callers : Setup(c) \/ Read(c) \/ Release(c)
  BY <1>3, StartPlaces, CallerPlaces DEF Read
<1>4. CASE UNCHANGED vars
  <2>1. UNCHANGED <<sequence, index, out, ptr, repeatPtr, acqPc, todo, cur, pc, st,
                    sync, asynchronous, status, timerOn, sem>>
    BY <1>4 DEF vars, callers, ctxLock, ctxSeq, buffer, acq
  <2>2. Place(cur)' = Place(cur) /\ PerSampling' = PerSampling
        /\ BufferFits(sequence)' = BufferFits(sequence)
    BY <2>1 DEF Place, PerSampling, BufferFits
  <2>3. OrderedInv' /\ PointerInv' /\ WholeInv'
    BY <2>1, <2>2 DEF PlaceInv, OrderedInv, PointerInv, WholeInv, Whole
  <2>4. SamplesInv'
    BY <2>1, SequenceFrame DEF PlaceInv, SamplesInv
  <2>. QED  BY <2>3, <2>4 DEF PlaceInv
<1>. QED  BY <1>1, <1>2, <1>3, <1>4 DEF Next

LEMMA PlaceInvariance == ASSUME AsyncAlone PROVE Spec => [](IInv /\ PlaceInv)
<1>1. IInv /\ PlaceInv /\ [Next]_vars => PlaceInv'
  BY PlaceStep
<1>. QED  BY <1>1, Invariance, PlaceInit, PTL DEF Spec

\* However often a sampling is repeated and whatever transfers fail, each
\* sample in the buffer is of the channel its place says, and none is stored
\* past the buffer's end.
THEOREM PlacesCorrect == ASSUME AsyncAlone PROVE Spec => []InPlace
<1>1. IInv /\ PlaceInv => InPlace
  <2>. SUFFICES ASSUME IInv, PlaceInv PROVE InPlace
    OBVIOUS
  <2>1. Len(out) <= sequence.size
    <3>1. Cardinality(sequence.channels) * (1 + sequence.extra) \in Nat
      BY SequenceFact DEF IInv, PerSampling
    <3>2. sequence.size \in Int
      BY DeviceAssumption, NoRequestFact DEF IInv, TypeOK
    <3>3. Len(out) \in Nat
      BY DEF IInv, TypeOK
    <3>. QED  BY <3>1, <3>2, <3>3
              DEF PlaceInv, OrderedInv, SamplesInv, BufferFits, PerSampling
  <2>2. ASSUME NEW p \in 1 .. ptr
        PROVE  /\ out[p].of \in sequence.channels
               /\ Place(out[p].of) = (p - 1) % PerSampling
    <3>1. PICK k \in Nat : p - 1 = PerSampling * k + Place(out[p].of)
      BY DEF PlaceInv, SamplesInv
    <3>2. out[p].of \in sequence.channels
      BY DEF PlaceInv, SamplesInv
    <3>3. Place(out[p].of) \in 0 .. PerSampling - 1 /\ PerSampling \in Nat \ {0}
      BY <3>2, PlaceFact DEF IInv
    <3>4. (PerSampling * k + Place(out[p].of)) % PerSampling = Place(out[p].of)
      BY <3>3, Remainder
    <3>. QED  BY <3>1, <3>2, <3>4
  <2>. QED  BY <2>1, <2>2 DEF InPlace, PerSampling
<1>. QED  BY <1>1, PlaceInvariance, PTL

\* A read that reports no error has left all its samplings in the buffer, or
\* those up to the one its callback finished with.
THEOREM WholeCorrect == ASSUME AsyncAlone PROVE Spec => []ReadIsWhole
<1>1. IInv /\ PlaceInv => ReadIsWhole
  <2>. SUFFICES ASSUME IInv, PlaceInv PROVE ReadIsWhole
    OBVIOUS
  <2>1. PerSampling * (index + 1) = PerSampling * index + PerSampling
    BY SequenceFact DEF IInv
  <2>. QED  BY <2>1 DEF PlaceInv, WholeInv, Whole, ReadIsWhole, PerSampling
<1>. QED  BY <1>1, PlaceInvariance, PTL
-----------------------------------------------------------------------------
(* What everybody waits for: of ReadReturns, and of the lock, the part that is *)
(* a safety property.                                                          *)

\* A caller that waits waits for something that is under way or done, and the
\* lock, where it is not free, is with a caller or with an asynchronous read
\* that will give it back: it is never lost, whatever transfers fail and
\* whichever requests are refused.
NeverStranded ==
    /\ \A c \in Callers : pc[c] = "wait" => asynchronous \/ Reading \/ sync = 1
    /\ lock = 0 => Reading \/ \E c \in Callers : Inside(c)

\* An asynchronous read that has been begun and is over has given the lock.
HeldInv ==
    /\ \A c \in Callers : pc[c] = "wait" => Reading \/ sync = 1 \/ asynchronous
    /\ \A c \in Callers : pc[c] \in {"write", "written", "setupDone"} => ~asynchronous
    /\ \A c \in Callers : Leaving(c) /\ (pc[c] = "readDone" => st[c] # "err") =>
         Reading \/ lock = 1
    /\ lock = 0 => Reading \/ \E c \in Callers : Inside(c)

LEMMA HeldInit == Init => HeldInv
BY DEF Init, HeldInv, Leaving

LEMMA HeldCaller ==
    ASSUME AsyncAlone, IInv, HeldInv, NEW c \in Callers, Setup(c) \/ Read(c) \/ Release(c)
    PROVE  HeldInv'
<1>0. /\ \A d \in Callers : d # c => pc'[d] = pc[d] /\ st'[d] = st[d]
      /\ \A d \in Callers : d # c => pc[d] = "idle"
  <2>1. \A d \in Callers : d # c => pc'[d] = pc[d] /\ st'[d] = st[d]
    BY DEF Setup, SetupLock, SetupWrite, SetupRemember, SetupWriteFails, Read, ReadLock,
           ReadRefused, ReadStart, ReadWait, Release, IInv, TypeOK
  <2>2. CASE Inside(c)
    BY <2>1, <2>2 DEF IInv, LockInv, Inside
  <2>3. CASE ~Inside(c)
    <3>1. lock = 1
      BY <2>3 DEF Setup, SetupLock, SetupGuard, SetupWrite, SetupRemember,
                  SetupWriteFails, Read, ReadLock, ReadRefused, ReadStart, ReadWait,
                  Release, Inside
    <3>. QED  BY <2>1, <2>3, <3>1, NobodyInside DEF IInv, Inside
  <2>. QED  BY <2>2, <2>3, <2>1
<1>1. CASE SetupLock(c) \/ ReadLock(c)
  <2>1. /\ pc'[c] \in {"write", "start"}
        /\ pc'[c] = "write" => ~asynchronous'
    BY <1>1 DEF SetupLock, ReadLock, IInv, TypeOK
  <2>. QED  BY <1>0, <2>1 DEF HeldInv, Inside, Leaving
<1>2. CASE \/ SetupWrite(c) \/ SetupRemember(c) \/ SetupWriteFails(c) \/ ReadRefused(c)
  <2>1. /\ asynchronous' = asynchronous
        /\ \/ pc[c] \in {"write", "written"} /\ pc'[c] \in {"written", "setupDone"}
           \/ pc'[c] = "readDone" /\ st'[c] = "err"
    BY <1>2 DEF SetupWrite, SetupRemember, SetupWriteFails, ReadRefused, ctxLock, IInv,
                TypeOK
  <2>. QED  BY <1>0, <2>1 DEF HeldInv, Inside, Leaving
<1>3. CASE ReadStart(c)
  <2>1. pc'[c] = "wait" /\ asynchronous' = asynchronous
    BY <1>3 DEF ReadStart, IInv, TypeOK
  <2>2. sem' = 1 \/ timerOn'
    BY <1>3 DEF ReadStart
  <2>3. Reading'
    BY <2>2 DEF Reading
  <2>. QED  BY <1>0, <2>1, <2>3 DEF HeldInv, Leaving
<1>4. CASE ReadWait(c)
  <2>1. /\ pc[c] = "wait" /\ pc'[c] = "readDone" /\ lock' = lock
        /\ asynchronous' = asynchronous
    BY <1>4 DEF ReadWait, IInv, TypeOK
  <2>2. Reading' = Reading
    BY <1>4 DEF ReadWait, Reading, ctxSeq, acq
  <2>3. asynchronous => Reading \/ lock = 1
    BY <2>1 DEF HeldInv, Leaving
  <2>. QED  BY <1>0, <2>1, <2>2, <2>3 DEF HeldInv, Inside, Leaving
<1>5. CASE Release(c)
  <2>1. /\ pc[c] \in {"setupDone", "readDone"} /\ pc'[c] = "idle"
        /\ lock' = IF asynchronous /\ st[c] = "ok" THEN lock ELSE 1
    BY <1>5 DEF Release, IInv, TypeOK
  <2>2. Reading' = Reading
    BY <1>5 DEF Release, Reading, ctxSeq, acq
  <2>3. asynchronous /\ st[c] = "ok" => Reading \/ lock = 1
    BY <2>1 DEF HeldInv, Leaving
  <2>4. \A d \in Callers : pc'[d] = "idle"
    BY <1>0, <2>1
  <2>5. lock' = 0 => Reading'
    BY <2>1, <2>2, <2>3
  <2>. QED  BY <2>4, <2>5 DEF HeldInv, Leaving
<1>. QED  BY <1>1, <1>2, <1>3, <1>4, <1>5 DEF Setup, Read

LEMMA HeldAcq ==
    ASSUME IInv, HeldInv, Acquisition \/ TimerExpired
    PROVE  HeldInv'
<1>1. UNCHANGED <<pc, st, asynchronous>>
  BY DEF Acquisition, AcqTake, AcqFirst, AcqNext, AcqLast, AcqTransferFails, AcqFail,
         AcqFinish, AcqGoOn, TimerExpired, callers, ctxLock
<1>2. CASE AcqFail \/ AcqFinish
  <2>1. \/ asynchronous /\ lock' = 1
        \/ ~asynchronous /\ sync' = 1 /\ lock' = lock
    BY <1>2 DEF AcqFail, AcqFinish, Reported, Complete
  <2>2. ~asynchronous => \E c \in Callers : pc[c] = "wait"
    BY <1>2 DEF AcqFail, AcqFinish, Reading, IInv, LockInv
  <2>. QED  BY <1>1, <2>1, <2>2 DEF HeldInv, Inside, Leaving
<1>3. CASE \/ AcqTake \/ AcqFirst \/ AcqNext \/ AcqLast \/ AcqTransferFails \/ AcqGoOn
           \/ TimerExpired
  <2>1. CASE AcqGoOn
    <3>1. ~sequence.timed => sem' = 1
      BY <2>1 DEF AcqGoOn
    <3>2. sequence.timed => timerOn'
      BY <2>1 DEF AcqGoOn, IInv, SamplingInv
    <3>3. Reading'
      BY <3>1, <3>2 DEF Reading
    <3>. QED  BY <1>1, <3>3 DEF HeldInv, Leaving
  <2>2. CASE ~AcqGoOn
    <3>1. acqPc' # "idle" \/ timerOn'
      BY <1>3, <2>2 DEF AcqTake, AcqFirst, AcqNext, AcqLast, AcqTransferFails, Rest,
                        TimerExpired
    <3>2. Reading'
      BY <3>1 DEF Reading
    <3>. QED  BY <1>1, <3>2 DEF HeldInv, Leaving
  <2>. QED  BY <2>1, <2>2
<1>. QED  BY <1>2, <1>3 DEF Acquisition

\* No caller waits in vain and the lock is not lost, by an error, a refused
\* request or a read that completes before its caller has left.
THEOREM NobodyStranded == ASSUME AsyncAlone PROVE Spec => []NeverStranded
<1>1. IInv /\ HeldInv /\ [Next]_vars => HeldInv'
  <2>. SUFFICES ASSUME IInv, HeldInv, [Next]_vars PROVE HeldInv'
    OBVIOUS
  <2>1. CASE UNCHANGED vars
    BY <2>1 DEF vars, callers, ctxLock, ctxSeq, acq, HeldInv, Reading, Inside, Leaving
  <2>. QED  BY <2>1, HeldCaller, HeldAcq DEF Next
<1>2. HeldInv => NeverStranded
  BY DEF HeldInv, NeverStranded
<1>. QED  BY <1>1, <1>2, Invariance, HeldInit, PTL DEF Spec
=============================================================================
