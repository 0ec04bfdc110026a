----------------------------- MODULE Keepalive -----------------------------
(***************************************************************************)
(* The keepalive of the product firmware, apps/main-app/src/keepalive.c,   *)
(* beside the CAN gateway that main.c starts with it.                      *)
(*                                                                         *)
(* The two share the rpmsg vrings and the management thread, in whose      *)
(* context both endpoint callbacks run.  The gateway is CanGateway; here   *)
(* it is what the keepalive can see of it: messages that take up buffers   *)
(* of vring 0, and a callback that may sit in can_send until the CAN bus   *)
(* has acknowledged the frame.                                             *)
(*                                                                         *)
(* Time passes in ticks, and a thread may be late by any number of them.   *)
(***************************************************************************)
EXTENDS Integers, Sequences

CONSTANTS
    Addr,       \* addresses the Linux module's endpoint can have
    PERIOD,     \* KA_PERIOD_MS, in ticks
    PauseAt,    \* MAIN_APP_KA_TEST_PAUSE_AT_S (0: never, as in the product)
    PauseLen,   \* MAIN_APP_KA_TEST_PAUSE_LEN_S
    NumBufs,    \* buffers of each vring (8 in the code)
    MaxTime,    \* bound: ticks
    MaxBinds,   \* bound: times the Linux module binds
    MaxCan      \* bound: CAN messages, each way

ASSUME AddrAssumption == Addr \subseteq Nat
ASSUME PeriodAssumption == PERIOD \in Nat \ {0}
ASSUME PauseAssumption == PauseAt \in Nat /\ PauseLen \in Nat
ASSUME BufsAssumption == NumBufs \in Nat \ {0}
ASSUME BoundAssumption == MaxTime \in Nat /\ MaxBinds \in Nat /\ MaxCan \in Nat

NoAddr == -1

VARIABLES
    now,        \* k_uptime_get
    kaPc,       \* where ka_task is
    start,      \* when its loop began
    next,       \* its local next
    seq,        \* its local seq
    testPaused, \* its local test_paused
    msg,        \* its local msg and peer
    kaPeer,     \* ka_peer
    mngPc,      \* is the mng thread polling or in the gateway's can_send?
    toMcore,    \* vring 1: messages not yet released, by endpoint and source
    toLinux,    \* vring 0: messages not yet consumed
    linuxAddr,  \* address of the Linux module's endpoint
    heard,      \* seq of the last keepalive message it got
    lost,       \* keepalive messages nobody was there for since (ghost)
    binds,      \* times it has bound (bound)
    canIn, canOut   \* CAN messages so far, each way (bound)

taskVars == <<kaPc, start, next, seq, testPaused, msg>>
lnxVars == <<linuxAddr, heard, lost, binds>>
vars == <<now, taskVars, kaPeer, mngPc, toMcore, toLinux, lnxVars, canIn, canOut>>

HasRoom(ring) == Len(ring) < NumBufs
CanMsg == [ept |-> "can", dst |-> NoAddr, seq |-> 0, uptime |-> 0]

Init ==
    /\ now = 0
    /\ kaPc = "wait" /\ start = 0 /\ next = 0 /\ seq = 0 /\ testPaused = 0
    /\ msg = CanMsg
    /\ kaPeer = NoAddr /\ mngPc = "poll"
    /\ toMcore = <<>> /\ toLinux = <<>>
    /\ linuxAddr = NoAddr /\ heard = -1 /\ lost = 0 /\ binds = 0
    /\ canIn = 0 /\ canOut = 0

Tick == /\ now < MaxTime /\ now' = now + 1
        /\ UNCHANGED <<taskVars, kaPeer, mngPc, toMcore, toLinux, lnxVars,
                       canIn, canOut>>

-----------------------------------------------------------------------------
(* ka_task.                                                                *)

\* The platform is up and the endpoint made, or the task ends without it.
KaStart ==
    /\ kaPc = "wait"
    /\ \/ kaPc' = "sleep" /\ start' = now /\ next' = now + PERIOD
       \/ kaPc' = "ended" /\ UNCHANGED <<start, next>>
    /\ UNCHANGED <<now, seq, testPaused, msg, kaPeer, mngPc, toMcore, toLinux,
                   lnxVars, canIn, canOut>>

DueEarly == now >= next - 1    \* mutant

\* The sleep lasts until an absolute time, so a late round is made up for.
Due == now >= next

PausingForever == PauseAt > 0 /\ seq >= PauseAt    \* mutant

\* The test pause: PauseLen rounds without a message from seq = PauseAt on.
Pausing == PauseAt > 0 /\ seq >= PauseAt /\ testPaused < PauseLen

KaWake ==
    /\ kaPc = "sleep" /\ Due
    /\ next' = next + PERIOD
    /\ \/ /\ kaPeer = NoAddr
          /\ UNCHANGED <<kaPc, testPaused, msg>>
       \/ /\ kaPeer # NoAddr /\ Pausing
          /\ testPaused' = testPaused + 1
          /\ UNCHANGED <<kaPc, msg>>
       \/ /\ kaPeer # NoAddr /\ ~Pausing
          /\ msg' = [ept |-> "ka", dst |-> kaPeer, seq |-> seq, uptime |-> now]
          /\ kaPc' = "send"
          /\ UNCHANGED testPaused
    /\ UNCHANGED <<now, start, seq, kaPeer, mngPc, toMcore, toLinux, lnxVars,
                   canIn, canOut>>

CountedUnsent == seq + 1    \* mutant

\* Without a free buffer the message is left out and its number kept.
Unsent == seq

\* rpmsg_trysendto never waits for a buffer, but may for the device's lock.
KaSend ==
    /\ kaPc = "send" /\ kaPc' = "sleep"
    /\ IF HasRoom(toLinux)
         THEN toLinux' = Append(toLinux, msg) /\ seq' = seq + 1
         ELSE UNCHANGED toLinux /\ seq' = Unsent
    /\ UNCHANGED <<now, start, next, testPaused, msg, kaPeer, mngPc, toMcore,
                   lnxVars, canIn, canOut>>

-----------------------------------------------------------------------------
(* The management thread: one message of vring 1 after the other, the      *)
(* buffer given back when the endpoint's callback has returned.            *)

LearntOnce(src) == IF kaPeer = NoAddr THEN src ELSE kaPeer    \* mutant

\* ka_recv_cb: every message renews the address.
Learnt(src) == src

MngKeepalive ==
    /\ mngPc = "poll" /\ toMcore # <<>> /\ Head(toMcore).ept = "ka"
    /\ kaPeer' = Learnt(Head(toMcore).src)
    /\ toMcore' = Tail(toMcore)
    /\ UNCHANGED <<now, taskVars, mngPc, toLinux, lnxVars, canIn, canOut>>

\* The gateway's callback: a control message is dealt with, a frame is put on
\* the bus and waited for.
MngCan ==
    /\ mngPc = "poll" /\ toMcore # <<>> /\ Head(toMcore).ept = "can"
    /\ \/ toMcore' = Tail(toMcore) /\ UNCHANGED mngPc
       \/ mngPc' = "can_send" /\ UNCHANGED toMcore
    /\ UNCHANGED <<now, taskVars, kaPeer, toLinux, lnxVars, canIn, canOut>>

CanTxDone ==
    /\ mngPc = "can_send" /\ mngPc' = "poll"
    /\ toMcore' = Tail(toMcore)
    /\ UNCHANGED <<now, taskVars, kaPeer, toLinux, lnxVars, canIn, canOut>>

\* The gateway's tx and ctl threads take a buffer of vring 0.
GatewaySend ==
    /\ canOut < MaxCan /\ canOut' = canOut + 1
    /\ HasRoom(toLinux) /\ toLinux' = Append(toLinux, CanMsg)
    /\ UNCHANGED <<now, taskVars, kaPeer, mngPc, toMcore, lnxVars, canIn>>

-----------------------------------------------------------------------------
(* Linux.                                                                  *)

\* The mcore-keepalive module binds and sends its "hi".
LinuxBind(a) ==
    /\ binds < MaxBinds /\ binds' = binds + 1
    /\ kaPc \notin {"wait", "ended"} /\ linuxAddr = NoAddr
    /\ HasRoom(toMcore)
    /\ linuxAddr' = a
    /\ toMcore' = Append(toMcore, [ept |-> "ka", src |-> a])
    /\ UNCHANGED <<now, taskVars, kaPeer, mngPc, toLinux, heard, lost,
                   canIn, canOut>>

LinuxUnbind ==
    /\ linuxAddr # NoAddr /\ linuxAddr' = NoAddr
    /\ UNCHANGED <<now, taskVars, kaPeer, mngPc, toMcore, toLinux, heard, lost,
                   binds, canIn, canOut>>

LinuxSendCan ==
    /\ canIn < MaxCan /\ canIn' = canIn + 1
    /\ HasRoom(toMcore)
    /\ toMcore' = Append(toMcore, [ept |-> "can", src |-> NoAddr])
    /\ UNCHANGED <<now, taskVars, kaPeer, mngPc, toLinux, lnxVars, canOut>>

\* A message for an address nobody has any more is dropped.
LinuxRecv ==
    /\ toLinux # <<>> /\ toLinux' = Tail(toLinux)
    /\ LET m == Head(toLinux) IN
         \/ m.ept = "can" /\ UNCHANGED <<heard, lost>>
         \/ m.ept = "ka" /\ m.dst = linuxAddr /\ heard' = m.seq /\ lost' = 0
         \/ m.ept = "ka" /\ m.dst # linuxAddr /\ lost' = lost + 1 /\ UNCHANGED heard
    /\ UNCHANGED <<now, taskVars, kaPeer, mngPc, toMcore, linuxAddr, binds,
                   canIn, canOut>>

-----------------------------------------------------------------------------
KaTask == KaStart \/ KaWake \/ KaSend
MngTask == MngKeepalive \/ MngCan
Linux == \/ \E a \in Addr : LinuxBind(a)
         \/ LinuxUnbind \/ LinuxSendCan \/ LinuxRecv

Next == Tick \/ KaTask \/ MngTask \/ CanTxDone \/ GatewaySend \/ Linux

\* The M core's threads run when they can, and Linux consumes what it is
\* sent.  Nothing is assumed of the CAN bus in Spec; in SpecAcked it
\* acknowledges every frame in the end.
Fairness == WF_vars(KaTask) /\ WF_vars(MngTask) /\ WF_vars(LinuxRecv)

Spec == Init /\ [][Next]_vars /\ Fairness
SpecAcked == Spec /\ WF_vars(CanTxDone)

-----------------------------------------------------------------------------
(* Properties.                                                             *)

OutMsgs == [ept : {"ka", "can"}, dst : Addr \cup {NoAddr}, seq : Nat, uptime : Nat]
InMsgs == [ept : {"ka", "can"}, src : Addr \cup {NoAddr}]

\* The types of the variables; a message being handled is still in its ring.
TypeOK ==
    /\ now \in Nat /\ kaPc \in {"wait", "sleep", "send", "ended"}
    /\ start \in Nat /\ next \in Nat /\ seq \in Nat
    /\ testPaused \in 0 .. PauseLen
    /\ msg \in OutMsgs /\ kaPeer \in Addr \cup {NoAddr}
    /\ mngPc \in {"poll", "can_send"}
    /\ mngPc = "can_send" => toMcore # <<>>
    /\ toMcore \in Seq(InMsgs) /\ toLinux \in Seq(OutMsgs)
    /\ Len(toMcore) <= NumBufs /\ Len(toLinux) <= NumBufs
    /\ linuxAddr \in Addr \cup {NoAddr} /\ heard \in Nat \cup {-1}
    /\ lost \in Nat /\ binds \in Nat /\ canIn \in Nat /\ canOut \in Nat

\* A jump of seq, seen by Linux, is the number of messages that were sent and
\* that nobody was there to receive: not a round in which the M core found no
\* buffer, nor one of the test pause (header, lines 14 and 15).
GapsAreLosses == [][heard' # heard => heard' = heard + 1 + lost]_vars

\* The earliest time at which the schedule allows message number s.
Earliest(s) ==
    start + PERIOD * (s + 1 + (IF PauseAt > 0 /\ s >= PauseAt THEN PauseLen ELSE 0))

\* However late the thread has been, whatever it has had to leave out and to
\* make up for, message number s is never ahead of the schedule, and the ones
\* from PauseAt on are late by the whole test pause.
NeverAhead ==
    \A i \in DOMAIN toLinux :
        toLinux[i].ept = "ka" => toLinux[i].uptime >= Earliest(toLinux[i].seq)

\* The M core follows a module that is put in again (header, lines 9 and 10):
\* when the module binds, its address becomes the destination, unless it
\* leaves again.
FollowsModule ==
    \A a \in Addr : (linuxAddr = a) ~> (kaPeer = a \/ linuxAddr # a)
=============================================================================
