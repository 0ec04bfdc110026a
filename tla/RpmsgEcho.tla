----------------------------- MODULE RpmsgEcho -----------------------------
(***************************************************************************)
(* The OpenAMP demo of apps/rpmsg-echo/src/main_remote.c: what Linux sends *)
(* to one of two endpoints comes back on it.                               *)
(*                                                                         *)
(*   mng      brings rpmsg up, wakes the other two, then waits for the     *)
(*            mailbox interrupt and empties vring 1, calling the endpoint  *)
(*            callbacks;                                                   *)
(*   client   copies the last message of Linux's sample client back;       *)
(*   tty      answers the last line written to Linux's rpmsg tty.  Its     *)
(*            callback holds the line's buffer; the thread releases it.    *)
(*                                                                         *)
(* Each callback hands over one record and gives a semaphore that counts   *)
(* to one.  The threads are cooperative: what they do between two calls    *)
(* that may block is one action.  A message is its number; the prompt put  *)
(* before a line and the text are left out, as is the optional shell; only *)
(* that a line may have no text at all is kept.                            *)
(***************************************************************************)
EXTENDS Integers, Sequences, FiniteSets

CONSTANTS
    COUNT,      \* messages the client answers (100 in the code)
    NumBufs,    \* buffers of each vring (8 in the code)
    MaxLines    \* bound: lines written to the tty

ASSUME CountAssumption == COUNT \in Nat \ {0}
ASSUME BufsAssumption == NumBufs \in Nat \ {0}
ASSUME LinesAssumption == MaxLines \in Nat

Ept == {"client", "tty"}
None == 0       \* tty_msg.data = NULL, or no message yet

VARIABLES
    mngPc,      \* where rpmsg_mng_task is
    dataSem,    \* data_sem
    epts,       \* endpoints created and announced to Linux
    scSem,      \* data_sc_sem
    scMsg,      \* sc_msg: number of the message copied last
    clientPc,   \* where app_rpmsg_client_sample is
    msgCnt,     \* its local msg_cnt
    ttySem,     \* data_tty_sem
    ttyMsg,     \* tty_msg: number of the line whose buffer it points to
    ttyPc,      \* where app_rpmsg_tty is
    txBuff,     \* its local tx_buff: number of the line copied
    held,       \* lines whose buffers are held
    overlaps,   \* lines that came while another was unanswered (ghost)
    empties,    \* lines without text that were passed over (ghost)
    gaveUp,     \* has an rpmsg_send waited 15 s in vain? (ghost)
    toMcore,    \* vring 1: messages not yet given to a callback
    toLinux,    \* vring 0: messages not yet consumed by Linux
    kick,       \* has Linux a kick to deliver?
    pings,      \* messages the Linux client has sent
    replies,    \* the answers it has got
    lines,      \* lines written to the Linux tty (bound)
    empty       \* those of them without text: tty_msg.len = 0

clientVars == <<scSem, scMsg, clientPc, msgCnt>>
ttyVars == <<ttySem, ttyMsg, ttyPc, txBuff, held, overlaps, empties>>
lnxVars == <<kick, pings, replies, lines, empty>>
vars == <<mngPc, dataSem, epts, clientVars, ttyVars, gaveUp, toMcore, toLinux,
          lnxVars>>

Init ==
    /\ mngPc = "init" /\ dataSem = 0 /\ epts = {}
    /\ scSem = 0 /\ scMsg = None /\ clientPc = "wait" /\ msgCnt = 0
    /\ ttySem = 0 /\ ttyMsg = None /\ ttyPc = "wait" /\ txBuff = None
    /\ held = {} /\ overlaps = 0 /\ empties = 0 /\ gaveUp = FALSE
    /\ toMcore = <<>> /\ toLinux = <<>>
    /\ kick = FALSE /\ pings = 0 /\ replies = <<>> /\ lines = 0 /\ empty = {}

GivenWithoutLimit(sem) == sem + 1       \* mutant

\* k_sem_give on a semaphore whose limit is 1.
Given(sem) == 1

Message(e, n) == [ept |-> e, num |-> n]

-----------------------------------------------------------------------------
(* mng: rpmsg_mng_task and the endpoint callbacks.                         *)

\* platform_init and the vdev; the two semaphores start the other threads.
MngInit ==
    /\ mngPc = "init" /\ mngPc' = "take"
    /\ scSem' = Given(scSem) /\ ttySem' = Given(ttySem)
    /\ UNCHANGED <<dataSem, epts, scMsg, clientPc, msgCnt, ttyMsg, ttyPc, txBuff,
                   held, overlaps, empties, gaveUp, toMcore, toLinux, lnxVars>>

\* Either fails: cleanup_system, and nobody is woken.
MngInitFails ==
    /\ mngPc = "init" /\ mngPc' = "ended"
    /\ UNCHANGED <<dataSem, epts, clientVars, ttyVars, gaveUp, toMcore, toLinux,
                   lnxVars>>

\* receive_message: the semaphore of the mailbox interrupt ...
MngTake ==
    /\ mngPc = "take" /\ mngPc' = "notified"
    /\ dataSem = 1 /\ dataSem' = 0
    /\ UNCHANGED <<epts, clientVars, ttyVars, gaveUp, toMcore, toLinux, lnxVars>>

\* ... and rproc_virtio_notified, which goes on until vring 1 is empty.
MngDone ==
    /\ mngPc = "notified" /\ toMcore = <<>> /\ mngPc' = "take"
    /\ UNCHANGED <<dataSem, epts, clientVars, ttyVars, gaveUp, toMcore, toLinux,
                   lnxVars>>

OneMessage == "take"                    \* mutant
AfterMessage == "notified"

\* rpmsg_recv_cs_callback: the data is copied, the buffer goes back.
MngClient ==
    /\ mngPc = "notified" /\ toMcore # <<>> /\ Head(toMcore).ept = "client"
    /\ mngPc' = AfterMessage
    /\ toMcore' = Tail(toMcore)
    /\ scMsg' = Head(toMcore).num
    /\ scSem' = Given(scSem)
    /\ UNCHANGED <<dataSem, epts, clientPc, msgCnt, ttyVars, gaveUp, toLinux,
                   lnxVars>>

\* rpmsg_recv_tty_callback: the buffer is held and the record points to it.
MngTty ==
    /\ mngPc = "notified" /\ toMcore # <<>> /\ Head(toMcore).ept = "tty"
    /\ mngPc' = AfterMessage
    /\ toMcore' = Tail(toMcore)
    /\ held' = held \cup {Head(toMcore).num}
    /\ ttyMsg' = Head(toMcore).num
    /\ ttySem' = Given(ttySem)
    /\ overlaps' = overlaps + (IF ttyMsg = None THEN 0 ELSE 1)
    /\ UNCHANGED <<dataSem, epts, clientVars, ttyPc, txBuff, empties, gaveUp,
                   toLinux, lnxVars>>

-----------------------------------------------------------------------------
(* client: app_rpmsg_client_sample.                                        *)

HasRoom == Len(toLinux) < NumBufs

\* rpmsg_send: the message is copied into a free buffer, for which the call
\* waits; after 15 seconds it gives up, and its result is not looked at.
Send(m) == \/ HasRoom /\ toLinux' = Append(toLinux, m) /\ UNCHANGED gaveUp
           \/ ~HasRoom /\ gaveUp' = TRUE /\ UNCHANGED toLinux

\* The platform is up.
ClientStart ==
    /\ clientPc = "wait" /\ clientPc' = "create"
    /\ scSem = 1 /\ scSem' = 0
    /\ UNCHANGED <<mngPc, dataSem, epts, scMsg, msgCnt, ttyVars, gaveUp, toMcore,
                   toLinux, lnxVars>>

\* rpmsg_create_ept: the thread ends when it fails.
ClientCreate ==
    /\ clientPc = "create"
    /\ \/ clientPc' = "take" /\ epts' = epts \cup {"client"}
       \/ clientPc' = "ended" /\ UNCHANGED epts
    /\ UNCHANGED <<mngPc, dataSem, scSem, scMsg, msgCnt, ttyVars, gaveUp, toMcore,
                   toLinux, lnxVars>>

ClientTake ==
    /\ clientPc = "take" /\ clientPc' = "send"
    /\ scSem = 1 /\ scSem' = 0
    /\ msgCnt' = msgCnt + 1
    /\ UNCHANGED <<mngPc, dataSem, epts, scMsg, ttyVars, gaveUp, toMcore, toLinux,
                   lnxVars>>

OneShort == msgCnt + 1 < COUNT          \* mutant
MoreToAnswer == msgCnt < COUNT

\* What is sent is what sc_msg holds when the buffer is filled.  After the
\* last message the endpoint is destroyed.
ClientSend ==
    /\ clientPc = "send"
    /\ Send(Message("client", scMsg))
    /\ IF MoreToAnswer THEN clientPc' = "take" /\ UNCHANGED epts
                       ELSE clientPc' = "ended" /\ epts' = epts \ {"client"}
    /\ UNCHANGED <<mngPc, dataSem, scSem, scMsg, msgCnt, ttyVars, toMcore, lnxVars>>

-----------------------------------------------------------------------------
(* tty: app_rpmsg_tty.                                                     *)

TtyStart ==
    /\ ttyPc = "wait" /\ ttyPc' = "create"
    /\ ttySem = 1 /\ ttySem' = 0
    /\ UNCHANGED <<mngPc, dataSem, epts, clientVars, ttyMsg, txBuff, held, overlaps,
                   empties, gaveUp, toMcore, toLinux, lnxVars>>

TtyCreate ==
    /\ ttyPc = "create"
    /\ \/ ttyPc' = "take" /\ epts' = epts \cup {"tty"}
       \/ ttyPc' = "ended" /\ UNCHANGED epts
    /\ UNCHANGED <<mngPc, dataSem, clientVars, ttySem, ttyMsg, txBuff, held,
                   overlaps, empties, gaveUp, toMcore, toLinux, lnxVars>>

KeptRecord == ttyMsg                    \* mutant
ClearedRecord == None

HasLength == ttyMsg # None /\ ttyMsg \notin empty

\* A line with text is copied to tx_buff.  Else the record is cleared, and the
\* buffer of a line without text, if that is what it points to, stays held.
TtyTake ==
    /\ ttyPc = "take"
    /\ ttySem = 1 /\ ttySem' = 0
    /\ IF HasLength
       THEN ttyPc' = "send" /\ txBuff' = ttyMsg /\ UNCHANGED <<ttyMsg, empties>>
       ELSE /\ ttyMsg' = ClearedRecord
            /\ empties' = empties + (IF ttyMsg = None THEN 0 ELSE 1)
            /\ UNCHANGED <<ttyPc, txBuff>>
    /\ UNCHANGED <<mngPc, dataSem, epts, clientVars, held, overlaps, gaveUp, toMcore,
                   toLinux, lnxVars>>

\* With the prompt a line may be too long for a buffer: rpmsg_send fails.
TooLong == UNCHANGED <<toLinux, gaveUp>>

\* After rpmsg_send the record, which may by now point to another buffer, is
\* used once more for the release, and cleared.
TtySend ==
    /\ ttyPc = "send" /\ ttyPc' = "take"
    /\ Send(Message("tty", txBuff)) \/ TooLong
    /\ held' = held \ {ttyMsg}
    /\ ttyMsg' = ClearedRecord
    /\ UNCHANGED <<mngPc, dataSem, epts, clientVars, ttySem, txBuff, overlaps,
                   empties, toMcore, lnxVars>>

-----------------------------------------------------------------------------
(* Linux: its sample client, its rpmsg tty and its side of the mailbox.    *)

\* A buffer is free unless its message is in the vring or is held.
LinuxHasBuffer == Len(toMcore) + Cardinality(held) < NumBufs

\* A message is put in vring 1; the kick is a step of its own.
LinuxPut(e, n) ==
    /\ e \in epts
    /\ LinuxHasBuffer
    /\ toMcore' = Append(toMcore, Message(e, n))
    /\ kick' = TRUE
    /\ UNCHANGED <<mngPc, dataSem, epts, clientVars, ttyVars, gaveUp, toLinux,
                   replies>>

\* The client sends its next message only after the answer to the last.
LinuxPing ==
    /\ pings < COUNT /\ Len(replies) = pings
    /\ LinuxPut("client", pings + 1)
    /\ pings' = pings + 1
    /\ UNCHANGED <<lines, empty>>

LinuxWriteLine ==
    /\ lines < MaxLines
    /\ LinuxPut("tty", lines + 1)
    /\ lines' = lines + 1
    /\ empty' \in {empty, empty \cup {lines + 1}}
    /\ UNCHANGED pings

\* The mailbox interrupt: platform_ipm_callback.
LinuxKick ==
    /\ kick /\ kick' = FALSE
    /\ dataSem' = Given(dataSem)
    /\ UNCHANGED <<mngPc, epts, clientVars, ttyVars, gaveUp, toMcore, toLinux, pings,
                   replies, lines, empty>>

LinuxRecv ==
    /\ toLinux # <<>> /\ toLinux' = Tail(toLinux)
    /\ replies' = IF Head(toLinux).ept = "client"
                  THEN Append(replies, Head(toLinux).num) ELSE replies
    /\ UNCHANGED <<mngPc, dataSem, epts, clientVars, ttyVars, gaveUp, toMcore, kick,
                   pings, lines, empty>>

-----------------------------------------------------------------------------
MngTask == MngInit \/ MngInitFails \/ MngTake \/ MngDone \/ MngClient \/ MngTty
ClientTask == ClientStart \/ ClientCreate \/ ClientTake \/ ClientSend
TtyTask == TtyStart \/ TtyCreate \/ TtyTake \/ TtySend
Linux == LinuxPing \/ LinuxWriteLine \/ LinuxKick \/ LinuxRecv

Next == MngTask \/ ClientTask \/ TtyTask \/ Linux

\* Every thread that can go on does, interrupts come, the Linux client goes
\* on as long as it is answered, and Linux consumes what it is sent.  Nobody
\* need write a line.
Spec == /\ Init /\ [][Next]_vars
        /\ WF_vars(MngTask) /\ WF_vars(ClientTask) /\ WF_vars(TtyTask)
        /\ WF_vars(LinuxKick) /\ WF_vars(LinuxPing) /\ WF_vars(LinuxRecv)

-----------------------------------------------------------------------------
(* Properties.                                                             *)

Semaphores == {0, 1}
Messages == [ept : Ept, num : Nat \ {None}]

\* Every variable keeps its type, no semaphore passes its limit, and vring 1
\* never has more messages than there are buffers, the held ones included.
TypeOK ==
    /\ mngPc \in {"init", "take", "notified", "ended"} /\ dataSem \in Semaphores
    /\ epts \subseteq Ept
    /\ scSem \in Semaphores /\ scMsg \in Nat /\ msgCnt \in 0 .. COUNT
    /\ clientPc \in {"wait", "create", "take", "send", "ended"}
    /\ ttySem \in Semaphores /\ ttyMsg \in Nat /\ txBuff \in Nat
    /\ ttyPc \in {"wait", "create", "take", "send", "ended"}
    /\ held \subseteq 1 .. lines /\ overlaps \in Nat /\ empties \in Nat
    /\ gaveUp \in BOOLEAN /\ kick \in BOOLEAN
    /\ toMcore \in Seq(Messages) /\ Len(toMcore) + Cardinality(held) <= NumBufs
    /\ toLinux \in Seq(Messages) /\ Len(toLinux) <= NumBufs
    /\ pings \in 0 .. COUNT /\ replies \in Seq(Nat)
    /\ lines \in Nat /\ empty \subseteq 1 .. lines

Answering == IF ttyMsg = None THEN {} ELSE {ttyMsg}

\* The buffer tty_msg points to is held, and of the others exactly one is
\* lost for good each time a line came before the one before was answered and
\* each time a line without text was passed over (lines 115 and 321-330):
\* lines with text, written one at a time, cost no buffer.
BuffersAccounted ==
    /\ Answering \subseteq held
    /\ Cardinality(held \ Answering) = overlaps + empties

\* mng never sleeps on a message: unless it is at work on vring 1, there is
\* an interrupt to come or the semaphore is up (lines 97 and 125-128).
NoMissedKick == toMcore # <<>> => mngPc = "notified" \/ kick \/ dataSem = 1

\* The client's semaphore is first the sign that the platform is up and then
\* that of a message, and its record is overwritten by each message; yet all
\* the messages of Linux's client come back, in order and unchanged.  It takes
\* a platform and an endpoint, and that the tty leaves a buffer to each side.
EchoesAll ==
    \/ <>[](replies = [n \in 1 .. COUNT |-> n])
    \/ []("client" \notin epts)
    \/ <>[](gaveUp \/ Cardinality(held) = NumBufs)
=============================================================================
