--------------------------- MODULE RpmsgPlatform ---------------------------
(***************************************************************************)
(* How the M core and Linux bring rpmsg up:                                *)
(* apps/main-app/src/rpmsg_platform.c and the features' first steps on it. *)
(*                                                                         *)
(*   mng      rpmsg_mng_task: resource table, vdev, vrings, NO_NOTIFY,     *)
(*            ready_sem, then the 1 ms poll of the mailbox and of vring 1; *)
(*   service  a feature's thread: rpmsg_platform_wait, then its endpoint,  *)
(*            whose announcement is a message and a kick;                  *)
(*   Linux    imx_rproc and virtio_rpmsg_bus, on another core: a step of   *)
(*            theirs may fall between any two of the M core's.             *)
(*                                                                         *)
(* The mailbox has one register each way that matters (index 1).  Linux's  *)
(* write ("kick") completes only when the M core reads it; the M core's    *)
(* is dropped when the register is still full.                             *)
(***************************************************************************)
EXTENDS Naturals

CONSTANTS
    Service,    \* threads that call rpmsg_platform_wait
    MayFail     \* can the calls of platform_init and create_vdev, and
                \* rpmsg_create_ept, fail?

ASSUME FailAssumption == MayFail \in BOOLEAN

Rings == {0, 1}     \* vring 0: M core -> Linux, vring 1: Linux -> M core
LinuxMailbox == 1   \* the channel imx_rproc listens to: mboxes = <&mu 1 1>

VARIABLES
    boot,       \* "load": Linux starts the M core; "attach": it is there first
    acksMu,     \* is mu_ack_rx compiled in? (i.MX8MP; not on the 8MM)
    tableBy,    \* who wrote the resource table Linux and the M core share
    vringDa,    \* the addresses of the vrings in it
    lnxPc,      \* how far Linux's bring-up is
    mngPc,      \* where rpmsg_mng_task is
    usedDa,     \* the vring addresses the M core has taken from the table
    noNotify,   \* VRING_USED_F_NO_NOTIFY of each used ring
    rpdev,      \* rpdev: NULL or the device
    readySem,   \* ready_sem
    svcPc,      \* where each service's thread is
    svcDev,     \* what rpmsg_platform_wait returned to it
    toLinux,    \* services whose announcement is in vring 0
    channels,   \* services Linux has made a device for
    toMcore,    \* services with a "hi" in vring 1
    bound,      \* services whose endpoint callback has had its "hi"
    muOut,      \* mailbox channels with an unread word for Linux
    lnxWork,    \* has Linux's work that looks at all the queues been scheduled?
    muIn,       \* is the register Linux writes still unread?
    kick,       \* Linux's kick for each ring
    lateKicks   \* kicks for each ring once the platform is up (ghost)

tableVars == <<boot, acksMu, tableBy, vringDa>>
mngVars == <<mngPc, usedDa, rpdev>>
svcVars == <<svcPc, svcDev>>
ringVars == <<toLinux, channels, toMcore, bound>>
lnxVars == <<lnxPc, lnxWork, kick, lateKicks>>
vars == <<tableVars, mngVars, noNotify, readySem, svcVars, ringVars,
          muOut, muIn, lnxVars>>

\* Loaded by Linux, the M core finds a table with the vrings filled in;
\* started before Linux, it finds memory that holds no table.
Init ==
    /\ boot \in {"load", "attach"} /\ acksMu \in BOOLEAN
    /\ tableBy = (IF boot = "load" THEN "linux" ELSE "nobody")
    /\ vringDa = (IF boot = "load" THEN "linux" ELSE "unset")
    /\ lnxPc = (IF boot = "load" THEN "probe" ELSE "attach")
    /\ mngPc = "init" /\ usedDa = "none" /\ rpdev = "null" /\ readySem = 0
    /\ noNotify = [r \in Rings |-> FALSE]
    /\ svcPc = [s \in Service |-> "wait"]
    /\ svcDev = [s \in Service |-> "none"]
    /\ toLinux = {} /\ channels = {} /\ toMcore = {} /\ bound = {}
    /\ muOut = {} /\ muIn = FALSE /\ lnxWork = FALSE
    /\ kick = [r \in Rings |-> "idle"] /\ lateKicks = [r \in Rings |-> 0]

-----------------------------------------------------------------------------
(* rpmsg_mng_task.                                                         *)

MngGoto(from, to) == mngPc = from /\ mngPc' = to

\* platform_init: metal_init, then a table with version 1 is Linux's.
AlwaysPublish == FALSE    \* mutant
Version1 == tableBy # "nobody"

MngCheckTable ==
    /\ MngGoto("init", IF Version1 THEN "ipm" ELSE "publish")
    /\ UNCHANGED <<tableVars, usedDa, rpdev, noNotify, readySem, svcVars,
                   ringVars, muOut, muIn, lnxVars>>

\* The linked table has no vring addresses yet.
MngPublish ==
    /\ MngGoto("publish", "ipm")
    /\ tableBy' = "mcore" /\ vringDa' = "unset"
    /\ UNCHANGED <<boot, acksMu, usedDa, rpdev, noNotify, readySem, svcVars,
                   ringVars, muOut, muIn, lnxVars>>

\* device_is_ready, ipm_register_callback and rproc_virtio_create_vdev.
MngCreateVdev ==
    /\ MngGoto("ipm", "remote")
    /\ UNCHANGED <<tableVars, usedDa, rpdev, noNotify, readySem, svcVars,
                   ringVars, muOut, muIn, lnxVars>>

RemoteReady == lnxPc = "up"

MngWaitRemote ==
    /\ RemoteReady
    /\ MngGoto("remote", "vrings")
    /\ UNCHANGED <<tableVars, usedDa, rpdev, noNotify, readySem, svcVars,
                   ringVars, muOut, muIn, lnxVars>>

\* Both vrings and rpmsg_init_vdev; the core does not block between them.
MngInitVdev ==
    /\ MngGoto("vrings", "flag1")
    /\ usedDa' = vringDa
    /\ UNCHANGED <<tableVars, rpdev, noNotify, readySem, svcVars, ringVars,
                   muOut, muIn, lnxVars>>

NoNotifyOnlyRing1(r) ==    \* mutant
    /\ \/ r = 1 /\ MngGoto("flag1", "flag0")
       \/ r = 0 /\ MngGoto("flag0", "dev")
    /\ noNotify' = [noNotify EXCEPT ![1] = TRUE]
    /\ UNCHANGED <<tableVars, usedDa, rpdev, readySem, svcVars, ringVars,
                   muOut, muIn, lnxVars>>

MngNoNotify(r) ==
    /\ \/ r = 1 /\ MngGoto("flag1", "flag0")
       \/ r = 0 /\ MngGoto("flag0", "dev")
    /\ noNotify' = [noNotify EXCEPT ![r] = TRUE]
    /\ UNCHANGED <<tableVars, usedDa, rpdev, readySem, svcVars, ringVars,
                   muOut, muIn, lnxVars>>

MngSetDev ==
    /\ MngGoto("dev", "give")
    /\ rpdev' = "dev"
    /\ UNCHANGED <<tableVars, usedDa, noNotify, readySem, svcVars, ringVars,
                   muOut, muIn, lnxVars>>

\* metal_init, the mailbox device, the vdev, a vring or rpmsg_init_vdev.
MngFail ==
    /\ MayFail
    /\ \E pc \in {"init", "ipm", "vrings"} : MngGoto(pc, "give")
    /\ UNCHANGED <<tableVars, usedDa, rpdev, noNotify, readySem, svcVars,
                   ringVars, muOut, muIn, lnxVars>>

GiveOnSuccess ==    \* mutant
    /\ MngGoto("give", IF rpdev = "null" THEN "ended" ELSE "poll")
    /\ readySem' = IF rpdev = "null" THEN readySem ELSE 1
    /\ UNCHANGED <<tableVars, usedDa, rpdev, noNotify, svcVars, ringVars,
                   muOut, muIn, lnxVars>>

\* Success or not, ready_sem is given once; without a device the task ends.
MngGive ==
    /\ MngGoto("give", IF rpdev = "null" THEN "ended" ELSE "poll")
    /\ readySem' = 1
    /\ UNCHANGED <<tableVars, usedDa, rpdev, noNotify, svcVars, ringVars,
                   muOut, muIn, lnxVars>>

AckMuNever ==    \* mutant
    /\ MngGoto("poll", "rx")
    /\ UNCHANGED <<tableVars, usedDa, rpdev, noNotify, readySem, svcVars,
                   ringVars, muOut, muIn, lnxVars>>

WaitForKick ==    \* mutant
    /\ MngGoto("poll", "rx") /\ muIn
    /\ muIn' = (muIn /\ ~acksMu)
    /\ UNCHANGED <<tableVars, usedDa, rpdev, noNotify, readySem, svcVars,
                   ringVars, muOut, lnxVars>>

\* A round of the loop: data_sem is never given (the mailbox interrupt stays
\* off), so it is the 1 ms that passes.
MngAckMu ==
    /\ MngGoto("poll", "rx")
    /\ muIn' = (muIn /\ ~acksMu)
    /\ UNCHANGED <<tableVars, usedDa, rpdev, noNotify, readySem, svcVars,
                   ringVars, muOut, lnxVars>>

MngNotified ==
    /\ MngGoto("rx", "poll")
    /\ bound' = bound \cup toMcore
    /\ toMcore' = {}
    /\ UNCHANGED <<tableVars, usedDa, rpdev, noNotify, readySem, svcVars,
                   toLinux, channels, muOut, muIn, lnxVars>>

-----------------------------------------------------------------------------
(* A service's thread.                                                     *)

SemaphoreCounts == readySem + 1    \* mutant

\* rpmsg_platform_wait: who takes ready_sem gives it back for the next one.
AfterTake == 1

ServiceDoesNotWait(s) ==    \* mutant
    /\ svcPc[s] = "wait"
    /\ svcDev' = [svcDev EXCEPT ![s] = rpdev]
    /\ svcPc' = [svcPc EXCEPT ![s] = IF rpdev = "null" THEN "ended" ELSE "create"]
    /\ UNCHANGED <<tableVars, mngVars, noNotify, readySem, ringVars, muOut,
                   muIn, lnxVars>>

ServiceWait(s) ==
    /\ svcPc[s] = "wait" /\ readySem = 1
    /\ readySem' = AfterTake
    /\ svcDev' = [svcDev EXCEPT ![s] = rpdev]
    /\ svcPc' = [svcPc EXCEPT ![s] = IF rpdev = "null" THEN "ended" ELSE "create"]
    /\ UNCHANGED <<tableVars, mngVars, noNotify, ringVars, muOut, muIn, lnxVars>>

\* rpmsg_create_ept puts the announcement in vring 0 ...
ServiceCreate(s) ==
    /\ svcPc[s] = "create"
    /\ toLinux' = toLinux \cup {s}
    /\ svcPc' = [svcPc EXCEPT ![s] = "kick"]
    /\ UNCHANGED <<tableVars, mngVars, noNotify, readySem, svcDev, channels,
                   toMcore, bound, muOut, muIn, lnxVars>>

\* ... or fails: the thread logs it and returns.
ServiceCreateFails(s) ==
    /\ MayFail /\ svcPc[s] = "create"
    /\ svcPc' = [svcPc EXCEPT ![s] = "ended"]
    /\ UNCHANGED <<tableVars, mngVars, noNotify, readySem, svcDev, ringVars,
                   muOut, muIn, lnxVars>>

ChannelOfVring(id) == id    \* mutant

\* ... and kicks, through mailbox_notify, which ignores the vring's id.
Channel(id) == 1

ServiceKick(s) ==
    /\ svcPc[s] = "kick"
    /\ muOut' = muOut \cup {Channel(0)}
    /\ svcPc' = [svcPc EXCEPT ![s] = "up"]
    /\ UNCHANGED <<tableVars, mngVars, noNotify, readySem, svcDev, ringVars,
                   muIn, lnxVars>>

-----------------------------------------------------------------------------
(* Linux.                                                                  *)

\* imx_rproc attaches: it reads the table the M core has, or has not, written.
LinuxAttach ==
    /\ lnxPc = "attach"
    /\ lnxPc' = IF Version1 THEN "vrings" ELSE "no_table"
    /\ UNCHANGED <<tableVars, mngVars, noNotify, readySem, svcVars, ringVars,
                   muOut, muIn, lnxWork, kick, lateKicks>>

\* It allocates the vrings, clears them and puts their addresses in the table.
LinuxVrings ==
    /\ lnxPc = "vrings" /\ lnxPc' = "probe"
    /\ vringDa' = "linux"
    /\ noNotify' = [r \in Rings |-> FALSE]
    /\ UNCHANGED <<boot, acksMu, tableBy, mngVars, readySem, svcVars, ringVars,
                   muOut, muIn, lnxWork, kick, lateKicks>>

\* A kick: Linux reads the flag of the used ring, and later notifies.
Prepared(r) == IF noNotify[r] THEN "idle" ELSE "notify"

\* virtio_rpmsg_bus: DRIVER_OK, and the kick for the buffers it has offered.
LinuxProbe ==
    /\ lnxPc = "probe" /\ lnxPc' = "up"
    /\ kick' = [kick EXCEPT ![0] = Prepared(0)]
    /\ UNCHANGED <<tableVars, mngVars, noNotify, readySem, svcVars, ringVars,
                   muOut, muIn, lnxWork, lateKicks>>

LinuxNotify(r) ==
    /\ kick[r] = "notify" /\ \A q \in Rings : kick[q] # "waiting"
    /\ kick' = [kick EXCEPT ![r] = "waiting"]
    /\ muIn' = TRUE
    /\ lateKicks' = [lateKicks EXCEPT ![r] = IF rpdev = "dev" THEN @ + 1 ELSE @]
    /\ UNCHANGED <<tableVars, mngVars, noNotify, readySem, svcVars, ringVars,
                   muOut, lnxPc, lnxWork>>

\* The M core has read the word, or Linux gives up after tx_tout = 100 ms.
\* It does not give up on a core that reads the mailbox every millisecond.
LinuxNotified(r) ==
    /\ kick[r] = "waiting"
    /\ muIn => ~(acksMu /\ mngPc \in {"poll", "rx"})
    /\ kick' = [kick EXCEPT ![r] = "idle"]
    /\ UNCHANGED <<tableVars, mngVars, noNotify, readySem, svcVars, ringVars,
                   muOut, muIn, lnxPc, lnxWork, lateKicks>>

LinuxIsr ==
    /\ LinuxMailbox \in muOut
    /\ muOut' = muOut \ {LinuxMailbox}
    /\ lnxWork' = TRUE
    /\ UNCHANGED <<tableVars, mngVars, noNotify, readySem, svcVars, ringVars,
                   muIn, lnxPc, kick, lateKicks>>

\* The work makes a device of an announcement; its buffer goes back to
\* vring 0, with a kick.
LinuxAnnounced(s) ==
    /\ lnxWork /\ s \in toLinux /\ kick[0] = "idle"
    /\ toLinux' = toLinux \ {s}
    /\ channels' = channels \cup {s}
    /\ kick' = [kick EXCEPT ![0] = Prepared(0)]
    /\ UNCHANGED <<tableVars, mngVars, noNotify, readySem, svcVars, toMcore,
                   bound, muOut, muIn, lnxPc, lnxWork, lateKicks>>

\* A driver for the device, if Linux has one, binds when it is loaded and sends
\* its "hi" through vring 1.
LinuxBind(s) ==
    /\ s \in channels \ (toMcore \cup bound) /\ kick[1] = "idle"
    /\ toMcore' = toMcore \cup {s}
    /\ kick' = [kick EXCEPT ![1] = Prepared(1)]
    /\ UNCHANGED <<tableVars, mngVars, noNotify, readySem, svcVars, toLinux,
                   channels, bound, muOut, muIn, lnxPc, lnxWork, lateKicks>>

LinuxWorkDone ==
    /\ lnxWork /\ toLinux = {}
    /\ lnxWork' = FALSE
    /\ UNCHANGED <<tableVars, mngVars, noNotify, readySem, svcVars, ringVars,
                   muOut, muIn, lnxPc, kick, lateKicks>>

-----------------------------------------------------------------------------
Mng == \/ MngCheckTable \/ MngPublish \/ MngCreateVdev \/ MngWaitRemote
       \/ MngInitVdev \/ \E r \in Rings : MngNoNotify(r)
       \/ MngSetDev \/ MngFail \/ MngGive \/ MngAckMu \/ MngNotified
ServiceTask(s) == \/ ServiceWait(s) \/ ServiceCreate(s)
                  \/ ServiceCreateFails(s) \/ ServiceKick(s)
LinuxBringUp == LinuxAttach \/ LinuxVrings \/ LinuxProbe
LinuxKick == \E r \in Rings : LinuxNotify(r) \/ LinuxNotified(r)
LinuxQueues == \/ LinuxIsr \/ LinuxWorkDone
               \/ \E s \in Service : LinuxAnnounced(s)

Next == \/ Mng \/ (\E s \in Service : ServiceTask(s))
        \/ LinuxBringUp \/ LinuxKick \/ LinuxQueues
        \/ \E s \in Service : LinuxBind(s)

\* The threads of the M core run when they can; so do Linux's mailbox and
\* queue handlers.  Nothing is assumed of when, or whether, Linux comes up or
\* one of its drivers binds.
Fairness == /\ WF_vars(Mng)
            /\ \A s \in Service : WF_vars(ServiceTask(s))
            /\ WF_vars(LinuxKick) /\ WF_vars(LinuxQueues)

Spec == Init /\ [][Next]_vars /\ Fairness

-----------------------------------------------------------------------------
(* Properties.                                                             *)

MngPcs == {"init", "publish", "ipm", "remote", "vrings", "flag1", "flag0",
           "dev", "give", "poll", "rx", "ended"}

\* The types of the variables.
TypeOK ==
    /\ boot \in {"load", "attach"} /\ acksMu \in BOOLEAN
    /\ tableBy \in {"nobody", "linux", "mcore"}
    /\ vringDa \in {"unset", "linux"}
    /\ lnxPc \in {"attach", "no_table", "vrings", "probe", "up"}
    /\ mngPc \in MngPcs
    /\ usedDa \in {"none", "unset", "linux"}
    /\ noNotify \in [Rings -> BOOLEAN]
    /\ rpdev \in {"null", "dev"} /\ readySem \in {0, 1}
    /\ svcPc \in [Service -> {"wait", "create", "kick", "up", "ended"}]
    /\ svcDev \in [Service -> {"none", "null", "dev"}]
    /\ toLinux \subseteq Service /\ channels \subseteq Service
    /\ toMcore \subseteq Service /\ bound \subseteq Service
    /\ muOut \subseteq {0, 1} /\ muIn \in BOOLEAN /\ lnxWork \in BOOLEAN
    /\ kick \in [Rings -> {"idle", "notify", "waiting"}]
    /\ lateKicks \in [Rings -> Nat]

\* The vrings the M core works on are the ones Linux allocated, on both boot
\* paths: a table Linux has filled in is not published over, and the
\* addresses are not read before Linux has put them there.
VringsOfLinux == usedDa # "none" => usedDa = "linux"

\* NO_NOTIFY stops Linux's kicks: once the platform is up there is at most one
\* more for each ring, the kick Linux had already decided on.
KicksStop == \A r \in Rings : lateKicks[r] <= 1

\* No announcement is left in vring 0 with Linux unaware of it, though a kick
\* on a full mailbox is dropped: a word is there to be read, the work that
\* looks at the queues is scheduled, or the kick is about to be made.
NoLostKick ==
    toLinux # {} => \/ LinuxMailbox \in muOut \/ lnxWork
                    \/ \E s \in Service : svcPc[s] = "kick"

\* The platform is a latch: it comes up or fails once, and every service is
\* told the same, none before that.
Outcome == IF readySem = 0 THEN "none" ELSE rpdev
Latch == INSTANCE ReadyLatch WITH outcome <- Outcome, answer <- svcDev
LatchSpec == Latch!Spec

\* Whether Linux comes up or the platform fails, no service waits for ever.
EveryoneAnswered ==
    (RemoteReady \/ mngPc = "ended") ~> \A s \in Service : svcDev[s] # "none"

\* Linux's kick is not left to its timeout for ever, though nobody reads the
\* mailbox until the bring-up is over: a core that comes up reads it (8MP).
KickAnswered == (acksMu /\ muIn) ~> (~muIn \/ mngPc = "ended")

\* When the platform comes up, Linux makes a device for every service whose
\* endpoint could be created, and whatever "hi" a driver sends is heard,
\* without an interrupt on the M core.
EveryoneBound ==
    \A s \in Service :
        /\ (rpdev = "dev") ~> (s \in channels \/ svcPc[s] = "ended")
        /\ (s \in toMcore) ~> (s \in bound)
=============================================================================
