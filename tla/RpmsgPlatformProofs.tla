------------------------ MODULE RpmsgPlatformProofs ------------------------
(***************************************************************************)
(* Proofs about RpmsgPlatform for every set of services: its type          *)
(* invariant, its three safety properties, the refinement of the latch,    *)
(* and that no service is forgotten on its way to Linux.                   *)
(***************************************************************************)
EXTENDS RpmsgPlatform, TLAPS

\* What is known of the bring-up at each point of the management task.
BeforeRemote == {"init", "publish", "ipm", "remote"}
Linked == {"vrings", "flag1", "flag0", "dev", "poll", "rx"}

\* Linux's side: the vring addresses stand once Linux has a table to probe,
\* and an M core that has not looked at the table yet cannot be linked.
TableInv ==
    /\ boot = "load" => tableBy = "linux"
    /\ boot = "attach" => tableBy # "linux"
    /\ tableBy = "linux" => lnxPc \in {"probe", "up"}
    /\ lnxPc \in {"probe", "up"} => vringDa = "linux"
    /\ mngPc = "publish" => tableBy = "nobody"
    /\ tableBy = "nobody" => lnxPc \in {"attach", "no_table"}

\* The M core's side: past rproc_virtio_wait_remote_ready Linux is up, and the
\* vrings, the flags and rpdev are set one after the other.
LinkInv ==
    /\ mngPc \in Linked => lnxPc = "up"
    /\ usedDa # "none" => usedDa = "linux"
    /\ mngPc \in {"flag0", "dev", "poll", "rx"} => noNotify[1]
    /\ mngPc \in {"dev", "poll", "rx"} => noNotify[0]
    /\ rpdev = "dev" => /\ mngPc \in {"give", "poll", "rx"}
                        /\ lnxPc = "up"
                        /\ \A r \in Rings : noNotify[r]
    /\ rpdev = "null" => mngPc \notin {"poll", "rx"}

\* Late kicks are the ones prepared before the flag.
KickInv ==
    \A r \in Rings :
        /\ rpdev = "null" => lateKicks[r] = 0
        /\ lateKicks[r] <= 1
        /\ kick[r] = "notify" => lateKicks[r] = 0

\* ready_sem is given once, at the end of the bring-up, and stays given.
LatchInv ==
    /\ readySem = 1 <=> mngPc \in {"poll", "rx", "ended"}
    /\ \A s \in Service : svcPc[s] = "wait" <=> svcDev[s] = "none"

IInv == TypeOK /\ TableInv /\ LinkInv /\ KickInv /\ LatchInv /\ NoLostKick

\* Every step keeps the types.
LEMMA TypeStep ==
    ASSUME TypeOK, [Next]_vars
    PROVE  TypeOK'
<1> USE DEF TypeOK, MngPcs, Rings, tableVars, mngVars,
        svcVars, ringVars, lnxVars
<1>1. ASSUME MngCheckTable PROVE TypeOK'
  BY <1>1 DEF MngCheckTable, MngGoto, Version1
<1>2. ASSUME MngPublish PROVE TypeOK'
  BY <1>2 DEF MngPublish, MngGoto
<1>3. ASSUME MngCreateVdev PROVE TypeOK'
  BY <1>3 DEF MngCreateVdev, MngGoto
<1>4. ASSUME MngWaitRemote PROVE TypeOK'
  BY <1>4 DEF MngWaitRemote, MngGoto, RemoteReady
<1>5. ASSUME MngInitVdev PROVE TypeOK'
  BY <1>5 DEF MngInitVdev, MngGoto
<1>6. ASSUME NEW r \in Rings, MngNoNotify(r) PROVE TypeOK'
  BY <1>6 DEF MngNoNotify, MngGoto
<1>7. ASSUME MngSetDev PROVE TypeOK'
  BY <1>7 DEF MngSetDev, MngGoto
<1>8. ASSUME MngFail PROVE TypeOK'
  BY <1>8 DEF MngFail, MngGoto
<1>9. ASSUME MngGive PROVE TypeOK'
  BY <1>9 DEF MngGive, MngGoto
<1>10. ASSUME MngAckMu PROVE TypeOK'
  BY <1>10 DEF MngAckMu, MngGoto
<1>11. ASSUME MngNotified PROVE TypeOK'
  BY <1>11 DEF MngNotified, MngGoto
<1>12. ASSUME NEW s \in Service, ServiceWait(s) PROVE TypeOK'
  BY <1>12 DEF ServiceWait, AfterTake
<1>13. ASSUME NEW s \in Service, ServiceCreate(s) PROVE TypeOK'
  BY <1>13 DEF ServiceCreate
<1>14. ASSUME NEW s \in Service, ServiceKick(s) PROVE TypeOK'
  BY <1>14 DEF ServiceKick, Channel, LinuxMailbox
<1>15. ASSUME LinuxAttach PROVE TypeOK'
  BY <1>15 DEF LinuxAttach, Version1
<1>16. ASSUME LinuxVrings PROVE TypeOK'
  BY <1>16 DEF LinuxVrings
<1>17. ASSUME LinuxProbe PROVE TypeOK'
  BY <1>17 DEF LinuxProbe, Prepared
<1>18. ASSUME NEW r \in Rings, LinuxNotify(r) PROVE TypeOK'
  BY <1>18 DEF LinuxNotify
<1>19. ASSUME NEW r \in Rings, LinuxNotified(r) PROVE TypeOK'
  BY <1>19 DEF LinuxNotified
<1>20. ASSUME LinuxIsr PROVE TypeOK'
  BY <1>20 DEF LinuxIsr, LinuxMailbox
<1>21. ASSUME NEW s \in Service, LinuxAnnounced(s) PROVE TypeOK'
  BY <1>21 DEF LinuxAnnounced, Prepared
<1>22. ASSUME LinuxWorkDone PROVE TypeOK'
  <2>1. lnxWork' \in BOOLEAN
    BY <1>22 DEF LinuxWorkDone
  <2> QED
    BY <1>22, <2>1, SMTT(30) DEF LinuxWorkDone
<1>23. ASSUME UNCHANGED vars PROVE TypeOK'
  BY <1>23 DEF vars
<1>24. ASSUME NEW s \in Service, ServiceCreateFails(s) PROVE TypeOK'
  BY <1>24 DEF ServiceCreateFails
<1>25. ASSUME NEW s \in Service, LinuxBind(s) PROVE TypeOK'
  BY <1>25 DEF LinuxBind, Prepared
<1> QED
  BY <1>1, <1>2, <1>3, <1>4, <1>5, <1>6, <1>7, <1>8, <1>9, <1>10, <1>11, <1>12, <1>13, <1>14, <1>15, <1>16, <1>17, <1>18, <1>19, <1>20, <1>21, <1>22, <1>23, <1>24, <1>25
     DEF Next, Mng, ServiceTask, LinuxBringUp, LinuxKick, LinuxQueues

\* Every step keeps the resource table in order.
LEMMA TableStep ==
    ASSUME TypeOK, TableInv, LinkInv, [Next]_vars
    PROVE  TableInv'
<1> USE DEF TypeOK, MngPcs, TableInv, tableVars, mngVars,
        svcVars, ringVars, lnxVars
<1>1. ASSUME MngCheckTable PROVE TableInv'
  BY <1>1 DEF MngCheckTable, MngGoto, Version1
<1>2. ASSUME MngPublish PROVE TableInv'
  BY <1>2 DEF MngPublish, MngGoto
<1>3. ASSUME MngCreateVdev PROVE TableInv'
  BY <1>3 DEF MngCreateVdev, MngGoto
<1>4. ASSUME MngWaitRemote PROVE TableInv'
  BY <1>4 DEF MngWaitRemote, MngGoto, RemoteReady
<1>5. ASSUME MngInitVdev PROVE TableInv'
  BY <1>5 DEF MngInitVdev, MngGoto
<1>6. ASSUME NEW r \in Rings, MngNoNotify(r) PROVE TableInv'
  BY <1>6 DEF MngNoNotify, MngGoto
<1>7. ASSUME MngSetDev PROVE TableInv'
  BY <1>7 DEF MngSetDev, MngGoto
<1>8. ASSUME MngFail PROVE TableInv'
  BY <1>8 DEF MngFail, MngGoto
<1>9. ASSUME MngGive PROVE TableInv'
  BY <1>9 DEF MngGive, MngGoto
<1>10. ASSUME MngAckMu PROVE TableInv'
  BY <1>10 DEF MngAckMu, MngGoto
<1>11. ASSUME MngNotified PROVE TableInv'
  BY <1>11 DEF MngNotified, MngGoto
<1>12. ASSUME NEW s \in Service, ServiceWait(s) PROVE TableInv'
  BY <1>12 DEF ServiceWait, AfterTake
<1>13. ASSUME NEW s \in Service, ServiceCreate(s) PROVE TableInv'
  BY <1>13 DEF ServiceCreate
<1>14. ASSUME NEW s \in Service, ServiceKick(s) PROVE TableInv'
  BY <1>14 DEF ServiceKick, Channel, LinuxMailbox
<1>15. ASSUME LinuxAttach PROVE TableInv'
  BY <1>15 DEF LinuxAttach, Version1
<1>16. ASSUME LinuxVrings PROVE TableInv'
  BY <1>16 DEF LinuxVrings
<1>17. ASSUME LinuxProbe PROVE TableInv'
  BY <1>17 DEF LinuxProbe, Prepared
<1>18. ASSUME NEW r \in Rings, LinuxNotify(r) PROVE TableInv'
  BY <1>18 DEF LinuxNotify
<1>19. ASSUME NEW r \in Rings, LinuxNotified(r) PROVE TableInv'
  BY <1>19 DEF LinuxNotified
<1>20. ASSUME LinuxIsr PROVE TableInv'
  BY <1>20 DEF LinuxIsr, LinuxMailbox
<1>21. ASSUME NEW s \in Service, LinuxAnnounced(s) PROVE TableInv'
  BY <1>21 DEF LinuxAnnounced, Prepared
<1>22. ASSUME LinuxWorkDone PROVE TableInv'
  BY <1>22 DEF LinuxWorkDone
<1>23. ASSUME UNCHANGED vars PROVE TableInv'
  BY <1>23 DEF vars
<1>24. ASSUME NEW s \in Service, ServiceCreateFails(s) PROVE TableInv'
  BY <1>24 DEF ServiceCreateFails
<1>25. ASSUME NEW s \in Service, LinuxBind(s) PROVE TableInv'
  BY <1>25 DEF LinuxBind, Prepared
<1> QED
  BY <1>1, <1>2, <1>3, <1>4, <1>5, <1>6, <1>7, <1>8, <1>9, <1>10, <1>11, <1>12, <1>13, <1>14, <1>15, <1>16, <1>17, <1>18, <1>19, <1>20, <1>21, <1>22, <1>23, <1>24, <1>25
     DEF Next, Mng, ServiceTask, LinuxBringUp, LinuxKick, LinuxQueues

\* Every step keeps the bring-up in order.
LEMMA LinkStep ==
    ASSUME TypeOK, TableInv, LinkInv, [Next]_vars
    PROVE  LinkInv'
<1> USE DEF TypeOK, TableInv, LinkInv, Linked, Rings, tableVars, mngVars,
        svcVars, ringVars, lnxVars
<1>1. ASSUME MngCheckTable PROVE LinkInv'
  BY <1>1 DEF MngCheckTable, MngGoto, Version1
<1>2. ASSUME MngPublish PROVE LinkInv'
  BY <1>2 DEF MngPublish, MngGoto
<1>3. ASSUME MngCreateVdev PROVE LinkInv'
  BY <1>3 DEF MngCreateVdev, MngGoto
<1>4. ASSUME MngWaitRemote PROVE LinkInv'
  BY <1>4 DEF MngWaitRemote, MngGoto, RemoteReady
<1>5. ASSUME MngInitVdev PROVE LinkInv'
  BY <1>5 DEF MngInitVdev, MngGoto
<1>6. ASSUME NEW r \in Rings, MngNoNotify(r) PROVE LinkInv'
  BY <1>6 DEF MngNoNotify, MngGoto
<1>7. ASSUME MngSetDev PROVE LinkInv'
  BY <1>7 DEF MngSetDev, MngGoto
<1>8. ASSUME MngFail PROVE LinkInv'
  BY <1>8 DEF MngFail, MngGoto
<1>9. ASSUME MngGive PROVE LinkInv'
  BY <1>9 DEF MngGive, MngGoto
<1>10. ASSUME MngAckMu PROVE LinkInv'
  BY <1>10 DEF MngAckMu, MngGoto
<1>11. ASSUME MngNotified PROVE LinkInv'
  BY <1>11 DEF MngNotified, MngGoto
<1>12. ASSUME NEW s \in Service, ServiceWait(s) PROVE LinkInv'
  BY <1>12 DEF ServiceWait, AfterTake
<1>13. ASSUME NEW s \in Service, ServiceCreate(s) PROVE LinkInv'
  BY <1>13 DEF ServiceCreate
<1>14. ASSUME NEW s \in Service, ServiceKick(s) PROVE LinkInv'
  BY <1>14 DEF ServiceKick, Channel, LinuxMailbox
<1>15. ASSUME LinuxAttach PROVE LinkInv'
  BY <1>15 DEF LinuxAttach, Version1
<1>16. ASSUME LinuxVrings PROVE LinkInv'
  BY <1>16 DEF LinuxVrings
<1>17. ASSUME LinuxProbe PROVE LinkInv'
  BY <1>17 DEF LinuxProbe, Prepared
<1>18. ASSUME NEW r \in Rings, LinuxNotify(r) PROVE LinkInv'
  BY <1>18 DEF LinuxNotify
<1>19. ASSUME NEW r \in Rings, LinuxNotified(r) PROVE LinkInv'
  BY <1>19 DEF LinuxNotified
<1>20. ASSUME LinuxIsr PROVE LinkInv'
  BY <1>20 DEF LinuxIsr, LinuxMailbox
<1>21. ASSUME NEW s \in Service, LinuxAnnounced(s) PROVE LinkInv'
  BY <1>21 DEF LinuxAnnounced, Prepared
<1>22. ASSUME LinuxWorkDone PROVE LinkInv'
  BY <1>22 DEF LinuxWorkDone
<1>23. ASSUME UNCHANGED vars PROVE LinkInv'
  BY <1>23 DEF vars
<1>24. ASSUME NEW s \in Service, ServiceCreateFails(s) PROVE LinkInv'
  BY <1>24 DEF ServiceCreateFails
<1>25. ASSUME NEW s \in Service, LinuxBind(s) PROVE LinkInv'
  BY <1>25 DEF LinuxBind, Prepared
<1> QED
  BY <1>1, <1>2, <1>3, <1>4, <1>5, <1>6, <1>7, <1>8, <1>9, <1>10, <1>11, <1>12, <1>13, <1>14, <1>15, <1>16, <1>17, <1>18, <1>19, <1>20, <1>21, <1>22, <1>23, <1>24, <1>25
     DEF Next, Mng, ServiceTask, LinuxBringUp, LinuxKick, LinuxQueues

\* Every step keeps the late kicks accounted for.
LEMMA KickStep ==
    ASSUME TypeOK, LinkInv, KickInv, [Next]_vars
    PROVE  KickInv'
<1> USE DEF TypeOK, LinkInv, KickInv, Rings, tableVars, mngVars,
        svcVars, ringVars, lnxVars
<1>1. ASSUME MngCheckTable PROVE KickInv'
  BY <1>1 DEF MngCheckTable, MngGoto, Version1
<1>2. ASSUME MngPublish PROVE KickInv'
  BY <1>2 DEF MngPublish, MngGoto
<1>3. ASSUME MngCreateVdev PROVE KickInv'
  BY <1>3 DEF MngCreateVdev, MngGoto
<1>4. ASSUME MngWaitRemote PROVE KickInv'
  BY <1>4 DEF MngWaitRemote, MngGoto, RemoteReady
<1>5. ASSUME MngInitVdev PROVE KickInv'
  BY <1>5 DEF MngInitVdev, MngGoto
<1>6. ASSUME NEW r \in Rings, MngNoNotify(r) PROVE KickInv'
  BY <1>6 DEF MngNoNotify, MngGoto
<1>7. ASSUME MngSetDev PROVE KickInv'
  BY <1>7 DEF MngSetDev, MngGoto
<1>8. ASSUME MngFail PROVE KickInv'
  BY <1>8 DEF MngFail, MngGoto
<1>9. ASSUME MngGive PROVE KickInv'
  BY <1>9 DEF MngGive, MngGoto
<1>10. ASSUME MngAckMu PROVE KickInv'
  BY <1>10 DEF MngAckMu, MngGoto
<1>11. ASSUME MngNotified PROVE KickInv'
  BY <1>11 DEF MngNotified, MngGoto
<1>12. ASSUME NEW s \in Service, ServiceWait(s) PROVE KickInv'
  BY <1>12 DEF ServiceWait, AfterTake
<1>13. ASSUME NEW s \in Service, ServiceCreate(s) PROVE KickInv'
  BY <1>13 DEF ServiceCreate
<1>14. ASSUME NEW s \in Service, ServiceKick(s) PROVE KickInv'
  BY <1>14 DEF ServiceKick, Channel, LinuxMailbox
<1>15. ASSUME LinuxAttach PROVE KickInv'
  BY <1>15 DEF LinuxAttach, Version1
<1>16. ASSUME LinuxVrings PROVE KickInv'
  BY <1>16 DEF LinuxVrings
<1>17. ASSUME LinuxProbe PROVE KickInv'
  BY <1>17 DEF LinuxProbe, Prepared
<1>18. ASSUME NEW r \in Rings, LinuxNotify(r) PROVE KickInv'
  BY <1>18 DEF LinuxNotify
<1>19. ASSUME NEW r \in Rings, LinuxNotified(r) PROVE KickInv'
  BY <1>19 DEF LinuxNotified
<1>20. ASSUME LinuxIsr PROVE KickInv'
  BY <1>20 DEF LinuxIsr, LinuxMailbox
<1>21. ASSUME NEW s \in Service, LinuxAnnounced(s) PROVE KickInv'
  BY <1>21 DEF LinuxAnnounced, Prepared
<1>22. ASSUME LinuxWorkDone PROVE KickInv'
  BY <1>22 DEF LinuxWorkDone
<1>23. ASSUME UNCHANGED vars PROVE KickInv'
  BY <1>23 DEF vars
<1>24. ASSUME NEW s \in Service, ServiceCreateFails(s) PROVE KickInv'
  BY <1>24 DEF ServiceCreateFails
<1>25. ASSUME NEW s \in Service, LinuxBind(s) PROVE KickInv'
  BY <1>25 DEF LinuxBind, Prepared
<1> QED
  BY <1>1, <1>2, <1>3, <1>4, <1>5, <1>6, <1>7, <1>8, <1>9, <1>10, <1>11, <1>12, <1>13, <1>14, <1>15, <1>16, <1>17, <1>18, <1>19, <1>20, <1>21, <1>22, <1>23, <1>24, <1>25
     DEF Next, Mng, ServiceTask, LinuxBringUp, LinuxKick, LinuxQueues

\* Every step keeps ready_sem given once the bring-up has ended.
LEMMA LatchStep ==
    ASSUME TypeOK, LinkInv, LatchInv, [Next]_vars
    PROVE  LatchInv'
<1> USE DEF TypeOK, LinkInv, LatchInv, tableVars, mngVars,
        svcVars, ringVars, lnxVars
<1>1. ASSUME MngCheckTable PROVE LatchInv'
  BY <1>1 DEF MngCheckTable, MngGoto, Version1
<1>2. ASSUME MngPublish PROVE LatchInv'
  BY <1>2 DEF MngPublish, MngGoto
<1>3. ASSUME MngCreateVdev PROVE LatchInv'
  BY <1>3 DEF MngCreateVdev, MngGoto
<1>4. ASSUME MngWaitRemote PROVE LatchInv'
  BY <1>4 DEF MngWaitRemote, MngGoto, RemoteReady
<1>5. ASSUME MngInitVdev PROVE LatchInv'
  BY <1>5 DEF MngInitVdev, MngGoto
<1>6. ASSUME NEW r \in Rings, MngNoNotify(r) PROVE LatchInv'
  BY <1>6 DEF MngNoNotify, MngGoto
<1>7. ASSUME MngSetDev PROVE LatchInv'
  BY <1>7 DEF MngSetDev, MngGoto
<1>8. ASSUME MngFail PROVE LatchInv'
  BY <1>8 DEF MngFail, MngGoto
<1>9. ASSUME MngGive PROVE LatchInv'
  BY <1>9 DEF MngGive, MngGoto
<1>10. ASSUME MngAckMu PROVE LatchInv'
  BY <1>10 DEF MngAckMu, MngGoto
<1>11. ASSUME MngNotified PROVE LatchInv'
  BY <1>11 DEF MngNotified, MngGoto
<1>12. ASSUME NEW s \in Service, ServiceWait(s) PROVE LatchInv'
  BY <1>12 DEF ServiceWait, AfterTake
<1>13. ASSUME NEW s \in Service, ServiceCreate(s) PROVE LatchInv'
  BY <1>13 DEF ServiceCreate
<1>14. ASSUME NEW s \in Service, ServiceKick(s) PROVE LatchInv'
  BY <1>14 DEF ServiceKick, Channel, LinuxMailbox
<1>15. ASSUME LinuxAttach PROVE LatchInv'
  BY <1>15 DEF LinuxAttach, Version1
<1>16. ASSUME LinuxVrings PROVE LatchInv'
  BY <1>16 DEF LinuxVrings
<1>17. ASSUME LinuxProbe PROVE LatchInv'
  BY <1>17 DEF LinuxProbe, Prepared
<1>18. ASSUME NEW r \in Rings, LinuxNotify(r) PROVE LatchInv'
  BY <1>18 DEF LinuxNotify
<1>19. ASSUME NEW r \in Rings, LinuxNotified(r) PROVE LatchInv'
  BY <1>19 DEF LinuxNotified
<1>20. ASSUME LinuxIsr PROVE LatchInv'
  BY <1>20 DEF LinuxIsr, LinuxMailbox
<1>21. ASSUME NEW s \in Service, LinuxAnnounced(s) PROVE LatchInv'
  BY <1>21 DEF LinuxAnnounced, Prepared
<1>22. ASSUME LinuxWorkDone PROVE LatchInv'
  BY <1>22 DEF LinuxWorkDone
<1>23. ASSUME UNCHANGED vars PROVE LatchInv'
  BY <1>23 DEF vars
<1>24. ASSUME NEW s \in Service, ServiceCreateFails(s) PROVE LatchInv'
  BY <1>24 DEF ServiceCreateFails
<1>25. ASSUME NEW s \in Service, LinuxBind(s) PROVE LatchInv'
  BY <1>25 DEF LinuxBind, Prepared
<1> QED
  BY <1>1, <1>2, <1>3, <1>4, <1>5, <1>6, <1>7, <1>8, <1>9, <1>10, <1>11, <1>12, <1>13, <1>14, <1>15, <1>16, <1>17, <1>18, <1>19, <1>20, <1>21, <1>22, <1>23, <1>24, <1>25
     DEF Next, Mng, ServiceTask, LinuxBringUp, LinuxKick, LinuxQueues

\* Every step leaves Linux aware of what is in vring 0.
LEMMA NoLostStep ==
    ASSUME TypeOK, NoLostKick, [Next]_vars
    PROVE  NoLostKick'
<1> USE DEF TypeOK, NoLostKick, tableVars, mngVars,
        svcVars, ringVars, lnxVars
<1>1. ASSUME MngCheckTable PROVE NoLostKick'
  BY <1>1 DEF MngCheckTable, MngGoto, Version1
<1>2. ASSUME MngPublish PROVE NoLostKick'
  BY <1>2 DEF MngPublish, MngGoto
<1>3. ASSUME MngCreateVdev PROVE NoLostKick'
  BY <1>3 DEF MngCreateVdev, MngGoto
<1>4. ASSUME MngWaitRemote PROVE NoLostKick'
  BY <1>4 DEF MngWaitRemote, MngGoto, RemoteReady
<1>5. ASSUME MngInitVdev PROVE NoLostKick'
  BY <1>5 DEF MngInitVdev, MngGoto
<1>6. ASSUME NEW r \in Rings, MngNoNotify(r) PROVE NoLostKick'
  BY <1>6 DEF MngNoNotify, MngGoto
<1>7. ASSUME MngSetDev PROVE NoLostKick'
  BY <1>7 DEF MngSetDev, MngGoto
<1>8. ASSUME MngFail PROVE NoLostKick'
  BY <1>8 DEF MngFail, MngGoto
<1>9. ASSUME MngGive PROVE NoLostKick'
  BY <1>9 DEF MngGive, MngGoto
<1>10. ASSUME MngAckMu PROVE NoLostKick'
  BY <1>10 DEF MngAckMu, MngGoto
<1>11. ASSUME MngNotified PROVE NoLostKick'
  BY <1>11 DEF MngNotified, MngGoto
<1>12. ASSUME NEW s \in Service, ServiceWait(s) PROVE NoLostKick'
  BY <1>12 DEF ServiceWait, AfterTake
<1>13. ASSUME NEW s \in Service, ServiceCreate(s) PROVE NoLostKick'
  BY <1>13 DEF ServiceCreate
<1>14. ASSUME NEW s \in Service, ServiceKick(s) PROVE NoLostKick'
  BY <1>14 DEF ServiceKick, Channel, LinuxMailbox
<1>15. ASSUME LinuxAttach PROVE NoLostKick'
  BY <1>15 DEF LinuxAttach, Version1
<1>16. ASSUME LinuxVrings PROVE NoLostKick'
  BY <1>16 DEF LinuxVrings
<1>17. ASSUME LinuxProbe PROVE NoLostKick'
  BY <1>17 DEF LinuxProbe, Prepared
<1>18. ASSUME NEW r \in Rings, LinuxNotify(r) PROVE NoLostKick'
  BY <1>18 DEF LinuxNotify
<1>19. ASSUME NEW r \in Rings, LinuxNotified(r) PROVE NoLostKick'
  BY <1>19 DEF LinuxNotified
<1>20. ASSUME LinuxIsr PROVE NoLostKick'
  BY <1>20 DEF LinuxIsr, LinuxMailbox
<1>21. ASSUME NEW s \in Service, LinuxAnnounced(s) PROVE NoLostKick'
  BY <1>21 DEF LinuxAnnounced, Prepared
<1>22. ASSUME LinuxWorkDone PROVE NoLostKick'
  BY <1>22 DEF LinuxWorkDone
<1>23. ASSUME UNCHANGED vars PROVE NoLostKick'
  BY <1>23 DEF vars
<1>24. ASSUME NEW s \in Service, ServiceCreateFails(s) PROVE NoLostKick'
  BY <1>24 DEF ServiceCreateFails
<1>25. ASSUME NEW s \in Service, LinuxBind(s) PROVE NoLostKick'
  BY <1>25 DEF LinuxBind, Prepared
<1> QED
  BY <1>1, <1>2, <1>3, <1>4, <1>5, <1>6, <1>7, <1>8, <1>9, <1>10, <1>11, <1>12, <1>13, <1>14, <1>15, <1>16, <1>17, <1>18, <1>19, <1>20, <1>21, <1>22, <1>23, <1>24, <1>25
     DEF Next, Mng, ServiceTask, LinuxBringUp, LinuxKick, LinuxQueues

\* The initial states satisfy the invariant.
LEMMA InitInv == ASSUME Init PROVE IInv
<1>1. TypeOK
  BY DEF Init, TypeOK, MngPcs, Rings
<1>2. TableInv /\ LinkInv
  BY DEF Init, TableInv, LinkInv, Linked
<1>3. KickInv
  BY DEF Init, KickInv, Rings
<1>4. LatchInv /\ NoLostKick
  BY DEF Init, LatchInv, NoLostKick
<1> QED
  BY <1>1, <1>2, <1>3, <1>4 DEF IInv

\* IInv is an inductive invariant of the platform.
THEOREM Invariance == Spec => []IInv
<1>1. Init => IInv
  BY InitInv
<1>2. IInv /\ [Next]_vars => IInv'
  BY TypeStep, TableStep, LinkStep, KickStep, LatchStep, NoLostStep DEF IInv
<1> QED
  BY <1>1, <1>2, PTL DEF Spec

\* The variables keep their types.
THEOREM TypeCorrect == Spec => []TypeOK
<1>1. IInv => TypeOK
  BY DEF IInv
<1> QED
  BY <1>1, Invariance, PTL

\* On either boot path the M core works on the vrings Linux has allocated.
THEOREM VringsCorrect == Spec => []VringsOfLinux
<1>1. IInv => VringsOfLinux
  BY DEF IInv, LinkInv, VringsOfLinux
<1> QED
  BY <1>1, Invariance, PTL

\* NO_NOTIFY lets at most one more kick through for each ring.
THEOREM KicksCorrect == Spec => []KicksStop
<1>1. IInv => KicksStop
  BY DEF IInv, KickInv, KicksStop
<1> QED
  BY <1>1, Invariance, PTL

\* Linux is never unaware of an announcement.
THEOREM KickNotLost == Spec => []NoLostKick
<1>1. IInv => NoLostKick
  BY DEF IInv
<1> QED
  BY <1>1, Invariance, PTL

-----------------------------------------------------------------------------
(* The platform implements the latch: MngGive decides, ServiceWait tells,  *)
(* everything else is a stutter.                                           *)

\* The steps that touch neither ready_sem, the answers nor, once the latch has
\* decided, rpdev.
LEMMA StutterImplements ==
    ASSUME UNCHANGED <<readySem, svcDev>>, readySem = 0 \/ rpdev' = rpdev
    PROVE  UNCHANGED Latch!vars
BY DEF Outcome, Latch!vars

\* Every step of the platform is a step of the latch or a stutter.
LEMMA StepImplements ==
    ASSUME IInv, [Next]_vars
    PROVE  [Latch!Next]_(Latch!vars)
<1> USE DEF tableVars, mngVars, svcVars, ringVars, lnxVars
<1>1. ASSUME MngGive PROVE Latch!Decide
  <2>1. readySem = 0 /\ rpdev \in {"null", "dev"}
    BY <1>1 DEF IInv, LatchInv, TypeOK, MngGive, MngGoto
  <2> QED
    BY <1>1, <2>1 DEF MngGive, Outcome, Latch!Decide, Latch!Outcomes
<1>2. ASSUME NEW s \in Service, ServiceWait(s) PROVE Latch!Tell(s)
  <2>1. svcDev[s] = "none"
    BY <1>2 DEF IInv, LatchInv, ServiceWait
  <2>2. rpdev # "none"
    BY DEF IInv, TypeOK
  <2> QED
    BY <1>2, <2>1, <2>2 DEF ServiceWait, AfterTake, Outcome, Latch!Tell
<1>3. ASSUME MngSetDev PROVE UNCHANGED Latch!vars
  <2>1. readySem = 0
    BY <1>3 DEF IInv, LatchInv, TypeOK, MngSetDev, MngGoto
  <2> QED
    BY <1>3, <2>1, StutterImplements DEF MngSetDev
<1>4. ASSUME \/ MngCheckTable \/ MngPublish \/ MngCreateVdev \/ MngWaitRemote
             \/ MngInitVdev \/ (\E r \in Rings : MngNoNotify(r)) \/ MngFail
             \/ MngAckMu \/ MngNotified
      PROVE  UNCHANGED Latch!vars
  BY <1>4, StutterImplements
     DEF MngCheckTable, MngPublish, MngCreateVdev, MngWaitRemote, MngInitVdev,
         MngNoNotify, MngFail, MngAckMu, MngNotified
<1>5. ASSUME NEW s \in Service,
             ServiceCreate(s) \/ ServiceCreateFails(s) \/ ServiceKick(s)
      PROVE  UNCHANGED Latch!vars
  BY <1>5, StutterImplements DEF ServiceCreate, ServiceCreateFails, ServiceKick
<1>6. ASSUME \/ LinuxBringUp \/ LinuxKick \/ LinuxQueues
             \/ \E s \in Service : LinuxBind(s)
      PROVE  UNCHANGED Latch!vars
  BY <1>6, StutterImplements
     DEF LinuxBringUp, LinuxKick, LinuxQueues, LinuxAttach, LinuxVrings,
         LinuxProbe, LinuxNotify, LinuxNotified, LinuxIsr, LinuxAnnounced,
         LinuxBind, LinuxWorkDone
<1>7. ASSUME UNCHANGED vars PROVE UNCHANGED Latch!vars
  BY <1>7, StutterImplements DEF vars
<1> QED
  BY <1>1, <1>2, <1>3, <1>4, <1>5, <1>6, <1>7
     DEF Next, Mng, ServiceTask, Latch!Next

\* The platform comes up or fails once, and tells every service the same.
THEOREM PlatformIsLatch == Spec => LatchSpec
<1>1. Init => Latch!Init
  BY DEF Init, Outcome, Latch!Init
<1> QED
  BY <1>1, Invariance, StepImplements, PTL DEF Spec, LatchSpec, Latch!Spec

-----------------------------------------------------------------------------
(* The way of a service to Linux: of EveryoneAnswered and EveryoneBound    *)
(* the part that is a safety property.                                     *)

\* A service that has been told of the device has announced itself, is about
\* to, or could not; an announcement becomes one device and one "hi".
PathInv ==
    /\ \A s \in Service :
         /\ svcPc[s] # "wait" => readySem = 1
         /\ svcPc[s] \in {"create", "kick", "up"} => rpdev = "dev"
         /\ svcPc[s] = "ended" => rpdev = "null" \/ MayFail
         /\ svcPc[s] \in {"kick", "up"} <=> s \in toLinux \cup channels
    /\ toLinux \cap channels = {} /\ toMcore \cap bound = {}
    /\ toMcore \cup bound \subseteq channels

\* When the platform is up, Linux has made a device for each service or
\* somebody is to act for it: its thread, or Linux, which knows of the
\* announcement; only one whose endpoint could not be created is left out.
\* A "hi" finds a core that polls, and none is announced or answered twice.
NoneForgotten ==
    /\ toLinux \cap channels = {} /\ toMcore \cap bound = {}
    /\ toMcore # {} => mngPc \in {"poll", "rx"}
    /\ rpdev = "dev" => \A s \in Service :
         \/ s \in channels
         \/ svcPc[s] = "wait" /\ (mngPc = "give" \/ readySem = 1)
         \/ svcPc[s] = "create"
         \/ svcPc[s] = "ended" /\ MayFail
         \/ s \in toLinux /\ (LinuxMailbox \in muOut \/ lnxWork
                             \/ \E t \in Service : svcPc[t] = "kick")

LEMMA PathFrame ==
    ASSUME IInv, PathInv, UNCHANGED <<svcPc, ringVars>>,
           readySem' = readySem \/ readySem' = 1,
           rpdev' = rpdev \/ readySem = 0
    PROVE  PathInv'
<1>1. CASE rpdev' = rpdev
  BY <1>1 DEF PathInv, ringVars
<1>2. CASE readySem = 0
  <2>1. \A s \in Service : svcPc[s] = "wait"
    BY <1>2 DEF PathInv
  <2>. QED  BY <2>1 DEF PathInv, ringVars
<1>. QED  BY <1>1, <1>2

LEMMA PathStep ==
    ASSUME IInv, PathInv, [Next]_vars
    PROVE  PathInv'
<1> USE DEF tableVars, mngVars, svcVars, lnxVars
<1>1. ASSUME NEW s \in Service, ServiceWait(s) PROVE PathInv'
  <2>1. /\ \A t \in Service : t # s => svcPc'[t] = svcPc[t]
        /\ svcPc[s] = "wait" /\ readySem' = 1
        /\ \/ rpdev = "null" /\ svcPc'[s] = "ended"
           \/ rpdev = "dev" /\ svcPc'[s] = "create"
        /\ UNCHANGED <<rpdev, toLinux, channels, toMcore, bound>>
    BY <1>1 DEF ServiceWait, AfterTake, ringVars, IInv, TypeOK
  <2> QED
    BY <2>1 DEF PathInv
<1>2. ASSUME NEW s \in Service, ServiceCreate(s) PROVE PathInv'
  <2>1. /\ \A t \in Service : t # s => svcPc'[t] = svcPc[t]
        /\ svcPc[s] = "create" /\ svcPc'[s] = "kick"
        /\ toLinux' = toLinux \cup {s}
        /\ UNCHANGED <<rpdev, readySem, channels, toMcore, bound>>
    BY <1>2 DEF ServiceCreate, IInv, TypeOK
  <2>2. s \notin toLinux \cup channels
    BY <2>1 DEF PathInv
  <2> QED
    BY <2>1, <2>2 DEF PathInv
<1>3. ASSUME NEW s \in Service, ServiceCreateFails(s) PROVE PathInv'
  <2>1. /\ \A t \in Service : t # s => svcPc'[t] = svcPc[t]
        /\ MayFail /\ svcPc[s] = "create" /\ svcPc'[s] = "ended"
        /\ UNCHANGED <<rpdev, readySem, toLinux, channels, toMcore, bound>>
    BY <1>3 DEF ServiceCreateFails, ringVars, IInv, TypeOK
  <2> QED
    BY <2>1 DEF PathInv
<1>4. ASSUME NEW s \in Service, ServiceKick(s) PROVE PathInv'
  <2>1. /\ \A t \in Service : t # s => svcPc'[t] = svcPc[t]
        /\ svcPc[s] = "kick" /\ svcPc'[s] = "up"
        /\ UNCHANGED <<rpdev, readySem, toLinux, channels, toMcore, bound>>
    BY <1>4 DEF ServiceKick, ringVars, IInv, TypeOK
  <2> QED
    BY <2>1 DEF PathInv
<1>5. ASSUME MngNotified PROVE PathInv'
  <2>1. /\ bound' = bound \cup toMcore /\ toMcore' = {}
        /\ UNCHANGED <<svcPc, rpdev, readySem, toLinux, channels>>
    BY <1>5 DEF MngNotified
  <2> QED
    BY <2>1 DEF PathInv
<1>6. ASSUME NEW s \in Service, LinuxAnnounced(s) PROVE PathInv'
  <2>1. /\ s \in toLinux /\ toLinux' = toLinux \ {s}
        /\ channels' = channels \cup {s}
        /\ UNCHANGED <<svcPc, rpdev, readySem, toMcore, bound>>
    BY <1>6 DEF LinuxAnnounced
  <2> QED
    BY <2>1 DEF PathInv
<1>7. ASSUME NEW s \in Service, LinuxBind(s) PROVE PathInv'
  <2>1. /\ s \in channels \ (toMcore \cup bound) /\ toMcore' = toMcore \cup {s}
        /\ UNCHANGED <<svcPc, rpdev, readySem, toLinux, channels, bound>>
    BY <1>7 DEF LinuxBind
  <2> QED
    BY <2>1 DEF PathInv
<1>8. ASSUME MngGive \/ MngSetDev PROVE PathInv'
  <2>1. /\ UNCHANGED <<svcPc, ringVars>>
        /\ readySem' = readySem \/ readySem' = 1
        /\ rpdev' = rpdev \/ readySem # 1
    BY <1>8 DEF MngGive, MngSetDev, MngGoto, IInv, LatchInv, ringVars
  <2> QED
    BY <2>1, PathFrame DEF IInv, TypeOK
<1>9. ASSUME \/ MngCheckTable \/ MngPublish \/ MngCreateVdev \/ MngWaitRemote
             \/ MngInitVdev \/ (\E r \in Rings : MngNoNotify(r)) \/ MngFail
             \/ MngAckMu \/ LinuxBringUp \/ LinuxKick \/ LinuxIsr \/ LinuxWorkDone
             \/ UNCHANGED vars
      PROVE  PathInv'
  <2>1. UNCHANGED <<svcPc, ringVars, readySem, rpdev>>
    BY <1>9
       DEF MngCheckTable, MngPublish, MngCreateVdev, MngWaitRemote, MngInitVdev,
           MngNoNotify, MngFail, MngAckMu, LinuxBringUp, LinuxAttach, LinuxVrings,
           LinuxProbe, LinuxKick, LinuxNotify, LinuxNotified, LinuxIsr,
           LinuxWorkDone, vars
  <2> QED
    BY <2>1, PathFrame
<1> QED
  BY <1>1, <1>2, <1>3, <1>4, <1>5, <1>6, <1>7, <1>8, <1>9
     DEF Next, Mng, ServiceTask, LinuxQueues

\* No service whose endpoint could be created is lost between ready_sem, the
\* announcement and its kick, nor a driver's "hi" before the poll, whatever
\* words the mailbox drops: somebody is always to act for it.
THEOREM ServicesKept == Spec => []NoneForgotten
<1>1. Init => PathInv
  BY DEF Init, PathInv
<1>2. IInv /\ PathInv => NoneForgotten
  <2> SUFFICES ASSUME IInv, PathInv PROVE NoneForgotten
    OBVIOUS
  <2>1. ASSUME rpdev = "dev", NEW s \in Service
        PROVE  \/ s \in channels
               \/ svcPc[s] = "wait" /\ (mngPc = "give" \/ readySem = 1)
               \/ svcPc[s] = "create"
               \/ svcPc[s] = "ended" /\ MayFail
               \/ s \in toLinux
    <3>1. mngPc \in {"give", "poll", "rx"}
      BY <2>1 DEF IInv, LinkInv
    <3>2. readySem = 1 <=> mngPc \in {"poll", "rx"}
      BY <3>1 DEF IInv, LatchInv
    <3>3. svcPc[s] \in {"wait", "create", "kick", "up", "ended"}
      BY DEF IInv, TypeOK
    <3> QED
      BY <2>1, <3>1, <3>2, <3>3 DEF PathInv
  <2>2. ASSUME NEW s \in toMcore PROVE mngPc \in {"poll", "rx"}
    <3>1. s \in Service /\ s \in channels
      BY DEF PathInv, IInv, TypeOK
    <3>2. readySem = 1 /\ rpdev = "dev"
      BY <3>1 DEF PathInv
    <3> QED
      BY <3>2 DEF IInv, LatchInv, LinkInv
  <2> QED
    BY <2>1, <2>2 DEF PathInv, NoneForgotten, IInv, NoLostKick
<1> QED
  BY <1>1, <1>2, Invariance, PathStep, PTL DEF Spec
=============================================================================
