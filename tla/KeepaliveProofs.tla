-------------------------- MODULE KeepaliveProofs --------------------------
(***************************************************************************)
(* Proofs about Keepalive for every period, pause, number of buffers and   *)
(* bound: types, the schedule (NeverAhead), the gaps (GapsAreLosses) and   *)
(* the safety kernel of FollowsModule (ModuleKnown).                       *)
(***************************************************************************)
EXTENDS Keepalive, TLAPS

IsKa(i) == toLinux[i].ept = "ka"

\* next is one period further for every number used and every round paused;
\* a message is made only once the pause due before it is over.
ScheduleInv ==
    /\ kaPc = "wait" => seq = 0 /\ testPaused = 0
    /\ kaPc = "sleep" => next >= start + PERIOD * (seq + testPaused + 1)
    /\ kaPc = "send" => /\ next >= start + PERIOD * (seq + testPaused + 1) + PERIOD
                        /\ msg.uptime >= next - PERIOD
                        /\ PauseAt > 0 /\ seq >= PauseAt => testPaused = PauseLen
                        /\ msg.ept = "ka" /\ msg.seq = seq
    /\ PauseAt > 0 /\ seq > PauseAt => testPaused = PauseLen

\* The keepalive messages in vring 0 are numbered in order, and are all the
\* ones from the next Linux can expect to the next to be sent.
NumbersInv ==
    /\ heard + 1 + lost <= seq
    /\ \A i \in DOMAIN toLinux :
         IsKa(i) => heard + lost < toLinux[i].seq /\ toLinux[i].seq < seq
    /\ \A i, j \in DOMAIN toLinux :
         IsKa(i) /\ IsKa(j) /\ i < j => toLinux[i].seq < toLinux[j].seq
    /\ \A n \in (heard + 1 + lost) .. (seq - 1) :
         \E i \in DOMAIN toLinux : IsKa(i) /\ toLinux[i].seq = n

IInv == TypeOK /\ ScheduleInv /\ NeverAhead /\ NumbersInv

-----------------------------------------------------------------------------
(* Arithmetic and sequences.                                               *)

LEMMA PeriodTimes ==
    /\ \A n \in Nat : PERIOD * n \in Nat /\ PERIOD * (n + 1) = PERIOD * n + PERIOD
    /\ \A m, n \in Nat : m <= n => PERIOD * m <= PERIOD * n
BY PeriodAssumption

\* Sums of the numbers Linux has seen and of the losses.
LEMMA SumBound ==
    ASSUME NEW a \in Int, NEW b \in Int, NEW x \in Int, NEW y \in Int,
           NEW s \in Int, a + b = x + 1 + y, x + 1 + y < s
    PROVE  a + 1 + b <= s
OBVIOUS

LEMMA SumRange ==
    ASSUME NEW a \in Int, NEW b \in Int, NEW x \in Int, NEW y \in Int,
           NEW s \in Int, NEW n, a + b = x + 1 + y, n \in (a + 1 + b) .. (s - 1)
    PROVE  n \in (x + 1 + y) .. (s - 1) /\ n # x + 1 + y
OBVIOUS

LEMMA TailFacts ==
    ASSUME NEW S, NEW q \in Seq(S), q # <<>>
    PROVE  /\ Tail(q) \in Seq(S) /\ Len(Tail(q)) = Len(q) - 1
           /\ Head(q) = q[1] /\ Head(q) \in S
           /\ DOMAIN Tail(q) = 1 .. (Len(q) - 1)
           /\ \A i \in DOMAIN Tail(q) : i + 1 \in DOMAIN q /\ Tail(q)[i] = q[i + 1]
OBVIOUS

LEMMA AppendFacts ==
    ASSUME NEW S, NEW q \in Seq(S), NEW e \in S
    PROVE  /\ Append(q, e) \in Seq(S) /\ Len(Append(q, e)) = Len(q) + 1
           /\ DOMAIN Append(q, e) = 1 .. (Len(q) + 1)
           /\ \A i \in DOMAIN q : i \in DOMAIN Append(q, e) /\ Append(q, e)[i] = q[i]
           /\ Append(q, e)[Len(q) + 1] = e
OBVIOUS

-----------------------------------------------------------------------------
\* Every step keeps the types.
LEMMA TypeStep ==
    ASSUME TypeOK, [Next]_vars
    PROVE  TypeOK'
<1> USE AddrAssumption, PeriodAssumption, PauseAssumption, BufsAssumption
        DEF TypeOK, taskVars, lnxVars, HasRoom, NoAddr, OutMsgs, InMsgs
<1>1. ASSUME Tick PROVE TypeOK'
  BY <1>1 DEF Tick
<1>2. ASSUME KaStart PROVE TypeOK'
  BY <1>2 DEF KaStart
<1>3. ASSUME KaWake PROVE TypeOK'
  <2>1. now \in Nat /\ seq \in Nat /\ kaPeer \in Addr \cup {NoAddr}
    OBVIOUS
  <2>2. msg' \in OutMsgs
    BY <1>3, <2>1 DEF KaWake
  <2>3. testPaused' \in 0 .. PauseLen
    BY <1>3 DEF KaWake, Pausing
  <2>4. kaPc' \in {"sleep", "send"} /\ next' \in Nat
    BY <1>3 DEF KaWake
  <2> HIDE DEF OutMsgs
  <2> QED
    BY <1>3, <2>2, <2>3, <2>4 DEF KaWake
<1>4. ASSUME KaSend PROVE TypeOK'
  <2> HIDE DEF OutMsgs
  <2>1. CASE HasRoom(toLinux)
    <3>1. toLinux' = Append(toLinux, msg) /\ seq' = seq + 1
      BY <1>4, <2>1 DEF KaSend
    <3>2. toLinux' \in Seq(OutMsgs) /\ Len(toLinux') = Len(toLinux) + 1
      BY <3>1, AppendFacts
    <3>3. Len(toLinux') <= NumBufs
      BY <2>1, <3>2
    <3> QED
      BY <1>4, <3>1, <3>2, <3>3 DEF KaSend
  <2>2. CASE ~HasRoom(toLinux)
    BY <1>4, <2>2 DEF KaSend, Unsent
  <2> QED
    BY <2>1, <2>2
<1>5. ASSUME MngKeepalive PROVE TypeOK'
  <2>1. Head(toMcore) \in InMsgs /\ Tail(toMcore) \in Seq(InMsgs)
    BY <1>5, TailFacts DEF MngKeepalive
  <2>2. Len(toMcore') <= NumBufs
    BY <1>5, TailFacts DEF MngKeepalive
  <2>3. kaPeer' \in Addr \cup {NoAddr}
    BY <1>5, <2>1 DEF MngKeepalive, Learnt
  <2> QED
    BY <1>5, <2>1, <2>2, <2>3 DEF MngKeepalive
<1>6. ASSUME MngCan \/ CanTxDone PROVE TypeOK'
  <2>1. toMcore' \in Seq(InMsgs) /\ Len(toMcore') <= NumBufs
    <3>1. CASE toMcore' = toMcore
      BY <3>1
    <3>2. CASE toMcore # <<>> /\ toMcore' = Tail(toMcore)
      BY <3>2, TailFacts
    <3> QED
      BY <1>6, <3>1, <3>2 DEF MngCan, CanTxDone
  <2> QED
    BY <1>6, <2>1 DEF MngCan, CanTxDone
<1>7. ASSUME GatewaySend PROVE TypeOK'
  BY <1>7 DEF GatewaySend, CanMsg
<1>8. ASSUME NEW a \in Addr, LinuxBind(a) PROVE TypeOK'
  BY <1>8 DEF LinuxBind
<1>9. ASSUME LinuxUnbind PROVE TypeOK'
  BY <1>9 DEF LinuxUnbind
<1>10. ASSUME LinuxSendCan PROVE TypeOK'
  BY <1>10 DEF LinuxSendCan
<1>11. ASSUME LinuxRecv PROVE TypeOK'
  <2>1. Head(toLinux) \in OutMsgs /\ Tail(toLinux) \in Seq(OutMsgs)
    BY <1>11, TailFacts DEF LinuxRecv
  <2>2. Len(toLinux') <= NumBufs
    BY <1>11, TailFacts DEF LinuxRecv
  <2>3. heard' \in Nat \cup {-1} /\ lost' \in Nat
    <3>1. Head(toLinux).seq \in Nat /\ heard \in Nat \cup {-1} /\ lost \in Nat
      BY <2>1
    <3> HIDE DEF TypeOK, HasRoom, OutMsgs, InMsgs
    <3> QED
      BY <1>11, <3>1 DEF LinuxRecv
  <2> QED
    BY <1>11, <2>1, <2>2, <2>3 DEF LinuxRecv
<1>12. ASSUME UNCHANGED vars PROVE TypeOK'
  BY <1>12 DEF vars
<1> QED
  BY <1>1, <1>2, <1>3, <1>4, <1>5, <1>6, <1>7, <1>8, <1>9, <1>10, <1>11, <1>12
     DEF Next, KaTask, MngTask, Linux

\* Every step keeps the task on its schedule.
LEMMA ScheduleStep ==
    ASSUME TypeOK, ScheduleInv, [Next]_vars
    PROVE  ScheduleInv'
<1> USE PeriodAssumption, PauseAssumption DEF ScheduleInv
<1>1. ASSUME KaStart PROVE ScheduleInv'
  BY <1>1 DEF KaStart, TypeOK
<1>2. ASSUME KaWake PROVE ScheduleInv'
  <2> DEFINE n == seq + testPaused + 1
  <2>1. n \in Nat /\ PERIOD * (n + 1) = PERIOD * n + PERIOD
    BY PeriodTimes DEF TypeOK
  <2>2. next \in Nat /\ now \in Nat /\ seq \in Nat /\ testPaused \in 0 .. PauseLen
    BY DEF TypeOK
  <2>3. next >= start + PERIOD * n /\ start \in Nat
    BY <1>2 DEF KaWake, TypeOK
  <2>4. CASE kaPeer = NoAddr
    BY <1>2, <2>1, <2>2, <2>3, <2>4 DEF KaWake
  <2>5. CASE kaPeer # NoAddr /\ Pausing
    <3>1. seq' + testPaused' + 1 = n + 1
      BY <1>2, <2>2, <2>5 DEF KaWake
    <3>2. next' >= start' + PERIOD * (seq' + testPaused' + 1)
      BY <1>2, <2>1, <2>2, <2>3, <3>1 DEF KaWake
    <3> QED
      BY <1>2, <2>2, <2>5, <3>2 DEF KaWake, Pausing
  <2>6. CASE kaPeer # NoAddr /\ ~Pausing
    BY <1>2, <2>1, <2>2, <2>3, <2>6 DEF KaWake, Pausing, Due
  <2> QED
    BY <2>4, <2>5, <2>6
<1>3. ASSUME KaSend PROVE ScheduleInv'
  <2> DEFINE n == seq + testPaused + 1
  <2>1. n \in Nat /\ PERIOD * (n + 1) = PERIOD * n + PERIOD
    BY PeriodTimes DEF TypeOK
  <2>2. seq' \in {seq, seq + 1} /\ seq \in Nat /\ testPaused \in Nat
    BY <1>3 DEF KaSend, Unsent, TypeOK
  <2>3. seq' + testPaused + 1 = n \/ seq' + testPaused + 1 = n + 1
    <3>1. CASE seq' = seq
      BY <3>1
    <3>2. CASE seq' = seq + 1
      BY <2>2, <3>2
    <3> QED
      BY <2>2, <3>1, <3>2
  <2>4. next >= start + PERIOD * n + PERIOD /\ start \in Nat /\ next \in Nat
    BY <1>3 DEF KaSend, TypeOK
  <2>5. next >= start + PERIOD * (seq' + testPaused + 1)
    BY <2>1, <2>3, <2>4
  <2> QED
    BY <1>3, <2>2, <2>5 DEF KaSend
<1>4. ASSUME UNCHANGED taskVars PROVE ScheduleInv'
  BY <1>4 DEF taskVars
<1>5. \/ KaStart \/ KaWake \/ KaSend \/ UNCHANGED taskVars
  BY DEF Next, KaTask, MngTask, Linux, Tick, MngKeepalive, MngCan, CanTxDone,
         GatewaySend, LinuxBind, LinuxUnbind, LinuxSendCan, LinuxRecv, vars
<1> QED
  BY <1>1, <1>2, <1>3, <1>4, <1>5

\* A message put in vring 0 is the task's, or the gateway's; a message taken
\* from it is the oldest.
LEMMA RingSteps ==
    ASSUME TypeOK, [Next]_vars
    PROVE  \/ KaSend /\ toLinux' = Append(toLinux, msg)
           \/ GatewaySend
           \/ LinuxRecv
           \/ UNCHANGED <<toLinux, heard, lost>> /\ seq' = seq
BY DEF Next, KaTask, MngTask, Linux, Tick, KaStart, KaWake, KaSend, Unsent,
       MngKeepalive, MngCan, CanTxDone, LinuxBind, LinuxUnbind, LinuxSendCan,
       taskVars, lnxVars, vars

\* Every step keeps the messages in vring 0 behind the schedule.
LEMMA AheadStep ==
    ASSUME TypeOK, ScheduleInv, NeverAhead, NumbersInv, [Next]_vars
    PROVE  NeverAhead'
<1>1. ASSUME KaStart PROVE NeverAhead'
  <2>1. seq = 0 /\ UNCHANGED toLinux
    BY <1>1 DEF KaStart, ScheduleInv
  <2>2. \A i \in DOMAIN toLinux : ~IsKa(i)
    <3> SUFFICES ASSUME NEW i \in DOMAIN toLinux, IsKa(i) PROVE FALSE
      OBVIOUS
    <3>1. toLinux[i].seq < 0
      BY <2>1 DEF NumbersInv
    <3>2. toLinux[i] \in OutMsgs
      BY DEF TypeOK
    <3> QED
      BY <3>1, <3>2 DEF OutMsgs
  <2> QED
    BY <2>1, <2>2 DEF NeverAhead, IsKa
<1>2. ASSUME ~KaStart PROVE start' = start
  BY <1>2 DEF Next, KaTask, MngTask, Linux, Tick, KaWake, KaSend, MngKeepalive,
              MngCan, CanTxDone, GatewaySend, LinuxBind, LinuxUnbind,
              LinuxSendCan, LinuxRecv, taskVars, vars
<1>3. ASSUME KaSend, toLinux' = Append(toLinux, msg) PROVE NeverAhead'
  <2>1. msg.uptime >= Earliest(msg.seq)
    <3> DEFINE n == seq + testPaused + 1
               late == IF PauseAt > 0 /\ seq >= PauseAt THEN PauseLen ELSE 0
               m == seq + 1 + late
    <3>1. seq \in Nat /\ testPaused \in Nat /\ late \in Nat /\ late <= testPaused
      BY <1>3, PauseAssumption DEF KaSend, ScheduleInv, TypeOK
    <3>2. m \in Nat /\ n \in Nat /\ m <= n
      BY <3>1
    <3>3. PERIOD * m \in Nat /\ PERIOD * n \in Nat /\ PERIOD * m <= PERIOD * n
      BY <3>2, PeriodTimes
    <3>4. /\ next >= start + PERIOD * n + PERIOD /\ msg.uptime >= next - PERIOD
          /\ msg.seq = seq
      BY <1>3 DEF KaSend, ScheduleInv
    <3>5. start \in Nat /\ next \in Nat /\ msg.uptime \in Nat
      BY DEF TypeOK, OutMsgs
    <3>6. msg.uptime >= start + PERIOD * m
      BY <3>3, <3>4, <3>5, PeriodAssumption
    <3> QED
      BY <3>4, <3>6 DEF Earliest
  <2>2. start' = start /\ toLinux \in Seq(OutMsgs) /\ msg \in OutMsgs
    BY <1>3 DEF KaSend, TypeOK
  <2>3. \A i \in DOMAIN toLinux' : i \in DOMAIN toLinux \/ i = Len(toLinux) + 1
    BY <1>3, <2>2, AppendFacts
  <2>4. \A s : Earliest(s)' = Earliest(s)
    BY <2>2 DEF Earliest
  <2>5. \A i \in DOMAIN toLinux : toLinux'[i] = toLinux[i]
    BY <1>3, <2>2, AppendFacts
  <2>6. toLinux'[Len(toLinux) + 1] = msg
    BY <1>3, <2>2, AppendFacts
  <2> QED
    BY <2>1, <2>3, <2>4, <2>5, <2>6 DEF NeverAhead
<1>4. ASSUME GatewaySend PROVE NeverAhead'
  <2>1. CanMsg \in OutMsgs /\ CanMsg.ept = "can" /\ toLinux \in Seq(OutMsgs)
    BY DEF CanMsg, OutMsgs, TypeOK, NoAddr
  <2>2. /\ start' = start /\ toLinux' = Append(toLinux, CanMsg)
    BY <1>4 DEF GatewaySend, taskVars
  <2>3. \A i \in DOMAIN toLinux' :
           \/ i \in DOMAIN toLinux /\ toLinux'[i] = toLinux[i]
           \/ toLinux'[i] = CanMsg
    BY <2>1, <2>2, AppendFacts
  <2>4. \A s : Earliest(s)' = Earliest(s)
    BY <2>2 DEF Earliest
  <2> QED
    BY <2>1, <2>3, <2>4 DEF NeverAhead
<1>5. ASSUME LinuxRecv PROVE NeverAhead'
  <2>1. start' = start /\ toLinux # <<>> /\ toLinux' = Tail(toLinux)
    BY <1>5 DEF LinuxRecv, taskVars
  <2>2. \A i \in DOMAIN toLinux' : i + 1 \in DOMAIN toLinux /\ toLinux'[i] = toLinux[i + 1]
    BY <2>1, TailFacts DEF TypeOK
  <2>3. \A s : Earliest(s)' = Earliest(s)
    BY <2>1 DEF Earliest
  <2> QED
    BY <2>2, <2>3 DEF NeverAhead
<1>6. ASSUME UNCHANGED <<toLinux, start>> PROVE NeverAhead'
  BY <1>6 DEF NeverAhead, Earliest
<1> QED
  BY <1>1, <1>2, <1>3, <1>4, <1>5, <1>6, RingSteps

\* Every step keeps the numbers in vring 0 complete and in order, and what
\* Linux hears next is the number after the losses.
LEMMA NumbersStep ==
    ASSUME TypeOK, ScheduleInv, NumbersInv, [Next]_vars
    PROVE  NumbersInv' /\ (heard' # heard => heard' = heard + 1 + lost)
<1> DEFINE Goal == NumbersInv' /\ (heard' # heard => heard' = heard + 1 + lost)
<1>0. /\ toLinux \in Seq(OutMsgs) /\ heard \in Int /\ lost \in Nat /\ seq \in Nat
      /\ \A i \in DOMAIN toLinux : toLinux[i] \in OutMsgs /\ toLinux[i].seq \in Nat
      /\ DOMAIN toLinux = 1 .. Len(toLinux) /\ Len(toLinux) \in Nat
  <2>1. toLinux \in Seq(OutMsgs) /\ heard \in Int /\ lost \in Nat /\ seq \in Nat
    BY DEF TypeOK
  <2>2. DOMAIN toLinux = 1 .. Len(toLinux) /\ Len(toLinux) \in Nat
    BY <2>1
  <2>3. \A i \in DOMAIN toLinux : toLinux[i] \in OutMsgs
    BY <2>1
  <2>4. \A m \in OutMsgs : m.seq \in Nat
    BY DEF OutMsgs
  <2> QED
    BY <2>1, <2>2, <2>3, <2>4
<1>1. ASSUME KaSend, toLinux' = Append(toLinux, msg) PROVE Goal
  <2>1. /\ UNCHANGED <<heard, lost>> /\ msg.seq = seq /\ msg.ept = "ka"
        /\ msg \in OutMsgs /\ seq' \in {seq, seq + 1}
    BY <1>1 DEF KaSend, Unsent, ScheduleInv, TypeOK, lnxVars
  <2>2. seq' = seq + 1
    <3>1. Len(toLinux') = Len(toLinux) + 1
      BY <1>0, <1>1, <2>1, AppendFacts
    <3>2. toLinux' # toLinux
      BY <1>0, <3>1
    <3> QED
      BY <1>1, <3>2 DEF KaSend
  <2>3. /\ DOMAIN toLinux' = 1 .. (Len(toLinux) + 1)
        /\ \A i \in DOMAIN toLinux : i \in DOMAIN toLinux' /\ toLinux'[i] = toLinux[i]
        /\ toLinux'[Len(toLinux) + 1] = msg
    BY <1>0, <1>1, <2>1, AppendFacts
  <2>4. heard' + 1 + lost' <= seq'
    BY <1>0, <2>1, <2>2 DEF NumbersInv
  <2>5. \A i \in DOMAIN toLinux' :
          toLinux'[i].ept = "ka" =>
            heard' + lost' < toLinux'[i].seq /\ toLinux'[i].seq < seq'
    BY <1>0, <2>1, <2>2, <2>3 DEF NumbersInv, IsKa
  <2>6. \A i, j \in DOMAIN toLinux' :
          toLinux'[i].ept = "ka" /\ toLinux'[j].ept = "ka" /\ i < j
            => toLinux'[i].seq < toLinux'[j].seq
    BY <1>0, <2>1, <2>2, <2>3 DEF NumbersInv, IsKa
  <2>7. \A n \in (heard' + 1 + lost') .. (seq' - 1) :
          \E i \in DOMAIN toLinux' : toLinux'[i].ept = "ka" /\ toLinux'[i].seq = n
    <3> SUFFICES ASSUME NEW n \in (heard' + 1 + lost') .. (seq' - 1)
                 PROVE  \E i \in DOMAIN toLinux' :
                          toLinux'[i].ept = "ka" /\ toLinux'[i].seq = n
      OBVIOUS
    <3>1. CASE n = seq
      BY <1>0, <2>1, <2>3, <3>1
    <3>2. CASE n # seq
      <4>1. n \in (heard + 1 + lost) .. (seq - 1)
        BY <1>0, <2>1, <2>2, <3>2
      <4>2. PICK i \in DOMAIN toLinux : IsKa(i) /\ toLinux[i].seq = n
        BY <4>1 DEF NumbersInv
      <4> QED
        BY <2>3, <4>2 DEF IsKa
    <3> QED
      BY <3>1, <3>2
  <2> QED
    BY <2>1, <2>4, <2>5, <2>6, <2>7 DEF NumbersInv, IsKa
<1>2. ASSUME GatewaySend PROVE Goal
  <2>1. /\ UNCHANGED <<heard, lost, seq>> /\ toLinux' = Append(toLinux, CanMsg)
        /\ CanMsg \in OutMsgs /\ CanMsg.ept = "can"
    BY <1>2 DEF GatewaySend, CanMsg, OutMsgs, NoAddr, taskVars, lnxVars
  <2>2. /\ DOMAIN toLinux' = 1 .. (Len(toLinux) + 1)
        /\ \A i \in DOMAIN toLinux : i \in DOMAIN toLinux' /\ toLinux'[i] = toLinux[i]
        /\ toLinux'[Len(toLinux) + 1] = CanMsg
    BY <1>0, <2>1, AppendFacts
  <2>3. \A i \in DOMAIN toLinux' :
          toLinux'[i].ept = "ka" => i \in DOMAIN toLinux /\ toLinux'[i] = toLinux[i]
    BY <1>0, <2>1, <2>2
  <2>4. \A n \in (heard + 1 + lost) .. (seq - 1) :
          \E i \in DOMAIN toLinux' : toLinux'[i].ept = "ka" /\ toLinux'[i].seq = n
    BY <2>2 DEF NumbersInv, IsKa
  <2> QED
    BY <2>1, <2>3, <2>4 DEF NumbersInv, IsKa
<1>3. ASSUME LinuxRecv PROVE Goal
  <2> DEFINE h == Head(toLinux)
  <2>1. /\ toLinux # <<>> /\ toLinux' = Tail(toLinux) /\ seq' = seq
    BY <1>3 DEF LinuxRecv, taskVars
  <2>2. /\ h = toLinux[1] /\ 1 \in DOMAIN toLinux
        /\ DOMAIN toLinux' = 1 .. (Len(toLinux) - 1)
        /\ \A i \in DOMAIN toLinux' : i + 1 \in DOMAIN toLinux /\ toLinux'[i] = toLinux[i + 1]
    BY <1>0, <2>1, TailFacts
  <2>3. \A i \in DOMAIN toLinux : i # 1 => i - 1 \in DOMAIN toLinux' /\ toLinux'[i - 1] = toLinux[i]
    BY <1>0, <2>2
  <2>4. ASSUME h.ept = "ka" PROVE h.seq = heard + 1 + lost
    <3>1. heard + 1 + lost <= h.seq /\ h.seq <= seq - 1
      BY <1>0, <2>2, <2>4 DEF NumbersInv, IsKa
    <3>2. PICK i \in DOMAIN toLinux : IsKa(i) /\ toLinux[i].seq = heard + 1 + lost
      BY <1>0, <2>2, <3>1 DEF NumbersInv
    <3>3. i = 1
      <4> SUFFICES ASSUME i # 1 PROVE FALSE
        OBVIOUS
      <4>1. 1 < i /\ IsKa(1)
        BY <1>0, <2>2, <2>4, <3>2 DEF IsKa
      <4>2. toLinux[1].seq < toLinux[i].seq
        BY <2>2, <3>2, <4>1 DEF NumbersInv
      <4>3. toLinux[1].seq \in Nat
        BY <1>0, <2>2
      <4> QED
        BY <1>0, <2>2, <3>1, <3>2, <4>2, <4>3
    <3> QED
      BY <2>2, <3>2, <3>3
  <2>5. CASE h.ept = "can"
    <3>1. UNCHANGED <<heard, lost>>
      BY <1>3, <2>5 DEF LinuxRecv
    <3>2. \A n \in (heard + 1 + lost) .. (seq - 1) :
            \E i \in DOMAIN toLinux' : toLinux'[i].ept = "ka" /\ toLinux'[i].seq = n
      <4> SUFFICES ASSUME NEW n \in (heard + 1 + lost) .. (seq - 1)
                   PROVE  \E i \in DOMAIN toLinux' :
                            toLinux'[i].ept = "ka" /\ toLinux'[i].seq = n
        OBVIOUS
      <4>1. PICK i \in DOMAIN toLinux : IsKa(i) /\ toLinux[i].seq = n
        BY DEF NumbersInv
      <4>2. i # 1
        BY <2>2, <2>5, <4>1 DEF IsKa
      <4> QED
        BY <2>3, <4>1, <4>2 DEF IsKa
    <3>3. \A i \in DOMAIN toLinux' :
            toLinux'[i].ept = "ka" =>
              heard + lost < toLinux'[i].seq /\ toLinux'[i].seq < seq
      BY <2>2 DEF NumbersInv, IsKa
    <3>4. \A i, j \in DOMAIN toLinux' :
            toLinux'[i].ept = "ka" /\ toLinux'[j].ept = "ka" /\ i < j
              => toLinux'[i].seq < toLinux'[j].seq
      BY <1>0, <2>2 DEF NumbersInv, IsKa
    <3> QED
      BY <2>1, <3>1, <3>2, <3>3, <3>4 DEF NumbersInv, IsKa
  <2>6. CASE h.ept = "ka"
    <3>1. heard' + lost' = h.seq /\ (heard' # heard => heard' = h.seq)
      BY <1>0, <1>3, <2>4, <2>6 DEF LinuxRecv
    <3>2. h.seq \in Nat /\ h.seq < seq
      BY <1>0, <2>2, <2>6 DEF NumbersInv, IsKa
    <3>3. heard' \in Int /\ lost' \in Int
      BY <1>0, <1>3, <2>6, <3>2 DEF LinuxRecv
    <3>4. h.seq = heard + 1 + lost
      BY <2>4, <2>6
    <3>5. heard' + lost' = heard + 1 + lost
      BY <3>1, <3>4
    <3>6. heard \in Int /\ lost \in Int /\ seq \in Int
      BY <1>0
    <3>7. heard' + 1 + lost' <= seq
      BY <3>2, <3>3, <3>4, <3>5, <3>6, SumBound
    <3>8. \A i \in DOMAIN toLinux' :
            toLinux'[i].ept = "ka" =>
              heard' + lost' < toLinux'[i].seq /\ toLinux'[i].seq < seq
      BY <1>0, <2>2, <2>6, <3>1 DEF NumbersInv, IsKa
    <3>9. \A i, j \in DOMAIN toLinux' :
            toLinux'[i].ept = "ka" /\ toLinux'[j].ept = "ka" /\ i < j
              => toLinux'[i].seq < toLinux'[j].seq
      BY <1>0, <2>2 DEF NumbersInv, IsKa
    <3>10. \A n \in (heard' + 1 + lost') .. (seq - 1) :
            \E i \in DOMAIN toLinux' : toLinux'[i].ept = "ka" /\ toLinux'[i].seq = n
      <4> SUFFICES ASSUME NEW n \in (heard' + 1 + lost') .. (seq - 1)
                   PROVE  \E i \in DOMAIN toLinux' :
                            toLinux'[i].ept = "ka" /\ toLinux'[i].seq = n
        OBVIOUS
      <4>0. n \in (heard + 1 + lost) .. (seq - 1) /\ n # heard + 1 + lost
        <5>1. n \in (heard' + 1 + lost') .. (seq - 1)
          OBVIOUS
        <5> QED
          BY <3>3, <3>5, <3>6, <5>1, SumRange
      <4>1. PICK i \in DOMAIN toLinux : IsKa(i) /\ toLinux[i].seq = n
        BY <4>0 DEF NumbersInv
      <4>2. i # 1
        BY <2>2, <2>4, <2>6, <4>0, <4>1
      <4> QED
        BY <2>3, <4>1, <4>2 DEF IsKa
    <3> QED
      BY <2>1, <2>4, <2>6, <3>1, <3>7, <3>8, <3>9, <3>10 DEF NumbersInv, IsKa
  <2>7. h.ept \in {"ka", "can"}
    BY <1>0, <2>2 DEF OutMsgs
  <2> QED
    BY <2>5, <2>6, <2>7
<1>4. ASSUME UNCHANGED <<toLinux, heard, lost>>, seq' = seq PROVE Goal
  BY <1>4 DEF NumbersInv, IsKa
<1> QED
  BY <1>1, <1>2, <1>3, <1>4, RingSteps

-----------------------------------------------------------------------------
\* IInv is an inductive invariant of the keepalive.
THEOREM Invariance == Spec => []IInv
<1>1. Init => IInv
  <2> SUFFICES ASSUME Init PROVE IInv
    OBVIOUS
  <2>1. TypeOK
    BY PauseAssumption, BufsAssumption
       DEF Init, TypeOK, CanMsg, OutMsgs, InMsgs, NoAddr
  <2>2. ScheduleInv /\ NeverAhead
    BY PauseAssumption DEF Init, ScheduleInv, NeverAhead
  <2>3. NumbersInv
    BY DEF Init, NumbersInv
  <2> QED
    BY <2>1, <2>2, <2>3 DEF IInv
<1>2. IInv /\ [Next]_vars => IInv'
  BY TypeStep, ScheduleStep, AheadStep, NumbersStep DEF IInv
<1> QED
  BY <1>1, <1>2, PTL DEF Spec

\* The variables keep their types.
THEOREM TypeCorrect == Spec => []TypeOK
<1>1. IInv => TypeOK
  BY DEF IInv
<1> QED
  BY <1>1, Invariance, PTL

\* No message is ahead of the schedule, whatever the delays of the thread.
THEOREM ScheduleCorrect == Spec => []NeverAhead
<1>1. IInv => NeverAhead
  BY DEF IInv
<1> QED
  BY <1>1, Invariance, PTL

\* What Linux sees missing between two numbers is what was sent and lost.
THEOREM GapsCorrect == Spec => GapsAreLosses
<1>1. IInv /\ [Next]_vars => [heard' # heard => heard' = heard + 1 + lost]_vars
  BY NumbersStep DEF IInv
<1> QED
  BY <1>1, Invariance, PTL DEF Spec, GapsAreLosses

-----------------------------------------------------------------------------
(* The safety kernel of FollowsModule.                                     *)

\* The last word of the module's driver: the latest "hi" in vring 1 is at i.
LastHail(i) ==
    /\ toMcore[i].ept = "ka"
    /\ \A j \in DOMAIN toMcore : j > i => toMcore[j].ept # "ka"

\* While the module is bound its address is the destination, or is on its way
\* to be: the last "hi" in vring 1 is its own, whatever modules came before it.
\* FollowsModule adds that the way comes to its end.
ModuleKnown ==
    linuxAddr # NoAddr =>
        \/ /\ kaPeer = linuxAddr
           /\ \A i \in DOMAIN toMcore : toMcore[i].ept # "ka"
        \/ \E i \in DOMAIN toMcore : LastHail(i) /\ toMcore[i].src = linuxAddr

\* A thread that waits for the CAN bus holds a frame, never a "hi".
HeldInv == mngPc = "can_send" => toMcore[1].ept = "can"

\* A released message that is no "hi" takes no address along.
LEMMA CanReleased ==
    ASSUME TypeOK, ModuleKnown, toMcore # <<>>, toMcore[1].ept = "can",
           toMcore' = Tail(toMcore), UNCHANGED <<kaPeer, linuxAddr>>
    PROVE  ModuleKnown'
<1> SUFFICES ASSUME linuxAddr # NoAddr
             PROVE  \/ /\ kaPeer = linuxAddr
                       /\ \A i \in DOMAIN toMcore' : toMcore'[i].ept # "ka"
                    \/ \E i \in DOMAIN toMcore' :
                         LastHail(i)' /\ toMcore'[i].src = linuxAddr
  BY DEF ModuleKnown
<1>1. /\ toMcore \in Seq(InMsgs)
      /\ DOMAIN toMcore = 1 .. Len(toMcore) /\ Len(toMcore) \in Nat
      /\ DOMAIN toMcore' = 1 .. (Len(toMcore) - 1)
      /\ \A i \in DOMAIN toMcore' : i + 1 \in DOMAIN toMcore /\ toMcore'[i] = toMcore[i + 1]
  BY TailFacts DEF TypeOK
<1>2. CASE kaPeer = linuxAddr /\ \A i \in DOMAIN toMcore : toMcore[i].ept # "ka"
  BY <1>1, <1>2
<1>3. ASSUME NEW i \in DOMAIN toMcore, LastHail(i), toMcore[i].src = linuxAddr
      PROVE  \E k \in DOMAIN toMcore' :
               LastHail(k)' /\ toMcore'[k].src = linuxAddr
  <2>1. i # 1
    BY <1>3 DEF LastHail
  <2>2. i - 1 \in DOMAIN toMcore' /\ toMcore'[i - 1] = toMcore[i]
    BY <1>1, <2>1
  <2>3. \A j \in DOMAIN toMcore' : j > i - 1 => toMcore'[j].ept # "ka"
    BY <1>1, <1>3 DEF LastHail
  <2> QED
    BY <1>3, <2>2, <2>3 DEF LastHail
<1> QED
  BY <1>2, <1>3 DEF ModuleKnown

\* The callback learns the address of the oldest "hi"; it is the module's own
\* when no later one follows it.
LEMMA HailTaken ==
    ASSUME TypeOK, ModuleKnown, MngKeepalive
    PROVE  ModuleKnown'
<1> SUFFICES ASSUME linuxAddr # NoAddr
             PROVE  \/ /\ kaPeer' = linuxAddr
                       /\ \A i \in DOMAIN toMcore' : toMcore'[i].ept # "ka"
                    \/ \E i \in DOMAIN toMcore' :
                         LastHail(i)' /\ toMcore'[i].src = linuxAddr
  BY DEF ModuleKnown, MngKeepalive, lnxVars
<1>1. /\ toMcore \in Seq(InMsgs) /\ toMcore # <<>> /\ Head(toMcore) = toMcore[1]
      /\ DOMAIN toMcore = 1 .. Len(toMcore) /\ Len(toMcore) \in Nat
      /\ DOMAIN toMcore' = 1 .. (Len(toMcore) - 1)
      /\ \A i \in DOMAIN toMcore' : i + 1 \in DOMAIN toMcore /\ toMcore'[i] = toMcore[i + 1]
  BY TailFacts DEF TypeOK, MngKeepalive
<1>2. 1 \in DOMAIN toMcore /\ toMcore[1].ept = "ka" /\ kaPeer' = toMcore[1].src
  BY <1>1 DEF MngKeepalive, Learnt
<1>3. PICK i \in DOMAIN toMcore : LastHail(i) /\ toMcore[i].src = linuxAddr
  BY <1>2 DEF ModuleKnown
<1>4. CASE i = 1
  <2>1. \A j \in DOMAIN toMcore' : toMcore'[j].ept # "ka"
    BY <1>1, <1>3, <1>4 DEF LastHail
  <2> QED
    BY <1>2, <1>3, <1>4, <2>1
<1>5. CASE i # 1
  <2>1. i - 1 \in DOMAIN toMcore' /\ toMcore'[i - 1] = toMcore[i]
    BY <1>1, <1>5
  <2>2. \A j \in DOMAIN toMcore' : j > i - 1 => toMcore'[j].ept # "ka"
    BY <1>1, <1>3 DEF LastHail
  <2> QED
    BY <1>3, <2>1, <2>2 DEF LastHail
<1> QED
  BY <1>4, <1>5

\* A frame put in vring 1 leaves the last "hi" the last.
LEMMA CanAppended ==
    ASSUME TypeOK, ModuleKnown, LinuxSendCan
    PROVE  ModuleKnown'
<1> DEFINE e == [ept |-> "can", src |-> NoAddr]
<1>1. /\ toMcore \in Seq(InMsgs) /\ e \in InMsgs /\ toMcore' = Append(toMcore, e)
      /\ UNCHANGED <<kaPeer, linuxAddr>>
  BY DEF TypeOK, InMsgs, LinuxSendCan, lnxVars
<1>2. /\ \A i \in DOMAIN toMcore : i \in DOMAIN toMcore' /\ toMcore'[i] = toMcore[i]
      /\ DOMAIN toMcore = 1 .. Len(toMcore) /\ Len(toMcore) \in Nat
      /\ DOMAIN toMcore' = 1 .. (Len(toMcore) + 1)
      /\ toMcore'[Len(toMcore) + 1] = e
  BY <1>1, AppendFacts
<1>3. \A j \in DOMAIN toMcore' : toMcore'[j].ept = "ka" => j \in DOMAIN toMcore
  BY <1>2
<1>4. \A i \in DOMAIN toMcore : LastHail(i) => LastHail(i)'
  BY <1>2, <1>3 DEF LastHail
<1> QED
  BY <1>1, <1>2, <1>3, <1>4 DEF ModuleKnown

\* A module that binds puts its "hi" behind every other.
LEMMA HailAppended ==
    ASSUME TypeOK, NEW a \in Addr, LinuxBind(a)
    PROVE  ModuleKnown'
<1> DEFINE e == [ept |-> "ka", src |-> a]
<1>0. PICK n : n = Len(toMcore) + 1
  OBVIOUS
<1>1. /\ toMcore \in Seq(InMsgs) /\ e \in InMsgs /\ toMcore' = Append(toMcore, e)
      /\ linuxAddr' = a
  BY DEF TypeOK, InMsgs, LinuxBind
<1>2. Len(toMcore) \in Nat /\ DOMAIN toMcore' = 1 .. n /\ toMcore'[n] = e
  BY <1>0, <1>1, AppendFacts
<1>3. n \in DOMAIN toMcore' /\ LastHail(n)' /\ toMcore'[n].src = a
  BY <1>0, <1>2 DEF LastHail
<1> QED
  BY <1>1, <1>3 DEF ModuleKnown

\* Every step keeps the module known.
LEMMA KnownStep ==
    ASSUME TypeOK, HeldInv, ModuleKnown, [Next]_vars
    PROVE  HeldInv' /\ ModuleKnown'
<1>1. CASE MngKeepalive
  <2>1. HeldInv'
    BY <1>1 DEF MngKeepalive, HeldInv
  <2> QED
    BY <1>1, <2>1, HailTaken
<1>2. CASE MngCan
  <2>1. /\ toMcore # <<>> /\ toMcore[1].ept = "can" /\ mngPc = "poll"
        /\ UNCHANGED <<kaPeer, linuxAddr>>
    BY <1>2, TailFacts DEF MngCan, lnxVars, TypeOK
  <2>2. CASE toMcore' = Tail(toMcore) /\ UNCHANGED mngPc
    BY <2>1, <2>2, CanReleased DEF HeldInv
  <2>3. CASE mngPc' = "can_send" /\ UNCHANGED toMcore
    BY <2>1, <2>3 DEF HeldInv, ModuleKnown, LastHail
  <2> QED
    BY <1>2, <2>2, <2>3 DEF MngCan
<1>3. CASE CanTxDone
  <2>1. /\ toMcore # <<>> /\ toMcore[1].ept = "can" /\ toMcore' = Tail(toMcore)
        /\ mngPc' = "poll" /\ UNCHANGED <<kaPeer, linuxAddr>>
    BY <1>3 DEF CanTxDone, HeldInv, TypeOK, lnxVars
  <2> QED
    BY <2>1, CanReleased DEF HeldInv
<1>4. CASE LinuxSendCan
  <2>1. HeldInv'
    <3>1. [ept |-> "can", src |-> NoAddr] \in InMsgs
      BY DEF InMsgs
    <3>2. \A i \in DOMAIN toMcore : toMcore'[i] = toMcore[i]
      BY <1>4, <3>1, AppendFacts DEF LinuxSendCan, TypeOK
    <3>3. mngPc = "can_send" => 1 \in DOMAIN toMcore
      BY DEF TypeOK
    <3> QED
      BY <1>4, <3>2, <3>3 DEF HeldInv, LinuxSendCan
  <2> QED
    BY <1>4, <2>1, CanAppended
<1>5. ASSUME NEW a \in Addr, LinuxBind(a) PROVE HeldInv' /\ ModuleKnown'
  <2>1. HeldInv'
    <3>1. [ept |-> "ka", src |-> a] \in InMsgs
      BY DEF InMsgs
    <3>2. \A i \in DOMAIN toMcore : toMcore'[i] = toMcore[i]
      BY <1>5, <3>1, AppendFacts DEF LinuxBind, TypeOK
    <3>3. mngPc = "can_send" => 1 \in DOMAIN toMcore
      BY DEF TypeOK
    <3> QED
      BY <1>5, <3>2, <3>3 DEF HeldInv, LinuxBind
  <2> QED
    BY <1>5, <2>1, HailAppended
<1>6. CASE LinuxUnbind
  BY <1>6 DEF LinuxUnbind, HeldInv, ModuleKnown
<1>7. CASE UNCHANGED <<toMcore, mngPc, kaPeer, linuxAddr>>
  BY <1>7 DEF HeldInv, ModuleKnown, LastHail
<1>8. \/ MngKeepalive \/ MngCan \/ CanTxDone \/ LinuxSendCan \/ LinuxUnbind
      \/ \E a \in Addr : LinuxBind(a)
      \/ UNCHANGED <<toMcore, mngPc, kaPeer, linuxAddr>>
  BY DEF Next, KaTask, MngTask, Linux, Tick, KaStart, KaWake, KaSend,
         GatewaySend, LinuxRecv, lnxVars, vars
<1> QED
  BY <1>1, <1>2, <1>3, <1>4, <1>5, <1>6, <1>7, <1>8

\* However often modules come and go, and whatever their "hi"s wait behind in
\* vring 1, a bound module is the destination of the keepalives or the last
\* "hi" that ka_recv_cb will be given is the module's own.
THEOREM ModuleFollowed == Spec => []ModuleKnown
<1>1. Init => HeldInv /\ ModuleKnown
  BY DEF Init, HeldInv, ModuleKnown
<1>2. TypeOK /\ HeldInv /\ ModuleKnown /\ [Next]_vars => HeldInv' /\ ModuleKnown'
  BY KnownStep
<1> QED
  BY <1>1, <1>2, TypeCorrect, PTL DEF Spec
=============================================================================
