-------------------------- MODULE RpmsgEchoProofs --------------------------
(***************************************************************************)
(* Proofs about RpmsgEcho, for any number of messages, buffers and lines:  *)
(* its types, that no message is slept on, where the buffers are, and that *)
(* the client's messages come back in order.                               *)
(***************************************************************************)
EXTENDS RpmsgEcho, FiniteSetTheorems, SequenceTheorems, TLAPS

\* What the semaphores first mean is "the platform is up": a thread takes
\* that signal before its endpoint exists, hence before any message comes.
SignalInv ==
    /\ mngPc = "init" => scSem = 0 /\ clientPc = "wait"
    /\ "client" \in epts \/ (\E i \in 1 .. Len(toMcore) : toMcore[i].ept = "client")
         => clientPc \notin {"wait", "create"}
    /\ scMsg = None => clientPc # "send" /\ (scSem = 1 => clientPc = "wait")
    /\ ttyPc = "send" => txBuff # None
    /\ clientPc \in {"wait", "create", "take"} => msgCnt < COUNT

\* Lines are numbered in their order: those in vring 1 are younger than those
\* whose buffers are held.
LinesInv ==
    /\ \A i \in 1 .. Len(toMcore) : toMcore[i].ept = "tty" =>
         /\ toMcore[i].num <= lines
         /\ \A n \in held : n < toMcore[i].num
         /\ \A j \in 1 .. i - 1 :
              toMcore[j].ept = "tty" => toMcore[j].num < toMcore[i].num

IInv == TypeOK /\ SignalInv /\ LinesInv /\ BuffersAccounted

-----------------------------------------------------------------------------
(* Vrings and held buffers.                                                *)

\* A vring without its oldest message.
LEMMA TailFact ==
    ASSUME NEW q \in Seq(Messages), q # <<>>
    PROVE  /\ Head(q) \in Messages /\ Head(q) = q[1] /\ 1 \in 1 .. Len(q)
           /\ Tail(q) \in Seq(Messages) /\ Len(Tail(q)) = Len(q) - 1
           /\ \A i \in 1 .. Len(Tail(q)) : i + 1 \in 1 .. Len(q) /\ Tail(q)[i] = q[i + 1]
<1>1. Len(q) \in Nat \ {0}
  BY EmptySeq
<1>2. Head(q) = q[1] /\ q[1] \in Messages
  BY <1>1
<1>3. Tail(q) \in Seq(Messages) /\ Len(Tail(q)) = Len(q) - 1
      /\ \A i \in 1 .. Len(Tail(q)) : Tail(q)[i] = q[i + 1]
  BY <1>1
<1>. QED  BY <1>1, <1>2, <1>3

LEMMA AppendFact ==
    ASSUME NEW q \in Seq(Messages), NEW m \in Messages
    PROVE  /\ Append(q, m) \in Seq(Messages) /\ Len(Append(q, m)) = Len(q) + 1
           /\ \A i \in 1 .. Len(q) : Append(q, m)[i] = q[i]
           /\ Append(q, m)[Len(q) + 1] = m
           /\ Len(q) \in Nat
BY AppendProperties, LenProperties

LEMMA MessageFact ==
    ASSUME NEW e \in Ept, NEW n \in Nat \ {None}
    PROVE  /\ Message(e, n) \in Messages
           /\ Message(e, n).ept = e /\ Message(e, n).num = n
BY DEF Message, Messages

\* Only so many lines are held as have come.
LEMMA HeldFact ==
    ASSUME TypeOK, NEW S \in SUBSET held
    PROVE  IsFiniteSet(S) /\ Cardinality(S) \in Nat /\ Cardinality(S) <= Cardinality(held)
<1>1. lines \in Nat /\ held \subseteq 1 .. lines
  BY DEF TypeOK
<1>2. IsFiniteSet(1 .. lines)
  BY <1>1, FS_Interval
<1>3. IsFiniteSet(held)
  BY <1>1, <1>2, FS_Subset
<1>. QED  BY <1>3, FS_Subset, FS_CardinalityType

-----------------------------------------------------------------------------
(* The initial state.                                                      *)

LEMMA InitInv == Init => IInv
<1>. SUFFICES ASSUME Init PROVE IInv
  OBVIOUS
<1>1. Cardinality(held) = 0 /\ held = {}
  BY FS_EmptySet DEF Init
<1>2. toMcore = <<>> /\ toLinux = <<>> /\ replies = <<>>
  BY DEF Init
<1>3. /\ toMcore \in Seq(Messages) /\ toLinux \in Seq(Messages) /\ replies \in Seq(Nat)
      /\ Len(toMcore) = 0 /\ Len(toLinux) = 0
  BY <1>2
<1>4. gaveUp \in BOOLEAN /\ kick \in BOOLEAN
  BY Zenon DEF Init
<1>5. TypeOK
  BY <1>1, <1>3, <1>4, CountAssumption, BufsAssumption
     DEF Init, TypeOK, Semaphores, None
<1>6. SignalInv /\ LinesInv
  BY <1>3, CountAssumption DEF Init, SignalInv, LinesInv
<1>7. BuffersAccounted
  <2>1. ttyMsg = None /\ overlaps = 0 /\ empties = 0
    BY DEF Init
  <2>. QED  BY <1>1, <2>1 DEF BuffersAccounted, Answering
<1>. QED  BY <1>5, <1>6, <1>7 DEF IInv

-----------------------------------------------------------------------------
(* Types.                                                                  *)

LEMMA MngTypes == ASSUME IInv, MngTask PROVE TypeOK'
<1>. USE DEF Semaphores, Given, clientVars, ttyVars, lnxVars
<1>1. CASE MngInit \/ MngInitFails \/ MngTake \/ MngDone
  BY <1>1 DEF MngInit, MngInitFails, MngTake, MngDone, IInv, TypeOK
<1>2. CASE MngClient \/ MngTty
  <2>1. /\ toMcore # <<>> /\ toMcore' = Tail(toMcore) /\ toMcore \in Seq(Messages)
        /\ Len(toMcore) \in Nat
    BY <1>2 DEF MngClient, MngTty, IInv, TypeOK
  <2>0. /\ toMcore' \in Seq(Messages) /\ Len(toMcore') = Len(toMcore) - 1
        /\ Head(toMcore) \in Messages /\ Head(toMcore) = toMcore[1]
        /\ 1 \in 1 .. Len(toMcore)
    BY <2>1, TailFact
  <2>2. /\ toMcore' \in Seq(Messages) /\ Len(toMcore') = Len(toMcore) - 1
        /\ Head(toMcore).num \in Nat /\ Head(toMcore).num > 0
        /\ Head(toMcore).ept = "tty" => Head(toMcore).num <= lines
    BY <2>0 DEF Messages, IInv, LinesInv, None
  <2>3. /\ IsFiniteSet(held) /\ Cardinality(held) \in Nat /\ held \subseteq held
    BY HeldFact DEF IInv
  <2>4. CASE MngClient
    BY <2>1, <2>2, <2>3, <2>4, BufsAssumption DEF MngClient, AfterMessage, IInv, TypeOK
  <2>5. CASE MngTty
    <3>. DEFINE n == Head(toMcore).num
    <3>1. held' = held \cup {n} /\ lines' = lines /\ n \in 1 .. lines
      BY <2>2, <2>5 DEF MngTty, IInv, TypeOK
    <3>2. Cardinality(held') <= Cardinality(held) + 1 /\ Cardinality(held') \in Nat
      BY <2>3, <3>1, FS_AddElement
    <3>3. held' \subseteq 1 .. lines'
      BY <3>1 DEF IInv, TypeOK
    <3>5. Len(toMcore') + Cardinality(held') <= NumBufs
      BY <2>1, <2>2, <2>3, <3>2, BufsAssumption DEF IInv, TypeOK
    <3>4. overlaps' \in Nat /\ ttyMsg' \in Nat
      BY <2>2, <2>5 DEF MngTty, IInv, TypeOK
    <3>. QED  BY <2>2, <2>5, <3>3, <3>4, <3>5 DEF MngTty, AfterMessage, IInv, TypeOK
  <2>. QED  BY <1>2, <2>4, <2>5
<1>. QED  BY <1>1, <1>2 DEF MngTask

\* A message that is sent finds room, or is not sent.
LEMMA SendTypes ==
    ASSUME TypeOK, NEW m \in Messages, Send(m)
    PROVE  toLinux' \in Seq(Messages) /\ Len(toLinux') <= NumBufs /\ gaveUp' \in BOOLEAN
<1>1. CASE HasRoom
  <2>1. toLinux' = Append(toLinux, m) /\ gaveUp' = gaveUp
    BY <1>1 DEF Send
  <2>. QED  BY <1>1, <2>1, AppendFact, BufsAssumption DEF HasRoom, TypeOK
<1>2. CASE ~HasRoom
  BY <1>2 DEF Send, TypeOK
<1>. QED  BY <1>1, <1>2

LEMMA ClientTypes == ASSUME IInv, ClientTask PROVE TypeOK'
<1>. USE DEF Semaphores, ttyVars, lnxVars
<1>1. CASE ClientStart
  BY <1>1 DEF ClientStart, IInv, TypeOK
<1>2. CASE ClientCreate
  BY <1>2 DEF ClientCreate, IInv, TypeOK, Ept
<1>3. CASE ClientTake
  <2>1. msgCnt' \in 0 .. COUNT
    BY <1>3, CountAssumption DEF ClientTake, IInv, TypeOK, SignalInv
  <2>. QED  BY <1>3, <2>1 DEF ClientTake, IInv, TypeOK
<1>4. CASE ClientSend
  <2>1. scMsg \in Nat \ {None} /\ "client" \in Ept
    BY <1>4 DEF ClientSend, IInv, TypeOK, SignalInv, Ept
  <2>2. toLinux' \in Seq(Messages) /\ Len(toLinux') <= NumBufs /\ gaveUp' \in BOOLEAN
    BY <1>4, <2>1, MessageFact, SendTypes DEF ClientSend, IInv
  <2>. QED  BY <1>4, <2>2 DEF ClientSend, IInv, TypeOK
<1>. QED  BY <1>1, <1>2, <1>3, <1>4 DEF ClientTask

LEMMA TtyTypes == ASSUME IInv, TtyTask PROVE TypeOK'
<1>. USE DEF Semaphores, clientVars, lnxVars
<1>1. CASE TtyStart
  BY <1>1 DEF TtyStart, IInv, TypeOK
<1>2. CASE TtyCreate
  BY <1>2 DEF TtyCreate, IInv, TypeOK, Ept
<1>3. CASE TtyTake
  BY <1>3 DEF TtyTake, HasLength, ClearedRecord, None, IInv, TypeOK
<1>4. CASE TtySend
  <2>1. txBuff \in Nat \ {None} /\ "tty" \in Ept
    BY <1>4 DEF TtySend, IInv, TypeOK, SignalInv, Ept
  <2>2. toLinux' \in Seq(Messages) /\ Len(toLinux') <= NumBufs /\ gaveUp' \in BOOLEAN
    <3>1. CASE Send(Message("tty", txBuff))
      BY <2>1, <3>1, MessageFact, SendTypes DEF IInv
    <3>2. CASE TooLong
      BY <3>2 DEF TooLong, IInv, TypeOK
    <3>. QED  BY <1>4, <3>1, <3>2 DEF TtySend
  <2>3. held' \subseteq held /\ UNCHANGED <<lines, toMcore>> /\ Len(toMcore) \in Nat
        /\ Cardinality(held) \in Nat
    BY <1>4, HeldFact DEF TtySend, IInv, TypeOK
  <2>4. held' \subseteq 1 .. lines' /\ Len(toMcore') + Cardinality(held') <= NumBufs
    <3>1. Cardinality(held') \in Nat /\ Cardinality(held') <= Cardinality(held)
      BY <2>3, HeldFact DEF IInv
    <3>. QED  BY <2>3, <3>1, BufsAssumption DEF IInv, TypeOK
  <2>. QED  BY <1>4, <2>2, <2>4 DEF TtySend, ClearedRecord, None, IInv, TypeOK
<1>. QED  BY <1>1, <1>2, <1>3, <1>4 DEF TtyTask

LEMMA LinuxTypes == ASSUME IInv, Linux PROVE TypeOK'
<1>. USE DEF Semaphores, clientVars, ttyVars
<1>1. CASE LinuxPing \/ LinuxWriteLine
  <2>1. PICK e \in Ept, n \in Nat \ {None} : LinuxPut(e, n)
    <3>1. pings + 1 \in Nat \ {None} /\ lines + 1 \in Nat \ {None}
      BY DEF IInv, TypeOK, None
    <3>. QED  BY <1>1, <3>1 DEF LinuxPing, LinuxWriteLine, Ept
  <2>2. toMcore' \in Seq(Messages) /\ Len(toMcore') = Len(toMcore) + 1 /\ Len(toMcore) \in Nat
    BY <2>1, MessageFact, AppendFact DEF LinuxPut, IInv, TypeOK
  <2>3. Cardinality(held) \in Nat /\ held' = held
    BY <2>1, HeldFact DEF LinuxPut, IInv
  <2>4. Len(toMcore') + Cardinality(held') <= NumBufs
    BY <2>1, <2>2, <2>3, BufsAssumption DEF LinuxPut, LinuxHasBuffer
  <2>5. pings' \in 0 .. COUNT /\ lines' \in Nat /\ lines' >= lines
    BY <1>1, CountAssumption DEF LinuxPing, LinuxWriteLine, IInv, TypeOK
  <2>8. empty' \subseteq 1 .. lines'
    <3>1. empty \subseteq 1 .. lines /\ lines \in Nat
      BY DEF IInv, TypeOK
    <3>2. CASE LinuxPing
      BY <3>1, <3>2 DEF LinuxPing
    <3>3. CASE LinuxWriteLine
      <4>1. lines' = lines + 1 /\ empty' \subseteq empty \cup {lines + 1}
        BY <3>3 DEF LinuxWriteLine
      <4>. QED  BY <3>1, <4>1
    <3>. QED  BY <1>1, <3>2, <3>3
  <2>6. held' \subseteq 1 .. lines'
    BY <2>3, <2>5 DEF IInv, TypeOK
  <2>7. kick' \in BOOLEAN
    BY <2>1 DEF LinuxPut
  <2>. QED  BY <2>1, <2>2, <2>4, <2>5, <2>6, <2>7, <2>8
           DEF LinuxPut, IInv, TypeOK
<1>2. CASE LinuxKick
  BY <1>2 DEF LinuxKick, Given, IInv, TypeOK
<1>3. CASE LinuxRecv
  <2>0. toLinux # <<>> /\ toLinux' = Tail(toLinux) /\ toLinux \in Seq(Messages)
    BY <1>3 DEF LinuxRecv, IInv, TypeOK
  <2>1. /\ toLinux' \in Seq(Messages) /\ Len(toLinux') = Len(toLinux) - 1
        /\ Head(toLinux).num \in Nat /\ Len(toLinux) \in Nat
    BY <2>0, TailFact, LenProperties DEF Messages
  <2>2. replies' \in Seq(Nat)
    BY <1>3, <2>1 DEF LinuxRecv, IInv, TypeOK
  <2>3. Len(toLinux') <= NumBufs
    BY <2>1, BufsAssumption DEF IInv, TypeOK
  <2>. QED  BY <1>3, <2>1, <2>2, <2>3 DEF LinuxRecv, IInv, TypeOK
<1>. QED  BY <1>1, <1>2, <1>3 DEF Linux

LEMMA TypeStep == IInv /\ [Next]_vars => TypeOK'
<1>1. UNCHANGED vars /\ TypeOK => TypeOK'
  BY DEF vars, clientVars, ttyVars, lnxVars, TypeOK
<1>. QED  BY <1>1, MngTypes, ClientTypes, TtyTypes, LinuxTypes DEF Next, IInv

-----------------------------------------------------------------------------
(* Signals.                                                                *)

LEMMA SignalStep == IInv /\ [Next]_vars => SignalInv'
<1>. SUFFICES ASSUME IInv, [Next]_vars PROVE SignalInv'
  OBVIOUS
<1>. USE DEF IInv, clientVars, ttyVars, lnxVars
<1>1. CASE MngInit \/ MngInitFails \/ MngTake \/ MngDone
  BY <1>1 DEF MngInit, MngInitFails, MngTake, MngDone, SignalInv, Given
<1>2. CASE MngClient \/ MngTty
  <2>1. toMcore # <<>> /\ toMcore' = Tail(toMcore) /\ toMcore \in Seq(Messages)
    BY <1>2 DEF MngClient, MngTty, TypeOK
  <2>2. (\E i \in 1 .. Len(toMcore') : toMcore'[i].ept = "client")
          => \E i \in 1 .. Len(toMcore) : toMcore[i].ept = "client"
    BY <2>1, TailFact
  <2>3. Head(toMcore).num # None /\ mngPc' # "init"
    BY <1>2, <2>1, TailFact DEF Messages, MngClient, MngTty, AfterMessage
  <2>4. /\ UNCHANGED <<epts, clientPc, msgCnt, ttyPc, txBuff>>
        /\ scMsg' # None \/ UNCHANGED <<scSem, scMsg>>
    BY <1>2, <2>3 DEF MngClient, MngTty
  <2>. QED  BY <2>2, <2>3, <2>4 DEF SignalInv
<1>3. CASE ClientTask
  BY <1>3 DEF ClientTask, ClientStart, ClientCreate, ClientTake, ClientSend,
              MoreToAnswer, SignalInv
<1>4. CASE TtyTask
  BY <1>4 DEF TtyTask, TtyStart, TtyCreate, TtyTake, HasLength, TtySend,
              SignalInv
<1>5. CASE LinuxPing \/ LinuxWriteLine
  <2>1. PICK e \in Ept, n \in Nat \ {None} : LinuxPut(e, n)
    <3>1. pings + 1 \in Nat \ {None} /\ lines + 1 \in Nat \ {None}
      BY DEF TypeOK, None
    <3>. QED  BY <1>5, <3>1 DEF LinuxPing, LinuxWriteLine, Ept
  <2>2. /\ e \in epts
        /\ UNCHANGED <<mngPc, epts, scSem, scMsg, clientPc, msgCnt, ttyPc, txBuff>>
    BY <2>1 DEF LinuxPut
  <2>3. (\E i \in 1 .. Len(toMcore') : toMcore'[i].ept = "client")
          => "client" \in epts \/ \E i \in 1 .. Len(toMcore) : toMcore[i].ept = "client"
    BY <2>1, <2>2, MessageFact, AppendFact DEF LinuxPut, TypeOK
  <2>. QED  BY <2>2, <2>3 DEF SignalInv
<1>6. CASE LinuxKick \/ LinuxRecv \/ UNCHANGED vars
  BY <1>6 DEF LinuxKick, LinuxRecv, vars, SignalInv
<1>. QED  BY <1>1, <1>2, <1>3, <1>4, <1>5, <1>6 DEF Next, MngTask, Linux

-----------------------------------------------------------------------------
(* Lines and their buffers.                                                *)

LEMMA LinesStep == IInv /\ [Next]_vars => LinesInv'
<1>. SUFFICES ASSUME IInv, [Next]_vars PROVE LinesInv'
  OBVIOUS
<1>. USE DEF IInv
<1>0. /\ toMcore \in Seq(Messages) /\ Len(toMcore) \in Nat /\ lines \in Nat
      /\ held \subseteq 1 .. lines
      /\ \A i \in 1 .. Len(toMcore) : toMcore[i].num \in Nat
  <2>1. \A i \in 1 .. Len(toMcore) : toMcore[i] \in Messages
    BY ElementOfSeq DEF TypeOK
  <2>. QED  BY <2>1, LenProperties DEF TypeOK, Messages
<1>1. CASE MngClient \/ MngTty
  <2>1. /\ toMcore # <<>> /\ toMcore' = Tail(toMcore) /\ lines' = lines
        /\ \/ held' = held
           \/ held' = held \cup {toMcore[1].num} /\ toMcore[1].ept = "tty"
    BY <1>0, <1>1, TailFact DEF MngClient, MngTty, lnxVars, ttyVars
  <2>2. /\ Len(toMcore') = Len(toMcore) - 1 /\ 1 \in 1 .. Len(toMcore)
        /\ \A i \in 1 .. Len(toMcore') :
             i + 1 \in 1 .. Len(toMcore) /\ toMcore'[i] = toMcore[i + 1]
    BY <1>0, <2>1, TailFact
  <2>3. ASSUME NEW i \in 1 .. Len(toMcore'), toMcore'[i].ept = "tty"
        PROVE  /\ toMcore'[i].num <= lines
               /\ \A n \in held' : n < toMcore'[i].num
               /\ \A j \in 1 .. i - 1 :
                    toMcore'[j].ept = "tty" => toMcore'[j].num < toMcore'[i].num
    <3>1. i + 1 \in 1 .. Len(toMcore) /\ toMcore'[i] = toMcore[i + 1]
          /\ 1 \in 1 .. (i + 1) - 1
      BY <2>2
    <3>2. /\ toMcore'[i].num <= lines
          /\ \A n \in held : n < toMcore'[i].num
          /\ \A j \in 1 .. (i + 1) - 1 :
               toMcore[j].ept = "tty" => toMcore[j].num < toMcore'[i].num
      BY <2>3, <3>1 DEF LinesInv
    <3>3. \A n \in held' : n < toMcore'[i].num
      BY <2>1, <3>1, <3>2
    <3>4. \A j \in 1 .. i - 1 : j + 1 \in 1 .. (i + 1) - 1 /\ j \in 1 .. Len(toMcore')
      BY <1>0, <2>2
    <3>5. \A j \in 1 .. i - 1 :
             toMcore'[j].ept = "tty" => toMcore'[j].num < toMcore'[i].num
      BY <2>2, <3>2, <3>4
    <3>. QED  BY <3>2, <3>3, <3>5
  <2>. QED  BY <2>1, <2>3 DEF LinesInv
<1>2. CASE LinuxPing \/ LinuxWriteLine
  <2>1. PICK e \in Ept, n \in Nat \ {None} :
          /\ toMcore' = Append(toMcore, Message(e, n)) /\ held' = held
          /\ \/ e = "client" /\ lines' = lines
             \/ n = lines + 1 /\ lines' = lines + 1
    <3>1. pings + 1 \in Nat \ {None} /\ lines + 1 \in Nat \ {None}
      BY DEF TypeOK, None
    <3>. QED  BY <1>2, <3>1 DEF LinuxPing, LinuxWriteLine, LinuxPut, Ept, ttyVars
  <2>2. /\ Len(toMcore') = Len(toMcore) + 1
        /\ \A i \in 1 .. Len(toMcore) : toMcore'[i] = toMcore[i]
        /\ toMcore'[Len(toMcore) + 1].ept = e
        /\ toMcore'[Len(toMcore) + 1].num = n
    BY <1>0, <2>1, MessageFact, AppendFact
  <2>3. ASSUME NEW i \in 1 .. Len(toMcore'), toMcore'[i].ept = "tty"
        PROVE  /\ toMcore'[i].num <= lines'
               /\ \A m \in held' : m < toMcore'[i].num
               /\ \A j \in 1 .. i - 1 :
                    toMcore'[j].ept = "tty" => toMcore'[j].num < toMcore'[i].num
    <3>1. CASE i \in 1 .. Len(toMcore)
      <4>1. \A j \in 1 .. i - 1 : j \in 1 .. Len(toMcore)
        BY <1>0, <3>1
      <4>2. toMcore'[i].num <= lines
        BY <2>2, <2>3, <3>1 DEF LinesInv
      <4>3. toMcore'[i].num \in Nat /\ lines <= lines' /\ lines' \in Nat
        BY <1>0, <2>1, <2>2, <3>1
      <4>4. toMcore'[i].num <= lines'
        BY <1>0, <4>2, <4>3
      <4>. QED  BY <2>1, <2>2, <2>3, <3>1, <4>1, <4>4 DEF LinesInv
    <3>2. CASE i = Len(toMcore) + 1
      <4>1. n = lines + 1 /\ lines' = lines + 1 /\ toMcore'[i].num = lines + 1
        BY <2>1, <2>2, <2>3, <3>2
      <4>2. \A m \in held' : m < toMcore'[i].num
        BY <1>0, <2>1, <4>1
      <4>3. ASSUME NEW j \in 1 .. i - 1, toMcore'[j].ept = "tty"
            PROVE  toMcore'[j].num < toMcore'[i].num
        <5>1. j \in 1 .. Len(toMcore)
          BY <1>0, <3>2
        <5>2. toMcore[j].num <= lines /\ toMcore[j].num \in Nat
          BY <1>0, <2>2, <4>3, <5>1 DEF LinesInv
        <5>. QED  BY <1>0, <2>2, <4>1, <5>1, <5>2
      <4>. QED  BY <1>0, <4>1, <4>2, <4>3
    <3>. QED  BY <1>0, <2>2, <3>1, <3>2
  <2>. QED  BY <2>3 DEF LinesInv
<1>3. CASE UNCHANGED <<toMcore, lines>> /\ held' \subseteq held
  BY <1>3 DEF LinesInv
<1>4. MngInit \/ MngInitFails \/ MngTake \/ MngDone \/ ClientTask \/ TtyTask
        \/ LinuxKick \/ LinuxRecv \/ UNCHANGED vars
      => UNCHANGED <<toMcore, lines>> /\ held' \subseteq held
  BY DEF MngInit, MngInitFails, MngTake, MngDone, ClientTask, ClientStart,
         ClientCreate, ClientTake, ClientSend, TtyTask, TtyStart, TtyCreate, TtyTake,
         TtySend, LinuxKick, LinuxRecv, vars, ttyVars, lnxVars
<1>. QED  BY <1>1, <1>2, <1>3, <1>4 DEF Next, MngTask, Linux

LEMMA BuffersStep == IInv /\ [Next]_vars => BuffersAccounted'
<1>. SUFFICES ASSUME IInv, [Next]_vars PROVE BuffersAccounted'
  OBVIOUS
<1>. USE DEF IInv
<1>1. CASE MngTty
  <2>. DEFINE n == Head(toMcore).num
  <2>1. toMcore # <<>> /\ toMcore \in Seq(Messages) /\ Head(toMcore).ept = "tty"
    BY <1>1 DEF MngTty, TypeOK
  <2>2. n # None /\ n \notin held
    <3>1. Head(toMcore) = toMcore[1] /\ 1 \in 1 .. Len(toMcore) /\ Head(toMcore) \in Messages
      BY <2>1, TailFact
    <3>2. n \in Nat /\ n # None /\ \A m \in held : m < n
      BY <2>1, <3>1 DEF LinesInv, Messages
    <3>. QED  BY <3>2
  <2>3. /\ held' = held \cup {n} /\ ttyMsg' = n
        /\ overlaps' = overlaps + (IF ttyMsg = None THEN 0 ELSE 1)
        /\ empties' = empties
    BY <1>1 DEF MngTty
  <2>4. Answering' = {n} /\ held' \ Answering' = held
    BY <2>2, <2>3 DEF Answering
  <2>5. Cardinality(held) = overlaps' + empties'
    <3>1. overlaps \in Nat /\ empties \in Nat /\ IsFiniteSet(held) /\ Cardinality(held) \in Nat
      BY HeldFact DEF TypeOK
    <3>2. CASE ttyMsg = None
      BY <2>3, <3>1, <3>2 DEF BuffersAccounted, Answering
    <3>3. CASE ttyMsg # None
      <4>1. ttyMsg \in held /\ Cardinality(held \ {ttyMsg}) = overlaps + empties
        BY <3>3 DEF BuffersAccounted, Answering
      <4>2. Cardinality(held \ {ttyMsg}) = Cardinality(held) - 1
        BY <3>1, <4>1, FS_RemoveElement
      <4>. QED  BY <2>3, <3>1, <3>3, <4>1, <4>2
    <3>. QED  BY <3>2, <3>3
  <2>. QED  BY <2>3, <2>4, <2>5 DEF BuffersAccounted
<1>2. CASE TtySend
  <2>1. /\ held' = held \ {ttyMsg} /\ ttyMsg' = None
        /\ UNCHANGED <<overlaps, empties>>
    BY <1>2 DEF TtySend, ClearedRecord
  <2>2. Answering' = {} /\ held' = held \ Answering
    <3>1. None \notin held
      BY DEF TypeOK, None
    <3>. QED  BY <2>1, <3>1 DEF Answering
  <2>3. held' \ Answering' = held \ Answering
    BY <2>2
  <2>. QED  BY <2>1, <2>2, <2>3 DEF BuffersAccounted
<1>5. CASE TtyTake
  <2>1. CASE ttyMsg = None \/ HasLength
    <3>1. UNCHANGED <<held, ttyMsg, overlaps, empties>>
      BY <1>5, <2>1 DEF TtyTake, ClearedRecord, HasLength, TypeOK
    <3>. QED  BY <3>1 DEF BuffersAccounted, Answering
  <2>2. CASE ttyMsg # None /\ ~HasLength
    <3>1. /\ ttyMsg' = None /\ empties' = empties + 1
          /\ UNCHANGED <<held, overlaps>>
      BY <1>5, <2>2 DEF TtyTake, ClearedRecord
    <3>2. overlaps \in Nat /\ empties \in Nat /\ IsFiniteSet(held)
          /\ Cardinality(held) \in Nat
      BY HeldFact DEF TypeOK
    <3>3. ttyMsg \in held /\ Cardinality(held \ {ttyMsg}) = overlaps + empties
      BY <2>2 DEF BuffersAccounted, Answering
    <3>4. Cardinality(held \ {ttyMsg}) = Cardinality(held) - 1
      BY <3>2, <3>3, FS_RemoveElement
    <3>5. Answering' = {} /\ held' \ Answering' = held
      BY <3>1 DEF Answering
    <3>. QED  BY <3>1, <3>2, <3>3, <3>4, <3>5 DEF BuffersAccounted
  <2>. QED  BY <2>1, <2>2
<1>3. CASE UNCHANGED <<held, ttyMsg, overlaps, empties>>
  BY <1>3 DEF BuffersAccounted, Answering
<1>4. MngInit \/ MngInitFails \/ MngTake \/ MngDone \/ MngClient \/ ClientTask
        \/ TtyStart \/ TtyCreate \/ Linux \/ UNCHANGED vars
      => UNCHANGED <<held, ttyMsg, overlaps, empties>>
  BY DEF MngInit, MngInitFails, MngTake, MngDone, MngClient, ClientTask, ClientStart,
         ClientCreate, ClientTake, ClientSend, TtyStart, TtyCreate, Linux,
         LinuxPing, LinuxWriteLine, LinuxPut, LinuxKick, LinuxRecv, vars, ttyVars
<1>. QED  BY <1>1, <1>2, <1>3, <1>4, <1>5 DEF Next, MngTask, TtyTask

LEMMA Invariance == Spec => []IInv
<1>1. IInv /\ [Next]_vars => IInv'
  BY TypeStep, SignalStep, LinesStep, BuffersStep DEF IInv
<1>. QED  BY <1>1, InitInv, PTL DEF Spec

\* The types of the demo's variables, the limits of its semaphores, and that
\* the buffers of the vrings are never used twice.
THEOREM TypeCorrect == Spec => []TypeOK
<1>1. IInv => TypeOK
  BY DEF IInv
<1>. QED  BY <1>1, Invariance, PTL

\* Each line that comes before the last was answered costs one buffer, and so
\* does each line without text the thread passes over; nothing else does.
THEOREM BuffersCorrect == Spec => []BuffersAccounted
<1>1. IInv => BuffersAccounted
  BY DEF IInv
<1>. QED  BY <1>1, Invariance, PTL

-----------------------------------------------------------------------------
(* Interrupts.                                                             *)

\* The thread sleeps only when vring 1 is empty or an interrupt is still to
\* be taken, although the interrupt's semaphore counts to one.
THEOREM WakeupCorrect == Spec => []NoMissedKick
<1>1. Init => NoMissedKick
  BY DEF Init, NoMissedKick
<1>2. NoMissedKick /\ [Next]_vars => NoMissedKick'
  <2>. SUFFICES ASSUME NoMissedKick, [Next]_vars PROVE NoMissedKick'
    OBVIOUS
  <2>. USE DEF NoMissedKick, lnxVars
  <2>1. CASE MngTask
    BY <2>1 DEF MngTask, MngInit, MngInitFails, MngTake, MngDone, MngClient, MngTty,
                AfterMessage
  <2>2. CASE Linux
    BY <2>2 DEF Linux, LinuxPing, LinuxWriteLine, LinuxPut, LinuxKick, Given,
                LinuxRecv, clientVars, ttyVars
  <2>3. CASE ClientTask \/ TtyTask \/ UNCHANGED vars
    <3>1. UNCHANGED <<toMcore, mngPc, dataSem, kick>>
      BY <2>3 DEF ClientTask, ClientStart, ClientCreate, ClientTake, ClientSend,
                  TtyTask, TtyStart, TtyCreate, TtyTake, TtySend, vars
    <3>. QED  BY <3>1
  <2>. QED  BY <2>1, <2>2, <2>3 DEF Next
<1>. QED  BY <1>1, <1>2, PTL DEF Spec

-----------------------------------------------------------------------------
(* The messages of Linux's client: of EchoesAll the part that is a safety  *)
(* property.                                                               *)

\* There is a message of the client in a vring; the one there is has number n.
Has(q) == \E i \in 1 .. Len(q) : q[i].ept = "client"
Only(q, n) ==
    \A i, j \in 1 .. Len(q) :
        q[i].ept = "client" => q[i].num = n /\ (q[j].ept = "client" => i = j)

\* The message is in sc_msg: not yet taken by the thread, or taken.
Copied == scSem = 1 /\ clientPc \notin {"wait", "create"}
Taken == clientPc = "send"

Underway == Has(toMcore) \/ Copied \/ Taken \/ Has(toLinux)

\* What has come back is what was sent, in order, and each message once.
EchoedInOrder ==
    /\ Len(replies) <= pings
    /\ \A n \in 1 .. Len(replies) : replies[n] = n

\* A message that has not come back is on its way, and a thread is there to
\* take it on, unless an answer found no buffer for 15 seconds.
NoneLost ==
    pings > Len(replies) /\ ~gaveUp =>
        Has(toMcore) \/ (Copied /\ clientPc # "ended") \/ Taken \/ Has(toLinux)

\* The message on its way is in one place only, and the client has counted
\* those it has taken.
PlaceInv ==
    /\ Has(toMcore) => ~Copied /\ ~Taken /\ ~Has(toLinux)
    /\ Copied => ~Taken /\ ~Has(toLinux)
    /\ Taken => ~Has(toLinux)
    /\ msgCnt = (IF Has(toMcore) \/ Copied THEN pings - 1 ELSE pings)

\* It is the last one sent, and its number is right wherever it is.
NumberInv ==
    /\ \A n \in 1 .. Len(replies) : replies[n] = n
    /\ pings = Len(replies) \/ pings = Len(replies) + 1
    /\ Underway => pings = Len(replies) + 1
    /\ pings = Len(replies) + 1 => gaveUp \/ Underway
    /\ Only(toMcore, pings) /\ Only(toLinux, pings)
    /\ Copied \/ Taken => scMsg = pings

\* Linux sends only to a client that lives, and the client lives until it has
\* answered all.
ClientInv ==
    /\ "client" \in epts => clientPc \in {"take", "send"}
    /\ clientPc \in {"wait", "create"} => pings = 0
    /\ clientPc = "create" => scSem = 0
    /\ clientPc = "ended" => pings = 0 \/ msgCnt = COUNT

EchoInv == PlaceInv /\ NumberInv /\ ClientInv

LEMMA OnlyOfNone ==
    ASSUME NEW q, NEW n, ~Has(q)
    PROVE  Only(q, n)
BY DEF Has, Only

\* A message leaves a vring, or comes into it.
LEMMA TailPing ==
    ASSUME NEW q \in Seq(Messages), q # <<>>, NEW n, Only(q, n)
    PROVE  /\ Only(Tail(q), n)
           /\ Head(q).ept = "client" => Has(q) /\ ~Has(Tail(q)) /\ Head(q).num = n
           /\ Head(q).ept # "client" => (Has(Tail(q)) <=> Has(q))
<1>1. /\ Len(q) \in Nat \ {0} /\ Head(q) = q[1] /\ Len(Tail(q)) = Len(q) - 1
      /\ 1 \in 1 .. Len(q)
      /\ \A i \in 1 .. Len(Tail(q)) : i + 1 \in 1 .. Len(q) /\ Tail(q)[i] = q[i + 1]
  BY TailFact, EmptySeq
<1>2. Only(Tail(q), n)
  BY <1>1 DEF Only
<1>3. CASE Head(q).ept = "client"
  <2>1. Has(q) /\ Head(q).num = n
    BY <1>1, <1>3 DEF Has, Only
  <2>2. ASSUME NEW i \in 1 .. Len(Tail(q)), Tail(q)[i].ept = "client"
        PROVE  FALSE
    BY <1>1, <1>3, <2>2 DEF Only
  <2>. QED  BY <1>2, <1>3, <2>1, <2>2 DEF Has
<1>4. CASE Head(q).ept # "client"
  <2>1. ASSUME NEW i \in 1 .. Len(q), q[i].ept = "client"
        PROVE  Has(Tail(q))
    <3>1. i # 1 /\ i - 1 \in 1 .. Len(Tail(q)) /\ (i - 1) + 1 = i
      BY <1>1, <1>4, <2>1
    <3>2. Tail(q)[i - 1].ept = "client"
      BY <1>1, <2>1, <3>1
    <3>. QED  BY <3>1, <3>2 DEF Has
  <2>2. Has(Tail(q)) => Has(q)
    BY <1>1 DEF Has
  <2>. QED  BY <1>2, <1>4, <2>1, <2>2 DEF Has
<1>. QED  BY <1>3, <1>4

LEMMA AppendPing ==
    ASSUME NEW q \in Seq(Messages), NEW m \in Messages, NEW n, Only(q, n)
    PROVE  /\ m.ept # "client" => Only(Append(q, m), n) /\ (Has(Append(q, m)) <=> Has(q))
           /\ m.ept = "client" /\ ~Has(q) => Only(Append(q, m), m.num) /\ Has(Append(q, m))
<1>. DEFINE p == Append(q, m)
<1>1. /\ Len(q) \in Nat /\ Len(p) = Len(q) + 1 /\ p[Len(q) + 1] = m
      /\ \A i \in 1 .. Len(q) : p[i] = q[i]
  BY AppendFact
<1>. HIDE DEF p
<1>2. CASE m.ept # "client"
  <2>1. \A i \in 1 .. Len(p) : p[i].ept = "client" => i \in 1 .. Len(q) /\ p[i] = q[i]
    BY <1>1, <1>2
  <2>2. \A i \in 1 .. Len(q) : i \in 1 .. Len(p)
    BY <1>1
  <2>3. Only(p, n)
    BY <2>1 DEF Only
  <2>4. Has(p) <=> Has(q)
    BY <1>1, <2>1, <2>2 DEF Has
  <2>. QED  BY <1>2, <2>3, <2>4 DEF p
<1>3. CASE m.ept = "client" /\ ~Has(q)
  <2>1. \A i \in 1 .. Len(p) : p[i].ept = "client" => i = Len(q) + 1 /\ p[i] = m
    BY <1>1, <1>3 DEF Has
  <2>2. Len(q) + 1 \in 1 .. Len(p)
    BY <1>1
  <2>3. Only(p, m.num)
    BY <2>1 DEF Only
  <2>4. Has(p)
    BY <1>1, <1>3, <2>2 DEF Has
  <2>. QED  BY <1>3, <2>3, <2>4 DEF p
<1>. QED  BY <1>2, <1>3 DEF p

LEMMA EchoInit == Init => EchoInv
<1>. SUFFICES ASSUME Init PROVE EchoInv
  OBVIOUS
<1>1. /\ Len(toMcore) = 0 /\ Len(toLinux) = 0 /\ Len(replies) = 0
      /\ clientPc = "wait" /\ pings = 0 /\ msgCnt = 0 /\ epts = {}
  BY DEF Init
<1>2. ~Has(toMcore) /\ ~Has(toLinux)
  BY <1>1 DEF Has
<1>3. ~Copied /\ ~Taken
  BY <1>1 DEF Copied, Taken
<1>. QED  BY <1>1, <1>2, <1>3, OnlyOfNone
          DEF EchoInv, PlaceInv, NumberInv, ClientInv, Underway

\* The steps that leave the client's message where it is.
LEMMA EchoFrame ==
    ASSUME EchoInv, UNCHANGED <<replies, pings, clientPc, scMsg, msgCnt>>,
           Has(toMcore)' <=> Has(toMcore), Only(toMcore, pings)',
           Has(toLinux)' <=> Has(toLinux), Only(toLinux, pings)',
           gaveUp => gaveUp', "client" \in epts' => "client" \in epts,
           scSem' = scSem \/ clientPc = "wait"
    PROVE  EchoInv'
<1>1. (Copied' <=> Copied) /\ (Taken' <=> Taken)
  BY DEF Copied, Taken
<1>. QED  BY <1>1 DEF EchoInv, PlaceInv, NumberInv, ClientInv, Underway

LEMMA EchoMng ==
    ASSUME IInv, EchoInv, MngTask
    PROVE  EchoInv'
<1>. USE DEF clientVars, ttyVars, lnxVars
<1>1. CASE MngInit \/ MngInitFails \/ MngTake \/ MngDone
  <2>1. /\ UNCHANGED <<replies, pings, clientPc, scMsg, msgCnt, toMcore, toLinux,
                       gaveUp, epts>>
        /\ scSem' = scSem \/ clientPc = "wait"
    BY <1>1 DEF MngInit, MngInitFails, MngTake, MngDone, IInv, SignalInv
  <2>2. /\ Has(toMcore)' = Has(toMcore) /\ Has(toLinux)' = Has(toLinux)
        /\ Only(toMcore, pings)' = Only(toMcore, pings)
        /\ Only(toLinux, pings)' = Only(toLinux, pings)
    BY <2>1 DEF Has, Only
  <2>. QED  BY <2>1, <2>2, EchoFrame DEF EchoInv, NumberInv
<1>2. CASE MngClient \/ MngTty
  <2>1. /\ UNCHANGED <<replies, pings, clientPc, msgCnt, toLinux, gaveUp, epts>>
        /\ toMcore # <<>> /\ toMcore' = Tail(toMcore) /\ toMcore \in Seq(Messages)
        /\ Only(toMcore, pings)
    BY <1>2 DEF MngClient, MngTty, IInv, TypeOK, EchoInv, NumberInv
  <2>2. /\ Has(toLinux)' = Has(toLinux) /\ Only(toLinux, pings)' = Only(toLinux, pings)
    BY <2>1 DEF Has, Only
  <2>3. Only(Tail(toMcore), pings)
    BY <2>1, TailPing
  <2>4. Only(toMcore, pings)'
    BY <2>1, <2>3
  <2>5. CASE MngTty
    <3>1. Head(toMcore).ept # "client" /\ UNCHANGED <<scSem, scMsg>>
      BY <2>5 DEF MngTty
    <3>2. Has(toMcore') <=> Has(toMcore)
      BY <2>1, <3>1, TailPing
    <3>. QED  BY <2>1, <2>2, <2>4, <3>1, <3>2, EchoFrame DEF EchoInv, NumberInv
  <2>6. CASE MngClient
    <3>1. /\ Head(toMcore).ept = "client" /\ scSem' = 1
          /\ scMsg' = Head(toMcore).num
      BY <2>6 DEF MngClient, Given
    <3>2. Has(toMcore) /\ ~Has(toMcore') /\ scMsg' = pings
      BY <2>1, <3>1, TailPing
    <3>3. clientPc \notin {"wait", "create"}
      BY <3>2 DEF IInv, SignalInv, Has
    <3>4. Copied' /\ ~Copied /\ ~Taken /\ ~Taken' /\ ~Has(toLinux)
      BY <2>1, <3>1, <3>2, <3>3 DEF Copied, Taken, EchoInv, PlaceInv
    <3>. QED  BY <2>1, <2>2, <2>4, <3>2, <3>3, <3>4
              DEF EchoInv, PlaceInv, NumberInv, ClientInv, Underway
  <2>. QED  BY <1>2, <2>5, <2>6
<1>. QED  BY <1>1, <1>2 DEF MngTask

LEMMA EchoClient ==
    ASSUME IInv, EchoInv, ClientTask
    PROVE  EchoInv'
<1>. USE DEF ttyVars, lnxVars
<1>0. /\ UNCHANGED <<toMcore, pings, replies, scMsg>>
      /\ pings \in Nat /\ msgCnt \in Nat /\ scSem \in {0, 1} /\ Len(replies) \in Nat
  BY LenProperties DEF ClientTask, ClientStart, ClientCreate, ClientTake, ClientSend,
     IInv, TypeOK, Semaphores
<1>a. /\ Has(toMcore)' = Has(toMcore)
      /\ Only(toMcore, pings)' = Only(toMcore, pings)
  BY <1>0 DEF Has, Only
<1>1. CASE ClientStart \/ ClientCreate \/ ClientTake
  <2>1. UNCHANGED <<toLinux, gaveUp>>
    BY <1>1 DEF ClientStart, ClientCreate, ClientTake
  <2>2. /\ Has(toLinux)' = Has(toLinux)
        /\ Only(toLinux, pings)' = Only(toLinux, pings)
    BY <1>0, <2>1 DEF Has, Only
  <2>3. CASE ClientStart \/ ClientCreate
    <3>1. /\ clientPc \in {"wait", "create"} /\ scSem' = 0 /\ msgCnt' = msgCnt
          /\ clientPc' \in {"create", "take", "ended"}
          /\ "client" \in epts' => clientPc' = "take"
      BY <2>3 DEF ClientStart, ClientCreate, EchoInv, ClientInv
    <3>2. pings = 0 /\ ~Copied /\ ~Copied' /\ ~Taken /\ ~Taken'
      BY <3>1 DEF Copied, Taken, EchoInv, ClientInv
    <3>. QED  BY <1>0, <1>a, <2>1, <2>2, <3>1, <3>2
              DEF EchoInv, PlaceInv, NumberInv, ClientInv, Underway
  <2>4. CASE ClientTake
    <3>1. /\ clientPc = "take" /\ clientPc' = "send" /\ scSem = 1 /\ scSem' = 0
          /\ msgCnt' = msgCnt + 1 /\ epts' = epts
      BY <2>4 DEF ClientTake
    <3>2. Copied /\ ~Copied' /\ ~Taken /\ Taken'
      BY <3>1 DEF Copied, Taken
    <3>3. ~Has(toMcore) /\ ~Has(toLinux) /\ msgCnt' = pings
      BY <1>0, <3>1, <3>2 DEF EchoInv, PlaceInv
    <3>. QED  BY <1>0, <1>a, <2>1, <2>2, <3>1, <3>2, <3>3
              DEF EchoInv, PlaceInv, NumberInv, ClientInv, Underway
  <2>. QED  BY <1>1, <2>3, <2>4
<1>2. CASE ClientSend
  <2>1. /\ clientPc = "send" /\ Send(Message("client", scMsg))
        /\ clientPc' \in {"take", "ended"} /\ UNCHANGED <<scSem, msgCnt>>
        /\ clientPc' = "ended" => msgCnt = COUNT
        /\ "client" \in epts' => clientPc' = "take"
    BY <1>2, CountAssumption DEF ClientSend, MoreToAnswer, IInv, TypeOK
  <2>2. Taken /\ ~Taken' /\ ~Copied /\ ~Copied'
    BY <2>1 DEF Taken, Copied, EchoInv, PlaceInv
  <2>3. /\ ~Has(toMcore) /\ ~Has(toLinux) /\ scMsg = pings /\ msgCnt = pings
        /\ pings = Len(replies) + 1
    BY <2>2 DEF EchoInv, PlaceInv, NumberInv, Underway
  <2>4. /\ Only(toLinux, pings)' /\ (gaveUp => gaveUp')
        /\ Has(toLinux)' \/ gaveUp'
    <3>1. CASE HasRoom
      <4>1. toLinux' = Append(toLinux, Message("client", scMsg)) /\ gaveUp' = gaveUp
        BY <2>1, <3>1 DEF Send
      <4>2. /\ Message("client", pings) \in Messages /\ Message("client", pings).num = pings
            /\ Message("client", pings).ept = "client"
        BY <1>0, <2>3, MessageFact DEF None, Ept
      <4>3. Only(toLinux', pings) /\ Has(toLinux')
        BY <2>3, <4>1, <4>2, OnlyOfNone, AppendPing DEF IInv, TypeOK
      <4>. QED  BY <1>0, <4>1, <4>3
    <3>2. CASE ~HasRoom
      <4>1. toLinux' = toLinux /\ gaveUp'
        BY <2>1, <3>2 DEF Send
      <4>2. Only(toLinux', pings)
        BY <4>1 DEF EchoInv, NumberInv
      <4>. QED  BY <1>0, <4>1, <4>2
    <3>. QED  BY <3>1, <3>2
  <2>. QED  BY <1>0, <1>a, <2>1, <2>2, <2>3, <2>4
            DEF EchoInv, PlaceInv, NumberInv, ClientInv, Underway
<1>. QED  BY <1>1, <1>2 DEF ClientTask

LEMMA EchoTty ==
    ASSUME IInv, EchoInv, TtyTask
    PROVE  EchoInv'
<1>. USE DEF clientVars, lnxVars
<1>1. /\ UNCHANGED <<toMcore, pings, replies, scMsg, scSem, clientPc, msgCnt>>
      /\ "client" \in epts' => "client" \in epts
  BY DEF TtyTask, TtyStart, TtyCreate, TtyTake, TtySend
<1>2. /\ Has(toMcore)' = Has(toMcore)
      /\ Only(toMcore, pings)' = Only(toMcore, pings)
  BY <1>1 DEF Has, Only
<1>3. \/ UNCHANGED toLinux
      \/ toLinux' = Append(toLinux, Message("tty", txBuff)) /\ txBuff \in Nat \ {None}
  BY DEF TtyTask, TtyStart, TtyCreate, TtyTake, TtySend, Send, TooLong, IInv,
         SignalInv, TypeOK
<1>4. gaveUp => gaveUp'
  BY DEF TtyTask, TtyStart, TtyCreate, TtyTake, TtySend, Send, TooLong
<1>5. (Has(toLinux') <=> Has(toLinux)) /\ Only(toLinux', pings)
  <2>1. Only(toLinux, pings) /\ toLinux \in Seq(Messages)
    BY DEF EchoInv, NumberInv, IInv, TypeOK
  <2>2. CASE toLinux' = Append(toLinux, Message("tty", txBuff)) /\ txBuff \in Nat \ {None}
    <3>1. Message("tty", txBuff) \in Messages /\ Message("tty", txBuff).ept # "client"
      BY <2>2, MessageFact DEF Ept
    <3>. QED  BY <2>1, <2>2, <3>1, AppendPing
  <2>. QED  BY <1>3, <2>1, <2>2
<1>6. Only(toLinux, pings)'
  BY <1>1, <1>5
<1>. QED  BY <1>1, <1>2, <1>4, <1>5, <1>6, EchoFrame DEF EchoInv, NumberInv

LEMMA EchoLinux ==
    ASSUME IInv, EchoInv, Linux
    PROVE  EchoInv'
<1>. USE DEF clientVars, ttyVars
<1>0. /\ UNCHANGED <<scMsg, scSem, clientPc, msgCnt, epts, gaveUp>>
      /\ pings \in Nat /\ Len(replies) \in Nat /\ lines \in Nat
      /\ Copied' = Copied /\ Taken' = Taken
  BY LenProperties DEF Linux, LinuxPing, LinuxWriteLine, LinuxPut, LinuxKick, LinuxRecv,
     IInv, TypeOK, Copied, Taken
<1>1. CASE LinuxPing
  <2>1. /\ Len(replies) = pings /\ pings' = pings + 1 /\ "client" \in epts
        /\ toMcore' = Append(toMcore, Message("client", pings + 1))
        /\ UNCHANGED <<toLinux, replies>>
    BY <1>1 DEF LinuxPing, LinuxPut
  <2>2. ~Has(toMcore) /\ ~Copied /\ ~Taken /\ ~Has(toLinux) /\ msgCnt = pings
    BY <1>0, <2>1 DEF EchoInv, NumberInv, PlaceInv, Underway
  <2>3. /\ Message("client", pings + 1) \in Messages
        /\ Message("client", pings + 1).num = pings + 1
        /\ Message("client", pings + 1).ept = "client"
    <3>1. pings + 1 \in Nat \ {None} /\ "client" \in Ept
      BY <1>0 DEF None, Ept
    <3>. QED  BY <3>1, MessageFact
  <2>4. Only(toMcore', pings') /\ Has(toMcore')
    BY <2>1, <2>2, <2>3, OnlyOfNone, AppendPing DEF IInv, TypeOK
  <2>5. ~Has(toLinux') /\ Only(toLinux', pings')
    BY <2>1, <2>2, OnlyOfNone
  <2>6. clientPc \in {"take", "send"}
    BY <2>1 DEF EchoInv, ClientInv
  <2>. QED  BY <1>0, <2>1, <2>2, <2>4, <2>5, <2>6
            DEF EchoInv, PlaceInv, NumberInv, ClientInv, Underway
<1>2. CASE LinuxWriteLine
  <2>1. /\ toMcore' = Append(toMcore, Message("tty", lines + 1))
        /\ UNCHANGED <<toLinux, replies, pings>>
    BY <1>2 DEF LinuxWriteLine, LinuxPut
  <2>2. Message("tty", lines + 1) \in Messages /\ Message("tty", lines + 1).ept # "client"
    <3>1. lines + 1 \in Nat \ {None} /\ "tty" \in Ept
      BY <1>0 DEF None, Ept
    <3>. QED  BY <3>1, MessageFact
  <2>3. Only(toMcore', pings') /\ (Has(toMcore') <=> Has(toMcore))
    BY <2>1, <2>2, AppendPing DEF IInv, TypeOK, EchoInv, NumberInv
  <2>4. Only(toLinux', pings') /\ (Has(toLinux') <=> Has(toLinux))
    BY <2>1 DEF EchoInv, NumberInv
  <2>. QED  BY <1>0, <2>1, <2>3, <2>4, EchoFrame
<1>3. CASE LinuxKick
  <2>1. UNCHANGED <<toMcore, toLinux, replies, pings>>
    BY <1>3 DEF LinuxKick
  <2>2. /\ Only(toMcore', pings') /\ (Has(toMcore') <=> Has(toMcore))
        /\ Only(toLinux', pings') /\ (Has(toLinux') <=> Has(toLinux))
    BY <2>1 DEF EchoInv, NumberInv
  <2>. QED  BY <1>0, <2>1, <2>2, EchoFrame
<1>4. CASE LinuxRecv
  <2>1. /\ toLinux # <<>> /\ toLinux' = Tail(toLinux) /\ toLinux \in Seq(Messages)
        /\ Only(toLinux, pings)
        /\ replies' = IF Head(toLinux).ept = "client"
                      THEN Append(replies, Head(toLinux).num) ELSE replies
        /\ UNCHANGED <<toMcore, pings>>
    BY <1>4 DEF LinuxRecv, IInv, TypeOK, EchoInv, NumberInv
  <2>2. Only(toMcore', pings') /\ (Has(toMcore') <=> Has(toMcore))
    BY <2>1 DEF EchoInv, NumberInv
  <2>3. Only(toLinux', pings')
    BY <2>1, TailPing
  <2>4. CASE Head(toLinux).ept # "client"
    <3>1. Has(toLinux') <=> Has(toLinux)
      BY <2>1, <2>4, TailPing
    <3>. QED  BY <1>0, <2>1, <2>2, <2>3, <2>4, <3>1, EchoFrame
  <2>5. CASE Head(toLinux).ept = "client"
    <3>1. Has(toLinux) /\ ~Has(toLinux') /\ Head(toLinux).num = pings
      BY <2>1, <2>5, TailPing
    <3>2. pings = Len(replies) + 1 /\ ~Has(toMcore) /\ ~Copied /\ ~Taken
      BY <3>1 DEF EchoInv, NumberInv, PlaceInv, Underway
    <3>3. /\ Len(replies') = Len(replies) + 1 /\ replies'[Len(replies) + 1] = pings
          /\ \A n \in 1 .. Len(replies) : replies'[n] = replies[n]
      BY <1>0, <2>1, <2>5, <3>1, AppendProperties DEF IInv, TypeOK
    <3>4. \A n \in 1 .. Len(replies') : replies'[n] = n
      <4>1. \A n \in 1 .. Len(replies) : replies[n] = n
        BY DEF EchoInv, NumberInv
      <4>. QED  BY <1>0, <3>2, <3>3, <4>1
    <3>. QED  BY <1>0, <2>1, <2>2, <2>3, <3>1, <3>2, <3>3, <3>4
              DEF EchoInv, PlaceInv, NumberInv, ClientInv, Underway
  <2>. QED  BY <2>4, <2>5
<1>. QED  BY <1>1, <1>2, <1>3, <1>4 DEF Linux

LEMMA EchoStep == IInv /\ EchoInv /\ [Next]_vars => EchoInv'
<1>. SUFFICES ASSUME IInv, EchoInv, [Next]_vars PROVE EchoInv'
  OBVIOUS
<1>1. CASE UNCHANGED vars
  <2>1. UNCHANGED <<replies, pings, clientPc, scMsg, scSem, msgCnt, toMcore, toLinux,
                    gaveUp, epts>>
    BY <1>1 DEF vars, clientVars, ttyVars, lnxVars
  <2>2. /\ Only(toMcore', pings') /\ (Has(toMcore') <=> Has(toMcore))
        /\ Only(toLinux', pings') /\ (Has(toLinux') <=> Has(toLinux))
    BY <2>1 DEF EchoInv, NumberInv
  <2>. QED  BY <2>1, <2>2, EchoFrame
<1>. QED  BY <1>1, EchoMng, EchoClient, EchoTty, EchoLinux DEF Next

\* sc_msg is one record for all messages and data_sc_sem counts to one, yet
\* no message of Linux's client comes back twice, changed or out of turn
\* (lines 90, 103 and 289), whatever the tty does.
THEOREM EchoOrder == Spec => []EchoedInOrder
<1>1. IInv /\ EchoInv => EchoedInOrder
  BY LenProperties DEF EchoInv, NumberInv, EchoedInOrder, IInv, TypeOK
<1>. QED  BY <1>1, Invariance, EchoInit, EchoStep, PTL DEF Spec

\* No message of Linux's client is lost before its answer is: neither by the
\* semaphore, which also says that the platform is up, nor by the client
\* ending too early.
THEOREM EchoKept == Spec => []NoneLost
<1>1. IInv /\ EchoInv => NoneLost
  <2>. SUFFICES ASSUME IInv, EchoInv, pings > Len(replies), ~gaveUp
                PROVE  Has(toMcore) \/ (Copied /\ clientPc # "ended") \/ Taken \/ Has(toLinux)
    BY DEF NoneLost
  <2>1. pings \in 1 .. COUNT /\ Len(replies) \in Nat /\ Underway
    BY LenProperties, CountAssumption DEF IInv, TypeOK, EchoInv, NumberInv
  <2>2. Copied => clientPc # "ended"
    BY <2>1, CountAssumption DEF EchoInv, PlaceInv, ClientInv
  <2>. QED  BY <2>1, <2>2 DEF Underway
<1>. QED  BY <1>1, Invariance, EchoInit, EchoStep, PTL DEF Spec
=============================================================================
