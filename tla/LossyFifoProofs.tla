--------------------------- MODULE LossyFifoProofs ---------------------------
(***************************************************************************)
(* Proof that the abstract channel delivers in order.                      *)
(***************************************************************************)
EXTENDS LossyFifo, SequenceTheorems, TLAPS

\* Inductive: every frame on its way is younger than every one delivered.
FifoInv ==
    /\ last \in Nat
    /\ pipe \subseteq 1 .. last
    /\ out \in Seq(1 .. last)
    /\ \A i, j \in 1 .. Len(out) : i < j => out[i] < out[j]
    /\ \A i \in 1 .. Len(out) : \A n \in pipe : out[i] < n

LEMMA FifoStep == FifoInv /\ [Next]_vars => FifoInv'
<1>. SUFFICES ASSUME FifoInv, [Next]_vars PROVE FifoInv'
  OBVIOUS
<1>. USE DEF FifoInv
<1>0. /\ Len(out) \in Nat
      /\ \A i \in 1 .. Len(out) : out[i] \in 1 .. last
  BY LenProperties, ElementOfSeq
<1>1. CASE Offer
  <2>1. last' \in Nat /\ 1 .. last \subseteq 1 .. last' /\ last + 1 \in 1 .. last'
    BY <1>1 DEF Offer
  <2>2. out' \in Seq(1 .. last')
    <3>1. out \in [1 .. Len(out) -> 1 .. last]
      BY LenProperties
    <3>. QED  BY <1>1, <2>1, <3>1 DEF Offer
  <2>3. pipe' \subseteq 1 .. last'
    BY <1>1, <2>1 DEF Offer
  <2>4. \A i \in 1 .. Len(out') : \A n \in pipe' : out'[i] < n
    BY <1>0, <1>1 DEF Offer
  <2>. QED  BY <1>1, <2>1, <2>2, <2>3, <2>4 DEF Offer
<1>2. CASE Lose
  BY <1>2 DEF Lose
<1>3. CASE Deliver
  <2>1. PICK n \in pipe : /\ \A m \in pipe : n <= m
                          /\ out' = Append(out, n)
                          /\ pipe' = pipe \ {n}
    BY <1>3 DEF Deliver
  <2>2. /\ out' \in Seq(1 .. last)
        /\ Len(out') = Len(out) + 1
        /\ \A i \in 1 .. Len(out) : out'[i] = out[i]
        /\ out'[Len(out) + 1] = n
    BY <2>1, AppendProperties
  <2>3. \A i, j \in 1 .. Len(out') : i < j => out'[i] < out'[j]
    <3>. SUFFICES ASSUME NEW i \in 1 .. Len(out'), NEW j \in 1 .. Len(out'), i < j
                  PROVE  out'[i] < out'[j]
      OBVIOUS
    <3>1. i \in 1 .. Len(out) /\ out'[i] = out[i]
      BY <1>0, <2>2
    <3>2. CASE j \in 1 .. Len(out)
      BY <1>0, <2>2, <3>1, <3>2
    <3>3. CASE j = Len(out) + 1
      BY <1>0, <2>1, <2>2, <3>1, <3>3
    <3>4. Len(out) \in Nat /\ j \in 1 .. Len(out) + 1
      BY <1>0, <2>2
    <3>5. j \in 1 .. Len(out) \/ j = Len(out) + 1
      BY ONLY <3>4
    <3>. QED  BY <3>2, <3>3, <3>5
  <2>4. \A i \in 1 .. Len(out') : \A m \in pipe' : out'[i] < m
    BY <1>0, <2>1, <2>2
  <2>. QED  BY <1>3, <2>1, <2>2, <2>3, <2>4 DEF Deliver
<1>4. CASE UNCHANGED vars
  BY <1>4 DEF vars
<1>. QED  BY <1>1, <1>2, <1>3, <1>4 DEF Next

\* The channel never invents, repeats or reorders a frame (InOrder).
THEOREM ChannelInOrder == Spec => []InOrder
<1>1. Init => FifoInv
  BY EmptySeq DEF Init, FifoInv
<1>2. FifoInv => InOrder
  BY ElementOfSeq DEF FifoInv, InOrder
<1>. QED  BY <1>1, <1>2, FifoStep, PTL DEF Spec
=============================================================================
