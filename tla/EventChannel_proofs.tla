------------------------- MODULE EventChannel_proofs -------------------------
(***************************************************************************)
(* What EventChannel promises, proved once: each pipeline that implements  *)
(* it inherits the theorem through its refinement.                         *)
(***************************************************************************)
EXTENDS EventChannel, TLAPS

\* What was delivered stays in order, since what waits comes after it.
LEMMA IInvNext == IInv /\ [Next]_vars => IInv'
<1> SUFFICES ASSUME IInv, [Next]_vars PROVE IInv'
  OBVIOUS
<1> USE DEF IInv, TypeOK, InOrder
<1>1. CASE Accept
  BY <1>1 DEF Accept
<1>2. ASSUME NEW k \in waiting, Withdraw(k)
      PROVE  IInv'
  BY <1>2 DEF Withdraw
<1>3. ASSUME NEW k \in waiting, Deliver(k)
      PROVE  IInv'
  <2>1. /\ Len(delivered') = Len(delivered) + 1
        /\ \A i \in 1..Len(delivered) : delivered'[i] = delivered[i]
        /\ delivered'[Len(delivered) + 1] = k
        /\ delivered' \in Seq(1..accepted)
    BY <1>3 DEF Deliver
  <2>2. \A j \in waiting' : k < j
    BY <1>3 DEF Deliver
  <2> QED BY <1>3, <2>1, <2>2 DEF Deliver
<1>4. CASE Close
  BY <1>4 DEF Close
<1>5. CASE UNCHANGED vars
  BY <1>5 DEF vars
<1> QED BY <1>1, <1>2, <1>3, <1>4, <1>5 DEF Next

\* The tickets are delivered in the order of their acceptance, each at most once, and
\* never one while an earlier one waits.
THEOREM ChannelInOrder == Spec => []InOrder
<1>1. Init => IInv
  BY DEF Init, IInv, TypeOK, InOrder
<1>2. IInv => InOrder
  BY DEF IInv
<1> QED BY <1>1, <1>2, IInvNext, PTL DEF Spec
=============================================================================
