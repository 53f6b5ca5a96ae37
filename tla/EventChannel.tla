---------------------------- MODULE EventChannel ----------------------------
(***************************************************************************)
(* What the syscall pipeline promises, with no ring buffer, no busy bits   *)
(* and no threads: a queue of tickets, numbered in the order in which they *)
(* were accepted.  A ticket may be withdrawn while it waits; the reader is *)
(* handed the oldest ticket that waits, so tickets are delivered in order  *)
(* and at most once.  The reader may close the channel for good.           *)
(***************************************************************************)
EXTENDS Integers, Sequences

VARIABLES
  accepted,   \* number of tickets accepted so far
  waiting,    \* those neither delivered nor withdrawn
  delivered,  \* those delivered, in order of delivery
  open        \* FALSE once the reader is gone

vars == <<accepted, waiting, delivered, open>>

Init ==
  /\ accepted = 0
  /\ waiting = {}
  /\ delivered = << >>
  /\ open = TRUE

Accept ==
  /\ accepted' = accepted + 1
  /\ waiting' = waiting \cup {accepted + 1}
  /\ UNCHANGED <<delivered, open>>

Withdraw(k) ==
  /\ k \in waiting
  /\ waiting' = waiting \ {k}
  /\ UNCHANGED <<accepted, delivered, open>>

Deliver(k) ==
  /\ open
  /\ k \in waiting
  /\ \A j \in waiting : k <= j
  /\ waiting' = waiting \ {k}
  /\ delivered' = Append(delivered, k)
  /\ UNCHANGED <<accepted, open>>

Close ==
  /\ open
  /\ open' = FALSE
  /\ UNCHANGED <<accepted, waiting, delivered>>

Next ==
  \/ Accept
  \/ \E k \in waiting : Withdraw(k) \/ Deliver(k)
  \/ Close

Spec == Init /\ [][Next]_vars

-----------------------------------------------------------------------------
\* What an implementation inherits: tickets are delivered in the order of their
\* acceptance, none twice, and none is passed over while it waits.
InOrder ==
  /\ \A i, j \in 1..Len(delivered) : i < j => delivered[i] < delivered[j]
  /\ \A i \in 1..Len(delivered), k \in waiting : delivered[i] < k

\* What it is proved with.
TypeOK ==
  /\ accepted \in Nat
  /\ waiting \subseteq 1..accepted
  /\ delivered \in Seq(1..accepted)
  /\ open \in BOOLEAN

IInv == TypeOK /\ InOrder
=============================================================================
