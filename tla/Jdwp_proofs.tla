---------------------------- MODULE Jdwp_proofs ----------------------------
(***************************************************************************)
(* Proofs about Jdwp, for every set of CPUs and packets, every size of     *)
(* header, data and buffer.                                                *)
(***************************************************************************)
EXTENDS Jdwp, FiniteSetTheorems, TLAPS

\* A report that tells nothing yet is well formed.
LEMMA BlankType ==
  /\ Blank \in Report
  /\ \A p \in Packets : BlankRecord(p) \in Record /\ ~BlankRecord(p).ready
<1>1. 0 \in Ports /\ 0 \in 0..(MaxTcpData - 1)
  BY JdwpAssumption DEF Ports, MaxPort
<1>2. (CHOOSE p \in Packets : TRUE) \in Packets
  BY JdwpAssumption
<1>3. \A p \in Packets : [from |-> p, port |-> 0, shown |-> 0] \in Report
  BY <1>1 DEF Report
<1> QED BY <1>2, <1>3 DEF Blank, BlankRecord, Record

\* A port of two bytes is a port, and within a byte of one with the same first.
LEMMA PortOfBytes ==
  ASSUME NEW h \in Bytes, NEW j \in Bytes
  PROVE  256 * h + j \in Ports /\ (256 * h + j) - 256 * h \in Bytes
<1>1. h \in Int /\ 0 <= h /\ h <= 255 /\ j \in Int /\ 0 <= j /\ j <= 255
  BY DEF Bytes
<1>2. (256 * h + j) - 256 * h = j
  BY <1>1
<1>3. 0 <= 256 * h + j /\ 256 * h + j <= MaxPort
  BY <1>1 DEF MaxPort
<1>4. 256 * h + j \in Int /\ MaxPort \in Int
  BY <1>1 DEF MaxPort
<1> QED BY <1>2, <1>3, <1>4 DEF Ports

\* What the program makes of a packet that passes its checks is a well-formed
\* report of bytes inside the packet.
LEMMA ReportedFits ==
  ASSUME NEW p \in Packets, NEW junk \in Junk, IsReported(p),
         NEW r, r = [from |-> p, port |-> ShownPort(p, junk), shown |-> ShownLength(p)]
  PROVE  r \in Report /\ Fits(r)
<1>1. /\ p.len \in Nat /\ p.ihl \in 0..15 /\ p.high \in 0..255 /\ p.nul \in Nat
      /\ junk \in 0..255 /\ MaxTcpData \in Nat \ {0}
      /\ EthLen \in Nat /\ TcpLen \in Nat
  BY JdwpAssumption DEF Bytes, Nibbles
<1>2. ShownPort(p, junk) \in Ports /\ ShownPort(p, junk) - 256 * p.high \in Bytes
  <2> DEFINE j == IF p.high = 0 THEN junk ELSE 0
  <2>1. j \in Bytes /\ p.high \in Bytes
    BY <1>1 DEF Bytes
  <2>2. ShownPort(p, junk) = 256 * p.high + j
    BY DEF ShownPort
  <2> HIDE DEF j
  <2> QED BY <2>1, <2>2, PortOfBytes
<1>3. ShownLength(p) \in 0..(MaxTcpData - 1)
  BY <1>1 DEF ShownLength
<1>4. DataStart(p) + ShownLength(p) + 1 <= p.len
  BY <1>1, <1>3 DEF IsReported, DataStart, TcpStart
<1>5. r \in Report
  BY <1>2, <1>3 DEF Report
<1>6. r.from = p /\ r.port = ShownPort(p, junk) /\ r.shown = ShownLength(p)
  OBVIOUS
<1> QED BY <1>2, <1>4, <1>5, <1>6 DEF Fits

-----------------------------------------------------------------------------
(***************************************************************************)
(* The inductive invariant.                                                *)
(***************************************************************************)

\* Nothing has happened yet.
LEMMA IInvInit == Init => IInv
<1> SUFFICES ASSUME Init PROVE IInv
  OBVIOUS
<1>1. TypeOK
  <2>1. report \in [Cpus -> Report]
    BY BlankType DEF Init
  <2>2. log \in Seq(Record) /\ Len(log) = 0 /\ printed \in Seq(1..Len(log))
    BY DEF Init
  <2>3. /\ cons \in 0..Len(log) /\ packets \in 0..MaxPackets
        /\ slot \in [Cpus -> 0..Len(log)]
    BY <2>2, JdwpAssumption DEF Init
  <2> QED BY <2>1, <2>2, <2>3 DEF Init, TypeOK
<1>2. ReportsFit /\ CopiesIntoOwn /\ PrintedAreReady
  BY DEF Init, ReportsFit, CopiesIntoOwn, PrintedAreReady
<1>3. ErrTellsFailure /\ StatusTellsFailure
  BY DEF Init, ErrTellsFailure, StatusTellsFailure
<1> QED BY <1>1, <1>2, <1>3 DEF IInv

\* A packet is looked at, and reported or not.
LEMMA IInvReceive ==
  ASSUME IInv, NEW c \in Cpus, Receive(c)
  PROVE  IInv'
<1> USE DEF IInv, mainVars, readVars
<1>1. /\ UNCHANGED <<main, exiting, err, status, failed, log, cons, printed, slot>>
      /\ packets' \in 0..MaxPackets
  BY JdwpAssumption DEF Receive, TypeOK
<1>2. \/ UNCHANGED <<report, prog>>
      \/ \E r \in Report : /\ Fits(r)
                           /\ report' = [report EXCEPT ![c] = r]
                           /\ prog' = [prog EXCEPT ![c] = "output"]
  BY ReportedFits DEF Receive
<1>3. TypeOK'
  BY <1>1, <1>2 DEF TypeOK
<1>4. ReportsFit'
  <2>1. \A d \in Cpus : prog'[d] # "idle" => Fits(report'[d])
    BY <1>2 DEF ReportsFit, TypeOK
  <2> QED BY <1>1, <2>1 DEF ReportsFit, Fits
<1>5. CopiesIntoOwn'
  BY <1>1, <1>2 DEF CopiesIntoOwn, TypeOK
<1>6. PrintedAreReady' /\ ErrTellsFailure' /\ StatusTellsFailure'
  BY <1>1 DEF PrintedAreReady, ErrTellsFailure, StatusTellsFailure
<1> QED BY <1>3, <1>4, <1>5, <1>6

\* A record is appended, busy, or the report is dropped.
LEMMA IInvReserve ==
  ASSUME IInv, NEW c \in Cpus, Reserve(c)
  PROVE  IInv'
<1> USE DEF IInv, mainVars, readVars
<1>1. UNCHANGED <<main, exiting, err, status, failed, cons, printed, packets>>
  BY DEF Reserve
<1>2. CASE ~(Len(log) - cons < Capacity)
  <2>1. /\ prog' = [prog EXCEPT ![c] = "idle"]
        /\ report' = [report EXCEPT ![c] = Blank]
        /\ UNCHANGED <<log, slot>>
    BY <1>2 DEF Reserve
  <2>2. TypeOK'
    BY <1>1, <2>1, BlankType DEF TypeOK
  <2>3. ReportsFit' /\ CopiesIntoOwn'
    BY <1>1, <2>1 DEF ReportsFit, CopiesIntoOwn, TypeOK, Fits
  <2>4. PrintedAreReady' /\ ErrTellsFailure' /\ StatusTellsFailure'
    BY <1>1, <2>1 DEF PrintedAreReady, ErrTellsFailure, StatusTellsFailure
  <2> QED BY <2>2, <2>3, <2>4
<1>3. CASE Len(log) - cons < Capacity
  <2> DEFINE r == BlankRecord(report[c].from)
  <2>1. /\ log' = Append(log, r)
        /\ slot' = [slot EXCEPT ![c] = Len(log) + 1]
        /\ prog' = [prog EXCEPT ![c] = "copy"]
        /\ UNCHANGED report
        /\ prog[c] = "output"
    BY <1>3 DEF Reserve
  <2>2. r \in Record /\ ~r.ready
    <3>1. report[c] \in Report
      BY DEF TypeOK
    <3>2. report[c].from \in Packets
      BY <3>1 DEF Report
    <3> QED BY <3>2, BlankType
  <2> HIDE DEF r
  <2>3. /\ log' \in Seq(Record) /\ Len(log) \in Nat /\ Len(log') = Len(log) + 1
        /\ log'[Len(log) + 1] = r
        /\ \A k \in 1..Len(log) : log'[k] = log[k]
    BY <2>1, <2>2 DEF TypeOK
  <2>4. TypeOK'
    <3>1. printed' \in Seq(1..Len(log'))
      <4>1. \A i \in 1..Len(printed) : printed[i] \in 1..Len(log')
        BY <2>3 DEF TypeOK
      <4> QED BY <1>1, <4>1 DEF TypeOK
    <3>2. slot' \in [Cpus -> 0..Len(log')]
      BY <2>1, <2>3 DEF TypeOK
    <3> QED BY <1>1, <2>1, <2>3, <3>1, <3>2 DEF TypeOK
  <2>5. ReportsFit'
    <3>1. \A d \in Cpus : prog'[d] # "idle" => Fits(report'[d])
      BY <2>1 DEF ReportsFit, TypeOK
    <3>2. \A k \in 1..Len(log') : log'[k].ready => Fits(log'[k].report)
      BY <2>2, <2>3 DEF ReportsFit
    <3> QED BY <3>1, <3>2 DEF ReportsFit, Fits
  <2>6. CopiesIntoOwn'
    BY <2>1, <2>2, <2>3 DEF CopiesIntoOwn, TypeOK
  <2>7. PrintedAreReady'
    <3>1. \A i \in 1..Len(printed) : printed[i] \in 1..Len(log) /\ log[printed[i]].ready
      BY DEF TypeOK, PrintedAreReady
    <3>2. \A i \in 1..Len(printed) : log'[printed[i]].ready
      BY <2>3, <3>1
    <3>3. cons \in 0..Len(log)
      BY DEF TypeOK
    <3>4. /\ \A j \in 1..cons : log'[j].ready
          /\ main = "handled" => cons < Len(log') /\ log'[cons + 1].ready
      BY <2>3, <3>3 DEF PrintedAreReady
    <3> QED BY <1>1, <3>2, <3>4 DEF PrintedAreReady
  <2>8. ErrTellsFailure' /\ StatusTellsFailure'
    BY <1>1 DEF ErrTellsFailure, StatusTellsFailure
  <2> QED BY <2>4, <2>5, <2>6, <2>7, <2>8
<1> QED BY <1>2, <1>3

\* Only the record that the CPU has reserved changes; it becomes ready.
LEMMA IInvCommit ==
  ASSUME IInv, NEW c \in Cpus, Commit(c)
  PROVE  IInv'
<1> USE DEF IInv, mainVars, readVars
<1> DEFINE k == slot[c]
           r == [ready |-> TRUE, report |-> report[c]]
<1>1. /\ UNCHANGED <<main, exiting, err, status, failed, cons, printed, slot, packets>>
      /\ prog' = [prog EXCEPT ![c] = "idle"]
      /\ report' = [report EXCEPT ![c] = Blank]
      /\ log' = [log EXCEPT ![k] = r]
      /\ prog[c] = "copy"
  BY DEF Commit
<1>2. k \in 1..Len(log) /\ ~log[k].ready
  BY <1>1 DEF CopiesIntoOwn
<1>3. r \in Record /\ r.ready /\ Fits(r.report)
  BY <1>1 DEF Record, TypeOK, ReportsFit
<1> HIDE DEF r
<1>4. /\ log' \in Seq(Record) /\ Len(log') = Len(log) /\ log'[k] = r
      /\ \A j \in 1..Len(log) : j # k => log'[j] = log[j]
  BY <1>1, <1>2, <1>3 DEF TypeOK
<1>5. TypeOK'
  BY <1>1, <1>4, BlankType DEF TypeOK
<1>6. ReportsFit'
  <2>1. \A d \in Cpus : prog'[d] # "idle" => Fits(report'[d])
    BY <1>1 DEF ReportsFit, TypeOK
  <2>2. \A j \in 1..Len(log') : log'[j].ready => Fits(log'[j].report)
    BY <1>3, <1>4 DEF ReportsFit
  <2> QED BY <2>1, <2>2 DEF ReportsFit, Fits
<1>7. CopiesIntoOwn'
  <2> SUFFICES ASSUME NEW d \in Cpus, prog'[d] = "copy"
               PROVE  /\ slot'[d] \in 1..Len(log')
                      /\ ~log'[slot'[d]].ready
                      /\ \A e \in Cpus \ {d} : prog'[e] = "copy" => slot'[e] # slot'[d]
    BY DEF CopiesIntoOwn
  <2>1. d # c /\ prog[d] = "copy"
    BY <1>1 DEF TypeOK
  <2>2. slot[d] \in 1..Len(log) /\ ~log[slot[d]].ready /\ slot[d] # k
    BY <1>1, <2>1 DEF CopiesIntoOwn
  <2>3. \A e \in Cpus \ {d} : prog'[e] = "copy" => slot[e] # slot[d]
    BY <1>1, <2>1 DEF CopiesIntoOwn, TypeOK
  <2> QED BY <1>1, <1>4, <2>2, <2>3
<1>8. PrintedAreReady'
  <2>1. \A i \in 1..Len(printed) : printed[i] \in 1..Len(log)
    BY DEF TypeOK
  <2> QED BY <1>1, <1>2, <1>3, <1>4, <2>1 DEF PrintedAreReady, TypeOK
<1>9. ErrTellsFailure' /\ StatusTellsFailure'
  BY <1>1 DEF ErrTellsFailure, StatusTellsFailure
<1> QED BY <1>5, <1>6, <1>7, <1>8, <1>9

\* main takes a step that touches no record.
LEMMA IInvMain ==
  ASSUME IInv,
         \/ SetUp \/ SetUpFails \/ Check \/ Call \/ Timeout \/ WakeUp \/ Drained
         \/ PollFails \/ Signal \/ Continued \/ Cleanup
  PROVE  IInv'
<1> USE DEF IInv, bufferVars, readVars, xdpVars, Interrupted
<1>1. /\ UNCHANGED <<log, cons, printed, prog, report, slot, packets>>
      /\ main' = "handled" => main = "handled"
  BY DEF SetUp, SetUpFails, Check, Call, Timeout, WakeUp, Drained, PollFails,
         Signal, Continued, Cleanup
<1>2. TypeOK' /\ ErrTellsFailure' /\ StatusTellsFailure'
  <2>1. CASE SetUp \/ Check \/ Call \/ WakeUp
    BY <1>1, <2>1 DEF SetUp, Check, Call, WakeUp, TypeOK, ErrTellsFailure,
                      StatusTellsFailure
  <2>2. CASE SetUpFails \/ PollFails
    BY <1>1, <2>2 DEF SetUpFails, PollFails, TypeOK, ErrTellsFailure,
                      StatusTellsFailure
  <2>3. CASE Timeout \/ Drained \/ Continued
    BY <1>1, <2>3 DEF Timeout, Drained, Continued, TypeOK, ErrTellsFailure,
                      StatusTellsFailure
  <2>4. CASE Signal
    BY <1>1, <2>4 DEF Signal, TypeOK, ErrTellsFailure, StatusTellsFailure
  <2>5. CASE Cleanup
    <3>1. /\ err \in {"unset", "negative", "other"}
          /\ status' \in {"zero", "error"}
          /\ err = "negative" => status' = "error"
          /\ err = "other" => status' = "zero"
      BY <2>5 DEF Cleanup, TypeOK
    <3> QED BY <1>1, <2>5, <3>1 DEF Cleanup, TypeOK, ErrTellsFailure,
                                    StatusTellsFailure
  <2> QED BY <2>1, <2>2, <2>3, <2>4, <2>5
<1>3. ReportsFit' /\ CopiesIntoOwn' /\ PrintedAreReady'
  BY <1>1 DEF ReportsFit, CopiesIntoOwn, PrintedAreReady, Fits
<1> QED BY <1>2, <1>3

\* The handler prints the oldest record, which is ready, and gives it back.
LEMMA IInvRead ==
  ASSUME IInv, HandleEvent \/ Release
  PROVE  IInv'
<1> USE DEF IInv, xdpVars
<1>1. /\ UNCHANGED <<exiting, err, status, failed, log, prog, report, slot, packets>>
      /\ main # "ended" /\ main # "cleanup" /\ main' \in {"read", "handled"}
  BY DEF HandleEvent, Release
<1>2. ReportsFit' /\ CopiesIntoOwn' /\ ErrTellsFailure' /\ StatusTellsFailure'
  BY <1>1 DEF ReportsFit, CopiesIntoOwn, ErrTellsFailure, StatusTellsFailure, Fits
<1>3. CASE HandleEvent
  <2>1. /\ cons \in Nat /\ cons < Len(log) /\ log[cons + 1].ready
        /\ printed' = Append(printed, cons + 1) /\ cons' = cons
        /\ Len(log) \in Nat
    BY <1>3 DEF HandleEvent, TypeOK
  <2>2. printed' \in Seq(1..Len(log))
    BY <2>1 DEF TypeOK
  <2>3. TypeOK'
    BY <1>1, <2>1, <2>2 DEF TypeOK
  <2>4. \A i \in 1..Len(printed') : log[printed'[i]].ready
    BY <2>1 DEF TypeOK, PrintedAreReady
  <2> QED BY <1>1, <1>2, <2>1, <2>3, <2>4 DEF PrintedAreReady
<1>4. CASE Release
  <2>1. /\ cons' = cons + 1 /\ printed' = printed /\ main' = "read"
        /\ cons \in Nat /\ cons < Len(log) /\ log[cons + 1].ready
    BY <1>4 DEF Release, TypeOK, PrintedAreReady
  <2>2. TypeOK'
    BY <1>1, <2>1 DEF TypeOK
  <2> QED BY <1>1, <1>2, <2>1, <2>2 DEF PrintedAreReady
<1> QED BY <1>3, <1>4

\* The inductive invariant holds in every reachable state.
THEOREM JdwpInvariance == Spec => []IInv
<1>1. Init => IInv
  BY IInvInit
<1>2. IInv /\ [Next]_vars => IInv'
  <2> SUFFICES ASSUME IInv, [Next]_vars PROVE IInv'
    OBVIOUS
  <2>1. ASSUME NEW c \in Cpus, Receive(c) \/ Reserve(c) \/ Commit(c) PROVE IInv'
    BY <2>1, IInvReceive, IInvReserve, IInvCommit
  <2>2. ASSUME Monitor \/ PollFails \/ Signal \/ Continued PROVE IInv'
    BY <2>2, IInvMain, IInvRead DEF Monitor
  <2>3. CASE UNCHANGED vars
    BY <2>3 DEF vars, IInv, TypeOK, ReportsFit, CopiesIntoOwn, PrintedAreReady,
                ErrTellsFailure, StatusTellsFailure, Fits
  <2> QED BY <2>1, <2>2, <2>3 DEF Next
<1> QED BY <1>1, <1>2, PTL DEF Spec

-----------------------------------------------------------------------------
(***************************************************************************)
(* The theorems.                                                           *)
(***************************************************************************)

\* Every variable keeps its type; in particular no string fills the whole array.
THEOREM JdwpTypeCorrect == Spec => []TypeOK
<1>1. IInv => TypeOK
  BY DEF IInv
<1> QED BY <1>1, JdwpInvariance, PTL

\* For headers of any length, what is printed lies inside its packet.
THEOREM PrintsPacket == Spec => []PrintedFromPacket
<1>1. IInv => PrintedFromPacket
  <2> SUFFICES ASSUME IInv, NEW i \in 1..Len(printed)
               PROVE  Fits(log[printed[i]].report)
    BY DEF PrintedFromPacket, Fits
  <2>1. printed[i] \in 1..Len(log) /\ log[printed[i]].ready
    BY DEF IInv, TypeOK, PrintedAreReady
  <2> QED BY <2>1 DEF IInv, ReportsFit
<1> QED BY <1>1, JdwpInvariance, PTL

\* The status of the process is 0 unless something failed, or no poll returned.
THEOREM StatusIsTrue == Spec => []StatusTellsFailure
<1>1. IInv => StatusTellsFailure
  BY DEF IInv
<1> QED BY <1>1, JdwpInvariance, PTL

-----------------------------------------------------------------------------
(***************************************************************************)
(* The monitor implements the channel.                                     *)
(***************************************************************************)

\* A step of a CPU accepts a ticket or is invisible.
LEMMA CpuStep ==
  ASSUME IInv, NEW c \in Cpus, Receive(c) \/ Reserve(c) \/ Commit(c)
  PROVE  [Channel!Next]_(Channel!vars)
<1>1. /\ log \in Seq(Record) /\ Len(log) \in Nat /\ cons \in 0..Len(log)
      /\ UNCHANGED <<main, cons, printed>>
  BY DEF IInv, TypeOK, Receive, Reserve, Commit, mainVars, readVars
<1>2. Released' = Released /\ Released \in 0..Len(log)
  BY <1>1 DEF Released, IInv, PrintedAreReady
<1>3. CASE Len(log') = Len(log)
  BY <1>1, <1>2, <1>3 DEF Channel!vars
<1>4. CASE Len(log') = Len(log) + 1
  <2>1. (Released' + 1)..Len(log') = ((Released + 1)..Len(log)) \cup {Len(log) + 1}
    BY <1>1, <1>2, <1>4
  <2>2. Channel!Accept
    BY <1>1, <1>4, <2>1 DEF Channel!Accept
  <2> QED BY <2>2 DEF Channel!Next
<1>5. Len(log') = Len(log) \/ Len(log') = Len(log) + 1
  <2>1. CASE Receive(c)
    BY <2>1 DEF Receive
  <2>2. CASE Reserve(c)
    BY <1>1, <2>2 DEF Reserve
  <2>3. CASE Commit(c)
    BY <1>1, <2>3 DEF Commit, IInv, CopiesIntoOwn
  <2> QED BY <2>1, <2>2, <2>3
<1> QED BY <1>3, <1>4, <1>5

\* A step of main delivers the oldest ticket, closes the channel or is
\* invisible.
LEMMA MainStep ==
  ASSUME IInv, Monitor \/ PollFails \/ Signal \/ Continued
  PROVE  [Channel!Next]_(Channel!vars)
<1> DEFINE open == main \notin {"cleanup", "ended"}
<1>1. /\ UNCHANGED log
      /\ Len(log) \in Nat /\ cons \in 0..Len(log)
  BY DEF IInv, TypeOK, Monitor, SetUp, SetUpFails, Check, Call, Timeout, WakeUp,
         HandleEvent, Release, Drained, PollFails, Signal, Continued, Cleanup,
         bufferVars
<1>2. CASE HandleEvent
  <2> DEFINE k == cons + 1
  <2>1. /\ Released = cons /\ Released' = k /\ k \in (Released + 1)..Len(log)
        /\ (Released' + 1)..Len(log') = ((Released + 1)..Len(log)) \ {k}
        /\ \A j \in (Released + 1)..Len(log) : k <= j
    BY <1>1, <1>2 DEF HandleEvent, Released
  <2>2. Channel!Deliver(k)
    BY <1>1, <1>2, <2>1 DEF HandleEvent, Channel!Deliver
  <2> QED BY <2>1, <2>2 DEF Channel!Next
<1>3. CASE Release
  BY <1>1, <1>3 DEF Release, Released, Channel!vars
<1>4. ASSUME \/ SetUp \/ SetUpFails \/ Check \/ Call \/ Timeout \/ WakeUp
             \/ Drained \/ PollFails \/ Signal \/ Continued \/ Cleanup
      PROVE  [Channel!Next]_(Channel!vars)
  <2>1. /\ UNCHANGED <<cons, printed>>
        /\ main' = "handled" <=> main = "handled"
        /\ ~open => ~open'
    BY <1>4 DEF SetUp, SetUpFails, Check, Call, Timeout, WakeUp, Drained, PollFails,
                Signal, Continued, Cleanup, Interrupted, bufferVars, readVars
  <2>2. Released' = Released
    BY <2>1 DEF Released
  <2>3. CASE open' = open
    BY <1>1, <2>1, <2>2, <2>3 DEF Channel!vars
  <2>4. CASE open /\ ~open'
    BY <1>1, <2>1, <2>2, <2>4 DEF Channel!Close, Channel!Next
  <2> QED BY <2>1, <2>3, <2>4
<1> QED BY <1>2, <1>3, <1>4 DEF Monitor

\* Reports are delivered in order and at most once, whatever the CPUs do.
THEOREM JdwpRefinement == Spec => ReportChannel
<1>1. Init => Channel!Init
  BY DEF Init, Channel!Init, Released
<1>2. IInv /\ [Next]_vars => [Channel!Next]_(Channel!vars)
  <2> SUFFICES ASSUME IInv, [Next]_vars PROVE [Channel!Next]_(Channel!vars)
    OBVIOUS
  <2>1. CASE UNCHANGED vars
    BY <2>1 DEF vars, Channel!vars, Released
  <2>2. CASE Next
    BY <2>2, CpuStep, MainStep DEF Next
  <2> QED BY <2>1, <2>2
<1> QED BY <1>1, <1>2, JdwpInvariance, PTL DEF Spec, ReportChannel, Channel!Spec

\* The theorem about EventChannel, of this instance of it.
Proved == INSTANCE EventChannel_proofs WITH
  accepted  <- Len(log),
  waiting   <- (Released + 1)..Len(log),
  delivered <- printed,
  open      <- main \notin {"cleanup", "ended"}

\* Reports are printed in the order in which the CPUs reserved them, none twice and
\* none while an earlier one waits.
ReservedOrder ==
  /\ \A i, j \in 1..Len(printed) : i < j => printed[i] < printed[j]
  /\ \A i \in 1..Len(printed), k \in (Released + 1)..Len(log) : printed[i] < k

THEOREM ReportsInOrder == Spec => []ReservedOrder
<1>1. Channel!Spec => Proved!Spec
  BY PTL DEF Channel!Spec, Proved!Spec, Channel!Init, Proved!Init, Channel!Next, Proved!Next,
      Channel!Accept, Proved!Accept, Channel!Withdraw, Proved!Withdraw, Channel!Deliver,
      Proved!Deliver, Channel!Close, Proved!Close, Channel!vars, Proved!vars
<1>2. Proved!InOrder => ReservedOrder
  BY DEF Proved!InOrder, ReservedOrder
<1> QED BY <1>1, <1>2, JdwpRefinement, Proved!ChannelInOrder, PTL DEF ReportChannel

-----------------------------------------------------------------------------
(***************************************************************************)
(* A signal ends the monitor.  The provers take ENABLED as it stands; what *)
(* they need of it is CanProceed.                                          *)
(***************************************************************************)

\* How far main is from its end once the flag is set, if it prints nothing more.
Rank(place) == CASE place = "args"    -> 9
                 [] place = "load"    -> 8
                 [] place = "ring"    -> 7
                 [] place = "attach"  -> 6
                 [] place = "call"    -> 5
                 [] place = "wait"    -> 4
                 [] place = "read"    -> 3
                 [] place = "check"   -> 2
                 [] place = "cleanup" -> 1

Stopping(n) ==
  /\ exiting
  /\ main \notin {"handled", "ended"}
  /\ Rank(main) <= n

\* It has ended, or there was a report to print.
Stopped == main \in {"handled", "ended"}

\* No step brings main farther from its end, and one of its own brings it nearer.
LEMMA StopNears ==
  ASSUME TypeOK, [Next]_vars, NEW n \in 1..9, Stopping(n)
  PROVE  /\ Stopping(n)' \/ Stopped'
         /\ Monitor => Stopping(n - 1)' \/ Stopped'
<1> USE DEF TypeOK, Stopping, Stopped
<1>0. /\ Rank("args") = 9 /\ Rank("load") = 8 /\ Rank("ring") = 7 /\ Rank("attach") = 6
      /\ Rank("call") = 5 /\ Rank("wait") = 4 /\ Rank("read") = 3 /\ Rank("check") = 2
      /\ Rank("cleanup") = 1
  BY DEF Rank
<1>1. CASE SetUp
  BY <1>0, <1>1 DEF SetUp
<1>2. CASE SetUpFails
  BY <1>0, <1>2 DEF SetUpFails
<1>3. CASE Check
  BY <1>0, <1>3 DEF Check
<1>4. CASE Call
  BY <1>0, <1>4 DEF Call
<1>5. CASE Timeout \/ WakeUp
  <2>1. main = "wait" /\ main' \in {"check", "read"} /\ exiting' = exiting
    BY <1>5 DEF Timeout, WakeUp
  <2>2. 4 <= n
    BY <1>0, <2>1
  <2> QED BY <1>0, <2>1, <2>2
<1>6. CASE HandleEvent \/ Release \/ Drained
  <2>1. CASE main' = "handled"
    BY <2>1
  <2>2. CASE main' # "handled"
    <3>1. main = "read" /\ main' = "check" /\ exiting' = exiting
      BY <1>6, <2>2 DEF HandleEvent, Release, Drained
    <3>2. 3 <= n
      BY <1>0, <3>1
    <3> QED BY <1>0, <3>1, <3>2
  <2> QED BY <2>1, <2>2
<1>7. CASE Cleanup
  BY <1>0, <1>7 DEF Cleanup
<1>8. CASE ~Monitor
  <2>1. CASE PollFails \/ Continued \/ Signal
    <3>1. exiting' /\ (main' = main \/ (main = "wait" /\ main' = "cleanup"))
      BY <2>1 DEF PollFails, Continued, Signal, Interrupted
    <3> QED BY <1>0, <1>8, <3>1
  <2>2. CASE UNCHANGED <<main, exiting>>
    BY <1>8, <2>2
  <2>3. ASSUME NEW c \in Cpus, Receive(c) \/ Reserve(c) \/ Commit(c)
        PROVE  UNCHANGED <<main, exiting>>
    BY <2>3 DEF Receive, Reserve, Commit, mainVars
  <2> QED BY <1>8, <2>1, <2>2, <2>3 DEF Next, vars, mainVars
<1> QED BY <1>1, <1>2, <1>3, <1>4, <1>5, <1>6, <1>7, <1>8 DEF Monitor

\* A monitor that is obliged to move gets nearer to its end.
StopsFrom(m, n) ==
  /\ TypeOK /\ Stopping(m) /\ [Next]_vars => Stopping(m)' \/ Stopped'
  /\ TypeOK /\ Stopping(m) /\ <<Monitor>>_vars => Stopping(n)' \/ Stopped'
  /\ CanProceed /\ Stopping(m) => ENABLED <<Monitor>>_vars

\* A signal ends the monitor, at whatever point it comes, the set-up and the gap between
\* the test of the flag and epoll_wait included, unless packets keep it printing for ever.
THEOREM SignalStops ==
  FairSpec /\ []CanProceed /\ <>[](main # "handled") => SignalEnds
<1>1. ASSUME NEW n \in 1..9
      PROVE  StopsFrom(n, n - 1)
  <2>1. Monitor => [Next]_vars
    BY DEF Next
  <2>2. CanProceed /\ Stopping(n) => ENABLED <<Monitor>>_vars
    BY DEF CanProceed, Stopping
  <2> QED BY <2>1, <2>2, StopNears DEF StopsFrom
<1>2. /\ StopsFrom(9, 8) /\ StopsFrom(8, 7) /\ StopsFrom(7, 6)
      /\ StopsFrom(6, 5) /\ StopsFrom(5, 4) /\ StopsFrom(4, 3)
      /\ StopsFrom(3, 2) /\ StopsFrom(2, 1) /\ StopsFrom(1, 0)
  <2>1. /\ StopsFrom(9, 9 - 1) /\ StopsFrom(8, 8 - 1) /\ StopsFrom(7, 7 - 1)
        /\ StopsFrom(6, 6 - 1) /\ StopsFrom(5, 5 - 1) /\ StopsFrom(4, 4 - 1)
        /\ StopsFrom(3, 3 - 1) /\ StopsFrom(2, 2 - 1) /\ StopsFrom(1, 1 - 1)
    BY <1>1
  <2> QED BY <2>1
<1>3. TypeOK => /\ exiting => Stopping(9) \/ Stopped
                /\ ~Stopping(0)
  BY DEF TypeOK, Stopping, Stopped, Rank
<1>4. TypeOK /\ [Next]_vars => (exiting => exiting')
  BY DEF Next, Monitor, SetUp, SetUpFails, Check, Call, Timeout, WakeUp, HandleEvent,
         Release, Drained, Cleanup, PollFails, Signal, Continued, Receive, Reserve,
         Commit, mainVars, vars
<1>5. Stopped /\ main # "handled" => main = "ended"
  BY DEF Stopped
<1> QED BY <1>2, <1>3, <1>4, <1>5, JdwpTypeCorrect, PTL
        DEF FairSpec, Spec, SignalEnds, StopsFrom

-----------------------------------------------------------------------------
(***************************************************************************)
(* Nor can packets keep it printing when only so many arrive.  Leads and   *)
(* Hop are reasoned about by name, as for the records of SyscallTracer.    *)
(***************************************************************************)

\* Of a packet there is one report at most.
LEMMA OneReport == Spec => []OnePerPacket
<1>1. Init => OnePerPacket
  <2> SUFFICES ASSUME Init PROVE OnePerPacket
    OBVIOUS
  <2>1. Outputting = {}
    BY DEF Init, Outputting
  <2> QED BY <2>1, FS_EmptySet DEF Init, OnePerPacket
<1>2. ASSUME TypeOK, OnePerPacket, [Next]_vars
      PROVE  OnePerPacket'
  <2>0. /\ IsFiniteSet(Outputting) /\ Cardinality(Outputting) \in Nat
        /\ Len(log) + Cardinality(Outputting) <= packets
        /\ log \in Seq(Record) /\ Len(log) \in Nat /\ packets \in Nat
        /\ prog \in [Cpus -> {"idle", "output", "copy"}]
    BY <1>2, FS_CardinalityType DEF OnePerPacket, TypeOK
  <2>1. ASSUME NEW c \in Cpus, Receive(c)
        PROVE  OnePerPacket'
    <3>1. Outputting' = Outputting \/ Outputting' = Outputting \cup {c}
      BY <2>0, <2>1 DEF Receive, Outputting
    <3>2. packets' = packets + 1 /\ log' = log
      BY <2>1 DEF Receive
    <3>3. IsFiniteSet(Outputting') /\ Cardinality(Outputting') <= Cardinality(Outputting) + 1
      <4>1. /\ IsFiniteSet(Outputting \cup {c})
            /\ Cardinality(Outputting \cup {c}) \in {Cardinality(Outputting),
                                                   Cardinality(Outputting) + 1}
        BY <2>0, FS_AddElement
      <4>2. CASE Outputting' = Outputting
        BY <2>0, <4>2
      <4>3. CASE Outputting' = Outputting \cup {c}
        BY <2>0, <4>1, <4>3
      <4> QED BY <3>1, <4>2, <4>3
    <3>4. Cardinality(Outputting') \in Nat
      BY <3>3, FS_CardinalityType
    <3> QED BY <2>0, <3>2, <3>3, <3>4 DEF OnePerPacket
  <2>2. ASSUME NEW c \in Cpus, Reserve(c)
        PROVE  OnePerPacket'
    <3>1. Outputting' = Outputting \ {c} /\ c \in Outputting
      BY <2>0, <2>2 DEF Reserve, Outputting
    <3>2. packets' = packets /\ Len(log') \in Nat /\ Len(log') <= Len(log) + 1
      BY <2>0, <2>2 DEF Reserve
    <3>3. IsFiniteSet(Outputting') /\ Cardinality(Outputting') = Cardinality(Outputting) - 1
      BY <2>0, <3>1, FS_RemoveElement
    <3> QED BY <2>0, <3>2, <3>3 DEF OnePerPacket
  <2>3. ASSUME NEW c \in Cpus, Commit(c)
        PROVE  OnePerPacket'
    <3>1. Outputting' = Outputting
      BY <2>0, <2>3 DEF Commit, Outputting
    <3>2. packets' = packets /\ Len(log') = Len(log)
      BY <2>0, <2>3 DEF Commit
    <3> QED BY <2>0, <3>1, <3>2 DEF OnePerPacket
  <2>4. CASE Monitor \/ PollFails \/ Signal \/ Continued \/ UNCHANGED vars
    <3>1. UNCHANGED <<log, prog, packets>>
      BY <2>4 DEF Monitor, SetUp, SetUpFails, Check, Call, Timeout, WakeUp, HandleEvent,
             Release, Drained, Cleanup, PollFails, Signal, Continued, bufferVars, xdpVars,
             vars
    <3> QED BY <1>2, <3>1 DEF OnePerPacket, Outputting
  <2> QED BY <1>2, <2>1, <2>2, <2>3, <2>4 DEF Next
<1> QED BY <1>1, <1>2, JdwpTypeCorrect, PTL DEF Spec

\* main does not go back, and when it starts to print, it is one record farther.
LEMMA MonitorForwards ==
  ASSUME TypeOK, [Next]_vars
  PROVE  /\ Released \in Nat /\ Released' \in Nat /\ Released <= Released'
         /\ main # "handled" /\ main' = "handled" => Released' = Released + 1
<1> USE DEF TypeOK, Released
<1>1. CASE HandleEvent
  BY <1>1 DEF HandleEvent
<1>2. CASE Release
  BY <1>2 DEF Release
<1>3. CASE SetUp \/ SetUpFails \/ Check \/ Call \/ Timeout \/ WakeUp \/ Drained \/ Cleanup
  <2>1. cons' = cons /\ main # "handled" /\ main' # "handled"
    BY <1>3 DEF SetUp, SetUpFails, Check, Call, Timeout, WakeUp, Drained, Cleanup,
                bufferVars, readVars
  <2> QED BY <2>1
<1>4. CASE PollFails \/ Signal \/ Continued
  <2>1. cons' = cons /\ (main' = main \/ (main # "handled" /\ main' # "handled"))
    BY <1>4 DEF PollFails, Signal, Continued, Interrupted, bufferVars, readVars
  <2> QED BY <2>1
<1>5. CASE UNCHANGED <<main, cons>>
  BY <1>5
<1>6. ASSUME NEW c \in Cpus, Receive(c) \/ Reserve(c) \/ Commit(c)
      PROVE  UNCHANGED <<main, cons>>
  BY <1>6 DEF Receive, Reserve, Commit, mainVars, readVars
<1> QED BY <1>1, <1>2, <1>3, <1>4, <1>5, <1>6 DEF Next, Monitor, vars

\* The flag is set and r records have been printed: main prints on, or is on its way to
\* its end, or has printed another, or has ended.
Signalled(r)   == exiting /\ Released >= r
PrintingOn(r)  == Signalled(r) /\ main = "handled"
StoppingOn(n, r) == Stopping(n) /\ Released >= r
Further(r)     == Signalled(r + 1) \/ main = "ended"

LEMMA StopsOrPrints ==
  ASSUME TypeOK, [Next]_vars, NEW r \in Nat
  PROVE  /\ Signalled(r) => PrintingOn(r) \/ StoppingOn(9, r) \/ Further(r)
         /\ PrintingOn(r) => PrintingOn(r)' \/ StoppingOn(9, r)' \/ Further(r)'
         /\ PrintingOn(r) /\ Monitor => StoppingOn(9, r)' \/ Further(r)'
         /\ \A n \in 1..9 : StoppingOn(n, r) =>
              /\ StoppingOn(n, r)' \/ Further(r)'
              /\ Monitor => StoppingOn(n - 1, r)' \/ Further(r)'
<1> USE DEF Signalled, PrintingOn, StoppingOn, Further
<1>1. exiting => exiting'
  BY DEF Next, Monitor, SetUp, SetUpFails, Check, Call, Timeout, WakeUp, HandleEvent,
         Release, Drained, Cleanup, PollFails, Signal, Continued, Receive, Reserve,
         Commit, mainVars, vars
<1>2. exiting => main \in {"handled", "ended"} \/ Stopping(9)
  BY DEF TypeOK, Stopping, Rank
<1>3. Signalled(r) => PrintingOn(r) \/ StoppingOn(9, r) \/ Further(r)
  BY <1>2
<1>4. ASSUME Signalled(r) PROVE Signalled(r)'
  BY <1>1, <1>4, MonitorForwards
<1>5. ASSUME PrintingOn(r)
      PROVE  /\ PrintingOn(r)' \/ StoppingOn(9, r)' \/ Further(r)'
             /\ Monitor => StoppingOn(9, r)' \/ Further(r)'
  <2>1. Signalled(r)'
    BY <1>4, <1>5
  <2>2. main' = "handled" \/ main' = "read"
    BY <1>5 DEF Next, Monitor, SetUp, SetUpFails, Check, Call, Timeout, WakeUp, HandleEvent,
         Release, Drained, Cleanup, PollFails, Signal, Continued, Receive, Reserve,
         Commit, mainVars, vars
  <2>3. Monitor => main' = "read"
    BY <1>5 DEF Monitor, SetUp, SetUpFails, Check, Call, Timeout, WakeUp, HandleEvent,
         Release, Drained, Cleanup
  <2>4. main' = "read" => Stopping(9)'
    BY <2>1 DEF Stopping, Rank
  <2> QED BY <2>1, <2>2, <2>3, <2>4
<1>6. ASSUME NEW n \in 1..9, StoppingOn(n, r)
      PROVE  /\ StoppingOn(n, r)' \/ Further(r)'
             /\ Monitor => StoppingOn(n - 1, r)' \/ Further(r)'
  <2>1. Released' >= r /\ Released' \in Nat
    BY <1>6, MonitorForwards
  <2>2. exiting'
    BY <1>1, <1>6 DEF Stopping
  <2>3. Stopped' => Further(r)'
    BY <1>6, <2>2, MonitorForwards DEF Stopped, Stopping
  <2> QED BY <1>6, <2>1, <2>3, StopNears
<1> QED BY <1>3, <1>5, <1>6

\* What the steps of StopsOrPrints come to for a monitor that is obliged to move.
GoesFrom(m, n, r) ==
  /\ TypeOK /\ StoppingOn(m, r) /\ [Next]_vars => StoppingOn(m, r)' \/ Further(r)'
  /\ TypeOK /\ StoppingOn(m, r) /\ <<Monitor>>_vars => StoppingOn(n, r)' \/ Further(r)'
  /\ CanProceed /\ StoppingOn(m, r) => ENABLED <<Monitor>>_vars

GetsFurther(r) == Signalled(r) ~> Further(r)

\* Once the flag is set, main prints another record or ends.
LEMMA SignalledMoves ==
  ASSUME NEW r \in Nat
  PROVE  FairSpec /\ []CanProceed => GetsFurther(r)
<1>1. ASSUME NEW n \in 1..9
      PROVE  GoesFrom(n, n - 1, r)
  <2>1. Monitor => [Next]_vars
    BY DEF Next
  <2>2. CanProceed /\ StoppingOn(n, r) => ENABLED <<Monitor>>_vars
    BY DEF CanProceed, StoppingOn, Stopping
  <2> QED BY <2>1, <2>2, StopsOrPrints DEF GoesFrom
<1>2. /\ GoesFrom(9, 8, r) /\ GoesFrom(8, 7, r) /\ GoesFrom(7, 6, r)
      /\ GoesFrom(6, 5, r) /\ GoesFrom(5, 4, r) /\ GoesFrom(4, 3, r)
      /\ GoesFrom(3, 2, r) /\ GoesFrom(2, 1, r) /\ GoesFrom(1, 0, r)
  <2>1. /\ GoesFrom(9, 9 - 1, r) /\ GoesFrom(8, 8 - 1, r) /\ GoesFrom(7, 7 - 1, r)
        /\ GoesFrom(6, 6 - 1, r) /\ GoesFrom(5, 5 - 1, r) /\ GoesFrom(4, 4 - 1, r)
        /\ GoesFrom(3, 3 - 1, r) /\ GoesFrom(2, 2 - 1, r) /\ GoesFrom(1, 1 - 1, r)
    BY <1>1
  <2> QED BY <2>1
<1>3. TypeOK /\ [Next]_vars =>
        /\ Signalled(r) => PrintingOn(r) \/ StoppingOn(9, r) \/ Further(r)
        /\ PrintingOn(r) => PrintingOn(r)' \/ StoppingOn(9, r)' \/ Further(r)'
        /\ PrintingOn(r) /\ <<Monitor>>_vars => StoppingOn(9, r)' \/ Further(r)'
  BY StopsOrPrints
<1>4. TypeOK => ~StoppingOn(0, r)
  BY DEF TypeOK, StoppingOn, Stopping, Rank
<1>5. CanProceed /\ PrintingOn(r) => ENABLED <<Monitor>>_vars
  BY DEF CanProceed, PrintingOn
<1>6. FairSpec /\ []CanProceed => (StoppingOn(9, r) ~> Further(r))
  BY <1>2, <1>4, JdwpTypeCorrect, PTL DEF FairSpec, Spec, GoesFrom
<1>7. FairSpec /\ []CanProceed => (PrintingOn(r) ~> (StoppingOn(9, r) \/ Further(r)))
  BY <1>3, <1>5, JdwpTypeCorrect, PTL DEF FairSpec, Spec
<1>8. FairSpec => [](Signalled(r) => PrintingOn(r) \/ StoppingOn(9, r) \/ Further(r))
  BY <1>3, JdwpTypeCorrect, PTL DEF FairSpec, Spec
<1> QED BY <1>6, <1>7, <1>8, PTL DEF GetsFurther

\* The flag is set, and d more records would be more than packets can arrive.
Left(d) == exiting /\ Released + d > MaxPackets

Leads(d, e) == Left(d) ~> (Left(e) \/ main = "ended")
Hop(m) == \A d \in Nat : Leads(d + m, d)

LEMMA HopOne == FairSpec /\ []CanProceed => Hop(1)
<1>1. ASSUME NEW d \in Nat
      PROVE  FairSpec /\ []CanProceed => Leads(d + 1, d)
  <2>0. TypeOK => Released \in Nat
    BY DEF TypeOK, Released
  <2>1. CASE d > MaxPackets
    <3>1. TypeOK /\ Left(d + 1) => Left(d)
      BY <2>0, <2>1, JdwpAssumption DEF Left
    <3> QED BY <3>1, JdwpTypeCorrect, PTL DEF FairSpec, Leads
  <2>2. CASE ~(d > MaxPackets)
    <3> DEFINE r == MaxPackets - d
    <3>1. r \in Nat
      BY <2>2, JdwpAssumption
    <3>2. TypeOK /\ Left(d + 1) => Signalled(r)
      BY <2>0, <2>2, JdwpAssumption DEF Left, Signalled
    <3>3. TypeOK /\ Further(r) => Left(d) \/ main = "ended"
      BY <2>0, <2>2, JdwpAssumption DEF Left, Signalled, Further
    <3>4. FairSpec /\ []CanProceed => GetsFurther(r)
      BY <3>1, SignalledMoves
    <3> HIDE DEF r
    <3> QED BY <3>2, <3>3, <3>4, JdwpTypeCorrect, PTL DEF FairSpec, Leads, GetsFurther
  <2> QED BY <2>1, <2>2
<1> QED BY <1>1 DEF Hop

\* A distance that is covered can be covered twice in a row, and sixteen times.
LEMMA HopTwice == ASSUME NEW m \in Nat PROVE Hop(m) => Hop(2 * m)
<1>1. ASSUME NEW d \in Nat
      PROVE  Hop(m) => Leads(d + 2 * m, d)
  <2>1. Hop(m) => Leads((d + m) + m, d + m) /\ Leads(d + m, d)
    BY DEF Hop
  <2>2. (d + m) + m = d + 2 * m
    OBVIOUS
  <2>3. Hop(m) => Leads(d + 2 * m, d + m) /\ Leads(d + m, d)
    BY <2>1, <2>2
  <2> QED BY <2>3, PTL DEF Leads
<1> QED BY <1>1 DEF Hop

LEMMA HopSixteen == ASSUME NEW m \in Nat PROVE Hop(m) => Hop(16 * m)
<1>1. Hop(m) => Hop(2 * m)
  BY HopTwice
<1>2. Hop(2 * m) => Hop(4 * m)
  BY HopTwice, 2 * (2 * m) = 4 * m
<1>3. Hop(4 * m) => Hop(8 * m)
  BY HopTwice, 2 * (4 * m) = 8 * m
<1>4. Hop(8 * m) => Hop(16 * m)
  BY HopTwice, 2 * (8 * m) = 16 * m
<1> QED BY <1>1, <1>2, <1>3, <1>4

LEMMA HopFar == FairSpec /\ []CanProceed => Hop(4294967296)
<1>1. Hop(1) => Hop(16)
  BY HopSixteen, 16 * 1 = 16
<1>2. Hop(16) => Hop(256)
  BY HopSixteen, 16 * 16 = 256
<1>3. Hop(256) => Hop(4096)
  BY HopSixteen, 16 * 256 = 4096
<1>4. Hop(4096) => Hop(65536)
  BY HopSixteen, 16 * 4096 = 65536
<1>5. Hop(65536) => Hop(1048576)
  BY HopSixteen, 16 * 65536 = 1048576
<1>6. Hop(1048576) => Hop(16777216)
  BY HopSixteen, 16 * 1048576 = 16777216
<1>7. Hop(16777216) => Hop(268435456)
  BY HopSixteen, 16 * 16777216 = 268435456
<1>8. Hop(268435456) => Hop(4294967296)
  BY HopSixteen, 16 * 268435456 = 4294967296
<1> QED BY HopOne, <1>1, <1>2, <1>3, <1>4, <1>5, <1>6, <1>7, <1>8

\* When packets stop arriving after fewer than 2^32, a signal ends the monitor, however
\* many reports stand in the buffer and whatever place main was at.
THEOREM SignalStopsAfterPackets ==
  ASSUME MaxPackets < 4294967296
  PROVE  FairSpec /\ []CanProceed => SignalEnds
<1>1. FairSpec /\ []CanProceed => Leads(0 + 4294967296, 0)
  BY HopFar DEF Hop
<1>2. TypeOK /\ exiting => Left(0 + 4294967296)
  BY JdwpAssumption DEF TypeOK, Released, Left
<1>3. IInv /\ OnePerPacket => ~Left(0)
  <2> SUFFICES ASSUME IInv, OnePerPacket PROVE Released <= MaxPackets
    BY JdwpAssumption DEF Left, IInv, TypeOK, Released
  <2>1. Cardinality(Outputting) \in Nat /\ Len(log) + Cardinality(Outputting) <= packets
    BY FS_CardinalityType DEF OnePerPacket
  <2>2. Released <= Len(log)
    BY DEF IInv, TypeOK, PrintedAreReady, Released
  <2>3. Released \in Nat /\ Len(log) \in Nat /\ packets \in 0..MaxPackets
    BY DEF IInv, TypeOK, Released
  <2> QED BY <2>1, <2>2, <2>3, JdwpAssumption
<1> QED BY <1>1, <1>2, <1>3, JdwpInvariance, JdwpTypeCorrect, OneReport, PTL
        DEF FairSpec, Leads, SignalEnds
=============================================================================
